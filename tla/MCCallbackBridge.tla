-------------------------- MODULE MCCallbackBridge --------------------------
(* CallbackBridge with model values for TLC.                               *)
EXTENDS CallbackBridge, TLC
CONSTANTS t1, t2, n1, n2, c1, c2, c3

OneAppThread == {t1}
TwoAppThreads == {t1, t2}
OneNativeThread == {n1}
TwoNativeThreads == {n1, n2}
TwoCallbacks == {c1, c2}
ThreeCallbacks == {c1, c2, c3}

Symmetry == Permutations(TwoAppThreads) \cup Permutations(TwoNativeThreads)
              \cup Permutations(ThreeCallbacks)
=============================================================================
