-------------------------- MODULE CallbackContract --------------------------
(***************************************************************************)
(* What the bindings promise to a program that registers Python callables. *)
(* A callable enters a registration by the call that offers it, and leaves *)
(* by being replaced or removed.  Only registered callables are delivered, *)
(* one per native thread, and only while the session delivers.  A callable *)
(* is deleted once, when nothing can reach it any more.                    *)
(***************************************************************************)
CONSTANTS
  NativeThreads, \* SDK threads that deliver callbacks
  Kinds,         \* the callback registrations in use
  Callbacks,     \* identities of PyCallback objects
  Replaceable,   \* the registrations that a second call replaces
  NoCallback

VARIABLES
  offered,   \* callables whose registration has not been decided
  sub,       \* the callable registered for each kind
  delivered, \* the callable that each native thread delivers
  connected, \* the session delivers callbacks
  live       \* the callables that have not been deleted

vars == <<offered, sub, delivered, connected, live>>

Reachable(c) ==
  \/ c \in offered
  \/ \E k \in Kinds : sub[k] = c
  \/ \E n \in NativeThreads : delivered[n] = c

Init ==
  /\ offered = {}
  /\ sub = [k \in Kinds |-> NoCallback]
  /\ delivered = [n \in NativeThreads |-> NoCallback]
  /\ connected = FALSE
  /\ live = {}

Open == connected' = TRUE /\ UNCHANGED <<offered, sub, delivered, live>>

Offer(c) ==
  /\ c \notin live
  /\ live' = live \cup {c}
  /\ offered' = offered \cup {c}
  /\ UNCHANGED <<sub, delivered, connected>>

Register(k, c) ==
  /\ c \in offered
  /\ k \in Replaceable \/ sub[k] = NoCallback
  /\ offered' = offered \ {c}
  /\ sub' = [sub EXCEPT ![k] = c]
  /\ UNCHANGED <<delivered, connected, live>>

Decline(c) ==
  /\ c \in offered
  /\ offered' = offered \ {c}
  /\ UNCHANGED <<sub, delivered, connected, live>>

Removed(ks) == sub' = [k \in Kinds |-> IF k \in ks THEN NoCallback ELSE sub[k]]

Stop(k) == Removed({k}) /\ UNCHANGED <<offered, delivered, connected, live>>

(* A session that closes takes every registration that is not replaceable; *)
(* one that is destroyed takes them all.                                   *)
Close ==
  /\ connected' = FALSE
  /\ Removed(Kinds \ Replaceable) \/ Removed(Kinds)
  /\ UNCHANGED <<offered, delivered, live>>

Deliver(n, k) ==
  /\ connected
  /\ sub[k] # NoCallback
  /\ delivered[n] = NoCallback
  /\ delivered' = [delivered EXCEPT ![n] = sub[k]]
  /\ UNCHANGED <<offered, sub, connected, live>>

Return(n) ==
  /\ delivered' = [delivered EXCEPT ![n] = NoCallback]
  /\ UNCHANGED <<offered, sub, connected, live>>

Delete(cs) ==
  /\ cs \subseteq live
  /\ \A c \in cs : ~Reachable(c)
  /\ live' = live \ cs
  /\ UNCHANGED <<offered, sub, delivered, connected>>

Next ==
  \/ Open \/ Close
  \/ \E k \in Kinds : Stop(k)
  \/ \E c \in Callbacks : Offer(c) \/ Decline(c)
  \/ \E k \in Kinds, c \in Callbacks : Register(k, c)
  \/ \E n \in NativeThreads, k \in Kinds : Deliver(n, k)
  \/ \E n \in NativeThreads : Return(n)
  \/ \E cs \in SUBSET Callbacks : Delete(cs)

Spec == Init /\ [][Next]_vars
=============================================================================
