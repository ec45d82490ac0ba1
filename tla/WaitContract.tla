---------------------------- MODULE WaitContract ----------------------------
(***************************************************************************)
(* What waiting for a session state promises its caller: some time later   *)
(* it answers whether the session is in that state when it answers.  The   *)
(* commands of the policy console rely on it (PolicyLoop!WaitState).       *)
(***************************************************************************)
VARIABLES
  state, \* the session is in the state waited for, or in another one
  answer \* of the wait

vars == <<state, answer>>

States  == {"target", "other"}
Answers == {"none", "waiting", "true", "false"}

Init == state \in States /\ answer = "none"

Begin == answer # "waiting" /\ answer' = "waiting" /\ state' \in States

Change == state' \in States /\ UNCHANGED answer

Answer ==
  /\ answer = "waiting"
  /\ answer' = IF state = "target" THEN "true" ELSE "false"
  /\ UNCHANGED state

Next == Begin \/ Change \/ Answer

Spec == Init /\ [][Next]_vars /\ WF_vars(Answer)
=============================================================================
