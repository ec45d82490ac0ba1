------------------------------ MODULE StateWait ------------------------------
(***************************************************************************)
(* Waiting for a session state with a threading.Event: wait_state_cb of    *)
(* src/examples/example_lowlevel.py, _wait_lowlevel_state of               *)
(* src/examples/example_lowlevel_tensorrt.py and wait_for_state of         *)
(* src/examples/release_control_to_dv500.py.                               *)
(*                                                                         *)
(* The connect callback sets the event on an SDK thread after each change. *)
(* The waiter reads the state, clears the event and waits for it: a change *)
(* between the two loses its wake-up.  The second and third program cap    *)
(* the wait, the first does not (Cap = Timeout); the third sleeps no less  *)
(* than a minimum, past its deadline if need be.                           *)
(*                                                                         *)
(* The SDK is not part of the repository: it changes the state and then    *)
(* calls the callback.  Time passes only while the waiter sleeps and no    *)
(* callback is due: what is late here is late by the waiter's own doing.   *)
(***************************************************************************)
EXTENDS Naturals

CONSTANTS
  Timeout,    \* of the whole wait
  Cap,        \* of one sleep
  LeastSleep, \* of the program that does not sleep for less, even at its deadline
  MaxChanges, \* bound: changes of the session during one wait
  ChecksStop  \* the loop looks at the flag that the signal handler sets

ASSUME ConstantsAssumption ==
  /\ Timeout \in Nat
  /\ Cap \in Nat \ {0}
  /\ LeastSleep \in 0 .. Cap
  /\ MaxChanges \in Nat
  /\ ChecksStop \in BOOLEAN

VARIABLES
  state, \* the session is in the state waited for, or in another one
  due,   \* a change whose callback has not run
  event, \* the threading.Event
  stop,  \* the flag of the signal handler
  pc,    \* where the waiter is
  clock, \* time since the wait began
  timer, \* what is left of the sleep
  changes, \* of the session since the wait began
  held,  \* time the session has been in the state waited for
  heard  \* time since the signal

waitVars == <<state, due, event, stop, pc, clock, timer, changes, held, heard>>

States  == {"target", "other"}
Waiting == {"check", "clear", "wait"}
Pc      == {"none", "true", "false"} \cup Waiting

WaitInit ==
  /\ state \in States
  /\ due = FALSE /\ event = FALSE /\ stop = FALSE
  /\ pc = "none" /\ clock = 0 /\ timer = 0 /\ changes = 0
  /\ held = 0 /\ heard = 0

-----------------------------------------------------------------------------
(* The SDK thread and the signal handler.                                  *)

(* The session of a wait changes a bounded number of times: one that       *)
(* flapped for ever without time passing would keep the waiter awake.      *)
Change ==
  /\ ~due
  /\ changes < MaxChanges \/ pc \notin Waiting
  /\ changes' = IF pc \in Waiting THEN changes + 1 ELSE changes
  /\ state' = IF state = "target" THEN "other" ELSE "target"
  /\ due' = TRUE
  /\ held' = 0
  /\ UNCHANGED <<event, stop, pc, clock, timer, heard>>

OnConnect ==
  /\ due
  /\ due' = FALSE
  /\ event' = TRUE
  /\ UNCHANGED <<state, stop, pc, clock, timer, changes, held, heard>>

OnSignal ==
  /\ ~stop
  /\ stop' = TRUE
  /\ heard' = 0
  /\ UNCHANGED <<state, due, event, pc, clock, timer, changes, held>>

-----------------------------------------------------------------------------
(* The waiter.                                                             *)

(* The next wait of the program, for another state, with the same event.   *)
Begin ==
  /\ pc \notin Waiting
  /\ ~stop
  /\ pc' = "check"
  /\ clock' = 0 /\ changes' = 0 /\ held' = 0
  /\ state' \in States
  /\ UNCHANGED <<due, event, stop, timer, heard>>

CheckDeadlineFirst ==
  /\ pc = "check"
  /\ pc' = IF (stop /\ ChecksStop) \/ clock >= Timeout THEN "false"
           ELSE IF state = "target" THEN "true" ELSE "clear"
  /\ UNCHANGED <<state, due, event, stop, clock, timer, changes, held, heard>>

(* get_state(), and only then the flag and the deadline.                   *)
CheckState ==
  /\ pc = "check"
  /\ pc' = IF state = "target" THEN "true"
           ELSE IF (stop /\ ChecksStop) \/ clock >= Timeout THEN "false" ELSE "clear"
  /\ UNCHANGED <<state, due, event, stop, clock, timer, changes, held, heard>>

SleepsToDeadline == {Timeout - clock}

(* min(remain, 0.5); the release script takes max(0.05, min(0.5, remain)). *)
Capped == IF Cap < Timeout - clock THEN Cap ELSE Timeout - clock

Sleeps == {Capped, IF Capped < LeastSleep THEN LeastSleep ELSE Capped}

(* state_event.clear(), state_event.wait(...).                             *)
Clear ==
  /\ pc = "clear"
  /\ event' = FALSE
  /\ timer' \in Sleeps
  /\ pc' = "wait"
  /\ UNCHANGED <<state, due, stop, clock, changes, held, heard>>

Wake ==
  /\ pc = "wait"
  /\ event \/ timer = 0
  /\ pc' = "check"
  /\ UNCHANGED <<state, due, event, stop, clock, timer, changes, held, heard>>

(* A signal handler runs inside the sleep and does not end it.             *)
Tick ==
  /\ pc = "wait" /\ ~event /\ ~due /\ timer > 0
  /\ clock' = clock + 1
  /\ timer' = timer - 1
  /\ held' = IF state = "target" THEN held + 1 ELSE 0
  /\ heard' = IF stop THEN heard + 1 ELSE 0
  /\ UNCHANGED <<state, due, event, stop, pc, changes>>

WaitNext == Change \/ OnConnect \/ OnSignal \/ Begin \/ CheckState \/ Clear \/ Wake \/ Tick

WaitSpec == WaitInit /\ [][WaitNext]_waitVars

(* The waiter and the callback are scheduled, and time passes in a sleep.  *)
WaitFairness ==
  /\ WF_waitVars(OnConnect) /\ WF_waitVars(CheckState) /\ WF_waitVars(Clear) /\ WF_waitVars(Wake)
  /\ WF_waitVars(Tick)

FairWait == WaitSpec /\ WaitFairness

-----------------------------------------------------------------------------

(* The types of the state; the clock passes the deadline by less than the  *)
(* least sleep.                                                            *)
WaitTypeOK ==
  /\ state \in States
  /\ due \in BOOLEAN /\ event \in BOOLEAN /\ stop \in BOOLEAN
  /\ pc \in Pc
  /\ clock \in 0 .. Timeout + LeastSleep
  /\ changes \in 0 .. MaxChanges
  /\ timer \in Nat /\ held \in Nat /\ heard \in Nat

(* A capped wait overlooks the state it waits for, and the stop flag, for  *)
(* at most the time of one sleep, although a wake-up can be lost.          *)
OverlooksAtMostOneSleep ==
  pc \in Waiting => held <= Cap /\ (ChecksStop => heard <= Cap)

C == INSTANCE WaitContract WITH answer <- IF pc \in Waiting THEN "waiting" ELSE pc

(* A wait answers, and its answer is what the session's state is: a sleep  *)
(* that runs into the deadline looks at the state once more.               *)
KeepsWaitContract == C!Spec
=============================================================================
