----------------------- MODULE HighLevelConsoleProofs -----------------------
(***************************************************************************)
(* Proofs about HighLevelConsole.  What action_active, the last report and *)
(* the control session say about the velocity of the robot (Motion), and   *)
(* who may have control in each step of the exit (Leaving).                *)
(***************************************************************************)
EXTENDS HighLevelConsole, TLAPS

(* Motion that the console does not know to be reported has an action that *)
(* release_control will clear, until it is about to give control back.     *)
Motion ==
  speed = "moving" =>
    /\ warned \/ blind \/ action_active
    /\ session = "controlled" \/ released \/ pc = "done"
    /\ pc = "releaseControl" \/ released => warned \/ blind

(* Control that was given back is gone until it is granted again.          *)
ReleasedIsGone == released => session # "controlled"

Leaving ==
  /\ cmd = "quit" => pc \in Exit \cup {"release", "done"}
  /\ pc \in {"disconnect", "done"} => cmd = "quit"
  /\ pc = "awaitRelease" /\ cmd = "quit" /\ session = "controlled" => raced
  /\ pc = "disconnect" /\ session = "controlled" => refused \/ raced
  /\ pc = "done" => session = "none" /\ ~asked
  /\ kept => pc = "done" /\ (refused \/ raced)

(* Which command is where.                                                 *)
CommandShape ==
  /\ pc = "connect" => session = "none" /\ speed # "moving" /\ ~asked
  /\ pc = "discover" => cmd = "none"
  /\ pc \in {"take", "startControl", "awaitControl"} => cmd \in {"none", "take"}
  /\ pc \in {"sleep", "clear"} => cmd = "send"
  /\ pc \in Exit \cup {"release"} => cmd \in {"release", "quit"}

IInv == CommandShape /\ TypeOK /\ Motion /\ ReleasedIsGone /\ SendEndsAtRest /\ Leaving

(* Nothing moves before the first request.                                 *)
LEMMA InitInvariant == Init => IInv
<1> SUFFICES ASSUME Init PROVE IInv
  OBVIOUS
<1>1. session \in Sessions /\ speed \in Speeds /\ pc \in Pc /\ cmd \in Commands
  BY Zenon DEF Init, Sessions, Speeds, Pc, AtPrompt, Commands
<1>2. TypeOK
  BY <1>1, Zenon DEF Init, TypeOK
<1>3. Motion /\ ReleasedIsGone /\ SendEndsAtRest /\ Leaving /\ CommandShape
  BY Zenon DEF Init, CommandShape, AtPrompt, Exit, Motion, ReleasedIsGone, SendEndsAtRest, Leaving
<1>4. QED
  BY <1>2, <1>3 DEF IInv

(* Only a client that has control changes the velocity.                    *)
LEMMA OutcomeNeedsControl ==
  ASSUME NEW o \in Outcomes
  PROVE  /\ o \in {"answered", "unanswered", "failed"}
         /\ o # "failed" => session = "controlled"
BY DEF Outcomes

(* Every request of a command preserves the invariant.                     *)
LEMMA RequestInvariant ==
  ASSUME IInv, NEW o \in Outcomes, NEW v \in {"zero", "moving"},
         \/ StartAction(o, v) \/ Set(o, v) \/ Send(o, v)
         \/ Zero(o) \/ StopAction(o) \/ EmergencyStop(o) \/ ClearAfterSend(o)
         \/ ClearFirst(o) \/ ReleaseControl(o)
  PROVE  IInv'
<1> USE OutcomeNeedsControl
    DEF IInv, TypeOK, Motion, ReleasedIsGone, SendEndsAtRest, Leaving, CommandShape, Sessions, Speeds,
        Pc, AtPrompt, Exit, Commands, Requests, Apply, SetParams, Request, After
<1>1. CASE StartAction(o, v)
  BY <1>1 DEF StartAction
<1>2. CASE Set(o, v)
  BY <1>2 DEF Set
<1>3. CASE Send(o, v)
  BY <1>3 DEF Send
<1>4. CASE Zero(o)
  BY <1>4 DEF Zero
<1>5. CASE StopAction(o)
  BY <1>5 DEF StopAction
<1>6. CASE EmergencyStop(o)
  BY <1>6 DEF EmergencyStop
<1>7. CASE ClearAfterSend(o)
  BY <1>7 DEF ClearAfterSend, console
<1>8. CASE ClearFirst(o)
  <2>1. TypeOK'
    BY <1>8 DEF ClearFirst
  <2>2. Motion'
    BY <1>8 DEF ClearFirst
  <2>3. ReleasedIsGone' /\ SendEndsAtRest'
    BY <1>8 DEF ClearFirst
  <2>4. Leaving' /\ CommandShape'
    BY <1>8 DEF ClearFirst
  <2>5. QED
    BY <2>1, <2>2, <2>3, <2>4
<1>9. CASE ReleaseControl(o)
  <2>1. TypeOK'
    BY <1>9 DEF ReleaseControl, console
  <2>2. Motion'
    BY <1>9 DEF ReleaseControl, console
  <2>3. ReleasedIsGone' /\ SendEndsAtRest'
    BY <1>9 DEF ReleaseControl, console
  <2>4. Leaving' /\ CommandShape'
    BY <1>9 DEF ReleaseControl, console
  <2>5. QED
    BY <2>1, <2>2, <2>3, <2>4
<1>10. QED
  BY <1>1, <1>2, <1>3, <1>4, <1>5, <1>6, <1>7, <1>8, <1>9

(* So does every step that sends no request.                               *)
LEMMA QuietInvariant ==
  ASSUME IInv,
         \/ \E ok \in BOOLEAN : Connect(ok) \/ StartControl(ok)
         \/ \E found, readOnly \in BOOLEAN : Discover(found, readOnly)
         \/ TakeControl \/ AwaitControl \/ LeavePrompt \/ RequireControl
         \/ Sleep \/ Release \/ AwaitRelease \/ Disconnect
         \/ BeginLine \/ LineEnds
  PROVE  IInv'
<1> USE DEF IInv, TypeOK, Motion, ReleasedIsGone, SendEndsAtRest, Leaving, CommandShape, Sessions, Speeds,
            Pc, AtPrompt, Exit, Commands, Requests, After, console, history
<1>1. ASSUME NEW ok \in BOOLEAN, Connect(ok) PROVE IInv'
  <2>1. TypeOK'
    BY <1>1 DEF Connect
  <2>2. Motion'
    BY <1>1 DEF Connect
  <2>3. ReleasedIsGone' /\ SendEndsAtRest'
    BY <1>1 DEF Connect
  <2>4. Leaving' /\ CommandShape'
    BY <1>1 DEF Connect
  <2>5. QED
    BY <2>1, <2>2, <2>3, <2>4
<1>2. ASSUME NEW ok \in BOOLEAN, StartControl(ok) PROVE IInv'
  <2>0. asked' \in BOOLEAN
    BY <1>2, Zenon DEF StartControl, IInv, TypeOK
  <2>1. TypeOK'
    BY <1>2, <2>0 DEF StartControl
  <2>2. Motion'
    BY <1>2 DEF StartControl
  <2>3. ReleasedIsGone' /\ SendEndsAtRest'
    BY <1>2 DEF StartControl
  <2>4. Leaving' /\ CommandShape'
    BY <1>2 DEF StartControl
  <2>5. QED
    BY <2>1, <2>2, <2>3, <2>4
<1>3. ASSUME NEW found \in BOOLEAN, NEW readOnly \in BOOLEAN, Discover(found, readOnly)
      PROVE  IInv'
  BY <1>3 DEF Discover
<1>4. CASE TakeControl
  <2>0. controlled' \in BOOLEAN
    BY <1>4, Zenon DEF TakeControl, IInv, TypeOK
  <2>1. TypeOK'
    BY <1>4, <2>0 DEF TakeControl
  <2>2. Motion'
    BY <1>4 DEF TakeControl
  <2>3. ReleasedIsGone' /\ SendEndsAtRest'
    BY <1>4 DEF TakeControl
  <2>4. Leaving' /\ CommandShape'
    BY <1>4 DEF TakeControl
  <2>5. QED
    BY <2>1, <2>2, <2>3, <2>4
<1>5. CASE AwaitControl
  <2>1. TypeOK'
    BY <1>5 DEF AwaitControl
  <2>2. Motion'
    BY <1>5 DEF AwaitControl
  <2>3. ReleasedIsGone' /\ SendEndsAtRest'
    BY <1>5 DEF AwaitControl
  <2>4. Leaving' /\ CommandShape'
    BY <1>5 DEF AwaitControl
  <2>5. QED
    BY <2>1, <2>2, <2>3, <2>4
<1>6. CASE LeavePrompt
  BY <1>6 DEF LeavePrompt
<1>7. CASE RequireControl
  BY <1>7 DEF RequireControl
<1>8. CASE Sleep
  BY <1>8 DEF Sleep
<1>9. CASE Release
  BY <1>9 DEF Release
<1>10. CASE AwaitRelease
  <2>0. controlled' \in BOOLEAN
    BY <1>10, Zenon DEF AwaitRelease, IInv, TypeOK
  <2>1. TypeOK'
    BY <1>10, <2>0 DEF AwaitRelease
  <2>2. Motion'
    BY <1>10 DEF AwaitRelease
  <2>3. ReleasedIsGone' /\ SendEndsAtRest'
    BY <1>10 DEF AwaitRelease
  <2>4. Leaving' /\ CommandShape'
    BY <1>10 DEF AwaitRelease
  <2>5. QED
    BY <2>1, <2>2, <2>3, <2>4
<1>11. CASE Disconnect
  BY <1>11 DEF Disconnect
<1>12. ASSUME NEW c \in Commands \ {"none"}, Read(c) PROVE IInv'
  BY <1>12 DEF Read
<1>13. CASE BeginLine
  BY <1>13 DEF BeginLine
<1>14. CASE ReadNothing
  BY <1>14 DEF ReadNothing
<1>15. QED
  BY <1>1, <1>2, <1>3, <1>4, <1>5, <1>6, <1>7, <1>8, <1>9, <1>10, <1>11, <1>12,
     <1>13, <1>14
  DEF LineEnds

(* So does whatever the SDK, the robot and the user's signals do.          *)
LEMMA EnvironmentInvariant ==
  ASSUME IInv, Environment
  PROVE  IInv'
<1> USE DEF IInv, TypeOK, Motion, ReleasedIsGone, SendEndsAtRest, Leaving, CommandShape, Sessions, Speeds,
            Pc, AtPrompt, Exit, Commands, Requests, console, history
<1>1. CASE Grant
  <2>1. TypeOK'
    BY <1>1 DEF Grant
  <2>2. Motion'
    BY <1>1 DEF Grant
  <2>3. ReleasedIsGone' /\ SendEndsAtRest'
    BY <1>1 DEF Grant
  <2>4. Leaving' /\ CommandShape'
    BY <1>1 DEF Grant
  <2>5. QED
    BY <2>1, <2>2, <2>3, <2>4
<1>2. CASE DropRequest
  <2>0. asked' \in BOOLEAN
    BY <1>2, Zenon DEF DropRequest, IInv, TypeOK
  <2>1. TypeOK'
    BY <1>2, <2>0 DEF DropRequest
  <2>2. Motion'
    BY <1>2 DEF DropRequest
  <2>3. ReleasedIsGone' /\ SendEndsAtRest'
    BY <1>2 DEF DropRequest
  <2>4. Leaving' /\ CommandShape'
    BY <1>2 DEF DropRequest
  <2>5. QED
    BY <2>1, <2>2, <2>3, <2>4
<1>3. CASE Lose
  BY <1>3 DEF Lose
<1>4. CASE Recover
  BY <1>4 DEF Recover
<1>5. CASE OnSignal
  BY <1>5 DEF OnSignal
<1>6. QED
  BY <1>1, <1>2, <1>3, <1>4, <1>5 DEF Environment

(* The inductive invariant of the console.                                 *)
THEOREM Invariance == Spec => []IInv
<1>1. IInv /\ UNCHANGED vars => IInv'
  BY DEF IInv, TypeOK, Motion, ReleasedIsGone, SendEndsAtRest, Leaving, CommandShape, vars,
         console, history
<1>2. IInv /\ [Next]_vars => IInv'
  BY <1>1, RequestInvariant, QuietInvariant, EnvironmentInvariant DEF Next, Step
<1>3. QED
  BY <1>2, InitInvariant, PTL DEF Spec

(* The console keeps the types of its state.                               *)
THEOREM TypeCorrect == Spec => []TypeOK
<1>1. IInv => TypeOK
  BY DEF IInv
<1>2. QED
  BY <1>1, Invariance, PTL

(* Control is not given back with the robot in motion that the console     *)
(* started, whatever requests fail or time out, without a report.          *)
THEOREM ReleaseClears == Spec => []ReleaseClearsStartedAction
<1>1. IInv => ReleaseClearsStartedAction
  BY DEF IInv, Motion, ReleaseClearsStartedAction
<1>2. QED
  BY <1>1, Invariance, PTL

(* A timed send ends at rest or is reported, signals included.             *)
THEOREM SendIsTimed == Spec => []SendEndsAtRest
<1>1. IInv => SendEndsAtRest
  BY DEF IInv
<1>2. QED
  BY <1>1, Invariance, PTL

(* The program keeps no control on exit unless its release was refused or  *)
(* control was granted after its last check.                               *)
THEOREM ExitReleases == Spec => []ExitGivesControlBack
<1>1. IInv => ExitGivesControlBack
  BY DEF IInv, Leaving, ExitGivesControlBack
<1>2. QED
  BY <1>1, Invariance, PTL
=============================================================================
