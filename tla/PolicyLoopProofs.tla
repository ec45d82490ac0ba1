-------------------------- MODULE PolicyLoopProofs --------------------------
(***************************************************************************)
(* Proofs about PolicyLoop: type correctness and the safety invariants.    *)
(*                                                                         *)
(* The inductive invariant says where time and the pauses leave the loop.  *)
(* A cycle in flight when pause() sets the mode is older, period by period,*)
(* than the time slept (PauseOutlastsCycle), so that from the end of the   *)
(* sleep on the loop is between two cycles (LoopIsQuiet).  What the console*)
(* notes follows from it: the posture tells the mode (PostureTellsMode),   *)
(* and until control lapses, or a transition frame is refused, the mode    *)
(* tells the pose of the robot (ModeTellsBody).  A transition continues its*)
(* own frames because no late grant arrives while it runs                  *)
(* (TransitionContinues).                                                  *)
(***************************************************************************)
EXTENDS PolicyLoop, TLAPS

(* Between loop.pause() and loop.hold(), and from there to the end.        *)
QuietPc  == {"transition", "hold", "verify", "disable", "waitConnected", "handOver",
             "close", "join", "finalDisable", "disconnect", "policyClose", "done"}
FinalPc  == {"finalDisable", "disconnect", "policyClose", "done"}
QuitPc   == {"pause", "paused", "close", "join"} \cup FinalPc
PromptPc == {"prompt", "ensure", "waitPrepared", "recheck", "walk"}
Moving   == {"stand", "walk", "walkPrepare", "stop", "lay"}

(* Which command is where.                                                 *)
CommandShape ==
  /\ cmd = "quit" => mpc \in QuitPc \cup {"aborted"}
  /\ mpc \in {"close", "join", "aborted"} \cup FinalPc => cmd = "quit"
  /\ mpc \in {"transition", "hold"} => cmd \in Moving \ {"walk"}
  /\ mpc = "walk" => cmd \in {"walk", "walkPrepare"}
  /\ mpc \in {"ensure", "waitPrepared", "recheck"} => cmd \in {"stand", "walk", "walkPrepare"}
  /\ mpc \in {"verify", "disable", "waitConnected", "handOver"} => cmd = "restore"
  /\ mpc \in {"pause", "paused"} => cmd # "none" /\ cmd # "walk"
  /\ mpc \in PromptPc \ {"prompt"} /\ cmd = "walk" => posture # "laying"
  /\ mpc \in {"pause", "paused"} /\ cmd = "restore" => posture = "laying"
  /\ mpc \in {"verify", "disable", "waitConnected", "handOver"} => posture = "laying"
  /\ mpc = "walk" /\ cmd = "walkPrepare" => posture = "standing"

(* A snapshot's mode is that of the cycle.                                 *)
CycleShape ==
  /\ wpc \in {"observe", "store"} => snap.mode = "walk"
  /\ wpc = "send" => snap.mode # "idle"
  /\ wpc \in Busy => age <= MaxCycle
  /\ wpc # "ended" => age <= MaxCycle + 1
  /\ mpc = "aborted" => wpc = "ended"

PauseOutlastsCycle == mpc = "paused" /\ wpc \in Busy => age + timer >= 2

LoopIsQuiet ==
  /\ mpc \in QuietPc => wpc \notin Busy
  /\ mpc \in QuietPc \cup {"paused"} => mode = "idle"

PolicyInFlight == wpc \in Busy /\ snap.mode = "walk"

PostureTellsMode ==
  /\ posture # "walking" => mode # "walk" /\ ~PolicyInFlight
  /\ posture = "walking" => mode # "stand"
  /\ mpc \in PromptPc /\ posture = "standing" => mode = "stand" /\ hold = "standing"
  /\ mpc \in PromptPc /\ posture = "walking" => mode = "walk"

EarlierWalk ==
  /\ last = "earlier" => rewalked
  /\ PolicyInFlight /\ snap.run = "earlier" => rewalked

(* Until control lapses, a moving command has it.                          *)
CommandHasControl ==
  ~lapsed =>
    /\ mpc \in {"transition", "hold", "walk"} => sdk = "prepared"
    /\ mpc \in {"pause", "paused"} /\ cmd \in Moving => sdk = "prepared"

Upright == {"standing", "walking"}

ModeTellsBody ==
  /\ "loop" \in jumped => lapsed \/ refused
  /\ mpc = "transition" => "loop" \notin jumped
  /\ ~lapsed /\ ~refused /\ mpc # "aborted" =>
       /\ mode = "stand" => body = hold
       /\ mode = "walk" => body \in Upright
       /\ wpc = "send" /\ snap.mode = "stand" => body = snap.hold
       /\ PolicyInFlight => body \in Upright
       /\ mpc = "hold" \/ (mpc = "transition" /\ steps = 0) => body = Target

(* A transition starts from the pose of the robot and continues its own    *)
(* frames: while it runs no late grant gives control back.                 *)
TransitionContinues ==
  /\ "transition" \in jumped => refused \/ assumed
  /\ request = "enable" => sdk = "connected"
  /\ mpc \in {"pause", "paused", "transition"} /\ cmd \in Moving => request # "enable"
  /\ mpc = "transition" /\ steps > 0 /\ sdk = "prepared" /\ ~refused /\ ~assumed
       => body = from

RestoredLies ==
  /\ mpc \in {"disable", "waitConnected", "handOver"} => body = "laying"
  /\ restored => body = "laying" /\ sdk # "prepared"

(* The periods after which a loop that is told to end has ended.           *)
Remaining == IF wpc = "snap" THEN 2 * (MaxCycle + 1) - age ELSE MaxCycle + 1 - age

Joining ==
  /\ mpc \in {"join"} \cup FinalPc => ~running
  /\ ~running => mpc \in {"join", "aborted"} \cup FinalPc
  /\ mpc = "join" /\ wpc # "ended" => timer > Remaining
  /\ mpc \in FinalPc => wpc = "ended"

IInv ==
  /\ TypeOK /\ CommandShape /\ CycleShape /\ PauseOutlastsCycle /\ LoopIsQuiet
  /\ PostureTellsMode /\ EarlierWalk /\ CommandHasControl /\ ModeTellsBody
  /\ TransitionContinues /\ RestoredLies /\ Joining

(* Types are preserved by every step.                                      *)
LEMMA TypeStep ==
  ASSUME TypeOK, [Next]_vars
  PROVE TypeOK'
<1> USE ConstantsAssumption DEF TypeOK, Modes, Poses, Runs, Bodies, Commands,
    WorkerPc, Busy, MainPc, ConstantsAssumption, vars, loopVars, workerVars,
    mainVars, sdkVars, history
<1>1. CASE LoopStep
  <2>1. CASE LoopTop  BY <2>1 DEF LoopTop
  <2>2. CASE Snapshot  BY <2>2 DEF Snapshot
  <2>3. CASE Observe  BY <2>3 DEF Observe
  <2>4. CASE LoopSend
    <3>1. jumped' \subseteq {"loop", "transition"}  BY <2>4 DEF LoopSend
    <3> QED  BY <2>4, <3>1 DEF LoopSend
  <2>5. CASE StoreAction  BY <2>5 DEF StoreAction
  <2>6. CASE NextCycle  BY <2>6 DEF NextCycle, NoCycle
  <2>7. CASE InferFails  BY <2>7 DEF InferFails
  <2> QED  BY <1>1, <2>1, <2>2, <2>3, <2>4, <2>5, <2>6, <2>7 DEF LoopStep
<1>2. CASE CommandStep
  <2>1. CASE EnsureEnabled  BY <2>1 DEF EnsureEnabled, Goto, CommandAt
  <2>2. CASE WaitForPrepared  BY <2>2 DEF WaitForPrepared, WaitState, Goto, CommandAt
  <2>3. CASE Recheck  BY <2>3 DEF Recheck, Goto, CommandAt
  <2>4. CASE Pause  BY <2>4 DEF Pause
  <2>5. CASE Paused
    <3>1. assumed' \in BOOLEAN /\ refused' \in BOOLEAN  BY <2>5 DEF Paused
    <3>2. jumped' \subseteq {"loop", "transition"}  BY <2>5 DEF Paused
    <3>3. from' \in Bodies \cup {"none"} /\ steps' \in Nat
      BY <2>5 DEF Paused, Assumed
    <3>4. mpc' \in MainPc  BY <2>5 DEF Paused, AfterPause
    <3> QED  BY <2>5, <3>1, <3>2, <3>3, <3>4 DEF Paused
  <2>6. CASE TransitionFrame
    <3>1. refused' \in BOOLEAN  BY <2>6 DEF TransitionFrame
    <3>2. lapsed' \in BOOLEAN  BY <2>6 DEF TransitionFrame
    <3>3. jumped' \subseteq {"loop", "transition"}  BY <2>6 DEF TransitionFrame
    <3>4. body' \in Bodies /\ from' \in Bodies \cup {"none"}
      BY <2>6 DEF TransitionFrame, Frame, Target
    <3>5. steps' \in Nat /\ timer' \in Nat  BY <2>6 DEF TransitionFrame
    <3> QED  BY <2>6, <3>1, <3>2, <3>3, <3>4, <3>5 DEF TransitionFrame
  <2>7. CASE EndTransition  BY <2>7 DEF EndTransition
  <2>8. CASE Hold  BY <2>8 DEF Hold, Target, CommandAt
  <2>9. CASE Walk  BY <2>9 DEF Walk
  <2>10. CASE VerifyLaying  BY <2>10 DEF VerifyLaying, Goto, CommandAt
  <2>11. CASE Disable  BY <2>11 DEF Disable, Goto, CommandAt
  <2>12. CASE WaitForConnected  BY <2>12 DEF WaitForConnected, WaitState, Goto, CommandAt
  <2>13. CASE HandOver
    <3>1. restored' \in BOOLEAN  BY <2>13 DEF HandOver
    <3> QED  BY <2>13, <3>1 DEF HandOver, Goto, CommandAt
  <2>14. CASE Close
    <3>1. running' \in BOOLEAN  BY <2>14 DEF Close
    <3> QED  BY <2>14, <3>1 DEF Close
  <2>15. CASE Join  BY <2>15 DEF Join
  <2>16. CASE FinalDisable  BY <2>16 DEF FinalDisable, Goto, CommandAt
  <2>17. CASE Disconnect  BY <2>17 DEF Disconnect, Goto, CommandAt, Collapsed
  <2>18. CASE ClosePolicy  BY <2>18 DEF ClosePolicy, Goto, CommandAt
  <2> QED  BY <1>2, <2>1, <2>2, <2>3, <2>4, <2>5, <2>6, <2>7, <2>8, <2>9,
      <2>10, <2>11, <2>12, <2>13, <2>14, <2>15, <2>16, <2>17, <2>18 DEF
      CommandStep
<1>3. CASE \E c \in {"stand", "walk", "stop", "lay", "restore", "quit"} : ReadCommand(c)
  BY <1>3 DEF ReadCommand, Resolved, Refused
<1>4. CASE Interrupt  BY <1>4 DEF Interrupt
<1>8. CASE InterruptCleanup  BY <1>8 DEF InterruptCleanup, Collapsed
<1>5. CASE SdkStep
  <2>1. CASE GrantEnable
    <3>1. restored' \in BOOLEAN  BY <2>1 DEF GrantEnable
    <3> QED  BY <2>1, <3>1 DEF GrantEnable
  <2>2. CASE GrantDisable  BY <2>2 DEF GrantDisable, LeavePrepared, Collapsed
  <2>3. CASE FailRequest  BY <2>3 DEF FailRequest
  <2>4. CASE Lose  BY <2>4 DEF Lose, LeavePrepared, Collapsed
  <2>5. CASE Reconnect  BY <2>5 DEF Reconnect
  <2> QED  BY <1>5, <2>1, <2>2, <2>3, <2>4, <2>5 DEF SdkStep
<1>6. CASE Tick  BY <1>6 DEF Tick, InTime
<1>7. CASE UNCHANGED vars  BY <1>7
<1> QED  BY <1>1, <1>2, <1>3, <1>4, <1>5, <1>6, <1>7, <1>8 DEF Next

(* A command stays where its kind belongs.                                 *)
LEMMA CommandShapeStep ==
  ASSUME TypeOK, CommandShape, [Next]_vars
  PROVE CommandShape'
<1> USE DEF TypeOK, Modes, Poses, Runs, Bodies, Commands, WorkerPc, Busy,
    MainPc, QuitPc, FinalPc, PromptPc, Moving, CommandShape, vars, loopVars,
    workerVars, mainVars, sdkVars, history
<1>1. CASE LoopStep
  <2>1. CASE LoopTop  BY <2>1 DEF LoopTop
  <2>2. CASE Snapshot  BY <2>2 DEF Snapshot
  <2>3. CASE Observe  BY <2>3 DEF Observe
  <2>4. CASE LoopSend  BY <2>4 DEF LoopSend, Jumps
  <2>5. CASE StoreAction  BY <2>5 DEF StoreAction
  <2>6. CASE NextCycle  BY <2>6 DEF NextCycle, NoCycle
  <2>7. CASE InferFails  BY <2>7 DEF InferFails
  <2> QED  BY <1>1, <2>1, <2>2, <2>3, <2>4, <2>5, <2>6, <2>7 DEF LoopStep
<1>2. CASE CommandStep
  <2>1. CASE EnsureEnabled  BY <2>1 DEF EnsureEnabled, Goto, CommandAt
  <2>2. CASE WaitForPrepared  BY <2>2 DEF WaitForPrepared, WaitState, Goto, CommandAt
  <2>3. CASE Recheck  BY <2>3 DEF Recheck, Goto, CommandAt
  <2>4. CASE Pause  BY <2>4 DEF Pause
  <2>5. CASE Paused  BY <2>5 DEF Paused, AfterPause, Assumed
  <2>6. CASE TransitionFrame  BY <2>6 DEF TransitionFrame, Frame, Target
  <2>7. CASE EndTransition  BY <2>7 DEF EndTransition
  <2>8. CASE Hold  BY <2>8 DEF Hold, Target, CommandAt
  <2>9. CASE Walk  BY <2>9 DEF Walk
  <2>10. CASE VerifyLaying  BY <2>10 DEF VerifyLaying, Goto, CommandAt
  <2>11. CASE Disable  BY <2>11 DEF Disable, Goto, CommandAt
  <2>12. CASE WaitForConnected  BY <2>12 DEF WaitForConnected, WaitState, Goto, CommandAt
  <2>13. CASE HandOver  BY <2>13 DEF HandOver, Goto, CommandAt
  <2>14. CASE Close  BY <2>14 DEF Close
  <2>15. CASE Join  BY <2>15 DEF Join
  <2>16. CASE FinalDisable  BY <2>16 DEF FinalDisable, Goto, CommandAt
  <2>17. CASE Disconnect  BY <2>17 DEF Disconnect, Goto, CommandAt, Collapsed
  <2>18. CASE ClosePolicy  BY <2>18 DEF ClosePolicy, Goto, CommandAt
  <2> QED  BY <1>2, <2>1, <2>2, <2>3, <2>4, <2>5, <2>6, <2>7, <2>8, <2>9,
      <2>10, <2>11, <2>12, <2>13, <2>14, <2>15, <2>16, <2>17, <2>18 DEF
      CommandStep
<1>3. CASE \E c \in {"stand", "walk", "stop", "lay", "restore", "quit"} : ReadCommand(c)
  BY <1>3 DEF ReadCommand, Resolved, Refused
<1>4. CASE Interrupt  BY <1>4 DEF Interrupt
<1>8. CASE InterruptCleanup  BY <1>8 DEF InterruptCleanup, Collapsed
<1>5. CASE SdkStep
  <2>1. CASE GrantEnable  BY <2>1 DEF GrantEnable
  <2>2. CASE GrantDisable  BY <2>2 DEF GrantDisable, LeavePrepared, Collapsed
  <2>3. CASE FailRequest  BY <2>3 DEF FailRequest
  <2>4. CASE Lose  BY <2>4 DEF Lose, LeavePrepared, Collapsed
  <2>5. CASE Reconnect  BY <2>5 DEF Reconnect
  <2> QED  BY <1>5, <2>1, <2>2, <2>3, <2>4, <2>5 DEF SdkStep
<1>6. CASE Tick  BY <1>6 DEF Tick, InTime
<1>7. CASE UNCHANGED vars  BY <1>7
<1> QED  BY <1>1, <1>2, <1>3, <1>4, <1>5, <1>6, <1>7, <1>8 DEF Next

(* Cycles keep their shape, and end in time.                               *)
LEMMA CycleShapeStep ==
  ASSUME TypeOK, CycleShape, [Next]_vars
  PROVE CycleShape'
<1> USE ConstantsAssumption DEF TypeOK, Modes, Poses, Runs, Bodies, Commands,
    WorkerPc, Busy, MainPc, CycleShape, ConstantsAssumption, vars, loopVars,
    workerVars, mainVars, sdkVars, history
<1>1. CASE LoopStep
  <2>1. CASE LoopTop  BY <2>1 DEF LoopTop
  <2>2. CASE Snapshot  BY <2>2 DEF Snapshot
  <2>3. CASE Observe  BY <2>3 DEF Observe
  <2>4. CASE LoopSend  BY <2>4 DEF LoopSend, Jumps
  <2>5. CASE StoreAction  BY <2>5 DEF StoreAction
  <2>6. CASE NextCycle  BY <2>6 DEF NextCycle, NoCycle
  <2>7. CASE InferFails  BY <2>7 DEF InferFails
  <2> QED  BY <1>1, <2>1, <2>2, <2>3, <2>4, <2>5, <2>6, <2>7 DEF LoopStep
<1>2. CASE CommandStep
  <2>1. CASE EnsureEnabled  BY <2>1 DEF EnsureEnabled, Goto, CommandAt
  <2>2. CASE WaitForPrepared  BY <2>2 DEF WaitForPrepared, WaitState, Goto, CommandAt
  <2>3. CASE Recheck  BY <2>3 DEF Recheck, Goto, CommandAt
  <2>4. CASE Pause  BY <2>4 DEF Pause
  <2>5. CASE Paused  BY <2>5 DEF Paused, AfterPause, Assumed
  <2>6. CASE TransitionFrame  BY <2>6 DEF TransitionFrame, Frame, Target
  <2>7. CASE EndTransition  BY <2>7 DEF EndTransition
  <2>8. CASE Hold  BY <2>8 DEF Hold, Target, CommandAt
  <2>9. CASE Walk  BY <2>9 DEF Walk
  <2>10. CASE VerifyLaying  BY <2>10 DEF VerifyLaying, Goto, CommandAt
  <2>11. CASE Disable  BY <2>11 DEF Disable, Goto, CommandAt
  <2>12. CASE WaitForConnected  BY <2>12 DEF WaitForConnected, WaitState, Goto, CommandAt
  <2>13. CASE HandOver  BY <2>13 DEF HandOver, Goto, CommandAt
  <2>14. CASE Close  BY <2>14 DEF Close
  <2>15. CASE Join  BY <2>15 DEF Join
  <2>16. CASE FinalDisable  BY <2>16 DEF FinalDisable, Goto, CommandAt
  <2>17. CASE Disconnect  BY <2>17 DEF Disconnect, Goto, CommandAt, Collapsed
  <2>18. CASE ClosePolicy  BY <2>18 DEF ClosePolicy, Goto, CommandAt
  <2> QED  BY <1>2, <2>1, <2>2, <2>3, <2>4, <2>5, <2>6, <2>7, <2>8, <2>9,
      <2>10, <2>11, <2>12, <2>13, <2>14, <2>15, <2>16, <2>17, <2>18 DEF
      CommandStep
<1>3. CASE \E c \in {"stand", "walk", "stop", "lay", "restore", "quit"} : ReadCommand(c)
  BY <1>3 DEF ReadCommand, Resolved, Refused
<1>4. CASE Interrupt  BY <1>4 DEF Interrupt
<1>8. CASE InterruptCleanup  BY <1>8 DEF InterruptCleanup, Collapsed
<1>5. CASE SdkStep
  <2>1. CASE GrantEnable  BY <2>1 DEF GrantEnable
  <2>2. CASE GrantDisable  BY <2>2 DEF GrantDisable, LeavePrepared, Collapsed
  <2>3. CASE FailRequest  BY <2>3 DEF FailRequest
  <2>4. CASE Lose  BY <2>4 DEF Lose, LeavePrepared, Collapsed
  <2>5. CASE Reconnect  BY <2>5 DEF Reconnect
  <2> QED  BY <1>5, <2>1, <2>2, <2>3, <2>4, <2>5 DEF SdkStep
<1>6. CASE Tick  BY <1>6 DEF Tick, InTime
<1>7. CASE UNCHANGED vars  BY <1>7
<1> QED  BY <1>1, <1>2, <1>3, <1>4, <1>5, <1>6, <1>7, <1>8 DEF Next

(* A cycle in flight when the mode was set ages while pause() sleeps.      *)
LEMMA PauseOutlastsCycleStep ==
  ASSUME TypeOK, CommandShape, CycleShape, LoopIsQuiet, PauseOutlastsCycle,
      [Next]_vars
  PROVE PauseOutlastsCycle'
<1> USE DEF TypeOK, Modes, Poses, Runs, Bodies, Commands, WorkerPc, Busy,
    MainPc, CommandShape, CycleShape, LoopIsQuiet, PauseOutlastsCycle, vars,
    loopVars, workerVars, mainVars, sdkVars, history
<1>1. CASE LoopStep
  <2>1. CASE LoopTop  BY <2>1 DEF LoopTop
  <2>2. CASE Snapshot  BY <2>2 DEF Snapshot
  <2>3. CASE Observe  BY <2>3 DEF Observe
  <2>4. CASE LoopSend  BY <2>4 DEF LoopSend, Jumps
  <2>5. CASE StoreAction  BY <2>5 DEF StoreAction
  <2>6. CASE NextCycle  BY <2>6 DEF NextCycle, NoCycle
  <2>7. CASE InferFails  BY <2>7 DEF InferFails
  <2> QED  BY <1>1, <2>1, <2>2, <2>3, <2>4, <2>5, <2>6, <2>7 DEF LoopStep
<1>2. CASE CommandStep
  <2>1. CASE EnsureEnabled  BY <2>1 DEF EnsureEnabled, Goto, CommandAt
  <2>2. CASE WaitForPrepared  BY <2>2 DEF WaitForPrepared, WaitState, Goto, CommandAt
  <2>3. CASE Recheck  BY <2>3 DEF Recheck, Goto, CommandAt
  <2>4. CASE Pause  BY <2>4 DEF Pause
  <2>5. CASE Paused  BY <2>5 DEF Paused, AfterPause, Assumed
  <2>6. CASE TransitionFrame  BY <2>6 DEF TransitionFrame, Frame, Target
  <2>7. CASE EndTransition  BY <2>7 DEF EndTransition
  <2>8. CASE Hold  BY <2>8 DEF Hold, Target, CommandAt
  <2>9. CASE Walk  BY <2>9 DEF Walk
  <2>10. CASE VerifyLaying  BY <2>10 DEF VerifyLaying, Goto, CommandAt
  <2>11. CASE Disable  BY <2>11 DEF Disable, Goto, CommandAt
  <2>12. CASE WaitForConnected  BY <2>12 DEF WaitForConnected, WaitState, Goto, CommandAt
  <2>13. CASE HandOver  BY <2>13 DEF HandOver, Goto, CommandAt
  <2>14. CASE Close  BY <2>14 DEF Close
  <2>15. CASE Join  BY <2>15 DEF Join
  <2>16. CASE FinalDisable  BY <2>16 DEF FinalDisable, Goto, CommandAt
  <2>17. CASE Disconnect  BY <2>17 DEF Disconnect, Goto, CommandAt, Collapsed
  <2>18. CASE ClosePolicy  BY <2>18 DEF ClosePolicy, Goto, CommandAt
  <2> QED  BY <1>2, <2>1, <2>2, <2>3, <2>4, <2>5, <2>6, <2>7, <2>8, <2>9,
      <2>10, <2>11, <2>12, <2>13, <2>14, <2>15, <2>16, <2>17, <2>18 DEF
      CommandStep
<1>3. CASE \E c \in {"stand", "walk", "stop", "lay", "restore", "quit"} : ReadCommand(c)
  BY <1>3 DEF ReadCommand, Resolved, Refused
<1>4. CASE Interrupt  BY <1>4 DEF Interrupt
<1>8. CASE InterruptCleanup  BY <1>8 DEF InterruptCleanup, Collapsed
<1>5. CASE SdkStep
  <2>1. CASE GrantEnable  BY <2>1 DEF GrantEnable
  <2>2. CASE GrantDisable  BY <2>2 DEF GrantDisable, LeavePrepared, Collapsed
  <2>3. CASE FailRequest  BY <2>3 DEF FailRequest
  <2>4. CASE Lose  BY <2>4 DEF Lose, LeavePrepared, Collapsed
  <2>5. CASE Reconnect  BY <2>5 DEF Reconnect
  <2> QED  BY <1>5, <2>1, <2>2, <2>3, <2>4, <2>5 DEF SdkStep
<1>6. CASE Tick  BY <1>6 DEF Tick, InTime
<1>7. CASE UNCHANGED vars  BY <1>7
<1> QED  BY <1>1, <1>2, <1>3, <1>4, <1>5, <1>6, <1>7, <1>8 DEF Next

(* When the sleep is over no cycle is in flight, and idle starts none.     *)
LEMMA LoopIsQuietStep ==
  ASSUME TypeOK, CommandShape, CycleShape, PauseOutlastsCycle, LoopIsQuiet,
      [Next]_vars
  PROVE LoopIsQuiet'
<1> USE ConstantsAssumption, CycleAssumption DEF TypeOK, Modes, Poses, Runs,
    Bodies, Commands, WorkerPc, Busy, MainPc, QuietPc, FinalPc, CommandShape,
    CycleShape, PauseOutlastsCycle, LoopIsQuiet, ConstantsAssumption,
    CycleAssumption, vars, loopVars, workerVars, mainVars, sdkVars, history
<1>1. CASE LoopStep
  <2>1. CASE LoopTop  BY <2>1 DEF LoopTop
  <2>2. CASE Snapshot  BY <2>2 DEF Snapshot
  <2>3. CASE Observe  BY <2>3 DEF Observe
  <2>4. CASE LoopSend  BY <2>4 DEF LoopSend, Jumps
  <2>5. CASE StoreAction  BY <2>5 DEF StoreAction
  <2>6. CASE NextCycle  BY <2>6 DEF NextCycle, NoCycle
  <2>7. CASE InferFails  BY <2>7 DEF InferFails
  <2> QED  BY <1>1, <2>1, <2>2, <2>3, <2>4, <2>5, <2>6, <2>7 DEF LoopStep
<1>2. CASE CommandStep
  <2>1. CASE EnsureEnabled  BY <2>1 DEF EnsureEnabled, Goto, CommandAt
  <2>2. CASE WaitForPrepared  BY <2>2 DEF WaitForPrepared, WaitState, Goto, CommandAt
  <2>3. CASE Recheck  BY <2>3 DEF Recheck, Goto, CommandAt
  <2>4. CASE Pause  BY <2>4 DEF Pause
  <2>5. CASE Paused  BY <2>5 DEF Paused, AfterPause, Assumed
  <2>6. CASE TransitionFrame  BY <2>6 DEF TransitionFrame, Frame, Target
  <2>7. CASE EndTransition  BY <2>7 DEF EndTransition
  <2>8. CASE Hold  BY <2>8 DEF Hold, Target, CommandAt
  <2>9. CASE Walk  BY <2>9 DEF Walk
  <2>10. CASE VerifyLaying  BY <2>10 DEF VerifyLaying, Goto, CommandAt
  <2>11. CASE Disable  BY <2>11 DEF Disable, Goto, CommandAt
  <2>12. CASE WaitForConnected  BY <2>12 DEF WaitForConnected, WaitState, Goto, CommandAt
  <2>13. CASE HandOver  BY <2>13 DEF HandOver, Goto, CommandAt
  <2>14. CASE Close  BY <2>14 DEF Close
  <2>15. CASE Join  BY <2>15 DEF Join
  <2>16. CASE FinalDisable  BY <2>16 DEF FinalDisable, Goto, CommandAt
  <2>17. CASE Disconnect  BY <2>17 DEF Disconnect, Goto, CommandAt, Collapsed
  <2>18. CASE ClosePolicy  BY <2>18 DEF ClosePolicy, Goto, CommandAt
  <2> QED  BY <1>2, <2>1, <2>2, <2>3, <2>4, <2>5, <2>6, <2>7, <2>8, <2>9,
      <2>10, <2>11, <2>12, <2>13, <2>14, <2>15, <2>16, <2>17, <2>18 DEF
      CommandStep
<1>3. CASE \E c \in {"stand", "walk", "stop", "lay", "restore", "quit"} : ReadCommand(c)
  BY <1>3 DEF ReadCommand, Resolved, Refused
<1>4. CASE Interrupt  BY <1>4 DEF Interrupt
<1>8. CASE InterruptCleanup  BY <1>8 DEF InterruptCleanup, Collapsed
<1>5. CASE SdkStep
  <2>1. CASE GrantEnable  BY <2>1 DEF GrantEnable
  <2>2. CASE GrantDisable  BY <2>2 DEF GrantDisable, LeavePrepared, Collapsed
  <2>3. CASE FailRequest  BY <2>3 DEF FailRequest
  <2>4. CASE Lose  BY <2>4 DEF Lose, LeavePrepared, Collapsed
  <2>5. CASE Reconnect  BY <2>5 DEF Reconnect
  <2> QED  BY <1>5, <2>1, <2>2, <2>3, <2>4, <2>5 DEF SdkStep
<1>6. CASE Tick  BY <1>6 DEF Tick, InTime
<1>7. CASE UNCHANGED vars  BY <1>7
<1> QED  BY <1>1, <1>2, <1>3, <1>4, <1>5, <1>6, <1>7, <1>8 DEF Next

(* The console's posture follows the mode.                                 *)
LEMMA PostureTellsModeStep ==
  ASSUME TypeOK, CommandShape, CycleShape, LoopIsQuiet, PostureTellsMode,
      [Next]_vars
  PROVE PostureTellsMode'
<1> USE DEF TypeOK, Modes, Poses, Runs, Bodies, Commands, WorkerPc, Busy,
    MainPc, PolicyInFlight, PromptPc, QuietPc, CommandShape, CycleShape,
    LoopIsQuiet, PostureTellsMode, vars, loopVars, workerVars, mainVars,
    sdkVars, history
<1>1. CASE LoopStep
  <2>1. CASE LoopTop  BY <2>1 DEF LoopTop
  <2>2. CASE Snapshot  BY <2>2 DEF Snapshot
  <2>3. CASE Observe  BY <2>3 DEF Observe
  <2>4. CASE LoopSend  BY <2>4 DEF LoopSend, Jumps
  <2>5. CASE StoreAction  BY <2>5 DEF StoreAction
  <2>6. CASE NextCycle  BY <2>6 DEF NextCycle, NoCycle
  <2>7. CASE InferFails  BY <2>7 DEF InferFails
  <2> QED  BY <1>1, <2>1, <2>2, <2>3, <2>4, <2>5, <2>6, <2>7 DEF LoopStep
<1>2. CASE CommandStep
  <2>1. CASE EnsureEnabled  BY <2>1 DEF EnsureEnabled, Goto, CommandAt
  <2>2. CASE WaitForPrepared  BY <2>2 DEF WaitForPrepared, WaitState, Goto, CommandAt
  <2>3. CASE Recheck  BY <2>3 DEF Recheck, Goto, CommandAt
  <2>4. CASE Pause  BY <2>4 DEF Pause
  <2>5. CASE Paused  BY <2>5 DEF Paused, AfterPause, Assumed
  <2>6. CASE TransitionFrame  BY <2>6 DEF TransitionFrame, Frame, Target
  <2>7. CASE EndTransition  BY <2>7 DEF EndTransition
  <2>8. CASE Hold  BY <2>8 DEF Hold, Target, CommandAt
  <2>9. CASE Walk  BY <2>9 DEF Walk
  <2>10. CASE VerifyLaying  BY <2>10 DEF VerifyLaying, Goto, CommandAt
  <2>11. CASE Disable  BY <2>11 DEF Disable, Goto, CommandAt
  <2>12. CASE WaitForConnected  BY <2>12 DEF WaitForConnected, WaitState, Goto, CommandAt
  <2>13. CASE HandOver  BY <2>13 DEF HandOver, Goto, CommandAt
  <2>14. CASE Close  BY <2>14 DEF Close
  <2>15. CASE Join  BY <2>15 DEF Join
  <2>16. CASE FinalDisable  BY <2>16 DEF FinalDisable, Goto, CommandAt
  <2>17. CASE Disconnect  BY <2>17 DEF Disconnect, Goto, CommandAt, Collapsed
  <2>18. CASE ClosePolicy  BY <2>18 DEF ClosePolicy, Goto, CommandAt
  <2> QED  BY <1>2, <2>1, <2>2, <2>3, <2>4, <2>5, <2>6, <2>7, <2>8, <2>9,
      <2>10, <2>11, <2>12, <2>13, <2>14, <2>15, <2>16, <2>17, <2>18 DEF
      CommandStep
<1>3. CASE \E c \in {"stand", "walk", "stop", "lay", "restore", "quit"} : ReadCommand(c)
  BY <1>3 DEF ReadCommand, Resolved, Refused
<1>4. CASE Interrupt  BY <1>4 DEF Interrupt
<1>8. CASE InterruptCleanup  BY <1>8 DEF InterruptCleanup, Collapsed
<1>5. CASE SdkStep
  <2>1. CASE GrantEnable  BY <2>1 DEF GrantEnable
  <2>2. CASE GrantDisable  BY <2>2 DEF GrantDisable, LeavePrepared, Collapsed
  <2>3. CASE FailRequest  BY <2>3 DEF FailRequest
  <2>4. CASE Lose  BY <2>4 DEF Lose, LeavePrepared, Collapsed
  <2>5. CASE Reconnect  BY <2>5 DEF Reconnect
  <2> QED  BY <1>5, <2>1, <2>2, <2>3, <2>4, <2>5 DEF SdkStep
<1>6. CASE Tick  BY <1>6 DEF Tick, InTime
<1>7. CASE UNCHANGED vars  BY <1>7
<1> QED  BY <1>1, <1>2, <1>3, <1>4, <1>5, <1>6, <1>7, <1>8 DEF Next

(* An action of an earlier walk needs a walk entered while walking.        *)
LEMMA EarlierWalkStep ==
  ASSUME TypeOK, CycleShape, LoopIsQuiet, PostureTellsMode, EarlierWalk,
      [Next]_vars
  PROVE EarlierWalk'
<1> USE DEF TypeOK, Modes, Poses, Runs, Bodies, Commands, WorkerPc, Busy,
    MainPc, PolicyInFlight, CycleShape, LoopIsQuiet, PostureTellsMode,
    EarlierWalk, vars, loopVars, workerVars, mainVars, sdkVars, history
<1>1. CASE LoopStep
  <2>1. CASE LoopTop  BY <2>1 DEF LoopTop
  <2>2. CASE Snapshot  BY <2>2 DEF Snapshot
  <2>3. CASE Observe  BY <2>3 DEF Observe
  <2>4. CASE LoopSend  BY <2>4 DEF LoopSend, Jumps
  <2>5. CASE StoreAction  BY <2>5 DEF StoreAction
  <2>6. CASE NextCycle  BY <2>6 DEF NextCycle, NoCycle
  <2>7. CASE InferFails  BY <2>7 DEF InferFails
  <2> QED  BY <1>1, <2>1, <2>2, <2>3, <2>4, <2>5, <2>6, <2>7 DEF LoopStep
<1>2. CASE CommandStep
  <2>1. CASE EnsureEnabled  BY <2>1 DEF EnsureEnabled, Goto, CommandAt
  <2>2. CASE WaitForPrepared  BY <2>2 DEF WaitForPrepared, WaitState, Goto, CommandAt
  <2>3. CASE Recheck  BY <2>3 DEF Recheck, Goto, CommandAt
  <2>4. CASE Pause  BY <2>4 DEF Pause
  <2>5. CASE Paused  BY <2>5 DEF Paused, AfterPause, Assumed
  <2>6. CASE TransitionFrame  BY <2>6 DEF TransitionFrame, Frame, Target
  <2>7. CASE EndTransition  BY <2>7 DEF EndTransition
  <2>8. CASE Hold  BY <2>8 DEF Hold, Target, CommandAt
  <2>9. CASE Walk  BY <2>9 DEF Walk
  <2>10. CASE VerifyLaying  BY <2>10 DEF VerifyLaying, Goto, CommandAt
  <2>11. CASE Disable  BY <2>11 DEF Disable, Goto, CommandAt
  <2>12. CASE WaitForConnected  BY <2>12 DEF WaitForConnected, WaitState, Goto, CommandAt
  <2>13. CASE HandOver  BY <2>13 DEF HandOver, Goto, CommandAt
  <2>14. CASE Close  BY <2>14 DEF Close
  <2>15. CASE Join  BY <2>15 DEF Join
  <2>16. CASE FinalDisable  BY <2>16 DEF FinalDisable, Goto, CommandAt
  <2>17. CASE Disconnect  BY <2>17 DEF Disconnect, Goto, CommandAt, Collapsed
  <2>18. CASE ClosePolicy  BY <2>18 DEF ClosePolicy, Goto, CommandAt
  <2> QED  BY <1>2, <2>1, <2>2, <2>3, <2>4, <2>5, <2>6, <2>7, <2>8, <2>9,
      <2>10, <2>11, <2>12, <2>13, <2>14, <2>15, <2>16, <2>17, <2>18 DEF
      CommandStep
<1>3. CASE \E c \in {"stand", "walk", "stop", "lay", "restore", "quit"} : ReadCommand(c)
  BY <1>3 DEF ReadCommand, Resolved, Refused
<1>4. CASE Interrupt  BY <1>4 DEF Interrupt
<1>8. CASE InterruptCleanup  BY <1>8 DEF InterruptCleanup, Collapsed
<1>5. CASE SdkStep
  <2>1. CASE GrantEnable  BY <2>1 DEF GrantEnable
  <2>2. CASE GrantDisable  BY <2>2 DEF GrantDisable, LeavePrepared, Collapsed
  <2>3. CASE FailRequest  BY <2>3 DEF FailRequest
  <2>4. CASE Lose  BY <2>4 DEF Lose, LeavePrepared, Collapsed
  <2>5. CASE Reconnect  BY <2>5 DEF Reconnect
  <2> QED  BY <1>5, <2>1, <2>2, <2>3, <2>4, <2>5 DEF SdkStep
<1>6. CASE Tick  BY <1>6 DEF Tick, InTime
<1>7. CASE UNCHANGED vars  BY <1>7
<1> QED  BY <1>1, <1>2, <1>3, <1>4, <1>5, <1>6, <1>7, <1>8 DEF Next

(* Control that leaves a moving command has lapsed.                        *)
LEMMA CommandHasControlStep ==
  ASSUME TypeOK, CommandShape, CommandHasControl, [Next]_vars
  PROVE CommandHasControl'
<1> USE DEF TypeOK, Modes, Poses, Runs, Bodies, Commands, WorkerPc, Busy,
    MainPc, Moving, QuitPc, CommandShape, CommandHasControl, vars, loopVars,
    workerVars, mainVars, sdkVars, history
<1>1. CASE LoopStep
  <2>1. CASE LoopTop  BY <2>1 DEF LoopTop
  <2>2. CASE Snapshot  BY <2>2 DEF Snapshot
  <2>3. CASE Observe  BY <2>3 DEF Observe
  <2>4. CASE LoopSend  BY <2>4 DEF LoopSend, Jumps
  <2>5. CASE StoreAction  BY <2>5 DEF StoreAction
  <2>6. CASE NextCycle  BY <2>6 DEF NextCycle, NoCycle
  <2>7. CASE InferFails  BY <2>7 DEF InferFails
  <2> QED  BY <1>1, <2>1, <2>2, <2>3, <2>4, <2>5, <2>6, <2>7 DEF LoopStep
<1>2. CASE CommandStep
  <2>1. CASE EnsureEnabled  BY <2>1 DEF EnsureEnabled, Goto, CommandAt
  <2>2. CASE WaitForPrepared  BY <2>2 DEF WaitForPrepared, WaitState, Goto, CommandAt
  <2>3. CASE Recheck  BY <2>3 DEF Recheck, Goto, CommandAt
  <2>4. CASE Pause  BY <2>4 DEF Pause
  <2>5. CASE Paused  BY <2>5 DEF Paused, AfterPause, Assumed
  <2>6. CASE TransitionFrame  BY <2>6 DEF TransitionFrame, Frame, Target
  <2>7. CASE EndTransition  BY <2>7 DEF EndTransition
  <2>8. CASE Hold  BY <2>8 DEF Hold, Target, CommandAt
  <2>9. CASE Walk  BY <2>9 DEF Walk
  <2>10. CASE VerifyLaying  BY <2>10 DEF VerifyLaying, Goto, CommandAt
  <2>11. CASE Disable  BY <2>11 DEF Disable, Goto, CommandAt
  <2>12. CASE WaitForConnected  BY <2>12 DEF WaitForConnected, WaitState, Goto, CommandAt
  <2>13. CASE HandOver  BY <2>13 DEF HandOver, Goto, CommandAt
  <2>14. CASE Close  BY <2>14 DEF Close
  <2>15. CASE Join  BY <2>15 DEF Join
  <2>16. CASE FinalDisable  BY <2>16 DEF FinalDisable, Goto, CommandAt
  <2>17. CASE Disconnect  BY <2>17 DEF Disconnect, Goto, CommandAt, Collapsed
  <2>18. CASE ClosePolicy  BY <2>18 DEF ClosePolicy, Goto, CommandAt
  <2> QED  BY <1>2, <2>1, <2>2, <2>3, <2>4, <2>5, <2>6, <2>7, <2>8, <2>9,
      <2>10, <2>11, <2>12, <2>13, <2>14, <2>15, <2>16, <2>17, <2>18 DEF
      CommandStep
<1>3. CASE \E c \in {"stand", "walk", "stop", "lay", "restore", "quit"} : ReadCommand(c)
  BY <1>3 DEF ReadCommand, Resolved, Refused
<1>4. CASE Interrupt  BY <1>4 DEF Interrupt
<1>8. CASE InterruptCleanup  BY <1>8 DEF InterruptCleanup, Collapsed
<1>5. CASE SdkStep
  <2>1. CASE GrantEnable  BY <2>1 DEF GrantEnable
  <2>2. CASE GrantDisable  BY <2>2 DEF GrantDisable, LeavePrepared, Collapsed
  <2>3. CASE FailRequest  BY <2>3 DEF FailRequest
  <2>4. CASE Lose  BY <2>4 DEF Lose, LeavePrepared, Collapsed
  <2>5. CASE Reconnect  BY <2>5 DEF Reconnect
  <2> QED  BY <1>5, <2>1, <2>2, <2>3, <2>4, <2>5 DEF SdkStep
<1>6. CASE Tick  BY <1>6 DEF Tick, InTime
<1>7. CASE UNCHANGED vars  BY <1>7
<1> QED  BY <1>1, <1>2, <1>3, <1>4, <1>5, <1>6, <1>7, <1>8 DEF Next

(* The frames of a transition continue the measured pose and each other.   *)
LEMMA TransitionContinuesStep ==
  ASSUME TypeOK, CommandShape, LoopIsQuiet, TransitionContinues, [Next]_vars
  PROVE TransitionContinues'
<1> USE DEF TypeOK, Modes, Poses, Runs, Bodies, Commands, WorkerPc, Busy,
    MainPc, Moving, QuitPc, QuietPc, FinalPc, CommandShape, LoopIsQuiet, TransitionContinues, vars, loopVars,
    workerVars, mainVars, sdkVars, history
<1>1. CASE LoopStep
  <2>1. CASE LoopTop  BY <2>1 DEF LoopTop
  <2>2. CASE Snapshot  BY <2>2 DEF Snapshot
  <2>3. CASE Observe  BY <2>3 DEF Observe
  <2>4. CASE LoopSend  BY <2>4 DEF LoopSend, Jumps
  <2>5. CASE StoreAction  BY <2>5 DEF StoreAction
  <2>6. CASE NextCycle  BY <2>6 DEF NextCycle, NoCycle
  <2>7. CASE InferFails  BY <2>7 DEF InferFails
  <2> QED  BY <1>1, <2>1, <2>2, <2>3, <2>4, <2>5, <2>6, <2>7 DEF LoopStep
<1>2. CASE CommandStep
  <2>1. CASE EnsureEnabled  BY <2>1 DEF EnsureEnabled, Goto, CommandAt
  <2>2. CASE WaitForPrepared  BY <2>2 DEF WaitForPrepared, WaitState, Goto, CommandAt
  <2>3. CASE Recheck  BY <2>3 DEF Recheck, Goto, CommandAt
  <2>4. CASE Pause  BY <2>4 DEF Pause
  <2>5. CASE Paused  BY <2>5 DEF Paused, AfterPause, Assumed
  <2>6. CASE TransitionFrame  BY <2>6 DEF TransitionFrame, Frame, Target
  <2>7. CASE EndTransition  BY <2>7 DEF EndTransition
  <2>8. CASE Hold  BY <2>8 DEF Hold, Target, CommandAt
  <2>9. CASE Walk  BY <2>9 DEF Walk
  <2>10. CASE VerifyLaying  BY <2>10 DEF VerifyLaying, Goto, CommandAt
  <2>11. CASE Disable  BY <2>11 DEF Disable, Goto, CommandAt
  <2>12. CASE WaitForConnected  BY <2>12 DEF WaitForConnected, WaitState, Goto, CommandAt
  <2>13. CASE HandOver  BY <2>13 DEF HandOver, Goto, CommandAt
  <2>14. CASE Close  BY <2>14 DEF Close
  <2>15. CASE Join  BY <2>15 DEF Join
  <2>16. CASE FinalDisable  BY <2>16 DEF FinalDisable, Goto, CommandAt
  <2>17. CASE Disconnect  BY <2>17 DEF Disconnect, Goto, CommandAt, Collapsed
  <2>18. CASE ClosePolicy  BY <2>18 DEF ClosePolicy, Goto, CommandAt
  <2> QED  BY <1>2, <2>1, <2>2, <2>3, <2>4, <2>5, <2>6, <2>7, <2>8, <2>9,
      <2>10, <2>11, <2>12, <2>13, <2>14, <2>15, <2>16, <2>17, <2>18 DEF
      CommandStep
<1>3. CASE \E c \in {"stand", "walk", "stop", "lay", "restore", "quit"} : ReadCommand(c)
  BY <1>3 DEF ReadCommand, Resolved, Refused
<1>4. CASE Interrupt  BY <1>4 DEF Interrupt
<1>8. CASE InterruptCleanup  BY <1>8 DEF InterruptCleanup, Collapsed
<1>5. CASE SdkStep
  <2>1. CASE GrantEnable  BY <2>1 DEF GrantEnable
  <2>2. CASE GrantDisable  BY <2>2 DEF GrantDisable, LeavePrepared, Collapsed
  <2>3. CASE FailRequest  BY <2>3 DEF FailRequest
  <2>4. CASE Lose  BY <2>4 DEF Lose, LeavePrepared, Collapsed
  <2>5. CASE Reconnect  BY <2>5 DEF Reconnect
  <2> QED  BY <1>5, <2>1, <2>2, <2>3, <2>4, <2>5 DEF SdkStep
<1>6. CASE Tick  BY <1>6 DEF Tick, InTime
<1>7. CASE UNCHANGED vars  BY <1>7
<1> QED  BY <1>1, <1>2, <1>3, <1>4, <1>5, <1>6, <1>7, <1>8 DEF Next

(* Until control lapses, the loop's frames continue the robot's pose.      *)
LEMMA ModeTellsBodyStep ==
  ASSUME TypeOK, CommandShape, CycleShape, PauseOutlastsCycle, LoopIsQuiet, LoopIsQuiet', PostureTellsMode,
      CommandHasControl, ModeTellsBody, [Next]_vars
  PROVE ModeTellsBody'
<1> USE ConstantsAssumption DEF TypeOK, Modes, Poses, Runs, Bodies, Commands,
    WorkerPc, Busy, MainPc, PolicyInFlight, Upright, QuietPc, PromptPc, Moving,
    Target, CommandShape, CycleShape, LoopIsQuiet, PostureTellsMode,
    CommandHasControl, ModeTellsBody, ConstantsAssumption, vars, loopVars,
    workerVars, mainVars, sdkVars, history
<1>1. CASE LoopStep
  <2>1. CASE LoopTop  BY <2>1 DEF LoopTop
  <2>2. CASE Snapshot  BY <2>2 DEF Snapshot
  <2>3. CASE Observe  BY <2>3 DEF Observe
  <2>4. CASE LoopSend
    <3>1. mpc # "transition"  BY <2>4 DEF LoopSend
    <3>2. ~lapsed /\ ~refused => ~Jumps  BY <2>4 DEF LoopSend, Jumps
    <3>3. "loop" \in jumped' => lapsed' \/ refused'  BY <2>4, <3>2 DEF LoopSend
    <3> QED  BY <2>4, <3>1, <3>3 DEF LoopSend
  <2>5. CASE StoreAction  BY <2>5 DEF StoreAction
  <2>6. CASE NextCycle  BY <2>6 DEF NextCycle, NoCycle
  <2>7. CASE InferFails  BY <2>7 DEF InferFails
  <2> QED  BY <1>1, <2>1, <2>2, <2>3, <2>4, <2>5, <2>6, <2>7 DEF LoopStep
<1>2. CASE CommandStep
  <2>1. CASE EnsureEnabled  BY <2>1 DEF EnsureEnabled, Goto, CommandAt
  <2>2. CASE WaitForPrepared  BY <2>2 DEF WaitForPrepared, WaitState, Goto, CommandAt
  <2>3. CASE Recheck  BY <2>3 DEF Recheck, Goto, CommandAt
  <2>4. CASE Pause  BY <2>4 DEF Pause
  <2>5. CASE Paused  BY <2>5 DEF Paused, AfterPause, Assumed
  <2>6. CASE TransitionFrame
    <3> DEFINE Taken == sdk = "prepared" /\ body' = Frame
    <3>1. "loop" \notin jumped /\ "loop" \notin jumped'  BY <2>6 DEF TransitionFrame
    <3>2. mode' = "idle" /\ wpc' \notin Busy /\ mpc' = "transition"
      BY <2>6 DEF TransitionFrame
    <3>3. ~lapsed' /\ ~refused' /\ steps' = 0 => body' = Target'
      <4> HAVE ~lapsed' /\ ~refused' /\ steps' = 0
      <4>1. steps = 1  BY <2>6 DEF TransitionFrame
      <4>2. Taken \/ sdk # "prepared"  BY <2>6 DEF TransitionFrame
      <4>3. CASE Taken  BY <2>6, <4>1, <4>3 DEF TransitionFrame, Frame
      <4>4. CASE sdk # "prepared"
        <5>1. lapsed  BY <2>6, <4>4 DEF TransitionFrame
        <5>2. lapsed' = lapsed  BY <2>6, <4>4 DEF TransitionFrame
        <5> QED  BY <5>1, <5>2
      <4> QED  BY <4>2, <4>3, <4>4
    <3> QED  BY <3>1, <3>2, <3>3
  <2>7. CASE EndTransition  BY <2>7 DEF EndTransition
  <2>8. CASE Hold  BY <2>8 DEF Hold, Target, CommandAt
  <2>9. CASE Walk  BY <2>9 DEF Walk
  <2>10. CASE VerifyLaying  BY <2>10 DEF VerifyLaying, Goto, CommandAt
  <2>11. CASE Disable  BY <2>11 DEF Disable, Goto, CommandAt
  <2>12. CASE WaitForConnected  BY <2>12 DEF WaitForConnected, WaitState, Goto, CommandAt
  <2>13. CASE HandOver  BY <2>13 DEF HandOver, Goto, CommandAt
  <2>14. CASE Close  BY <2>14 DEF Close
  <2>15. CASE Join  BY <2>15 DEF Join
  <2>16. CASE FinalDisable  BY <2>16 DEF FinalDisable, Goto, CommandAt
  <2>17. CASE Disconnect  BY <2>17 DEF Disconnect, Goto, CommandAt, Collapsed
  <2>18. CASE ClosePolicy  BY <2>18 DEF ClosePolicy, Goto, CommandAt
  <2> QED  BY <1>2, <2>1, <2>2, <2>3, <2>4, <2>5, <2>6, <2>7, <2>8, <2>9,
      <2>10, <2>11, <2>12, <2>13, <2>14, <2>15, <2>16, <2>17, <2>18 DEF
      CommandStep
<1>3. CASE \E c \in {"stand", "walk", "stop", "lay", "restore", "quit"} : ReadCommand(c)
  BY <1>3 DEF ReadCommand, Resolved, Refused
<1>4. CASE Interrupt  BY <1>4 DEF Interrupt
<1>8. CASE InterruptCleanup  BY <1>8 DEF InterruptCleanup, Collapsed
<1>5. CASE SdkStep
  <2>1. CASE GrantEnable  BY <2>1 DEF GrantEnable
  <2>2. CASE GrantDisable  BY <2>2 DEF GrantDisable, LeavePrepared, Collapsed
  <2>3. CASE FailRequest  BY <2>3 DEF FailRequest
  <2>4. CASE Lose  BY <2>4 DEF Lose, LeavePrepared, Collapsed
  <2>5. CASE Reconnect  BY <2>5 DEF Reconnect
  <2> QED  BY <1>5, <2>1, <2>2, <2>3, <2>4, <2>5 DEF SdkStep
<1>6. CASE Tick  BY <1>6 DEF Tick, InTime
<1>7. CASE UNCHANGED vars  BY <1>7
<1> QED  BY <1>1, <1>2, <1>3, <1>4, <1>5, <1>6, <1>7, <1>8 DEF Next

(* Nothing moves the robot between the check of its posture and the end.   *)
LEMMA RestoredLiesStep ==
  ASSUME TypeOK, CommandShape, CycleShape, LoopIsQuiet, RestoredLies,
      [Next]_vars
  PROVE RestoredLies'
<1> USE DEF TypeOK, Modes, Poses, Runs, Bodies, Commands, WorkerPc, Busy,
    MainPc, QuietPc, FinalPc, QuitPc, CommandShape, CycleShape, LoopIsQuiet,
    RestoredLies, vars, loopVars, workerVars, mainVars, sdkVars, history
<1>1. CASE LoopStep
  <2>1. CASE LoopTop  BY <2>1 DEF LoopTop
  <2>2. CASE Snapshot  BY <2>2 DEF Snapshot
  <2>3. CASE Observe  BY <2>3 DEF Observe
  <2>4. CASE LoopSend  BY <2>4 DEF LoopSend, Jumps
  <2>5. CASE StoreAction  BY <2>5 DEF StoreAction
  <2>6. CASE NextCycle  BY <2>6 DEF NextCycle, NoCycle
  <2>7. CASE InferFails  BY <2>7 DEF InferFails
  <2> QED  BY <1>1, <2>1, <2>2, <2>3, <2>4, <2>5, <2>6, <2>7 DEF LoopStep
<1>2. CASE CommandStep
  <2>1. CASE EnsureEnabled  BY <2>1 DEF EnsureEnabled, Goto, CommandAt
  <2>2. CASE WaitForPrepared  BY <2>2 DEF WaitForPrepared, WaitState, Goto, CommandAt
  <2>3. CASE Recheck  BY <2>3 DEF Recheck, Goto, CommandAt
  <2>4. CASE Pause  BY <2>4 DEF Pause
  <2>5. CASE Paused  BY <2>5 DEF Paused, AfterPause, Assumed
  <2>6. CASE TransitionFrame  BY <2>6 DEF TransitionFrame, Frame, Target
  <2>7. CASE EndTransition  BY <2>7 DEF EndTransition
  <2>8. CASE Hold  BY <2>8 DEF Hold, Target, CommandAt
  <2>9. CASE Walk  BY <2>9 DEF Walk
  <2>10. CASE VerifyLaying  BY <2>10 DEF VerifyLaying, Goto, CommandAt
  <2>11. CASE Disable  BY <2>11 DEF Disable, Goto, CommandAt
  <2>12. CASE WaitForConnected  BY <2>12 DEF WaitForConnected, WaitState, Goto, CommandAt
  <2>13. CASE HandOver  BY <2>13 DEF HandOver, Goto, CommandAt
  <2>14. CASE Close  BY <2>14 DEF Close
  <2>15. CASE Join  BY <2>15 DEF Join
  <2>16. CASE FinalDisable  BY <2>16 DEF FinalDisable, Goto, CommandAt
  <2>17. CASE Disconnect  BY <2>17 DEF Disconnect, Goto, CommandAt, Collapsed
  <2>18. CASE ClosePolicy  BY <2>18 DEF ClosePolicy, Goto, CommandAt
  <2> QED  BY <1>2, <2>1, <2>2, <2>3, <2>4, <2>5, <2>6, <2>7, <2>8, <2>9,
      <2>10, <2>11, <2>12, <2>13, <2>14, <2>15, <2>16, <2>17, <2>18 DEF
      CommandStep
<1>3. CASE \E c \in {"stand", "walk", "stop", "lay", "restore", "quit"} : ReadCommand(c)
  BY <1>3 DEF ReadCommand, Resolved, Refused
<1>4. CASE Interrupt  BY <1>4 DEF Interrupt
<1>8. CASE InterruptCleanup  BY <1>8 DEF InterruptCleanup, Collapsed
<1>5. CASE SdkStep
  <2>1. CASE GrantEnable  BY <2>1 DEF GrantEnable
  <2>2. CASE GrantDisable  BY <2>2 DEF GrantDisable, LeavePrepared, Collapsed
  <2>3. CASE FailRequest  BY <2>3 DEF FailRequest
  <2>4. CASE Lose  BY <2>4 DEF Lose, LeavePrepared, Collapsed
  <2>5. CASE Reconnect  BY <2>5 DEF Reconnect
  <2> QED  BY <1>5, <2>1, <2>2, <2>3, <2>4, <2>5 DEF SdkStep
<1>6. CASE Tick  BY <1>6 DEF Tick, InTime
<1>7. CASE UNCHANGED vars  BY <1>7
<1> QED  BY <1>1, <1>2, <1>3, <1>4, <1>5, <1>6, <1>7, <1>8 DEF Next

(* The time left to join is longer than what the loop needs to end.        *)
LEMMA JoiningStep ==
  ASSUME TypeOK, CommandShape, CycleShape, Joining, [Next]_vars
  PROVE Joining'
<1> USE ConstantsAssumption, JoinAssumption DEF TypeOK, Modes, Poses, Runs,
    Bodies, Commands, WorkerPc, Busy, MainPc, FinalPc, QuitPc, Remaining,
    CommandShape, CycleShape, Joining, ConstantsAssumption, JoinAssumption,
    vars, loopVars, workerVars, mainVars, sdkVars, history
<1>1. CASE LoopStep
  <2>1. CASE LoopTop  BY <2>1 DEF LoopTop
  <2>2. CASE Snapshot  BY <2>2 DEF Snapshot
  <2>3. CASE Observe  BY <2>3 DEF Observe
  <2>4. CASE LoopSend  BY <2>4 DEF LoopSend, Jumps
  <2>5. CASE StoreAction  BY <2>5 DEF StoreAction
  <2>6. CASE NextCycle  BY <2>6 DEF NextCycle, NoCycle
  <2>7. CASE InferFails  BY <2>7 DEF InferFails
  <2> QED  BY <1>1, <2>1, <2>2, <2>3, <2>4, <2>5, <2>6, <2>7 DEF LoopStep
<1>2. CASE CommandStep
  <2>1. CASE EnsureEnabled  BY <2>1 DEF EnsureEnabled, Goto, CommandAt
  <2>2. CASE WaitForPrepared  BY <2>2 DEF WaitForPrepared, WaitState, Goto, CommandAt
  <2>3. CASE Recheck  BY <2>3 DEF Recheck, Goto, CommandAt
  <2>4. CASE Pause  BY <2>4 DEF Pause
  <2>5. CASE Paused  BY <2>5 DEF Paused, AfterPause, Assumed
  <2>6. CASE TransitionFrame  BY <2>6 DEF TransitionFrame, Frame, Target
  <2>7. CASE EndTransition  BY <2>7 DEF EndTransition
  <2>8. CASE Hold  BY <2>8 DEF Hold, Target, CommandAt
  <2>9. CASE Walk  BY <2>9 DEF Walk
  <2>10. CASE VerifyLaying  BY <2>10 DEF VerifyLaying, Goto, CommandAt
  <2>11. CASE Disable  BY <2>11 DEF Disable, Goto, CommandAt
  <2>12. CASE WaitForConnected  BY <2>12 DEF WaitForConnected, WaitState, Goto, CommandAt
  <2>13. CASE HandOver  BY <2>13 DEF HandOver, Goto, CommandAt
  <2>14. CASE Close  BY <2>14 DEF Close
  <2>15. CASE Join  BY <2>15 DEF Join
  <2>16. CASE FinalDisable  BY <2>16 DEF FinalDisable, Goto, CommandAt
  <2>17. CASE Disconnect  BY <2>17 DEF Disconnect, Goto, CommandAt, Collapsed
  <2>18. CASE ClosePolicy  BY <2>18 DEF ClosePolicy, Goto, CommandAt
  <2> QED  BY <1>2, <2>1, <2>2, <2>3, <2>4, <2>5, <2>6, <2>7, <2>8, <2>9,
      <2>10, <2>11, <2>12, <2>13, <2>14, <2>15, <2>16, <2>17, <2>18 DEF
      CommandStep
<1>3. CASE \E c \in {"stand", "walk", "stop", "lay", "restore", "quit"} : ReadCommand(c)
  BY <1>3 DEF ReadCommand, Resolved, Refused
<1>4. CASE Interrupt  BY <1>4 DEF Interrupt
<1>8. CASE InterruptCleanup  BY <1>8 DEF InterruptCleanup, Collapsed
<1>5. CASE SdkStep
  <2>1. CASE GrantEnable  BY <2>1 DEF GrantEnable
  <2>2. CASE GrantDisable  BY <2>2 DEF GrantDisable, LeavePrepared, Collapsed
  <2>3. CASE FailRequest  BY <2>3 DEF FailRequest
  <2>4. CASE Lose  BY <2>4 DEF Lose, LeavePrepared, Collapsed
  <2>5. CASE Reconnect  BY <2>5 DEF Reconnect
  <2> QED  BY <1>5, <2>1, <2>2, <2>3, <2>4, <2>5 DEF SdkStep
<1>6. CASE Tick  BY <1>6 DEF Tick, InTime
<1>7. CASE UNCHANGED vars  BY <1>7
<1> QED  BY <1>1, <1>2, <1>3, <1>4, <1>5, <1>6, <1>7, <1>8 DEF Next

(* The console starts at its prompt, with a robot that lies.               *)
LEMMA InvInit ==
  ASSUME Init
  PROVE IInv
<1>1. TypeOK
  <2>1. {running, restored, lapsed, refused, assumed, rewalked} \subseteq BOOLEAN  BY DEF Init
  <2>2. snap \in [mode : Modes, hold : Poses, run : Runs]
    BY DEF Init, NoCycle, Modes, Poses, Runs
  <2> QED
    BY <2>1, <2>2 DEF Init, TypeOK, Modes, Poses, Runs, Bodies, Commands, WorkerPc, MainPc
<1> USE ConstantsAssumption DEF Init, ConstantsAssumption, QuietPc, FinalPc, QuitPc,
  PromptPc, Moving, PolicyInFlight, Busy
<1>2. CommandShape /\ CycleShape  BY DEF CommandShape, CycleShape
<1>3. PauseOutlastsCycle /\ LoopIsQuiet  BY DEF PauseOutlastsCycle, LoopIsQuiet
<1>4. PostureTellsMode /\ EarlierWalk  BY DEF PostureTellsMode, EarlierWalk
<1>5. CommandHasControl /\ ModeTellsBody  BY DEF CommandHasControl, ModeTellsBody
<1>6. RestoredLies /\ Joining  BY DEF RestoredLies, Joining
<1>7. TransitionContinues  BY DEF TransitionContinues
<1> QED  BY <1>1, <1>2, <1>3, <1>4, <1>5, <1>6, <1>7 DEF IInv

(* The conjuncts together are inductive.                                   *)
LEMMA InvStep == IInv /\ [Next]_vars => IInv'
  BY TypeStep, CommandShapeStep, CycleShapeStep, PauseOutlastsCycleStep,
    LoopIsQuietStep, PostureTellsModeStep, EarlierWalkStep, CommandHasControlStep,
    TransitionContinuesStep, ModeTellsBodyStep, RestoredLiesStep, JoiningStep
  DEF IInv

(* The inductive invariant of the console, its control thread and the SDK. *)
THEOREM Invariance == Spec => []IInv
  BY InvInit, InvStep, PTL DEF Spec

-----------------------------------------------------------------------------

(* The variables keep their types: what the console and the loop assign.   *)
THEOREM TypeCorrect == Spec => []TypeOK
<1>1. IInv => TypeOK  BY DEF IInv
<1> QED  BY Invariance, <1>1, PTL

(* The loop sends no frame between the frames of a pose transition, for    *)
(* every length of a transition: loop.pause() outlasts a cycle.            *)
THEOREM TransitionsAreAlone == Spec => []OneSender
<1>1. IInv => OneSender  BY DEF IInv, LoopIsQuiet, QuietPc, OneSender
<1> QED  BY Invariance, <1>1, PTL

(* Without a lapse of control and refused transition frames the robot is   *)
(* never moved by a jump of the loop: hold and policy frames continue the  *)
(* pose that the commands brought it to; and a transition continues the    *)
(* measured pose, however control came and went.                           *)
THEOREM FramesAreContinuous == Spec => []FramesContinuePose
<1>1. IInv => FramesContinuePose  BY DEF IInv, ModeTellsBody, TransitionContinues, FramesContinuePose
<1> QED  BY Invariance, <1>1, PTL

(* A walk from standing starts the policy from a zero last action.         *)
THEOREM WalksStartClean == Spec => []WalkStartsFromZero
<1>1. IInv => WalkStartsFromZero  BY DEF IInv, EarlierWalk, WalkStartsFromZero
<1> QED  BY Invariance, <1>1, PTL

(* restore hands over only a robot that lies.                              *)
THEOREM RestoresLyingRobot == Spec => []HandsOverLaying
<1>1. IInv => HandsOverLaying  BY DEF IInv, RestoredLies, HandsOverLaying
<1> QED  BY Invariance, <1>1, PTL

(* close() never gives up on the loop: it has ended before the client is   *)
(* disabled and the engine freed, given that JoinTicks exceeds two cycles. *)
THEOREM CloseWaitsForLoop == Spec => []LoopEndsFirst
<1>1. IInv => LoopEndsFirst  BY DEF IInv, Joining, FinalPc, LoopEndsFirst
<1> QED  BY Invariance, <1>1, PTL
=============================================================================
