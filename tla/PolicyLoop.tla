----------------------------- MODULE PolicyLoop -----------------------------
(***************************************************************************)
(* The low-level policy console                                            *)
(* (src/examples/example_lowlevel_tensorrt.py): the main thread reads      *)
(* commands and sends pose transitions, a PolicyControlLoop thread sends   *)
(* hold and policy frames at a fixed rate.  They share the loop's mode and *)
(* poses under a lock, and the SDK client.  pause() does not wait for an   *)
(* answer: it sets the mode and sleeps two periods.                        *)
(*                                                                         *)
(* Time is counted in control periods: a Tick ends a period.  The SDK is   *)
(* not part of the repository: enabling and disabling are requests that it *)
(* answers later, or not; it may lose the session and find it again; a     *)
(* prepared session accepts a control frame or refuses it (send_control    *)
(* answers False), another one refuses it.                                 *)
(***************************************************************************)
EXTENDS Integers

CONSTANTS
  MaxCycle,  \* periods from a snapshot of the loop to the end of its cycle
  JoinTicks, \* periods that close() waits for the thread, 100 in the code
  Steps      \* frames of a pose transition

ASSUME ConstantsAssumption ==
  /\ MaxCycle \in Nat
  /\ JoinTicks \in Nat
  /\ Steps \in Nat \ {0}

(* A cycle waits at most 10 ms for an observation and runs one inference:  *)
(* it ends within one period of 20 ms.                                     *)
ASSUME CycleAssumption == MaxCycle < 2

(* Two seconds are more than two cycles and the sleeps after them.         *)
ASSUME JoinAssumption == JoinTicks > 2 * (MaxCycle + 1)

VARIABLES
  mode, hold, last, running,         \* the loop's fields
  wpc, snap, age,                    \* its thread, and the time since its snapshot
  mpc, cmd, posture, timer, steps,   \* the main thread
  from,                              \* the pose its next transition frame starts from
  sdk, request,                      \* the client's state, and the request it works on
  body,                              \* the pose that the accepted frames led to
  restored,                          \* built-in control is restored, until the next grant
  lapsed,                            \* since the last completed transition control
                                     \* ended while no command asked for it
  refused,                           \* the prepared session refused a frame of the
                                     \* last transition
  assumed,                           \* the last transition started from a wrong pose
  jumped,                            \* who moved the robot by a jump since its start
  rewalked                           \* the last walk was entered while walking

loopVars   == <<mode, hold, last, running>>
workerVars == <<wpc, snap, age>>
mainVars   == <<mpc, cmd, posture, timer, steps, from>>
sdkVars    == <<sdk, request>>
history    == <<lapsed, refused, assumed, jumped, rewalked>>
vars == <<loopVars, workerVars, mainVars, sdkVars, body, restored, history>>

Modes    == {"idle", "stand", "walk"}
Poses    == {"laying", "standing"}
Runs     == {"zero", "this", "earlier"}  \* whose action the policy sees as its last one
Bodies   == Poses \cup {"between", "walking", "unknown"}
Commands == {"none", "stand", "walk", "walkPrepare", "stop", "lay", "restore", "quit"}
WorkerPc == {"top", "snap", "observe", "send", "store", "sleep", "ended"}
Busy     == {"observe", "send", "store"}
MainPc   == {"prompt", "ensure", "waitPrepared", "recheck", "pause", "paused",
             "transition", "hold", "walk", "verify", "disable", "waitConnected",
             "handOver", "close", "join", "finalDisable", "disconnect",
             "policyClose", "done", "aborted"}

(* The snapshot between two cycles: nobody reads the earlier one.          *)
NoCycle == [mode |-> "idle", hold |-> "standing", run |-> "this"]

Init ==
  /\ mode = "idle" /\ hold = "standing" /\ last = "zero" /\ running = TRUE
  /\ wpc = "top" /\ snap = NoCycle /\ age = 0
  /\ mpc = "prompt" /\ cmd = "none" /\ posture = "laying" /\ timer = 0 /\ steps = 0
  /\ from = "none"
  /\ sdk = "connected" /\ request = "none"
  /\ body = "laying"
  /\ restored = FALSE
  /\ lapsed = FALSE /\ refused = FALSE /\ assumed = FALSE
  /\ jumped = {} /\ rewalked = FALSE

-----------------------------------------------------------------------------
(* PolicyControlLoop._run.                                                 *)

LoopTop ==
  /\ wpc = "top"
  /\ wpc' = IF running THEN "snap" ELSE "ended"
  /\ UNCHANGED <<loopVars, snap, age, mainVars, sdkVars, body, restored, history>>

Snapshot ==
  /\ wpc = "snap"
  /\ snap' = [mode |-> mode, hold |-> hold, run |-> "this"]
  /\ age' = 0
  /\ \/ mode = "idle"  /\ wpc' = "sleep"
     \/ mode = "stand" /\ wpc' = "send"
     \/ mode = "walk"  /\ wpc' = "observe"
  /\ UNCHANGED <<loopVars, mainVars, sdkVars, body, restored, history>>

(* No observation within 10 ms: no frame in this cycle.                    *)
Observe ==
  /\ wpc = "observe"
  /\ wpc' \in {"send", "sleep"}
  /\ UNCHANGED <<loopVars, snap, age, mainVars, sdkVars, body, restored, history>>

(* The inference raises: the thread ends, and its fields stay as they are. *)
InferFails ==
  /\ wpc = "observe"
  /\ wpc' = "ended"
  /\ UNCHANGED <<loopVars, snap, age, mainVars, sdkVars, body, restored, history>>

(* A hold frame from another pose, or a policy frame when the robot does   *)
(* not stand or walk, is a jump.                                           *)
Jumps == IF snap.mode = "stand" THEN body # snap.hold
                                ELSE body \notin {"standing", "walking"}

(* The answer only counts as sent or failed, for the command `state`.      *)
LoopSend ==
  /\ wpc = "send"
  /\ wpc' = IF snap.mode = "walk" THEN "store" ELSE "sleep"
  /\ \/ /\ sdk = "prepared"
        /\ body' = IF snap.mode = "stand" THEN snap.hold ELSE "walking"
        /\ jumped' = jumped \cup (IF Jumps THEN {"loop"} ELSE {})
     \/ UNCHANGED <<body, jumped>>
  /\ UNCHANGED <<loopVars, snap, age, mainVars, sdkVars, restored, lapsed, refused,
                 assumed, rewalked>>

StoreAction ==
  /\ wpc = "store"
  /\ last' = snap.run
  /\ wpc' = "sleep"
  /\ UNCHANGED <<mode, hold, running, snap, age, mainVars, sdkVars, body, restored,
                 history>>

NextCycle ==
  /\ wpc = "sleep"
  /\ wpc' = "top"
  /\ snap' = NoCycle
  /\ UNCHANGED <<loopVars, age, mainVars, sdkVars, body, restored, history>>

-----------------------------------------------------------------------------
(* The console: one step of the main thread each.                          *)

CommandAt(label) == IF label = "prompt" THEN "none" ELSE cmd

Goto(label) ==
  /\ mpc' = label
  /\ cmd' = CommandAt(label)
  /\ UNCHANGED <<posture, timer, steps, from>>

(* stop and lay need kPrepared, restore needs the laying posture; a        *)
(* command that is refused leaves everything as it is.                     *)
Refused(c) == \/ c \in {"stop", "lay"} /\ sdk # "prepared"
              \/ c = "restore" /\ posture # "laying"

AlwaysWalks(c) == c

Resolved(c) == IF c = "walk" /\ posture # "standing" /\ posture # "walking"
               THEN "walkPrepare" ELSE c

ReadCommand(c) ==
  /\ mpc = "prompt"
  /\ ~Refused(c)
  /\ cmd' = Resolved(c)
  /\ mpc' = IF c \in {"stand", "walk"} THEN "ensure" ELSE "pause"
  /\ UNCHANGED <<posture, timer, steps, from, loopVars, workerVars, sdkVars, body,
                 restored, history>>

(* ensure_prepared.                                                        *)
EnsureEnabled ==
  /\ mpc = "ensure"
  /\ \/ sdk # "connected" /\ Goto("recheck") /\ UNCHANGED request
     \/ sdk = "connected" /\ Goto("prompt") /\ UNCHANGED request
     \/ sdk = "connected" /\ Goto("waitPrepared") /\ request' = "enable"
  /\ UNCHANGED <<loopVars, workerVars, sdk, body, restored, history>>

WaitState(label, target, found) ==
  /\ mpc = label
  /\ \/ sdk = target /\ Goto(found)
     \/ sdk # target /\ Goto("prompt")
  /\ UNCHANGED <<loopVars, workerVars, sdkVars, body, restored, history>>

WaitForPreparedWithoutDeadline ==
  /\ mpc = "waitPrepared"
  /\ sdk = "prepared"
  /\ Goto("recheck")
  /\ UNCHANGED <<loopVars, workerVars, sdkVars, body, restored, history>>

WaitForPrepared == WaitState("waitPrepared", "prepared", "recheck")

Recheck ==
  /\ mpc = "recheck"
  /\ \/ sdk # "prepared" /\ Goto("prompt")
     \/ sdk = "prepared" /\ Goto(IF cmd = "walk" THEN "walk" ELSE "pause")
  /\ UNCHANGED <<loopVars, workerVars, sdkVars, body, restored, history>>

(* loop.pause(): the mode, then two periods of sleep.                      *)
PauseOnePeriod ==
  /\ mpc = "pause"
  /\ mode' = "idle"
  /\ timer' = 1
  /\ mpc' = "paused"
  /\ UNCHANGED <<cmd, posture, steps, from, hold, last, running, workerVars, sdkVars,
                 body, restored, history>>

Pause ==
  /\ mpc = "pause"
  /\ mode' = "idle"
  /\ timer' = 2
  /\ mpc' = "paused"
  /\ UNCHANGED <<cmd, posture, steps, from, hold, last, running, workerVars, sdkVars,
                 body, restored, history>>

Target  == IF cmd = "lay" THEN "laying" ELSE "standing"

(* The pose to start from is measured, within 500 ms.  Without an          *)
(* observation the code takes the crouch for a stand and the standing pose *)
(* for a stop or a lay.                                                    *)
Assumed == IF cmd \in {"stand", "walkPrepare"} THEN "laying" ELSE "standing"

AfterPause == IF cmd = "restore" THEN "verify"
              ELSE IF cmd = "quit" THEN "close" ELSE "transition"

Paused ==
  /\ mpc = "paused"
  /\ timer = 0
  /\ mpc' = AfterPause
  /\ IF AfterPause = "transition"
     THEN /\ steps' = Steps
          /\ from' \in {body, Assumed}
          /\ assumed' = (from' # body) /\ refused' = FALSE /\ jumped' = {}
     ELSE UNCHANGED <<steps, from, assumed, refused, jumped>>
  /\ UNCHANGED <<cmd, posture, timer, loopVars, workerVars, sdkVars, body, restored,
                 lapsed, rewalked>>

Frame == IF steps = 1 THEN Target ELSE "between"

(* _run_pose_transition: the result of send_control is not looked at, the  *)
(* next frame is one step further also after a refused one.                *)
TransitionFrame ==
  /\ mpc = "transition"
  /\ timer = 0 /\ steps > 0
  /\ \/ /\ sdk = "prepared"
        /\ body' = Frame
        /\ jumped' = jumped \cup (IF body # from THEN {"transition"} ELSE {})
        /\ lapsed' = (lapsed /\ steps > 1)
        /\ UNCHANGED refused
     \/ /\ refused' = (refused \/ sdk = "prepared")
        /\ UNCHANGED <<body, jumped, lapsed>>
  /\ from' = Frame
  /\ steps' = steps - 1
  /\ timer' = 1
  /\ UNCHANGED <<mpc, cmd, posture, loopVars, workerVars, sdkVars, restored, assumed,
                 rewalked>>

EndTransition ==
  /\ mpc = "transition"
  /\ timer = 0 /\ steps = 0
  /\ mpc' = "hold"
  /\ from' = "none"
  /\ UNCHANGED <<cmd, posture, timer, steps, loopVars, workerVars, sdkVars, body,
                 restored, history>>

(* loop.hold(target), then the console's note of the posture.              *)
Hold ==
  /\ mpc = "hold"
  /\ mode' = "stand"
  /\ hold' = Target
  /\ posture' = Target
  /\ mpc' = IF cmd = "walkPrepare" THEN "walk" ELSE "prompt"
  /\ cmd' = CommandAt(mpc')
  /\ UNCHANGED <<timer, steps, from, last, running, workerVars, sdkVars, body,
                 restored, history>>

(* loop.walk(command).  A policy cycle in flight belongs to the earlier    *)
(* walk from now on.                                                       *)
WalkKeepsLastAction ==
  /\ mpc = "walk"
  /\ mode' = "walk"
  /\ last' = IF last = "zero" THEN "zero" ELSE "earlier"
  /\ snap' = [snap EXCEPT !.run = "earlier"]
  /\ rewalked' = (posture = "walking")
  /\ posture' = "walking"
  /\ mpc' = "prompt" /\ cmd' = "none"
  /\ UNCHANGED <<timer, steps, from, hold, running, wpc, age, sdkVars, body,
                 restored, lapsed, refused, assumed, jumped>>

Walk ==
  /\ mpc = "walk"
  /\ mode' = "walk"
  /\ last' = "zero"
  /\ snap' = [snap EXCEPT !.run = "earlier"]
  /\ rewalked' = (posture = "walking")
  /\ posture' = "walking"
  /\ mpc' = "prompt" /\ cmd' = "none"
  /\ UNCHANGED <<timer, steps, from, hold, running, wpc, age, sdkVars, body,
                 restored, lapsed, refused, assumed, jumped>>

(* restore: no observation or another posture refuses.                     *)
VerifyNothing ==
  /\ mpc = "verify"
  /\ Goto("disable")
  /\ UNCHANGED <<loopVars, workerVars, sdkVars, body, restored, history>>

VerifyLaying ==
  /\ mpc = "verify"
  /\ \/ Goto("prompt") /\ UNCHANGED body
     \/ body \in {"laying", "unknown"} /\ body' = "laying" /\ Goto("disable")
  /\ UNCHANGED <<loopVars, workerVars, sdkVars, restored, history>>

Disable ==
  /\ mpc = "disable"
  /\ \/ sdk # "prepared" /\ Goto("handOver") /\ UNCHANGED request
     \/ sdk = "prepared" /\ Goto("prompt") /\ UNCHANGED request
     \/ sdk = "prepared" /\ Goto("waitConnected") /\ request' = "disable"
  /\ UNCHANGED <<loopVars, workerVars, sdk, body, restored, history>>

WaitForConnected == WaitState("waitConnected", "connected", "handOver")

(* restore_motion_control_mode(5000), then break to the finally clause.    *)
(* The call may fail, and may fail after the mode was restored: the answer *)
(* that came too late.                                                     *)
HandOver ==
  /\ mpc = "handOver"
  /\ \/ Goto("prompt") /\ UNCHANGED restored
     \/ /\ sdk = "connected"
        /\ restored' = TRUE
        /\ \/ Goto("prompt")
           \/ /\ mpc' = "pause" /\ cmd' = "quit"
              /\ UNCHANGED <<posture, timer, steps, from>>
  /\ UNCHANGED <<loopVars, workerVars, sdkVars, body, history>>

(* KeyboardInterrupt in a command: only RuntimeError and ValueError are    *)
(* caught, the finally clause runs.                                        *)
Interrupt ==
  /\ mpc # "done" /\ mpc # "prompt" /\ cmd # "quit"
  /\ cmd' = "quit" /\ mpc' = "pause"
  /\ timer' = 0 /\ steps' = 0 /\ from' = "none"
  /\ UNCHANGED <<posture, loopVars, workerVars, sdkVars, body, restored,
                 history>>

(* loop.close(): running, then join(timeout).                              *)
CloseWithoutJoin ==
  /\ mpc = "close"
  /\ running' = FALSE
  /\ timer' = 0
  /\ mpc' = "join"
  /\ UNCHANGED <<cmd, posture, steps, from, mode, hold, last, workerVars, sdkVars, body,
                 restored, history>>

Close ==
  /\ mpc = "close"
  /\ running' = FALSE
  /\ timer' = JoinTicks
  /\ mpc' = "join"
  /\ UNCHANGED <<cmd, posture, steps, from, mode, hold, last, workerVars, sdkVars, body,
                 restored, history>>

Join ==
  /\ mpc = "join"
  /\ wpc = "ended" \/ timer = 0
  /\ mpc' = "finalDisable"
  /\ timer' = 0
  /\ UNCHANGED <<cmd, posture, steps, from, loopVars, workerVars, sdkVars, body,
                 restored, history>>

FinalDisable ==
  /\ mpc = "finalDisable"
  /\ Goto("disconnect")
  /\ request' \in IF sdk = "prepared" THEN {request, "disable"} ELSE {request}
  /\ UNCHANGED <<loopVars, workerVars, sdk, body, restored, history>>

Collapsed == IF body = "laying" THEN "laying" ELSE "unknown"

(* client.disconnect() and service.shutdown().                             *)
Disconnect ==
  /\ mpc = "disconnect"
  /\ Goto("policyClose")
  /\ sdk' = "disconnected" /\ request' = "none"
  /\ body' = IF sdk = "prepared" THEN Collapsed ELSE body
  /\ UNCHANGED <<loopVars, workerVars, restored, history>>

ClosePolicy ==
  /\ mpc = "policyClose"
  /\ Goto("done")
  /\ UNCHANGED <<loopVars, workerVars, sdkVars, body, restored, history>>

(* KeyboardInterrupt in the finally clause: the rest of it is skipped, the *)
(* process ends and takes the loop's daemon thread and the session along.  *)
InterruptCleanup ==
  /\ mpc \notin {"prompt", "done", "aborted"} /\ cmd = "quit"
  /\ mpc' = "aborted"
  /\ wpc' = "ended"
  /\ sdk' = "disconnected" /\ request' = "none"
  /\ body' = IF sdk = "prepared" THEN Collapsed ELSE body
  /\ UNCHANGED <<cmd, posture, timer, steps, from, loopVars, snap, age, restored,
                 history>>

-----------------------------------------------------------------------------
(* The SDK.                                                                *)

(* Low-level control takes over from the built-in one.                     *)
GrantEnable ==
  /\ request = "enable" /\ sdk = "connected"
  /\ sdk' = "prepared" /\ request' = "none"
  /\ restored' = FALSE
  /\ UNCHANGED <<loopVars, workerVars, mainVars, body, history>>

(* The motors of a robot that does not lie let it fall.                    *)
LeavePrepared(s) ==
  /\ sdk' = s /\ request' = "none"
  /\ body' = IF sdk = "prepared" THEN Collapsed ELSE body

GrantDisable ==
  /\ request = "disable" /\ sdk = "prepared"
  /\ LeavePrepared("connected")
  /\ lapsed' = (lapsed \/ mpc \notin {"waitConnected", "disconnect"})
  /\ UNCHANGED <<loopVars, workerVars, mainVars, restored, refused, assumed, jumped,
                 rewalked>>

FailRequest ==
  /\ request # "none"
  /\ request' = "none"
  /\ UNCHANGED <<loopVars, workerVars, mainVars, sdk, body, restored, history>>

Lose ==
  /\ sdk \in {"connected", "prepared"}
  /\ LeavePrepared("lost")
  /\ lapsed' = (lapsed \/ sdk = "prepared")
  /\ UNCHANGED <<loopVars, workerVars, mainVars, restored, refused, assumed, jumped,
                 rewalked>>

Reconnect ==
  /\ sdk = "lost"
  /\ sdk' = "connected"
  /\ UNCHANGED <<loopVars, workerVars, mainVars, request, body, restored, history>>

-----------------------------------------------------------------------------

(* A cycle ends in time, and the next one starts within a period.          *)
InTime ==
  \/ wpc = "ended"
  \/ wpc \in Busy /\ age < MaxCycle
  \/ wpc \in {"top", "snap", "sleep"} /\ age < MaxCycle + 1

Tick ==
  /\ InTime
  /\ timer' = IF timer > 0 THEN timer - 1 ELSE 0
  /\ age' = IF wpc = "ended" THEN age ELSE age + 1
  /\ UNCHANGED <<mpc, cmd, posture, steps, from, loopVars, wpc, snap, sdkVars, body,
                 restored, history>>

LoopStep ==
  \/ LoopTop \/ Snapshot \/ Observe \/ InferFails \/ LoopSend \/ StoreAction
  \/ NextCycle

CommandStep ==
  \/ EnsureEnabled \/ WaitForPrepared \/ Recheck
  \/ Pause \/ Paused \/ TransitionFrame \/ EndTransition \/ Hold \/ Walk
  \/ VerifyLaying \/ Disable \/ WaitForConnected \/ HandOver
  \/ Close \/ Join \/ FinalDisable \/ Disconnect \/ ClosePolicy

SdkStep == GrantEnable \/ GrantDisable \/ FailRequest \/ Lose \/ Reconnect

Next ==
  \/ LoopStep
  \/ CommandStep
  \/ \E c \in {"stand", "walk", "stop", "lay", "restore", "quit"} : ReadCommand(c)
  \/ Interrupt \/ InterruptCleanup
  \/ SdkStep
  \/ Tick

Spec == Init /\ [][Next]_vars

(* Both threads are scheduled and time passes; the user may never type.    *)
Fairness == WF_vars(LoopStep) /\ WF_vars(CommandStep) /\ WF_vars(Tick)

FairSpec == Spec /\ Fairness

-----------------------------------------------------------------------------

(* The types of the state.                                                 *)
TypeOK ==
  /\ mode \in Modes /\ hold \in Poses /\ last \in Runs /\ running \in BOOLEAN
  /\ wpc \in WorkerPc
  /\ snap \in [mode : Modes, hold : Poses, run : Runs]
  /\ age \in Nat
  /\ mpc \in MainPc /\ cmd \in Commands
  /\ posture \in Poses \cup {"walking"}
  /\ timer \in Nat /\ steps \in Nat
  /\ from \in Bodies \cup {"none"}
  /\ sdk \in {"connected", "prepared", "lost", "disconnected"}
  /\ request \in {"none", "enable", "disable"}
  /\ body \in Bodies
  /\ restored \in BOOLEAN
  /\ lapsed \in BOOLEAN /\ refused \in BOOLEAN /\ assumed \in BOOLEAN
  /\ jumped \subseteq {"loop", "transition"} /\ rewalked \in BOOLEAN

(* The loop sends nothing between the frames of a pose transition: the two *)
(* periods that pause() sleeps outlast a cycle in flight.                  *)
OneSender == mpc = "transition" => (wpc \notin Busy \/ snap.mode = "idle")

(* As long as control ends only where a command ends it and the prepared   *)
(* session takes the frames of the last transition, every frame of the loop*)
(* continues the pose the robot has: hold frames follow a finished         *)
(* transition and the policy runs on a robot that stands or walks.  After  *)
(* a lapse this is so again from the next completed transition on.  And    *)
(* whatever happens to control, a transition moves on from the pose of the *)
(* robot: it jumps after a refused frame, or if nothing was measured.      *)
FramesContinuePose ==
  /\ "loop" \in jumped => lapsed \/ refused
  /\ "transition" \in jumped => refused \/ assumed

(* ... also when control lapsed.  The help says `walk` stands first if     *)
(* needed and `stand` moves smoothly from the measured pose.               *)
FramesAlwaysContinuePose == "loop" \in jumped => refused

(* A walk entered from standing starts the policy from a zero last action: *)
(* no cycle of an earlier walk stores its action after loop.walk().        *)
WalkStartsFromZero == last = "earlier" => rewalked

(* Built-in control is restored only to a robot that lies, although the    *)
(* noted posture says laying when the lay frames were refused, and the     *)
(* robot keeps lying until low-level control is granted again, although a  *)
(* late answer brings the console back to its prompt.                      *)
HandsOverLaying == restored => body = "laying"

(* The loop has ended when motion is disabled, the client disconnected and *)
(* the engine freed: join's deadline never passes.  A Ctrl+C in the finally*)
(* clause skips these steps.                                               *)
LoopEndsFirst ==
  mpc \in {"finalDisable", "disconnect", "policyClose", "done"} => wpc = "ended"

(* Every command returns to the prompt or leaves the program, whatever the *)
(* SDK answers.                                                            *)
EveryCommandEnds == (mpc # "prompt") ~> (mpc \in {"prompt", "done", "aborted"})
=============================================================================
