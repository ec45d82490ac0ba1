-------------------------- MODULE HighLevelConsole --------------------------
(***************************************************************************)
(* The high-level console (src/examples/example_highlevel.py): one thread  *)
(* reads commands, takes and releases control and sends action requests.   *)
(* Each request is a step; a signal arrives between any two.               *)
(*                                                                         *)
(* The SDK and the robot are not part of the repository.  Control is       *)
(* granted some time after start_control, also when the call has given up, *)
(* and can be lost at any time.  A request of a client that has control    *)
(* succeeds, fails, or is carried out although its answer is late.         *)
(* src/README.md:328: stop_action returns to zero-speed walking, where     *)
(* set_action_params still changes the velocity.                           *)
(***************************************************************************)

VARIABLES
  session,                   \* what get_state() returns; "none" if not connected
  asked,                     \* start_control is still to be granted
  speed,                     \* the velocity of the robot, "foreign" if others set it
  controlled, action_active, \* the console's fields
  stopping,                  \* _stopping
  pc, cmd,                   \* where the console is, and the command it executes
  warned,                    \* the last set_action_params was reported as failed
  blind,                     \* motion was set while action_active was false
  released,                  \* control was given back and not taken again
  refused,                   \* release_control failed on exit
  raced,                     \* control was granted on exit after its check
  kept                       \* the client disconnected with control

console == <<controlled, action_active>>
history == <<warned, blind, released, refused, raced, kept>>
vars == <<session, asked, speed, console, stopping, pc, cmd, history>>

Sessions == {"none", "lost", "connected", "controlled"}
Speeds   == {"zero", "moving", "foreign"}
Requests == {"start", "set", "send", "zero", "stop", "estop"}
Commands == Requests \cup {"none", "take", "release", "quit"}
Exit     == {"clearFirst", "releaseControl", "awaitRelease", "disconnect"}
AtPrompt == {"prompt", "readline"}
Pc       == {"connect", "discover", "take", "startControl", "awaitControl", "require",
             "request", "sleep", "clear", "release", "done"} \cup AtPrompt \cup Exit

Init ==
  /\ session = "none" /\ asked = FALSE /\ speed \in {"zero", "foreign"}
  /\ controlled = FALSE /\ action_active = FALSE /\ stopping = FALSE
  /\ pc = "connect" /\ cmd = "none"
  /\ warned = FALSE /\ blind = FALSE /\ released = FALSE
  /\ refused = FALSE /\ raced = FALSE /\ kept = FALSE

(* How a request ends: answered, carried out without an answer, or not.    *)
Outcomes == IF session = "controlled" THEN {"answered", "unanswered", "failed"}
                                      ELSE {"failed"}

Apply(o, v) == speed' = IF o = "failed" THEN speed ELSE v

(* set_action_params(v)                                                    *)
SetParams(o, v) ==
  /\ Apply(o, v)
  /\ warned' = (o # "answered")
  /\ blind' = IF o = "failed" THEN blind ELSE v = "moving" /\ ~action_active

-----------------------------------------------------------------------------
(* Connecting, taking control.                                             *)

Connect(ok) ==
  /\ pc = "connect"
  /\ session' = IF ok THEN "connected" ELSE "none"
  /\ pc' = IF ok THEN "discover" ELSE "release"
  /\ cmd' = IF ok THEN "none" ELSE "quit"
  /\ UNCHANGED <<asked, speed, console, stopping, history>>

Discover(found, readOnly) ==
  /\ pc = "discover"
  /\ found => ~stopping /\ session # "lost"
  /\ pc' = CASE ~found -> "release"
             [] found /\ readOnly -> "prompt"
             [] OTHER -> "take"
  /\ cmd' = IF found THEN "none" ELSE "quit"
  /\ UNCHANGED <<session, asked, speed, console, stopping, history>>

TakeControl ==
  /\ pc = "take"
  /\ IF session = "controlled"
     THEN controlled' = TRUE /\ pc' = "prompt"
     ELSE controlled' = controlled /\ pc' = "startControl"
  /\ UNCHANGED <<session, asked, speed, action_active, stopping, cmd, history>>

StartControl(answer) ==
  /\ pc = "startControl"
  /\ asked' \in IF answer THEN {TRUE} ELSE BOOLEAN
  /\ pc' = IF answer THEN "awaitControl" ELSE "prompt"
  /\ UNCHANGED <<session, speed, console, stopping, cmd, history>>

(* Control, the deadline or a signal ends the wait.                        *)
AwaitControl ==
  /\ pc = "awaitControl"
  /\ controlled' = (session = "controlled" \/ controlled)
  /\ pc' = "prompt"
  /\ UNCHANGED <<session, asked, speed, action_active, stopping, cmd, history>>

-----------------------------------------------------------------------------
(* Commands.                                                               *)

(* select() reports input: readline() waits for the rest of the line.  A   *)
(* signal runs the handler and the read goes on, so the line is executed   *)
(* after the signal.                                                       *)
BeginLine ==
  /\ pc = "prompt" /\ ~stopping
  /\ pc' = "readline"
  /\ UNCHANGED <<session, asked, speed, console, stopping, cmd, history>>

Read(c) ==
  /\ pc = "readline"
  /\ cmd' = c
  /\ pc' = CASE c \in Requests -> "require"
             [] c = "take" -> "take"
             [] OTHER -> "release"
  /\ UNCHANGED <<session, asked, speed, console, stopping, history>>

(* An empty line, a query, or a command that is not understood.            *)
ReadNothing ==
  /\ pc = "readline"
  /\ pc' = "prompt"
  /\ UNCHANGED <<session, asked, speed, console, stopping, cmd, history>>

LeavePromptAfterQuit ==
  /\ pc = "prompt" /\ stopping /\ cmd = "quit"
  /\ pc' = "release"
  /\ UNCHANGED <<session, asked, speed, console, stopping, cmd, history>>

(* select() polls the flag ten times a second.                             *)
LeavePrompt ==
  /\ pc = "prompt" /\ stopping
  /\ cmd' = "quit" /\ pc' = "release"
  /\ UNCHANGED <<session, asked, speed, console, stopping, history>>

RequireControl ==
  /\ pc = "require"
  /\ controlled' = (session = "controlled")
  /\ pc' = IF session = "controlled" THEN "request" ELSE "prompt"
  /\ UNCHANGED <<session, asked, speed, action_active, stopping, cmd, history>>

Request(c) == pc = "request" /\ cmd = c /\ UNCHANGED <<session, asked, controlled, stopping,
                                                       cmd, released, refused, raced, kept>>

StartAction(o, v) ==
  /\ Request("start")
  /\ Apply(o, v)
  /\ action_active' = (action_active \/ o = "answered")
  /\ warned' = IF o = "failed" THEN warned ELSE FALSE
  /\ blind' = IF o = "failed" THEN blind ELSE v = "moving" /\ ~action_active'
  /\ pc' = "prompt"

Set(o, v) ==
  /\ Request("set")
  /\ SetParams(o, v)
  /\ pc' = "prompt"
  /\ UNCHANGED action_active

Send(o, v) ==
  /\ Request("send")
  /\ SetParams(o, v)
  /\ pc' = IF o = "answered" THEN "sleep" ELSE "prompt"
  /\ UNCHANGED action_active

Zero(o) ==
  /\ Request("zero")
  /\ SetParams(o, "zero")
  /\ pc' = "prompt"
  /\ UNCHANGED action_active

StopActionAnyway(o) ==
  /\ Request("stop")
  /\ Apply(o, "zero")
  /\ action_active' = FALSE
  /\ pc' = "prompt"
  /\ UNCHANGED <<warned, blind>>

StopAction(o) ==
  /\ Request("stop")
  /\ Apply(o, "zero")
  /\ action_active' = (action_active /\ o # "answered")
  /\ pc' = "prompt"
  /\ UNCHANGED <<warned, blind>>

EmergencyStop(o) ==
  /\ Request("estop")
  /\ Apply(o, "zero")
  /\ pc' = "prompt"
  /\ UNCHANGED <<action_active, warned, blind>>

SleepThenQuit ==
  /\ pc = "sleep"
  /\ pc' = IF stopping THEN "prompt" ELSE "clear"
  /\ UNCHANGED <<session, asked, speed, console, stopping, cmd, history>>

(* sleep_interruptibly returns; the velocity is cleared in either case.    *)
Sleep ==
  /\ pc = "sleep"
  /\ pc' = "clear"
  /\ UNCHANGED <<session, asked, speed, console, stopping, cmd, history>>

ClearAfterSend(o) ==
  /\ pc = "clear"
  /\ SetParams(o, "zero")
  /\ pc' = "prompt"
  /\ UNCHANGED <<session, asked, console, stopping, cmd, released, refused, raced, kept>>

-----------------------------------------------------------------------------
(* release_control and close.                                              *)

After == IF cmd = "quit" THEN "disconnect" ELSE "prompt"

ReleaseByField ==
  /\ pc = "release"
  /\ controlled' = controlled
  /\ pc' = CASE ~controlled -> After
             [] controlled /\ action_active -> "clearFirst"
             [] OTHER -> "releaseControl"
  /\ UNCHANGED <<session, asked, speed, action_active, stopping, cmd, history>>

Release ==
  /\ pc = "release"
  /\ controlled' = (controlled /\ session = "controlled")
  /\ pc' = CASE session # "controlled" -> After
             [] session = "controlled" /\ action_active -> "clearFirst"
             [] OTHER -> "releaseControl"
  /\ UNCHANGED <<session, asked, speed, action_active, stopping, cmd, history>>

ClearFirst(o) ==
  /\ pc = "clearFirst"
  /\ SetParams(o, "zero")
  /\ action_active' = FALSE
  /\ pc' = "releaseControl"
  /\ UNCHANGED <<session, asked, controlled, stopping, cmd, released, refused, raced, kept>>

(* A failed release returns with control; close() disconnects all the same.*)
ReleaseControl(o) ==
  /\ pc = "releaseControl"
  /\ session' = IF o = "failed" THEN session ELSE "connected"
  /\ released' = (released \/ o # "failed")
  /\ refused' = (o # "answered" /\ cmd = "quit")
  /\ pc' = IF o = "answered" THEN "awaitRelease" ELSE After
  /\ UNCHANGED <<asked, speed, console, stopping, cmd, warned, blind, raced, kept>>

AwaitRelease ==
  /\ pc = "awaitRelease"
  /\ controlled' = FALSE
  /\ pc' = After
  /\ UNCHANGED <<session, asked, speed, action_active, stopping, cmd, history>>

Disconnect ==
  /\ pc = "disconnect"
  /\ kept' = (session = "controlled")
  /\ session' = "none" /\ asked' = FALSE
  /\ pc' = "done"
  /\ UNCHANGED <<speed, console, stopping, cmd, warned, blind, released, refused, raced>>

-----------------------------------------------------------------------------
(* The SDK, the robot and the operating system.                            *)

Grant ==
  /\ asked /\ session = "connected"
  /\ session' = "controlled" /\ asked' = FALSE /\ released' = FALSE
  /\ speed' = "foreign"
  /\ raced' = (pc \in Exit /\ cmd = "quit")
  /\ UNCHANGED <<console, stopping, pc, cmd, warned, blind, refused, kept>>

DropRequest ==
  /\ asked
  /\ asked' = FALSE
  /\ UNCHANGED <<session, speed, console, stopping, pc, cmd, history>>

Lose ==
  /\ session \in {"connected", "controlled"}
  /\ session' \in {"lost", "connected"} \ {session}
  /\ speed' = IF session = "controlled" THEN "foreign" ELSE speed
  /\ UNCHANGED <<asked, console, stopping, pc, cmd, history>>

Recover ==
  /\ session = "lost"
  /\ session' = "connected"
  /\ UNCHANGED <<asked, speed, console, stopping, pc, cmd, history>>

OnSignal ==
  /\ ~stopping
  /\ stopping' = TRUE
  /\ UNCHANGED <<session, asked, speed, console, pc, cmd, history>>

-----------------------------------------------------------------------------

Step ==
  \/ \E ok \in BOOLEAN : Connect(ok) \/ StartControl(ok)
  \/ \E found, readOnly \in BOOLEAN : Discover(found, readOnly)
  \/ TakeControl \/ AwaitControl \/ LeavePrompt \/ RequireControl
  \/ \E o \in Outcomes, v \in {"zero", "moving"} :
       StartAction(o, v) \/ Set(o, v) \/ Send(o, v)
  \/ \E o \in Outcomes :
       \/ Zero(o) \/ StopAction(o) \/ EmergencyStop(o) \/ ClearAfterSend(o)
       \/ ClearFirst(o) \/ ReleaseControl(o)
  \/ Sleep \/ Release \/ AwaitRelease \/ Disconnect

Environment == Grant \/ DropRequest \/ Lose \/ Recover \/ OnSignal

LineEnds == ReadNothing \/ \E c \in Commands \ {"none"} : Read(c)

Next == Step \/ BeginLine \/ LineEnds \/ Environment

Spec == Init /\ [][Next]_vars

(* The console runs and its calls return; the user may never type, but a   *)
(* line that is begun ends: a terminal in canonical mode hands over whole  *)
(* lines only, and the writer of a pipe is taken to finish its line.       *)
FairSpec == Spec /\ WF_vars(Step) /\ WF_vars(LineEnds)

-----------------------------------------------------------------------------

(* The types of the state.                                                 *)
TypeOK ==
  /\ session \in Sessions /\ speed \in Speeds
  /\ pc \in Pc /\ cmd \in Commands
  /\ asked \in BOOLEAN /\ controlled \in BOOLEAN /\ action_active \in BOOLEAN
  /\ stopping \in BOOLEAN /\ warned \in BOOLEAN /\ blind \in BOOLEAN
  /\ released \in BOOLEAN /\ refused \in BOOLEAN /\ raced \in BOOLEAN /\ kept \in BOOLEAN

(* Control is given back with the robot in motion only if the console has  *)
(* reported that it could not clear the velocity, or if the motion was set *)
(* while the console knew of no action: a request that timed out, a refused*)
(* release or lost control in between do not lose the clearing.            *)
ReleaseClearsStartedAction == released /\ speed = "moving" => warned \/ blind

(* ... and in every case.  examples/README.md says that the program zeros  *)
(* the walking velocity on exit.                                           *)
QuitClearsVelocity == pc = "done" /\ released /\ speed = "moving" => warned

(* A timed `send` that is back at the prompt has stopped the robot, if the *)
(* console still has control, or has reported a failure, also when a signal*)
(* cuts its time short.                                                    *)
SendEndsAtRest ==
  pc \in AtPrompt /\ cmd = "send" /\ speed = "moving" /\ ~released => warned

(* The program leaves with control only if its release was refused or      *)
(* control was granted between its last check and the disconnect: control  *)
(* that was granted after `take` gave up waiting is released as well.      *)
ExitGivesControlBack == kept => refused \/ raced

(* A signal ends the program, whether the user types, does not, or is in   *)
(* the middle of a line.                                                   *)
SignalEndsProgram == stopping ~> (pc = "done")
=============================================================================
