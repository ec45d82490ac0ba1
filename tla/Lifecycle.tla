----------------------------- MODULE Lifecycle -----------------------------
(****************************************************************************)
(* One run of one example program: its setup, in which any call can be      *)
(* refused or raise, and its cleanup, in which any release can.  Native code*)
(* is what the answers come from; it creates a media client that is nothing *)
(* and connects the session whenever it likes.                              *)
(****************************************************************************)
EXTENDS ExamplePrograms

VARIABLES program,      \* its name
          phase,        \* "setup", "cleanup" or "done"
          at,           \* the step of the setup
          undoing,      \* the cleanup is the one before the try
          group, item,  \* the next release of the cleanup
          open,         \* Resources that native code holds for the program
          noted,        \* the variables that are set, by the names of ExamplePrograms
          up,           \* the session is connected
          nullMedia,    \* the media wrapper is one around nothing
          failed,       \* the exit code will not be 0
          excused,      \* history: Resources that native code did not take back
          aborted,      \* history: what ended the cleanup, "no" if nothing did
          unprotected   \* history: the setup was left outside its try

place    == <<phase, at, undoing, group, item>>
native   == <<open, up, nullMedia>>
history  == <<excused, aborted, unprotected>>
vars     == <<program, place, native, noted, failed, history>>

Names == {"media", "captureAll", "mediaLow", "captureLow", "audioCapture",
          "rawBack", "audioShm", "trc", "lowLevel", "release", "policy", "validate"}

Streams == {"video", "encoded", "audio", "audio2"}

Resources == Streams \cup
  {"service", "session", "bus", "playback", "output", "observation", "mode",
   "motors", "loop", "stream", "input", "outputBuffer"}

\* What lives in what: it has to be given back before.
Inner(r) ==
  CASE r = "service" -> {"session"}
    [] r = "session" -> {"bus", "observation", "mode", "loop"}
    [] r = "bus"     -> Streams \cup {"playback"}
    [] r \in {"stream", "input", "outputBuffer"} -> {"loop"}
    [] OTHER -> {}

\* Shutting the bus down stops its streams; a session takes its motors along.
Closed(r) ==
  CASE r = "bus"     -> {"bus"} \cup Streams
    [] r = "session" -> {"session", "motors"}
    [] OTHER -> {r}

\* Releases that answer.
Answering == Streams \cup {"mode", "observation", "motors"}

One(r) == {r} \ {None}

----------------------------------------------------------------------------
Prog == Programs[program]

Step == Prog.setup[at]

InSetup == phase = "setup"

\* AttributeError: there is nothing behind the wrapper.
OnNothing(r) == r = "bus" /\ nullMedia

\* The release script finds the robot under the control of a low-level program.
Inherited == IF program = "release" THEN {"mode"} ELSE {}

CanSucceed ==
  /\ Step.waits => up
  /\ ~OnNothing(Step.opens)

Init ==
  /\ program \in Names
  /\ phase = "setup"
  /\ at = 1
  /\ undoing = FALSE /\ group = 1 /\ item = 1
  /\ open = Inherited
  /\ noted = {Always}
  /\ up = FALSE
  /\ nullMedia = FALSE
  /\ failed = FALSE
  /\ excused = {}
  /\ aborted = "no"
  /\ unprotected = FALSE

Leave(exit) ==
  /\ phase' = IF exit = "nothing" THEN "done" ELSE "cleanup"
  /\ undoing' = (exit = "undo")
  /\ UNCHANGED <<at, group, item>>

Advance ==
  IF at = Len(Prog.setup) THEN Leave("cleanup")
  ELSE at' = at + 1 /\ UNCHANGED <<phase, undoing, group, item>>

Effect == (open \cup One(Step.opens)) \ One(Step.closes)

Assigned == (noted \cup One(Step.notes)) \ One(Step.forgets)

\* The call succeeds and the variables are assigned.
Perform ==
  /\ InSetup /\ CanSucceed
  /\ open' = Effect
  /\ noted' = Assigned
  /\ Advance
  /\ UNCHANGED <<program, up, nullMedia, failed, history>>

\* Native code creates no media client; the wrapper around it looks like one.
CreateNothing ==
  /\ InSetup /\ Step.notes = "media"
  /\ nullMedia' = TRUE
  /\ noted' = Assigned
  /\ Advance
  /\ UNCHANGED <<program, open, up, failed, history>>

Skip ==
  /\ InSetup /\ Step.optional
  /\ Advance
  /\ UNCHANGED <<program, native, noted, failed, history>>

\* A false answer with which the program goes on.
GoOn ==
  /\ InSetup /\ Step.refused \in {"tolerated", "marked", "ignored"}
  /\ noted' = IF Step.refused = "ignored" THEN Assigned ELSE noted
  /\ failed' = (failed \/ Step.refused = "marked")
  /\ excused' = excused \cup One(Step.closes)
  /\ Advance
  /\ UNCHANGED <<program, native, aborted, unprotected>>

Refuse ==
  /\ InSetup /\ Step.refused \in Exits /\ ~OnNothing(Step.opens)
  /\ failed' = TRUE
  /\ excused' = excused \cup One(Step.closes)
  /\ Leave(Step.refused)
  /\ UNCHANGED <<program, native, noted, aborted, unprotected>>

Raise ==
  /\ InSetup
  /\ failed' = TRUE
  /\ excused' = excused \cup One(Step.closes)
  /\ unprotected' = (Step.raised = "nothing")
  /\ Leave(Step.raised)
  /\ UNCHANGED <<program, native, noted, aborted>>

\* The signal handler's flag is seen.
LeaveEarly ==
  /\ InSetup /\ Step.mayLeave
  /\ Leave("cleanup")
  /\ UNCHANGED <<program, native, noted, failed, history>>

(****************************************************************************)
(* KeyboardInterrupt before the call, or between the call and the           *)
(* assignment: what was opened then is not noted.  No `except Exception'    *)
(* catches it, a `finally' does.                                            *)
(****************************************************************************)
Interrupt ==
  /\ InSetup /\ ~Prog.handles
  /\ \/ UNCHANGED <<open, excused>>
     \/ /\ CanSucceed
        /\ open' = Effect
        /\ excused' = IF Step.notes = None THEN excused
                      ELSE excused \cup One(Step.opens)
  /\ failed' = (failed \/ ~Prog.interruptOk)
  /\ unprotected' = (Step.raised # "cleanup")
  /\ Leave(IF Step.raised = "cleanup" THEN "cleanup" ELSE "nothing")
  /\ UNCHANGED <<program, noted, up, nullMedia, aborted>>

\* The session connects, before or after the program stopped waiting for it.
SessionUp ==
  /\ "session" \in open /\ ~up
  /\ up' = TRUE
  /\ open' = open \cup (IF Prog.restores THEN {"mode"} ELSE {})
  /\ UNCHANGED <<program, place, noted, nullMedia, failed, history>>

----------------------------------------------------------------------------
Releases == IF undoing THEN Prog.undo ELSE Prog.cleanup

InCleanup == phase = "cleanup" /\ group <= Len(Releases)

ThisGroup == Releases[group]

NextItem == ThisGroup.items[item]

NextGroup == group' = group + 1 /\ item' = 1

Pass ==
  /\ IF item < Len(ThisGroup.items) THEN item' = item + 1 /\ UNCHANGED group
                                 ELSE NextGroup
  /\ UNCHANGED <<phase, at, undoing>>

\* The variable says that there is nothing to release.
PassBy ==
  /\ InCleanup /\ NextItem.handle \notin noted
  /\ Pass
  /\ UNCHANGED <<program, native, noted, failed, history>>

\* The mode can be restored through a connected session only.
Release ==
  /\ InCleanup /\ NextItem.handle \in noted
  /\ ~OnNothing(NextItem.res)
  /\ NextItem.res = "mode" => up
  /\ open' = open \ Closed(NextItem.res)
  /\ up' = (up /\ NextItem.res # "session")
  /\ Pass
  /\ UNCHANGED <<program, noted, nullMedia, failed, history>>

ReleaseRefused ==
  /\ InCleanup /\ NextItem.handle \in noted /\ NextItem.res \in Answering
  /\ excused' = excused \cup {NextItem.res}
  /\ failed' = (failed \/ NextItem.watched)
  /\ Pass
  /\ UNCHANGED <<program, native, noted, aborted, unprotected>>

ReleaseRaises ==
  /\ InCleanup /\ NextItem.handle \in noted
  /\ excused' = excused \cup {NextItem.res}
  /\ failed' = (failed \/ NextItem.watched \/ ThisGroup.onRaise # "swallowed")
  /\ IF ThisGroup.onRaise = "ends"
     THEN phase' = "done" /\ aborted' = "raise" /\ UNCHANGED <<group, item>>
     ELSE NextGroup /\ UNCHANGED <<phase, aborted>>
  /\ UNCHANGED <<program, at, undoing, native, noted, unprotected>>

InterruptCleanup ==
  /\ phase = "cleanup" /\ ~Prog.handles
  /\ phase' = "done"
  /\ failed' = TRUE
  /\ aborted' = "interrupt"
  /\ UNCHANGED <<program, at, undoing, group, item, native, noted, excused, unprotected>>

End ==
  /\ phase = "cleanup" /\ group > Len(Releases)
  /\ phase' = "done"
  /\ failed' \in {failed, failed \/ Prog.reviews}
  /\ UNCHANGED <<program, at, undoing, group, item, native, noted, history>>

Next ==
  \/ Perform \/ CreateNothing \/ Skip \/ GoOn
  \/ Refuse \/ Raise \/ LeaveEarly \/ Interrupt \/ SessionUp
  \/ PassBy \/ Release \/ ReleaseRefused \/ ReleaseRaises
  \/ InterruptCleanup \/ End

Spec == Init /\ [][Next]_vars

----------------------------------------------------------------------------
\* The programs in whose cleanup one release that raises stops no other.
Shielded == {"media", "captureAll", "audioCapture", "trc", "lowLevel"}

(****************************************************************************)
(* Wherever a program's try is left, by the end of main() all it opened is  *)
(* given back, except what native code did not take (a release that raised  *)
(* or answered false) and what an exception made the unshielded programs    *)
(* skip.  A session that stays open is destroyed by the garbage collector,  *)
(* which joins SDK threads under the GIL (example_lowlevel.py:7-10).         *)
(****************************************************************************)
NothingLeftOpen ==
  (/\ phase = "done" /\ ~unprotected
   /\ aborted # "interrupt"
   /\ aborted = "raise" => program \in Shielded)
  => \A r \in open \ Inherited : \E o \in excused : r \in Closed(o)

(****************************************************************************)
(* What lives in something is released before it: streams before their bus, *)
(* the bus and the motion mode before the session, the control loop before  *)
(* the buffers it computes in.  Only a release that failed, or a stream     *)
(* behind one whose stop failed, is overtaken.                              *)
(****************************************************************************)
Tried(d) == d \in excused \/ (d \in Streams /\ excused \cap Streams # {})

InnerFirst ==
  [][\A r \in open \ open' : 
       \A d \in (Inner(r) \cap open) \ Inherited : Tried(d)]_vars

(****************************************************************************)
(* Exit code 0 vouches for something: the four-channel capture for a clean  *)
(* end of everything, the observer for observation switched off, the        *)
(* low-level media example and the release script for the motion mode given *)
(* back (README-media-lowlevel.md:5).                                       *)
(****************************************************************************)
Vouched(p) ==
  CASE p = "audioCapture" -> Resources
    [] p = "trc" -> {"observation"}
    [] p \in {"mediaLow", "captureLow", "release"} -> {"mode"}
    [] OTHER -> {}

SuccessMeansClosed == phase = "done" /\ ~failed => open \cap Vouched(program) = {}
=============================================================================
