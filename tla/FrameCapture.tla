---------------------------- MODULE FrameCapture ----------------------------
(****************************************************************************)
(* The programs that record a bounded piece of several streams and answer   *)
(* with an exit code that vouches for the files: _capture_all of the media  *)
(* examples (gated: it records between two moves of a flag and always waits *)
(* the whole time) and example_audio_capture.py (counted: every stream      *)
(* records from its subscription on).  Callbacks append under a lock; the   *)
(* main thread decides that the capture is complete, stops the streams, any *)
(* of which can fail to stop, and saves without the lock.                   *)
(****************************************************************************)
EXTENDS Naturals, Sequences, FiniteSets

CONSTANTS GatedChannels, CountedChannels, \* the streams of either program
          VideoChannels,                  \* those of them that deliver images
          Target,                         \* units that a channel records
          MaxPts, MaxSize                 \* bounds on what is delivered

ASSUME CaptureAssumption ==
  /\ VideoChannels \subseteq GatedChannels
  /\ VideoChannels \cap CountedChannels = {}
  /\ Target \in Nat \ {0} /\ MaxPts \in Nat /\ MaxSize \in Nat \ {0}

VARIABLES gated,      \* which program
          task,       \* what the main thread does
          asked,      \* channels it has asked for
          started,    \* channels it has noted as subscribed
          ready,      \* gated: no request was refused
          accepting,  \* gated: the flag that the callbacks read
          errors,     \* counted: the list of errors is not empty
          raised,     \* gated: an exception is on its way out
          stop,       \* gated: the signal handler's flag
          time,       \* 1: the recording time has passed, 2: the deadline
          live,       \* streams that native code delivers
          data,       \* what each channel recorded
          rejected,   \* channels that counted a bad or repeated frame
          early,      \* history: channels that recorded before all were live
          saved,      \* channels whose file was written or tried
          file,       \* what the files hold
          passed,     \* gated: `success' so far
          verdict

mainVars   == <<gated, task, asked, started, ready, accepting, errors, raised,
                stop, time>>
streamVars == <<live, data, rejected, early>>
resultVars == <<saved, file, passed, verdict>>
captureVars == <<mainVars, streamVars, resultVars>>

Channels == IF gated THEN GatedChannels ELSE CountedChannels

AllChannels == GatedChannels \cup CountedChannels

\* A unit of a recording: which part of which frame.
Units == (0 .. MaxPts) \X (1 .. MaxSize)

Frames == [pts : 0 .. MaxPts, size : 1 .. MaxSize, good : BOOLEAN]

CaptureInit ==
  /\ gated \in BOOLEAN
  /\ task = "subscribe"
  /\ asked = {} /\ started = {}
  /\ ready = TRUE /\ accepting = FALSE
  /\ errors = FALSE /\ raised = FALSE /\ stop = FALSE
  /\ time = 0
  /\ live = {}
  /\ data = [ch \in AllChannels |-> <<>>]
  /\ rejected = {} /\ early = {}
  /\ saved = {}
  /\ file = [ch \in AllChannels |-> <<>>]
  /\ passed = TRUE
  /\ verdict = "none"

----------------------------------------------------------------------------
(* The callbacks: one atomic step each, the lock is held throughout. *)

Full(ch) == Len(data[ch]) >= Target

Listens(ch) == (gated => accepting) /\ ~Full(ch)

Last(s) == s[Len(s)]

RepeatedIfEqual(ch, f) ==
  /\ ch \notin VideoChannels
  /\ data[ch] # <<>> /\ f.pts = Last(data[ch])[1]

Repeated(ch, f) ==
  /\ ch \notin VideoChannels
  /\ data[ch] # <<>> /\ f.pts <= Last(data[ch])[1]

\* An image is one unit; of a PCM frame as much as there is room for.
Taken(ch, f) ==
  LET room == Target - Len(data[ch])
      count == CASE ch \in VideoChannels -> 1
                 [] ch \notin VideoChannels /\ f.size <= room -> f.size
                 [] OTHER -> room
  IN  [i \in 1 .. count |-> <<f.pts, i>>]

Reject(ch, f) ==
  /\ ch \in live /\ Listens(ch)
  /\ ~f.good \/ Repeated(ch, f)
  /\ rejected' = rejected \cup {ch}
  /\ UNCHANGED <<mainVars, live, data, early, resultVars>>

Take(ch, f) ==
  /\ ch \in live /\ Listens(ch)
  /\ f.good /\ ~Repeated(ch, f)
  /\ data' = [data EXCEPT ![ch] = @ \o Taken(ch, f)]
  /\ early' = IF live = Channels THEN early ELSE early \cup {ch}
  /\ UNCHANGED <<mainVars, live, rejected, resultVars>>

Deliver == \E ch \in Channels, f \in Frames : Reject(ch, f) \/ Take(ch, f)

----------------------------------------------------------------------------
(* Subscribing.  Where the counted program notes an error, it goes to its *)
(* cleanup; the gated one asks for the other channels too.                *)

Ask(ch) ==
  /\ task = "subscribe" /\ ch \in Channels \ asked
  /\ asked' = asked \cup {ch}
  /\ started' = started \cup {ch}
  /\ live' = live \cup {ch}
  /\ UNCHANGED <<gated, task, ready, accepting, errors, raised, stop, time,
                 data, rejected, early, resultVars>>

AskRefused(ch) ==
  /\ task = "subscribe" /\ ch \in Channels \ asked
  /\ asked' = asked \cup {ch}
  /\ IF gated THEN ready' = FALSE /\ UNCHANGED <<task, errors>>
     ELSE errors' = TRUE /\ task' = "stop" /\ UNCHANGED ready
  /\ UNCHANGED <<gated, started, accepting, raised, stop, time, streamVars, resultVars>>

AskRaises ==
  /\ task = "subscribe" /\ asked # Channels
  /\ IF gated THEN raised' = TRUE /\ task' = "close" /\ UNCHANGED errors
     ELSE errors' = TRUE /\ task' = "stop" /\ UNCHANGED raised
  /\ UNCHANGED <<gated, asked, started, ready, accepting, stop, time,
                 streamVars, resultVars>>

BeginRecording ==
  /\ task = "subscribe" /\ asked = Channels
  /\ accepting' = (gated /\ ready)
  /\ task' = IF ready THEN "record" ELSE "close"
  /\ UNCHANGED <<gated, asked, started, ready, errors, raised, stop, time,
                 streamVars, resultVars>>

----------------------------------------------------------------------------
(* Recording. *)

Complete == \A ch \in Channels : Len(data[ch]) = Target

Tick ==
  /\ task = "record" /\ time < 2
  /\ time' = time + 1
  /\ UNCHANGED <<gated, task, asked, started, ready, accepting, errors, raised,
                 stop, streamVars, resultVars>>

EndRecordingWhenComplete ==
  /\ task = "record"
  /\ (gated /\ stop) \/ Complete
  /\ task' = IF gated THEN "close" ELSE "check"
  /\ UNCHANGED <<gated, asked, started, ready, accepting, errors, raised, stop,
                 time, streamVars, resultVars>>

EndRecording ==
  /\ task = "record"
  /\ \/ time = 2
     \/ gated /\ stop
     \/ Complete /\ (gated => time >= 1)
  /\ task' = IF gated THEN "close" ELSE "check"
  /\ UNCHANGED <<gated, asked, started, ready, accepting, errors, raised, stop,
                 time, streamVars, resultVars>>

\* The counted program looks again after its loop.
CheckComplete ==
  /\ task = "check"
  /\ errors' = (errors \/ ~Complete)
  /\ task' = "stop"
  /\ UNCHANGED <<gated, asked, started, ready, accepting, raised, stop, time,
                 streamVars, resultVars>>

KeepGateOpen ==
  /\ task = "close"
  /\ task' = "stop"
  /\ UNCHANGED <<gated, asked, started, ready, accepting, errors, raised, stop,
                 time, streamVars, resultVars>>

CloseGate ==
  /\ task = "close"
  /\ accepting' = FALSE
  /\ task' = "stop"
  /\ UNCHANGED <<gated, asked, started, ready, errors, raised, stop, time,
                 streamVars, resultVars>>

----------------------------------------------------------------------------
(* Stopping.  A PCM stream is quiet once its stop or the shutdown of the   *)
(* bus returned; an image can still be on its way (CallbackBridge, Drains).*)

Stop(ch) ==
  /\ task = "stop" /\ ch \in started
  /\ started' = started \ {ch}
  /\ live' = live \ ({ch} \ VideoChannels)
  /\ UNCHANGED <<gated, task, asked, ready, accepting, errors, raised, stop, time,
                 data, rejected, early, resultVars>>

\* The gated program does not look at the answer.
StopRefused(ch) ==
  /\ task = "stop" /\ ch \in started
  /\ started' = started \ {ch}
  /\ errors' = (errors \/ ~gated)
  /\ UNCHANGED <<gated, task, asked, ready, accepting, raised, stop, time,
                 streamVars, resultVars>>

\* The gated program stops no other channel then.
StopRaises(ch) ==
  /\ task = "stop" /\ ch \in started
  /\ started' = IF gated THEN {} ELSE started \ {ch}
  /\ errors' = (errors \/ ~gated)
  /\ raised' = (raised \/ gated)
  /\ UNCHANGED <<gated, task, asked, ready, accepting, stop, time,
                 streamVars, resultVars>>

Fail == task' = "done" /\ verdict' = "fail"

Shutdown ==
  /\ task = "stop" /\ started = {}
  /\ live' = live \cap VideoChannels
  /\ IF raised THEN Fail
     ELSE task' = (IF gated THEN "judge" ELSE "save") /\ UNCHANGED verdict
  /\ UNCHANGED <<gated, asked, started, ready, accepting, errors, raised, stop,
                 time, data, rejected, early, saved, file, passed>>

ShutdownRaises ==
  /\ task = "stop" /\ started = {}
  /\ errors' = (errors \/ ~gated)
  /\ IF gated THEN Fail ELSE task' = "save" /\ UNCHANGED verdict
  /\ UNCHANGED <<gated, asked, started, ready, accepting, raised, stop, time,
                 streamVars, saved, file, passed>>

----------------------------------------------------------------------------
(* Saving. *)

Sound(ch) == Len(data[ch]) = Target /\ ch \notin rejected

Judge ==
  /\ task = "judge"
  /\ passed' = (ready /\ ~stop)
  /\ task' = "save"
  /\ UNCHANGED <<gated, asked, started, ready, accepting, errors, raised, stop,
                 time, streamVars, saved, file, verdict>>

Save(ch) ==
  /\ task = "save" /\ ch \in Channels \ saved
  /\ saved' = saved \cup {ch}
  /\ file' = [file EXCEPT ![ch] = data[ch]]
  /\ passed' = (passed /\ (gated => Sound(ch)))
  /\ UNCHANGED <<mainVars, streamVars, verdict>>

\* OSError: the gated program saves the other channels, the counted one leaves.
SaveFails(ch) ==
  /\ task = "save" /\ ch \in Channels \ saved
  /\ saved' = saved \cup {ch}
  /\ passed' = FALSE
  /\ IF gated THEN UNCHANGED <<task, verdict>> ELSE Fail
  /\ UNCHANGED <<gated, asked, started, ready, accepting, errors, raised, stop,
                 time, streamVars, file>>

Counted == ~errors /\ \A ch \in Channels : Sound(ch)

Finish ==
  /\ task = "save" /\ saved = Channels
  /\ task' = "done"
  /\ verdict' = IF passed /\ (gated \/ Counted) THEN "pass" ELSE "fail"
  /\ UNCHANGED <<gated, asked, started, ready, accepting, errors, raised, stop,
                 time, streamVars, saved, file, passed>>

----------------------------------------------------------------------------
(* Ctrl+C: a flag for the gated program, KeyboardInterrupt for the counted *)
(* one, which catches it in its `try' only.                                *)

Signal ==
  /\ gated /\ task # "done" /\ ~stop
  /\ stop' = TRUE
  /\ UNCHANGED <<gated, task, asked, started, ready, accepting, errors, raised,
                 time, streamVars, resultVars>>

\* A channel can be live by now that is not noted yet.
Interrupt ==
  /\ ~gated /\ task \in {"subscribe", "record", "check"}
  /\ errors' = TRUE
  /\ task' = "stop"
  /\ live' \in {live} \cup {live \cup {ch} : ch \in
                              IF task = "subscribe" THEN Channels \ asked ELSE {}}
  /\ UNCHANGED <<gated, asked, started, ready, accepting, raised, stop, time,
                 data, rejected, early, resultVars>>

InterruptCleanup ==
  /\ ~gated /\ task \in {"stop", "save"}
  /\ Fail
  /\ UNCHANGED <<gated, asked, started, ready, accepting, errors, raised, stop,
                 time, streamVars, saved, file, passed>>

----------------------------------------------------------------------------
MainStep ==
  \/ \E ch \in Channels :
       \/ Ask(ch) \/ AskRefused(ch)
       \/ Stop(ch) \/ StopRefused(ch) \/ StopRaises(ch)
       \/ Save(ch) \/ SaveFails(ch)
  \/ AskRaises \/ BeginRecording \/ EndRecording \/ CheckComplete \/ CloseGate
  \/ Shutdown \/ ShutdownRaises \/ Judge \/ Finish

CaptureNext == MainStep \/ Tick \/ Deliver \/ Signal \/ Interrupt \/ InterruptCleanup

(* The main thread runs and time passes; streams need not deliver. *)
CaptureFairness == WF_captureVars(MainStep) /\ WF_captureVars(Tick)

CaptureSpec == CaptureInit /\ [][CaptureNext]_captureVars /\ CaptureFairness

----------------------------------------------------------------------------
Tasks == {"subscribe", "record", "check", "close", "stop", "judge", "save", "done"}

CaptureTypeOK ==
  /\ gated \in BOOLEAN
  /\ task \in Tasks
  /\ asked \subseteq Channels /\ started \subseteq asked
  /\ {ready, accepting, errors, raised, stop, passed} \subseteq BOOLEAN
  /\ time \in 0 .. 2
  /\ live \subseteq Channels
  /\ data \in [AllChannels -> Seq(Units)]
  /\ rejected \subseteq Channels /\ early \subseteq Channels
  /\ saved \subseteq Channels
  /\ file \in [AllChannels -> Seq(Units)]
  /\ verdict \in {"none", "pass", "fail"}

\* The next unit is the next one of the same frame, or the first of a later one.
Follows(u, v) == (v[1] = u[1] /\ v[2] = u[2] + 1) \/ (u[1] < v[1] /\ v[2] = 1)

(****************************************************************************)
(* Exit code 0 (docs/media-capture.md): every channel's file is complete    *)
(* and is what was recorded, no captured frame was rejected, and what       *)
(* _capture_all recorded was recorded while all streams were running.  A    *)
(* PCM file is in order and without repetition; the images of a camera are  *)
(* not looked at for their time stamps.  A frame without its last units     *)
(* passes for a whole one: the next one only has to be later.               *)
(****************************************************************************)
SuccessMeansComplete ==
  verdict = "pass" =>
    \A ch \in Channels :
      /\ Len(file[ch]) = Target /\ file[ch] = data[ch]
      /\ ch \notin VideoChannels =>
           \A i \in 1 .. Target - 1 : Follows(file[ch][i], file[ch][i + 1])
      /\ ch \notin rejected
      /\ gated => ch \notin early

(****************************************************************************)
(* What is saved does not change under the save.  Once _capture_all closed  *)
(* its gate nothing is recorded, even from a stream that did not stop; in   *)
(* the counted program that holds as long as nothing failed, and its        *)
(* verdict is a failure otherwise.                                          *)
(****************************************************************************)
Settled ==
  IF gated THEN task \in {"stop", "judge", "save", "done"}
  ELSE task \in {"stop", "save", "done"} /\ ~errors

ResultIsFinal == [][Settled => data' = data /\ rejected' = rejected]_captureVars

(****************************************************************************)
(* A capture ends, whatever the streams deliver and whatever fails.         *)
(****************************************************************************)
CaptureEnds == <>(task = "done")
=============================================================================
