-------------------------- MODULE ExamplePrograms --------------------------
(****************************************************************************)
(* What each example program opens, step by step, and how it gives it back. *)
(* A program is data: `setup' is the sequence of its SDK calls, `cleanup'   *)
(* its `finally' blocks, `undo' what it does when it fails before its `try'.*)
(* The module Lifecycle runs it.  Only what opens or closes something, or   *)
(* can end the program, is a step; argument checks come before all of it.   *)
(****************************************************************************)
EXTENDS Naturals, Sequences

None == "none"

\* The condition of a release that has none.
Always == "always"

(****************************************************************************)
(* A step calls the SDK and then assigns.                                   *)
(*   opens, closes    what a successful call opens or closes                *)
(*   notes, forgets   the variable that is set or reset after the call      *)
(*   refused          what a false answer leads to: one of Exits, or the    *)
(*                    program goes on: "tolerated" (it notes nothing),      *)
(*                    "marked" (so too, but it will report a failure),      *)
(*                    "ignored" (it does not look); "never" if there is none*)
(*   raised           what an exception leads to                            *)
(*   waits            the step ends when the session is connected           *)
(*   optional         an argument can leave the step out                    *)
(*   mayLeave         a signal ends the setup here without a failure        *)
(****************************************************************************)
Exits == {"cleanup", "undo", "nothing"}

Check == [opens |-> None, closes |-> None, notes |-> None, forgets |-> None,
          refused |-> "cleanup", raised |-> "cleanup",
          waits |-> FALSE, optional |-> FALSE, mayLeave |-> FALSE]

Opens(r) == [Check EXCEPT !.opens = r]

Notes(h) == [Check EXCEPT !.notes = h, !.refused = "never"]

Optional(step) == [step EXCEPT !.optional = TRUE]

Goes(step, how) == [step EXCEPT !.refused = how]

\* A step before the `try' of its program.
Outside(step) ==
  [step EXCEPT !.raised = "nothing",
               !.refused = IF @ = "cleanup" THEN "nothing" ELSE @]

Initial == Opens("service")

NewClient == Notes("client")

Connect == Opens("session")

WaitConnected == [Check EXCEPT !.waits = TRUE]

\* The wrapper is an object even if native code created nothing.
NewMedia == Notes("media")

SetupMedia == Opens("bus")

Subscribe(kind) == [Opens(kind) EXCEPT !.notes = kind]

\* The body of a program: it may raise, but has no answer.
Body == Goes(Check, "never")

(****************************************************************************)
(* A release: of what, if which variable is set, and whether a false answer *)
(* or an exception makes the program fail (`watched').  Releases stand in   *)
(* groups: an exception skips the rest of its group and then is "swallowed",*)
(* "passed" on through the next group (a `finally' block), or "ends" the    *)
(* cleanup.                                                                 *)
(****************************************************************************)
Item(r, handle) == [res |-> r, handle |-> handle, watched |-> FALSE]

Watched(r, handle) == [Item(r, handle) EXCEPT !.watched = TRUE]

Group(onRaise, items) == [onRaise |-> onRaise, items |-> items]

StopAll == Group("swallowed", <<Item("encoded", "encoded"), Item("video", "video"),
                                Item("audio", "audio")>>)

(****************************************************************************)
(* The media examples: previews of three streams, and captures.             *)
(****************************************************************************)
MediaSetup ==
  <<Initial, Check, NewClient, Connect, WaitConnected, NewMedia, SetupMedia,
    Body,                                             \* get_media_layout
    Goes(Subscribe("video"), "tolerated"), Goes(Subscribe("encoded"), "tolerated"),
    Goes(Subscribe("audio"), "tolerated"), Body>>

MediaCleanupInOneTry ==
  <<StopAll, Group("swallowed", <<Item("bus", "media"), Item("session", "client"),
                                  Item("service", Always)>>)>>

MediaCleanup ==
  <<StopAll, Group("swallowed", <<Item("bus", "media")>>),
    Group("swallowed", <<Item("session", "client")>>),
    Group("swallowed", <<Item("service", Always)>>)>>

\* _capture_all: all channels are asked for, one refusal is enough to fail.
CaptureAllSetup ==
  SubSeq(MediaSetup, 1, 8)
    \o <<Notes("capturing"), Goes(Subscribe("audio"), "marked"),
         Goes(Subscribe("video"), "marked"), Body>>

CaptureAllCleanup ==
  <<Group("passed", <<Item("audio", "audio"), Item("video", "video")>>),
    Group("passed", <<Item("bus", "capturing")>>)>>
    \o Tail(MediaCleanup)

\* With a low-level client the session takes the motion mode, which is restored.
MediaLowSetup == MediaSetup

MediaLowCleanup ==
  <<StopAll, Group("swallowed", <<Item("bus", "media")>>),
    Group("swallowed", <<Watched("mode", "client")>>),
    Group("ends", <<Item("session", "client")>>),
    Group("swallowed", <<Item("service", Always)>>)>>

CaptureAllLowCleanup ==
  SubSeq(CaptureAllCleanup, 1, 2) \o Tail(MediaLowCleanup)

(****************************************************************************)
(* The audio examples.                                                      *)
(****************************************************************************)
AudioCaptureSetup ==
  <<Notes("initialized"), Initial, Check, NewClient, Connect, WaitConnected,
    NewMedia, SetupMedia, Subscribe("audio"), Subscribe("audio2"), Check>>

AudioCaptureCleanup ==
  <<Group("swallowed", <<Watched("audio2", "audio2")>>),
    Group("swallowed", <<Watched("audio", "audio")>>),
    Group("swallowed", <<Watched("bus", "media")>>),
    Group("swallowed", <<Watched("session", "client")>>),
    Group("swallowed", <<Watched("service", "initialized")>>)>>

RawBackSetup ==
  <<Initial, Check, NewClient, Connect, WaitConnected, NewMedia, SetupMedia,
    Optional(Subscribe("audio")), Goes(Notes("playback"), "cleanup"),
    Opens("playback"), Check, Check, Check>>          \* ready, volume, frames

RawBackCleanupBusFirst ==
  <<Group("ends", <<Item("audio", "audio"), Item("bus", "media"),
                    Item("playback", "playback"), Item("session", "client"),
                    Item("service", Always)>>)>>

RawBackCleanup ==
  <<Group("ends", <<Item("playback", "playback"), Item("audio", "audio"),
                    Item("bus", "media"), Item("session", "client"),
                    Item("service", Always)>>)>>

AudioShmSetup ==
  <<Initial, Check, NewClient, Connect, WaitConnected, NewMedia, SetupMedia,
    Check,                                            \* the channel exists
    Optional(Goes([Opens("output") EXCEPT !.notes = "output"], "never")),
    Subscribe("audio"), Body,
    [Check EXCEPT !.closes = "audio", !.forgets = "audio", !.refused = "ignored"],
    Check>>                                           \* frames, none dropped

AudioShmCleanup ==
  <<Group("ends", <<Item("audio", "audio"), Item("bus", "media"),
                    Item("output", "output"), Item("session", "client"),
                    Item("service", Always)>>)>>

(****************************************************************************)
(* Observation and low-level control.                                       *)
(****************************************************************************)
TrcSetup ==
  <<Outside(Initial), Check, NewClient, Connect,
    [WaitConnected EXCEPT !.mayLeave = TRUE],         \* stopped: skip the rest
    Notes("attempted"), Opens("observation"), Body>>

TrcCleanupUnwatched ==
  <<Group("swallowed", <<Item("observation", "attempted")>>),
    Group("passed", <<Item("session", "client")>>),
    Group("passed", <<Item("service", Always)>>)>>

TrcCleanup ==
  <<Group("passed", <<Watched("observation", "attempted")>>),
    Group("passed", <<Item("session", "client")>>),
    Group("passed", <<Item("service", Always)>>)>>

LowLevelSetup ==
  <<Outside(Initial), Outside(NewClient), Connect, WaitConnected,
    Opens("motors"), Check, Check, Body,              \* prepared, layout, frames
    [Check EXCEPT !.closes = "motors", !.refused = "ignored"]>>

LowLevelCleanup ==
  <<Group("swallowed", <<Item("session", Always)>>),
    Group("swallowed", <<Item("service", Always)>>)>>

ReleaseSetup ==
  <<Outside(Initial), Outside(NewClient), Connect, WaitConnected,
    Optional(Check), Check,                           \* disable, not stopping
    [Check EXCEPT !.closes = "mode"]>>

ReleaseCleanup ==
  <<Group("ends", <<Item("session", Always), Item("service", Always)>>)>>

(****************************************************************************)
(* The policy console: a TensorRT engine first, then the robot.             *)
(****************************************************************************)
Buffer(r) ==
  [Opens(r) EXCEPT !.notes = r, !.refused = "undo", !.raised = "undo"]

EngineSetup ==
  <<Buffer("stream"), Buffer("input"), Buffer("outputBuffer"),
    [Check EXCEPT !.refused = "undo", !.raised = "undo"]>>  \* bind tensors

CloseEngine ==
  <<Item("input", "input"), Item("outputBuffer", "outputBuffer"),
    Item("stream", "stream")>>

PolicySetup ==
  EngineSetup
    \o <<[Outside(Initial) EXCEPT !.refused = "undo"], Outside(NewClient),
         Connect, WaitConnected, Check,               \* layout
         [Goes(Opens("loop"), "never") EXCEPT !.notes = "loop"],
         Optional(Goes(Opens("motors"), "never"))>>   \* the commands

PolicyCleanup ==
  <<Group("ends", <<Item("loop", "loop"), Item("motors", Always),
                    Item("session", Always), Item("service", Always)>>
                    \o CloseEngine)>>

ValidateSetup == EngineSetup \o <<Check>>

(****************************************************************************)
(* `handles' says that SIGINT only sets a flag; otherwise it raises         *)
(* KeyboardInterrupt, which some programs count as success.  `restores'     *)
(* programs put the motion mode back that their session took; `reviews'     *)
(* programs can still fail after their cleanup.                             *)
(****************************************************************************)
Program(setup, cleanup) ==
  [setup |-> setup, cleanup |-> cleanup, undo |-> <<>>, handles |-> FALSE,
   interruptOk |-> FALSE, restores |-> FALSE, reviews |-> FALSE]

Programs ==
  [media        |-> [Program(MediaSetup, MediaCleanup) EXCEPT !.handles = TRUE],
   captureAll   |-> [Program(CaptureAllSetup, CaptureAllCleanup)
                       EXCEPT !.handles = TRUE, !.reviews = TRUE],
   mediaLow     |-> [Program(MediaLowSetup, MediaLowCleanup)
                       EXCEPT !.handles = TRUE, !.restores = TRUE],
   captureLow   |-> [Program(CaptureAllSetup, CaptureAllLowCleanup)
                       EXCEPT !.handles = TRUE, !.restores = TRUE, !.reviews = TRUE],
   audioCapture |-> [Program(AudioCaptureSetup, AudioCaptureCleanup)
                       EXCEPT !.reviews = TRUE],
   rawBack      |-> [Program(RawBackSetup, RawBackCleanup)
                       EXCEPT !.interruptOk = TRUE],
   audioShm     |-> Program(AudioShmSetup, AudioShmCleanup),
   trc          |-> [Program(TrcSetup, TrcCleanup)
                       EXCEPT !.handles = TRUE, !.reviews = TRUE],
   lowLevel     |-> [Program(LowLevelSetup, LowLevelCleanup) EXCEPT !.handles = TRUE],
   release      |-> [Program(ReleaseSetup, ReleaseCleanup) EXCEPT !.handles = TRUE],
   policy       |-> [Program(PolicySetup, PolicyCleanup)
                       EXCEPT !.undo = <<Group("ends", CloseEngine)>>],
   validate     |-> [Program(ValidateSetup, <<Group("ends", CloseEngine)>>)
                       EXCEPT !.undo = <<Group("ends", CloseEngine)>>]]
=============================================================================
