----------------------------- MODULE AudioQueue -----------------------------
(****************************************************************************)
(* example_audio.py with --output: the callback counts a frame and puts a   *)
(* copy of it into a bounded queue, the main thread takes copies out and    *)
(* writes them, stops the subscription, writes what is left and answers     *)
(* with an exit code.                                                       *)
(****************************************************************************)
EXTENDS Naturals, Sequences

CONSTANTS Capacity,   \* maxsize of the queue
          MaxHeard    \* bound on the frames of one run

ASSUME QueueAssumption == Capacity \in Nat \ {0} /\ MaxHeard \in Nat

VARIABLES writer,       \* what the main thread does
          held,         \* the copy it took and has not written, 0 if none
          subscribed,   \* native code delivers frames
          delivering,   \* the frame in a callback that has counted it, 0 if none
          pending,      \* the queue
          heard,        \* number of frames counted: the frames are 1 .. heard
          dropped,      \* number of frames that found the queue full
          written,      \* what the file holds
          lost,         \* history: the copy an interrupt made it forget
          refusedStop,  \* history: the stop was refused
          code          \* exit code, 2 while there is none

streamSide == <<subscribed, delivering, pending, heard, dropped>>
writerSide == <<writer, held, written, lost, refusedStop, code>>
queueVars  == <<streamSide, writerSide>>

QueueInit ==
  /\ writer = "asleep" /\ held = 0
  /\ subscribed = TRUE /\ delivering = 0
  /\ pending = <<>> /\ heard = 0 /\ dropped = 0
  /\ written = <<>> /\ lost = 0 /\ refusedStop = FALSE
  /\ code = 2

----------------------------------------------------------------------------
(* The callback: the statistics under their lock, then the queue. *)

CountFrame ==
  /\ subscribed /\ delivering = 0 /\ heard < MaxHeard
  /\ heard' = heard + 1
  /\ delivering' = heard + 1
  /\ UNCHANGED <<subscribed, pending, dropped, writerSide>>

PutFrame ==
  /\ delivering # 0
  /\ delivering' = 0
  /\ IF Len(pending) < Capacity
     THEN pending' = Append(pending, delivering) /\ UNCHANGED dropped
     ELSE dropped' = dropped + 1 /\ UNCHANGED pending
  /\ UNCHANGED <<subscribed, heard, writerSide>>

----------------------------------------------------------------------------
(* The main thread.  flush() takes and writes until the queue is empty: in  *)
(* the loop ("flush", "write") and once more after the stop ("lastFlush",   *)
(* "lastWrite").                                                            *)

Flushing == writer \in {"flush", "lastFlush"}

Writing == writer \in {"write", "lastWrite"}

Wake ==
  /\ writer = "asleep"
  /\ writer' = "flush"
  /\ UNCHANGED <<streamSide, held, written, lost, refusedStop, code>>

Get ==
  /\ Flushing /\ pending # <<>>
  /\ held' = Head(pending)
  /\ pending' = Tail(pending)
  /\ writer' = IF writer = "flush" THEN "write" ELSE "lastWrite"
  /\ UNCHANGED <<subscribed, delivering, heard, dropped, written, lost,
                 refusedStop, code>>

Write ==
  /\ Writing
  /\ written' = Append(written, held)
  /\ held' = 0
  /\ writer' = IF writer = "write" THEN "flush" ELSE "lastFlush"
  /\ UNCHANGED <<streamSide, lost, refusedStop, code>>

QueueEmpty ==
  /\ Flushing /\ pending = <<>>
  /\ writer' = IF writer = "flush" THEN "asleep" ELSE "judge"
  /\ UNCHANGED <<streamSide, held, written, lost, refusedStop, code>>

\* The recording time is over.
TimeUp ==
  /\ writer = "asleep"
  /\ writer' = "stop"
  /\ UNCHANGED <<streamSide, held, written, lost, refusedStop, code>>

\* Ctrl+C in the loop: `pass'.  A copy that was taken is not written any more.
InterruptLoop ==
  /\ writer \in {"asleep", "flush", "write"}
  /\ lost' = held
  /\ held' = 0
  /\ writer' = "stop"
  /\ UNCHANGED <<streamSide, written, refusedStop, code>>

StopStreamForGood ==
  /\ writer = "stop" /\ delivering = 0
  /\ subscribed' = FALSE
  /\ writer' = "judge"
  /\ UNCHANGED <<delivering, pending, heard, dropped, held, written, lost,
                 refusedStop, code>>

\* The stop returns when no callback is running (CallbackBridge, Drains).
StopStream ==
  /\ writer = "stop" /\ delivering = 0
  /\ subscribed' = FALSE
  /\ writer' = "lastFlush"
  /\ UNCHANGED <<delivering, pending, heard, dropped, held, written, lost,
                 refusedStop, code>>

\* The answer is not looked at.
StopIsRefused ==
  /\ writer = "stop"
  /\ refusedStop' = TRUE
  /\ writer' = "lastFlush"
  /\ UNCHANGED <<streamSide, held, written, lost, code>>

Answer ==
  /\ writer = "judge"
  /\ code' = IF heard = 0 \/ dropped > 0 THEN 1 ELSE 0
  /\ writer' = "done"
  /\ UNCHANGED <<streamSide, held, written, lost, refusedStop>>

\* A write, the stop or a second Ctrl+C raises.
Raises ==
  /\ writer \in {"write", "stop", "lastFlush", "lastWrite", "judge"}
  /\ code' = 1
  /\ writer' = "done"
  /\ UNCHANGED <<streamSide, held, written, lost, refusedStop>>

QueueNext ==
  \/ CountFrame \/ PutFrame
  \/ Wake \/ Get \/ Write \/ QueueEmpty \/ TimeUp \/ InterruptLoop
  \/ StopStream \/ StopIsRefused \/ Answer \/ Raises

QueueSpec == QueueInit /\ [][QueueNext]_queueVars

----------------------------------------------------------------------------
QueueTypeOK ==
  /\ writer \in {"asleep", "flush", "write", "stop", "lastFlush", "lastWrite",
                 "judge", "done"}
  /\ {held, delivering, lost} \subseteq 0 .. heard
  /\ heard \in 0 .. MaxHeard /\ dropped \in 0 .. heard
  /\ pending \in Seq(1 .. heard) /\ Len(pending) <= Capacity
  /\ written \in Seq(1 .. heard)
  /\ subscribed \in BOOLEAN /\ refusedStop \in BOOLEAN
  /\ code \in 0 .. 2

\* The i-th frame that the file should hold: `lost' is left out.
Nth(i) == IF lost = 0 \/ i < lost THEN i ELSE i + 1

Expected == [i \in 1 .. (IF lost = 0 THEN heard ELSE heard - 1) |-> Nth(i)]

(****************************************************************************)
(* Exit code 0 means that the file holds every frame that was heard, in     *)
(* order and once - all but one at most, which Ctrl+C took out of the       *)
(* writer's hands, and provided that the stop was not refused.              *)
(****************************************************************************)
SavesWhatWasHeard ==
  (code = 0 /\ ~refusedStop) => written = Expected
=============================================================================
