---------------------------- MODULE MCConsumers ----------------------------
(****************************************************************************)
(* The programs that consume a stream in a callback.  They are separate: a  *)
(* behaviour is one of one program, the others stay where they start.       *)
(****************************************************************************)
EXTENDS FrameCapture, AudioQueue, TrcObserver

VARIABLE consumer

allVars == <<consumer, captureVars, queueVars, trcVars>>

Init ==
  /\ consumer \in {"capture", "queue", "trc"}
  /\ CaptureInit
  /\ consumer # "capture" => gated
  /\ QueueInit
  /\ TrcInit

Next ==
  /\ UNCHANGED consumer
  /\ \/ consumer = "capture" /\ CaptureNext /\ UNCHANGED <<queueVars, trcVars>>
     \/ consumer = "queue" /\ QueueNext /\ UNCHANGED <<captureVars, trcVars>>
     \/ consumer = "trc" /\ TrcNext /\ UNCHANGED <<captureVars, queueVars>>

Spec == Init /\ [][Next]_allVars /\ (consumer = "capture" => CaptureFairness)

\* CaptureEnds of the behaviours that are captures.
CapturesEnd == consumer = "capture" => CaptureEnds
=============================================================================
