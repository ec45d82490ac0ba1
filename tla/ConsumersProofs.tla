-------------------------- MODULE ConsumersProofs --------------------------
(****************************************************************************)
(* Proofs about the programs that consume a stream in a callback: the       *)
(* observer, the PCM queue and the captures, for every value of their       *)
(* constants.                                                               *)
(****************************************************************************)
EXTENDS FrameCapture, AudioQueue, TrcObserver, SequenceTheorems, TLAPS

----------------------------------------------------------------------------
(* The observer.  What it compares with is what it printed last, and less   *)
(* than a threshold from the controller.                                    *)

Compared ==
  /\ input.valid = previous.valid
  /\ input.valid =>
       /\ shown = previous.reading
       /\ previous.reading.buttons = input.reading.buttons
       /\ \A x \in Axes :
            Distance(previous.reading.axes[x], input.reading.axes[x]) < Threshold

TrcIInv == TrcTypeOK /\ Compared

\* An axis that is followed ends at less than the threshold.
LEMMA FollowedIsNear ==
  ASSUME NEW now \in [Axes -> 0 .. MaxAxis], NEW before \in [Axes -> 0 .. MaxAxis]
  PROVE  /\ Followed(now, before) \in [Axes -> 0 .. MaxAxis]
         /\ \A x \in Axes : Distance(Followed(now, before)[x], now[x]) < Threshold
  BY TrcAssumption DEF TrcAssumption, Followed, Distance

\* The observer compares nothing before the first sample.
LEMMA TrcInvInit == TrcInit => TrcIInv
<1> SUFFICES ASSUME TrcInit PROVE TrcIInv  OBVIOUS
<1>1. NoReading \in Readings  BY TrcAssumption DEF TrcAssumption, NoReading, Readings
<1>2. NoSample \in Samples  BY <1>1 DEF NoSample, Samples
<1>3. TrcTypeOK  BY <1>1, <1>2 DEF TrcInit, TrcTypeOK
<1>4. Compared  BY DEF TrcInit, Compared, NoSample
<1> QED  BY <1>3, <1>4 DEF TrcIInv

\* Every kind of sample keeps what is compared near to what is shown.
LEMMA TrcInvStep == TrcIInv /\ [TrcNext]_trcVars => TrcIInv'
<1> SUFFICES ASSUME TrcIInv, [TrcNext]_trcVars PROVE TrcIInv'  OBVIOUS
<1> USE DEF TrcIInv, TrcTypeOK
<1>1. CASE TrcNext
  <2>1. PICK sample \in Samples :
          /\ input' = sample
          /\ OnInvalid(sample) \/ OnBaseline(sample) \/ OnChange(sample)
    BY <1>1 DEF TrcNext
  <2>2. sample.valid \in BOOLEAN /\ sample.reading \in Readings  BY <2>1 DEF Samples
  <2>3. sample.reading.axes \in [Axes -> 0 .. MaxAxis]  BY <2>2 DEF Readings
  <2>4. CASE OnInvalid(sample)
    BY <2>1, <2>4 DEF OnInvalid, Compared
  <2>5. CASE OnBaseline(sample)
    <3>1. \A x \in Axes : Distance(sample.reading.axes[x], sample.reading.axes[x]) < Threshold
      BY <2>3, TrcAssumption DEF TrcAssumption, Distance
    <3> QED  BY <2>1, <2>2, <2>5, <3>1 DEF OnBaseline, Compared
  <2>6. CASE OnChange(sample)
    <3> DEFINE old == previous.reading
               axes == Followed(sample.reading.axes, old.axes)
    <3>1. old \in Readings /\ old.axes \in [Axes -> 0 .. MaxAxis]
      BY DEF Samples, Readings
    <3>2. /\ axes \in [Axes -> 0 .. MaxAxis]
          /\ \A x \in Axes : Distance(axes[x], sample.reading.axes[x]) < Threshold
      BY <2>3, <3>1, FollowedIsNear
    <3>3. shown = old /\ input.valid /\ old.buttons = input.reading.buttons
      BY <2>6 DEF OnChange, Compared
    <3> HIDE DEF axes
    <3>4. shown'.buttons = sample.reading.buttons
      BY <2>2, <2>6, <3>1, <3>3 DEF OnChange, Readings
    <3>5. shown'.axes = axes
      BY <2>6, <3>1, <3>2, <3>3 DEF OnChange, axes
    <3>6. shown' = [buttons |-> shown'.buttons, axes |-> shown'.axes]
      BY <2>6 DEF OnChange
    <3>7. previous' = [valid |-> sample.valid,
                       reading |-> [buttons |-> sample.reading.buttons, axes |-> axes]]
      BY <2>2, <2>6 DEF OnChange, axes, Samples, Readings
    <3>8. shown' \in Readings /\ previous' \in Samples
      BY <2>2, <3>2, <3>4, <3>5, <3>6, <3>7 DEF Readings, Samples
    <3>9. Compared'
      BY <2>1, <3>2, <3>4, <3>5, <3>6, <3>7 DEF Compared
    <3> QED  BY <2>1, <3>8, <3>9
  <2> QED  BY <2>1, <2>4, <2>5, <2>6
<1>2. CASE UNCHANGED trcVars
  BY <1>2 DEF trcVars, Compared
<1> QED  BY <1>1, <1>2

(* The output tells the controller's buttons exactly and its axes to less   *)
(* than the threshold, for any controller, range and threshold.             *)
THEOREM OutputFollows == TrcSpec => []ShownFollowsInput
<1>1. TrcIInv => ShownFollowsInput  BY DEF TrcIInv, Compared, ShownFollowsInput
<1> QED  BY TrcInvInit, TrcInvStep, <1>1, PTL DEF TrcSpec

----------------------------------------------------------------------------
(* The PCM queue.  As long as nothing was dropped, the frames that were     *)
(* heard are, in order, those written, the one held, those pending and the  *)
(* one in a callback; a frame that was lost is the only gap.                *)

One(n) == IF n = 0 THEN 0 ELSE 1

\* The i-th frame if frame l is left out.
Place(l, i) == IF l = 0 \/ i < l THEN i ELSE i + 1

Conserved ==
  dropped = 0 =>
    /\ Len(written) + One(held) + Len(pending) + One(delivering) + One(lost) = heard
    /\ \A i \in 1 .. Len(written) : written[i] = Place(lost, i)
    /\ held # 0 => held = Place(lost, Len(written) + 1)
    /\ \A i \in 1 .. Len(pending) :
         pending[i] = Place(lost, Len(written) + One(held) + i)
    /\ delivering # 0 =>
         delivering = Place(lost, Len(written) + One(held) + Len(pending) + 1)
    /\ delivering # 0 => delivering = heard

AfterStop == writer \in {"lastFlush", "lastWrite", "judge"} \/ code = 0

Stages ==
  /\ dropped + One(delivering) <= heard
  /\ Writing => held # 0
  /\ held # 0 => Writing \/ (writer = "done" /\ code # 0)
  /\ writer \in {"asleep", "flush", "write"} => lost = 0
  /\ code = 0 => writer = "done"
  /\ AfterStop /\ ~refusedStop => ~subscribed /\ delivering = 0
  /\ (writer = "judge" \/ code = 0) /\ ~refusedStop => pending = <<>>
  /\ code = 0 /\ ~refusedStop => dropped = 0

QueueIInv == QueueTypeOK /\ Conserved /\ Stages

\* Nothing has been heard.
LEMMA QueueInvInit == QueueInit => QueueIInv
<1> SUFFICES ASSUME QueueInit PROVE QueueIInv  OBVIOUS
<1>1. <<>> \in Seq(1 .. heard) /\ Len(<<>>) = 0  BY EmptySeq
<1>2. QueueTypeOK
  <2>1. subscribed \in BOOLEAN /\ refusedStop \in BOOLEAN  BY DEF QueueInit
  <2>2. {held, delivering, lost} \subseteq 0 .. heard  BY DEF QueueInit
  <2>3. heard \in 0 .. MaxHeard /\ dropped \in 0 .. heard
    BY QueueAssumption DEF QueueAssumption, QueueInit
  <2> QED
    BY <1>1, <2>1, <2>2, <2>3, QueueAssumption
    DEF QueueAssumption, QueueInit, QueueTypeOK
<1>3. Conserved  BY DEF QueueInit, Conserved, One
<1>4. Stages  BY DEF QueueInit, Stages, AfterStop, Writing, One
<1> QED  BY <1>2, <1>3, <1>4 DEF QueueIInv

\* Types are kept: frames are numbers that have been counted.
LEMMA QueueTypeStep ==
  ASSUME QueueTypeOK, Stages, [QueueNext]_queueVars
  PROVE  QueueTypeOK'
<1> USE QueueAssumption DEF QueueAssumption, QueueTypeOK, streamSide, writerSide
<1>1. CASE CountFrame
  <2>1. heard' \in 0 .. MaxHeard /\ heard' >= heard  BY <1>1 DEF CountFrame
  <2>2. pending' \in Seq(1 .. heard') /\ written' \in Seq(1 .. heard')
    <3>1. 1 .. heard \subseteq 1 .. heard'  BY <2>1
    <3>2. Seq(1 .. heard) \subseteq Seq(1 .. heard')  BY <3>1, SeqMonotonic
    <3> QED  BY <1>1, <3>2 DEF CountFrame
  <2> QED  BY <1>1, <2>1, <2>2 DEF CountFrame
<1>2. CASE PutFrame
  <2>1. CASE Len(pending) < Capacity
    <3>1. delivering \in 1 .. heard  BY <1>2 DEF PutFrame
    <3>2. pending' = Append(pending, delivering)  BY <1>2, <2>1 DEF PutFrame
    <3>3. pending' \in Seq(1 .. heard) /\ Len(pending') = Len(pending) + 1
      BY <3>1, <3>2, AppendProperties
    <3> QED  BY <1>2, <2>1, <3>3 DEF PutFrame
  <2>2. CASE ~(Len(pending) < Capacity)
    <3>1. dropped' \in 0 .. heard  BY <1>2, <2>2 DEF PutFrame, Stages, One
    <3> QED  BY <1>2, <2>2, <3>1 DEF PutFrame
  <2> QED  BY <2>1, <2>2
<1>3. CASE Wake  BY <1>3 DEF Wake
<1>4. CASE Get
  <2>1. pending # <<>>  BY <1>4 DEF Get
  <2>2. /\ Head(pending) \in 1 .. heard /\ Tail(pending) \in Seq(1 .. heard)
        /\ Len(Tail(pending)) = Len(pending) - 1
    BY <2>1, HeadTailProperties
  <2> QED  BY <1>4, <2>2 DEF Get
<1>5. CASE Write
  <2>1. held \in 1 .. heard  BY <1>5 DEF Write, Stages
  <2>2. Append(written, held) \in Seq(1 .. heard)  BY <2>1, AppendProperties
  <2> QED  BY <1>5, <2>2 DEF Write
<1>6. CASE QueueEmpty  BY <1>6 DEF QueueEmpty
<1>7. CASE TimeUp  BY <1>7 DEF TimeUp
<1>8. CASE InterruptLoop  BY <1>8 DEF InterruptLoop
<1>9. CASE StopStream  BY <1>9 DEF StopStream
<1>10. CASE StopIsRefused  BY <1>10 DEF StopIsRefused
<1>11. CASE Answer  BY <1>11 DEF Answer
<1>12. CASE Raises  BY <1>12 DEF Raises
<1>13. CASE UNCHANGED queueVars  BY <1>13 DEF queueVars
<1> QED  BY <1>1, <1>2, <1>3, <1>4, <1>5, <1>6, <1>7, <1>8, <1>9, <1>10, <1>11,
       <1>12, <1>13 DEF QueueNext

\* The stages of the main thread, and what the stop leaves behind.
LEMMA StagesStep ==
  ASSUME QueueTypeOK, Stages, [QueueNext]_queueVars
  PROVE  Stages'
<1> USE DEF QueueTypeOK, Stages, AfterStop, Writing, Flushing, One, streamSide, writerSide
<1>1. CASE CountFrame  BY <1>1 DEF CountFrame
<1>2. CASE PutFrame  BY <1>2 DEF PutFrame
<1>3. CASE Wake  BY <1>3 DEF Wake
<1>4. CASE Get
  <2>1. Head(pending) \in 1 .. heard  BY <1>4, HeadTailProperties DEF Get
  <2> QED  BY <1>4, <2>1 DEF Get
<1>5. CASE Write  BY <1>5 DEF Write
<1>6. CASE QueueEmpty  BY <1>6 DEF QueueEmpty
<1>7. CASE TimeUp  BY <1>7 DEF TimeUp
<1>8. CASE InterruptLoop  BY <1>8 DEF InterruptLoop
<1>9. CASE StopStream  BY <1>9 DEF StopStream
<1>10. CASE StopIsRefused  BY <1>10 DEF StopIsRefused
<1>11. CASE Answer  BY <1>11 DEF Answer
<1>12. CASE Raises  BY <1>12 DEF Raises
<1>13. CASE UNCHANGED queueVars  BY <1>13 DEF queueVars
<1> QED  BY <1>1, <1>2, <1>3, <1>4, <1>5, <1>6, <1>7, <1>8, <1>9, <1>10, <1>11,
       <1>12, <1>13 DEF QueueNext

\* Frames move from the callback to the file and keep their places.
LEMMA ConservedStep ==
  ASSUME QueueTypeOK, Stages, Conserved, [QueueNext]_queueVars
  PROVE  Conserved'
<1> SUFFICES ASSUME dropped' = 0 PROVE Conserved'  BY DEF Conserved
<1>0. /\ Len(pending) \in Nat /\ Len(written) \in Nat /\ heard \in Nat
      /\ One(0) = 0
      /\ {One(held), One(lost), One(delivering)} \subseteq 0 .. 1
  BY DEF QueueTypeOK, One
<1> USE DEF streamSide, writerSide
<1>1. CASE CountFrame
  <2>1. /\ delivering' = heard + 1 /\ heard' = heard + 1 /\ delivering = 0
        /\ UNCHANGED <<dropped, written, held, pending, lost>>
    BY <1>1 DEF CountFrame
  <2>2. Len(written) + One(held) + Len(pending) + One(lost) = heard
    BY <1>0, <2>1 DEF Conserved
  <2>3. lost \in 0 .. heard /\ heard \in Nat  BY DEF QueueTypeOK
  <2>4. delivering' = Place(lost, Len(written) + One(held) + Len(pending) + 1)
    <3>1. CASE lost = 0
      <4>1. Len(written) + One(held) + Len(pending) + 1 = heard + 1
        BY <1>0, <2>2, <3>1
      <4> QED  BY <2>1, <3>1, <4>1 DEF Place
    <3>2. CASE lost # 0
      <4>1. One(lost) = 1  BY <3>2 DEF One
      <4>2. Len(written) + One(held) + Len(pending) + 1 = heard
        BY <1>0, <2>2, <4>1
      <4> QED  BY <2>1, <2>3, <3>2, <4>2 DEF Place
    <3> QED  BY <3>1, <3>2
  <2>5. One(delivering') = 1  BY <2>1, <2>3 DEF One
  <2>6. Len(written) + One(held) + Len(pending) + One(delivering') + One(lost) = heard'
    BY <1>0, <2>1, <2>2, <2>3, <2>5
  <2> QED  BY <2>1, <2>4, <2>6 DEF Conserved
<1>2. CASE PutFrame
  <2>1. Len(pending) < Capacity /\ dropped = 0 /\ delivering # 0
    BY <1>2 DEF PutFrame, QueueTypeOK
  <2>2. /\ pending' = Append(pending, delivering) /\ delivering' = 0
        /\ UNCHANGED <<heard, dropped, written, held, lost>>
    BY <1>2, <2>1 DEF PutFrame
  <2>3. delivering \in 1 .. heard  BY <2>1 DEF QueueTypeOK
  <2>4. /\ Len(pending') = Len(pending) + 1
        /\ \A i \in 1 .. Len(pending) : pending'[i] = pending[i]
        /\ pending'[Len(pending) + 1] = delivering
    BY <2>2, <2>3, AppendProperties DEF QueueTypeOK
  <2>5. \A i \in 1 .. Len(pending') :
          pending'[i] = Place(lost, Len(written) + One(held) + i)
    <3> SUFFICES ASSUME NEW i \in 1 .. Len(pending')
                 PROVE  pending'[i] = Place(lost, Len(written) + One(held) + i)
      OBVIOUS
    <3>1. CASE i \in 1 .. Len(pending)  BY <2>1, <2>4, <3>1 DEF Conserved
    <3>2. CASE i = Len(pending) + 1
      <4>1. Len(written) + One(held) + (Len(pending) + 1)
              = Len(written) + One(held) + Len(pending) + 1
        BY <1>0
      <4> QED  BY <2>1, <2>4, <3>2, <4>1 DEF Conserved
    <3> QED  BY <1>0, <2>4, <3>1, <3>2
  <2>6. Len(written) + One(held) + Len(pending') + One(delivering') + One(lost) = heard
    <3>1. One(delivering) = 1 /\ One(delivering') = 0  BY <2>1, <2>2 DEF One
    <3>2. Len(written) + One(held) + Len(pending) + 1 + One(lost) = heard
      BY <2>1, <3>1 DEF Conserved
    <3> QED  BY <1>0, <2>4, <3>1, <3>2
  <2> QED  BY <2>1, <2>2, <2>5, <2>6 DEF Conserved
<1>3. CASE Wake  BY <1>3 DEF Wake, Conserved
<1>4. CASE Get
  <2>1. held = 0  BY <1>4 DEF Get, Stages, Flushing, Writing
  <2>2. /\ held' = Head(pending) /\ pending' = Tail(pending) /\ pending # <<>>
        /\ UNCHANGED <<delivering, heard, dropped, written, lost>>
    BY <1>4 DEF Get
  <2>3. /\ held' = pending[1] /\ held' \in 1 .. heard
        /\ Len(pending') = Len(pending) - 1 /\ Len(pending) # 0
        /\ \A i \in 1 .. Len(pending') : pending'[i] = pending[i + 1]
    BY <2>2, HeadTailProperties, EmptySeq DEF QueueTypeOK
  <2>4. dropped = 0 /\ One(held) = 0 /\ One(held') = 1
    BY <2>1, <2>2, <2>3 DEF One
  <2>5. held' = Place(lost, Len(written) + 1)
    <3>1. 1 \in 1 .. Len(pending) /\ Len(written) + 0 + 1 = Len(written) + 1
      BY <1>0, <2>3
    <3> QED  BY <2>3, <2>4, <3>1 DEF Conserved
  <2>6. \A i \in 1 .. Len(pending') :
          pending'[i] = Place(lost, Len(written) + 1 + i)
    <3> SUFFICES ASSUME NEW i \in 1 .. Len(pending')
                 PROVE  pending'[i] = Place(lost, Len(written) + 1 + i)
      OBVIOUS
    <3>1. i + 1 \in 1 .. Len(pending)  BY <1>0, <2>3
    <3>2. Len(written) + 0 + (i + 1) = Len(written) + 1 + i  BY <1>0
    <3> QED  BY <2>3, <2>4, <3>1, <3>2 DEF Conserved
  <2>7. Len(written) + 1 + Len(pending') + 1 = Len(written) + 0 + Len(pending) + 1
    BY <1>0, <2>3
  <2>8. delivering # 0 => delivering = Place(lost, Len(written) + 1 + Len(pending') + 1)
    BY <2>4, <2>7 DEF Conserved
  <2>9. Len(written) + 1 + Len(pending') + One(delivering) + One(lost) = heard
    BY <1>0, <2>3, <2>4 DEF Conserved
  <2> QED  BY <2>2, <2>4, <2>5, <2>6, <2>8, <2>9 DEF Conserved
<1>5. CASE Write
  <2>1. held # 0 /\ held \in 1 .. heard /\ held' = 0
    BY <1>5 DEF Write, Stages, QueueTypeOK
  <2>2. /\ Len(written') = Len(written) + 1
        /\ \A i \in 1 .. Len(written) : written'[i] = written[i]
        /\ written'[Len(written) + 1] = held
    BY <1>5, <2>1, AppendProperties DEF Write, QueueTypeOK
  <2>3. UNCHANGED <<delivering, heard, dropped, pending, lost>>  BY <1>5 DEF Write
  <2>4. dropped = 0 /\ One(held) = 1 /\ One(held') = 0  BY <2>1, <2>3 DEF One
  <2>5. \A i \in 1 .. Len(written') : written'[i] = Place(lost, i)
    BY <1>0, <2>1, <2>2, <2>4 DEF Conserved
  <2>6. Len(written') + One(held') = Len(written) + One(held)
    BY <1>0, <2>2, <2>4
  <2> QED  BY <2>1, <2>3, <2>4, <2>5, <2>6 DEF Conserved
<1>6. CASE QueueEmpty  BY <1>6 DEF QueueEmpty, Conserved
<1>7. CASE TimeUp  BY <1>7 DEF TimeUp, Conserved
<1>8. CASE InterruptLoop
  <2>1. lost = 0  BY <1>8 DEF InterruptLoop, Stages
  <2>2. /\ lost' = held /\ held' = 0
        /\ UNCHANGED <<delivering, heard, dropped, written, pending>>
    BY <1>8 DEF InterruptLoop
  <2>3. CASE held = 0  BY <2>1, <2>2, <2>3 DEF Conserved
  <2>4. CASE held # 0
    <3>1. dropped = 0 /\ lost' = Len(written) + 1
      BY <1>0, <2>1, <2>2, <2>4 DEF Conserved, Place
    <3>2. \A i \in 1 .. Len(written) : written[i] = Place(lost', i)
      BY <1>0, <2>1, <3>1 DEF Conserved, Place
    <3>3. \A i \in 1 .. Len(pending) : pending[i] = Place(lost', Len(written) + 0 + i)
      BY <1>0, <2>1, <2>4, <3>1 DEF Conserved, Place, One
    <3>4. delivering # 0 => delivering = Place(lost', Len(written) + 0 + Len(pending) + 1)
      BY <1>0, <2>1, <2>4, <3>1 DEF Conserved, Place, One
    <3>5. One(held') = 0 /\ One(lost') = 1 /\ One(held) = 1 /\ One(lost) = 0
      BY <1>0, <2>1, <2>2, <2>4, <3>1 DEF One
    <3>6. Len(written) + 0 + Len(pending) + One(delivering) + 1 = heard
      BY <1>0, <3>1, <3>5 DEF Conserved
    <3> QED  BY <2>2, <3>1, <3>2, <3>3, <3>4, <3>5, <3>6 DEF Conserved
  <2> QED  BY <2>3, <2>4
<1>9. CASE StopStream  BY <1>9 DEF StopStream, Conserved
<1>10. CASE StopIsRefused  BY <1>10 DEF StopIsRefused, Conserved
<1>11. CASE Answer  BY <1>11 DEF Answer, Conserved
<1>12. CASE Raises  BY <1>12 DEF Raises, Conserved
<1>13. CASE UNCHANGED queueVars  BY <1>13 DEF queueVars, Conserved
<1> QED  BY <1>1, <1>2, <1>3, <1>4, <1>5, <1>6, <1>7, <1>8, <1>9, <1>10, <1>11,
       <1>12, <1>13 DEF QueueNext

\* The inductive invariant of the queue.
LEMMA QueueInvariance == QueueSpec => []QueueIInv
<1>1. QueueIInv /\ [QueueNext]_queueVars => QueueIInv'
  BY QueueTypeStep, StagesStep, ConservedStep DEF QueueIInv
<1> QED  BY QueueInvInit, <1>1, PTL DEF QueueSpec

(* The queue keeps its types: it never holds more than its capacity.        *)
THEOREM QueueTypeCorrect == QueueSpec => []QueueTypeOK
<1>1. QueueIInv => QueueTypeOK  BY DEF QueueIInv
<1> QED  BY QueueInvariance, <1>1, PTL

(* Exit code 0 means a file with every frame that was heard, but one that   *)
(* an interrupt lost, for any capacity and any number of frames.            *)
THEOREM FileIsWhatWasHeard == QueueSpec => []SavesWhatWasHeard
<1>1. ASSUME QueueIInv, code = 0, ~refusedStop PROVE written = Expected
  <2> USE <1>1 DEF QueueIInv, QueueTypeOK
  <2>1. dropped = 0 /\ pending = <<>> /\ delivering = 0 /\ held = 0
    BY DEF Stages, AfterStop, Writing
  <2>2. Len(written) = IF lost = 0 THEN heard ELSE heard - 1
    BY <2>1 DEF Conserved, One
  <2>3. \A i \in 1 .. Len(written) : written[i] = Nth(i)
    BY <2>1 DEF Conserved, Place, Nth
  <2>4. written = [i \in 1 .. Len(written) |-> written[i]]  OBVIOUS
  <2> QED  BY <2>2, <2>3, <2>4 DEF Expected
<1>2. QueueIInv => SavesWhatWasHeard  BY <1>1 DEF SavesWhatWasHeard
<1> QED  BY QueueInvariance, <1>2, PTL

----------------------------------------------------------------------------
(* The captures.  Recording starts when all gated streams are live and ends *)
(* when the gate is closed; the counted program notes an error unless every *)
(* channel was full.  What is saved, therefore, does not change any more.   *)

Gate ==
  /\ ~gated => ready /\ ~accepting /\ task \notin {"close", "judge"}
  /\ gated => task # "check" /\ early = {}
  /\ accepting => task \in {"record", "close"} /\ live = Channels
  /\ gated /\ ready /\ task = "subscribe" => live = asked

InOrder ==
  \A ch \in AllChannels :
    /\ Len(data[ch]) <= Target
    /\ ch \notin VideoChannels =>
         \A i \in 1 .. Len(data[ch]) - 1 : Follows(data[ch][i], data[ch][i + 1])

Sealed ==
  (~gated /\ ~errors /\ task \in {"stop", "save", "done"}) => Complete

Kept ==
  /\ task \notin {"save", "done"} => saved = {}
  /\ passed /\ task \in {"save", "done"} /\ (gated \/ ~errors) =>
       \A ch \in saved : file[ch] = data[ch] /\ (gated => Sound(ch))
  /\ verdict = "pass" =>
       /\ task = "done" /\ passed /\ saved = Channels
       /\ gated \/ Counted

CaptureIInv == CaptureTypeOK /\ Gate /\ InOrder /\ Sealed /\ Kept

\* A callback records at least one unit and no more than there is room for.
LEMMA TakenFits ==
  ASSUME CaptureTypeOK, NEW ch \in Channels, NEW f \in Frames, ~Full(ch)
  PROVE  /\ Taken(ch, f) \in Seq(Units)
         /\ Len(Taken(ch, f)) \in 1 .. (Target - Len(data[ch]))
         /\ \A i \in 1 .. Len(Taken(ch, f)) : Taken(ch, f)[i] = <<f.pts, i>>
<1> USE CaptureAssumption DEF CaptureAssumption
<1>1. ch \in AllChannels  BY DEF Channels, AllChannels
<1>2. Len(data[ch]) \in Nat /\ Len(data[ch]) < Target
  BY <1>1 DEF CaptureTypeOK, Full
<1>3. f.pts \in 0 .. MaxPts /\ f.size \in 1 .. MaxSize  BY DEF Frames
<1> DEFINE room == Target - Len(data[ch])
           count == CASE ch \in VideoChannels -> 1
                      [] ch \notin VideoChannels /\ f.size <= room -> f.size
                      [] OTHER -> room
<1>4. room \in Nat \ {0}  BY <1>2
<1>5. count \in 1 .. room /\ count <= MaxSize
  <2>1. CASE ch \in VideoChannels
    <3>1. count = 1  BY <2>1
    <3> QED  BY <3>1, <1>4
  <2>2. CASE ch \notin VideoChannels /\ f.size <= room
    <3>1. count = f.size  BY <2>2
    <3> QED  BY <3>1, <2>2, <1>3, <1>4
  <2>3. CASE ch \notin VideoChannels /\ ~(f.size <= room)
    <3>1. count = room  BY <2>3
    <3> QED  BY <3>1, <2>3, <1>3, <1>4
  <2> QED  BY <2>1, <2>2, <2>3
<1>6. Taken(ch, f) = [i \in 1 .. count |-> <<f.pts, i>>]  BY DEF Taken
<1> HIDE DEF count, room
<1>7. count \in Nat  BY <1>4, <1>5
<1>8. \A i \in 1 .. count : <<f.pts, i>> \in Units
  BY <1>3, <1>4, <1>5, <1>7 DEF Units
<1>9. Taken(ch, f) \in Seq(Units) /\ Len(Taken(ch, f)) = count
  BY <1>6, <1>7, <1>8, IsASeq
<1> QED  BY <1>5, <1>6, <1>9 DEF room

\* What a step of a callback does to the recording of its channel.
LEMMA TakeAppends ==
  ASSUME CaptureTypeOK, NEW ch \in Channels, NEW f \in Frames, Take(ch, f)
  PROVE  /\ ch \in AllChannels /\ ~Full(ch)
         /\ data' = [data EXCEPT ![ch] = data[ch] \o Taken(ch, f)]
         /\ data' \in [AllChannels -> Seq(Units)]
         /\ Len(data'[ch]) = Len(data[ch]) + Len(Taken(ch, f))
         /\ \A i \in 1 .. Len(data'[ch]) :
              data'[ch][i] = IF i <= Len(data[ch]) THEN data[ch][i]
                             ELSE Taken(ch, f)[i - Len(data[ch])]
<1>1. ch \in AllChannels  BY DEF Channels, AllChannels
<1>2. ~Full(ch) /\ data' = [data EXCEPT ![ch] = data[ch] \o Taken(ch, f)]
  BY DEF Take, Listens
<1>3. data \in [AllChannels -> Seq(Units)] /\ data[ch] \in Seq(Units)
  BY <1>1 DEF CaptureTypeOK
<1>4. Taken(ch, f) \in Seq(Units)  BY <1>2, TakenFits
<1>5. data'[ch] = data[ch] \o Taken(ch, f)  BY <1>1, <1>2, <1>3
<1>6. /\ data'[ch] \in Seq(Units)
      /\ Len(data'[ch]) = Len(data[ch]) + Len(Taken(ch, f))
      /\ \A i \in 1 .. Len(data[ch]) + Len(Taken(ch, f)) :
           data'[ch][i] = IF i <= Len(data[ch]) THEN data[ch][i]
                          ELSE Taken(ch, f)[i - Len(data[ch])]
  BY <1>3, <1>4, <1>5, ConcatProperties
<1> QED  BY <1>1, <1>2, <1>3, <1>5, <1>6

\* Channels are those of the program, which stays the same.
LEMMA SameChannels ==
  ASSUME [CaptureNext]_captureVars
  PROVE  gated' = gated /\ Channels' = Channels
<1> SUFFICES gated' = gated  BY DEF Channels
<1> USE DEF mainVars
<1>1. ASSUME NEW ch \in Channels, Ask(ch) PROVE gated' = gated
  BY <1>1 DEF Ask
<1>2. ASSUME NEW ch \in Channels, AskRefused(ch) PROVE gated' = gated
  BY <1>2 DEF AskRefused
<1>3. ASSUME NEW ch \in Channels, Stop(ch) PROVE gated' = gated
  BY <1>3 DEF Stop
<1>4. ASSUME NEW ch \in Channels, StopRefused(ch) PROVE gated' = gated
  BY <1>4 DEF StopRefused
<1>5. ASSUME NEW ch \in Channels, StopRaises(ch) PROVE gated' = gated
  BY <1>5 DEF StopRaises
<1>6. ASSUME NEW ch \in Channels, Save(ch) PROVE gated' = gated
  BY <1>6 DEF Save
<1>7. ASSUME NEW ch \in Channels, SaveFails(ch) PROVE gated' = gated
  BY <1>7 DEF SaveFails, Fail
<1>8. CASE AskRaises  BY <1>8 DEF AskRaises
<1>9. CASE BeginRecording  BY <1>9 DEF BeginRecording
<1>10. CASE EndRecording  BY <1>10 DEF EndRecording
<1>11. CASE CheckComplete  BY <1>11 DEF CheckComplete
<1>12. CASE CloseGate  BY <1>12 DEF CloseGate
<1>13. CASE Shutdown  BY <1>13 DEF Shutdown, Fail
<1>14. CASE ShutdownRaises  BY <1>14 DEF ShutdownRaises, Fail
<1>15. CASE Judge  BY <1>15 DEF Judge
<1>16. CASE Finish  BY <1>16 DEF Finish
<1>17. CASE Tick  BY <1>17 DEF Tick
<1>18. CASE Signal  BY <1>18 DEF Signal
<1>19. CASE Interrupt  BY <1>19 DEF Interrupt
<1>20. CASE InterruptCleanup  BY <1>20 DEF InterruptCleanup, Fail
<1>21. ASSUME NEW ch \in Channels, NEW f \in Frames, Reject(ch, f) PROVE gated' = gated
  BY <1>21 DEF Reject
<1>22. ASSUME NEW ch \in Channels, NEW f \in Frames, Take(ch, f) PROVE gated' = gated
  BY <1>22 DEF Take
<1>23. CASE UNCHANGED captureVars  BY <1>23 DEF captureVars
<1> QED
  BY <1>1, <1>2, <1>3, <1>4, <1>5, <1>6, <1>7, <1>8, <1>9, <1>10, <1>11,
     <1>12, <1>13, <1>14, <1>15, <1>16, <1>17, <1>18, <1>19, <1>20, <1>21,
     <1>22, <1>23
  DEF CaptureNext, MainStep, Deliver

\* Types are kept.
LEMMA CaptureTypeStep ==
  ASSUME CaptureTypeOK, [CaptureNext]_captureVars
  PROVE  CaptureTypeOK'
<1>0. gated' = gated /\ Channels' = Channels  BY SameChannels
<1> USE <1>0 DEF CaptureTypeOK, Tasks, mainVars, streamVars, resultVars
<1>1. ASSUME NEW ch \in Channels, Ask(ch) PROVE CaptureTypeOK'
  BY <1>1 DEF Ask
<1>2. ASSUME NEW ch \in Channels, AskRefused(ch) PROVE CaptureTypeOK'
  BY <1>2 DEF AskRefused
<1>3. ASSUME NEW ch \in Channels, Stop(ch) PROVE CaptureTypeOK'
  BY <1>3 DEF Stop
<1>4. ASSUME NEW ch \in Channels, StopRefused(ch) PROVE CaptureTypeOK'
  BY <1>4 DEF StopRefused
<1>5. ASSUME NEW ch \in Channels, StopRaises(ch) PROVE CaptureTypeOK'
  BY <1>5 DEF StopRaises
<1>6. ASSUME NEW ch \in Channels, Save(ch) PROVE CaptureTypeOK'
  BY <1>6 DEF Save
<1>7. ASSUME NEW ch \in Channels, SaveFails(ch) PROVE CaptureTypeOK'
  BY <1>7 DEF SaveFails, Fail
<1>8. CASE AskRaises  BY <1>8 DEF AskRaises
<1>9. CASE BeginRecording  BY <1>9 DEF BeginRecording
<1>10. CASE EndRecording  BY <1>10 DEF EndRecording
<1>11. CASE CheckComplete  BY <1>11 DEF CheckComplete
<1>12. CASE CloseGate  BY <1>12 DEF CloseGate
<1>13. CASE Shutdown  BY <1>13 DEF Shutdown, Fail
<1>14. CASE ShutdownRaises  BY <1>14 DEF ShutdownRaises, Fail
<1>15. CASE Judge  BY <1>15 DEF Judge
<1>16. CASE Finish  BY <1>16 DEF Finish
<1>17. CASE Tick  BY <1>17 DEF Tick
<1>18. CASE Signal  BY <1>18 DEF Signal
<1>19. CASE Interrupt  BY <1>19 DEF Interrupt
<1>20. CASE InterruptCleanup  BY <1>20 DEF InterruptCleanup, Fail
<1>21. ASSUME NEW ch \in Channels, NEW f \in Frames, Reject(ch, f) PROVE CaptureTypeOK'
  BY <1>21 DEF Reject
<1>22. ASSUME NEW ch \in Channels, NEW f \in Frames, Take(ch, f) PROVE CaptureTypeOK'
  <2>1. data' \in [AllChannels -> Seq(Units)]  BY <1>22, TakeAppends
  <2> QED  BY <1>22, <2>1 DEF Take
<1>23. CASE UNCHANGED captureVars  BY <1>23 DEF captureVars
<1> QED
  BY <1>1, <1>2, <1>3, <1>4, <1>5, <1>6, <1>7, <1>8, <1>9, <1>10, <1>11,
     <1>12, <1>13, <1>14, <1>15, <1>16, <1>17, <1>18, <1>19, <1>20, <1>21,
     <1>22, <1>23
  DEF CaptureNext, MainStep, Deliver

\* The gate is open only while all streams are live.
LEMMA GateStep ==
  ASSUME CaptureTypeOK, Gate, [CaptureNext]_captureVars
  PROVE  Gate'
<1>0. gated' = gated /\ Channels' = Channels  BY SameChannels
<1> USE <1>0 DEF CaptureTypeOK, Gate, Tasks, mainVars, streamVars, resultVars
<1>1. ASSUME NEW ch \in Channels, Ask(ch) PROVE Gate'
  BY <1>1 DEF Ask
<1>2. ASSUME NEW ch \in Channels, AskRefused(ch) PROVE Gate'
  BY <1>2 DEF AskRefused
<1>3. ASSUME NEW ch \in Channels, Stop(ch) PROVE Gate'
  BY <1>3 DEF Stop
<1>4. ASSUME NEW ch \in Channels, StopRefused(ch) PROVE Gate'
  BY <1>4 DEF StopRefused
<1>5. ASSUME NEW ch \in Channels, StopRaises(ch) PROVE Gate'
  BY <1>5 DEF StopRaises
<1>6. ASSUME NEW ch \in Channels, Save(ch) PROVE Gate'
  BY <1>6 DEF Save
<1>7. ASSUME NEW ch \in Channels, SaveFails(ch) PROVE Gate'
  BY <1>7 DEF SaveFails, Fail
<1>8. CASE AskRaises  BY <1>8 DEF AskRaises
<1>9. CASE BeginRecording  BY <1>9 DEF BeginRecording
<1>10. CASE EndRecording  BY <1>10 DEF EndRecording
<1>11. CASE CheckComplete  BY <1>11 DEF CheckComplete
<1>12. CASE CloseGate  BY <1>12 DEF CloseGate
<1>13. CASE Shutdown  BY <1>13 DEF Shutdown, Fail
<1>14. CASE ShutdownRaises  BY <1>14 DEF ShutdownRaises, Fail
<1>15. CASE Judge  BY <1>15 DEF Judge
<1>16. CASE Finish  BY <1>16 DEF Finish
<1>17. CASE Tick  BY <1>17 DEF Tick
<1>18. CASE Signal  BY <1>18 DEF Signal
<1>19. CASE Interrupt  BY <1>19 DEF Interrupt
<1>20. CASE InterruptCleanup  BY <1>20 DEF InterruptCleanup, Fail
<1>21. ASSUME NEW ch \in Channels, NEW f \in Frames, Reject(ch, f) PROVE Gate'
  BY <1>21 DEF Reject
<1>22. ASSUME NEW ch \in Channels, NEW f \in Frames, Take(ch, f) PROVE Gate'
  BY <1>22 DEF Take, Listens
<1>23. CASE UNCHANGED captureVars  BY <1>23 DEF captureVars
<1> QED
  BY <1>1, <1>2, <1>3, <1>4, <1>5, <1>6, <1>7, <1>8, <1>9, <1>10, <1>11,
     <1>12, <1>13, <1>14, <1>15, <1>16, <1>17, <1>18, <1>19, <1>20, <1>21,
     <1>22, <1>23
  DEF CaptureNext, MainStep, Deliver

\* Recordings grow in order and not beyond the target.
LEMMA InOrderStep ==
  ASSUME CaptureTypeOK, InOrder, [CaptureNext]_captureVars
  PROVE  InOrder'
<1> USE DEF InOrder, mainVars, streamVars, resultVars
<1>1. ASSUME NEW ch \in Channels, Ask(ch) PROVE InOrder'
  BY <1>1 DEF Ask
<1>2. ASSUME NEW ch \in Channels, AskRefused(ch) PROVE InOrder'
  BY <1>2 DEF AskRefused
<1>3. ASSUME NEW ch \in Channels, Stop(ch) PROVE InOrder'
  BY <1>3 DEF Stop
<1>4. ASSUME NEW ch \in Channels, StopRefused(ch) PROVE InOrder'
  BY <1>4 DEF StopRefused
<1>5. ASSUME NEW ch \in Channels, StopRaises(ch) PROVE InOrder'
  BY <1>5 DEF StopRaises
<1>6. ASSUME NEW ch \in Channels, Save(ch) PROVE InOrder'
  BY <1>6 DEF Save
<1>7. ASSUME NEW ch \in Channels, SaveFails(ch) PROVE InOrder'
  BY <1>7 DEF SaveFails, Fail
<1>8. CASE AskRaises  BY <1>8 DEF AskRaises
<1>9. CASE BeginRecording  BY <1>9 DEF BeginRecording
<1>10. CASE EndRecording  BY <1>10 DEF EndRecording
<1>11. CASE CheckComplete  BY <1>11 DEF CheckComplete
<1>12. CASE CloseGate  BY <1>12 DEF CloseGate
<1>13. CASE Shutdown  BY <1>13 DEF Shutdown, Fail
<1>14. CASE ShutdownRaises  BY <1>14 DEF ShutdownRaises, Fail
<1>15. CASE Judge  BY <1>15 DEF Judge
<1>16. CASE Finish  BY <1>16 DEF Finish
<1>17. CASE Tick  BY <1>17 DEF Tick
<1>18. CASE Signal  BY <1>18 DEF Signal
<1>19. CASE Interrupt  BY <1>19 DEF Interrupt
<1>20. CASE InterruptCleanup  BY <1>20 DEF InterruptCleanup, Fail
<1>21. ASSUME NEW ch \in Channels, NEW f \in Frames, Reject(ch, f) PROVE InOrder'
  BY <1>21 DEF Reject
<1>22. ASSUME NEW ch \in Channels, NEW f \in Frames, Take(ch, f) PROVE InOrder'
  <2> DEFINE old == data[ch]
             new == Taken(ch, f)
  <2>1. /\ ch \in AllChannels /\ ~Full(ch)
        /\ data' = [data EXCEPT ![ch] = old \o new]
        /\ Len(data'[ch]) = Len(old) + Len(new)
        /\ \A i \in 1 .. Len(data'[ch]) :
             data'[ch][i] = IF i <= Len(old) THEN old[i] ELSE new[i - Len(old)]
    BY <1>22, TakeAppends
  <2>2. /\ Len(new) \in 1 .. (Target - Len(old))
        /\ \A i \in 1 .. Len(new) : new[i] = <<f.pts, i>>
    BY <2>1, TakenFits
  <2>3. old \in Seq(Units) /\ Len(old) \in Nat  BY <2>1 DEF CaptureTypeOK
  <2>4. ~Repeated(ch, f)  BY <1>22 DEF Take
  <2> HIDE DEF old, new
  <2>5. Len(data'[ch]) <= Target
    BY <2>1, <2>2, <2>3, CaptureAssumption DEF CaptureAssumption
  <2>6. ASSUME ch \notin VideoChannels, NEW i \in 1 .. Len(data'[ch]) - 1
        PROVE  Follows(data'[ch][i], data'[ch][i + 1])
    <3>1. CASE i < Len(old)
      <4>1. Follows(old[i], old[i + 1])  BY <2>1, <2>3, <2>6, <3>1 DEF old
      <4>2. data'[ch][i] = old[i] /\ data'[ch][i + 1] = old[i + 1]
        BY <2>1, <2>2, <2>3, <3>1
      <4> QED  BY <4>1, <4>2
    <3>2. CASE i = Len(old)
      <4>1. data'[ch][i] = old[i] /\ data'[ch][i + 1] = <<f.pts, 1>>
        BY <2>1, <2>2, <2>3, <3>2
      <4>2. old # <<>> /\ old[i] \in Units  BY <2>3, <3>2, EmptySeq
      <4>3. ~(f.pts <= old[i][1])
        BY <2>4, <2>6, <3>2, <4>2 DEF Repeated, Last, old
      <4>4. old[i][1] \in Nat /\ f.pts \in Nat
        BY <4>2, CaptureAssumption DEF Units, Frames, CaptureAssumption
      <4> QED  BY <4>1, <4>3, <4>4 DEF Follows
    <3>3. CASE i > Len(old)
      <4> DEFINE j == i - Len(old)
      <4>1. j \in 1 .. Len(new) /\ j + 1 \in 1 .. Len(new)
        BY <2>1, <2>2, <2>3, <3>3
      <4>2. data'[ch][i] = <<f.pts, j>> /\ data'[ch][i + 1] = <<f.pts, j + 1>>
        BY <2>1, <2>2, <2>3, <3>3, <4>1
      <4> QED  BY <4>2 DEF Follows
    <3> QED  BY <2>3, <3>1, <3>2, <3>3
  <2>7. \A d \in AllChannels \ {ch} : data'[d] = data[d]
    BY <2>1 DEF CaptureTypeOK
  <2> QED  BY <2>5, <2>6, <2>7
<1>23. CASE UNCHANGED captureVars  BY <1>23 DEF captureVars
<1> QED
  BY <1>1, <1>2, <1>3, <1>4, <1>5, <1>6, <1>7, <1>8, <1>9, <1>10, <1>11,
     <1>12, <1>13, <1>14, <1>15, <1>16, <1>17, <1>18, <1>19, <1>20, <1>21,
     <1>22, <1>23
  DEF CaptureNext, MainStep, Deliver

\* A callback has nothing to record once the result is settled.
LEMMA QuietChannels ==
  ASSUME CaptureTypeOK, Gate, Sealed, Settled, NEW ch \in Channels
  PROVE  ~Listens(ch)
<1>1. CASE gated  BY <1>1 DEF Settled, Gate, Listens
<1>2. CASE ~gated
  <2>1. Complete  BY <1>2 DEF Settled, Sealed
  <2>2. Len(data[ch]) = Target  BY <2>1 DEF Complete
  <2> QED  BY <2>2, CaptureAssumption DEF Listens, Full, CaptureAssumption
<1> QED  BY <1>1, <1>2

\* Nothing is recorded once the result is settled.
LEMMA SettledIsQuiet ==
  ASSUME CaptureTypeOK, Gate, Sealed, Settled, [CaptureNext]_captureVars
  PROVE  data' = data /\ rejected' = rejected
<1> USE DEF streamVars
<1>1. ASSUME NEW ch \in Channels, Ask(ch) PROVE data' = data /\ rejected' = rejected
  BY <1>1 DEF Ask
<1>2. ASSUME NEW ch \in Channels, AskRefused(ch) PROVE data' = data /\ rejected' = rejected
  BY <1>2 DEF AskRefused
<1>3. ASSUME NEW ch \in Channels, Stop(ch) PROVE data' = data /\ rejected' = rejected
  BY <1>3 DEF Stop
<1>4. ASSUME NEW ch \in Channels, StopRefused(ch) PROVE data' = data /\ rejected' = rejected
  BY <1>4 DEF StopRefused
<1>5. ASSUME NEW ch \in Channels, StopRaises(ch) PROVE data' = data /\ rejected' = rejected
  BY <1>5 DEF StopRaises
<1>6. ASSUME NEW ch \in Channels, Save(ch) PROVE data' = data /\ rejected' = rejected
  BY <1>6 DEF Save
<1>7. ASSUME NEW ch \in Channels, SaveFails(ch) PROVE data' = data /\ rejected' = rejected
  BY <1>7 DEF SaveFails, Fail
<1>8. CASE AskRaises  BY <1>8 DEF AskRaises
<1>9. CASE BeginRecording  BY <1>9 DEF BeginRecording
<1>10. CASE EndRecording  BY <1>10 DEF EndRecording
<1>11. CASE CheckComplete  BY <1>11 DEF CheckComplete
<1>12. CASE CloseGate  BY <1>12 DEF CloseGate
<1>13. CASE Shutdown  BY <1>13 DEF Shutdown, Fail
<1>14. CASE ShutdownRaises  BY <1>14 DEF ShutdownRaises, Fail
<1>15. CASE Judge  BY <1>15 DEF Judge
<1>16. CASE Finish  BY <1>16 DEF Finish
<1>17. CASE Tick  BY <1>17 DEF Tick
<1>18. CASE Signal  BY <1>18 DEF Signal
<1>19. CASE Interrupt  BY <1>19 DEF Interrupt
<1>20. CASE InterruptCleanup  BY <1>20 DEF InterruptCleanup, Fail
<1>21. ASSUME NEW ch \in Channels, NEW f \in Frames, Reject(ch, f) PROVE data' = data /\ rejected' = rejected
  <2>1. ~Listens(ch)
    BY QuietChannels
  <2> QED  BY <1>21, <2>1 DEF Reject
<1>22. ASSUME NEW ch \in Channels, NEW f \in Frames, Take(ch, f) PROVE data' = data /\ rejected' = rejected
  <2>1. ~Listens(ch)
    BY QuietChannels
  <2> QED  BY <1>22, <2>1 DEF Take
<1>23. CASE UNCHANGED captureVars  BY <1>23 DEF captureVars
<1> QED
  BY <1>1, <1>2, <1>3, <1>4, <1>5, <1>6, <1>7, <1>8, <1>9, <1>10, <1>11,
     <1>12, <1>13, <1>14, <1>15, <1>16, <1>17, <1>18, <1>19, <1>20, <1>21,
     <1>22, <1>23
  DEF CaptureNext, MainStep, Deliver

\* Without an error, what is stopped and saved is complete.
LEMMA SealedStep ==
  ASSUME CaptureTypeOK, Gate, Sealed, [CaptureNext]_captureVars
  PROVE  Sealed'
<1>0. gated' = gated /\ Channels' = Channels  BY SameChannels
<1>a. Settled => data' = data /\ rejected' = rejected  BY SettledIsQuiet
<1> USE <1>0, <1>a DEF CaptureTypeOK, Gate, Sealed, Settled, mainVars, streamVars, resultVars
<1>1. ASSUME NEW ch \in Channels, Ask(ch) PROVE Sealed'
  BY <1>1 DEF Ask, Complete
<1>2. ASSUME NEW ch \in Channels, AskRefused(ch) PROVE Sealed'
  BY <1>2 DEF AskRefused, Complete
<1>3. ASSUME NEW ch \in Channels, Stop(ch) PROVE Sealed'
  BY <1>3 DEF Stop, Complete
<1>4. ASSUME NEW ch \in Channels, StopRefused(ch) PROVE Sealed'
  BY <1>4 DEF StopRefused, Complete
<1>5. ASSUME NEW ch \in Channels, StopRaises(ch) PROVE Sealed'
  BY <1>5 DEF StopRaises, Complete
<1>6. ASSUME NEW ch \in Channels, Save(ch) PROVE Sealed'
  BY <1>6 DEF Save, Complete
<1>7. ASSUME NEW ch \in Channels, SaveFails(ch) PROVE Sealed'
  BY <1>7 DEF SaveFails, Fail, Complete
<1>8. CASE AskRaises  BY <1>8 DEF AskRaises, Complete
<1>9. CASE BeginRecording  BY <1>9 DEF BeginRecording, Complete
<1>10. CASE EndRecording  BY <1>10 DEF EndRecording, Complete
<1>11. CASE CheckComplete  BY <1>11 DEF CheckComplete, Complete
<1>12. CASE CloseGate  BY <1>12 DEF CloseGate, Complete
<1>13. CASE Shutdown  BY <1>13 DEF Shutdown, Fail, Complete
<1>14. CASE ShutdownRaises  BY <1>14 DEF ShutdownRaises, Fail, Complete
<1>15. CASE Judge  BY <1>15 DEF Judge, Complete
<1>16. CASE Finish  BY <1>16 DEF Finish, Complete
<1>17. CASE Tick  BY <1>17 DEF Tick, Complete
<1>18. CASE Signal  BY <1>18 DEF Signal, Complete
<1>19. CASE Interrupt  BY <1>19 DEF Interrupt, Complete
<1>20. CASE InterruptCleanup  BY <1>20 DEF InterruptCleanup, Fail, Complete
<1>21. ASSUME NEW ch \in Channels, NEW f \in Frames, Reject(ch, f) PROVE Sealed'
  BY <1>21 DEF Reject, Complete
<1>22. ASSUME NEW ch \in Channels, NEW f \in Frames, Take(ch, f) PROVE Sealed'
  BY <1>22 DEF Take, Complete
<1>23. CASE UNCHANGED captureVars  BY <1>23 DEF captureVars, Complete
<1> QED
  BY <1>1, <1>2, <1>3, <1>4, <1>5, <1>6, <1>7, <1>8, <1>9, <1>10, <1>11,
     <1>12, <1>13, <1>14, <1>15, <1>16, <1>17, <1>18, <1>19, <1>20, <1>21,
     <1>22, <1>23
  DEF CaptureNext, MainStep, Deliver

\* What was saved is what is recorded.
LEMMA KeptStep ==
  ASSUME CaptureTypeOK, Gate, Sealed, Kept, [CaptureNext]_captureVars
  PROVE  Kept'
<1>0. gated' = gated /\ Channels' = Channels  BY SameChannels
<1>a. Settled => data' = data /\ rejected' = rejected  BY SettledIsQuiet
<1> USE <1>0, <1>a DEF CaptureTypeOK, Gate, Kept, Settled, Sound, Counted, mainVars, streamVars, resultVars
<1>1. ASSUME NEW ch \in Channels, Ask(ch) PROVE Kept'
  BY <1>1 DEF Ask
<1>2. ASSUME NEW ch \in Channels, AskRefused(ch) PROVE Kept'
  BY <1>2 DEF AskRefused
<1>3. ASSUME NEW ch \in Channels, Stop(ch) PROVE Kept'
  BY <1>3 DEF Stop
<1>4. ASSUME NEW ch \in Channels, StopRefused(ch) PROVE Kept'
  BY <1>4 DEF StopRefused
<1>5. ASSUME NEW ch \in Channels, StopRaises(ch) PROVE Kept'
  BY <1>5 DEF StopRaises
<1>6. ASSUME NEW ch \in Channels, Save(ch) PROVE Kept'
  <2>1. /\ task = "save" /\ task' = task /\ saved' = saved \cup {ch}
        /\ file' = [file EXCEPT ![ch] = data[ch]] /\ data' = data
        /\ passed' = (passed /\ (gated => Sound(ch)))
        /\ UNCHANGED <<verdict, rejected, errors>>
    BY <1>6 DEF Save
  <2>2. ch \in AllChannels /\ file'[ch] = data[ch]
    BY <2>1 DEF Channels, AllChannels
  <2>3. \A d \in saved \ {ch} : file'[d] = file[d]  BY <2>1
  <2>4. ASSUME passed', gated \/ ~errors, NEW d \in saved'
        PROVE  file'[d] = data'[d] /\ (gated => Sound(d)')
    <3>1. CASE d = ch  BY <2>1, <2>2, <2>4, <3>1
    <3>2. CASE d # ch  BY <2>1, <2>3, <2>4, <3>2
    <3> QED  BY <3>1, <3>2
  <2> QED  BY <2>1, <2>4
<1>7. ASSUME NEW ch \in Channels, SaveFails(ch) PROVE Kept'
  BY <1>7 DEF SaveFails, Fail
<1>8. CASE AskRaises  BY <1>8 DEF AskRaises
<1>9. CASE BeginRecording  BY <1>9 DEF BeginRecording
<1>10. CASE EndRecording  BY <1>10 DEF EndRecording
<1>11. CASE CheckComplete  BY <1>11 DEF CheckComplete
<1>12. CASE CloseGate  BY <1>12 DEF CloseGate
<1>13. CASE Shutdown  BY <1>13 DEF Shutdown, Fail
<1>14. CASE ShutdownRaises  BY <1>14 DEF ShutdownRaises, Fail
<1>15. CASE Judge  BY <1>15 DEF Judge
<1>16. CASE Finish  BY <1>16 DEF Finish
<1>17. CASE Tick  BY <1>17 DEF Tick
<1>18. CASE Signal  BY <1>18 DEF Signal
<1>19. CASE Interrupt  BY <1>19 DEF Interrupt
<1>20. CASE InterruptCleanup  BY <1>20 DEF InterruptCleanup, Fail
<1>21. ASSUME NEW ch \in Channels, NEW f \in Frames, Reject(ch, f) PROVE Kept'
  BY <1>21 DEF Reject
<1>22. ASSUME NEW ch \in Channels, NEW f \in Frames, Take(ch, f) PROVE Kept'
  <2>1. CASE Settled
    <3>1. UNCHANGED <<task, saved, passed, errors, file, verdict>>  BY <1>22 DEF Take
    <3>2. data' = data /\ rejected' = rejected  BY <2>1
    <3> QED  BY <3>1, <3>2
  <2>2. CASE ~Settled
    <3>1. task \notin {"save", "done"} \/ (~gated /\ errors)  BY <2>2
    <3>2. verdict # "pass"  BY <3>1
    <3> QED  BY <1>22, <3>1, <3>2 DEF Take
  <2> QED  BY <2>1, <2>2
<1>23. CASE UNCHANGED captureVars  BY <1>23 DEF captureVars
<1> QED
  BY <1>1, <1>2, <1>3, <1>4, <1>5, <1>6, <1>7, <1>8, <1>9, <1>10, <1>11,
     <1>12, <1>13, <1>14, <1>15, <1>16, <1>17, <1>18, <1>19, <1>20, <1>21,
     <1>22, <1>23
  DEF CaptureNext, MainStep, Deliver

\* No program has recorded or saved anything yet.
LEMMA CaptureInvInit == CaptureInit => CaptureIInv
<1> SUFFICES ASSUME CaptureInit PROVE CaptureIInv  OBVIOUS
<1> USE CaptureAssumption DEF CaptureAssumption, CaptureInit
<1>1. [ch \in AllChannels |-> <<>>] \in [AllChannels -> Seq(Units)]  BY EmptySeq
<1>2. {ready, accepting, errors, raised, stop, passed} \subseteq BOOLEAN  OBVIOUS
<1>3. CaptureTypeOK  BY <1>1, <1>2 DEF CaptureTypeOK, Tasks
<1>4. Gate /\ Sealed  BY DEF Gate, Sealed
<1>5. \A ch \in AllChannels : data[ch] = <<>> /\ Len(data[ch]) = 0  BY EmptySeq
<1>6. InOrder  BY <1>5 DEF InOrder
<1>7. Kept  BY DEF Kept
<1> QED  BY <1>3, <1>4, <1>6, <1>7 DEF CaptureIInv

\* The inductive invariant of the captures.
LEMMA CaptureInvariance == CaptureSpec => []CaptureIInv
<1>1. CaptureIInv /\ [CaptureNext]_captureVars => CaptureIInv'
  BY CaptureTypeStep, GateStep, InOrderStep, SealedStep, KeptStep DEF CaptureIInv
<1> QED  BY CaptureInvInit, <1>1, PTL DEF CaptureSpec

(* The captures keep their types.                                           *)
THEOREM CaptureTypeCorrect == CaptureSpec => []CaptureTypeOK
<1>1. CaptureIInv => CaptureTypeOK  BY DEF CaptureIInv
<1> QED  BY CaptureInvariance, <1>1, PTL

(* Exit code 0 vouches for complete files of what was recorded, those of    *)
(* PCM in order, for any number of channels and any target.                 *)
THEOREM FilesAreComplete == CaptureSpec => []SuccessMeansComplete
<1>1. ASSUME CaptureIInv, verdict = "pass", NEW ch \in Channels
      PROVE  /\ Len(file[ch]) = Target /\ file[ch] = data[ch]
             /\ ch \notin VideoChannels =>
                  \A i \in 1 .. Target - 1 : Follows(file[ch][i], file[ch][i + 1])
             /\ ch \notin rejected
             /\ gated => ch \notin early
  <2> USE <1>1 DEF CaptureIInv
  <2>1. ch \in AllChannels  BY DEF Channels, AllChannels
  <2>2. task = "done" /\ passed /\ saved = Channels /\ (gated \/ Counted)
    BY DEF Kept
  <2>3. file[ch] = data[ch]  BY <2>2 DEF Kept, Counted
  <2>4. Sound(ch)  BY <2>2 DEF Kept, Counted
  <2> QED  BY <2>1, <2>3, <2>4 DEF Sound, InOrder, Gate
<1>2. CaptureIInv => SuccessMeansComplete  BY <1>1 DEF SuccessMeansComplete
<1> QED  BY CaptureInvariance, <1>2, PTL

(* Once the gate is closed, or the counted program is satisfied, no step of *)
(* any callback changes what is saved.                                      *)
THEOREM SavedIsFinal == CaptureSpec => ResultIsFinal
<1>1. ASSUME CaptureIInv, [CaptureNext]_captureVars
      PROVE  [Settled => data' = data /\ rejected' = rejected]_captureVars
  BY <1>1, SettledIsQuiet DEF CaptureIInv
<1> QED  BY CaptureInvariance, <1>1, PTL DEF CaptureSpec, ResultIsFinal
=============================================================================
