---------------------------- MODULE TrcObserver ----------------------------
(****************************************************************************)
(* The observation callback of example_highlevel_trc.py: it prints what     *)
(* changes on a remote controller - buttons at every change, axes when they *)
(* moved by a threshold since they were printed last.                       *)
(****************************************************************************)
EXTENDS Integers

CONSTANTS Buttons, Axes,
          MaxAxis,       \* axes take the values 0 .. MaxAxis
          Threshold      \* the change of an axis that is printed (0.02)

ASSUME TrcAssumption == MaxAxis \in Nat /\ Threshold \in Nat \ {0}

VARIABLES input,      \* the controller as of the last callback
          previous,   \* what the callback compares with, NoSample at first
          shown       \* what a reader of the output takes the controller for

trcVars == <<input, previous, shown>>

Readings == [buttons : SUBSET Buttons, axes : [Axes -> 0 .. MaxAxis]]

Samples == [valid : BOOLEAN, reading : Readings]

NoReading == [buttons |-> {}, axes |-> [x \in Axes |-> 0]]

\* None: its flag is like that of an invalid sample, and nothing else is read.
NoSample == [valid |-> FALSE, reading |-> NoReading]

TrcInit ==
  /\ input = NoSample
  /\ previous = NoSample
  /\ shown = NoReading

Distance(m, n) == IF m < n THEN n - m ELSE m - n

\* The axes as printed last: those that moved far enough are brought up to date.
Followed(now, before) ==
  [x \in Axes |-> IF Distance(now[x], before[x]) >= Threshold
                  THEN now[x] ELSE before[x]]

OnInvalid(sample) ==
  /\ ~sample.valid
  /\ previous' = sample
  /\ UNCHANGED shown

\* The first valid sample is printed as a whole.
OnBaseline(sample) ==
  /\ sample.valid /\ ~previous.valid
  /\ previous' = sample
  /\ shown' = sample.reading

OnChangeForgetDrift(sample) ==
  /\ sample.valid /\ previous.valid
  /\ LET axes == Followed(sample.reading.axes, previous.reading.axes)
     IN  shown' = [buttons |-> sample.reading.buttons,
                   axes |-> [x \in Axes |->
                               IF axes[x] # previous.reading.axes[x]
                               THEN axes[x] ELSE shown.axes[x]]]
  /\ previous' = sample

OnChange(sample) ==
  /\ sample.valid /\ previous.valid
  /\ LET axes == Followed(sample.reading.axes, previous.reading.axes)
         pressed == sample.reading.buttons \ previous.reading.buttons
         released == previous.reading.buttons \ sample.reading.buttons
     IN  /\ shown' = [buttons |-> (shown.buttons \cup pressed) \ released,
                      axes |-> [x \in Axes |->
                                  IF axes[x] # previous.reading.axes[x]
                                  THEN axes[x] ELSE shown.axes[x]]]
         /\ previous' = [sample EXCEPT !.reading.axes = axes]

TrcNext ==
  \E sample \in Samples :
    /\ input' = sample
    /\ OnInvalid(sample) \/ OnBaseline(sample) \/ OnChange(sample)

TrcSpec == TrcInit /\ [][TrcNext]_trcVars

----------------------------------------------------------------------------
TrcTypeOK ==
  /\ input \in Samples /\ previous \in Samples
  /\ shown \in Readings

(****************************************************************************)
(* While the controller is valid, the output tells its buttons exactly and  *)
(* its axes to less than the threshold, however slowly they drift and       *)
(* whatever happened while it was invalid (docs/trc-observation.md:         *)
(* "accumulated axis changes of at least 0.02").                            *)
(****************************************************************************)
ShownFollowsInput ==
  input.valid =>
    /\ shown.buttons = input.reading.buttons
    /\ \A x \in Axes :
         Distance(shown.axes[x], input.reading.axes[x]) < Threshold
=============================================================================
