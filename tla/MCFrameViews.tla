---------------------------- MODULE MCFrameViews ----------------------------
(* FrameViews with model values for TLC.                                   *)
EXTENDS FrameViews
CONSTANTS b1, b2, o1, o2, o3

TwoBlocks == {b1, b2}
ThreeObjects == {o1, o2, o3}
=============================================================================
