--------------------------- MODULE MCPlaneGeometry ---------------------------
(* PlaneGeometry for TLC: its constants are sets of numbers, given in the  *)
(* cfg.                                                                    *)
EXTENDS PlaneGeometry
=============================================================================
