------------------------- MODULE MCHighLevelConsole -------------------------
(* HighLevelConsole for TLC: it has no constants.                          *)
EXTENDS HighLevelConsole
=============================================================================
