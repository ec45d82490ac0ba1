---------------------------- MODULE MCPolicyLoop ----------------------------
(* PolicyLoop for TLC: its constants are numbers, given in the cfg.        *)
EXTENDS PolicyLoop
=============================================================================
