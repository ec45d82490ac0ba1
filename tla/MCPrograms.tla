----------------------------- MODULE MCPrograms -----------------------------
(****************************************************************************)
(* The example programs from start to end, and the wait for a session state *)
(* that three of them use.  They are separate: a behaviour is one of one of *)
(* the two, the other stays where it starts.                                *)
(****************************************************************************)
EXTENDS Lifecycle, StateWait

VARIABLE part

allVars == <<part, vars, waitVars>>

PartInit ==
  /\ part \in {"program", "wait"}
  /\ Init
  /\ part = "wait" => program = "lowLevel"
  /\ WaitInit
  /\ part = "program" => state = "other"

PartNext ==
  /\ UNCHANGED part
  /\ \/ part = "program" /\ Next /\ UNCHANGED waitVars
     \/ part = "wait" /\ WaitNext /\ UNCHANGED vars

PartSpec == PartInit /\ [][PartNext]_allVars /\ (part = "wait" => WaitFairness)
=============================================================================
