--------------------------- MODULE MCOrchestration ---------------------------
(***************************************************************************)
(* Instances of Orchestration for TLC: two specialists, runtimes that      *)
(* stream up to two tokens.                                                *)
(***************************************************************************)
EXTENDS Orchestration

Both == {"multi", "direct"}
AnyWidth == {0, 1, 2}
==============================================================================
