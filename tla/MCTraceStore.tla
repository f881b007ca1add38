----------------------------- MODULE MCTraceStore -----------------------------
(***************************************************************************)
(* Instances of TraceStore for TLC: two turns whose traces share a ring    *)
(* of two entries.                                                         *)
(***************************************************************************)
EXTENDS TraceStore, TLC

AllFaults == {"find", "save"}

Symmetry == Permutations(Calls) \cup Permutations(Traces)
==============================================================================
