----------------------------- MODULE MCTraceRelay -----------------------------
(***************************************************************************)
(* Instances of TraceRelay for TLC.                                        *)
(***************************************************************************)
EXTENDS TraceRelay

Symmetry == Permutations(Specialists)

AllPaths == {"flow", "direct", "hop"}
===============================================================================
