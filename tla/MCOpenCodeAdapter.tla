------------------------- MODULE MCOpenCodeAdapter -------------------------
(* Instances of OpenCodeAdapter for TLC.                                   *)
EXTENDS OpenCodeAdapter, TLC

Symmetry == Permutations(Callers)

\* A state without what readLoop will not read again.
LiveState ==
  << spawn, process, flagVars, chanVars, pc, loop,
     IF loop = "handle" THEN sse ELSE "none", IF loop = "emit" THEN out ELSE "none",
     netVars, agentVars >>
=============================================================================
