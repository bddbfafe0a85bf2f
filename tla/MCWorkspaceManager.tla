------------------------- MODULE MCWorkspaceManager -------------------------
(* Instances of WorkspaceManager for TLC.                                  *)
EXTENDS WorkspaceManager, TLC

Symmetry == Permutations(Reqs)

\* A state without the variables nobody will read: the locals and the context
\* of the requests that have returned.
Returned == {t \in Reqs : pc[t] = "idle"}

LiveState ==
  << status, rowVars, repoVars, pc,
     [t \in Reqs |-> IF t \in Returned THEN None ELSE ws[t]],
     [t \in Reqs |-> IF pc[t] \in {"merge.tree", "merge.conflict"} THEN row[t] ELSE NoRow],
     [t \in Reqs |-> IF pc[t] = "merge.update" THEN merged[t] ELSE {}],
     gone \ Returned, worldVars, historyVars >>
=============================================================================
