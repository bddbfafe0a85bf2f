------------------------------- MODULE MCRoom -------------------------------
(* Instances of ControlRoom for TLC.                                       *)
EXTENDS ControlRoom, Sequences, TLC

Symmetry == Permutations(Adapters)

\* A state without the variables nobody will read: the locals of the requests
\* that have returned, and the adapters that are of no use any more.
Returned == {t \in Reqs : Idle(t)}

Dead == {a \in Adapters : life[a] \in {"stopped", "preempted"} /\ agentPc[a] = "idle"}

LiveState ==
  << status, bootVars, tokens, sessions, agentPc, then, life, turn, budget, tokenBase,
     ctxDone \ (Returned \cup Dead),
     [t \in Reqs \cup Adapters |-> IF t \in Returned \cup Dead THEN None ELSE agentWs[t]],
     [t \in Reqs |-> IF agentPc[t] = "idle" THEN None ELSE ad[t]],
     [a \in Adapters |-> IF a \in Dead THEN << >> ELSE chan[a]],
     [a \in Adapters |-> IF agentPc[a] = "drain.terminal" THEN ev[a] ELSE "none"],
     branch, path, pending, born, target, tree, base, branches, worktrees, pc,
     [t \in Reqs |-> IF pc[t] = "idle" THEN None ELSE ws[t]],
     [t \in Reqs |-> IF pc[t] \in {"merge.tree", "merge.conflict"} THEN row[t]
                     ELSE [status |-> "none", pending |-> 0]],
     [t \in Reqs |-> IF pc[t] = "merge.update" THEN merged[t] ELSE {}],
     gone, window, delivered, tries, handlerVars >>
=============================================================================
