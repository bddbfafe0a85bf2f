--------------------------- MODULE MCAgentManager ---------------------------
(* Instances of AgentManager for TLC.                                      *)
EXTENDS AgentManager, TLC

Symmetry == Permutations(Reqs) \cup Permutations(Adapters)

\* A state without the variables nobody will read: the locals and the context
\* of a request that has returned, and the locals of a drain between events.
Returned == {t \in Reqs : pc[t] = "idle"}

LiveState ==
  << dbVars, sessions, ctxDone \ Returned, pc, then,
     [t \in Threads |-> IF t \in Returned THEN None ELSE ws[t]],
     [t \in Threads |-> IF t \in Returned THEN None ELSE ad[t]],
     adapterVars,
     [a \in Adapters |->
        IF pc[a] \in {"drain.persist", "drain.terminal"} THEN ev[a] ELSE "none"],
     [a \in Adapters |-> IF pc[a] = "drain.costwrite" THEN base[a] ELSE 0],
     first, bootVars >>
=============================================================================
