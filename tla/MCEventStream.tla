--------------------------- MODULE MCEventStream ---------------------------
(* Instances of EventStream for TLC.                                       *)
EXTENDS EventStream, TLC

Symmetry == Permutations(Clients) \cup Permutations(Writers)

\* A state without the variables nobody will read: the seq of a transaction
\* that is over, and the channel of a handler that has returned.
LiveState ==
  << rows, conn, [t \in Threads |-> IF pc[t] = "insert" THEN nextSeq[t] ELSE 0],
     pc, fanVars, subs, closed,
     [c \in Clients |-> IF c \in subs THEN << queue[c], dropped[c] >> ELSE << >>],
     missed, gone, clientVars, panicked >>
=============================================================================
