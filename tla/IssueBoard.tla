----------------------------- MODULE IssueBoard -----------------------------
(***************************************************************************)
(* What the kanban board of a project promises its users, whatever the     *)
(* server and the database do inside: the issues stand in one order, and   *)
(* creating, deleting and reordering issues each happen at once.           *)
(***************************************************************************)
EXTENDS Sequences, SequencesExt

CONSTANT Issues

VARIABLE board   \* the issues in the order they are shown in

Init == board = << >>

\* A new issue is the last one.
CreateIssue(i) ==
  /\ i \notin ToSet(board)
  /\ board' = Append(board, i)

DeleteIssue(i) ==
  /\ i \in ToSet(board)
  /\ board' = SelectSeq(board, LAMBDA j : j # i)

\* The issues of the list s that are there come first, in the order of s, and
\* the others keep their order behind them.
Arrange(s) ==
  board' = SelectSeq(s, LAMBDA j : j \in ToSet(board))
             \o SelectSeq(board, LAMBDA j : j \notin ToSet(s))

\* The project is deleted.
Clear == board' = << >>

Lists == UNION {SetToSeqs(S) : S \in SUBSET Issues}

Next ==
  \/ \E i \in Issues : CreateIssue(i) \/ DeleteIssue(i)
  \/ \E s \in Lists : Arrange(s)
  \/ Clear

Spec == Init /\ [][Next]_board
=============================================================================
