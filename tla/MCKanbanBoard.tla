---------------------------- MODULE MCKanbanBoard ----------------------------
(* Instances of KanbanBoard for TLC.                                       *)
EXTENDS KanbanBoard
=============================================================================
