---------------------------- MODULE KanbanBoard ----------------------------
(***************************************************************************)
(* The issues of a project (internal/db/issue.go) and the handlers that    *)
(* clients list, create, reorder, update and delete them with              *)
(* (internal/api/issues.go).                                               *)
(*                                                                         *)
(* The database has one connection (db.go: Open).  A statement outside a   *)
(* transaction takes it for the time it runs and is one atomic step; the   *)
(* transaction of ReorderIssues keeps it from BeginTx to Commit or         *)
(* Rollback, and every other statement waits.                              *)
(***************************************************************************)
EXTENDS Naturals, Sequences, FiniteSetsExt, SequencesExt

CONSTANTS
  Issues,      \* issue ids, the ULIDs, of which there are 2^128
  Columns,     \* issue statuses
  FirstColumn, \* todo
  Creators,    \* requests that create issues, one at a time each
  Editors,     \* requests that list, reorder, update and delete them
  None,
  Faults,      \* what the environment may do
  MaxOrder,    \* bound: sort_order of an issue when another one is created
  MaxCrashes   \* bound: crashes of the server

Reqs == Creators \cup Editors

ASSUME KanbanBoardAssumption ==
  /\ IsFiniteSet(Issues)
  /\ FirstColumn \in Columns
  /\ None \notin Issues \cup Reqs \cup Nat
  /\ Faults \subseteq {"disconnect", "delete"}
  /\ MaxOrder \in Nat
  /\ MaxCrashes \in Nat

VARIABLES
  project,    \* the row of the project exists
  sort_order, \* issues.sort_order, None when there is no such row
  column,     \* issues.status, FirstColumn when there is no such row
  conn,       \* the request whose transaction has the connection
  saved,      \* sort_order as it was when that transaction began
  pc,         \* next step of each request
  loc,        \* its locals: the issue and the status or the list of ids it was
              \* sent, and the sort_order it has computed or is at
  gone,       \* requests whose client is gone
  view,       \* the list the client of a request has on its screen
  crashes

rowVars == << project, sort_order, column >>
txVars == << conn, saved >>

vars == << rowVars, txVars, pc, loc, gone, view, crashes >>

Lists == UNION {SetToSeqs(S) : S \in SUBSET Issues}

Steps ==
  {"idle", "create.project", "create.max", "create.insert", "create.get",
   "list.project", "list.rows", "reorder.project", "reorder.begin",
   "reorder.update", "reorder.commit", "reorder.list", "update.write",
   "update.get", "delete.write", "drop.write"}

TypeOK ==
  /\ project \in BOOLEAN
  /\ sort_order \in [Issues -> Nat \cup {None}]
  /\ column \in [Issues -> Columns]
  /\ conn \in Reqs \cup {None}
  /\ saved \in [Issues -> Nat \cup {None}]
  /\ pc \in [Reqs -> Steps]
  /\ loc \in [Reqs -> [it : Issues \cup {None}, column : Columns \cup {None}, ids : Lists, n : Nat]]
  /\ gone \in SUBSET Reqs
  /\ view \in [Reqs -> Lists]
  /\ crashes \in 0..MaxCrashes

NoRows == [i \in Issues |-> None]

NoLocals == [it |-> None, column |-> FirstColumn, ids |-> << >>, n |-> 0]

Init ==
  /\ project = TRUE
  /\ sort_order = NoRows
  /\ column = [i \in Issues |-> FirstColumn]
  /\ conn = None
  /\ saved = NoRows
  /\ pc = [t \in Reqs |-> "idle"]
  /\ loc = [t \in Reqs |-> NoLocals]
  /\ gone = {}
  /\ view = [t \in Reqs |-> << >>]
  /\ crashes = 0

-----------------------------------------------------------------------------
Goto(t, step) ==
  /\ pc' = [pc EXCEPT ![t] = step]
  /\ UNCHANGED << loc, gone >>

\* The handler returns: its locals and its context are gone.
Return(t) ==
  /\ pc' = [pc EXCEPT ![t] = "idle"]
  /\ loc' = [loc EXCEPT ![t] = NoLocals]
  /\ gone' = gone \ {t}

Rows == {i \in Issues : sort_order[i] # None}

\* What a statement outside the transaction would read: it waits for its end.
Committed == IF conn = None THEN sort_order ELSE saved

\* ListIssuesByProject: ORDER BY sort_order, created_at, which leaves the order of
\* issues open that tie in both.
Ordered(order) ==
  {s \in SetToSeqs({i \in Issues : order[i] # None}) :
     \A k \in 2..Len(s) : order[s[k - 1]] <= order[s[k]]}

Sorted(order) == CHOOSE s \in Ordered(order) : TRUE

\* A statement of t can run: it has the connection or nobody has, and its
\* client is there.
CanRun(t) == conn \in {None, t} /\ t \notin gone

\* A handler begins with the given step.
Request(t, step, l) ==
  /\ pc[t] = "idle"
  /\ pc' = [pc EXCEPT ![t] = step]
  /\ loc' = [loc EXCEPT ![t] = l]
  /\ UNCHANGED << rowVars, txVars, gone, view, crashes >>

\* An id nobody knows, as good as a new one: NewID makes a ULID.
Fresh(i) ==
  /\ sort_order[i] = None
  /\ \A t \in Reqs : i \notin {loc[t].it} \cup ToSet(view[t]) \cup ToSet(loc[t].ids)

CreateRequest(t) ==
  /\ t \in Creators
  /\ \A i \in Rows : Committed[i] < MaxOrder
  /\ \E i \in Issues :
       Fresh(i) /\ Request(t, "create.project", [NoLocals EXCEPT !.it = i])

\* The client drags the issues it sees into another order, or deletes one of them
\* or changes its status, maybe to one there is not (None).
EditRequest(t) ==
  /\ t \in Editors
  /\ \/ Request(t, "list.project", NoLocals)
     \/ \E list \in SetToSeqs(ToSet(view[t])) :
          Request(t, "reorder.project", [NoLocals EXCEPT !.ids = list])
     \/ \E i \in ToSet(view[t]) :
          \/ Request(t, "delete.write", [NoLocals EXCEPT !.it = i])
          \/ \E s \in Columns \cup {None} :
               Request(t, "update.write", [NoLocals EXCEPT !.it = i, !.column = s])
     \/ "delete" \in Faults /\ Request(t, "drop.write", NoLocals)

\* The client goes away; when it comes back it has to list the issues again.
Disconnect(t) ==
  /\ "disconnect" \in Faults
  /\ pc[t] # "idle" /\ t \notin gone
  /\ gone' = gone \cup {t}
  /\ view' = [view EXCEPT ![t] = << >>]
  /\ UNCHANGED << rowVars, txVars, pc, loc, crashes >>

\* GetProject, of the handlers that call it first.
GetProject(t) ==
  /\ CanRun(t)
  /\ \E p \in { << "create.project", "create.max" >>, << "list.project", "list.rows" >>,
               << "reorder.project", "reorder.begin" >> } :
       /\ pc[t] = p[1]
       /\ IF project THEN Goto(t, p[2]) ELSE Return(t)
  /\ UNCHANGED << rowVars, txVars, view, crashes >>

\* Mutant: the transaction is forgotten by an error return (no deferred Rollback).
Abort_NoRollback(t) ==
  /\ pc[t] # "idle" /\ t \in gone
  /\ Return(t)
  /\ UNCHANGED << rowVars, txVars, view, crashes >>

\* The next statement returns the context's error and so does the handler; the
\* transaction, if it has one, is rolled back by the deferred Rollback.
Abort(t) ==
  /\ pc[t] # "idle" /\ t \in gone
  /\ Return(t)
  /\ IF conn = t
     THEN conn' = None /\ sort_order' = saved /\ saved' = NoRows
     ELSE UNCHANGED << txVars, sort_order >>
  /\ UNCHANGED << project, column, view, crashes >>

-----------------------------------------------------------------------------
(* CreateIssue.                                                            *)

\* Mutant: COUNT(*) for MAX(sort_order) + 1.
CreateMax_Count(t) ==
  /\ pc[t] = "create.max" /\ CanRun(t)
  /\ loc' = [loc EXCEPT ![t].n = Cardinality(Rows)]
  /\ pc' = [pc EXCEPT ![t] = "create.insert"]
  /\ UNCHANGED << rowVars, txVars, gone, view, crashes >>

\* SELECT COALESCE(MAX(sort_order), -1) + 1.
CreateMax(t) ==
  /\ pc[t] = "create.max" /\ CanRun(t)
  /\ loc' = [loc EXCEPT ![t].n = IF Rows = {} THEN 0
                                 ELSE Max({sort_order[i] : i \in Rows}) + 1]
  /\ pc' = [pc EXCEPT ![t] = "create.insert"]
  /\ UNCHANGED << rowVars, txVars, gone, view, crashes >>

\* The INSERT fails when the project has been deleted meanwhile.
CreateInsert(t) ==
  /\ pc[t] = "create.insert" /\ CanRun(t)
  /\ IF project
     THEN /\ sort_order' = [sort_order EXCEPT ![loc[t].it] = loc[t].n]
          /\ Goto(t, "create.get")
     ELSE Return(t) /\ UNCHANGED sort_order
  /\ UNCHANGED << project, column, txVars, view, crashes >>

\* GetIssue, of create and of update.
GetIssue(t) ==
  /\ pc[t] \in {"create.get", "update.get"} /\ CanRun(t)
  /\ Return(t)
  /\ UNCHANGED << rowVars, txVars, view, crashes >>

-----------------------------------------------------------------------------
(* ListIssuesByProject, and ReorderIssues in front of it.                  *)

List(t) ==
  /\ pc[t] \in {"list.rows", "reorder.list"} /\ CanRun(t)
  /\ \E s \in Ordered(sort_order) : view' = [view EXCEPT ![t] = s]
  /\ Return(t)
  /\ UNCHANGED << rowVars, txVars, crashes >>

\* Mutant: no transaction, each UPDATE commits by itself.
ReorderBegin_NoTx(t) ==
  /\ pc[t] = "reorder.begin" /\ CanRun(t)
  /\ Goto(t, "reorder.update")
  /\ UNCHANGED << rowVars, txVars, view, crashes >>

ReorderBegin(t) ==
  /\ pc[t] = "reorder.begin" /\ CanRun(t)
  /\ conn' = t
  /\ saved' = sort_order
  /\ Goto(t, "reorder.update")
  /\ UNCHANGED << rowVars, view, crashes >>

\* UPDATE ... SET sort_order = i WHERE id = ? for the next id; an id without a
\* row changes nothing and is no error.
ReorderUpdate(t) ==
  /\ pc[t] = "reorder.update" /\ CanRun(t)
  /\ LET l == loc[t] IN
     IF l.n < Len(l.ids)
     THEN /\ sort_order' = [i \in Issues |->
                              IF i = l.ids[l.n + 1] /\ i \in Rows THEN l.n ELSE sort_order[i]]
          /\ loc' = [loc EXCEPT ![t].n = @ + 1]
          /\ UNCHANGED << pc, gone >>
     ELSE Goto(t, "reorder.commit") /\ UNCHANGED sort_order
  /\ UNCHANGED << project, column, txVars, view, crashes >>

\* Mutant: Commit is missing, the deferred Rollback ends the transaction.
ReorderCommit_Missing(t) ==
  /\ pc[t] = "reorder.commit" /\ CanRun(t)
  /\ conn' = None
  /\ sort_order' = saved
  /\ saved' = NoRows
  /\ Goto(t, "reorder.list")
  /\ UNCHANGED << project, column, view, crashes >>

ReorderCommit(t) ==
  /\ pc[t] = "reorder.commit" /\ CanRun(t)
  /\ conn' = None
  /\ saved' = NoRows
  /\ Goto(t, "reorder.list")
  /\ UNCHANGED << rowVars, view, crashes >>

-----------------------------------------------------------------------------
(* UpdateIssue, DeleteIssue, DeleteProject.                                *)

\* Mutant: the status is not checked.
UpdateIssue_AnyStatus(t) ==
  /\ pc[t] = "update.write" /\ CanRun(t)
  /\ IF loc[t].it \in Rows
     THEN /\ column' = [column EXCEPT ![loc[t].it] = loc[t].column]
          /\ Goto(t, "update.get")
     ELSE Return(t) /\ UNCHANGED column
  /\ UNCHANGED << project, sort_order, txVars, view, crashes >>

\* An error for a status that is none, and ErrNotFound when no row matches.
UpdateIssue(t) ==
  /\ pc[t] = "update.write" /\ CanRun(t)
  /\ IF loc[t].it \in Rows /\ loc[t].column \in Columns
     THEN /\ column' = [column EXCEPT ![loc[t].it] = loc[t].column]
          /\ Goto(t, "update.get")
     ELSE Return(t) /\ UNCHANGED column
  /\ UNCHANGED << project, sort_order, txVars, view, crashes >>

\* The client takes the issue off its screen when it gets the answer.
DeleteIssue(t) ==
  /\ pc[t] = "delete.write" /\ CanRun(t)
  /\ sort_order' = [sort_order EXCEPT ![loc[t].it] = None]
  /\ column' = [column EXCEPT ![loc[t].it] = FirstColumn]
  /\ view' = [view EXCEPT ![t] = RemoveFirst(@, loc[t].it)]
  /\ Return(t)
  /\ UNCHANGED << project, txVars, crashes >>

\* The rows of the issues go with that of their project.
DeleteProject(t) ==
  /\ pc[t] = "drop.write" /\ CanRun(t)
  /\ project' = FALSE
  /\ sort_order' = NoRows
  /\ column' = [i \in Issues |-> FirstColumn]
  /\ Return(t)
  /\ UNCHANGED << txVars, view, crashes >>

\* The server dies and starts again: SQLite rolls an open transaction back.
Crash ==
  /\ crashes < MaxCrashes
  /\ crashes' = crashes + 1
  /\ sort_order' = IF conn = None THEN sort_order ELSE saved
  /\ conn' = None
  /\ saved' = NoRows
  /\ pc' = [t \in Reqs |-> "idle"]
  /\ loc' = [t \in Reqs |-> NoLocals]
  /\ gone' = {}
  /\ view' = [t \in Reqs |-> << >>]
  /\ UNCHANGED << project, column >>

-----------------------------------------------------------------------------
Handle(t) ==
  \/ GetProject(t) \/ Abort(t)
  \/ CreateMax(t) \/ CreateInsert(t) \/ GetIssue(t)
  \/ List(t) \/ ReorderBegin(t) \/ ReorderUpdate(t) \/ ReorderCommit(t)
  \/ UpdateIssue(t) \/ DeleteIssue(t) \/ DeleteProject(t)

Next ==
  \/ \E t \in Reqs :
       CreateRequest(t) \/ EditRequest(t) \/ Disconnect(t) \/ Handle(t)
  \/ Crash

\* The scheduler runs every handler, and database/sql gives the connection to the
\* statements that wait for it in the order they came.
Fairness == \A t \in Reqs : SF_vars(Handle(t))

Spec == Init /\ [][Next]_vars /\ Fairness

-----------------------------------------------------------------------------
(* Properties.                                                             *)

\* The order of a project's issues is one order: no two share a sort_order.
DistinctOrders ==
  \A i, j \in Issues :
    Committed[i] = Committed[j] /\ Committed[i] # None => i = j

\* Creating, deleting and reordering issues each happen at once, as IssueBoard
\* says, though a creation is three statements and a reorder one per issue, in
\* spite of lost clients and crashes.
Abstract == INSTANCE IssueBoard WITH board <- Sorted(Committed)

FollowsBoard == Abstract!Spec

\* The answer of a reorder shows the order it was asked for.
AnswerShowsOrder ==
  [][\A t \in Reqs : pc[t] = "reorder.list" /\ t \notin gone \cup gone' /\ pc'[t] = "idle"
                     /\ crashes' = crashes =>
       SelectSeq(view'[t], LAMBDA i : i \in ToSet(loc[t].ids))
         = SelectSeq(loc[t].ids, LAMBDA i : i \in Rows)]_vars

\* No handler waits for the connection for ever.
RequestsEnd == \A t \in Reqs : pc[t] # "idle" ~> pc[t] = "idle"
=============================================================================
