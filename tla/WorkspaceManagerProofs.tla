----------------------- MODULE WorkspaceManagerProofs -----------------------
(***************************************************************************)
(* Branches, merges and the status column of WorkspaceManager, for any     *)
(* workspaces, changes and conflicts, and any number of windows and        *)
(* crashes.                                                                *)
(*                                                                         *)
(* IInv is inductive for any number of concurrent requests.  SerialInv and *)
(* MergeInv add what holds when requests do not overlap, which is what the *)
(* refinement of WorkspaceLifecycle and MergedIsInTarget need.             *)
(***************************************************************************)
EXTENDS WorkspaceManager, TLAPS

(***************************************************************************)
(* The types, in parts that are proved one by one.                         *)
(***************************************************************************)
RowTypes ==
  /\ status \in [Workspaces -> WorkspaceStatus \cup {"none"}]
  /\ branch \in [Workspaces -> Names \cup {None}]
  /\ path \in [Workspaces -> BOOLEAN]
  /\ pending \in [Workspaces -> 0..MaxAutoMergeAttempts]
  /\ born \in [Workspaces -> Names \cup {None}]

RepoTypes ==
  /\ target \in SUBSET Changes
  /\ tree \in [Names -> SUBSET Changes]
  /\ base \in [Names -> SUBSET Changes]
  /\ branches \in SUBSET Names
  /\ worktrees \in SUBSET Workspaces

LocalTypes ==
  /\ pc \in [Reqs -> Steps]
  /\ ws \in [Reqs -> Workspaces \cup {None}]
  /\ row \in [Reqs -> [status : WorkspaceStatus \cup {"none"},
                       pending : 0..MaxAutoMergeAttempts]]
  /\ merged \in [Reqs -> SUBSET Changes]
  /\ gone \in SUBSET Reqs

WorldTypes ==
  /\ window \in Names
  /\ sweep \in SUBSET Workspaces
  /\ crashes \in 0..MaxCrashes

HistoryTypes ==
  /\ delivered \in [Workspaces -> SUBSET Changes]
  /\ tries \in [Workspaces -> 0..MaxTries]

LEMMA Parts ==
  TypeOK <=> RowTypes /\ RepoTypes /\ LocalTypes /\ WorldTypes /\ HistoryTypes
  BY DEF TypeOK, RowTypes, RepoTypes, LocalTypes, WorldTypes, HistoryTypes

LEMMA PartsNext ==
  TypeOK' <=> RowTypes' /\ RepoTypes' /\ LocalTypes' /\ WorldTypes' /\ HistoryTypes'
  BY DEF TypeOK, RowTypes, RepoTypes, LocalTypes, WorldTypes, HistoryTypes

-----------------------------------------------------------------------------
(***************************************************************************)
(* The inductive invariant.                                                *)
(***************************************************************************)

\* A workspace is born with its row, by the one request that creates it; any
\* other request works on a row that is there.  Requests are served only when
\* the sweep is over.
RequestInv ==
  /\ \A w \in Workspaces : born[w] = None <=> status[w] = "none"
  /\ \A t \in Reqs : pc[t] # "idle" => ws[t] \in Workspaces /\ sweep = {}
  /\ \A t \in Reqs : pc[t] \notin {"idle", "create.insert"} => status[ws[t]] # "none"
  /\ \A t \in Reqs : pc[t] = "create.insert" => status[ws[t]] = "none"
  /\ \A t, u \in Reqs :
       pc[t] = "create.insert" /\ pc[u] = "create.insert" /\ ws[t] = ws[u] => t = u
  /\ \A w \in worktrees \cup sweep : status[w] # "none"

\* A request has made the branch of w: its name is in the row, or about to be.
Made(w) ==
  branch[w] # None \/ \E t \in Reqs : pc[t] = "prepare.branch" /\ ws[t] = w

\* A branch has one maker, and once made it is there for good.
BranchInv ==
  /\ \A w \in Workspaces : branch[w] # None => branch[w] = born[w]
  /\ \A w \in Workspaces : Made(w) => born[w] \in branches
  /\ \A v, w \in Workspaces : Made(v) /\ Made(w) /\ born[v] = born[w] => v = w

HaveBranch == {"idle", "running", "awaiting_input", "completed", "resolving_conflict",
               "merged", "conflict_stuck"}

KnowBranch == {"prepare.idle", "complete.write", "merge.tree", "merge.update",
               "merge.merged", "merge.conflict"}

\* The branch is in the row before the row is idle, and stays there.
IdleInv ==
  /\ \A w \in Workspaces : status[w] \in HaveBranch => branch[w] # None
  /\ \A t \in Reqs : pc[t] \in KnowBranch => branch[ws[t]] # None

IInv == TypeOK /\ RequestInv /\ BranchInv /\ IdleInv

\* None is no name of a branch.
LEMMA NoneIsNoName == None \notin Names /\ 0 \in Names /\ Names \subseteq Nat
  BY WorkspaceManagerAssumption DEF Names

LEMMA InitIInv == Init => IInv
  <1> SUFFICES ASSUME Init PROVE IInv
    OBVIOUS
  <1> USE DEF Init
  <1>1. RowTypes
    BY DEF RowTypes, MaxAutoMergeAttempts
  <1>2. RepoTypes
    BY DEF RepoTypes
  <1>3. LocalTypes
    BY DEF LocalTypes, Steps, NoRow, MaxAutoMergeAttempts
  <1>4. WorldTypes /\ HistoryTypes
    BY NoneIsNoName, WorkspaceManagerAssumption
    DEF WorldTypes, HistoryTypes, MaxTries, MaxAutoMergeAttempts
  <1>5. RequestInv
    BY DEF RequestInv
  <1>6. BranchInv
    BY DEF BranchInv, Made
  <1>7. IdleInv
    BY DEF IdleInv, HaveBranch, KnowBranch
  <1> QED BY <1>1, <1>2, <1>3, <1>4, <1>5, <1>6, <1>7, Parts DEF IInv

-----------------------------------------------------------------------------
(***************************************************************************)
(* What an UPDATE can do: nothing, or its work, with or without an answer. *)
(***************************************************************************)
LEMMA UpdateEffect ==
  ASSUME NEW t \in Reqs, NEW ok \in BOOLEAN, NEW written \in BOOLEAN,
         UpdateRow(t, ok, written)
  PROVE  /\ ok => written
         /\ written => Exists(t)
         /\ gone' = gone \/ gone' = gone \cup {t}
  BY Zenon DEF UpdateRow, Statement

LEMMA SetStatusEffect ==
  ASSUME NEW t \in Reqs, NEW s, NEW step, SetStatus(t, s, step)
  PROVE  /\ \/ status' = status /\ pc' = [pc EXCEPT ![t] = "idle"]
            \/ /\ Exists(t)
               /\ status' = [status EXCEPT ![ws[t]] = s]
               /\ pc' = [pc EXCEPT ![t] = "idle"] \/ pc' = [pc EXCEPT ![t] = step]
         /\ gone' = gone \/ gone' = gone \cup {t}
  BY UpdateEffect, Zenon DEF SetStatus, Goto

LEMMA MergePersistEffect ==
  ASSUME NEW t \in Reqs, NEW s, NEW attempt, MergePersist(t, s, attempt)
  PROVE  /\ \/ status' = status /\ pending' = pending
            \/ /\ Exists(t)
               /\ pending' = [pending EXCEPT ![ws[t]] = attempt]
               /\ status' = IF s # "none" THEN [status EXCEPT ![ws[t]] = s] ELSE status
         /\ pc' = [pc EXCEPT ![t] = "idle"]
         /\ gone' = gone \/ gone' = gone \cup {t}
         /\ UNCHANGED << branch, path, born, repoVars, localVars, worldVars, historyVars >>
  BY UpdateEffect, Zenon DEF MergePersist, Goto

-----------------------------------------------------------------------------
(***************************************************************************)
(* The shape of a step of a request that has a row: it goes to a step in Q *)
(* and may set the status of its workspace to one in S.                    *)
(***************************************************************************)
Moves(t, Q, S) ==
  /\ pc[t] \notin {"idle", "create.insert"}
  /\ \E q \in Q : pc' = [pc EXCEPT ![t] = q]
  /\ status' = status \/ \E s \in S : status' = [status EXCEPT ![ws[t]] = s]
  /\ UNCHANGED << ws, born, sweep >>

LEMMA MovesRequest ==
  ASSUME IInv, NEW t \in Reqs, NEW Q, NEW S, Moves(t, Q, S),
         "create.insert" \notin Q, "none" \notin S,
         worktrees' \subseteq worktrees \cup {ws[t]}
  PROVE  RequestInv'
  <1> USE DEF IInv, TypeOK, RequestInv, Moves
  <1>1. ws[t] \in Workspaces /\ status[ws[t]] # "none" /\ sweep = {}
    OBVIOUS
  <1>2. \A w \in Workspaces : status'[w] = "none" <=> status[w] = "none"
    BY <1>1
  <1>3. \A u \in Reqs : u # t => pc'[u] = pc[u]
    OBVIOUS
  <1>4. pc'[t] # "create.insert"
    OBVIOUS
  <1>5. \A w \in worktrees' \cup sweep' : status'[w] # "none"
    BY <1>1, <1>2
  <1> QED BY <1>1, <1>2, <1>3, <1>4, <1>5

LEMMA MovesBranch ==
  ASSUME IInv, NEW t \in Reqs, NEW Q, NEW S, Moves(t, Q, S),
         "prepare.branch" \notin Q, UNCHANGED << branch, branches >>
  PROVE  BranchInv'
  <1> USE DEF IInv, TypeOK, Moves
  <1>1. \A u \in Reqs : pc'[u] = "prepare.branch" => pc[u] = "prepare.branch"
    OBVIOUS
  <1>2. \A w \in Workspaces : Made(w)' => Made(w)
    BY <1>1 DEF Made
  <1> QED BY <1>2 DEF BranchInv

LEMMA MovesIdle ==
  ASSUME IInv, NEW t \in Reqs, NEW Q, NEW S, Moves(t, Q, S), UNCHANGED branch,
         Q \cap KnowBranch # {} \/ S \cap HaveBranch # {} => branch[ws[t]] # None
  PROVE  IdleInv'
  <1> USE DEF IInv, TypeOK, Moves
  <1>1. \A w \in Workspaces : status'[w] \in HaveBranch => branch[w] # None
    <2>1. \A w \in Workspaces : status'[w] = status[w] \/ (w = ws[t] /\ status'[w] \in S)
      OBVIOUS
    <2> QED BY <2>1 DEF IdleInv
  <1>2. \A u \in Reqs : pc'[u] \in KnowBranch => branch[ws[u]] # None
    <2>1. \A u \in Reqs : pc'[u] = pc[u] \/ (u = t /\ pc'[u] \in Q)
      OBVIOUS
    <2> QED BY <2>1 DEF IdleInv
  <1> QED BY <1>1, <1>2 DEF IdleInv

\* The branch of a workspace its request works on, once it is known.
LEMMA KnownBranch ==
  ASSUME IInv, NEW t \in Reqs, pc[t] \in KnowBranch \/ status[ws[t]] \in HaveBranch,
         pc[t] # "idle"
  PROVE  branch[ws[t]] # None
  BY DEF IInv, IdleInv, RequestInv

\* The types of the locals, when the step only moves a request.
LEMMA GoneTypes ==
  ASSUME IInv, NEW t \in Reqs, NEW q \in Steps, pc' = [pc EXCEPT ![t] = q],
         gone' = gone \/ gone' = gone \cup {t}, UNCHANGED << ws, row, merged >>
  PROVE  LocalTypes'
  BY Parts DEF IInv, LocalTypes

-----------------------------------------------------------------------------
(***************************************************************************)
(* Each step of a handler.                                                 *)
(***************************************************************************)
Quiet == UNCHANGED << repoVars, worldVars, historyVars >>

LEMMA QuietTypes ==
  ASSUME IInv, Quiet PROVE RepoTypes' /\ WorldTypes' /\ HistoryTypes'
  BY Parts DEF IInv, Quiet, repoVars, worldVars, historyVars, RepoTypes, WorldTypes,
               HistoryTypes

\* A step that moves a request and leaves rows, repository and branches alone.
LEMMA QuietMove ==
  ASSUME IInv, NEW t \in Reqs, NEW Q \in SUBSET (Steps \ {"create.insert", "prepare.branch"}),
         Moves(t, Q, {}), Quiet, UNCHANGED << rowVars, ws, merged >>,
         row' \in [Reqs -> [status : WorkspaceStatus \cup {"none"},
                            pending : 0..MaxAutoMergeAttempts]],
         gone' = gone \/ gone' = gone \cup {t},
         Q \cap KnowBranch # {} => branch[ws[t]] # None
  PROVE  IInv'
  <1>1. RowTypes'
    BY Parts DEF IInv, RowTypes, Moves, rowVars
  <1>2. LocalTypes'
    BY Parts DEF IInv, LocalTypes, Moves
  <1>3. RequestInv'
    BY MovesRequest DEF Quiet, repoVars
  <1>4. BranchInv'
    BY MovesBranch DEF Quiet, repoVars, rowVars
  <1>5. IdleInv'
    BY MovesIdle DEF rowVars
  <1> QED BY <1>1, <1>2, <1>3, <1>4, <1>5, QuietTypes, PartsNext DEF IInv

\* A step that sets the status, whatever comes of the UPDATE.
LEMMA SetStatusMove ==
  ASSUME IInv, NEW t \in Reqs, NEW s \in WorkspaceStatus,
         NEW step \in Steps \ {"create.insert", "prepare.branch"},
         pc[t] \notin {"idle", "create.insert"},
         SetStatus(t, s, step), Quiet, UNCHANGED << rowVars, localVars >>,
         step \in KnowBranch \/ s \in HaveBranch => branch[ws[t]] # None
  PROVE  IInv'
  <1> USE SetStatusEffect DEF rowVars, localVars
  <1>0. "none" \notin WorkspaceStatus /\ "idle" \in Steps /\ "idle" \notin KnowBranch
    BY DEF WorkspaceStatus, Steps, KnowBranch
  <1>1. Moves(t, {step, "idle"}, {s})
    <2>1. UNCHANGED << ws, born, sweep >>
      BY DEF Quiet, worldVars
    <2>2. \E q \in {step, "idle"} : pc' = [pc EXCEPT ![t] = q]
      OBVIOUS
    <2>3. status' = status \/ status' = [status EXCEPT ![ws[t]] = s]
      OBVIOUS
    <2> QED BY <2>1, <2>2, <2>3 DEF Moves
  <1>2. RowTypes'
    BY Parts DEF IInv, RowTypes
  <1>3. LocalTypes'
    BY <1>0, GoneTypes
  <1>4. RequestInv'
    BY <1>0, <1>1, MovesRequest DEF Quiet, repoVars
  <1>5. BranchInv'
    BY <1>1, MovesBranch DEF Quiet, repoVars
  <1>6. IdleInv'
    BY <1>0, <1>1, MovesIdle
  <1> QED BY <1>2, <1>3, <1>4, <1>5, <1>6, QuietTypes, PartsNext DEF IInv

\* A workspace can be completed when it is idle or its agent has stopped working.
LEMMA IntoCompleted ==
  ASSUME NEW s \in WorkspaceStatus, CanTransition(s, "completed")
  PROVE  s \in {"idle", "awaiting_input", "resolving_conflict"}
  BY DEF CanTransition, allowedTransitions, WorkspaceStatus

LEMMA LoadSteps ==
  ASSUME IInv, NEW t \in Reqs,
         PrepareLoad(t) \/ CompleteLoad(t) \/ CancelLoad(t) \/ MergeLoad(t)
  PROVE  IInv'
  <1> USE DEF Goto, Loaded, Exists, Quiet
  <1> DEFINE Rows == [status : WorkspaceStatus \cup {"none"}, pending : 0..MaxAutoMergeAttempts]
  <1>0. /\ ws[t] \in Workspaces
        /\ row \in [Reqs -> Rows]
        /\ LoadRow(t) => row' \in [Reqs -> Rows]
    <2>1. ws[t] \in Workspaces
      BY DEF PrepareLoad, CompleteLoad, CancelLoad, MergeLoad, IInv, RequestInv
    <2> QED BY <2>1 DEF IInv, TypeOK, LoadRow
  <1>1. CASE PrepareLoad(t)
    <2>1. Moves(t, {"prepare.preparing", "idle"}, {})
      BY <1>1 DEF PrepareLoad, Moves, rowVars, worldVars
    <2>2. /\ {"prepare.preparing", "idle"} \subseteq Steps \ {"create.insert", "prepare.branch"}
          /\ {"prepare.preparing", "idle"} \cap KnowBranch = {}
      BY DEF Steps, KnowBranch
    <2> QED BY <1>0, <1>1, <2>1, <2>2, QuietMove DEF PrepareLoad
  <1>2. CASE CompleteLoad(t)
    <2>1. Moves(t, {"complete.write", "idle"}, {})
      BY <1>2 DEF CompleteLoad, Moves, rowVars, worldVars, localVars
    <2>2. {"complete.write", "idle"} \subseteq Steps \ {"create.insert", "prepare.branch"}
      BY DEF Steps
    <2>3. CASE pc' = [pc EXCEPT ![t] = "idle"]
      <3>1. Moves(t, {"idle"}, {})
        BY <2>1, <2>3 DEF Moves
      <3> QED BY <1>0, <1>2, <2>2, <3>1, QuietMove DEF CompleteLoad, localVars, KnowBranch
    <2>4. CASE CanTransition(status[ws[t]], "completed")
      <3>1. status[ws[t]] \in WorkspaceStatus
        BY <1>0, <1>2 DEF CompleteLoad, IInv, TypeOK, RequestInv
      <3>2. status[ws[t]] \in HaveBranch
        BY <2>4, <3>1, IntoCompleted DEF HaveBranch
      <3>3. branch[ws[t]] # None
        BY <1>2, <3>2, KnownBranch DEF CompleteLoad
      <3> QED BY <1>0, <1>2, <2>1, <2>2, <3>3, QuietMove DEF CompleteLoad, localVars
    <2> QED BY <1>2, <2>3, <2>4 DEF CompleteLoad
  <1>3. CASE CancelLoad(t)
    <2>1. Moves(t, {"cancel.remove", "cancel.write", "idle"}, {})
      BY <1>3 DEF CancelLoad, Moves, rowVars, worldVars, localVars
    <2>2. /\ {"cancel.remove", "cancel.write", "idle"}
               \subseteq Steps \ {"create.insert", "prepare.branch"}
          /\ {"cancel.remove", "cancel.write", "idle"} \cap KnowBranch = {}
      BY DEF Steps, KnowBranch
    <2> QED BY <1>0, <1>3, <2>1, <2>2, QuietMove DEF CancelLoad, localVars
  <1>4. CASE MergeLoad(t)
    <2>1. Moves(t, {"merge.tree", "idle"}, {})
      BY <1>4 DEF MergeLoad, Moves, rowVars, worldVars
    <2>2. {"merge.tree", "idle"} \subseteq Steps \ {"create.insert", "prepare.branch"}
      BY DEF Steps
    <2>3. CASE pc' = [pc EXCEPT ![t] = "idle"]
      <3>1. Moves(t, {"idle"}, {})
        BY <2>1, <2>3 DEF Moves
      <3> QED BY <1>0, <1>4, <2>2, <3>1, QuietMove DEF MergeLoad, KnowBranch
    <2>4. CASE status[ws[t]] \in {"completed", "resolving_conflict"}
      <3>1. branch[ws[t]] # None
        BY <1>4, <2>4, KnownBranch DEF MergeLoad, HaveBranch
      <3> QED BY <1>0, <1>4, <2>1, <2>2, <3>1, QuietMove DEF MergeLoad
    <2> QED BY <1>4, <2>3, <2>4 DEF MergeLoad
  <1> QED BY <1>1, <1>2, <1>3, <1>4

LEMMA WriteSteps ==
  ASSUME IInv, NEW t \in Reqs,
         PreparePreparing(t) \/ PrepareFailed(t) \/ CompleteWrite(t) \/ CancelWrite(t)
  PROVE  IInv'
  <1>1. /\ {"preparing", "failed", "completed", "cancelled"} \subseteq WorkspaceStatus
        /\ {"idle", "prepare.add"} \subseteq Steps \ {"create.insert", "prepare.branch"}
        /\ {"preparing", "failed", "cancelled"} \cap HaveBranch = {}
        /\ {"idle", "prepare.add"} \cap KnowBranch = {}
    BY DEF WorkspaceStatus, Steps, HaveBranch, KnowBranch
  <1>2. CASE PreparePreparing(t)
    BY <1>1, <1>2, SetStatusMove DEF PreparePreparing, Quiet
  <1>3. CASE PrepareFailed(t)
    BY <1>1, <1>3, SetStatusMove DEF PrepareFailed, Quiet
  <1>4. CASE CancelWrite(t)
    BY <1>1, <1>4, SetStatusMove DEF CancelWrite, Quiet
  <1>5. CASE CompleteWrite(t)
    <2>1. branch[ws[t]] # None
      BY <1>5, KnownBranch DEF CompleteWrite, KnowBranch
    <2> QED BY <1>1, <1>5, <2>1, SetStatusMove DEF CompleteWrite, Quiet
  <1> QED BY <1>2, <1>3, <1>4, <1>5

\* An INSERT makes a workspace whose branch nobody has made.
LEMMA CreateStep == ASSUME IInv, NEW t \in Reqs, CreateInsert(t) PROVE IInv'
  <1> DEFINE w == ws[t]
  <1>1. PICK ok \in BOOLEAN, written \in BOOLEAN :
          /\ Statement(t, ok, written)
          /\ IF written
             THEN /\ status' = [status EXCEPT ![w] = "queued"]
                  /\ born' = [born EXCEPT ![w] = window]
             ELSE UNCHANGED << status, born >>
          /\ pc' = [pc EXCEPT ![t] = IF ok THEN "prepare.load" ELSE "idle"]
    BY DEF CreateInsert, Goto
  <1>2. /\ pc[t] = "create.insert" /\ w \in Workspaces /\ status[w] = "none"
        /\ sweep = {} /\ window \in Names
        /\ UNCHANGED << branch, path, pending, repoVars, localVars, worldVars, historyVars >>
    BY DEF CreateInsert, IInv, RequestInv, TypeOK
  <1>3. /\ ok => written
        /\ gone' = gone \/ gone' = gone \cup {t}
    BY <1>1, Zenon DEF Statement
  <1>4. branch[w] = None /\ ~Made(w)
    <2>1. born[w] = None
      BY <1>2 DEF IInv, RequestInv
    <2>2. \A u \in Reqs : pc[u] = "prepare.branch" => ws[u] # w
      BY <1>2 DEF IInv, RequestInv
    <2>3. branch[w] = None
      BY <1>2, <2>1 DEF IInv, BranchInv
    <2> QED BY <2>2, <2>3 DEF Made
  <1>5. RowTypes'
    BY <1>1, <1>2, Parts DEF IInv, RowTypes, WorkspaceStatus
  <1>6. LocalTypes'
    BY <1>1, <1>2, <1>3, GoneTypes DEF Steps, localVars
  <1>7. RequestInv'
    <2>1. UNCHANGED << ws, worktrees, sweep >>
      BY <1>2 DEF localVars, repoVars, worldVars
    <2>2. \A v \in Workspaces : v # w => status'[v] = status[v] /\ born'[v] = born[v]
      BY <1>1 DEF IInv, TypeOK
    <2>3. \/ status'[w] = "queued" /\ born'[w] = window
          \/ ~ok /\ status'[w] = "none" /\ born'[w] = born[w]
      BY <1>1, <1>2, <1>3 DEF IInv, TypeOK
    <2>4. window # None
      BY <1>2, NoneIsNoName
    <2>5. \A u \in Reqs : u # t => pc'[u] = pc[u]
      BY <1>1 DEF IInv, TypeOK
    <2>6. pc'[t] = "idle" \/ (ok /\ pc'[t] = "prepare.load")
      BY <1>1 DEF IInv, TypeOK
    <2>7. \A u \in Reqs : u # t /\ pc[u] # "idle" /\ ws[u] = w => FALSE
      BY <1>2 DEF IInv, RequestInv
    <2>8. \A v \in Workspaces : born'[v] = None <=> status'[v] = "none"
      BY <1>2, <2>2, <2>3, <2>4 DEF IInv, RequestInv
    <2>9. \A u \in Reqs : pc'[u] # "idle" => ws[u] \in Workspaces /\ sweep = {}
      BY <1>2, <2>5, <2>6 DEF IInv, RequestInv
    <2>10. \A u \in Reqs : pc'[u] \notin {"idle", "create.insert"} => status'[ws[u]] # "none"
      <3>1. ok => status'[w] = "queued"
        BY <2>3
      <3> QED BY <2>2, <2>5, <2>6, <2>7, <3>1 DEF IInv, RequestInv
    <2>11. \A u \in Reqs : pc'[u] = "create.insert" => u # t /\ pc[u] = "create.insert"
      BY <2>5, <2>6
    <2>12. \A v \in worktrees : status'[v] # "none"
      <3>1. \A v \in worktrees : v \in Workspaces /\ status[v] # "none"
        BY DEF IInv, RequestInv, TypeOK
      <3> QED BY <1>2, <2>2, <3>1
    <2>13. \A u \in Reqs : pc'[u] = "create.insert" => status'[ws[u]] = "none"
      <3>1. \A u \in Reqs : pc'[u] = "create.insert" =>
              ws[u] \in Workspaces /\ ws[u] # w /\ status[ws[u]] = "none"
        BY <2>7, <2>11 DEF IInv, RequestInv
      <3> QED BY <2>2, <3>1
    <2> QED BY <1>2, <2>1, <2>8, <2>9, <2>10, <2>11, <2>12, <2>13 DEF IInv, RequestInv
  <1>8. BranchInv'
    <2>1. UNCHANGED << branch, branches, ws >>
      BY <1>2 DEF repoVars, localVars
    <2>2. \A u \in Reqs : pc'[u] = "prepare.branch" => pc[u] = "prepare.branch"
      BY <1>1 DEF IInv, TypeOK
    <2>3. \A v \in Workspaces : Made(v)' => Made(v)
      BY <2>1, <2>2 DEF Made
    <2>4. \A v \in Workspaces : v # w => born'[v] = born[v]
      BY <1>1 DEF IInv, TypeOK
    <2> QED BY <1>4, <2>1, <2>3, <2>4 DEF IInv, BranchInv
  <1>9. IdleInv'
    <2>1. UNCHANGED << branch, ws >>
      BY <1>2 DEF localVars
    <2>2. \A u \in Reqs : pc'[u] \in KnowBranch => pc[u] \in KnowBranch
      BY <1>1 DEF IInv, TypeOK, KnowBranch
    <2>3. \A v \in Workspaces : status'[v] \in HaveBranch => status[v] \in HaveBranch
      BY <1>1 DEF IInv, TypeOK, HaveBranch
    <2> QED BY <2>1, <2>2, <2>3 DEF IInv, IdleInv
  <1>10. RepoTypes' /\ WorldTypes' /\ HistoryTypes'
    BY <1>2, QuietTypes DEF Quiet
  <1> QED BY <1>5, <1>6, <1>7, <1>8, <1>9, <1>10, PartsNext DEF IInv

\* "git worktree add -b" succeeds only for a name nobody has made a branch of.
LEMMA AddStep == ASSUME IInv, NEW t \in Reqs, PrepareAdd(t) PROVE IInv'
  <1> DEFINE w == ws[t]
             n == born[w]
  <1>1. /\ pc[t] = "prepare.add" /\ w \in Workspaces /\ n \in Names
        /\ UNCHANGED << status, rowVars, target, localVars, gone, worldVars, historyVars >>
    BY DEF PrepareAdd, IInv, RequestInv, TypeOK
  <1>2. RowTypes' /\ WorldTypes' /\ HistoryTypes'
    BY <1>1, Parts DEF IInv, RowTypes, WorldTypes, HistoryTypes, rowVars, worldVars, historyVars
  <1>3. CASE /\ n \notin branches
             /\ branches' = branches \cup {n} /\ worktrees' = worktrees \cup {w}
             /\ tree' = [tree EXCEPT ![n] = target] /\ base' = [base EXCEPT ![n] = target]
             /\ pc' = [pc EXCEPT ![t] = "prepare.branch"]
    <2>1. RepoTypes' /\ LocalTypes'
      BY <1>1, <1>3, Parts DEF IInv, RepoTypes, LocalTypes, localVars, Steps
    <2>2. Moves(t, {"prepare.branch"}, {})
      BY <1>1, <1>3 DEF Moves, rowVars, localVars, worldVars
    <2>3. RequestInv' /\ IdleInv'
      BY <1>1, <1>3, <2>2, MovesRequest, MovesIdle DEF rowVars, KnowBranch
    <2>4. BranchInv'
      <3>1. \A v \in Workspaces : Made(v)' => v = w \/ Made(v)
        BY <1>1, <1>3 DEF Made, rowVars, localVars, IInv, TypeOK
      <3>2. \A v \in Workspaces : Made(v) => born[v] # n
        BY <1>3 DEF IInv, BranchInv
      <3>3. UNCHANGED << born, branch >>
        BY <1>1 DEF rowVars
      <3> QED BY <1>1, <1>3, <3>1, <3>2, <3>3 DEF IInv, BranchInv
    <2> QED BY <1>2, <2>1, <2>3, <2>4, PartsNext DEF IInv
  <1>4. CASE /\ UNCHANGED << branches, worktrees, tree, base >>
             /\ pc' = [pc EXCEPT ![t] = "prepare.failed"]
    <2>1. Moves(t, {"prepare.failed"}, {})
      BY <1>1, <1>4 DEF Moves, rowVars, localVars, worldVars
    <2> QED BY <1>1, <1>4, <2>1, QuietMove
            DEF Steps, KnowBranch, Quiet, repoVars, localVars, IInv, TypeOK
  <1> QED BY <1>3, <1>4 DEF PrepareAdd, branchName, Goto

\* The name that is persisted is the one that was made.
LEMMA PersistBranchStep == ASSUME IInv, NEW t \in Reqs, PrepareBranch(t) PROVE IInv'
  <1> DEFINE w == ws[t]
  <1>1. /\ pc[t] = "prepare.branch" /\ w \in Workspaces /\ status[w] # "none"
        /\ UNCHANGED << status, path, pending, born, repoVars, localVars, gone, worldVars,
                        historyVars >>
    BY DEF PrepareBranch, IInv, RequestInv
  <1>2. born[w] # None /\ born[w] \in Names /\ Made(w)
    BY <1>1 DEF IInv, RequestInv, TypeOK, Made
  <1>3. \/ branch' = branch /\ pc' = [pc EXCEPT ![t] = "idle"]
        \/ branch' = [branch EXCEPT ![w] = born[w]] /\ pc' = [pc EXCEPT ![t] = "prepare.idle"]
    BY <1>1 DEF PrepareBranch, Goto, Loaded, Exists, branchName
  <1>4. RowTypes'
    BY <1>1, <1>2, <1>3, Parts DEF IInv, RowTypes
  <1>5. LocalTypes'
    BY <1>1, <1>3, GoneTypes DEF Steps, localVars
  <1>6. RequestInv'
    <2>1. Moves(t, {"idle", "prepare.idle"}, {})
      BY <1>1, <1>3 DEF Moves, localVars, worldVars
    <2> QED BY <1>1, <2>1, MovesRequest DEF repoVars
  <1>7. /\ \A v \in Workspaces : v # w => branch'[v] = branch[v]
        /\ branch'[w] \in {branch[w], born[w]}
        /\ UNCHANGED << ws, branches >>
    BY <1>1, <1>3 DEF IInv, TypeOK, repoVars, localVars
  <1>8. BranchInv'
    <2>1. \A v \in Workspaces : Made(v)' => Made(v)
      BY <1>2, <1>3, <1>7 DEF Made, IInv, TypeOK
    <2> QED BY <1>1, <1>7, <2>1 DEF IInv, BranchInv
  <1>9. IdleInv'
    <2>1. \A v \in Workspaces : branch[v] # None => branch'[v] # None
      BY <1>2, <1>7
    <2>2. \A u \in Reqs : u # t => pc'[u] = pc[u]
      BY <1>3 DEF IInv, TypeOK
    <2>3. pc'[t] = "idle" \/ branch'[w] = born[w]
      BY <1>1, <1>3 DEF IInv, TypeOK
    <2>4. \A u \in Reqs : pc[u] \in KnowBranch => ws[u] \in Workspaces
      BY DEF IInv, RequestInv, KnowBranch
    <2> QED BY <1>1, <1>2, <1>7, <2>1, <2>2, <2>3, <2>4 DEF IInv, IdleInv, KnowBranch
  <1> QED BY <1>1, <1>4, <1>5, <1>6, <1>8, <1>9, QuietTypes, PartsNext DEF IInv, Quiet

LEMMA IdleStep == ASSUME IInv, NEW t \in Reqs, PrepareIdle(t) PROVE IInv'
  <1>1. PICK ok \in BOOLEAN, written \in BOOLEAN :
          /\ UpdateRow(t, ok, written)
          /\ IF written
             THEN /\ status' = [status EXCEPT ![ws[t]] = "idle"]
                  /\ path' = [path EXCEPT ![ws[t]] = TRUE]
             ELSE UNCHANGED << status, path >>
    BY DEF PrepareIdle
  <1>2. /\ pc[t] = "prepare.idle" /\ pc' = [pc EXCEPT ![t] = "idle"]
        /\ UNCHANGED << branch, pending, born, repoVars, localVars, worldVars, historyVars >>
    BY DEF PrepareIdle, Goto
  <1>3. branch[ws[t]] # None
    BY <1>2, KnownBranch DEF KnowBranch
  <1>4. gone' = gone \/ gone' = gone \cup {t}
    BY <1>1, UpdateEffect
  <1>5. RowTypes'
    <2>1. status' \in [Workspaces -> WorkspaceStatus \cup {"none"}]
      BY <1>1 DEF IInv, TypeOK, WorkspaceStatus
    <2>2. path' \in [Workspaces -> BOOLEAN]
      BY <1>1 DEF IInv, TypeOK
    <2> QED BY <1>2, <2>1, <2>2 DEF IInv, TypeOK, RowTypes
  <1>6. LocalTypes'
    BY <1>2, <1>4, GoneTypes DEF Steps, localVars
  <1>7. Moves(t, {"idle"}, {"idle"})
    BY <1>1, <1>2 DEF Moves, localVars, worldVars
  <1>8. RequestInv' /\ BranchInv' /\ IdleInv'
    BY <1>2, <1>3, <1>7, MovesRequest, MovesBranch, MovesIdle DEF repoVars
  <1> QED BY <1>2, <1>5, <1>6, <1>8, QuietTypes, PartsNext DEF IInv, Quiet

LEMMA RemoveStep == ASSUME IInv, NEW t \in Reqs, CancelRemove(t) PROVE IInv'
  <1>1. /\ pc[t] = "cancel.remove" /\ pc' = [pc EXCEPT ![t] = "cancel.write"]
        /\ worktrees' \subseteq worktrees
        /\ UNCHANGED << status, rowVars, target, tree, base, branches, localVars, gone,
                        worldVars, historyVars >>
    BY DEF CancelRemove, Goto
  <1>2. Moves(t, {"cancel.write"}, {})
    BY <1>1 DEF Moves, rowVars, localVars, worldVars
  <1>3. RequestInv' /\ BranchInv' /\ IdleInv'
    BY <1>1, <1>2, MovesRequest, MovesBranch, MovesIdle DEF rowVars, KnowBranch
  <1>4. RowTypes' /\ RepoTypes' /\ WorldTypes' /\ HistoryTypes'
    BY <1>1, Parts DEF IInv, RowTypes, RepoTypes, WorldTypes, HistoryTypes, rowVars,
                       worldVars, historyVars
  <1>5. LocalTypes'
    BY <1>1, GoneTypes DEF Steps, localVars
  <1> QED BY <1>3, <1>4, <1>5, PartsNext DEF IInv

LEMMA MergeTreeStep == ASSUME IInv, NEW t \in Reqs, MergeTree(t) PROVE IInv'
  <1> DEFINE n == branch[ws[t]]
  <1>1. /\ pc[t] = "merge.tree" /\ ws[t] \in Workspaces
        /\ UNCHANGED << status, rowVars, repoVars, ws, row, gone, worldVars, delivered >>
    BY DEF MergeTree, IInv, RequestInv
  <1>2. PICK q \in {"merge.update", "merge.conflict", "idle"} : pc' = [pc EXCEPT ![t] = q]
    BY DEF MergeTree, Goto
  <1>3. branch[ws[t]] # None
    BY <1>1, KnownBranch DEF KnowBranch
  <1>4. merged' \in [Reqs -> SUBSET Changes]
    <2>1. n \in branches => ThreeWay(n) \in SUBSET Changes
      BY DEF ThreeWay, IInv, TypeOK
    <2>2. UNCHANGED merged \/ (n \in branches /\ merged' = [merged EXCEPT ![t] = ThreeWay(n)])
      BY DEF MergeTree
    <2> QED BY <2>1, <2>2 DEF IInv, TypeOK
  <1>5. tries' \in [Workspaces -> 0..MaxTries]
    <2>1. UNCHANGED tries
            \/ tries' = [tries EXCEPT ![ws[t]] = IF @ < MaxTries THEN @ + 1 ELSE @]
      BY DEF MergeTree
    <2> QED BY <2>1 DEF IInv, TypeOK, MaxTries, MaxAutoMergeAttempts
  <1>6. LocalTypes'
    BY <1>1, <1>2, <1>4, Parts DEF IInv, LocalTypes, Steps
  <1>7. RowTypes' /\ RepoTypes' /\ WorldTypes' /\ HistoryTypes'
    BY <1>1, <1>5, Parts DEF IInv, RowTypes, RepoTypes, WorldTypes, HistoryTypes, rowVars,
                             repoVars, worldVars
  <1>8. Moves(t, {"merge.update", "merge.conflict", "idle"}, {})
    BY <1>1, <1>2 DEF Moves, rowVars, worldVars
  <1>9. RequestInv' /\ BranchInv' /\ IdleInv'
    BY <1>1, <1>3, <1>8, MovesRequest, MovesBranch, MovesIdle DEF rowVars, repoVars
  <1> QED BY <1>6, <1>7, <1>9, PartsNext DEF IInv

LEMMA UpdateBranchStep == ASSUME IInv, NEW t \in Reqs, UpdateBranch(t) PROVE IInv'
  <1>1. /\ pc[t] = "merge.update" /\ ws[t] \in Workspaces
        /\ UNCHANGED << status, rowVars, tree, base, branches, worktrees, localVars, gone,
                        worldVars, tries >>
    BY DEF UpdateBranch, IInv, RequestInv
  <1>2. PICK q \in {"merge.merged", "idle"} : pc' = [pc EXCEPT ![t] = q]
    BY DEF UpdateBranch, Goto
  <1>3. branch[ws[t]] # None
    BY <1>1, KnownBranch DEF KnowBranch
  <1>4. target' \in SUBSET Changes /\ delivered' \in [Workspaces -> SUBSET Changes]
    BY DEF UpdateBranch, IInv, TypeOK
  <1>5. LocalTypes'
    BY <1>1, <1>2, GoneTypes DEF Steps, localVars
  <1>6. RowTypes' /\ RepoTypes' /\ WorldTypes' /\ HistoryTypes'
    BY <1>1, <1>4, Parts DEF IInv, RowTypes, RepoTypes, WorldTypes, HistoryTypes, rowVars,
                             worldVars
  <1>7. Moves(t, {"merge.merged", "idle"}, {})
    BY <1>1, <1>2 DEF Moves, rowVars, localVars, worldVars
  <1>8. RequestInv' /\ BranchInv' /\ IdleInv'
    BY <1>1, <1>3, <1>7, MovesRequest, MovesBranch, MovesIdle DEF rowVars
  <1> QED BY <1>5, <1>6, <1>8, PartsNext DEF IInv

\* The end of a merge: a status or none, and the new pending_merge.
LEMMA MergePersistMove ==
  ASSUME IInv, NEW t \in Reqs, pc[t] \in {"merge.merged", "merge.conflict"},
         NEW s \in WorkspaceStatus \cup {"none"}, NEW attempt \in 0..MaxAutoMergeAttempts,
         MergePersist(t, s, attempt)
  PROVE  IInv'
  <1>1. /\ pc' = [pc EXCEPT ![t] = "idle"]
        /\ gone' = gone \/ gone' = gone \cup {t}
        /\ UNCHANGED << branch, path, born, repoVars, localVars, worldVars, historyVars >>
        /\ pending' \in {pending, [pending EXCEPT ![ws[t]] = attempt]}
        /\ \/ status' = status
           \/ s # "none" /\ status' = [status EXCEPT ![ws[t]] = s]
    BY MergePersistEffect
  <1>2. branch[ws[t]] # None
    BY KnownBranch DEF KnowBranch
  <1>3. RowTypes'
    BY <1>1, Parts DEF IInv, RowTypes
  <1>4. LocalTypes'
    BY <1>1, GoneTypes DEF Steps, localVars
  <1>5. Moves(t, {"idle"}, WorkspaceStatus)
    BY <1>1 DEF Moves, localVars, worldVars
  <1>6. RequestInv' /\ BranchInv' /\ IdleInv'
    BY <1>1, <1>2, <1>5, MovesRequest, MovesBranch, MovesIdle DEF repoVars, WorkspaceStatus
  <1> QED BY <1>1, <1>3, <1>4, <1>6, QuietTypes, PartsNext DEF IInv, Quiet

LEMMA MergeEndSteps ==
  ASSUME IInv, NEW t \in Reqs, MergeMerged(t) \/ MergeConflict(t) PROVE IInv'
  <1>1. CASE MergeMerged(t)
    BY <1>1, MergePersistMove DEF MergeMerged, WorkspaceStatus, MaxAutoMergeAttempts
  <1>2. CASE MergeConflict(t)
    <2>1. row[t].pending + 1 \in Nat
      BY DEF IInv, TypeOK, MaxAutoMergeAttempts
    <2>2. \E s \in WorkspaceStatus \cup {"none"}, attempt \in 0..MaxAutoMergeAttempts :
            MergePersist(t, s, attempt)
      BY <1>2, <2>1, Zenon, SMT DEF MergeConflict, WorkspaceStatus, MaxAutoMergeAttempts
    <2> QED BY <1>2, <2>2, MergePersistMove DEF MergeConflict
  <1> QED BY <1>1, <1>2

LEMMA HandleStep == ASSUME IInv, NEW t \in Reqs, Handle(t) PROVE IInv'
  BY LoadSteps, WriteSteps, CreateStep, AddStep, PersistBranchStep, IdleStep, RemoveStep,
     MergeTreeStep, UpdateBranchStep, MergeEndSteps DEF Handle

-----------------------------------------------------------------------------
(***************************************************************************)
(* Clients, users, and the life of the server.                             *)
(***************************************************************************)
\* Where a request goes first.
LEMMA RequestTarget ==
  ASSUME IInv, NEW t \in Reqs, NEW op \in Ops, NEW w \in Workspaces, Request(t, op, w)
  PROVE  \E q \in {"create.insert", "complete.load", "cancel.load", "merge.load"} :
           /\ pc' = [pc EXCEPT ![t] = q] /\ pc'[t] = q
           /\ IF q = "create.insert"
              THEN status[w] = "none" /\ \A r \in Reqs : ~(pc[r] = "create.insert" /\ ws[r] = w)
              ELSE status[w] # "none"
  <1>1. op \in AllOps /\ pc \in [Reqs -> Steps]
    BY WorkspaceManagerAssumption DEF IInv, TypeOK
  <1>2. CASE op = "create"
    <2>1. pc' = [pc EXCEPT ![t] = "create.insert"] /\ pc'[t] = "create.insert"
      BY <1>1, <1>2 DEF Request, Goto
    <2> QED BY <1>2, <2>1 DEF Request
  <1>3. CASE op = "complete"
    <2>1. pc' = [pc EXCEPT ![t] = "complete.load"] /\ pc'[t] = "complete.load"
      BY <1>1, <1>3 DEF Request, Goto
    <2> QED BY <1>3, <2>1 DEF Request
  <1>4. CASE op = "cancel"
    <2>1. pc' = [pc EXCEPT ![t] = "cancel.load"] /\ pc'[t] = "cancel.load"
      BY <1>1, <1>4 DEF Request, Goto
    <2> QED BY <1>4, <2>1 DEF Request
  <1>5. CASE op = "merge"
    <2>1. pc' = [pc EXCEPT ![t] = "merge.load"] /\ pc'[t] = "merge.load"
      BY <1>1, <1>5 DEF Request, Goto
    <2> QED BY <1>5, <2>1 DEF Request
  <1> QED BY <1>1, <1>2, <1>3, <1>4, <1>5 DEF AllOps

LEMMA RequestStep ==
  ASSUME IInv, NEW t \in Reqs, NEW op \in Ops, NEW w \in Workspaces, Request(t, op, w)
  PROVE  IInv'
  <1>1. /\ sweep = {} /\ pc[t] = "idle"
        /\ ws' = [ws EXCEPT ![t] = w]
        /\ UNCHANGED << status, rowVars, repoVars, worldVars, historyVars >>
    BY DEF Request
  <1>2. PICK q \in {"create.insert", "complete.load", "cancel.load", "merge.load"} :
          /\ pc' = [pc EXCEPT ![t] = q]
          /\ IF q = "create.insert"
             THEN status[w] = "none" /\ \A r \in Reqs : ~(pc[r] = "create.insert" /\ ws[r] = w)
             ELSE status[w] # "none"
    BY RequestTarget
  <1>3. LocalTypes'
    BY <1>1, <1>2, Parts DEF IInv, LocalTypes, Request, Steps, NoRow, MaxAutoMergeAttempts
  <1>4. RowTypes' /\ RepoTypes' /\ WorldTypes' /\ HistoryTypes'
    BY <1>1, Parts DEF IInv, RowTypes, RepoTypes, WorldTypes, HistoryTypes, rowVars,
                       repoVars, worldVars, historyVars
  <1>5. /\ \A u \in Reqs : u # t => pc'[u] = pc[u] /\ ws'[u] = ws[u]
        /\ pc'[t] = q /\ ws'[t] = w
        /\ UNCHANGED << status, branch, born, branches, worktrees, sweep >>
    BY <1>1, <1>2 DEF IInv, TypeOK, rowVars, repoVars, worldVars
  <1>6. RequestInv'
    BY <1>1, <1>2, <1>5 DEF IInv, RequestInv
  <1>7. BranchInv'
    <2>1. \A v \in Workspaces : Made(v)' => Made(v)
      BY <1>2, <1>5 DEF Made
    <2> QED BY <1>5, <2>1 DEF IInv, BranchInv
  <1>8. IdleInv'
    BY <1>2, <1>5 DEF IInv, IdleInv, KnowBranch
  <1> QED BY <1>3, <1>4, <1>6, <1>7, <1>8, PartsNext DEF IInv

\* A step that touches neither rows nor requests.
LEMMA WorldStep ==
  ASSUME IInv,
         UNCHANGED << status, rowVars, pc, localVars, branches, worktrees, sweep >>,
         RepoTypes', WorldTypes', HistoryTypes', gone' \in SUBSET Reqs
  PROVE  IInv'
  <1> USE DEF rowVars, localVars
  <1>1. RowTypes' /\ LocalTypes'
    BY Parts DEF IInv, RowTypes, LocalTypes
  <1>2. RequestInv'
    BY DEF IInv, RequestInv
  <1>3. BranchInv'
    <2>1. \A v \in Workspaces : Made(v)' <=> Made(v)
      BY DEF Made
    <2> QED BY <2>1 DEF IInv, BranchInv
  <1>4. IdleInv'
    BY DEF IInv, IdleInv
  <1> QED BY <1>1, <1>2, <1>3, <1>4, PartsNext DEF IInv

LEMMA WorldSteps ==
  ASSUME IInv,
         \/ \E t \in Reqs : Disconnect(t)
         \/ \E w \in Workspaces : Commit(w) \/ Resolve(w)
         \/ \E c \in UserChanges : UserCommit(c)
         \/ Tick
  PROVE  IInv'
  <1> USE Parts DEF IInv, RepoTypes, WorldTypes, HistoryTypes, repoVars, worldVars, historyVars
  <1>1. ASSUME NEW t \in Reqs, Disconnect(t) PROVE IInv'
    <2>1. /\ UNCHANGED << status, rowVars, repoVars, pc, localVars, worldVars, historyVars >>
          /\ gone' \in SUBSET Reqs
      BY <1>1 DEF Disconnect, LocalTypes
    <2> QED BY <2>1, WorldStep
  <1>2. ASSUME NEW w \in Workspaces, Commit(w) PROVE IInv'
    <2>1. RepoTypes'
      BY <1>2 DEF Commit, BranchIn, Changes
    <2> QED BY <1>2, <2>1, WorldStep DEF Commit, LocalTypes
  <1>3. ASSUME NEW w \in Workspaces, Resolve(w) PROVE IInv'
    <2>1. born[w] \in Names
      BY <1>3 DEF Resolve, RequestInv, TypeOK
    <2>2. ThreeWay(born[w]) \in SUBSET Changes
      BY <2>1 DEF ThreeWay
    <2>3. RepoTypes'
      BY <1>3, <2>1, <2>2 DEF Resolve, BranchIn
    <2> QED BY <1>3, <2>3, WorldStep DEF Resolve, LocalTypes
  <1>4. ASSUME NEW c \in UserChanges, UserCommit(c) PROVE IInv'
    <2>1. RepoTypes'
      BY <1>4 DEF UserCommit, Changes
    <2> QED BY <1>4, <2>1, WorldStep DEF UserCommit, LocalTypes
  <1>5. CASE Tick
    <2>1. WorldTypes'
      BY <1>5, WorkspaceManagerAssumption DEF Tick, Names
    <2> QED BY <1>5, <2>1, WorldStep DEF Tick, LocalTypes
  <1> QED BY <1>1, <1>2, <1>3, <1>4, <1>5

LEMMA CrashStep == ASSUME IInv, Crash PROVE IInv'
  <1>1. /\ UNCHANGED << status, rowVars, repoVars, localVars, window, historyVars >>
        /\ sweep' = {w \in Workspaces : status[w] \in Swept}
        /\ pc' = [t \in Reqs |-> "idle"] /\ gone' = {}
        /\ crashes < MaxCrashes /\ crashes' = crashes + 1
    BY DEF Crash
  <1>2. RowTypes' /\ RepoTypes' /\ HistoryTypes'
    BY <1>1, Parts DEF IInv, RowTypes, RepoTypes, HistoryTypes, rowVars, repoVars, historyVars
  <1>3. LocalTypes' /\ WorldTypes'
    BY <1>1, Parts, WorkspaceManagerAssumption
    DEF IInv, LocalTypes, WorldTypes, localVars, Steps
  <1>4. RequestInv'
    BY <1>1 DEF IInv, RequestInv, rowVars, repoVars, localVars, Swept
  <1>5. BranchInv'
    <2>1. \A v \in Workspaces : Made(v)' => Made(v)
      BY <1>1 DEF Made, rowVars
    <2> QED BY <1>1, <2>1 DEF IInv, BranchInv, rowVars, repoVars
  <1>6. IdleInv'
    BY <1>1 DEF IInv, IdleInv, rowVars, KnowBranch
  <1> QED BY <1>2, <1>3, <1>4, <1>5, <1>6, PartsNext DEF IInv

LEMMA SweepStep == ASSUME IInv, NEW w \in Workspaces, SweepRow(w) PROVE IInv'
  <1>1. /\ w \in sweep /\ status' = [status EXCEPT ![w] = "failed"]
        /\ sweep' = sweep \ {w}
        /\ UNCHANGED << rowVars, repoVars, pc, localVars, gone, window, crashes, historyVars >>
    BY DEF SweepRow
  <1>2. RowTypes' /\ RepoTypes' /\ LocalTypes' /\ WorldTypes' /\ HistoryTypes'
    BY <1>1, Parts DEF IInv, RowTypes, RepoTypes, LocalTypes, WorldTypes, HistoryTypes,
                       rowVars, repoVars, localVars, historyVars, WorkspaceStatus
  <1>3. status[w] # "none" /\ \A v \in Workspaces : v # w => status'[v] = status[v]
    BY <1>1 DEF IInv, RequestInv, TypeOK
  <1>4. status'[w] = "failed"
    BY <1>1 DEF IInv, TypeOK
  <1>5. \A t \in Reqs : pc[t] = "idle"
    BY <1>1 DEF IInv, RequestInv
  <1>6. RequestInv'
    BY <1>1, <1>3, <1>4, <1>5 DEF IInv, RequestInv, TypeOK, rowVars, repoVars, localVars
  <1>7. BranchInv'
    <2>1. \A v \in Workspaces : Made(v)' <=> Made(v)
      BY <1>1 DEF Made, rowVars, localVars
    <2> QED BY <1>1, <2>1 DEF IInv, BranchInv, rowVars, repoVars
  <1>8. IdleInv'
    BY <1>1, <1>3, <1>4, <1>5 DEF IInv, IdleInv, rowVars, localVars, HaveBranch, KnowBranch
  <1> QED BY <1>2, <1>6, <1>7, <1>8, PartsNext DEF IInv

LEMMA StutterStep == ASSUME IInv, UNCHANGED vars PROVE IInv'
  <1>1. RepoTypes' /\ WorldTypes' /\ HistoryTypes'
    BY QuietTypes DEF vars, Quiet
  <1> QED BY <1>1, Parts, WorldStep DEF vars, repoVars, worldVars, IInv, LocalTypes

\* Every state of the manager, with any number of requests at work, satisfies
\* the invariant the branches and the idle rows rest on.
THEOREM ManagerInvariance == Spec => []IInv
  <1>1. IInv /\ [Next]_vars => IInv'
    BY HandleStep, RequestStep, WorldSteps, CrashStep, SweepStep, StutterStep DEF Next
  <1> QED BY <1>1, InitIInv, PTL DEF Spec

\* Every variable keeps its type; pending_merge never passes its limit.
THEOREM ManagerTypes == Spec => []TypeOK
  <1>1. IInv => TypeOK
    BY DEF IInv
  <1> QED BY <1>1, ManagerInvariance, PTL

\* However many preparations interleave, in whatever windows their workspaces
\* were created (branchName), two rows never name one branch.
THEOREM BranchesAreExclusive == Spec => []BranchExclusive
  <1>1. IInv => BranchExclusive
    BY DEF IInv, BranchInv, Made, BranchExclusive
  <1> QED BY <1>1, ManagerInvariance, PTL

\* Whoever reads an idle or later row finds the branch in it and in the
\* repository (Prepare persists the branch before it flips the status), though
\* clients leave, git fails and the server crashes.
THEOREM IdleRowsHaveBranches == Spec => []IdleHasBranch
  <1>1. IInv => IdleHasBranch
    BY DEF IInv, BranchInv, IdleInv, Made, IdleHasBranch, HaveBranch
  <1> QED BY <1>1, ManagerInvariance, PTL

-----------------------------------------------------------------------------
(***************************************************************************)
(* Requests that do not overlap.  A handler decides by the row it loads    *)
(* and writes later: what it decided still holds when no other request     *)
(* works on its workspace.  That is an assumption about the clients, since *)
(* nothing in the server sees to it.                                       *)
(***************************************************************************)
OneRequestPerWorkspace ==
  \A t, u \in Reqs :
    pc[t] # "idle" /\ pc[u] # "idle" /\ ws[t] = ws[u] => t = u

MergeSteps == {"merge.tree", "merge.update", "merge.merged", "merge.conflict"}

OneMerge ==
  \A t, u \in Reqs : pc[t] \in MergeSteps /\ pc[u] \in MergeSteps => t = u

\* What a handler at the given step takes the status of its workspace to be.
Expects(step, s) ==
  /\ step = "prepare.preparing" => CanTransition(s, "preparing")
  /\ step \in {"prepare.add", "prepare.failed", "prepare.branch", "prepare.idle"} =>
       s = "preparing"
  /\ step = "complete.write" => CanTransition(s, "completed")
  /\ step \in {"cancel.remove", "cancel.write"} => CanTransition(s, "cancelled")
  /\ step \in MergeSteps => s \in {"completed", "resolving_conflict"}

SerialInv ==
  /\ \A t \in Reqs : pc[t] # "idle" => Expects(pc[t], status[ws[t]])
  /\ \A w \in sweep : status[w] \in Swept

\* A handler's step, as far as the status column goes: an allowed transition of
\* its workspace at most, and the handler goes where its expectation holds.
Follows(t) ==
  /\ pc[t] # "idle"
  /\ UNCHANGED << ws, sweep >>
  /\ \/ status' = status
     \/ /\ status[ws[t]] = "none"
        /\ status' = [status EXCEPT ![ws[t]] = "queued"]
     \/ /\ status[ws[t]] # "none"
        /\ \E s \in WorkspaceStatus :
             CanTransition(status[ws[t]], s) /\ status' = [status EXCEPT ![ws[t]] = s]
  /\ \E q \in Steps :
       /\ pc' = [pc EXCEPT ![t] = q]
       /\ q # "idle" => Expects(q, status'[ws[t]])

LEMMA FollowsSerial ==
  ASSUME IInv, SerialInv, OneRequestPerWorkspace, NEW t \in Reqs, Follows(t)
  PROVE  SerialInv'
  <1>1. ws[t] \in Workspaces /\ sweep = {} /\ sweep' = {} /\ ws' = ws
    BY DEF Follows, IInv, RequestInv
  <1>2. \A v \in Workspaces : v # ws[t] => status'[v] = status[v]
    BY DEF Follows, IInv, TypeOK
  <1>3. \A u \in Reqs : u # t => pc'[u] = pc[u]
    BY DEF Follows, IInv, TypeOK
  <1>4. pc'[t] # "idle" => Expects(pc'[t], status'[ws[t]])
    BY DEF Follows, IInv, TypeOK
  <1>5. ASSUME NEW u \in Reqs, u # t, pc'[u] # "idle"
        PROVE  Expects(pc'[u], status'[ws[u]])
    <2>1. pc'[u] = pc[u] /\ pc[u] # "idle"
      BY <1>3, <1>5
    <2>2. ws[u] # ws[t] /\ ws[u] \in Workspaces
      BY <1>5, <2>1 DEF OneRequestPerWorkspace, Follows, IInv, RequestInv
    <2>3. Expects(pc[u], status[ws[u]])
      BY <2>1 DEF SerialInv
    <2> QED BY <1>2, <2>1, <2>2, <2>3
  <1> QED BY <1>1, <1>4, <1>5 DEF SerialInv

LEMMA SetStatusFollows ==
  ASSUME IInv, NEW t \in Reqs, NEW s \in WorkspaceStatus, NEW step \in Steps,
         pc[t] # "idle", SetStatus(t, s, step), UNCHANGED << ws, sweep >>,
         CanTransition(status[ws[t]], s), step # "idle" => Expects(step, s)
  PROVE  Follows(t)
  <1>1. ws[t] \in Workspaces
    BY DEF IInv, RequestInv
  <1>2. CASE status' = status /\ pc' = [pc EXCEPT ![t] = "idle"]
    BY <1>2 DEF Follows, Steps
  <1>3. CASE /\ Exists(t) /\ status' = [status EXCEPT ![ws[t]] = s]
             /\ pc' = [pc EXCEPT ![t] = "idle"] \/ pc' = [pc EXCEPT ![t] = step]
    <2>1. status'[ws[t]] = s /\ status[ws[t]] # "none"
      BY <1>1, <1>3 DEF IInv, TypeOK, Exists
    <2>2. \E q \in Steps : pc' = [pc EXCEPT ![t] = q] /\ (q # "idle" => Expects(q, s))
      BY <1>3 DEF Steps
    <2> QED BY <1>3, <2>1, <2>2 DEF Follows
  <1> QED BY <1>2, <1>3, SetStatusEffect

LEMMA MergePersistFollows ==
  ASSUME IInv, NEW t \in Reqs, NEW s \in WorkspaceStatus \cup {"none"}, NEW attempt,
         pc[t] # "idle", MergePersist(t, s, attempt),
         s # "none" => CanTransition(status[ws[t]], s)
  PROVE  Follows(t)
  <1>1. /\ pc' = [pc EXCEPT ![t] = "idle"] /\ UNCHANGED << localVars, worldVars >>
        /\ \/ status' = status
           \/ Exists(t) /\ s # "none" /\ status' = [status EXCEPT ![ws[t]] = s]
    BY MergePersistEffect
  <1> QED BY <1>1 DEF Follows, Exists, Steps, localVars, worldVars

LEMMA HandleFollows ==
  ASSUME IInv, SerialInv, NEW t \in Reqs, Handle(t)
  PROVE  Follows(t)
  <1>1. Expects(pc[t], status[ws[t]]) \/ pc[t] = "idle"
    BY DEF SerialInv
  <1>2. CASE CreateInsert(t)
    <2>1. status[ws[t]] = "none" /\ pc[t] # "idle" /\ UNCHANGED << ws, sweep >>
      BY <1>2 DEF CreateInsert, IInv, RequestInv, localVars, worldVars
    <2>2. status' = status \/ status' = [status EXCEPT ![ws[t]] = "queued"]
      BY <1>2 DEF CreateInsert
    <2>3. \E q \in {"prepare.load", "idle"} : pc' = [pc EXCEPT ![t] = q]
      BY <1>2 DEF CreateInsert, Goto
    <2>4. Expects("prepare.load", status'[ws[t]]) /\ {"prepare.load", "idle"} \subseteq Steps
      BY DEF Expects, MergeSteps, Steps
    <2> QED BY <2>1, <2>2, <2>3, <2>4 DEF Follows
  <1>3. CASE PrepareLoad(t) \/ CompleteLoad(t) \/ CancelLoad(t) \/ MergeLoad(t)
    <2>1. pc[t] # "idle" /\ UNCHANGED << status, ws, sweep >>
      BY <1>3 DEF PrepareLoad, CompleteLoad, CancelLoad, MergeLoad, localVars, worldVars
    <2>2. \/ pc' = [pc EXCEPT ![t] = "idle"]
          \/ pc' = [pc EXCEPT ![t] = "prepare.preparing"] /\ CanTransition(status[ws[t]], "preparing")
          \/ pc' = [pc EXCEPT ![t] = "complete.write"] /\ CanTransition(status[ws[t]], "completed")
          \/ pc' = [pc EXCEPT ![t] = "cancel.remove"] /\ CanTransition(status[ws[t]], "cancelled")
          \/ pc' = [pc EXCEPT ![t] = "cancel.write"] /\ CanTransition(status[ws[t]], "cancelled")
          \/ /\ pc' = [pc EXCEPT ![t] = "merge.tree"]
             /\ status[ws[t]] \in {"completed", "resolving_conflict"}
      BY <1>3, Zenon DEF PrepareLoad, CompleteLoad, CancelLoad, MergeLoad, Goto
    <2>3. \E q \in Steps : pc' = [pc EXCEPT ![t] = q] /\ (q # "idle" => Expects(q, status[ws[t]]))
      BY <2>2 DEF Expects, MergeSteps, Steps
    <2> QED BY <2>1, <2>3 DEF Follows
  <1>4. CASE PreparePreparing(t)
    <2>1. CanTransition(status[ws[t]], "preparing")
      BY <1>1, <1>4 DEF PreparePreparing, Expects
    <2> QED BY <1>4, <2>1, SetStatusFollows
            DEF PreparePreparing, Expects, MergeSteps, Steps, WorkspaceStatus, localVars, worldVars
  <1>5. CASE PrepareAdd(t)
    <2>1. status[ws[t]] = "preparing"
      BY <1>1, <1>5 DEF PrepareAdd, Expects
    <2>2. \E q \in {"prepare.branch", "prepare.failed"} : pc' = [pc EXCEPT ![t] = q]
      BY <1>5 DEF PrepareAdd, Goto
    <2> QED BY <1>5, <2>1, <2>2
            DEF PrepareAdd, Follows, Expects, MergeSteps, Steps, localVars, worldVars
  <1>6. CASE PrepareFailed(t)
    <2>1. status[ws[t]] = "preparing"
      BY <1>1, <1>6 DEF PrepareFailed, Expects
    <2>2. CanTransition("preparing", "failed")
      BY DEF CanTransition, allowedTransitions, WorkspaceStatus
    <2> QED BY <1>6, <2>1, <2>2, SetStatusFollows
            DEF PrepareFailed, Steps, WorkspaceStatus, localVars, worldVars
  <1>7. CASE PrepareBranch(t)
    <2>1. status[ws[t]] = "preparing"
      BY <1>1, <1>7 DEF PrepareBranch, Expects
    <2>2. \E q \in {"prepare.idle", "idle"} : pc' = [pc EXCEPT ![t] = q]
      BY <1>7 DEF PrepareBranch, Goto
    <2> QED BY <1>7, <2>1, <2>2
            DEF PrepareBranch, Follows, Expects, MergeSteps, Steps, localVars, worldVars
  <1>8. CASE PrepareIdle(t)
    <2>1. status[ws[t]] = "preparing"
      BY <1>1, <1>8 DEF PrepareIdle, Expects
    <2>2. CanTransition("preparing", "idle")
      BY DEF CanTransition, allowedTransitions, WorkspaceStatus
    <2>3. status' = status \/ status' = [status EXCEPT ![ws[t]] = "idle"]
      BY <1>8 DEF PrepareIdle
    <2> QED BY <1>8, <2>1, <2>2, <2>3
            DEF PrepareIdle, Goto, Follows, Steps, WorkspaceStatus, localVars, worldVars
  <1>9. CASE CompleteWrite(t)
    <2>1. CanTransition(status[ws[t]], "completed")
      BY <1>1, <1>9 DEF CompleteWrite, Expects
    <2> QED BY <1>9, <2>1, SetStatusFollows
            DEF CompleteWrite, Steps, WorkspaceStatus, localVars, worldVars
  <1>10. CASE CancelRemove(t)
    <2>1. CanTransition(status[ws[t]], "cancelled")
      BY <1>1, <1>10 DEF CancelRemove, Expects
    <2> QED BY <1>10, <2>1
            DEF CancelRemove, Goto, Follows, Expects, MergeSteps, Steps, localVars, worldVars
  <1>11. CASE CancelWrite(t)
    <2>1. CanTransition(status[ws[t]], "cancelled")
      BY <1>1, <1>11 DEF CancelWrite, Expects
    <2> QED BY <1>11, <2>1, SetStatusFollows
            DEF CancelWrite, Steps, WorkspaceStatus, localVars, worldVars
  <1>12. CASE MergeTree(t) \/ UpdateBranch(t)
    <2>1. pc[t] # "idle" /\ UNCHANGED << status, ws, sweep >>
      BY <1>12 DEF MergeTree, UpdateBranch, localVars, worldVars
    <2>2. status[ws[t]] \in {"completed", "resolving_conflict"}
      BY <1>1, <1>12 DEF MergeTree, UpdateBranch, Expects, MergeSteps
    <2>3. \E q \in {"merge.update", "merge.conflict", "merge.merged", "idle"} :
            pc' = [pc EXCEPT ![t] = q]
      BY <1>12 DEF MergeTree, UpdateBranch, Goto
    <2> QED BY <2>1, <2>2, <2>3 DEF Follows, Expects, MergeSteps, Steps
  <1>13. CASE MergeMerged(t) \/ MergeConflict(t)
    <2>1. status[ws[t]] \in {"completed", "resolving_conflict"} /\ pc[t] # "idle"
      BY <1>1, <1>13 DEF MergeMerged, MergeConflict, Expects, MergeSteps
    <2>2. \A s \in {"merged", "conflict_stuck"} : CanTransition(status[ws[t]], s)
      BY <2>1 DEF CanTransition, allowedTransitions, WorkspaceStatus
    <2>3. PICK s \in {"merged", "conflict_stuck", "none"}, attempt \in Nat :
            MergePersist(t, s, attempt)
      <3>1. row[t].pending + 1 \in Nat
        BY DEF IInv, TypeOK, MaxAutoMergeAttempts
      <3> QED BY <1>13, <3>1, Zenon, SMT DEF MergeMerged, MergeConflict
    <2> QED BY <2>1, <2>2, <2>3, MergePersistFollows DEF WorkspaceStatus
  <1> QED BY <1>2, <1>3, <1>4, <1>5, <1>6, <1>7, <1>8, <1>9, <1>10, <1>11, <1>12, <1>13
          DEF Handle

LEMMA SerialStep ==
  ASSUME IInv, SerialInv, OneRequestPerWorkspace, [Next]_vars
  PROVE  SerialInv'
  <1>1. ASSUME NEW t \in Reqs, Handle(t) PROVE SerialInv'
    BY <1>1, HandleFollows, FollowsSerial
  <1>2. ASSUME NEW t \in Reqs, NEW op \in Ops, NEW w \in Workspaces, Request(t, op, w)
        PROVE  SerialInv'
    <2>1. /\ UNCHANGED << status, sweep >> /\ sweep = {}
          /\ ws' = [ws EXCEPT ![t] = w]
          /\ \E q : pc' = [pc EXCEPT ![t] = q]
      BY <1>2 DEF Request, Goto, worldVars
    <2>2. pc'[t] \in {"create.insert", "complete.load", "cancel.load", "merge.load"}
      BY <1>2, RequestTarget
    <2>3. Expects(pc'[t], status'[ws'[t]])
      BY <2>2 DEF Expects, MergeSteps
    <2>4. \A u \in Reqs : u # t => pc'[u] = pc[u] /\ ws'[u] = ws[u]
      BY <2>1 DEF IInv, TypeOK
    <2> QED BY <2>1, <2>3, <2>4 DEF SerialInv
  <1>3. ASSUME NEW w \in Workspaces, SweepRow(w) PROVE SerialInv'
    <2>1. \A t \in Reqs : pc[t] = "idle"
      BY <1>3 DEF SweepRow, IInv, RequestInv
    <2>2. \A v \in Workspaces : v # w => status'[v] = status[v]
      BY <1>3 DEF SweepRow, IInv, TypeOK
    <2>3. pc' = pc /\ sweep' = sweep \ {w} /\ sweep \subseteq Workspaces
      BY <1>3 DEF SweepRow, IInv, TypeOK
    <2> QED BY <2>1, <2>2, <2>3 DEF SerialInv
  <1>4. CASE Crash
    BY <1>4 DEF Crash, SerialInv
  <1>5. ASSUME UNCHANGED << status, pc, ws, sweep >> PROVE SerialInv'
    BY <1>5 DEF SerialInv
  <1>6. ASSUME NEW t \in Reqs, Disconnect(t) PROVE SerialInv'
    BY <1>5, <1>6 DEF Disconnect, localVars, worldVars
  <1>7. ASSUME NEW w \in Workspaces, Commit(w) \/ Resolve(w) PROVE SerialInv'
    BY <1>5, <1>7 DEF Commit, Resolve, localVars, worldVars
  <1>8. ASSUME NEW c \in UserChanges, UserCommit(c) PROVE SerialInv'
    BY <1>5, <1>8 DEF UserCommit, localVars, worldVars
  <1>9. CASE Tick \/ UNCHANGED vars
    BY <1>5, <1>9 DEF Tick, vars, localVars, worldVars
  <1> QED BY <1>1, <1>2, <1>3, <1>4, <1>6, <1>7, <1>8, <1>9 DEF Next

LEMMA InitSerial == Init => SerialInv
  BY DEF Init, SerialInv

\* While the requests of each workspace come one after the other, what a handler
\* has checked holds when it writes, however the rest of the server runs.
THEOREM SerialInvariance == Spec /\ []OneRequestPerWorkspace => []SerialInv
  <1>1. SerialInv /\ IInv /\ OneRequestPerWorkspace /\ [Next]_vars => SerialInv'
    BY SerialStep
  <1> QED BY <1>1, InitSerial, ManagerInvariance, PTL DEF Spec

-----------------------------------------------------------------------------
(***************************************************************************)
(* The status column implements WorkspaceLifecycle.                        *)
(***************************************************************************)

\* The status a reader of the lifecycle sees: a row to come counts as queued.
Shown == [w \in Workspaces |-> IF status[w] = "none" THEN "queued" ELSE status[w]]

LEMMA SameTable ==
  /\ Lifecycle!WorkspaceStatus = WorkspaceStatus
  /\ \A from, to : Lifecycle!CanTransition(from, to) <=> CanTransition(from, to)
  /\ \A s : Lifecycle!IsTerminal(s) <=> IsTerminal(s)
  BY DEF Lifecycle!WorkspaceStatus, WorkspaceStatus, Lifecycle!CanTransition, CanTransition,
         Lifecycle!allowedTransitions, allowedTransitions, Lifecycle!IsTerminal, IsTerminal

LEMMA InitLifecycle == Init => Lifecycle!Init
  BY DEF Init, Lifecycle!Init

\* A status that moves and one that does not.
LEMMA ShownMoves ==
  ASSUME IInv, NEW w \in Workspaces, NEW s \in WorkspaceStatus, status[w] # "none",
         status' = [status EXCEPT ![w] = s]
  PROVE  Shown' = [Shown EXCEPT ![w] = s] /\ Shown[w] = status[w]
  <1>1. s # "none"
    BY DEF WorkspaceStatus
  <1>2. \A v \in Workspaces : status'[v] = IF v = w THEN s ELSE status[v]
    BY DEF IInv, TypeOK
  <1> QED BY <1>1, <1>2 DEF Shown

LEMMA LifecycleTransition ==
  ASSUME IInv, NEW w \in Workspaces, NEW s \in WorkspaceStatus, status[w] # "none",
         CanTransition(status[w], s), status' = [status EXCEPT ![w] = s]
  PROVE  Lifecycle!Next
  <1>1. Shown' = [Shown EXCEPT ![w] = s] /\ Shown[w] = status[w]
    BY ShownMoves
  <1>2. Lifecycle!Transition(w, s)
    BY <1>1, SameTable DEF Lifecycle!Transition, Shown
  <1> QED BY <1>2, SameTable DEF Lifecycle!Next

LEMMA LifecycleForced ==
  ASSUME IInv, SerialInv, NEW w \in Workspaces, SweepRow(w)
  PROVE  Lifecycle!Next
  <1>1. /\ status[w] \in Swept /\ status' = [status EXCEPT ![w] = "failed"]
        /\ status[w] # "none"
    BY DEF SweepRow, SerialInv, Swept
  <1>2. "failed" \in WorkspaceStatus
    BY DEF WorkspaceStatus
  <1>3. Shown' = [Shown EXCEPT ![w] = "failed"] /\ Shown[w] = status[w]
    BY <1>1, <1>2, ShownMoves
  <1>4. ~IsTerminal(status[w])
    BY <1>1 DEF IsTerminal, Swept
  <1>5. Lifecycle!ForceFailed(w)
    BY <1>3, <1>4, SameTable DEF Lifecycle!ForceFailed, Shown
  <1> QED BY <1>5 DEF Lifecycle!Next

LEMMA LifecycleHandle ==
  ASSUME IInv, NEW t \in Reqs, Follows(t)
  PROVE  Lifecycle!Next \/ Shown' = Shown
  <1>1. ws[t] \in Workspaces
    BY DEF Follows, IInv, RequestInv
  <1>2. CASE status' = status
    BY <1>2 DEF Shown
  <1>3. CASE status[ws[t]] = "none" /\ status' = [status EXCEPT ![ws[t]] = "queued"]
    <2>1. \A v \in Workspaces : status'[v] = IF v = ws[t] THEN "queued" ELSE status[v]
      BY <1>3 DEF IInv, TypeOK
    <2> QED BY <1>3, <2>1 DEF Shown
  <1>4. CASE /\ status[ws[t]] # "none"
             /\ \E s \in WorkspaceStatus :
                  CanTransition(status[ws[t]], s) /\ status' = [status EXCEPT ![ws[t]] = s]
    BY <1>1, <1>4, LifecycleTransition
  <1> QED BY <1>2, <1>3, <1>4 DEF Follows

LEMMA LifecycleStep ==
  ASSUME IInv, SerialInv, [Next]_vars
  PROVE  Lifecycle!Next \/ Shown' = Shown
  <1>1. ASSUME status' = status PROVE Shown' = Shown
    BY <1>1 DEF Shown
  <1>2. ASSUME NEW t \in Reqs, Handle(t) PROVE Lifecycle!Next \/ Shown' = Shown
    BY <1>2, HandleFollows, LifecycleHandle
  <1>3. CASE Crash \/ Tick \/ UNCHANGED vars
    BY <1>1, <1>3 DEF Crash, Tick, vars
  <1>4. ASSUME NEW w \in Workspaces, Commit(w) \/ Resolve(w) PROVE Shown' = Shown
    BY <1>1, <1>4 DEF Commit, Resolve
  <1>5. ASSUME NEW c \in UserChanges, UserCommit(c) PROVE Shown' = Shown
    BY <1>1, <1>5 DEF UserCommit
  <1>6. ASSUME NEW t \in Reqs, Disconnect(t) PROVE Shown' = Shown
    BY <1>1, <1>6 DEF Disconnect
  <1>7. ASSUME NEW t \in Reqs, NEW op \in Ops, NEW w \in Workspaces, Request(t, op, w)
        PROVE  Shown' = Shown
    BY <1>1, <1>7 DEF Request
  <1> QED BY <1>2, <1>3, <1>4, <1>5, <1>6, <1>7, LifecycleForced DEF Next

\* While the requests of each workspace come one after the other, the status
\* column moves along allowedTransitions or is forced to failed, whatever
\* clients leave, git commands fail and crashes come in between.
THEOREM ManagerFollowsLifecycle == Spec /\ []OneRequestPerWorkspace => FollowsLifecycle
  <1>1. IInv /\ SerialInv /\ [Next]_vars => [Lifecycle!Next]_Shown
    BY LifecycleStep
  <1> QED BY <1>1, InitLifecycle, ManagerInvariance, SerialInvariance, PTL
          DEF Spec, FollowsLifecycle, Lifecycle!Spec, Shown

-----------------------------------------------------------------------------
(***************************************************************************)
(* Merges that do not overlap.                                             *)
(***************************************************************************)

\* A branch has what its merge base has, so the three-way merge of a branch has
\* what the target has; what is merged stays, also in a merge in progress.
MergeInv ==
  /\ \A n \in Names : base[n] \subseteq tree[n]
  /\ \A w \in Workspaces : status[w] = "merged" =>
       /\ delivered[w] \subseteq target
       /\ \A t \in Reqs : pc[t] = "merge.update" => delivered[w] \subseteq merged[t]
  /\ \A t \in Reqs : pc[t] = "merge.merged" => delivered[ws[t]] \subseteq target

\* A three-way merge keeps the target, as long as the branch keeps its base.
LEMMA ThreeWayKeeps ==
  ASSUME NEW n \in Names, base[n] \subseteq tree[n]
  PROVE  target \subseteq ThreeWay(n)
  BY DEF ThreeWay

\* A step that merges nothing and delivers nothing.
LEMMA MergeInvQuiet ==
  ASSUME IInv, MergeInv,
         \A n \in Names : base'[n] \subseteq tree'[n],
         target \subseteq target', UNCHANGED delivered,
         \A w \in Workspaces : status'[w] = "merged" =>
           status[w] = "merged" \/ delivered[w] \subseteq target,
         \A t \in Reqs : pc'[t] \in {"merge.update", "merge.merged"} =>
           pc'[t] = pc[t] /\ merged'[t] = merged[t] /\ ws'[t] = ws[t],
         \A w \in Workspaces, t \in Reqs :
           status'[w] = "merged" /\ pc'[t] = "merge.update" => status[w] = "merged"
  PROVE  MergeInv'
  BY DEF MergeInv

\* The steps of a handler that set a status other than merged.
LEMMA MergeInvStatus ==
  ASSUME IInv, MergeInv, NEW t \in Reqs, NEW s \in WorkspaceStatus \ {"merged"},
         status' = status \/ status' = [status EXCEPT ![ws[t]] = s],
         \E q \in Steps \ {"merge.update", "merge.merged"} : pc' = [pc EXCEPT ![t] = q],
         UNCHANGED << target, tree, base, delivered, ws, merged >>
  PROVE  MergeInv'
  <1>1. \A w \in Workspaces : status'[w] = "merged" => status[w] = "merged"
    BY DEF IInv, TypeOK
  <1>2. \A u \in Reqs : pc'[u] \in {"merge.update", "merge.merged"} => pc'[u] = pc[u]
    BY DEF IInv, TypeOK
  <1>3. \A n \in Names : base'[n] \subseteq tree'[n]
    BY DEF MergeInv
  <1> QED BY <1>1, <1>2, <1>3, MergeInvQuiet

LEMMA MergeInvTree ==
  ASSUME IInv, MergeInv, NEW t \in Reqs, MergeTree(t)
  PROVE  MergeInv'
  <1> DEFINE n == branch[ws[t]]
  <1>1. /\ UNCHANGED << status, target, tree, base, ws, delivered >>
        /\ n \in branches => n \in Names
    BY DEF MergeTree, repoVars, IInv, TypeOK
  <1>2. CASE pc' = [pc EXCEPT ![t] = "merge.conflict"] \/ pc' = [pc EXCEPT ![t] = "idle"]
    <2>1. UNCHANGED merged
      BY <1>2 DEF MergeTree, Goto, IInv, TypeOK
    <2> QED BY <1>1, <1>2, <2>1, MergeInvStatus DEF Steps, WorkspaceStatus
  <1>3. CASE /\ n \in branches /\ merged' = [merged EXCEPT ![t] = ThreeWay(n)]
             /\ pc' = [pc EXCEPT ![t] = "merge.update"]
    <2>1. target \subseteq ThreeWay(n)
      BY <1>1, <1>3, ThreeWayKeeps DEF MergeInv
    <2>2. \A u \in Reqs : pc'[u] = "merge.update" =>
            merged'[u] = IF u = t THEN ThreeWay(n) ELSE merged[u]
      BY <1>3 DEF IInv, TypeOK
    <2>3. \A u \in Reqs : u # t => pc'[u] = pc[u]
      BY <1>3 DEF IInv, TypeOK
    <2>4. pc'[t] = "merge.update"
      BY <1>3 DEF IInv, TypeOK
    <2> QED BY <1>1, <2>1, <2>2, <2>3, <2>4 DEF MergeInv
  <1> QED BY <1>2, <1>3 DEF MergeTree, Goto

LEMMA MergeInvUpdate ==
  ASSUME IInv, MergeInv, OneMerge, NEW t \in Reqs, UpdateBranch(t)
  PROVE  MergeInv'
  <1>1. /\ UNCHANGED << status, tree, base, ws, merged >>
        /\ pc[t] = "merge.update" /\ ws[t] \in Workspaces
    BY DEF UpdateBranch, localVars, IInv, RequestInv
  <1>2. CASE pc' = [pc EXCEPT ![t] = "idle"] /\ UNCHANGED << target, delivered >>
    <2>1. "queued" \in WorkspaceStatus \ {"merged"}
      BY DEF WorkspaceStatus
    <2>2. \E q \in Steps \ {"merge.update", "merge.merged"} : pc' = [pc EXCEPT ![t] = q]
      BY <1>2 DEF Steps
    <2> QED BY <1>1, <1>2, <2>1, <2>2, MergeInvStatus
  <1>3. CASE /\ target' = merged[t] /\ delivered' = [delivered EXCEPT ![ws[t]] = merged[t]]
             /\ pc' = [pc EXCEPT ![t] = "merge.merged"]
    <2>1. \A u \in Reqs : pc'[u] \in {"merge.update", "merge.merged"} => u = t
      BY <1>1, <1>3 DEF OneMerge, MergeSteps, IInv, TypeOK
    <2>2. pc'[t] = "merge.merged"
      BY <1>3 DEF IInv, TypeOK
    <2>3. \A w \in Workspaces : delivered'[w] = IF w = ws[t] THEN merged[t] ELSE delivered[w]
      BY <1>3 DEF IInv, TypeOK
    <2> QED BY <1>1, <1>3, <2>1, <2>2, <2>3 DEF MergeInv
  <1> QED BY <1>2, <1>3 DEF UpdateBranch, Goto

LEMMA MergeInvMerged ==
  ASSUME IInv, MergeInv, OneMerge, NEW t \in Reqs, MergeMerged(t)
  PROVE  MergeInv'
  <1>1. /\ pc' = [pc EXCEPT ![t] = "idle"] /\ pc[t] = "merge.merged"
        /\ UNCHANGED << target, tree, base, delivered, ws, merged >>
        /\ status' = status \/ status' = [status EXCEPT ![ws[t]] = "merged"]
    BY MergePersistEffect DEF MergeMerged, repoVars, localVars, historyVars
  <1>2. \A w \in Workspaces : status'[w] = "merged" => status[w] = "merged" \/ w = ws[t]
    BY <1>1 DEF IInv, TypeOK
  <1>3. delivered[ws[t]] \subseteq target
    BY <1>1 DEF MergeInv
  <1>4. \A u \in Reqs : pc'[u] # "merge.update"
    BY <1>1 DEF OneMerge, MergeSteps, IInv, TypeOK
  <1>5. \A u \in Reqs : pc'[u] = "merge.merged" => pc'[u] = pc[u]
    BY <1>1 DEF IInv, TypeOK
  <1>6. \A n \in Names : base'[n] \subseteq tree'[n]
    BY <1>1 DEF MergeInv
  <1> QED BY <1>1, <1>2, <1>3, <1>4, <1>5, <1>6, MergeInvQuiet

LEMMA MergeInvHandle ==
  ASSUME IInv, MergeInv, OneMerge, NEW t \in Reqs, Handle(t)
  PROVE  MergeInv'
  <1> USE DEF rowVars, repoVars, localVars, worldVars, historyVars
  <1> DEFINE Quietly(s) ==
               /\ status' = status \/ status' = [status EXCEPT ![ws[t]] = s]
               /\ \E q \in Steps \ {"merge.update", "merge.merged"} : pc' = [pc EXCEPT ![t] = q]
               /\ UNCHANGED << target, tree, base, delivered, ws, merged >>
  <1>1. ASSUME NEW s \in WorkspaceStatus \ {"merged"}, Quietly(s) PROVE MergeInv'
    BY <1>1, MergeInvStatus
  <1>2. CASE CreateInsert(t)
    <2>1. Quietly("queued")
      BY <1>2 DEF CreateInsert, Goto, Steps
    <2> QED BY <1>1, <2>1 DEF WorkspaceStatus
  <1>3. CASE PrepareLoad(t) \/ CompleteLoad(t) \/ CancelLoad(t) \/ MergeLoad(t)
    <2>1. \E q \in Steps \ {"merge.update", "merge.merged"} : pc' = [pc EXCEPT ![t] = q]
      BY <1>3 DEF PrepareLoad, CompleteLoad, CancelLoad, MergeLoad, Goto, Steps
    <2>2. Quietly("queued")
      BY <1>3, <2>1 DEF PrepareLoad, CompleteLoad, CancelLoad, MergeLoad
    <2> QED BY <1>1, <2>2 DEF WorkspaceStatus
  <1>4. CASE PreparePreparing(t)
    <2>1. Quietly("preparing")
      BY <1>4, SetStatusEffect DEF PreparePreparing, Steps
    <2> QED BY <1>1, <2>1 DEF WorkspaceStatus
  <1>5. CASE PrepareFailed(t)
    <2>1. Quietly("failed")
      BY <1>5, SetStatusEffect DEF PrepareFailed, Steps
    <2> QED BY <1>1, <2>1 DEF WorkspaceStatus
  <1>6. CASE CompleteWrite(t)
    <2>1. Quietly("completed")
      BY <1>6, SetStatusEffect DEF CompleteWrite, Steps
    <2> QED BY <1>1, <2>1 DEF WorkspaceStatus
  <1>7. CASE CancelWrite(t)
    <2>1. Quietly("cancelled")
      BY <1>7, SetStatusEffect DEF CancelWrite, Steps
    <2> QED BY <1>1, <2>1 DEF WorkspaceStatus
  <1>8. CASE PrepareBranch(t) \/ CancelRemove(t)
    <2>1. \E q \in Steps \ {"merge.update", "merge.merged"} : pc' = [pc EXCEPT ![t] = q]
      BY <1>8 DEF PrepareBranch, CancelRemove, Goto, Steps
    <2>2. Quietly("queued")
      BY <1>8, <2>1 DEF PrepareBranch, CancelRemove
    <2> QED BY <1>1, <2>2 DEF WorkspaceStatus
  <1>9. CASE PrepareIdle(t)
    <2>1. Quietly("idle")
      BY <1>9 DEF PrepareIdle, Goto, Steps
    <2> QED BY <1>1, <2>1 DEF WorkspaceStatus
  <1>10. CASE MergeConflict(t)
    <2>1. PICK s \in {"none", "conflict_stuck"}, attempt \in Nat : MergePersist(t, s, attempt)
      <3>1. row[t].pending + 1 \in Nat
        BY DEF IInv, TypeOK, MaxAutoMergeAttempts
      <3> QED BY <1>10, <3>1, Zenon, SMT DEF MergeConflict
    <2>2. Quietly("conflict_stuck")
      <3>1. status' = status \/ status' = [status EXCEPT ![ws[t]] = "conflict_stuck"]
        BY <2>1, MergePersistEffect
      <3>2. /\ pc' = [pc EXCEPT ![t] = "idle"]
            /\ UNCHANGED << target, tree, base, delivered, ws, merged >>
        BY <2>1, MergePersistEffect
      <3> QED BY <3>1, <3>2 DEF Steps
    <2> QED BY <1>1, <2>2 DEF WorkspaceStatus
  <1>11. CASE PrepareAdd(t)
    <2>1. /\ UNCHANGED << status, target, delivered, ws, merged >>
          /\ \E q \in Steps \ {"merge.update", "merge.merged"} : pc' = [pc EXCEPT ![t] = q]
      BY <1>11 DEF PrepareAdd, Goto, Steps
    <2>2. \A n \in Names : base'[n] \subseteq tree'[n]
      BY <1>11 DEF PrepareAdd, MergeInv, IInv, TypeOK
    <2>3. \A u \in Reqs : pc'[u] \in {"merge.update", "merge.merged"} => pc'[u] = pc[u]
      BY <2>1 DEF IInv, TypeOK
    <2> QED BY <2>1, <2>2, <2>3, MergeInvQuiet
  <1> QED BY <1>2, <1>3, <1>4, <1>5, <1>6, <1>7, <1>8, <1>9, <1>10, <1>11, MergeInvTree,
             MergeInvUpdate, MergeInvMerged DEF Handle

LEMMA MergeInvStep ==
  ASSUME IInv, MergeInv, OneMerge, [Next]_vars
  PROVE  MergeInv'
  <1> USE DEF rowVars, repoVars, localVars, worldVars, historyVars
  <1>1. ASSUME UNCHANGED << status, pc, ws, merged, delivered >>, target \subseteq target',
               \A n \in Names : base'[n] \subseteq tree'[n]
        PROVE  MergeInv'
    BY <1>1, MergeInvQuiet
  <1>2. ASSUME NEW t \in Reqs, NEW op \in Ops, NEW w \in Workspaces, Request(t, op, w)
        PROVE  MergeInv'
    <2>1. /\ UNCHANGED << status, target, tree, base, delivered >>
          /\ ws' = [ws EXCEPT ![t] = w] /\ merged' = [merged EXCEPT ![t] = {}]
          /\ \E q : pc' = [pc EXCEPT ![t] = q]
      BY <1>2 DEF Request, Goto
    <2>2. pc'[t] \notin {"merge.update", "merge.merged"}
      BY <1>2, RequestTarget
    <2>3. \A u \in Reqs : u # t => pc'[u] = pc[u] /\ ws'[u] = ws[u] /\ merged'[u] = merged[u]
      BY <2>1 DEF IInv, TypeOK
    <2>4. \A n \in Names : base'[n] \subseteq tree'[n]
      BY <2>1 DEF MergeInv
    <2>5. \A u \in Reqs : pc'[u] \in {"merge.update", "merge.merged"} =>
            pc'[u] = pc[u] /\ merged'[u] = merged[u] /\ ws'[u] = ws[u]
      BY <2>2, <2>3
    <2> QED BY <2>1, <2>4, <2>5, MergeInvQuiet
  <1>3. ASSUME NEW w \in Workspaces, SweepRow(w) PROVE MergeInv'
    <2>1. \A v \in Workspaces : status'[v] = "merged" => status[v] = "merged"
      BY <1>3 DEF SweepRow, IInv, TypeOK
    <2>2. UNCHANGED << target, tree, base, delivered, pc, ws, merged >>
      BY <1>3 DEF SweepRow
    <2> QED BY <2>1, <2>2 DEF MergeInv
  <1>4. CASE Crash
    <2>1. /\ UNCHANGED << status, target, tree, base, delivered >>
          /\ \A t \in Reqs : pc'[t] = "idle"
      BY <1>4 DEF Crash
    <2> QED BY <2>1 DEF MergeInv
  <1>5. ASSUME NEW w \in Workspaces, Commit(w) PROVE MergeInv'
    <2>1. \A n \in Names : tree[n] \subseteq tree'[n]
      BY <1>5 DEF Commit, IInv, TypeOK
    <2> QED BY <1>1, <1>5, <2>1 DEF Commit, MergeInv
  <1>6. ASSUME NEW w \in Workspaces, Resolve(w) PROVE MergeInv'
    <2>1. born[w] \in Names
      BY <1>6 DEF Resolve, IInv, RequestInv, TypeOK
    <2>2. target \subseteq ThreeWay(born[w])
      BY <2>1, ThreeWayKeeps DEF MergeInv
    <2>3. \A n \in Names : base'[n] \subseteq tree'[n]
      BY <1>6, <2>1, <2>2 DEF Resolve, BranchIn, MergeInv, IInv, TypeOK
    <2> QED BY <1>1, <1>6, <2>3 DEF Resolve
  <1>7. ASSUME NEW c \in UserChanges, UserCommit(c) PROVE MergeInv'
    BY <1>1, <1>7 DEF UserCommit, MergeInv
  <1>8. ASSUME NEW t \in Reqs, Disconnect(t) PROVE MergeInv'
    BY <1>1, <1>8 DEF Disconnect, MergeInv
  <1>9. CASE Tick \/ UNCHANGED vars
    BY <1>1, <1>9 DEF Tick, vars, MergeInv
  <1> QED BY <1>2, <1>3, <1>4, <1>5, <1>6, <1>7, <1>8, <1>9, MergeInvHandle DEF Next

LEMMA InitMerge == Init => MergeInv
  BY DEF Init, MergeInv

\* While merges come one after the other, what the merge of a workspace wrote to
\* the target branch is still there, whatever users, agents and crashes do.
THEOREM MergedStays == Spec /\ []OneMerge => []MergedIsInTarget
  <1>1. IInv /\ MergeInv /\ OneMerge /\ [Next]_vars => MergeInv'
    BY MergeInvStep
  <1>2. MergeInv => MergedIsInTarget
    BY DEF MergeInv, MergedIsInTarget
  <1> QED BY <1>1, <1>2, InitMerge, ManagerInvariance, PTL DEF Spec
=============================================================================
