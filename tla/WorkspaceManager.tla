-------------------------- MODULE WorkspaceManager --------------------------
(***************************************************************************)
(* workspace.Manager (internal/workspace/manager.go) and the git it drives *)
(* (internal/git): the branch and worktree of a workspace, from its        *)
(* creation to the merge of its branch into the target branch.             *)
(*                                                                         *)
(* Handlers run concurrently; an SQL statement and a git command that      *)
(* changes the repository are one atomic step each.  The workspaces belong *)
(* to one project and share its repository and its target branch.          *)
(*                                                                         *)
(* The content of a commit is the set of changes in its tree.  A branch is *)
(* a tree and the tree of its merge base with the target: UpdateBranch     *)
(* gives its commit a single parent, so a merge does not move the base of  *)
(* any branch.                                                             *)
(***************************************************************************)
EXTENDS Naturals, WorkspaceState

CONSTANTS
  Workspaces,   \* workspace ids; also the change an agent makes in each one
  UserChanges,  \* changes users push to the target branch themselves
  Conflicts,    \* pairs of changes git cannot merge
  Reqs,         \* HTTP requests the server handles at the same time
  None,
  Ops,          \* the requests clients make
  Faults,       \* what the environment may do
  MaxWindow,    \* bound: windows of 1.024 s in which workspaces are created
  MaxCrashes    \* bound: crashes of the server

AllOps == {"create", "complete", "cancel", "merge"}

Changes == Workspaces \cup UserChanges

ASSUME WorkspaceManagerAssumption ==
  /\ Ops \subseteq AllOps
  /\ Faults \subseteq {"git", "disconnect"}
  /\ Conflicts \subseteq {{c, d} : c, d \in Changes}
  /\ None \notin Workspaces \cup Nat
  /\ MaxWindow \in Nat
  /\ MaxCrashes \in Nat

MaxAutoMergeAttempts == 2

MaxTries == MaxAutoMergeAttempts + 2   \* bound: of the history variable tries

Names == 0..MaxWindow

VARIABLES
  status,     \* workspaces.status; "none" before the row is inserted
  branch,     \* workspaces.branch
  path,       \* workspaces.worktree_path is set
  pending,    \* workspaces.pending_merge: its attempt, 0 when NULL
  born,       \* the window of the timestamp in the workspace's ULID
  target,     \* tree of the target branch
  tree,       \* tree of each branch
  base,       \* tree of the merge base of each branch and the target
  branches,   \* branches that exist
  worktrees,  \* worktrees that exist, one directory per workspace id
  pc,         \* next step of each request
  ws,         \* its workspace
  row,        \* the row it loaded: status and pending_merge
  merged,     \* the tree MergeTree returned to it
  gone,       \* requests whose client is gone
  window,     \* the current window
  sweep,      \* rows SweepOrphans has still to mark
  crashes,
  delivered,  \* history: what the merge of a workspace wrote to the target
  tries       \* history: conflicts reported to the clients of a workspace

rowVars == << branch, path, pending, born >>
repoVars == << target, tree, base, branches, worktrees >>
localVars == << ws, row, merged >>
worldVars == << window, sweep, crashes >>
historyVars == << delivered, tries >>

vars == << status, rowVars, repoVars, pc, localVars, gone, worldVars,
           historyVars >>

Steps ==
  {"idle", "create.insert", "prepare.load", "prepare.preparing", "prepare.add",
   "prepare.failed", "prepare.branch", "prepare.idle",
   "complete.load", "complete.write",
   "cancel.load", "cancel.remove", "cancel.write",
   "merge.load", "merge.tree", "merge.update", "merge.merged", "merge.conflict"}

TypeOK ==
  /\ status \in [Workspaces -> WorkspaceStatus \cup {"none"}]
  /\ branch \in [Workspaces -> Names \cup {None}]
  /\ path \in [Workspaces -> BOOLEAN]
  /\ pending \in [Workspaces -> 0..MaxAutoMergeAttempts]
  /\ born \in [Workspaces -> Names \cup {None}]
  /\ target \in SUBSET Changes
  /\ tree \in [Names -> SUBSET Changes]
  /\ base \in [Names -> SUBSET Changes]
  /\ branches \in SUBSET Names
  /\ worktrees \in SUBSET Workspaces
  /\ pc \in [Reqs -> Steps]
  /\ ws \in [Reqs -> Workspaces \cup {None}]
  /\ row \in [Reqs -> [status : WorkspaceStatus \cup {"none"},
                       pending : 0..MaxAutoMergeAttempts]]
  /\ merged \in [Reqs -> SUBSET Changes]
  /\ gone \in SUBSET Reqs
  /\ window \in Names
  /\ sweep \in SUBSET Workspaces
  /\ crashes \in 0..MaxCrashes
  /\ delivered \in [Workspaces -> SUBSET Changes]
  /\ tries \in [Workspaces -> 0..MaxTries]

NoRow == [status |-> "none", pending |-> 0]

Init ==
  /\ status = [w \in Workspaces |-> "none"]
  /\ branch = [w \in Workspaces |-> None]
  /\ path = [w \in Workspaces |-> FALSE]
  /\ pending = [w \in Workspaces |-> 0]
  /\ born = [w \in Workspaces |-> None]
  /\ target = {}
  /\ tree = [n \in Names |-> {}]
  /\ base = [n \in Names |-> {}]
  /\ branches = {}
  /\ worktrees = {}
  /\ pc = [t \in Reqs |-> "idle"]
  /\ ws = [t \in Reqs |-> None]
  /\ row = [t \in Reqs |-> NoRow]
  /\ merged = [t \in Reqs |-> {}]
  /\ gone = {}
  /\ window = 0
  /\ sweep = {}
  /\ crashes = 0
  /\ delivered = [w \in Workspaces |-> {}]
  /\ tries = [w \in Workspaces |-> 0]

-----------------------------------------------------------------------------
Goto(t, step) == pc' = [pc EXCEPT ![t] = step]

\* A statement with the request's context: it runs (ok), it does not run
\* because the client is gone, or it runs and the client goes away before the
\* row is read back.  written says whether the statement took effect.
Statement(t, ok, written) ==
  \/ t \notin gone /\ ok /\ written /\ UNCHANGED gone
  \/ t \in gone /\ ~ok /\ ~written /\ UNCHANGED gone
  \/ /\ t \notin gone /\ "disconnect" \in Faults
     /\ ~ok /\ written
     /\ gone' = gone \cup {t}

\* The row has been inserted and not been deleted with its project.
Exists(t) == status[ws[t]] # "none"

\* UpdateWorkspace: an error when there is no such row.
UpdateRow(t, ok, written) ==
  IF Exists(t) THEN Statement(t, ok, written)
  ELSE ~ok /\ ~written /\ UNCHANGED gone

\* UpdateWorkspace(ctx, w, {Status: s}), then the given step or an error return.
SetStatus(t, s, step) ==
  \E ok, written \in BOOLEAN :
    /\ UpdateRow(t, ok, written)
    /\ status' = IF written THEN [status EXCEPT ![ws[t]] = s] ELSE status
    /\ Goto(t, IF ok THEN step ELSE "idle")

Loaded(t) == t \notin gone /\ Exists(t)

LoadRow(t) ==
  row' = [row EXCEPT ![t] = [status |-> status[ws[t]], pending |-> pending[ws[t]]]]

\* branchName: the first 8 characters of the ULID, all of them timestamp.
branchName(w) == born[w]

Request(t, op, w) ==
  /\ sweep = {}
  /\ pc[t] = "idle"
  /\ IF op = "create"
     THEN /\ status[w] = "none"
          /\ \A r \in Reqs : ~(pc[r] = "create.insert" /\ ws[r] = w)
     ELSE status[w] # "none"
  /\ Goto(t, CASE op = "create"   -> "create.insert"
               [] op = "complete" -> "complete.load"
               [] op = "cancel"   -> "cancel.load"
               [] op = "merge"    -> "merge.load")
  /\ ws' = [ws EXCEPT ![t] = w]
  /\ row' = [row EXCEPT ![t] = NoRow]
  /\ merged' = [merged EXCEPT ![t] = {}]
  /\ gone' = gone \ {t}
  /\ UNCHANGED << status, rowVars, repoVars, worldVars, historyVars >>

Disconnect(t) ==
  /\ "disconnect" \in Faults
  /\ pc[t] # "idle" /\ t \notin gone
  /\ gone' = gone \cup {t}
  /\ UNCHANGED << status, rowVars, repoVars, pc, localVars, worldVars, historyVars >>

-----------------------------------------------------------------------------
(* handleCreateWorkspace: CreateWorkspace and then Prepare.                *)

\* INSERT with a new ULID and status queued.
CreateInsert(t) ==
  /\ pc[t] = "create.insert"
  /\ \E ok, written \in BOOLEAN :
       /\ Statement(t, ok, written)
       /\ IF written
          THEN /\ status' = [status EXCEPT ![ws[t]] = "queued"]
               /\ born' = [born EXCEPT ![ws[t]] = window]
          ELSE UNCHANGED << status, born >>
       /\ Goto(t, IF ok THEN "prepare.load" ELSE "idle")
  /\ UNCHANGED << branch, path, pending, repoVars, localVars, worldVars, historyVars >>

PrepareLoad(t) ==
  /\ pc[t] = "prepare.load"
  /\ LoadRow(t)
  /\ Goto(t, IF Loaded(t) /\ CanTransition(status[ws[t]], "preparing")
             THEN "prepare.preparing" ELSE "idle")
  /\ UNCHANGED << status, rowVars, repoVars, ws, merged, gone, worldVars, historyVars >>

PreparePreparing(t) ==
  /\ pc[t] = "prepare.preparing"
  /\ SetStatus(t, "preparing", "prepare.add")
  /\ UNCHANGED << rowVars, repoVars, localVars, worldVars, historyVars >>

\* Mutant: the branch is made again (-B) when it exists.
PrepareAdd_Reuses(t) ==
  /\ pc[t] = "prepare.add"
  /\ ws[t] \notin worktrees
  /\ branches' = branches \cup {branchName(ws[t])}
  /\ worktrees' = worktrees \cup {ws[t]}
  /\ tree' = [tree EXCEPT ![branchName(ws[t])] = target]
  /\ base' = [base EXCEPT ![branchName(ws[t])] = target]
  /\ Goto(t, "prepare.branch")
  /\ UNCHANGED << status, rowVars, target, localVars, gone, worldVars, historyVars >>

\* Mutant: the error of "git worktree add" leads to the given step.
PrepareAddThen(t, step) ==
  /\ pc[t] = "prepare.add"
  /\ LET n == branchName(ws[t]) IN
     \/ /\ n \notin branches /\ ws[t] \notin worktrees
        /\ branches' = branches \cup {n}
        /\ worktrees' = worktrees \cup {ws[t]}
        /\ tree' = [tree EXCEPT ![n] = target]
        /\ base' = [base EXCEPT ![n] = target]
        /\ Goto(t, "prepare.branch")
     \/ /\ n \in branches \/ ws[t] \in worktrees \/ "git" \in Faults
        /\ Goto(t, step)
        /\ UNCHANGED << branches, worktrees, tree, base >>
  /\ UNCHANGED << status, rowVars, target, localVars, gone, worldVars, historyVars >>

\* Mutant: the error is ignored.
PrepareAdd_Ignores(t) == PrepareAddThen(t, "prepare.branch")

\* Mutant: the error is returned and the row is left as it is.
PrepareAdd_Returns(t) == PrepareAddThen(t, "idle")

\* git worktree add -b: refused when the branch exists.
PrepareAdd(t) ==
  /\ pc[t] = "prepare.add"
  /\ LET n == branchName(ws[t]) IN
     \/ /\ n \notin branches /\ ws[t] \notin worktrees
        /\ branches' = branches \cup {n}
        /\ worktrees' = worktrees \cup {ws[t]}
        /\ tree' = [tree EXCEPT ![n] = target]
        /\ base' = [base EXCEPT ![n] = target]
        /\ Goto(t, "prepare.branch")
     \/ /\ n \in branches \/ ws[t] \in worktrees \/ "git" \in Faults
        /\ Goto(t, "prepare.failed")
        /\ UNCHANGED << branches, worktrees, tree, base >>
  /\ UNCHANGED << status, rowVars, target, localVars, gone, worldVars, historyVars >>

PrepareFailed(t) ==
  /\ pc[t] = "prepare.failed"
  /\ SetStatus(t, "failed", "idle")
  /\ UNCHANGED << rowVars, repoVars, localVars, worldVars, historyVars >>

\* Mutant: Prepare does not persist the branch.
PrepareBranch_Missing(t) ==
  /\ pc[t] = "prepare.branch"
  /\ Goto(t, "prepare.idle")
  /\ UNCHANGED << status, rowVars, repoVars, localVars, gone, worldVars, historyVars >>

\* A scoped UPDATE, which does not ask whether there was a row.
PrepareBranch(t) ==
  /\ pc[t] = "prepare.branch"
  /\ Goto(t, IF t \in gone THEN "idle" ELSE "prepare.idle")
  /\ branch' = IF Loaded(t) THEN [branch EXCEPT ![ws[t]] = branchName(ws[t])]
               ELSE branch
  /\ UNCHANGED << status, path, pending, born, repoVars, localVars, gone,
                  worldVars, historyVars >>

PrepareIdle(t) ==
  /\ pc[t] = "prepare.idle"
  /\ \E ok, written \in BOOLEAN :
       /\ UpdateRow(t, ok, written)
       /\ IF written
          THEN /\ status' = [status EXCEPT ![ws[t]] = "idle"]
               /\ path' = [path EXCEPT ![ws[t]] = TRUE]
          ELSE UNCHANGED << status, path >>
  /\ Goto(t, "idle")
  /\ UNCHANGED << branch, pending, born, repoVars, localVars, worldVars, historyVars >>

-----------------------------------------------------------------------------
(* agent.Manager.Complete: the status this module needs from the agent side. *)

CompleteLoad(t) ==
  /\ pc[t] = "complete.load"
  /\ Goto(t, IF Loaded(t) /\ CanTransition(status[ws[t]], "completed")
             THEN "complete.write" ELSE "idle")
  /\ UNCHANGED << status, rowVars, repoVars, localVars, gone, worldVars, historyVars >>

CompleteWrite(t) ==
  /\ pc[t] = "complete.write"
  /\ SetStatus(t, "completed", "idle")
  /\ UNCHANGED << rowVars, repoVars, localVars, worldVars, historyVars >>

-----------------------------------------------------------------------------
\* Mutant: Cancel does not check the transition to cancelled.
CancelLoad_AnyStatus(t) ==
  /\ pc[t] = "cancel.load"
  /\ Goto(t, IF Loaded(t)
             THEN IF path[ws[t]] THEN "cancel.remove" ELSE "cancel.write"
             ELSE "idle")
  /\ UNCHANGED << status, rowVars, repoVars, localVars, gone, worldVars, historyVars >>

CancelLoad(t) ==
  /\ pc[t] = "cancel.load"
  /\ Goto(t, IF Loaded(t) /\ CanTransition(status[ws[t]], "cancelled")
             THEN IF path[ws[t]] THEN "cancel.remove" ELSE "cancel.write"
             ELSE "idle")
  /\ UNCHANGED << status, rowVars, repoVars, localVars, gone, worldVars, historyVars >>

\* Cleanup: loads the row again and removes the worktree of its path, if it has
\* one (git worktree remove --force, idempotent); an error is logged only.
CancelRemove(t) ==
  /\ pc[t] = "cancel.remove"
  /\ \/ Loaded(t) /\ worktrees' = worktrees \ {ws[t]}
     \/ (~Loaded(t) \/ "git" \in Faults) /\ UNCHANGED worktrees
  /\ Goto(t, "cancel.write")
  /\ UNCHANGED << status, rowVars, target, tree, base, branches, localVars, gone,
                  worldVars, historyVars >>

\* Mutant: Cancel returns when it has cleaned up.
CancelWrite_Missing(t) ==
  /\ pc[t] = "cancel.write"
  /\ Goto(t, "idle")
  /\ UNCHANGED << status, rowVars, repoVars, localVars, gone, worldVars, historyVars >>

CancelWrite(t) ==
  /\ pc[t] = "cancel.write"
  /\ SetStatus(t, "cancelled", "idle")
  /\ UNCHANGED << rowVars, repoVars, localVars, worldVars, historyVars >>

-----------------------------------------------------------------------------
MergeLoad(t) ==
  /\ pc[t] = "merge.load"
  /\ LoadRow(t)
  /\ Goto(t, IF Loaded(t) /\ status[ws[t]] \in {"completed", "resolving_conflict"}
             THEN "merge.tree" ELSE "idle")
  /\ UNCHANGED << status, rowVars, repoVars, ws, merged, gone, worldVars, historyVars >>

\* The two sides changed things git cannot combine.
InConflict(n) ==
  \E c \in target \ base[n], d \in tree[n] \ base[n] : {c, d} \in Conflicts

\* What both sides have, and what either of them has added since the base.
ThreeWay(n) == (target \cap tree[n]) \cup (target \ base[n]) \cup (tree[n] \ base[n])

\* Mutant: the branch's own tree is taken for the merged one.
MergeTree_Theirs(t) ==
  /\ pc[t] = "merge.tree"
  /\ branch[ws[t]] \in branches
  /\ merged' = [merged EXCEPT ![t] = tree[branch[ws[t]]]]
  /\ Goto(t, "merge.update")
  /\ UNCHANGED << status, rowVars, repoVars, ws, row, gone, worldVars, historyVars >>

\* git merge-tree --write-tree: a three-way merge of the two tips.
MergeTree(t) ==
  /\ pc[t] = "merge.tree"
  /\ LET n == branch[ws[t]] IN
     \/ /\ n \in branches /\ ~InConflict(n)
        /\ merged' = [merged EXCEPT ![t] = ThreeWay(n)]
        /\ Goto(t, "merge.update")
        /\ UNCHANGED tries
     \/ /\ n \in branches /\ InConflict(n)
        /\ tries' = [tries EXCEPT ![ws[t]] = IF @ < MaxTries THEN @ + 1 ELSE @]
        /\ Goto(t, "merge.conflict")
        /\ UNCHANGED merged
     \/ /\ n \notin branches \/ "git" \in Faults
        /\ Goto(t, "idle")
        /\ UNCHANGED << merged, tries >>
  /\ UNCHANGED << status, rowVars, repoVars, ws, row, gone, worldVars, delivered >>

\* UpdateBranch: commit-tree of the merged tree on the current tip, update-ref.
UpdateBranch(t) ==
  /\ pc[t] = "merge.update"
  /\ \/ /\ target' = merged[t]
        /\ delivered' = [delivered EXCEPT ![ws[t]] = merged[t]]
        /\ Goto(t, "merge.merged")
     \/ /\ "git" \in Faults
        /\ Goto(t, "idle")
        /\ UNCHANGED << target, delivered >>
  /\ UNCHANGED << status, rowVars, tree, base, branches, worktrees, localVars, gone,
                  worldVars, tries >>

\* UpdateWorkspace with a status, when s is one, and the new pending_merge.
MergePersist(t, s, attempt) ==
  /\ \E ok, written \in BOOLEAN :
       /\ UpdateRow(t, ok, written)
       /\ status' = IF written /\ s # "none"
                    THEN [status EXCEPT ![ws[t]] = s] ELSE status
       /\ pending' = IF written
                     THEN [pending EXCEPT ![ws[t]] = attempt] ELSE pending
  /\ Goto(t, "idle")
  /\ UNCHANGED << branch, path, born, repoVars, localVars, worldVars, historyVars >>

MergeMerged(t) ==
  /\ pc[t] = "merge.merged"
  /\ MergePersist(t, "merged", 0)

\* Mutant: stuck one conflict too early.
MergeConflict_Early(t) ==
  /\ pc[t] = "merge.conflict"
  /\ LET attempt == row[t].pending + 1 IN
     IF attempt >= MaxAutoMergeAttempts
     THEN MergePersist(t, "conflict_stuck", 0)
     ELSE MergePersist(t, "none", attempt)

\* Mutant: never stuck.
MergeConflict_Unbounded(t) ==
  /\ pc[t] = "merge.conflict"
  /\ MergePersist(t, "none", row[t].pending + 1)

\* pending_merge and status are those of the row Merge loaded at its start; the
\* transition is allowed from either status Merge accepts.
MergeConflict(t) ==
  /\ pc[t] = "merge.conflict"
  /\ LET attempt == row[t].pending + 1 IN
     IF attempt > MaxAutoMergeAttempts
     THEN /\ CanTransition(row[t].status, "conflict_stuck")
          /\ MergePersist(t, "conflict_stuck", 0)
     ELSE MergePersist(t, "none", attempt)

-----------------------------------------------------------------------------
(* Agents and users work in the repository.                                *)

BranchIn(w) == born[w]

\* An agent or a user commits in the worktree of w.
Commit(w) ==
  /\ w \in worktrees
  /\ w \notin tree[BranchIn(w)]
  /\ tree' = [tree EXCEPT ![BranchIn(w)] = @ \cup {w}]
  /\ UNCHANGED << status, rowVars, target, base, branches, worktrees, pc, localVars,
                  gone, worldVars, historyVars >>

\* Somebody resolves the conflicts in the worktree: merges the target into it.
Resolve(w) ==
  /\ w \in worktrees
  /\ InConflict(BranchIn(w))
  /\ tree' = [tree EXCEPT ![BranchIn(w)] = ThreeWay(BranchIn(w))]
  /\ base' = [base EXCEPT ![BranchIn(w)] = target]
  /\ UNCHANGED << status, rowVars, target, branches, worktrees, pc, localVars, gone,
                  worldVars, historyVars >>

\* A user commits to the target branch.
UserCommit(c) ==
  /\ c \notin target
  /\ target' = target \cup {c}
  /\ UNCHANGED << status, rowVars, tree, base, branches, worktrees, pc, localVars,
                  gone, worldVars, historyVars >>

Tick ==
  /\ window < MaxWindow
  /\ window' = window + 1
  /\ UNCHANGED << status, rowVars, repoVars, pc, localVars, gone, sweep, crashes,
                  historyVars >>

-----------------------------------------------------------------------------
(* The server dies and starts again; SweepOrphans runs before it serves.   *)

Swept == {"running", "preparing", "awaiting_input", "resolving_conflict",
          "awaiting_approval"}

Crash ==
  /\ crashes < MaxCrashes
  /\ crashes' = crashes + 1
  /\ sweep' = {w \in Workspaces : status[w] \in Swept}
  /\ pc' = [t \in Reqs |-> "idle"]
  /\ gone' = {}
  /\ UNCHANGED << status, rowVars, repoVars, localVars, window, historyVars >>

SweepRow(w) ==
  /\ w \in sweep
  /\ status' = [status EXCEPT ![w] = "failed"]
  /\ sweep' = sweep \ {w}
  /\ UNCHANGED << rowVars, repoVars, pc, localVars, gone, window, crashes,
                  historyVars >>

-----------------------------------------------------------------------------
Handle(t) ==
  \/ CreateInsert(t) \/ PrepareLoad(t) \/ PreparePreparing(t) \/ PrepareAdd(t)
  \/ PrepareFailed(t) \/ PrepareBranch(t) \/ PrepareIdle(t)
  \/ CompleteLoad(t) \/ CompleteWrite(t)
  \/ CancelLoad(t) \/ CancelRemove(t) \/ CancelWrite(t)
  \/ MergeLoad(t) \/ MergeTree(t) \/ UpdateBranch(t) \/ MergeMerged(t)
  \/ MergeConflict(t)

Next ==
  \/ \E t \in Reqs :
       (\E op \in Ops, w \in Workspaces : Request(t, op, w))
         \/ Disconnect(t) \/ Handle(t)
  \/ \E w \in Workspaces : Commit(w) \/ Resolve(w) \/ SweepRow(w)
  \/ \E c \in UserChanges : UserCommit(c)
  \/ Tick
  \/ Crash

\* The Go scheduler runs every handler, and the server finishes its start-up.
Fairness ==
  /\ \A t \in Reqs : WF_vars(Handle(t))
  /\ \A w \in Workspaces : WF_vars(SweepRow(w))

Spec == Init /\ [][Next]_vars

FairSpec == Spec /\ Fairness

-----------------------------------------------------------------------------
(* Properties.                                                             *)

\* No two workspaces share a branch, however their preparations interleave:
\* the branch is persisted only once "worktree add -b" has made it.
BranchExclusive ==
  \A v, w \in Workspaces :
    branch[v] = branch[w] /\ branch[v] # None => v = w

\* Whoever reads an idle or later row finds the branch in it and the branch in
\* the repository (Prepare persists the branch before it flips the status).
IdleHasBranch ==
  \A w \in Workspaces :
    status[w] \in {"idle", "completed", "merged", "conflict_stuck"} =>
      branch[w] \in branches

Handled(w) == \E t \in Reqs : pc[t] # "idle" /\ ws[t] = w

\* What a merged workspace delivered is still in the target branch.
MergedIsInTarget ==
  \A w \in Workspaces : status[w] = "merged" => delivered[w] \subseteq target

\* pending_merge counts the conflicts reported for a workspace, is cleared when
\* it is merged or stuck, and the workspace is stuck at the third conflict, no
\* sooner and no later.
ConflictsCounted ==
  \A w \in Workspaces : ~Handled(w) =>
    /\ status[w] = "completed" => pending[w] = tries[w]
    /\ status[w] = "conflict_stuck" =>
         pending[w] = 0 /\ tries[w] = MaxAutoMergeAttempts + 1
    /\ status[w] = "merged" =>
         pending[w] = 0 /\ tries[w] <= MaxAutoMergeAttempts

\* The status column moves along allowedTransitions only; a row that has not
\* been inserted counts as queued.
Lifecycle ==
  INSTANCE WorkspaceLifecycle WITH
    InitialStatus <- {"queued"},
    status <- [w \in Workspaces |-> IF status[w] = "none" THEN "queued" ELSE status[w]]

FollowsLifecycle == Lifecycle!Spec

\* A preparation comes to an end: idle, failed or cancelled.
PreparingResolves ==
  \A w \in Workspaces : status[w] = "preparing" ~> status[w] # "preparing"

\* Changes are never lost from the target branch.
TargetOnlyGrows == [][target \subseteq target']_vars

\* A preparation fails only when git does.
PrepareSucceeds == \A w \in Workspaces : status[w] # "failed"

\* A terminal status is final.
TerminalForever ==
  [][\A w \in Workspaces : IsTerminal(status[w]) => status'[w] = status[w]]_vars
=============================================================================
