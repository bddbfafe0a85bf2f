---------------------------- MODULE ControlRoom ----------------------------
(***************************************************************************)
(* The server as its handlers put it together (internal/api/workspaces.go, *)
(* projects.go): the agent manager and the workspace manager work on one   *)
(* column, workspaces.status, and some handlers call one after the other.  *)
(*                                                                         *)
(* AgentManager and WorkspaceManager are instantiated over one status      *)
(* column and one life of the server; a request is in a method of the one  *)
(* (agentPc) or of the other (pc), or between two of them (next).  The     *)
(* workspaces belong to one project.                                       *)
(***************************************************************************)
EXTENDS Naturals, WorkspaceState

CONSTANTS
  Workspaces, Reqs, Adapters, UserChanges, Conflicts, None,
  Ops,          \* the requests clients make
  Chatter, DoneReasons, AgentFaults, MaxEvents, ChanCap, MaxTurns,
  GitFaults, MaxWindow, MaxCrashes

VARIABLES
  status, sweep, crashes,                    \* shared by both managers
  tokens, sessions, ctxDone, agentPc, then, agentWs, ad, life, turn, chan,
  budget, ev, tokenBase, first,              \* of AgentManager
  branch, path, pending, born, target, tree, base, branches, worktrees, pc, ws,
  row, merged, gone, window, delivered, tries,    \* of WorkspaceManager
  project,    \* the row of the project exists
  next,       \* what a handler does when the method it is in has returned
  todo        \* workspaces handleDeleteProject has still to clean up

agentVars == << tokens, sessions, ctxDone, agentPc, then, agentWs, ad, life, turn,
                chan, budget, ev, tokenBase, first >>
gitVars == << branch, path, pending, born, target, tree, base, branches, worktrees,
              pc, ws, row, merged, gone, window, delivered, tries >>
handlerVars == << project, next, todo >>
bootVars == << sweep, crashes >>

vars == << status, bootVars, agentVars, gitVars, handlerVars >>

Agent ==
  INSTANCE AgentManager WITH
    pc <- agentPc, ws <- agentWs, base <- tokenBase,
    Ops <- Ops \cap {"start", "prompt", "stop", "complete"}, Faults <- AgentFaults

\* The agent manager when it has just been created: the rows may be anything.
NewAgent ==
  INSTANCE AgentManager WITH
    status <- [w \in Workspaces |-> "idle"],
    pc <- agentPc, ws <- agentWs, base <- tokenBase,
    Ops <- Ops \cap {"start", "prompt", "stop", "complete"}, Faults <- AgentFaults

Git ==
  INSTANCE WorkspaceManager WITH
    Ops <- Ops \cap {"create", "merge"}, Faults <- GitFaults

ASSUME ControlRoomAssumption ==
  /\ Ops \subseteq {"start", "prompt", "stop", "complete", "create", "merge", "delete"}
  /\ Agent!ConstantsAssumption
  /\ Git!WorkspaceManagerAssumption

TypeOK ==
  /\ Agent!TypeOK
  /\ Git!TypeOK
  /\ project \in BOOLEAN
  /\ next \in [Reqs -> {"return", "cancel", "cleanup"}]
  /\ todo \in [Reqs -> SUBSET Workspaces]

Init ==
  /\ Git!Init
  /\ NewAgent!Init
  /\ project = TRUE
  /\ next = [t \in Reqs |-> "return"]
  /\ todo = [t \in Reqs |-> {}]

-----------------------------------------------------------------------------
Idle(t) == agentPc[t] = "idle" /\ pc[t] = "idle" /\ next[t] = "return"

\* The row is there; clients know the id for good once it has been.
Exists(w) == status[w] # "none"

Known(w) == born[w] # None

Then(t, what) == next' = [next EXCEPT ![t] = what]

(* Handlers that call one method of one manager.                           *)

\* handleStartWorkspace, handleMessage, handleCompleteWorkspace.
AgentRequest(t, op, w) ==
  /\ Idle(t) /\ Known(w)
  /\ op \in Ops \cap {"start", "prompt", "complete"}
  /\ Agent!Request(t, op, w)
  /\ UNCHANGED << gitVars, handlerVars >>

\* Spawn starts the subprocess in the worktree, and fails when there is none.
AgentStep(t) ==
  /\ Agent!Handle(t)
  /\ agentPc[t] = "start.spawn" /\ agentWs[t] \notin worktrees => UNCHANGED life
  /\ UNCHANGED << gitVars, handlerVars >>

\* handleCreateWorkspace loads the project first; handleMergeWorkspace.
GitRequest(t, op, w) ==
  /\ Idle(t) /\ project
  /\ op \in Ops \cap {"create", "merge"}
  /\ Git!Request(t, op, w)
  /\ UNCHANGED << agentVars, handlerVars >>

\* The INSERT of a workspace is refused when its project has been deleted.
GitStep(t) ==
  /\ IF pc[t] = "create.insert" /\ ~project
     THEN /\ Git!Goto(t, "idle")
          /\ UNCHANGED << status, bootVars, branch, path, pending, born, target, tree,
                          base, branches, worktrees, ws, row, merged, gone, window,
                          delivered, tries >>
     ELSE Git!Handle(t)
  /\ UNCHANGED << agentVars, handlerVars >>

-----------------------------------------------------------------------------
(* handleStopWorkspace: agentMgr.Stop, which reports no error, and then    *)
(* workspaceMgr.Cancel, whose refusal of the transition is no error.  Both *)
(* have the context of the request: Cancel loads no row when it is done.   *)

\* Mutant: the workspace is cancelled first, and its agent stopped after.
StopRequest_CancelsFirst(t, w) ==
  /\ Idle(t) /\ Known(w)
  /\ "stop" \in Ops
  /\ Git!Request(t, "cancel", w)
  /\ UNCHANGED << agentVars, handlerVars >>

StopRequest(t, w) ==
  /\ Idle(t) /\ Known(w)
  /\ "stop" \in Ops
  /\ Agent!Request(t, "stop", w)
  /\ Then(t, "cancel")
  /\ UNCHANGED << gitVars, project, todo >>

StopCancel(t) ==
  /\ next[t] = "cancel" /\ agentPc[t] = "idle"
  /\ IF Agent!GetWorkspace(t, agentWs[t])
     THEN Git!Request(t, "cancel", agentWs[t])
     ELSE UNCHANGED << status, bootVars, gitVars >>
  /\ Then(t, "return")
  /\ UNCHANGED << agentVars, project, todo >>

-----------------------------------------------------------------------------
(* handleDeleteProject: the list of the workspaces, Cleanup of each, and   *)
(* the row of the project, which takes theirs with it.                     *)

DeleteList(t) ==
  /\ Idle(t) /\ sweep = {}
  /\ "delete" \in Ops
  /\ todo' = [todo EXCEPT ![t] = {w \in Workspaces : Exists(w)}]
  /\ Then(t, "cleanup")
  /\ UNCHANGED << status, bootVars, agentVars, gitVars, project >>

\* Mutant: Cleanup of a workspace that has ended is skipped.
DeleteCleanup_Ended(t, w) ==
  /\ w \in todo[t]
  /\ todo' = [todo EXCEPT ![t] = @ \ {w}]
  /\ worktrees' = IF Exists(w) /\ path[w] /\ ~IsTerminal(status[w])
                  THEN worktrees \ {w} ELSE worktrees
  /\ UNCHANGED << status, bootVars, agentVars, project, next, branch, path, pending,
                  born, target, tree, base, branches, pc, ws, row, merged, gone,
                  window, delivered, tries >>

\* Cleanup: the worktree of the path in the row, if there is one.
DeleteCleanup(t, w) ==
  /\ w \in todo[t]
  /\ todo' = [todo EXCEPT ![t] = @ \ {w}]
  /\ worktrees' = IF Exists(w) /\ path[w] THEN worktrees \ {w} ELSE worktrees
  /\ UNCHANGED << status, bootVars, agentVars, project, next, branch, path, pending,
                  born, target, tree, base, branches, pc, ws, row, merged, gone,
                  window, delivered, tries >>

\* DELETE FROM projects; the rows of the workspaces go by cascade.
DeleteRows(t) ==
  /\ next[t] = "cleanup" /\ todo[t] = {}
  /\ project' = FALSE
  /\ status' = [w \in Workspaces |-> "none"]
  /\ branch' = [w \in Workspaces |-> None]
  /\ path' = [w \in Workspaces |-> FALSE]
  /\ pending' = [w \in Workspaces |-> 0]
  /\ Then(t, "return")
  /\ UNCHANGED << bootVars, agentVars, todo, born, target, tree, base, branches,
                  worktrees, pc, ws, row, merged, gone, window, delivered, tries >>

-----------------------------------------------------------------------------
(* Drains, agents, users, and the life of the server.                      *)

Background(a) ==
  /\ Agent!Drain(a) \/ Agent!Agent(a)
  /\ UNCHANGED << gitVars, handlerVars >>

World ==
  /\ \/ \E w \in Workspaces : Git!Commit(w) \/ Git!Resolve(w)
     \/ \E c \in UserChanges : Git!UserCommit(c)
     \/ Git!Tick
  /\ UNCHANGED << agentVars, handlerVars >>

Crash ==
  /\ Agent!Crash /\ Git!Crash
  /\ next' = [t \in Reqs |-> "return"]
  /\ todo' = [t \in Reqs |-> {}]
  /\ UNCHANGED project

SweepRow(w) ==
  /\ Agent!SweepRow(w) /\ Git!SweepRow(w)
  /\ UNCHANGED handlerVars

Handle(t) ==
  \/ AgentStep(t) \/ GitStep(t) \/ StopCancel(t)
  \/ DeleteRows(t) \/ \E w \in Workspaces : DeleteCleanup(t, w)

Next ==
  \/ \E t \in Reqs :
       \/ \E w \in Workspaces :
            \/ \E op \in Ops : AgentRequest(t, op, w) \/ GitRequest(t, op, w)
            \/ StopRequest(t, w)
       \/ DeleteList(t) \/ Handle(t)
  \/ \E a \in Adapters : Background(a)
  \/ World
  \/ \E w \in Workspaces : SweepRow(w)
  \/ Crash

Spec == Init /\ [][Next]_vars

-----------------------------------------------------------------------------
(* Properties.                                                             *)

\* handleStopWorkspace is working on a workspace, and on which one.
Stopping(t) == next[t] = "cancel" \/ pc[t] \in {"cancel.load", "cancel.remove", "cancel.write"}

StopOf(t) == IF next[t] = "cancel" THEN agentWs[t] ELSE ws[t]

Handled(w) ==
  \E t \in Reqs :
    \/ agentPc[t] # "idle" /\ agentWs[t] = w
    \/ pc[t] # "idle" /\ ws[t] = w
    \/ Stopping(t) /\ StopOf(t) = w
    \/ next[t] = "cleanup"

\* The Manager has lost adapter a: its session has been cancelled without a Stop,
\* by the Start that made it or by the drain of an earlier session, which takes
\* any session of the workspace out of the table and cancels it a step later.
Lost(a) ==
  a \in ctxDone \/ \E b \in Adapters : agentPc[b] = "clean.cancel" /\ ad[b] = a

\* No agent the Manager knows works in a directory that has been taken away: the
\* handler that removes a worktree has stopped the agent in it (Stop, then
\* Cancel), and an agent is only started where there is one.  Deleting a project
\* stops no agent.
RunsInWorktree ==
  \A a \in Adapters :
    life[a] = "live" /\ ~Lost(a) /\ Exists(agentWs[a])
    /\ ~(\E t \in Reqs : next[t] = "cleanup") =>
      agentWs[a] \in worktrees

\* When handleStopWorkspace returns, no session of the workspace is left and no
\* agent the Manager knows is alive in it, whatever its status was, and even if
\* its project has been deleted.
StopIsOver ==
  [][\A t \in Reqs : Stopping(t) /\ ~Stopping(t)' =>
       /\ sessions'[StopOf(t)] = None
       /\ \A a \in Adapters :
            agentWs[a] = StopOf(t) /\ life'[a] = "live" => Lost(a)]_vars

\* Two managers write workspaces.status, and one drain goroutine per session: a
\* status follows another one only if the table of transitions allows it, with
\* these exceptions: a row comes and goes, markFailed and SweepOrphans fail what
\* is not terminal, and when a Stop and the end of the turn it interrupts read the
\* status before either writes it, the later of the two writes stands.
StatusMoves ==
  [][\A w \in Workspaces : status'[w] # status[w] =>
       \/ status[w] = "none" /\ status'[w] = "queued"
       \/ status'[w] = "none" /\ \E t \in Reqs : next[t] = "cleanup"
       \/ Exists(w) /\ Exists(w)' /\ CanTransition(status[w], status'[w])
       \/ Exists(w) /\ ~IsTerminal(status[w]) /\ status'[w] = "failed"
       \/ \E a \in Adapters :
            /\ agentWs[a] = w /\ Lost(a)
            /\ agentPc[a] \in {"drain.terminal", "fail.write"}
            /\ agentPc'[a] # agentPc[a]
       \/ /\ status'[w] = "cancelled"
          /\ \E t \in Reqs :
               \/ agentPc[t] = "stop.write" /\ agentWs[t] = w
               \/ pc[t] = "cancel.write" /\ ws[t] = w]_vars

\* A workspace an agent can be started in has its worktree, whichever manager
\* brought it to that status, unless an agent the Manager has lost is in it or
\* the server died in the middle of a Cancel.
WorktreePresent ==
  \A w \in Workspaces :
    /\ status[w] \in {"idle", "running", "awaiting_input", "completed"}
    /\ ~Handled(w) /\ crashes = 0
    /\ \A a \in Adapters : agentWs[a] = w /\ life[a] = "live" => ~Lost(a)
    => w \in worktrees

\* A deleted project leaves no worktree on disk, unless the server died in the
\* middle of a Prepare, which had made one the row does not tell of.
NothingLeftBehind ==
  ~project /\ crashes = 0 /\ (\A w \in Workspaces : ~Handled(w)) => worktrees = {}

\* pending_merge counts the conflicts reported for a workspace, however its agent
\* was started, stopped and completed before, unless the server died in a Merge.
ConflictsCounted == crashes = 0 => Git!ConflictsCounted

\* No agent at all works in a directory that has been taken away.
NoAgentWithoutWorktree ==
  \A a \in Adapters :
    life[a] = "live" /\ Exists(agentWs[a])
    /\ ~(\E t \in Reqs : next[t] = "cleanup") =>
      agentWs[a] \in worktrees
=============================================================================
