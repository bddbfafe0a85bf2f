# ctrlroom: specifications and proofs

ctrlroom runs coding agents for the issues of a project.  Each workspace has a
row in SQLite, a git branch with a worktree, and, while somebody works with it,
an agent subprocess whose events are stored, streamed to browsers and turned
into the status of the workspace.  This directory specifies the part of the
server where that can go wrong: the managers and the handlers that put them
together, the adapter, the stream, the kanban board, and the way in (migrations,
first user, sessions), with the requests, goroutines and subprocesses that
interleave in them.

Every definition in the modules is a translation of the Go code; `PROJECT.json`
maps each one to its lines.  Run `tlc -config X.cfg M` for a run of module `M`,
and `tlapm M.tla` for the proofs of a module `M` whose name ends in `Proofs` or
`Types`.

## 1. Inventory

| component (source) | state it keeps | operations |
|---|---|---|
| agent.Manager (`internal/agent/manager.go`) | `sessions`: workspace to adapter and cancel function; `subs`: subscribers of each workspace | Start, SendPrompt, Stop, Complete, Subscribe, and the drain goroutine of each session |
| openCodeAdapter (`internal/agent/opencode.go`) | the subprocess, `stopCh`, `stopOnce`, `turnDoneEmitted`, the events channel (64) | Spawn, SendPrompt, Stop, the goroutine readLoop |
| workspace.Manager (`internal/workspace/manager.go`) | none of its own: rows, branches, worktrees | Prepare, Cancel, Cleanup, Merge, Diff |
| state machine (`internal/workspace/state.go`) | the table `allowedTransitions` | CanTransition, MustTransition, IsTerminal |
| git client (`internal/git`) | the repository | WorktreeAdd, WorktreeRemove, MergeTree, UpdateBranch, Diff |
| message rows (`internal/db/message.go`) | messages with a seq per workspace | CreateMessage, ListMessages, LastSeq |
| workspace rows (`internal/db/workspace.go`) | status, branch, worktree path, pending merge, token totals | Create, Get, Update, List |
| stream and message endpoints (`internal/api/stream.go`, `messages.go`) | one connection per client | replay, live loop, list |
| workspace endpoints (`internal/api/workspaces.go`) | none | create, start, prompt, complete, stop, merge |
| issues (`internal/db/issue.go`, `internal/api/issues.go`) | rows with a status and a sort_order | create, list, reorder (a transaction), update, delete |
| projects (`internal/db/project.go`, `internal/api/projects.go`) | rows that own issues and workspaces | create, update, delete with the worktrees |
| authentication (`internal/auth`, `internal/db/session.go`, `user.go`, `internal/api/auth.go`) | users, sessions with an expiry | login, Authed, logout |
| migrations (`internal/db/migrate.go`) | the schema, `schema_migrations` | Apply |
| boot (`cmd/server/main.go`, `internal/agent/sweep.go`) | none | migrate, bootstrapAdmin, SweepOrphans, serve, shut down |
| configuration, health, web page | none | read once, or output only |

How they interact:

- A request runs a manager's method on its own goroutine, with a context that
  ends when the client closes its connection.  A method is a sequence of SQL
  statements, critical sections of `m.mu`, adapter calls and git commands.
- The database has one connection (`db.go`, `SetMaxOpenConns(1)`).  A statement
  is atomic and so is a transaction; two statements of one method are not.
- The adapter's readLoop puts events on a channel, the drain of the session
  takes them, stores them, broadcasts them to the subscribers, and changes the
  status of the workspace at the end of a turn.
- Stop cancels the session, kills the subprocess and closes the channel, while
  readLoop sends on it and the drain receives from it.
- Agents and users commit in worktrees and to the target branch at any time.
- handleStopWorkspace calls Stop of the one manager and then Cancel of the other,
  handleDeleteProject cleans up worktrees and deletes the rows under whatever
  agents still run; both managers write the one column `workspaces.status`.
- After a crash only the database and the repository are left; SweepOrphans
  marks the workspaces failed whose agents have gone.

What makes each part hard, and right:

| component | hard behaviour | correct means |
|---|---|---|
| agent.Manager | concurrent requests, drains that outlive Stop, contexts that end between two statements, crashes | no session is forgotten, no dead session blocks a workspace, a Stop is no failure, `running` resolves, the status follows the table, no update is lost |
| openCodeAdapter | close against send, repeated final messages, lost connections, a full channel | one done per turn, a returned Stop is over, readLoop ends |
| workspace.Manager | check and write in two statements, git between them | branches are exclusive, an idle workspace has its branch and worktree, merges reach the target and stay, conflicts are counted, `preparing` resolves |
| the handlers over both managers | a request is in one manager while a drain or another step writes for the other | a stop leaves no agent, an agent runs where its worktree is, a deleted project leaves nothing on disk, every status change has its reason |
| issues | a creation is three statements, a reorder a transaction on the only connection, clients leave | the board behaves as if each request happened at once, and no request waits for ever |
| boot and sessions | a boot may be cut short at any statement; requests, logouts and expiry interleave | the schema is whole, one admin exists, nobody is let in on a token that is over, the server serves in the end |
| message rows, stream | concurrent writers, replay and live overlap, slow clients | seq without gap or duplicate, streams without a hole and in order, a slow client blocks nobody |

The hazards, each at its line with the properties aimed at it, are in
`PROJECT.json` under `hazards`.

## 2. Modules

| module | what it models |
|---|---|
| `WorkspaceState` | the statuses, `allowedTransitions`, `CanTransition`, `IsTerminal` |
| `WorkspaceLifecycle` | the abstract specification: a status moves along `allowedTransitions` or is forced to failed before it is terminal, one workspace at a time, and nothing else happens |
| `AgentManager` | agent.Manager: requests and drains as threads with a program counter, the session table, contexts, the adapter as its contract describes it, crashes and the sweep |
| `AgentManagerProofs` | the theorems about it |
| `WorkspaceManager` | workspace.Manager and git: branches and worktrees, trees as sets of changes, the merge of two tips over their base |
| `WorkspaceManagerProofs` | the theorems about it, the refinement of `WorkspaceLifecycle` among them |
| `EventStream` | the messages of one workspace, the fan-out of its events, the WebSocket and REST handlers, clients that leave and resume |
| `EventStreamProofs` | the theorems about it, after lemmas about sequences and about rows numbered without a gap |
| `OpenCodeAdapter` | the adapter: Spawn, SendPrompt, Stop, readLoop, and the subprocess as its environment |
| `OpenCodeAdapterProofs` | the theorems about it |
| `ControlRoom` | the server: the two managers instantiated over one status column and one life of the server, handleStopWorkspace and handleDeleteProject as sequences of their methods |
| `ControlRoomProofs` | the theorems about it for requests that overlap, and those about a Stop and about the deletion of a project |
| `ControlRoomTurns` | the theorems about it for requests at different workspaces |
| `IssueBoard` | the abstract specification of a kanban board: one list, and creating, deleting and arranging issues each happen at once |
| `KanbanBoard` | the issues of a project, with the one connection of the database as a variable |
| `KanbanBoardProofs` | the theorems about it, after lemmas about lists of a finite set, RemoveFirst and MAX |
| `Access` | the boot from db.Open to ListenAndServe, shutdown and crash; login, Authed and logout |
| `AccessProofs` | the theorems about `Access` |
| `MC*` | the symmetry and the views of the TLC runs |

The shape is the same in all of them.  `pc[t]` is the next step of thread `t`;
an action is what the code does from one point where others can interfere to
the next.  Its name says the method and the step: `StartRegister` is the
critical section of Start that registers the session.  `Goto(t, "idle")` is a
return.  What the code ignores (an error that is logged only) goes on to the
next step.

`AgentManager`.  A session is identified with its adapter, so `sessions[w] = a`
stands for the entry of the map and `a \in ctxDone` for a cancelled session;
`r \in ctxDone` is a request whose client is gone.  `then` holds where
markFailed and cleanupSession, which are shared, return to.  UpdateWorkspace is
an UPDATE followed by a SELECT; the client can leave between the two, which
makes a statement that took effect return an error.  The adapter is its
contract: a channel, a number of turns, and Stop.  `turn` counts prompts that
were delivered and have not ended.  `AdapterStop(a, how)` keeps apart the
channels Stop closed (`stopped`) from those a conflicting Start closed
(`preempted`), which is history.

`WorkspaceManager`.  A commit is the set of changes in its tree, a branch is
its tree and the tree of its merge base.  `branchName(w)` is the window of
1.024 s in which the ULID of `w` was made, which is what its first eight
characters are.  `row[t]` is the row Merge loaded, which it still uses after
git has run.  UpdateBranch gives its commit one parent, so a merge moves
nobody's base.

`EventStream`.  A transaction takes the connection (`conn`) with its first
statement and gives it back at commit.  broadcast ranges over the shared map
after unlocking: `left` are the entries still to come, `visiting` the one it
holds the channel of.  A map written during the range, or a send on a closed
channel, may kill the process (`panicked`).  A client keeps the events it has
got; `since` is where it will resume, and only replayed frames carry a seq.  The
rows of a REST answer it takes one by one.

`OpenCodeAdapter`.  `wire` holds the SSE events that were sent and not read,
`final` says that the last final message may be sent a second time.  A client
follows up when the previous turn's events are all in, unless `late` is among
the faults.

`ControlRoom`.  `Agent!` and `Git!` are the two managers; a variable both have
(`status`, `sweep`, `crashes`) is one.  `agentPc[t]` is where a request is in a
method of agent.Manager, `pc[t]` where it is in one of workspace.Manager, and
`next[t]` what its handler does after the method has returned.  A step of a
drain is a step of `Agent!` alone, a crash and the sweep are steps of both.
What only the composition knows is added: Spawn fails where there is no
worktree, an INSERT where there is no project, and a client names workspaces it
has been told of (`Known`).  `Lost(a)` says of an adapter that its session was
cancelled without a Stop, see `MCRoomLost` and `MCAgentOrphan`.

`KanbanBoard`.  `conn` is the request whose transaction holds the connection:
other statements wait for it, so what they would read is `Committed`, the orders
before the transaction.  `view[t]` is the list the client of a request has on
its screen, which is what it can reorder; a client that lost its connection lists
again.  The refinement maps the list of `IssueBoard` to the ids of `Committed`
in their order.  Of the columns the status is kept, and its last value, None,
stands for a status that is none.

`Access`.  `phase` is where run() is.  The transaction of a migration keeps what
was committed in `saved`, to which a crash goes back.  `known` are the tokens
that reached a client in a cookie, which any later request can carry; `dead`, in
a request's locals, says that the token had expired or been logged out, with an
answer, when the request arrived.  A statement of a request fails when its
client is gone, with its effect or without; that is also how Clear can fail to
delete a session.

How they compose.  The status column is shared in `ControlRoom`, and each manager
alone is also shown to implement `WorkspaceLifecycle` (`Lifecycle!Spec`, a row that
has not been inserted counts as queued).  `AgentManager` uses of an adapter
what `OpenCodeAdapter` provides: an EventDone per turn (`FinishTurn`), a Stop
that kills and closes (`StoppedIsOver`), a drain that need not read for Stop to
work (`LoopEnds`).  `EventStream` details the steps `DrainPersist` and the
broadcast that follows.  `Access` stands before all of them: its step `Listen`
is the sweep of the managers, its step `Handler` any request of theirs.

## 3. Model checking

### Runs that pass

| run | question | properties |
|---|---|---|
| `MCAgentRace` | two requests race Start, SendPrompt and Stop against the drains | NoForgottenSession, NoDeadSession, StopIsNotFailure, InitialPromptFirst |
| `MCAgentFaults` | refused prompts, clients that leave, subprocesses that exit, deleted rows | TypeOK, DrainsEnd |
| `MCAgentRestart` | spawn failures and a crash at any step, two workspaces, refinement of WorkspaceLifecycle | RunningResolves, FollowsLifecycle |
| `MCRoom` | one workspace from its creation over turns, stops and conflicting merges to the deletion of its project, with drains, failing spawns and a crash | TypeOK, RunsInWorktree, WorktreePresent, NothingLeftBehind, ConflictsCounted, StopIsOver, StatusMoves |
| `MCWorkspaceFaults` | two workspaces under git errors, clients that leave and a crash; refinement of WorkspaceLifecycle | IdleHasBranch, MergedIsInTarget, FollowsLifecycle |
| `MCWorkspacePrepare` | concurrent preparations and cancellations with git errors and a crash | BranchExclusive, PreparingResolves |
| `MCStream` | a client that leaves, resumes and need not read, a full channel, failing persistence | TypeOK, SeqGapFree, NoHole, InOrder, BroadcastEnds, Unsubscribed |
| `MCOpenCodeStop` | Stop and prompts against readLoop, repeated finals, exits, drops | TypeOK, OneDonePerTurn, StoppedIsOver, LoopEnds, StopsReturn |
| `MCBoard` | a request that creates issues against one that lists, reorders, updates and deletes, with lost clients, a deleted project and a crash; refinement of IssueBoard | TypeOK, DistinctOrders, FollowsBoard, AnswerShowsOrder, RequestsEnd |
| `MCAccess` | boots cut short anywhere and restarted with another username; logins, logouts and requests of clients that leave, sessions that expire | SchemaWhole, ServesReady, LetInAlive, ServesInTheEnd |

Some of these properties hold only in the setting of their run, and the next
tables show where they stop holding.  FollowsLifecycle of `AgentManager` needs
requests that do not overlap, no Stop, and no prompt that is delivered although
SendPrompt returns an error (markFailed writes failed, and the end of the turn
writes awaiting_input over it).  RunningResolves and PreparingResolves need
clients that stay, and RunningResolves needs subprocesses that live.
RunsInWorktree, StopIsOver and WorktreePresent speak of the agents the Manager
knows, for it loses some; StatusMoves lists the writes that follow no
transition; WorktreePresent, NothingLeftBehind and ConflictsCounted are about a
server that has not died (a crash inside Cancel leaves an idle workspace without
a worktree, one inside Prepare a worktree the row does not tell of, one inside
Merge a commit without its status).  DistinctOrders and FollowsBoard need one
creation at a time, and lists made from what the client last saw.  LetInAlive
needs a database that does not fail.

### Runs that end in a counterexample

Each one compares the code with a sentence of the repository; the sentence and
the line are in `PROJECT.json` under `findings`.

| run | what happens |
|---|---|
| `MCWorkspaceLostMerge` | two merges from one tip: the second undoes the first |
| `MCStreamPanic` | an unsubscribe while broadcast ranges over the map |

### Further disagreements

These configurations are kept beside the runs; each makes TLC find the property
violated, under the constants of the file.  So does `MCRoomExit`, which shows that a
theorem needs its hypothesis, see section 4.

| configuration | property | what the code does | what the repository says |
|---|---|---|---|
| `MCAgentStopRace` | TerminalForever | the drain writes awaiting_input over the cancelled of Stop (`agent/manager.go:351`) | state.go:11-12 "Terminal states ... have no outgoing entries" |
| `MCAgentOrphan` | NoOrphanAgent | a Start that finds a session stops that session's adapter and forgets its own (`agent/manager.go:106`) | manager.go:17 "Manager owns the lifetime of running agent sessions" |
| `MCRoomLost` | NoAgentWithoutWorktree | one request at a time: Stop, the drain's late awaiting_input, Start again, and the old drain's cleanup takes the new session away; the next stop finds no session, and Cancel removes the worktree under the live agent (`workspaces.go:274-280`) | workspaces.go:273 "Stop the agent if one is running" |
| `MCRoomDelete` | NothingLeftBehind | a workspace created while its project is deleted keeps its worktree (`projects.go:189-202`) | manager.go:92 "Used on workspace/project deletion", DESIGN.md:49-51 |
| `MCBoardTies` | DistinctOrders | two creations read the same MAX (`db/issue.go:46`) | issue.go:24 "computed as MAX(sort_order)+1 within the project" |
| `MCAccessLogout` | LetInAlive | the DELETE of a logout fails, its error is dropped and the client is answered 204 (`cookie.go:62`); the token still opens | auth_test.go:317-319, me is 401 after logout |
| `MCAgentStopStart` | RunningResolves | the deferred cleanup of an old drain (`agent/manager.go:264`) takes away the session a new Start registered; the row stays running | manager.go:21 "one session per workspace ID" |
| `MCAgentTwoPrompts` | SingleTurn | two follow-ups pass the check of the status (`manager.go:137`): two turns in flight | DESIGN.md:198 "only one in-flight prompt per workspace" |
| `MCAgentDisconnect` | RunningResolves | the client leaves during Start's update (`manager.go:90`): running, without a session | manager.go:56-57, awaiting_input "or to WorkspaceFailed on error" |
| `MCAgentExit` | RunningResolves | the subprocess exits, readLoop reconnects for ever (`opencode.go:274`): the row stays running | adapter.go:61-63, the channel is closed when "the subprocess exited" |
| `MCAgentCosts` | CostsAddUp | two drains of one workspace lose an update of its totals (`manager.go:316`) | manager_test.go:284 expects the sum |
| `MCWorkspaceNames` | PrepareSucceeds | workspaces of the same 1.024 s get one branch name (`workspace/manager.go:278`) | DESIGN.md:44 "short, unique" |
| `MCWorkspaceRevived` | TerminalForever | Prepare writes idle over the cancelled of Cancel (`workspace/manager.go:81`) | state.go:11-12 "Terminal states ... have no outgoing entries" |
| `MCWorkspacePrepareGone` | PreparingResolves | the client leaves during Prepare (`workspace/manager.go:64`): the row stays preparing | manager.go:40 "On failure, status=failed" |
| `MCStreamLastSeq` | NoHole | last_seq is newer than the rows it comes with (`messages.go:77`) | message.go:137-138 "know where to resume from" |
| `MCStreamPage` | NoHole | a replay is cut at its limit and goes live (`stream.go:109`) | DESIGN.md:306, replay of `seq > after`, "then switches to live fan-out" |
| `MCOpenCodeLate` | OneDonePerTurn | a late repetition of a final message ends the next turn (`opencode.go:211`) | opencode.go:431-432 "only emit EventDone once per turn" |
| `MCOpenCodePanic` | NoPanic | readLoop sends on the channel Stop has closed (`opencode.go:257`) | adapter.go:63-64 "no further events will be emitted" |
| `MCOpenCodeFull` | NeverBlocked | emit waits for a full channel (`opencode.go:445`) | adapter.go:54-56 "must never block on a full channel" |
| `MCOpenCodeGap` | TurnsReported | a turn that ends while readLoop reconnects is never reported (`opencode.go:276`) | adapter.go:57 "EventDone is emitted per turn" |

Smaller disagreements that need no run.  A second Start on a workspace that
awaits input is let through by `allowedTransitions`, while workspaces.go:255 says
"must be idle".  A stop keeps the worktree when there was a session, since Stop
has written cancelled and Cancel then refuses, and removes it when there was
none (DESIGN.md:47, manager.go:112).  Orders can also tie after a reorder by a
list that is not the whole one: handleReorderIssues does not compare it, while
issue.go:168 says "caller validates".  DeleteIssue returns ErrNotFound where its
comment says "Idempotent" (issue.go:191).  Nothing calls DeleteExpiredSessions,
so the rows of sessions no request asks for stay for good, those of a login
whose client left before the cookie among them.

`fake.go` takes a lock "so Stop can't close the channel mid-send" (line 139);
the OpenCode adapter has no such lock, which is `MCOpenCodePanic`.

### Bounds

- Two requests are enough for the races of the managers: each lost update or
  stale check involves one read and one write of another thread.  Drains add up
  to two (three in `MCAgentCosts`) further threads.
- Two or three adapters: a session, its successor, and one that loses.
  StartSpawn may always fail to get one, so running out is no deadlock.
- `MaxEvents`, `MaxDeltas`: one or two events within turns, enough to fill a
  channel of capacity 1 or 2 (`ChanCap`, `LiveCap`), whose real sizes (64, 256)
  only delay the moment they are full.
- `MCRoom` has one workspace, since workspaces meet only in the target branch,
  which `MCWorkspaceFaults` has for two; one request besides the drains, since
  with two the disagreements below appear at once (`MCRoomDelete`); two adapters,
  for a session and its successor; one change of the workspace and one of the
  user, which conflict; `MaxCrashes` 1.
- `MCBoard` has three issues, enough for a reorder that moves one between two
  others and a creation or deletion in between; two columns; `MaxOrder` 2 lets
  issues be created above the ones that are there.  An id is taken again only
  when nobody knows it (`Fresh`), as a new ULID would be.
- `MCAccess` has the three migrations of the code, two usernames, two requests,
  two tokens and `MaxCrashes` 2: a boot cut short twice, and a restart between
  a login and a request.
- `MCStream` has one client, since the handlers share nothing but the map of
  subscribers, and three events, so that one is dropped, one is late and one is
  in order; two requests let the client resume.
- `MaxTurns` 1 in the passing runs of `AgentManager` identifies several turns in
  flight with one; `MCAgentTwoPrompts` needs 2.
- `ReplayLimit` is the real 1000, which no run reaches, except in `MCStreamPage`,
  where 2 stands for it.
- `MaxWindow` 1: two windows, so that workspaces share a name or do not.
- `MaxCrashes` 1: a second crash starts from a state the first can leave.
- `MaxTries` bounds a history variable one above the greatest value the code
  can reach, so that a violation can still be seen.

`VIEW LiveState` leaves out of a state the locals no step and no property will
read before they are written again: those of requests that have returned and of
drains between events.  Symmetry is used in runs without liveness only, over
requests, adapters, clients and writers, which no definition tells apart.
`CHECK_DEADLOCK FALSE` is set in the runs of `EventStream` and `OpenCodeAdapter`,
whose bounded environments run out of events; the managers are never stuck.

### Fairness

- A goroutine that can run does (weak fairness of a request's steps, a drain's
  steps, readLoop, a broadcast).  Requests themselves, disconnections, faults
  and crashes are never fair.
- `FinishTurn`, `AgentFinishes`: an agent ends the turn it runs unless its process
  dies.  The code has no timeout for a turn, so `running` resolves only as far
  as agents do; this is the assumption behind RunningResolves.
- `KanbanBoard`: strong fairness of a handler's steps.  A statement can run again
  and again, whenever the connection is free, and database/sql gives it to the
  waiting ones in the order they came.
- `Access`: a boot goes on and somebody starts a server that is down (weak
  fairness of `BootStep`); the shutdown ends by its ten seconds.
- `SweepRow`: the server finishes its start-up.
- `LiveSend` is not fair: a write blocks as long as the client does not read.
  `Return` is fair, since a write to a closed connection fails at once.
- `Receive` of `OpenCodeAdapter` is not fair, since the drain may be gone.

### Mutants

Every property of a passing run has a mutant: an operator named
`<definition>_<what is wrong>` that stands before the definition it can replace
and changes it the way a slip in the code would (no look at the existing
session, cancel after close, no transaction, no default case).  TLC finds the
property violated with it under the same configuration.  Nothing else uses them.

## 4. Proofs

`AgentManagerProofs` proves, for any sets of workspaces, requests and adapters,
any operations and faults and any bounds, with `ConstantsAssumption` as the only
assumption:

- `TypeCorrectness`: `Spec => []TypeOK`
- `SessionsAreKnown`: `Spec => []NoForgottenSession`
- `SessionsAreServed`: `Spec => []NoDeadSession`
- `StopsAreNotFailures`: `Spec => []StopIsNotFailure`
- `PromptsComeFirst`: `Spec => []InitialPromptFirst`

They follow from `Invariance`: `Spec => []IInv`, `IInv == TypeOK /\ SessionInv`.
The two session properties are not inductive alone:

- NoDeadSession survives a Start because nobody else holds the adapter it
  spawned and no drain runs for it yet (`AdaptersHeld`), and because the factory
  only makes adapters nobody knows (`FreeUnknown`).
- NoForgottenSession survives the overwriting of a table entry because Start
  overwrites none; it survives a removal because the remover goes on to cancel.
- StopIsNotFailure needs that an adapter whose channel is closed without its
  session being cancelled was discarded by its own Start, or closed by a
  conflicting one (`StoppedIsCancelled`, `ClosedByPreemption`).
- InitialPromptFirst needs that a drain exists only after its Start has tried
  to persist the prompt (`PromptBeforeDrain`).

First every action is shown to preserve TypeOK, one lemma per action.  Then three
lemmas for the shape of a step (a request moves, a drain moves, nobody moves)
reduce SessionInv to a few facts about it, and one lemma per action establishes
them.

`AccessProofs` proves, for any number of migrations, usernames, requests, tokens
and crashes, with `AccessAssumption` as the only assumption:

- `AccessTypes`: `Spec => []TypeOK`
- `SchemaStaysWhole`: `Spec => []SchemaWhole`
- `ServesWhenReady`: `Spec => []ServesReady`
- `OnlyAliveAreLetIn`: `Spec => []LetInAlive`, if the database does not fail
  (`"io" \notin Faults`, the fault of `MCAccessLogout`)

They follow from `AccessInvariance`: `Spec => []IInv`.  Its half about the boot says
that the committed migrations are the first k, for some k (`AtVersion`), which is
what makes the next pending one the k+1st; and that there is at most one user,
none while bootstrapAdmin is about to create one.  Its half about sessions says
that a token which was dead on arrival is still expired or logged out, that
tokens logged out have no row, and that a logout about to be answered has
deleted its row unless its client is gone (`LogoutInv`): so the session a request
finds is of a token that was alive.  Each half has one lemma per action and one
for the steps of the other half.

`WorkspaceManagerProofs` proves, for any workspaces, requests, changes, conflicts
and crashes, with `WorkspaceManagerAssumption`:

- `ManagerTypes`: `Spec => []TypeOK`
- `BranchesAreExclusive`: `Spec => []BranchExclusive`
- `IdleRowsHaveBranches`: `Spec => []IdleHasBranch`
- `ManagerFollowsLifecycle`:
  `Spec /\ []OneRequestPerWorkspace => FollowsLifecycle`
- `MergedStays`: `Spec /\ []OneMerge => []MergedIsInTarget`

The first three follow from `ManagerInvariance`, for requests that overlap at
will.  BranchExclusive is not inductive: two rows may hold one name only if both
had made the branch, so IInv says who has made one (`Made`: the row has it, or the
Prepare that is between `git worktree add` and the UPDATE), and that a made branch
exists, so that a second `git worktree add` of the name fails.  IdleInv adds the
methods that have read a row with a branch and have not written its status yet.
The refinement needs that nobody writes between a method's reading of the status
and its write: `SerialInv` says what status each step expects, and is inductive as
long as no two requests are on one workspace.  MergedIsInTarget needs that a
branch has what its merge base has, so that a three-way merge keeps the target,
and that a merge in progress has taken over what was merged before (`MergeInv`).
The two temporal hypotheses
are about clients; nothing in the server enforces them, and `MCWorkspaceRevived`
and `MCWorkspaceLostMerge` show what happens without.

`OpenCodeAdapterProofs` proves, for any callers, capacities, prompts and lost
connections, with `OpenCodeAssumption`:

- `AdapterTypes`: `Spec => []TypeOK`
- `StopsAreOver`: `Spec => []StoppedIsOver`
- `DonesAreTurns`: `Spec => []OneDonePerTurn`, if `"late" \notin Faults`

StoppedIsOver needs that the function of stopOnce is run by the caller stopOnce
names and by nobody else, and what is done at each of its steps (`StopInv`).
OneDonePerTurn needs the budget of turns (`BudgetInv`: a prompt on its way, a turn in
progress and a finished one are each paid for by a prompt) and that a final message
which can still make an EventDone belongs to a finished turn nobody has been told of
(`DoneInv`); `MCOpenCodeLate` shows why clients that follow up early are excluded.

`EventStreamProofs` proves, for any clients, writers, capacities and bounds, with
`EventStreamAssumption`:

- `StreamTypes`: `Spec => []TypeOK`
- `NumbersHaveNoGap`: `Spec => []SeqGapFree`
- `StreamHasNoHole`: `Spec /\ []Fits => []NoHole`, if `ResumeFrom = "seen"`
- `EventsComeInOrder`: `Spec /\ []Fits => []InOrder`, if `ResumeFrom = "seen"`

`Fits` says that the transcript is no longer than one replay, which
`MCStreamPage` shows to be needed; clients that resume from last_seq are those of
`MCStreamLastSeq`.  SeqGapFree follows from `TableInv`: the transaction that is about to
insert has the connection, and the number it has computed is still the number of
rows.  That a replay is the rows after `since`, all of them and in order, is the
lemma `ListedRows`, which counts them: rows without a gap and numbers without a gap
are in bijection.  NoHole and InOrder are proved together (`StreamInv`): rows are
written in the agent's order (`RowsInv`), a channel holds ascending events, and the
one being broadcast only after its send (`QueueInv`), the rows a handler holds follow
the last one its client has (`BatchInv`), the client has everything up to there
(`SeenInv`), and whatever is before the latest event a client has got it has got too,
or its channel dropped it (`OrderInv`).  A receipt keeps OrderInv because the
head of a replay or of a channel is the least there is, and by NoHole what came
before it is with the client already.

`KanbanBoardProofs` proves, for any issues, columns, bounds and crashes, with
`KanbanBoardAssumption` (of which only that issue ids are finitely many is more than
a type: they are ULIDs, 128 bits each):

- `BoardTypes`: `Spec => []TypeOK`
- `OrdersAreDistinct`: `Spec => []DistinctOrders`, if `Creators` and `Editors` have
  at most one element each (`OneOfEach`); that two creations at once can tie is what
  `MCBoardTies` shows

BoardTypes follows from `BoardInvariance`, for any requests: `TxInv` says who has the
connection, `MoveInv` which issues of a reorder have moved and that the others are
where they were, `ScreenInv` that a client which is there reorders what it sees.
DistinctOrders is not inductive: a reorder writes 0, 1, 2, ... over the places of its
list, and is right only if nothing else has one of these places.  That is `UnseenInv`,
what the editor does not see has a place behind the length of all it sees; it
holds after a creation because n issues with different places need a place n - 1 or
more (`PlacesBelow`, the pigeonhole), so MAX + 1 is at least n.  `LastInv` keeps this
for the place a creation has computed and not inserted yet, while the editor
lists, deletes or reorders.

`ControlRoomProofs` proves, for any workspaces, requests, adapters, operations, faults
and crashes, from the assumptions of the two managers:

- `RoomTypes`: `Spec => []TypeOK`
- `RunsInItsWorktree`: `Spec /\ []StopAlone => []RunsInWorktree`
- `StopLeavesNothing`: `Spec /\ []StopAlone => StopIsOver`
- `NothingIsLeft`: `Spec /\ []DeleteAlone => []NothingLeftBehind`

`ControlRoom` is `AgentManager` and `WorkspaceManager` instantiated over one state, and
so are the proofs: an action of `Agent!` preserves `Agent!IInv` by the lemma of
`AgentManagerProofs` for that action.  What is new is the rest of `RoomInv`, which
`RoomInvariance` shows for requests that overlap at will: a request is in one method
of one manager (`OneMethod`), only workspaces clients have been told of are in use
(`Heard`), rows come and go with the project (`RowsStay`), no request is served
during the sweep (`Boot`), and an agent that runs is in the session table or in the
hands of a request, unless it was given up (`LiveInv`, with `CleanAd` for the
cleanup of a drain).

RunsInWorktree follows from what a Stop has done when it goes on to Cancel: it has
left no session (`StopInv`), and by LiveInv no agent either.  This needs that no other
request starts, stops or cleans up an agent of the workspace meanwhile (`StopAlone`);
prompts, completions, merges, drains and requests at other workspaces may
overlap with it.  NothingLeftBehind needs that every worktree is told of, by its row
or by the Prepare that has just made it, and that a delete has listed those that are
left (`LeftInv`); `DeleteAlone` says that no other request is handled while
handleDeleteProject cleans up.  The server has no lock that would make these
hypotheses true: they are about its clients, and `MCRoomDelete` shows what happens
without the second.

`ControlRoomTurns` proves, under `OneAtATime` (the requests at work are at different
workspaces, and none of them works while handleDeleteProject cleans up):

- `ConflictsAreCounted`: `Spec /\ []OneAtATime => []ConflictsCounted`
- `StatusesMove`: `Spec /\ []OneAtATime => StatusMoves`,
  if `"prompt" \notin AgentFaults`
- `WorktreesPresent`: `Spec /\ []OneAtATime => []WorktreePresent`,
  if `"exit" \notin AgentFaults`

With one request, as in `MCRoom`, OneAtATime always holds; the drains run beside the
requests all the same, and they are what makes these properties hard: a drain writes the
status of its workspace when a turn ends, whatever has happened there since.  Four
invariants are inductive together, each on top of the ones before:

- `TurnInv` (`TurnsInvariance`): an agent with a session has one turn open, which ends
  once (`LocalInv`); one agent of a workspace at most owes the end of a turn, and the
  status it will write over is running, failed or cancelled, or the row is gone
  (`OwesInv`); and what each request knows at each of its steps, of its adapter and of
  the status it has checked (`HeldWs`, `ReqPlace`, `GitPlace`).  So no turn ends over a
  status that a merge has written.
- `CountInv`: away from the end of a merge, pending_merge is the number of conflicts
  reported since the agent last completed; ConflictsCounted follows.
- `StatusInv`: an agent that owes the end of a turn is in a running workspace unless it
  was given up (`NonLost`), a Stop has given up the agent it is stopping (`StopHolds`),
  nobody else gives up what a request holds (`CtxHeld`), a Start that gives up leaves
  no turn (`GivesQuiet`).  So each write of a status finds what the table of
  transitions asks for, except those StatusMoves lists.
- `HouseInv`: a workspace without a worktree has no session and is in no request's
  hands (`NoTree`), a workspace that is in use, or that a drain may still bring back
  into use, has its worktree (`AllHoused`), an agent that has been killed over a
  running workspace is in the hands of a Stop about to write the status itself
  (`StopRun`), and a Cancel past the stop of its agent finds only drains of agents
  Stop could not kill (`CancelRev`).

The two conditions on the faults are needed, and no state is excluded by them but the
ones the fault makes.  With `AgentFaults = {"prompt"}` and `ChanCap = 2`, `MCRoom`
finds StatusMoves violated by an agent that takes a prompt and answers with an error:
SendPrompt fails the workspace, and the end of that turn writes awaiting_input over
it.  `MCRoomExit` shows WorktreePresent
violated by an agent that was given up, ended its turn and exited: its drain writes
awaiting_input on a workspace whose worktree Cancel has removed, and there is no
agent left for the exception of WorktreePresent to name.

Before they were proved, all of these invariants were checked by TLC on the instance
of `MCRoom` and on variants of it with more faults.

Only model-checked, not proved: liveness under fairness, which is out of the
prover's reach; the refinement of IssueBoard and AnswerShowsOrder, which filter
sequences by a recursive definition; and the refinement of WorkspaceLifecycle by
`AgentManager`, which `MCAgentRestart` checks for requests without a Stop.

## 5. Not modelled

- Configuration, logging, health, validation, the web page: they keep no state
  that steps of others can meet, or are read once.
- Creating and updating projects: single statements on fields nothing else here
  depends on.
- Api tokens: LookupAPITokenByHash reads a table nothing writes, so a request with
  a bearer token is one without a cookie.  Password hashing is a library call.
- A machine that loses power: with `synchronous=NORMAL` it can lose the last
  commits, which the crashes of the modules, of the process only, do not.
- Text: prompts, deltas, tool calls and diffs are one value each; costs are one
  unit each.
- The order of a follow-up prompt and its answer in the transcript, the goroutine
  that waitForReady leaves behind, and rows that stay queued after a crash: see
  the notes of their hazards.

## 6. Plan

1. (done) `WorkspaceState`, `WorkspaceLifecycle`, `AgentManager`, `WorkspaceManager`,
   `EventStream`, `OpenCodeAdapter` with their runs; type correctness and the
   session invariants of `AgentManager` proved.
2. (done) `ControlRoom`, `IssueBoard` and `KanbanBoard`, `Access` with their runs;
   the invariants of `Access` proved.
3. `Transcript`: prompts, turns and messages together, for the order of follow-ups
   and answers; `EventStream` and `OpenCodeAdapter` shown to implement an abstract
   channel of turns that `AgentManager` relies on.
4. (done) Proofs: `WorkspaceManager` with its refinement of WorkspaceLifecycle,
   `EventStream`, `OpenCodeAdapter`, `KanbanBoard`.
5. (done) Proofs: `ControlRoom`, for requests that overlap where the code stands it
   and for requests at different workspaces where it does not.
