-------------------------- MODULE ControlRoomProofs -------------------------
(***************************************************************************)
(* The server of ControlRoom, for every value of its constants.            *)
(*                                                                         *)
(* What AgentManagerProofs shows of the agent manager is used here through *)
(* an instance of it.  RoomInv is inductive: the invariant of the agent    *)
(* manager, the types of the workspace manager, and what ties the managers *)
(* and the handlers together.  The theorems about StopIsOver,              *)
(* RunsInWorktree and NothingLeftBehind have a hypothesis that says which  *)
(* requests do not overlap: the code has no lock that would keep them      *)
(* apart, and they are false of requests that do.                          *)
(***************************************************************************)
EXTENDS ControlRoom, TLAPS

USE DEF Git!rowVars, Git!repoVars, Git!localVars, Git!worldVars, Git!historyVars
USE DEF Agent!dbVars, Agent!adapterVars, Agent!drainVars, Agent!bootVars

\* AgentManagerProofs, about the agent manager of this server.
AgentThms ==
  INSTANCE AgentManagerProofs WITH
    pc <- agentPc, ws <- agentWs, base <- tokenBase,
    Ops <- Ops \cap {"start", "prompt", "stop", "complete"}, Faults <- AgentFaults

\* The types of the agent manager are those that AgentManagerProofs is about.
LEMMA SameTypes == Agent!TypeOK <=> AgentThms!TypeOK
  BY
  DEF Agent!TypeOK, AgentThms!TypeOK, Agent!Rows, AgentThms!Rows, Agent!Threads,
      AgentThms!Threads, Agent!Events, AgentThms!Events, Agent!Life,
      AgentThms!Life, Agent!Steps, AgentThms!Steps, Agent!StartSteps,
      AgentThms!StartSteps, Agent!PromptSteps, AgentThms!PromptSteps,
      Agent!StopSteps, AgentThms!StopSteps, Agent!CompleteSteps,
      AgentThms!CompleteSteps, Agent!DrainSteps, AgentThms!DrainSteps,
      Agent!FailSteps, AgentThms!FailSteps, Agent!CleanSteps,
      AgentThms!CleanSteps, Agent!WorkspaceStatus, AgentThms!WorkspaceStatus

\* So is the invariant of its sessions.
LEMMA SameSessions == Agent!SessionInv <=> AgentThms!SessionInv
  BY
  DEF Agent!SessionInv, AgentThms!SessionInv, Agent!ThreadsInPlace,
      AgentThms!ThreadsInPlace, Agent!AdaptersHeld, AgentThms!AdaptersHeld,
      Agent!FreeUnknown, AgentThms!FreeUnknown, Agent!StoppedIsCancelled,
      AgentThms!StoppedIsCancelled, Agent!ClosedByPreemption,
      AgentThms!ClosedByPreemption, Agent!PromptBeforeDrain,
      AgentThms!PromptBeforeDrain, Agent!NoDeadSession, AgentThms!NoDeadSession,
      Agent!NoForgottenSession, AgentThms!NoForgottenSession, Agent!HasSession,
      AgentThms!HasSession, Agent!Starting, AgentThms!Starting,
      Agent!HoldingSteps, AgentThms!HoldingSteps, Agent!Closed,
      AgentThms!Closed, Agent!Threads, AgentThms!Threads, Agent!DrainSteps,
      AgentThms!DrainSteps, Agent!FailSteps, AgentThms!FailSteps,
      Agent!CleanSteps, AgentThms!CleanSteps

\* And its next-state relation.
LEMMA SameNext == Agent!Next <=> AgentThms!Next
  BY
  DEF Agent!dbVars, AgentThms!dbVars, Agent!adapterVars, AgentThms!adapterVars,
      Agent!drainVars, AgentThms!drainVars, Agent!bootVars, AgentThms!bootVars,
      Agent!Threads, AgentThms!Threads, Agent!Goto, AgentThms!Goto, Agent!CtxOK,
      AgentThms!CtxOK, Agent!GetWorkspace, AgentThms!GetWorkspace,
      Agent!UpdateWorkspace, AgentThms!UpdateWorkspace, Agent!Closed,
      AgentThms!Closed, Agent!AdapterStop, AgentThms!AdapterStop,
      Agent!AdapterSendPrompt, AgentThms!AdapterSendPrompt, Agent!Request,
      AgentThms!Request, Agent!Disconnect, AgentThms!Disconnect,
      Agent!StartLoad, AgentThms!StartLoad, Agent!StartSpawn,
      AgentThms!StartSpawn, Agent!StartRunning, AgentThms!StartRunning,
      Agent!StartRegister, AgentThms!StartRegister, Agent!StartPreempt,
      AgentThms!StartPreempt, Agent!StartPrompt, AgentThms!StartPrompt,
      Agent!StartPersist, AgentThms!StartPersist, Agent!PromptLookup,
      AgentThms!PromptLookup, Agent!PromptCheck, AgentThms!PromptCheck,
      Agent!PromptRunning, AgentThms!PromptRunning, Agent!PromptSend,
      AgentThms!PromptSend, Agent!PromptPersist, AgentThms!PromptPersist,
      Agent!StopLookup, AgentThms!StopLookup, Agent!StopCancel,
      AgentThms!StopCancel, Agent!StopKill, AgentThms!StopKill, Agent!StopRead,
      AgentThms!StopRead, Agent!StopWrite, AgentThms!StopWrite,
      Agent!CompleteRead, AgentThms!CompleteRead, Agent!CompleteWrite,
      AgentThms!CompleteWrite, Agent!FailCtxOK, AgentThms!FailCtxOK,
      Agent!Return, AgentThms!Return, Agent!FailRead, AgentThms!FailRead,
      Agent!FailWrite, AgentThms!FailWrite, Agent!CleanDelete,
      AgentThms!CleanDelete, Agent!CleanCancel, AgentThms!CleanCancel,
      Agent!DrainSelect, AgentThms!DrainSelect, Agent!DrainClosed,
      AgentThms!DrainClosed, Agent!DrainPersist, AgentThms!DrainPersist,
      Agent!DrainCostRead, AgentThms!DrainCostRead, Agent!DrainCostWrite,
      AgentThms!DrainCostWrite, Agent!DrainTerminal, AgentThms!DrainTerminal,
      Agent!CanEmit, AgentThms!CanEmit, Agent!Emit, AgentThms!Emit, Agent!Talk,
      AgentThms!Talk, Agent!FinishTurn, AgentThms!FinishTurn, Agent!ProcessExit,
      AgentThms!ProcessExit, Agent!DeleteRow, AgentThms!DeleteRow, Agent!Swept,
      AgentThms!Swept, Agent!Crash, AgentThms!Crash, Agent!SweepRow,
      AgentThms!SweepRow, Agent!Shared, AgentThms!Shared, Agent!Handle,
      AgentThms!Handle, Agent!Drain, AgentThms!Drain, Agent!Agent,
      AgentThms!Agent, Agent!Next, AgentThms!Next, Agent!WorkspaceStatus,
      AgentThms!WorkspaceStatus, Agent!allowedTransitions,
      AgentThms!allowedTransitions, Agent!CanTransition,
      AgentThms!CanTransition, Agent!IsTerminal, AgentThms!IsTerminal

\* The constants satisfy what the proofs of the agent manager assume.
LEMMA AgentConstants == AgentThms!ConstantsAssumption
  BY ControlRoomAssumption
  DEF Agent!ConstantsAssumption, AgentThms!ConstantsAssumption, Agent!AllOps,
      AgentThms!AllOps, Agent!AllFaults, AgentThms!AllFaults, Agent!AllReasons,
      AgentThms!AllReasons

\* A step of the agent manager preserves its invariant here as well.
LEMMA AgentSteps == Agent!IInv /\ Agent!Next => Agent!IInv'
  <1>1. (Agent!TypeOK <=> AgentThms!TypeOK)'
          /\ (Agent!SessionInv <=> AgentThms!SessionInv)'
    BY SameTypes, SameSessions, PTL
  <1> QED
    BY <1>1, SameTypes, SameSessions, SameNext, AgentConstants,
       AgentThms!NextIInv
    DEF Agent!IInv, AgentThms!IInv
-----------------------------------------------------------------------------
(* The types of the workspace manager.                                     *)

\* The types of the workspace manager, in four parts.
GitRows ==
  /\ status \in [Workspaces -> Git!WorkspaceStatus \cup {"none"}]
  /\ branch \in [Workspaces -> Git!Names \cup {None}]
  /\ path \in [Workspaces -> BOOLEAN]
  /\ pending \in [Workspaces -> 0..Git!MaxAutoMergeAttempts]
  /\ born \in [Workspaces -> Git!Names \cup {None}]

GitRepo ==
  /\ target \in SUBSET Git!Changes
  /\ tree \in [Git!Names -> SUBSET Git!Changes]
  /\ base \in [Git!Names -> SUBSET Git!Changes]
  /\ branches \in SUBSET Git!Names
  /\ worktrees \in SUBSET Workspaces

GitLocals ==
  /\ pc \in [Reqs -> Git!Steps]
  /\ ws \in [Reqs -> Workspaces \cup {None}]
  /\ row \in [Reqs -> [status : Git!WorkspaceStatus \cup {"none"},
                       pending : 0..Git!MaxAutoMergeAttempts]]
  /\ merged \in [Reqs -> SUBSET Git!Changes]
  /\ gone \in SUBSET Reqs

GitWorld ==
  /\ window \in Git!Names
  /\ sweep \in SUBSET Workspaces
  /\ crashes \in 0..MaxCrashes
  /\ delivered \in [Workspaces -> SUBSET Git!Changes]
  /\ tries \in [Workspaces -> 0..Git!MaxTries]

\* The types of the workspace manager, part by part.
LEMMA GitParts == Git!TypeOK <=> GitRows /\ GitRepo /\ GitLocals /\ GitWorld
  BY DEF Git!TypeOK, GitRows, GitRepo, GitLocals, GitWorld

\* The same of the next state.
LEMMA GitPartsNext == Git!TypeOK' <=> GitRows' /\ GitRepo' /\ GitLocals' /\ GitWorld'
  BY DEF Git!TypeOK, GitRows, GitRepo, GitLocals, GitWorld

\* An UPDATE that reports success has been carried out, and one that has been
\* needs the row; a client that goes away makes it report an error.
LEMMA UpdateEffect ==
  ASSUME NEW t \in Reqs, NEW ok \in BOOLEAN, NEW written \in BOOLEAN,
         Git!UpdateRow(t, ok, written)
  PROVE  /\ ok => written
         /\ written => Git!Exists(t)
         /\ gone' = gone \/ (gone' = gone \cup {t} /\ ~ok)
         /\ ~written => t \in gone \/ ~Git!Exists(t)
  BY Zenon DEF Git!UpdateRow, Git!Statement

\* SetStatus writes the status and goes on, or ends the request.
LEMMA SetStatusEffect ==
  ASSUME NEW t \in Reqs, NEW s, NEW step, Git!SetStatus(t, s, step)
  PROVE  /\ \/ /\ status' = status /\ pc' = [pc EXCEPT ![t] = "idle"]
               /\ t \in gone \/ ~Git!Exists(t)
            \/ /\ Git!Exists(t)
               /\ status' = [status EXCEPT ![ws[t]] = s]
               /\ pc' = [pc EXCEPT ![t] = "idle"]
                    \/ (pc' = [pc EXCEPT ![t] = step] /\ gone' = gone)
         /\ gone' = gone \/ (gone' = gone \cup {t} /\ pc' = [pc EXCEPT ![t] = "idle"])
  BY UpdateEffect, Zenon DEF Git!SetStatus, Git!Goto

\* persist writes the status and the attempts together, and ends the request.
LEMMA MergePersistEffect ==
  ASSUME NEW t \in Reqs, NEW s, NEW attempt, Git!MergePersist(t, s, attempt)
  PROVE  /\ \/ status' = status /\ pending' = pending
            \/ /\ Git!Exists(t)
               /\ pending' = [pending EXCEPT ![ws[t]] = attempt]
               /\ status' = IF s # "none" THEN [status EXCEPT ![ws[t]] = s] ELSE status
         /\ pc' = [pc EXCEPT ![t] = "idle"]
         /\ gone' = gone \/ gone' = gone \cup {t}
         /\ UNCHANGED << branch, path, born, target, tree, base, branches, worktrees,
              ws, row, merged, window, sweep, crashes, delivered, tries >>
  BY UpdateEffect, Zenon DEF Git!MergePersist, Git!Goto

\* None is no name and no workspace; the two limits are those of the code.
LEMMA NameFacts == None \notin Git!Names /\ MaxWindow \in Nat /\ None \notin Workspaces
  /\ Git!MaxTries = 4 /\ Git!MaxAutoMergeAttempts = 2
  BY ControlRoomAssumption
  DEF Git!WorkspaceManagerAssumption, Git!Names, Git!MaxTries,
      Git!MaxAutoMergeAttempts

\* CreateInsert of the workspace manager preserves the types.
LEMMA GitTypesCreateInsert ==
  ASSUME Git!TypeOK, NEW t \in Reqs, ws[t] \in Workspaces, Git!CreateInsert(t),
         pc[t] # "create.insert" => born[ws[t]] # None
  PROVE  Git!TypeOK'
  <1>1. GitRows /\ GitRepo /\ GitLocals /\ GitWorld
    BY GitParts
  <1>2. GitRows'
    BY <1>1, NameFacts
    DEF GitRows, GitWorld, Git!CreateInsert, Git!Statement, Git!Goto,
        Git!WorkspaceStatus, Git!Steps
  <1>3. GitRepo'
    BY <1>1, NameFacts
    DEF GitRepo, GitRows, GitLocals, Git!CreateInsert, Git!Statement, Git!Goto,
        Git!WorkspaceStatus, Git!Steps
  <1>4. GitLocals'
    BY <1>1, NameFacts
    DEF GitLocals, GitRows, GitRepo, Git!CreateInsert, Git!Statement, Git!Goto,
        Git!WorkspaceStatus, Git!Steps
  <1>5. GitWorld'
    BY <1>1, NameFacts
    DEF GitWorld, GitRows, GitLocals, Git!CreateInsert, Git!Statement, Git!Goto,
        Git!WorkspaceStatus, Git!Steps
  <1> QED BY <1>2, <1>3, <1>4, <1>5, GitPartsNext

\* PrepareLoad of the workspace manager preserves the types.
LEMMA GitTypesPrepareLoad ==
  ASSUME Git!TypeOK, NEW t \in Reqs, ws[t] \in Workspaces, Git!PrepareLoad(t),
         pc[t] # "create.insert" => born[ws[t]] # None
  PROVE  Git!TypeOK'
  <1>1. GitRows /\ GitRepo /\ GitLocals /\ GitWorld
    BY GitParts
  <1>2. GitRows'
    BY <1>1, NameFacts
    DEF GitRows, Git!PrepareLoad, Git!LoadRow, Git!Goto, Git!WorkspaceStatus,
        Git!Steps
  <1>3. GitRepo'
    BY <1>1, NameFacts
    DEF GitRepo, GitRows, GitLocals, Git!PrepareLoad, Git!LoadRow, Git!Goto,
        Git!WorkspaceStatus, Git!Steps
  <1>4. GitLocals'
    BY <1>1, NameFacts
    DEF GitLocals, GitRows, GitRepo, Git!PrepareLoad, Git!LoadRow, Git!Goto,
        Git!WorkspaceStatus, Git!Steps
  <1>5. GitWorld'
    BY <1>1, NameFacts
    DEF GitWorld, GitRows, GitLocals, Git!PrepareLoad, Git!LoadRow, Git!Goto,
        Git!WorkspaceStatus, Git!Steps
  <1> QED BY <1>2, <1>3, <1>4, <1>5, GitPartsNext

\* PreparePreparing of the workspace manager preserves the types.
LEMMA GitTypesPreparePreparing ==
  ASSUME Git!TypeOK, NEW t \in Reqs, ws[t] \in Workspaces, Git!PreparePreparing(t),
         pc[t] # "create.insert" => born[ws[t]] # None
  PROVE  Git!TypeOK'
  <1>1. GitRows /\ GitRepo /\ GitLocals /\ GitWorld
    BY GitParts
  <1>0. Git!SetStatus(t, "preparing", "prepare.add")
    BY DEF Git!PreparePreparing
  <1>2. GitRows'
    BY <1>1, <1>0, SetStatusEffect, NameFacts
    DEF GitRows, Git!PreparePreparing, Git!WorkspaceStatus, Git!Steps
  <1>3. GitRepo'
    BY <1>1, <1>0, SetStatusEffect, NameFacts
    DEF GitRepo, GitRows, GitLocals, Git!PreparePreparing, Git!WorkspaceStatus,
        Git!Steps
  <1>4. GitLocals'
    BY <1>1, <1>0, SetStatusEffect, NameFacts
    DEF GitLocals, GitRows, GitRepo, Git!PreparePreparing, Git!WorkspaceStatus,
        Git!Steps
  <1>5. GitWorld'
    BY <1>1, <1>0, SetStatusEffect, NameFacts
    DEF GitWorld, GitRows, GitLocals, Git!PreparePreparing, Git!WorkspaceStatus,
        Git!Steps
  <1> QED BY <1>2, <1>3, <1>4, <1>5, GitPartsNext

\* PrepareAdd of the workspace manager preserves the types.
LEMMA GitTypesPrepareAdd ==
  ASSUME Git!TypeOK, NEW t \in Reqs, ws[t] \in Workspaces, Git!PrepareAdd(t),
         pc[t] # "create.insert" => born[ws[t]] # None
  PROVE  Git!TypeOK'
  <1>1. GitRows /\ GitRepo /\ GitLocals /\ GitWorld
    BY GitParts
  <1>2. GitRows'
    BY <1>1, NameFacts
    DEF GitRows, Git!PrepareAdd, Git!Goto, Git!branchName, Git!WorkspaceStatus,
        Git!Steps
  <1>3. GitRepo'
    <2>1. born[ws[t]] \in Git!Names
      BY <1>1 DEF GitRows, Git!PrepareAdd
    <2>2. PICK n \in Git!Names : n = born[ws[t]]
      BY <2>1
    <2>3. \/ UNCHANGED << branches, worktrees, tree, base >>
          \/ /\ branches' = branches \cup {n}
             /\ worktrees' = worktrees \cup {ws[t]}
             /\ tree' = [tree EXCEPT ![n] = target]
             /\ base' = [base EXCEPT ![n] = target]
      BY <2>2 DEF Git!PrepareAdd, Git!branchName
    <2>4. target' = target
      BY DEF Git!PrepareAdd
    <2> QED BY <1>1, <2>3, <2>4 DEF GitRepo
  <1>4. GitLocals'
    BY <1>1, NameFacts
    DEF GitLocals, GitRows, GitRepo, Git!PrepareAdd, Git!Goto, Git!branchName,
        Git!WorkspaceStatus, Git!Steps
  <1>5. GitWorld'
    BY <1>1, NameFacts
    DEF GitWorld, GitRows, GitLocals, Git!PrepareAdd, Git!Goto, Git!branchName,
        Git!WorkspaceStatus, Git!Steps
  <1> QED BY <1>2, <1>3, <1>4, <1>5, GitPartsNext

\* PrepareFailed of the workspace manager preserves the types.
LEMMA GitTypesPrepareFailed ==
  ASSUME Git!TypeOK, NEW t \in Reqs, ws[t] \in Workspaces, Git!PrepareFailed(t),
         pc[t] # "create.insert" => born[ws[t]] # None
  PROVE  Git!TypeOK'
  <1>1. GitRows /\ GitRepo /\ GitLocals /\ GitWorld
    BY GitParts
  <1>0. Git!SetStatus(t, "failed", "idle")
    BY DEF Git!PrepareFailed
  <1>2. GitRows'
    BY <1>1, <1>0, SetStatusEffect, NameFacts
    DEF GitRows, Git!PrepareFailed, Git!WorkspaceStatus, Git!Steps
  <1>3. GitRepo'
    BY <1>1, <1>0, SetStatusEffect, NameFacts
    DEF GitRepo, GitRows, GitLocals, Git!PrepareFailed, Git!WorkspaceStatus,
        Git!Steps
  <1>4. GitLocals'
    BY <1>1, <1>0, SetStatusEffect, NameFacts
    DEF GitLocals, GitRows, GitRepo, Git!PrepareFailed, Git!WorkspaceStatus,
        Git!Steps
  <1>5. GitWorld'
    BY <1>1, <1>0, SetStatusEffect, NameFacts
    DEF GitWorld, GitRows, GitLocals, Git!PrepareFailed, Git!WorkspaceStatus,
        Git!Steps
  <1> QED BY <1>2, <1>3, <1>4, <1>5, GitPartsNext

\* PrepareBranch of the workspace manager preserves the types.
LEMMA GitTypesPrepareBranch ==
  ASSUME Git!TypeOK, NEW t \in Reqs, ws[t] \in Workspaces, Git!PrepareBranch(t),
         pc[t] # "create.insert" => born[ws[t]] # None
  PROVE  Git!TypeOK'
  <1>1. GitRows /\ GitRepo /\ GitLocals /\ GitWorld
    BY GitParts
  <1>2. GitRows'
    BY <1>1, NameFacts
    DEF GitRows, Git!PrepareBranch, Git!Goto, Git!branchName,
        Git!WorkspaceStatus, Git!Steps
  <1>3. GitRepo'
    BY <1>1, NameFacts
    DEF GitRepo, GitRows, GitLocals, Git!PrepareBranch, Git!Goto,
        Git!branchName, Git!WorkspaceStatus, Git!Steps
  <1>4. GitLocals'
    BY <1>1, NameFacts
    DEF GitLocals, GitRows, GitRepo, Git!PrepareBranch, Git!Goto,
        Git!branchName, Git!WorkspaceStatus, Git!Steps
  <1>5. GitWorld'
    BY <1>1, NameFacts
    DEF GitWorld, GitRows, GitLocals, Git!PrepareBranch, Git!Goto,
        Git!branchName, Git!WorkspaceStatus, Git!Steps
  <1> QED BY <1>2, <1>3, <1>4, <1>5, GitPartsNext

\* PrepareIdle of the workspace manager preserves the types.
LEMMA GitTypesPrepareIdle ==
  ASSUME Git!TypeOK, NEW t \in Reqs, ws[t] \in Workspaces, Git!PrepareIdle(t),
         pc[t] # "create.insert" => born[ws[t]] # None
  PROVE  Git!TypeOK'
  <1>1. GitRows /\ GitRepo /\ GitLocals /\ GitWorld
    BY GitParts
  <1>2. GitRows'
    BY <1>1, UpdateEffect, NameFacts
    DEF GitRows, Git!PrepareIdle, Git!Goto, Git!WorkspaceStatus, Git!Steps
  <1>3. GitRepo'
    BY <1>1, UpdateEffect, NameFacts
    DEF GitRepo, GitRows, GitLocals, Git!PrepareIdle, Git!Goto,
        Git!WorkspaceStatus, Git!Steps
  <1>4. GitLocals'
    BY <1>1, UpdateEffect, NameFacts
    DEF GitLocals, GitRows, GitRepo, Git!PrepareIdle, Git!Goto,
        Git!WorkspaceStatus, Git!Steps
  <1>5. GitWorld'
    BY <1>1, UpdateEffect, NameFacts
    DEF GitWorld, GitRows, GitLocals, Git!PrepareIdle, Git!Goto,
        Git!WorkspaceStatus, Git!Steps
  <1> QED BY <1>2, <1>3, <1>4, <1>5, GitPartsNext

\* CompleteLoad of the workspace manager preserves the types.
LEMMA GitTypesCompleteLoad ==
  ASSUME Git!TypeOK, NEW t \in Reqs, ws[t] \in Workspaces, Git!CompleteLoad(t),
         pc[t] # "create.insert" => born[ws[t]] # None
  PROVE  Git!TypeOK'
  <1>1. GitRows /\ GitRepo /\ GitLocals /\ GitWorld
    BY GitParts
  <1>2. GitRows'
    BY <1>1, NameFacts
    DEF GitRows, Git!CompleteLoad, Git!Goto, Git!WorkspaceStatus, Git!Steps
  <1>3. GitRepo'
    BY <1>1, NameFacts
    DEF GitRepo, GitRows, GitLocals, Git!CompleteLoad, Git!Goto,
        Git!WorkspaceStatus, Git!Steps
  <1>4. GitLocals'
    BY <1>1, NameFacts
    DEF GitLocals, GitRows, GitRepo, Git!CompleteLoad, Git!Goto,
        Git!WorkspaceStatus, Git!Steps
  <1>5. GitWorld'
    BY <1>1, NameFacts
    DEF GitWorld, GitRows, GitLocals, Git!CompleteLoad, Git!Goto,
        Git!WorkspaceStatus, Git!Steps
  <1> QED BY <1>2, <1>3, <1>4, <1>5, GitPartsNext

\* CompleteWrite of the workspace manager preserves the types.
LEMMA GitTypesCompleteWrite ==
  ASSUME Git!TypeOK, NEW t \in Reqs, ws[t] \in Workspaces, Git!CompleteWrite(t),
         pc[t] # "create.insert" => born[ws[t]] # None
  PROVE  Git!TypeOK'
  <1>1. GitRows /\ GitRepo /\ GitLocals /\ GitWorld
    BY GitParts
  <1>0. Git!SetStatus(t, "completed", "idle")
    BY DEF Git!CompleteWrite
  <1>2. GitRows'
    BY <1>1, <1>0, SetStatusEffect, NameFacts
    DEF GitRows, Git!CompleteWrite, Git!WorkspaceStatus, Git!Steps
  <1>3. GitRepo'
    BY <1>1, <1>0, SetStatusEffect, NameFacts
    DEF GitRepo, GitRows, GitLocals, Git!CompleteWrite, Git!WorkspaceStatus,
        Git!Steps
  <1>4. GitLocals'
    BY <1>1, <1>0, SetStatusEffect, NameFacts
    DEF GitLocals, GitRows, GitRepo, Git!CompleteWrite, Git!WorkspaceStatus,
        Git!Steps
  <1>5. GitWorld'
    BY <1>1, <1>0, SetStatusEffect, NameFacts
    DEF GitWorld, GitRows, GitLocals, Git!CompleteWrite, Git!WorkspaceStatus,
        Git!Steps
  <1> QED BY <1>2, <1>3, <1>4, <1>5, GitPartsNext

\* CancelLoad of the workspace manager preserves the types.
LEMMA GitTypesCancelLoad ==
  ASSUME Git!TypeOK, NEW t \in Reqs, ws[t] \in Workspaces, Git!CancelLoad(t),
         pc[t] # "create.insert" => born[ws[t]] # None
  PROVE  Git!TypeOK'
  <1>1. GitRows /\ GitRepo /\ GitLocals /\ GitWorld
    BY GitParts
  <1>2. GitRows'
    BY <1>1, NameFacts
    DEF GitRows, Git!CancelLoad, Git!Goto, Git!WorkspaceStatus, Git!Steps
  <1>3. GitRepo'
    BY <1>1, NameFacts
    DEF GitRepo, GitRows, GitLocals, Git!CancelLoad, Git!Goto,
        Git!WorkspaceStatus, Git!Steps
  <1>4. GitLocals'
    BY <1>1, NameFacts
    DEF GitLocals, GitRows, GitRepo, Git!CancelLoad, Git!Goto,
        Git!WorkspaceStatus, Git!Steps
  <1>5. GitWorld'
    BY <1>1, NameFacts
    DEF GitWorld, GitRows, GitLocals, Git!CancelLoad, Git!Goto,
        Git!WorkspaceStatus, Git!Steps
  <1> QED BY <1>2, <1>3, <1>4, <1>5, GitPartsNext

\* CancelRemove of the workspace manager preserves the types.
LEMMA GitTypesCancelRemove ==
  ASSUME Git!TypeOK, NEW t \in Reqs, ws[t] \in Workspaces, Git!CancelRemove(t),
         pc[t] # "create.insert" => born[ws[t]] # None
  PROVE  Git!TypeOK'
  <1>1. GitRows /\ GitRepo /\ GitLocals /\ GitWorld
    BY GitParts
  <1>2. GitRows'
    BY <1>1, NameFacts
    DEF GitRows, Git!CancelRemove, Git!Goto, Git!WorkspaceStatus, Git!Steps
  <1>3. GitRepo'
    BY <1>1, NameFacts
    DEF GitRepo, GitRows, GitLocals, Git!CancelRemove, Git!Goto,
        Git!WorkspaceStatus, Git!Steps
  <1>4. GitLocals'
    BY <1>1, NameFacts
    DEF GitLocals, GitRows, GitRepo, Git!CancelRemove, Git!Goto,
        Git!WorkspaceStatus, Git!Steps
  <1>5. GitWorld'
    BY <1>1, NameFacts
    DEF GitWorld, GitRows, GitLocals, Git!CancelRemove, Git!Goto,
        Git!WorkspaceStatus, Git!Steps
  <1> QED BY <1>2, <1>3, <1>4, <1>5, GitPartsNext

\* CancelWrite of the workspace manager preserves the types.
LEMMA GitTypesCancelWrite ==
  ASSUME Git!TypeOK, NEW t \in Reqs, ws[t] \in Workspaces, Git!CancelWrite(t),
         pc[t] # "create.insert" => born[ws[t]] # None
  PROVE  Git!TypeOK'
  <1>1. GitRows /\ GitRepo /\ GitLocals /\ GitWorld
    BY GitParts
  <1>0. Git!SetStatus(t, "cancelled", "idle")
    BY DEF Git!CancelWrite
  <1>2. GitRows'
    BY <1>1, <1>0, SetStatusEffect, NameFacts
    DEF GitRows, Git!CancelWrite, Git!WorkspaceStatus, Git!Steps
  <1>3. GitRepo'
    BY <1>1, <1>0, SetStatusEffect, NameFacts
    DEF GitRepo, GitRows, GitLocals, Git!CancelWrite, Git!WorkspaceStatus,
        Git!Steps
  <1>4. GitLocals'
    BY <1>1, <1>0, SetStatusEffect, NameFacts
    DEF GitLocals, GitRows, GitRepo, Git!CancelWrite, Git!WorkspaceStatus,
        Git!Steps
  <1>5. GitWorld'
    BY <1>1, <1>0, SetStatusEffect, NameFacts
    DEF GitWorld, GitRows, GitLocals, Git!CancelWrite, Git!WorkspaceStatus,
        Git!Steps
  <1> QED BY <1>2, <1>3, <1>4, <1>5, GitPartsNext

\* MergeLoad of the workspace manager preserves the types.
LEMMA GitTypesMergeLoad ==
  ASSUME Git!TypeOK, NEW t \in Reqs, ws[t] \in Workspaces, Git!MergeLoad(t),
         pc[t] # "create.insert" => born[ws[t]] # None
  PROVE  Git!TypeOK'
  <1>1. GitRows /\ GitRepo /\ GitLocals /\ GitWorld
    BY GitParts
  <1>2. GitRows'
    BY <1>1, NameFacts
    DEF GitRows, Git!MergeLoad, Git!LoadRow, Git!Goto, Git!WorkspaceStatus,
        Git!Steps
  <1>3. GitRepo'
    BY <1>1, NameFacts
    DEF GitRepo, GitRows, GitLocals, Git!MergeLoad, Git!LoadRow, Git!Goto,
        Git!WorkspaceStatus, Git!Steps
  <1>4. GitLocals'
    BY <1>1, NameFacts
    DEF GitLocals, GitRows, GitRepo, Git!MergeLoad, Git!LoadRow, Git!Goto,
        Git!WorkspaceStatus, Git!Steps
  <1>5. GitWorld'
    BY <1>1, NameFacts
    DEF GitWorld, GitRows, GitLocals, Git!MergeLoad, Git!LoadRow, Git!Goto,
        Git!WorkspaceStatus, Git!Steps
  <1> QED BY <1>2, <1>3, <1>4, <1>5, GitPartsNext

\* MergeTree of the workspace manager preserves the types.
LEMMA GitTypesMergeTree ==
  ASSUME Git!TypeOK, NEW t \in Reqs, ws[t] \in Workspaces, Git!MergeTree(t),
         pc[t] # "create.insert" => born[ws[t]] # None
  PROVE  Git!TypeOK'
  <1>1. GitRows /\ GitRepo /\ GitLocals /\ GitWorld
    BY GitParts
  <1>2. GitRows'
    BY <1>1, NameFacts
    DEF GitRows, Git!MergeTree, Git!Goto, Git!ThreeWay, Git!WorkspaceStatus,
        Git!Steps
  <1>3. GitRepo'
    BY <1>1, NameFacts
    DEF GitRepo, GitRows, GitLocals, Git!MergeTree, Git!Goto, Git!ThreeWay,
        Git!WorkspaceStatus, Git!Steps
  <1>4. GitLocals'
    BY <1>1, NameFacts
    DEF GitLocals, GitRows, GitRepo, Git!MergeTree, Git!Goto, Git!ThreeWay,
        Git!WorkspaceStatus, Git!Steps
  <1>5. GitWorld'
    BY <1>1, NameFacts
    DEF GitWorld, GitRows, GitLocals, Git!MergeTree, Git!Goto, Git!ThreeWay,
        Git!WorkspaceStatus, Git!Steps
  <1> QED BY <1>2, <1>3, <1>4, <1>5, GitPartsNext

\* UpdateBranch of the workspace manager preserves the types.
LEMMA GitTypesUpdateBranch ==
  ASSUME Git!TypeOK, NEW t \in Reqs, ws[t] \in Workspaces, Git!UpdateBranch(t),
         pc[t] # "create.insert" => born[ws[t]] # None
  PROVE  Git!TypeOK'
  <1>1. GitRows /\ GitRepo /\ GitLocals /\ GitWorld
    BY GitParts
  <1>2. GitRows'
    BY <1>1, NameFacts
    DEF GitRows, Git!UpdateBranch, Git!Goto, Git!WorkspaceStatus, Git!Steps
  <1>3. GitRepo'
    BY <1>1, NameFacts
    DEF GitRepo, GitRows, GitLocals, Git!UpdateBranch, Git!Goto,
        Git!WorkspaceStatus, Git!Steps
  <1>4. GitLocals'
    BY <1>1, NameFacts
    DEF GitLocals, GitRows, GitRepo, Git!UpdateBranch, Git!Goto,
        Git!WorkspaceStatus, Git!Steps
  <1>5. GitWorld'
    BY <1>1, NameFacts
    DEF GitWorld, GitRows, GitLocals, Git!UpdateBranch, Git!Goto,
        Git!WorkspaceStatus, Git!Steps
  <1> QED BY <1>2, <1>3, <1>4, <1>5, GitPartsNext

\* MergeMerged of the workspace manager preserves the types.
LEMMA GitTypesMergeMerged ==
  ASSUME Git!TypeOK, NEW t \in Reqs, ws[t] \in Workspaces, Git!MergeMerged(t),
         pc[t] # "create.insert" => born[ws[t]] # None
  PROVE  Git!TypeOK'
  <1>1. GitRows /\ GitRepo /\ GitLocals /\ GitWorld
    BY GitParts
  <1>2. GitRows'
    BY <1>1, MergePersistEffect, NameFacts
    DEF GitRows, Git!MergeMerged, Git!WorkspaceStatus, Git!Steps
  <1>3. GitRepo'
    BY <1>1, MergePersistEffect, NameFacts
    DEF GitRepo, GitRows, GitLocals, Git!MergeMerged, Git!WorkspaceStatus,
        Git!Steps
  <1>4. GitLocals'
    BY <1>1, MergePersistEffect, NameFacts
    DEF GitLocals, GitRows, GitRepo, Git!MergeMerged, Git!WorkspaceStatus,
        Git!Steps
  <1>5. GitWorld'
    BY <1>1, MergePersistEffect, NameFacts
    DEF GitWorld, GitRows, GitLocals, Git!MergeMerged, Git!WorkspaceStatus,
        Git!Steps
  <1> QED BY <1>2, <1>3, <1>4, <1>5, GitPartsNext

\* MergeConflict of the workspace manager preserves the types.
LEMMA GitTypesMergeConflict ==
  ASSUME Git!TypeOK, NEW t \in Reqs, ws[t] \in Workspaces, Git!MergeConflict(t),
         pc[t] # "create.insert" => born[ws[t]] # None
  PROVE  Git!TypeOK'
  <1>1. GitRows /\ GitRepo /\ GitLocals /\ GitWorld
    BY GitParts
  <1>a. PICK p \in 0..2 : row[t].pending = p
    BY <1>1, NameFacts DEF GitLocals
  <1>b. p + 1 \in 0..2 \/ p + 1 > 2
    OBVIOUS
  <1>c. PICK s \in {"none", "conflict_stuck"}, n \in 0..2 : Git!MergePersist(t, s, n)
    BY <1>a, <1>b, NameFacts DEF Git!MergeConflict
  <1>2. GitRows'
    BY <1>1, <1>c, MergePersistEffect, NameFacts
    DEF GitRows, Git!WorkspaceStatus, Git!Steps
  <1>3. GitRepo'
    BY <1>1, <1>c, MergePersistEffect, NameFacts
    DEF GitRepo, GitRows, GitLocals, Git!WorkspaceStatus, Git!Steps
  <1>4. GitLocals'
    <2>1. /\ pc' = [pc EXCEPT ![t] = "idle"]
          /\ gone' = gone \/ gone' = gone \cup {t}
          /\ UNCHANGED << ws, row, merged >>
      BY <1>c, MergePersistEffect
    <2> QED BY <1>1, <2>1 DEF GitLocals, Git!Steps
  <1>5. GitWorld'
    BY <1>1, <1>c, MergePersistEffect, NameFacts
    DEF GitWorld, GitRows, GitLocals, Git!WorkspaceStatus, Git!Steps
  <1> QED BY <1>2, <1>3, <1>4, <1>5, GitPartsNext

-----------------------------------------------------------------------------
(* What a step in the agent manager does to others, and to its adapters.   *)

\* Requests are no adapters.
LEMMA AdapterFacts ==
  /\ Reqs \cap Adapters = {} /\ None \notin Adapters \cup Workspaces
  BY ControlRoomAssumption DEF Agent!ConstantsAssumption

\* What a step of thread x in the agent manager does to the requests, the rows and
\* the adapters of others.
AgentMoves(x) ==
  /\ agentPc[x] # "idle"
  /\ \A w \in Workspaces : status'[w] = "none" <=> status[w] = "none"
  /\ \A u \in Reqs \ {x} : agentPc'[u] = agentPc[u] /\ ad'[u] = ad[u]
  /\ \A u \in Reqs : agentWs'[u] = agentWs[u]
  /\ \A a \in Adapters :
       agentWs'[a] = agentWs[a] \/ (x \in Reqs /\ agentWs'[a] = agentWs[x])
  /\ x \in Reqs /\ agentPc[x] \in Agent!StopSteps \cup Agent!FailSteps
       \cup Agent!CleanSteps =>
       agentPc'[x] \in Agent!StopSteps \cup Agent!FailSteps \cup Agent!CleanSteps
         \cup {"idle"}
  /\ UNCHANGED << sweep, crashes >>

\* An UPDATE makes no row and takes none away.
LEMMA UpdateRows ==
  ASSUME status \in [Workspaces -> Agent!Rows], NEW t, NEW w \in Workspaces,
         NEW s, s # "none", NEW alive, NEW ok,
         Agent!UpdateWorkspace(t, w, s, alive, ok)
  PROVE  \A v \in Workspaces : status'[v] = "none" <=> status[v] = "none"
  <1>1. status' = status \/ (status[w] # "none" /\ status' = [status EXCEPT ![w] = s])
    BY Zenon DEF Agent!UpdateWorkspace
  <1> QED BY <1>1

\* Nor does it cancel anything but the context of its own request.
LEMMA UpdateDone ==
  ASSUME NEW t \in Agent!Threads, NEW w, NEW s, NEW alive, NEW ok,
         Agent!UpdateWorkspace(t, w, s, alive, ok)
  PROVE  ctxDone' = ctxDone \/ (t \in Reqs /\ ctxDone' = ctxDone \cup {t})
  BY Zenon DEF Agent!UpdateWorkspace

\* A request has just started adapter a, or has taken it out of the table to end it.
Held(a) ==
  \E t \in Reqs : ad[t] = a
    /\ agentPc[t] \in {"start.running", "start.register", "clean.cancel"}

\* An agent that runs and has not been given up is in the table, or a request holds
\* it: Stop finds it.
LiveInv ==
  \A a \in Adapters : life[a] = "live" /\ ~Lost(a) =>
    /\ agentWs[a] \in Workspaces
    /\ sessions[agentWs[a]] = a \/ Held(a)

\* What a cleanup has taken out of the table is an adapter of its own workspace.
CleanAd ==
  \A t \in Reqs : agentPc[t] = "clean.cancel" /\ ad[t] # None =>
    agentWs[ad[t]] = agentWs[t] /\ life[ad[t]] # "free"

\* A step that keeps the table, starts nothing and gives up what it holds only by
\* cancelling it.
LiveMoves ==
  /\ UNCHANGED sessions
  /\ \A a \in Adapters :
       /\ agentWs'[a] = agentWs[a]
       /\ life'[a] = "live" => life[a] = "live"
       /\ a \in ctxDone => a \in ctxDone'
       /\ agentPc[a] = "clean.cancel" =>
            \/ agentPc'[a] = "clean.cancel" /\ ad'[a] = ad[a]
            \/ ad[a] \in ctxDone' \cup {None}
  /\ \A u \in Reqs : agentPc[u] \in {"start.running", "start.register",
       "clean.cancel"} =>
       \/ /\ agentPc'[u] \in {"start.running", "start.register", "clean.cancel"}
          /\ ad'[u] = ad[u]
       \/ ad[u] \in ctxDone' \cup {None}
       \/ ad[u] \in Adapters /\ life'[ad[u]] # "live"

\* A step that keeps the sessions, starts nothing and gives up no adapter it holds
\* keeps every live adapter where it was.
LEMMA LiveKept == ASSUME LiveInv, LiveMoves PROVE LiveInv'
  <1>1. \A a \in Adapters : Lost(a) => Lost(a)'
    BY AdapterFacts DEF LiveMoves, Lost
  <1>2. \A a \in Adapters : Held(a) => Held(a)' \/ life'[a] # "live" \/ Lost(a)'
    BY AdapterFacts DEF LiveMoves, Lost, Held
  <1> QED BY <1>1, <1>2 DEF LiveInv, LiveMoves

\* StartLoad is a move of its own thread.
LEMMA MovesRStartLoad ==
  ASSUME Agent!IInv, NEW t \in Reqs, Agent!StartLoad(t) PROVE AgentMoves(t)
  BY AdapterFacts
  DEF AgentMoves, Agent!IInv, Agent!TypeOK, Agent!SessionInv,
      Agent!ThreadsInPlace, Agent!AdaptersHeld, Agent!HoldingSteps,
      Agent!StartLoad, Agent!Goto, Agent!Threads, Agent!StopSteps,
      Agent!FailSteps, Agent!CleanSteps, Agent!DrainSteps

\* StartLoad keeps every live adapter in a session or in the hands of a request.
LEMMA LiveRStartLoad ==
  ASSUME Agent!IInv, LiveInv, CleanAd, NEW t \in Reqs, Agent!StartLoad(t)
  PROVE LiveInv' /\ CleanAd'
  <1>1. LiveMoves
    BY AdapterFacts
    DEF LiveMoves, Agent!IInv, Agent!TypeOK, Agent!SessionInv,
        Agent!ThreadsInPlace, Agent!AdaptersHeld, Agent!HoldingSteps,
        Agent!Closed, Agent!StartLoad, Agent!Goto, Agent!Threads
  <1>2. CleanAd'
    BY AdapterFacts
    DEF CleanAd, Agent!IInv, Agent!TypeOK, Agent!SessionInv,
        Agent!ThreadsInPlace, Agent!NoDeadSession, Agent!FreeUnknown,
        Agent!AdaptersHeld, Agent!HoldingSteps, Agent!Starting, Agent!StartLoad,
        Agent!Goto, Agent!Threads
  <1> QED BY <1>1, <1>2, LiveKept

\* StartSpawn is a move of its own thread.
LEMMA MovesRStartSpawn ==
  ASSUME Agent!IInv, NEW t \in Reqs, Agent!StartSpawn(t) PROVE AgentMoves(t)
  BY AdapterFacts
  DEF AgentMoves, Agent!IInv, Agent!TypeOK, Agent!SessionInv,
      Agent!ThreadsInPlace, Agent!AdaptersHeld, Agent!HoldingSteps,
      Agent!StartSpawn, Agent!Goto, Agent!Threads, Agent!StopSteps,
      Agent!FailSteps, Agent!CleanSteps, Agent!DrainSteps

\* StartRunning is a move of its own thread.
LEMMA MovesRStartRunning ==
  ASSUME Agent!IInv, NEW t \in Reqs, Agent!StartRunning(t) PROVE AgentMoves(t)
  <1>1. agentPc[t] # "idle" /\ agentWs[t] \in Workspaces /\ t \in Agent!Threads
    BY
    DEF Agent!IInv, Agent!SessionInv, Agent!ThreadsInPlace, Agent!StartRunning,
        Agent!Threads
  <1>2. PICK ok \in BOOLEAN : Agent!UpdateWorkspace(t, agentWs[t], "running",
               Agent!CtxOK(t), ok)
    BY DEF Agent!StartRunning
  <1>3. \A w \in Workspaces : status'[w] = "none" <=> status[w] = "none"
    BY <1>1, <1>2, UpdateRows DEF Agent!IInv, Agent!TypeOK
  <1> QED
    BY <1>3, AdapterFacts
    DEF AgentMoves, Agent!IInv, Agent!TypeOK, Agent!SessionInv,
        Agent!ThreadsInPlace, Agent!AdaptersHeld, Agent!HoldingSteps,
        Agent!StartRunning, Agent!Goto, Agent!Threads, Agent!AdapterStop,
        Agent!StopSteps, Agent!FailSteps, Agent!CleanSteps, Agent!DrainSteps

\* StartRunning keeps every live adapter in a session or in the hands of a request.
LEMMA LiveRStartRunning ==
  ASSUME Agent!IInv, LiveInv, CleanAd, NEW t \in Reqs, Agent!StartRunning(t)
  PROVE LiveInv' /\ CleanAd'
  <1>1. agentPc[t] # "idle" /\ agentWs[t] \in Workspaces /\ t \in Agent!Threads
    BY
    DEF Agent!IInv, Agent!SessionInv, Agent!ThreadsInPlace, Agent!StartRunning,
        Agent!Threads
  <1>2. PICK ok \in BOOLEAN : Agent!UpdateWorkspace(t, agentWs[t], "running",
               Agent!CtxOK(t), ok)
    BY DEF Agent!StartRunning
  <1>3. ctxDone' = ctxDone \/ (t \in Reqs /\ ctxDone' = ctxDone \cup {t})
    BY <1>1, <1>2, UpdateDone
  <1>4. LiveMoves
    BY <1>3, AdapterFacts
    DEF LiveMoves, Agent!IInv, Agent!TypeOK, Agent!SessionInv,
        Agent!ThreadsInPlace, Agent!AdaptersHeld, Agent!HoldingSteps,
        Agent!Closed, Agent!StartRunning, Agent!Goto, Agent!Threads,
        Agent!AdapterStop
  <1>5. CleanAd'
    BY <1>3, AdapterFacts
    DEF CleanAd, Agent!IInv, Agent!TypeOK, Agent!SessionInv,
        Agent!ThreadsInPlace, Agent!NoDeadSession, Agent!FreeUnknown,
        Agent!AdaptersHeld, Agent!HoldingSteps, Agent!Starting,
        Agent!StartRunning, Agent!Goto, Agent!Threads, Agent!AdapterStop
  <1> QED BY <1>4, <1>5, LiveKept

\* StartRegister is a move of its own thread.
LEMMA MovesRStartRegister ==
  ASSUME Agent!IInv, NEW t \in Reqs, Agent!StartRegister(t) PROVE AgentMoves(t)
  BY AdapterFacts
  DEF AgentMoves, Agent!IInv, Agent!TypeOK, Agent!SessionInv,
      Agent!ThreadsInPlace, Agent!AdaptersHeld, Agent!HoldingSteps,
      Agent!StartRegister, Agent!Goto, Agent!Threads, Agent!StopSteps,
      Agent!FailSteps, Agent!CleanSteps, Agent!DrainSteps

\* StartPreempt is a move of its own thread.
LEMMA MovesRStartPreempt ==
  ASSUME Agent!IInv, NEW t \in Reqs, Agent!StartPreempt(t) PROVE AgentMoves(t)
  BY AdapterFacts
  DEF AgentMoves, Agent!IInv, Agent!TypeOK, Agent!SessionInv,
      Agent!ThreadsInPlace, Agent!AdaptersHeld, Agent!HoldingSteps,
      Agent!StartPreempt, Agent!Goto, Agent!Threads, Agent!AdapterStop,
      Agent!StopSteps, Agent!FailSteps, Agent!CleanSteps, Agent!DrainSteps

\* StartPreempt keeps every live adapter in a session or in the hands of a request.
LEMMA LiveRStartPreempt ==
  ASSUME Agent!IInv, LiveInv, CleanAd, NEW t \in Reqs, Agent!StartPreempt(t)
  PROVE LiveInv' /\ CleanAd'
  <1>1. LiveMoves
    BY AdapterFacts
    DEF LiveMoves, Agent!IInv, Agent!TypeOK, Agent!SessionInv,
        Agent!ThreadsInPlace, Agent!AdaptersHeld, Agent!HoldingSteps,
        Agent!Closed, Agent!StartPreempt, Agent!Goto, Agent!Threads,
        Agent!AdapterStop
  <1>2. CleanAd'
    BY AdapterFacts
    DEF CleanAd, Agent!IInv, Agent!TypeOK, Agent!SessionInv,
        Agent!ThreadsInPlace, Agent!NoDeadSession, Agent!FreeUnknown,
        Agent!AdaptersHeld, Agent!HoldingSteps, Agent!Starting,
        Agent!StartPreempt, Agent!Goto, Agent!Threads, Agent!AdapterStop
  <1> QED BY <1>1, <1>2, LiveKept

\* StartPrompt is a move of its own thread.
LEMMA MovesRStartPrompt ==
  ASSUME Agent!IInv, NEW t \in Reqs, Agent!StartPrompt(t) PROVE AgentMoves(t)
  BY AdapterFacts
  DEF AgentMoves, Agent!IInv, Agent!TypeOK, Agent!SessionInv,
      Agent!ThreadsInPlace, Agent!AdaptersHeld, Agent!HoldingSteps,
      Agent!StartPrompt, Agent!Goto, Agent!Threads, Agent!AdapterSendPrompt,
      Agent!StopSteps, Agent!FailSteps, Agent!CleanSteps, Agent!DrainSteps

\* StartPrompt keeps every live adapter in a session or in the hands of a request.
LEMMA LiveRStartPrompt ==
  ASSUME Agent!IInv, LiveInv, CleanAd, NEW t \in Reqs, Agent!StartPrompt(t)
  PROVE LiveInv' /\ CleanAd'
  <1>1. LiveMoves
    BY AdapterFacts
    DEF LiveMoves, Agent!IInv, Agent!TypeOK, Agent!SessionInv,
        Agent!ThreadsInPlace, Agent!AdaptersHeld, Agent!HoldingSteps,
        Agent!Closed, Agent!StartPrompt, Agent!Goto, Agent!Threads,
        Agent!AdapterSendPrompt
  <1>2. CleanAd'
    BY AdapterFacts
    DEF CleanAd, Agent!IInv, Agent!TypeOK, Agent!SessionInv,
        Agent!ThreadsInPlace, Agent!NoDeadSession, Agent!FreeUnknown,
        Agent!AdaptersHeld, Agent!HoldingSteps, Agent!Starting,
        Agent!StartPrompt, Agent!Goto, Agent!Threads, Agent!AdapterSendPrompt
  <1> QED BY <1>1, <1>2, LiveKept

\* StartPersist is a move of its own thread.
LEMMA MovesRStartPersist ==
  ASSUME Agent!IInv, NEW t \in Reqs, Agent!StartPersist(t) PROVE AgentMoves(t)
  BY AdapterFacts
  DEF AgentMoves, Agent!IInv, Agent!TypeOK, Agent!SessionInv,
      Agent!ThreadsInPlace, Agent!AdaptersHeld, Agent!HoldingSteps,
      Agent!StartPersist, Agent!Goto, Agent!Threads, Agent!StopSteps,
      Agent!FailSteps, Agent!CleanSteps, Agent!DrainSteps

\* StartPersist keeps every live adapter in a session or in the hands of a request.
LEMMA LiveRStartPersist ==
  ASSUME Agent!IInv, LiveInv, CleanAd, NEW t \in Reqs, Agent!StartPersist(t)
  PROVE LiveInv' /\ CleanAd'
  <1>1. LiveMoves
    BY AdapterFacts
    DEF LiveMoves, Agent!IInv, Agent!TypeOK, Agent!SessionInv,
        Agent!ThreadsInPlace, Agent!AdaptersHeld, Agent!HoldingSteps,
        Agent!Starting, Agent!StartPersist, Agent!Goto, Agent!Threads
  <1>2. CleanAd'
    BY AdapterFacts
    DEF CleanAd, Agent!IInv, Agent!TypeOK, Agent!SessionInv,
        Agent!ThreadsInPlace, Agent!NoDeadSession, Agent!FreeUnknown,
        Agent!AdaptersHeld, Agent!HoldingSteps, Agent!Starting,
        Agent!StartPersist, Agent!Goto, Agent!Threads
  <1> QED BY <1>1, <1>2, LiveKept

\* PromptLookup is a move of its own thread.
LEMMA MovesRPromptLookup ==
  ASSUME Agent!IInv, NEW t \in Reqs, Agent!PromptLookup(t) PROVE AgentMoves(t)
  BY AdapterFacts
  DEF AgentMoves, Agent!IInv, Agent!TypeOK, Agent!SessionInv,
      Agent!ThreadsInPlace, Agent!AdaptersHeld, Agent!HoldingSteps,
      Agent!PromptLookup, Agent!Goto, Agent!Threads, Agent!StopSteps,
      Agent!FailSteps, Agent!CleanSteps, Agent!DrainSteps

\* PromptLookup keeps every live adapter in a session or in the hands of a request.
LEMMA LiveRPromptLookup ==
  ASSUME Agent!IInv, LiveInv, CleanAd, NEW t \in Reqs, Agent!PromptLookup(t)
  PROVE LiveInv' /\ CleanAd'
  <1>1. LiveMoves
    BY AdapterFacts
    DEF LiveMoves, Agent!IInv, Agent!TypeOK, Agent!SessionInv,
        Agent!ThreadsInPlace, Agent!AdaptersHeld, Agent!HoldingSteps,
        Agent!Closed, Agent!PromptLookup, Agent!Goto, Agent!Threads
  <1>2. CleanAd'
    BY AdapterFacts
    DEF CleanAd, Agent!IInv, Agent!TypeOK, Agent!SessionInv,
        Agent!ThreadsInPlace, Agent!NoDeadSession, Agent!FreeUnknown,
        Agent!AdaptersHeld, Agent!HoldingSteps, Agent!Starting,
        Agent!PromptLookup, Agent!Goto, Agent!Threads
  <1> QED BY <1>1, <1>2, LiveKept

\* PromptCheck is a move of its own thread.
LEMMA MovesRPromptCheck ==
  ASSUME Agent!IInv, NEW t \in Reqs, Agent!PromptCheck(t) PROVE AgentMoves(t)
  BY AdapterFacts
  DEF AgentMoves, Agent!IInv, Agent!TypeOK, Agent!SessionInv,
      Agent!ThreadsInPlace, Agent!AdaptersHeld, Agent!HoldingSteps,
      Agent!PromptCheck, Agent!Goto, Agent!Threads, Agent!StopSteps,
      Agent!FailSteps, Agent!CleanSteps, Agent!DrainSteps

\* PromptCheck keeps every live adapter in a session or in the hands of a request.
LEMMA LiveRPromptCheck ==
  ASSUME Agent!IInv, LiveInv, CleanAd, NEW t \in Reqs, Agent!PromptCheck(t)
  PROVE LiveInv' /\ CleanAd'
  <1>1. LiveMoves
    BY AdapterFacts
    DEF LiveMoves, Agent!IInv, Agent!TypeOK, Agent!SessionInv,
        Agent!ThreadsInPlace, Agent!AdaptersHeld, Agent!HoldingSteps,
        Agent!Closed, Agent!PromptCheck, Agent!Goto, Agent!Threads
  <1>2. CleanAd'
    BY AdapterFacts
    DEF CleanAd, Agent!IInv, Agent!TypeOK, Agent!SessionInv,
        Agent!ThreadsInPlace, Agent!NoDeadSession, Agent!FreeUnknown,
        Agent!AdaptersHeld, Agent!HoldingSteps, Agent!Starting,
        Agent!PromptCheck, Agent!Goto, Agent!Threads
  <1> QED BY <1>1, <1>2, LiveKept

\* PromptRunning is a move of its own thread.
LEMMA MovesRPromptRunning ==
  ASSUME Agent!IInv, NEW t \in Reqs, Agent!PromptRunning(t) PROVE AgentMoves(t)
  <1>1. agentPc[t] # "idle" /\ agentWs[t] \in Workspaces /\ t \in Agent!Threads
    BY
    DEF Agent!IInv, Agent!SessionInv, Agent!ThreadsInPlace, Agent!PromptRunning,
        Agent!Threads
  <1>2. PICK ok \in BOOLEAN : Agent!UpdateWorkspace(t, agentWs[t], "running",
               Agent!CtxOK(t), ok)
    BY DEF Agent!PromptRunning
  <1>3. \A w \in Workspaces : status'[w] = "none" <=> status[w] = "none"
    BY <1>1, <1>2, UpdateRows DEF Agent!IInv, Agent!TypeOK
  <1> QED
    BY <1>3, AdapterFacts
    DEF AgentMoves, Agent!IInv, Agent!TypeOK, Agent!SessionInv,
        Agent!ThreadsInPlace, Agent!AdaptersHeld, Agent!HoldingSteps,
        Agent!PromptRunning, Agent!Goto, Agent!Threads, Agent!StopSteps,
        Agent!FailSteps, Agent!CleanSteps, Agent!DrainSteps

\* PromptRunning keeps every live adapter in a session or in the hands of a request.
LEMMA LiveRPromptRunning ==
  ASSUME Agent!IInv, LiveInv, CleanAd, NEW t \in Reqs, Agent!PromptRunning(t)
  PROVE LiveInv' /\ CleanAd'
  <1>1. agentPc[t] # "idle" /\ agentWs[t] \in Workspaces /\ t \in Agent!Threads
    BY
    DEF Agent!IInv, Agent!SessionInv, Agent!ThreadsInPlace, Agent!PromptRunning,
        Agent!Threads
  <1>2. PICK ok \in BOOLEAN : Agent!UpdateWorkspace(t, agentWs[t], "running",
               Agent!CtxOK(t), ok)
    BY DEF Agent!PromptRunning
  <1>3. ctxDone' = ctxDone \/ (t \in Reqs /\ ctxDone' = ctxDone \cup {t})
    BY <1>1, <1>2, UpdateDone
  <1>4. LiveMoves
    BY <1>3, AdapterFacts
    DEF LiveMoves, Agent!IInv, Agent!TypeOK, Agent!SessionInv,
        Agent!ThreadsInPlace, Agent!AdaptersHeld, Agent!HoldingSteps,
        Agent!Closed, Agent!PromptRunning, Agent!Goto, Agent!Threads
  <1>5. CleanAd'
    BY <1>3, AdapterFacts
    DEF CleanAd, Agent!IInv, Agent!TypeOK, Agent!SessionInv,
        Agent!ThreadsInPlace, Agent!NoDeadSession, Agent!FreeUnknown,
        Agent!AdaptersHeld, Agent!HoldingSteps, Agent!Starting,
        Agent!PromptRunning, Agent!Goto, Agent!Threads
  <1> QED BY <1>4, <1>5, LiveKept

\* PromptSend is a move of its own thread.
LEMMA MovesRPromptSend ==
  ASSUME Agent!IInv, NEW t \in Reqs, Agent!PromptSend(t) PROVE AgentMoves(t)
  BY AdapterFacts
  DEF AgentMoves, Agent!IInv, Agent!TypeOK, Agent!SessionInv,
      Agent!ThreadsInPlace, Agent!AdaptersHeld, Agent!HoldingSteps,
      Agent!PromptSend, Agent!Goto, Agent!Threads, Agent!AdapterSendPrompt,
      Agent!StopSteps, Agent!FailSteps, Agent!CleanSteps, Agent!DrainSteps

\* PromptSend keeps every live adapter in a session or in the hands of a request.
LEMMA LiveRPromptSend ==
  ASSUME Agent!IInv, LiveInv, CleanAd, NEW t \in Reqs, Agent!PromptSend(t)
  PROVE LiveInv' /\ CleanAd'
  <1>1. LiveMoves
    BY AdapterFacts
    DEF LiveMoves, Agent!IInv, Agent!TypeOK, Agent!SessionInv,
        Agent!ThreadsInPlace, Agent!AdaptersHeld, Agent!HoldingSteps,
        Agent!Closed, Agent!PromptSend, Agent!Goto, Agent!Threads,
        Agent!AdapterSendPrompt
  <1>2. CleanAd'
    BY AdapterFacts
    DEF CleanAd, Agent!IInv, Agent!TypeOK, Agent!SessionInv,
        Agent!ThreadsInPlace, Agent!NoDeadSession, Agent!FreeUnknown,
        Agent!AdaptersHeld, Agent!HoldingSteps, Agent!Starting,
        Agent!PromptSend, Agent!Goto, Agent!Threads, Agent!AdapterSendPrompt
  <1> QED BY <1>1, <1>2, LiveKept

\* PromptPersist is a move of its own thread.
LEMMA MovesRPromptPersist ==
  ASSUME Agent!IInv, NEW t \in Reqs, Agent!PromptPersist(t) PROVE AgentMoves(t)
  BY AdapterFacts
  DEF AgentMoves, Agent!IInv, Agent!TypeOK, Agent!SessionInv,
      Agent!ThreadsInPlace, Agent!AdaptersHeld, Agent!HoldingSteps,
      Agent!PromptPersist, Agent!Goto, Agent!Threads, Agent!StopSteps,
      Agent!FailSteps, Agent!CleanSteps, Agent!DrainSteps

\* PromptPersist keeps every live adapter in a session or in the hands of a request.
LEMMA LiveRPromptPersist ==
  ASSUME Agent!IInv, LiveInv, CleanAd, NEW t \in Reqs, Agent!PromptPersist(t)
  PROVE LiveInv' /\ CleanAd'
  <1>1. LiveMoves
    BY AdapterFacts
    DEF LiveMoves, Agent!IInv, Agent!TypeOK, Agent!SessionInv,
        Agent!ThreadsInPlace, Agent!AdaptersHeld, Agent!HoldingSteps,
        Agent!Closed, Agent!PromptPersist, Agent!Goto, Agent!Threads
  <1>2. CleanAd'
    BY AdapterFacts
    DEF CleanAd, Agent!IInv, Agent!TypeOK, Agent!SessionInv,
        Agent!ThreadsInPlace, Agent!NoDeadSession, Agent!FreeUnknown,
        Agent!AdaptersHeld, Agent!HoldingSteps, Agent!Starting,
        Agent!PromptPersist, Agent!Goto, Agent!Threads
  <1> QED BY <1>1, <1>2, LiveKept

\* StopLookup is a move of its own thread.
LEMMA MovesRStopLookup ==
  ASSUME Agent!IInv, NEW t \in Reqs, Agent!StopLookup(t) PROVE AgentMoves(t)
  BY AdapterFacts
  DEF AgentMoves, Agent!IInv, Agent!TypeOK, Agent!SessionInv,
      Agent!ThreadsInPlace, Agent!AdaptersHeld, Agent!HoldingSteps,
      Agent!StopLookup, Agent!Goto, Agent!Threads, Agent!StopSteps,
      Agent!FailSteps, Agent!CleanSteps, Agent!DrainSteps

\* StopLookup keeps every live adapter in a session or in the hands of a request.
LEMMA LiveRStopLookup ==
  ASSUME Agent!IInv, LiveInv, CleanAd, NEW t \in Reqs, Agent!StopLookup(t)
  PROVE LiveInv' /\ CleanAd'
  <1>1. LiveMoves
    BY AdapterFacts
    DEF LiveMoves, Agent!IInv, Agent!TypeOK, Agent!SessionInv,
        Agent!ThreadsInPlace, Agent!AdaptersHeld, Agent!HoldingSteps,
        Agent!Closed, Agent!StopLookup, Agent!Goto, Agent!Threads
  <1>2. CleanAd'
    BY AdapterFacts
    DEF CleanAd, Agent!IInv, Agent!TypeOK, Agent!SessionInv,
        Agent!ThreadsInPlace, Agent!NoDeadSession, Agent!FreeUnknown,
        Agent!AdaptersHeld, Agent!HoldingSteps, Agent!Starting,
        Agent!StopLookup, Agent!Goto, Agent!Threads
  <1> QED BY <1>1, <1>2, LiveKept

\* StopCancel is a move of its own thread.
LEMMA MovesRStopCancel ==
  ASSUME Agent!IInv, NEW t \in Reqs, Agent!StopCancel(t) PROVE AgentMoves(t)
  BY AdapterFacts
  DEF AgentMoves, Agent!IInv, Agent!TypeOK, Agent!SessionInv,
      Agent!ThreadsInPlace, Agent!AdaptersHeld, Agent!HoldingSteps,
      Agent!StopCancel, Agent!Goto, Agent!Threads, Agent!StopSteps,
      Agent!FailSteps, Agent!CleanSteps, Agent!DrainSteps

\* StopCancel keeps every live adapter in a session or in the hands of a request.
LEMMA LiveRStopCancel ==
  ASSUME Agent!IInv, LiveInv, CleanAd, NEW t \in Reqs, Agent!StopCancel(t)
  PROVE LiveInv' /\ CleanAd'
  <1>1. LiveMoves
    BY AdapterFacts
    DEF LiveMoves, Agent!IInv, Agent!TypeOK, Agent!SessionInv,
        Agent!ThreadsInPlace, Agent!AdaptersHeld, Agent!HoldingSteps,
        Agent!Closed, Agent!StopCancel, Agent!Goto, Agent!Threads
  <1>2. CleanAd'
    BY AdapterFacts
    DEF CleanAd, Agent!IInv, Agent!TypeOK, Agent!SessionInv,
        Agent!ThreadsInPlace, Agent!NoDeadSession, Agent!FreeUnknown,
        Agent!AdaptersHeld, Agent!HoldingSteps, Agent!Starting,
        Agent!StopCancel, Agent!Goto, Agent!Threads
  <1> QED BY <1>1, <1>2, LiveKept

\* StopKill is a move of its own thread.
LEMMA MovesRStopKill ==
  ASSUME Agent!IInv, NEW t \in Reqs, Agent!StopKill(t) PROVE AgentMoves(t)
  BY AdapterFacts
  DEF AgentMoves, Agent!IInv, Agent!TypeOK, Agent!SessionInv,
      Agent!ThreadsInPlace, Agent!AdaptersHeld, Agent!HoldingSteps,
      Agent!StopKill, Agent!Goto, Agent!Threads, Agent!AdapterStop,
      Agent!StopSteps, Agent!FailSteps, Agent!CleanSteps, Agent!DrainSteps

\* StopKill keeps every live adapter in a session or in the hands of a request.
LEMMA LiveRStopKill ==
  ASSUME Agent!IInv, LiveInv, CleanAd, NEW t \in Reqs, Agent!StopKill(t)
  PROVE LiveInv' /\ CleanAd'
  <1>1. LiveMoves
    BY AdapterFacts
    DEF LiveMoves, Agent!IInv, Agent!TypeOK, Agent!SessionInv,
        Agent!ThreadsInPlace, Agent!AdaptersHeld, Agent!HoldingSteps,
        Agent!Closed, Agent!StopKill, Agent!Goto, Agent!Threads,
        Agent!AdapterStop
  <1>2. CleanAd'
    BY AdapterFacts
    DEF CleanAd, Agent!IInv, Agent!TypeOK, Agent!SessionInv,
        Agent!ThreadsInPlace, Agent!NoDeadSession, Agent!FreeUnknown,
        Agent!AdaptersHeld, Agent!HoldingSteps, Agent!Starting, Agent!StopKill,
        Agent!Goto, Agent!Threads, Agent!AdapterStop
  <1> QED BY <1>1, <1>2, LiveKept

\* StopRead is a move of its own thread.
LEMMA MovesRStopRead ==
  ASSUME Agent!IInv, NEW t \in Reqs, Agent!StopRead(t) PROVE AgentMoves(t)
  BY AdapterFacts
  DEF AgentMoves, Agent!IInv, Agent!TypeOK, Agent!SessionInv,
      Agent!ThreadsInPlace, Agent!AdaptersHeld, Agent!HoldingSteps,
      Agent!StopRead, Agent!Goto, Agent!Threads, Agent!StopSteps,
      Agent!FailSteps, Agent!CleanSteps, Agent!DrainSteps

\* StopRead keeps every live adapter in a session or in the hands of a request.
LEMMA LiveRStopRead ==
  ASSUME Agent!IInv, LiveInv, CleanAd, NEW t \in Reqs, Agent!StopRead(t)
  PROVE LiveInv' /\ CleanAd'
  <1>1. LiveMoves
    BY AdapterFacts
    DEF LiveMoves, Agent!IInv, Agent!TypeOK, Agent!SessionInv,
        Agent!ThreadsInPlace, Agent!AdaptersHeld, Agent!HoldingSteps,
        Agent!Closed, Agent!StopRead, Agent!Goto, Agent!Threads
  <1>2. CleanAd'
    BY AdapterFacts
    DEF CleanAd, Agent!IInv, Agent!TypeOK, Agent!SessionInv,
        Agent!ThreadsInPlace, Agent!NoDeadSession, Agent!FreeUnknown,
        Agent!AdaptersHeld, Agent!HoldingSteps, Agent!Starting, Agent!StopRead,
        Agent!Goto, Agent!Threads
  <1> QED BY <1>1, <1>2, LiveKept

\* StopWrite is a move of its own thread.
LEMMA MovesRStopWrite ==
  ASSUME Agent!IInv, NEW t \in Reqs, Agent!StopWrite(t) PROVE AgentMoves(t)
  <1>1. agentPc[t] # "idle" /\ agentWs[t] \in Workspaces /\ t \in Agent!Threads
    BY
    DEF Agent!IInv, Agent!SessionInv, Agent!ThreadsInPlace, Agent!StopWrite,
        Agent!Threads
  <1>2. PICK ok \in BOOLEAN : Agent!UpdateWorkspace(t, agentWs[t], "cancelled",
               Agent!CtxOK(t), ok)
    BY DEF Agent!StopWrite
  <1>3. \A w \in Workspaces : status'[w] = "none" <=> status[w] = "none"
    BY <1>1, <1>2, UpdateRows DEF Agent!IInv, Agent!TypeOK
  <1> QED
    BY <1>3, AdapterFacts
    DEF AgentMoves, Agent!IInv, Agent!TypeOK, Agent!SessionInv,
        Agent!ThreadsInPlace, Agent!AdaptersHeld, Agent!HoldingSteps,
        Agent!StopWrite, Agent!Goto, Agent!Threads, Agent!StopSteps,
        Agent!FailSteps, Agent!CleanSteps, Agent!DrainSteps

\* StopWrite keeps every live adapter in a session or in the hands of a request.
LEMMA LiveRStopWrite ==
  ASSUME Agent!IInv, LiveInv, CleanAd, NEW t \in Reqs, Agent!StopWrite(t)
  PROVE LiveInv' /\ CleanAd'
  <1>1. agentPc[t] # "idle" /\ agentWs[t] \in Workspaces /\ t \in Agent!Threads
    BY
    DEF Agent!IInv, Agent!SessionInv, Agent!ThreadsInPlace, Agent!StopWrite,
        Agent!Threads
  <1>2. PICK ok \in BOOLEAN : Agent!UpdateWorkspace(t, agentWs[t], "cancelled",
               Agent!CtxOK(t), ok)
    BY DEF Agent!StopWrite
  <1>3. ctxDone' = ctxDone \/ (t \in Reqs /\ ctxDone' = ctxDone \cup {t})
    BY <1>1, <1>2, UpdateDone
  <1>4. LiveMoves
    BY <1>3, AdapterFacts
    DEF LiveMoves, Agent!IInv, Agent!TypeOK, Agent!SessionInv,
        Agent!ThreadsInPlace, Agent!AdaptersHeld, Agent!HoldingSteps,
        Agent!Closed, Agent!StopWrite, Agent!Goto, Agent!Threads
  <1>5. CleanAd'
    BY <1>3, AdapterFacts
    DEF CleanAd, Agent!IInv, Agent!TypeOK, Agent!SessionInv,
        Agent!ThreadsInPlace, Agent!NoDeadSession, Agent!FreeUnknown,
        Agent!AdaptersHeld, Agent!HoldingSteps, Agent!Starting, Agent!StopWrite,
        Agent!Goto, Agent!Threads
  <1> QED BY <1>4, <1>5, LiveKept

\* CompleteRead is a move of its own thread.
LEMMA MovesRCompleteRead ==
  ASSUME Agent!IInv, NEW t \in Reqs, Agent!CompleteRead(t) PROVE AgentMoves(t)
  BY AdapterFacts
  DEF AgentMoves, Agent!IInv, Agent!TypeOK, Agent!SessionInv,
      Agent!ThreadsInPlace, Agent!AdaptersHeld, Agent!HoldingSteps,
      Agent!CompleteRead, Agent!Goto, Agent!Threads, Agent!StopSteps,
      Agent!FailSteps, Agent!CleanSteps, Agent!DrainSteps

\* CompleteRead keeps every live adapter in a session or in the hands of a request.
LEMMA LiveRCompleteRead ==
  ASSUME Agent!IInv, LiveInv, CleanAd, NEW t \in Reqs, Agent!CompleteRead(t)
  PROVE LiveInv' /\ CleanAd'
  <1>1. LiveMoves
    BY AdapterFacts
    DEF LiveMoves, Agent!IInv, Agent!TypeOK, Agent!SessionInv,
        Agent!ThreadsInPlace, Agent!AdaptersHeld, Agent!HoldingSteps,
        Agent!Closed, Agent!CompleteRead, Agent!Goto, Agent!Threads
  <1>2. CleanAd'
    BY AdapterFacts
    DEF CleanAd, Agent!IInv, Agent!TypeOK, Agent!SessionInv,
        Agent!ThreadsInPlace, Agent!NoDeadSession, Agent!FreeUnknown,
        Agent!AdaptersHeld, Agent!HoldingSteps, Agent!Starting,
        Agent!CompleteRead, Agent!Goto, Agent!Threads
  <1> QED BY <1>1, <1>2, LiveKept

\* CompleteWrite is a move of its own thread.
LEMMA MovesRCompleteWrite ==
  ASSUME Agent!IInv, NEW t \in Reqs, Agent!CompleteWrite(t) PROVE AgentMoves(t)
  <1>1. agentPc[t] # "idle" /\ agentWs[t] \in Workspaces /\ t \in Agent!Threads
    BY
    DEF Agent!IInv, Agent!SessionInv, Agent!ThreadsInPlace, Agent!CompleteWrite,
        Agent!Threads
  <1>2. PICK ok \in BOOLEAN : Agent!UpdateWorkspace(t, agentWs[t], "completed",
               Agent!CtxOK(t), ok)
    BY DEF Agent!CompleteWrite
  <1>3. \A w \in Workspaces : status'[w] = "none" <=> status[w] = "none"
    BY <1>1, <1>2, UpdateRows DEF Agent!IInv, Agent!TypeOK
  <1> QED
    BY <1>3, AdapterFacts
    DEF AgentMoves, Agent!IInv, Agent!TypeOK, Agent!SessionInv,
        Agent!ThreadsInPlace, Agent!AdaptersHeld, Agent!HoldingSteps,
        Agent!CompleteWrite, Agent!Goto, Agent!Threads, Agent!StopSteps,
        Agent!FailSteps, Agent!CleanSteps, Agent!DrainSteps

\* CompleteWrite keeps every live adapter in a session or in the hands of a request.
LEMMA LiveRCompleteWrite ==
  ASSUME Agent!IInv, LiveInv, CleanAd, NEW t \in Reqs, Agent!CompleteWrite(t)
  PROVE LiveInv' /\ CleanAd'
  <1>1. agentPc[t] # "idle" /\ agentWs[t] \in Workspaces /\ t \in Agent!Threads
    BY
    DEF Agent!IInv, Agent!SessionInv, Agent!ThreadsInPlace, Agent!CompleteWrite,
        Agent!Threads
  <1>2. PICK ok \in BOOLEAN : Agent!UpdateWorkspace(t, agentWs[t], "completed",
               Agent!CtxOK(t), ok)
    BY DEF Agent!CompleteWrite
  <1>3. ctxDone' = ctxDone \/ (t \in Reqs /\ ctxDone' = ctxDone \cup {t})
    BY <1>1, <1>2, UpdateDone
  <1>4. LiveMoves
    BY <1>3, AdapterFacts
    DEF LiveMoves, Agent!IInv, Agent!TypeOK, Agent!SessionInv,
        Agent!ThreadsInPlace, Agent!AdaptersHeld, Agent!HoldingSteps,
        Agent!Closed, Agent!CompleteWrite, Agent!Goto, Agent!Threads
  <1>5. CleanAd'
    BY <1>3, AdapterFacts
    DEF CleanAd, Agent!IInv, Agent!TypeOK, Agent!SessionInv,
        Agent!ThreadsInPlace, Agent!NoDeadSession, Agent!FreeUnknown,
        Agent!AdaptersHeld, Agent!HoldingSteps, Agent!Starting,
        Agent!CompleteWrite, Agent!Goto, Agent!Threads
  <1> QED BY <1>4, <1>5, LiveKept

\* FailRead is a move of its own thread.
LEMMA MovesRFailRead ==
  ASSUME Agent!IInv, NEW t \in Reqs, Agent!FailRead(t) PROVE AgentMoves(t)
  BY AdapterFacts
  DEF AgentMoves, Agent!IInv, Agent!TypeOK, Agent!SessionInv,
      Agent!ThreadsInPlace, Agent!AdaptersHeld, Agent!HoldingSteps,
      Agent!FailRead, Agent!Goto, Agent!Threads, Agent!Return, Agent!StopSteps,
      Agent!FailSteps, Agent!CleanSteps, Agent!DrainSteps

\* FailRead keeps every live adapter in a session or in the hands of a request.
LEMMA LiveRFailRead ==
  ASSUME Agent!IInv, LiveInv, CleanAd, NEW t \in Reqs, Agent!FailRead(t)
  PROVE LiveInv' /\ CleanAd'
  <1>1. LiveMoves
    BY AdapterFacts
    DEF LiveMoves, Agent!IInv, Agent!TypeOK, Agent!SessionInv,
        Agent!ThreadsInPlace, Agent!AdaptersHeld, Agent!HoldingSteps,
        Agent!Closed, Agent!FailRead, Agent!Goto, Agent!Threads, Agent!Return
  <1>2. CleanAd'
    BY AdapterFacts
    DEF CleanAd, Agent!IInv, Agent!TypeOK, Agent!SessionInv,
        Agent!ThreadsInPlace, Agent!NoDeadSession, Agent!FreeUnknown,
        Agent!AdaptersHeld, Agent!HoldingSteps, Agent!Starting, Agent!FailRead,
        Agent!Goto, Agent!Threads, Agent!Return
  <1> QED BY <1>1, <1>2, LiveKept

\* FailWrite is a move of its own thread.
LEMMA MovesRFailWrite ==
  ASSUME Agent!IInv, NEW t \in Reqs, Agent!FailWrite(t) PROVE AgentMoves(t)
  <1>1. agentPc[t] # "idle" /\ agentWs[t] \in Workspaces /\ t \in Agent!Threads
    BY
    DEF Agent!IInv, Agent!SessionInv, Agent!ThreadsInPlace, Agent!FailWrite,
        Agent!Threads
  <1>2. PICK ok \in BOOLEAN : Agent!UpdateWorkspace(t, agentWs[t], "failed",
               Agent!FailCtxOK(t), ok)
    BY DEF Agent!FailWrite
  <1>3. \A w \in Workspaces : status'[w] = "none" <=> status[w] = "none"
    BY <1>1, <1>2, UpdateRows DEF Agent!IInv, Agent!TypeOK
  <1> QED
    BY <1>3, AdapterFacts
    DEF AgentMoves, Agent!IInv, Agent!TypeOK, Agent!SessionInv,
        Agent!ThreadsInPlace, Agent!AdaptersHeld, Agent!HoldingSteps,
        Agent!FailWrite, Agent!Goto, Agent!Threads, Agent!Return,
        Agent!StopSteps, Agent!FailSteps, Agent!CleanSteps, Agent!DrainSteps

\* FailWrite keeps every live adapter in a session or in the hands of a request.
LEMMA LiveRFailWrite ==
  ASSUME Agent!IInv, LiveInv, CleanAd, NEW t \in Reqs, Agent!FailWrite(t)
  PROVE LiveInv' /\ CleanAd'
  <1>1. agentPc[t] # "idle" /\ agentWs[t] \in Workspaces /\ t \in Agent!Threads
    BY
    DEF Agent!IInv, Agent!SessionInv, Agent!ThreadsInPlace, Agent!FailWrite,
        Agent!Threads
  <1>2. PICK ok \in BOOLEAN : Agent!UpdateWorkspace(t, agentWs[t], "failed",
               Agent!FailCtxOK(t), ok)
    BY DEF Agent!FailWrite
  <1>3. ctxDone' = ctxDone \/ (t \in Reqs /\ ctxDone' = ctxDone \cup {t})
    BY <1>1, <1>2, UpdateDone
  <1>4. LiveMoves
    BY <1>3, AdapterFacts
    DEF LiveMoves, Agent!IInv, Agent!TypeOK, Agent!SessionInv,
        Agent!ThreadsInPlace, Agent!AdaptersHeld, Agent!HoldingSteps,
        Agent!Closed, Agent!FailWrite, Agent!Goto, Agent!Threads, Agent!Return
  <1>5. CleanAd'
    BY <1>3, AdapterFacts
    DEF CleanAd, Agent!IInv, Agent!TypeOK, Agent!SessionInv,
        Agent!ThreadsInPlace, Agent!NoDeadSession, Agent!FreeUnknown,
        Agent!AdaptersHeld, Agent!HoldingSteps, Agent!Starting, Agent!FailWrite,
        Agent!Goto, Agent!Threads, Agent!Return
  <1> QED BY <1>4, <1>5, LiveKept

\* CleanDelete is a move of its own thread.
LEMMA MovesRCleanDelete ==
  ASSUME Agent!IInv, NEW t \in Reqs, Agent!CleanDelete(t) PROVE AgentMoves(t)
  BY AdapterFacts
  DEF AgentMoves, Agent!IInv, Agent!TypeOK, Agent!SessionInv,
      Agent!ThreadsInPlace, Agent!AdaptersHeld, Agent!HoldingSteps,
      Agent!CleanDelete, Agent!Goto, Agent!Threads, Agent!StopSteps,
      Agent!FailSteps, Agent!CleanSteps, Agent!DrainSteps

\* CleanCancel is a move of its own thread.
LEMMA MovesRCleanCancel ==
  ASSUME Agent!IInv, NEW t \in Reqs, Agent!CleanCancel(t) PROVE AgentMoves(t)
  BY AdapterFacts
  DEF AgentMoves, Agent!IInv, Agent!TypeOK, Agent!SessionInv,
      Agent!ThreadsInPlace, Agent!AdaptersHeld, Agent!HoldingSteps,
      Agent!CleanCancel, Agent!Goto, Agent!Threads, Agent!Return,
      Agent!StopSteps, Agent!FailSteps, Agent!CleanSteps, Agent!DrainSteps

\* CleanCancel keeps every live adapter in a session or in the hands of a request.
LEMMA LiveRCleanCancel ==
  ASSUME Agent!IInv, LiveInv, CleanAd, NEW t \in Reqs, Agent!CleanCancel(t)
  PROVE LiveInv' /\ CleanAd'
  <1>1. LiveMoves
    BY AdapterFacts
    DEF LiveMoves, Agent!IInv, Agent!TypeOK, Agent!SessionInv,
        Agent!ThreadsInPlace, Agent!AdaptersHeld, Agent!HoldingSteps,
        Agent!Closed, Agent!CleanCancel, Agent!Goto, Agent!Threads, Agent!Return
  <1>2. CleanAd'
    BY AdapterFacts
    DEF CleanAd, Agent!IInv, Agent!TypeOK, Agent!SessionInv,
        Agent!ThreadsInPlace, Agent!NoDeadSession, Agent!FreeUnknown,
        Agent!AdaptersHeld, Agent!HoldingSteps, Agent!Starting,
        Agent!CleanCancel, Agent!Goto, Agent!Threads, Agent!Return
  <1> QED BY <1>1, <1>2, LiveKept

\* DrainSelect is a move of its own thread.
LEMMA MovesDDrainSelect ==
  ASSUME Agent!IInv, NEW t \in Adapters, Agent!DrainSelect(t) PROVE AgentMoves(t)
  BY AdapterFacts
  DEF AgentMoves, Agent!IInv, Agent!TypeOK, Agent!SessionInv,
      Agent!ThreadsInPlace, Agent!AdaptersHeld, Agent!HoldingSteps,
      Agent!DrainSelect, Agent!Goto, Agent!Threads, Agent!StopSteps,
      Agent!FailSteps, Agent!CleanSteps, Agent!DrainSteps

\* DrainSelect keeps every live adapter in a session or in the hands of a request.
LEMMA LiveDDrainSelect ==
  ASSUME Agent!IInv, LiveInv, CleanAd, NEW t \in Adapters, Agent!DrainSelect(t)
  PROVE LiveInv' /\ CleanAd'
  <1>1. LiveMoves
    BY AdapterFacts
    DEF LiveMoves, Agent!IInv, Agent!TypeOK, Agent!SessionInv,
        Agent!ThreadsInPlace, Agent!AdaptersHeld, Agent!HoldingSteps,
        Agent!Closed, Agent!DrainSelect, Agent!Goto, Agent!Threads
  <1>2. CleanAd'
    BY AdapterFacts
    DEF CleanAd, Agent!IInv, Agent!TypeOK, Agent!SessionInv,
        Agent!ThreadsInPlace, Agent!NoDeadSession, Agent!FreeUnknown,
        Agent!AdaptersHeld, Agent!HoldingSteps, Agent!Starting,
        Agent!DrainSelect, Agent!Goto, Agent!Threads
  <1> QED BY <1>1, <1>2, LiveKept

\* DrainClosed is a move of its own thread.
LEMMA MovesDDrainClosed ==
  ASSUME Agent!IInv, NEW t \in Adapters, Agent!DrainClosed(t) PROVE AgentMoves(t)
  BY AdapterFacts
  DEF AgentMoves, Agent!IInv, Agent!TypeOK, Agent!SessionInv,
      Agent!ThreadsInPlace, Agent!AdaptersHeld, Agent!HoldingSteps,
      Agent!DrainClosed, Agent!Goto, Agent!Threads, Agent!StopSteps,
      Agent!FailSteps, Agent!CleanSteps, Agent!DrainSteps

\* DrainClosed keeps every live adapter in a session or in the hands of a request.
LEMMA LiveDDrainClosed ==
  ASSUME Agent!IInv, LiveInv, CleanAd, NEW t \in Adapters, Agent!DrainClosed(t)
  PROVE LiveInv' /\ CleanAd'
  <1>1. LiveMoves
    BY AdapterFacts
    DEF LiveMoves, Agent!IInv, Agent!TypeOK, Agent!SessionInv,
        Agent!ThreadsInPlace, Agent!AdaptersHeld, Agent!HoldingSteps,
        Agent!Closed, Agent!DrainClosed, Agent!Goto, Agent!Threads
  <1>2. CleanAd'
    BY AdapterFacts
    DEF CleanAd, Agent!IInv, Agent!TypeOK, Agent!SessionInv,
        Agent!ThreadsInPlace, Agent!NoDeadSession, Agent!FreeUnknown,
        Agent!AdaptersHeld, Agent!HoldingSteps, Agent!Starting,
        Agent!DrainClosed, Agent!Goto, Agent!Threads
  <1> QED BY <1>1, <1>2, LiveKept

\* DrainPersist is a move of its own thread.
LEMMA MovesDDrainPersist ==
  ASSUME Agent!IInv, NEW t \in Adapters, Agent!DrainPersist(t) PROVE AgentMoves(t)
  BY AdapterFacts
  DEF AgentMoves, Agent!IInv, Agent!TypeOK, Agent!SessionInv,
      Agent!ThreadsInPlace, Agent!AdaptersHeld, Agent!HoldingSteps,
      Agent!DrainPersist, Agent!Goto, Agent!Threads, Agent!StopSteps,
      Agent!FailSteps, Agent!CleanSteps, Agent!DrainSteps

\* DrainPersist keeps every live adapter in a session or in the hands of a request.
LEMMA LiveDDrainPersist ==
  ASSUME Agent!IInv, LiveInv, CleanAd, NEW t \in Adapters, Agent!DrainPersist(t)
  PROVE LiveInv' /\ CleanAd'
  <1>1. LiveMoves
    BY AdapterFacts
    DEF LiveMoves, Agent!IInv, Agent!TypeOK, Agent!SessionInv,
        Agent!ThreadsInPlace, Agent!AdaptersHeld, Agent!HoldingSteps,
        Agent!Closed, Agent!DrainPersist, Agent!Goto, Agent!Threads
  <1>2. CleanAd'
    BY AdapterFacts
    DEF CleanAd, Agent!IInv, Agent!TypeOK, Agent!SessionInv,
        Agent!ThreadsInPlace, Agent!NoDeadSession, Agent!FreeUnknown,
        Agent!AdaptersHeld, Agent!HoldingSteps, Agent!Starting,
        Agent!DrainPersist, Agent!Goto, Agent!Threads
  <1> QED BY <1>1, <1>2, LiveKept

\* DrainCostRead is a move of its own thread.
LEMMA MovesDDrainCostRead ==
  ASSUME Agent!IInv, NEW t \in Adapters, Agent!DrainCostRead(t) PROVE AgentMoves(t)
  BY AdapterFacts
  DEF AgentMoves, Agent!IInv, Agent!TypeOK, Agent!SessionInv,
      Agent!ThreadsInPlace, Agent!AdaptersHeld, Agent!HoldingSteps,
      Agent!DrainCostRead, Agent!Goto, Agent!Threads, Agent!StopSteps,
      Agent!FailSteps, Agent!CleanSteps, Agent!DrainSteps

\* DrainCostRead keeps every live adapter in a session or in the hands of a request.
LEMMA LiveDDrainCostRead ==
  ASSUME Agent!IInv, LiveInv, CleanAd, NEW t \in Adapters, Agent!DrainCostRead(t)
  PROVE LiveInv' /\ CleanAd'
  <1>1. LiveMoves
    BY AdapterFacts
    DEF LiveMoves, Agent!IInv, Agent!TypeOK, Agent!SessionInv,
        Agent!ThreadsInPlace, Agent!AdaptersHeld, Agent!HoldingSteps,
        Agent!Closed, Agent!DrainCostRead, Agent!Goto, Agent!Threads
  <1>2. CleanAd'
    BY AdapterFacts
    DEF CleanAd, Agent!IInv, Agent!TypeOK, Agent!SessionInv,
        Agent!ThreadsInPlace, Agent!NoDeadSession, Agent!FreeUnknown,
        Agent!AdaptersHeld, Agent!HoldingSteps, Agent!Starting,
        Agent!DrainCostRead, Agent!Goto, Agent!Threads
  <1> QED BY <1>1, <1>2, LiveKept

\* DrainCostWrite is a move of its own thread.
LEMMA MovesDDrainCostWrite ==
  ASSUME Agent!IInv, NEW t \in Adapters, Agent!DrainCostWrite(t) PROVE AgentMoves(t)
  BY AdapterFacts
  DEF AgentMoves, Agent!IInv, Agent!TypeOK, Agent!SessionInv,
      Agent!ThreadsInPlace, Agent!AdaptersHeld, Agent!HoldingSteps,
      Agent!DrainCostWrite, Agent!Goto, Agent!Threads, Agent!StopSteps,
      Agent!FailSteps, Agent!CleanSteps, Agent!DrainSteps

\* DrainCostWrite keeps every live adapter in a session or in the hands of a request.
LEMMA LiveDDrainCostWrite ==
  ASSUME Agent!IInv, LiveInv, CleanAd, NEW t \in Adapters, Agent!DrainCostWrite(t)
  PROVE LiveInv' /\ CleanAd'
  <1>1. LiveMoves
    BY AdapterFacts
    DEF LiveMoves, Agent!IInv, Agent!TypeOK, Agent!SessionInv,
        Agent!ThreadsInPlace, Agent!AdaptersHeld, Agent!HoldingSteps,
        Agent!Closed, Agent!DrainCostWrite, Agent!Goto, Agent!Threads
  <1>2. CleanAd'
    BY AdapterFacts
    DEF CleanAd, Agent!IInv, Agent!TypeOK, Agent!SessionInv,
        Agent!ThreadsInPlace, Agent!NoDeadSession, Agent!FreeUnknown,
        Agent!AdaptersHeld, Agent!HoldingSteps, Agent!Starting,
        Agent!DrainCostWrite, Agent!Goto, Agent!Threads
  <1> QED BY <1>1, <1>2, LiveKept

\* FailRead is a move of its own thread.
LEMMA MovesDFailRead ==
  ASSUME Agent!IInv, NEW t \in Adapters, Agent!FailRead(t) PROVE AgentMoves(t)
  BY AdapterFacts
  DEF AgentMoves, Agent!IInv, Agent!TypeOK, Agent!SessionInv,
      Agent!ThreadsInPlace, Agent!AdaptersHeld, Agent!HoldingSteps,
      Agent!FailRead, Agent!Goto, Agent!Threads, Agent!Return, Agent!StopSteps,
      Agent!FailSteps, Agent!CleanSteps, Agent!DrainSteps

\* FailRead keeps every live adapter in a session or in the hands of a request.
LEMMA LiveDFailRead ==
  ASSUME Agent!IInv, LiveInv, CleanAd, NEW t \in Adapters, Agent!FailRead(t)
  PROVE LiveInv' /\ CleanAd'
  <1>1. LiveMoves
    BY AdapterFacts
    DEF LiveMoves, Agent!IInv, Agent!TypeOK, Agent!SessionInv,
        Agent!ThreadsInPlace, Agent!AdaptersHeld, Agent!HoldingSteps,
        Agent!Closed, Agent!FailRead, Agent!Goto, Agent!Threads, Agent!Return
  <1>2. CleanAd'
    BY AdapterFacts
    DEF CleanAd, Agent!IInv, Agent!TypeOK, Agent!SessionInv,
        Agent!ThreadsInPlace, Agent!NoDeadSession, Agent!FreeUnknown,
        Agent!AdaptersHeld, Agent!HoldingSteps, Agent!Starting, Agent!FailRead,
        Agent!Goto, Agent!Threads, Agent!Return
  <1> QED BY <1>1, <1>2, LiveKept

\* FailWrite is a move of its own thread.
LEMMA MovesDFailWrite ==
  ASSUME Agent!IInv, NEW t \in Adapters, Agent!FailWrite(t) PROVE AgentMoves(t)
  <1>1. agentPc[t] # "idle" /\ agentWs[t] \in Workspaces /\ t \in Agent!Threads
    BY
    DEF Agent!IInv, Agent!SessionInv, Agent!ThreadsInPlace, Agent!FailWrite,
        Agent!Threads
  <1>2. PICK ok \in BOOLEAN : Agent!UpdateWorkspace(t, agentWs[t], "failed",
               Agent!FailCtxOK(t), ok)
    BY DEF Agent!FailWrite
  <1>3. \A w \in Workspaces : status'[w] = "none" <=> status[w] = "none"
    BY <1>1, <1>2, UpdateRows DEF Agent!IInv, Agent!TypeOK
  <1> QED
    BY <1>3, AdapterFacts
    DEF AgentMoves, Agent!IInv, Agent!TypeOK, Agent!SessionInv,
        Agent!ThreadsInPlace, Agent!AdaptersHeld, Agent!HoldingSteps,
        Agent!FailWrite, Agent!Goto, Agent!Threads, Agent!Return,
        Agent!StopSteps, Agent!FailSteps, Agent!CleanSteps, Agent!DrainSteps

\* FailWrite keeps every live adapter in a session or in the hands of a request.
LEMMA LiveDFailWrite ==
  ASSUME Agent!IInv, LiveInv, CleanAd, NEW t \in Adapters, Agent!FailWrite(t)
  PROVE LiveInv' /\ CleanAd'
  <1>1. agentPc[t] # "idle" /\ agentWs[t] \in Workspaces /\ t \in Agent!Threads
    BY
    DEF Agent!IInv, Agent!SessionInv, Agent!ThreadsInPlace, Agent!FailWrite,
        Agent!Threads
  <1>2. PICK ok \in BOOLEAN : Agent!UpdateWorkspace(t, agentWs[t], "failed",
               Agent!FailCtxOK(t), ok)
    BY DEF Agent!FailWrite
  <1>3. ctxDone' = ctxDone \/ (t \in Reqs /\ ctxDone' = ctxDone \cup {t})
    BY <1>1, <1>2, UpdateDone
  <1>4. LiveMoves
    BY <1>3, AdapterFacts
    DEF LiveMoves, Agent!IInv, Agent!TypeOK, Agent!SessionInv,
        Agent!ThreadsInPlace, Agent!AdaptersHeld, Agent!HoldingSteps,
        Agent!Closed, Agent!FailWrite, Agent!Goto, Agent!Threads, Agent!Return
  <1>5. CleanAd'
    BY <1>3, AdapterFacts
    DEF CleanAd, Agent!IInv, Agent!TypeOK, Agent!SessionInv,
        Agent!ThreadsInPlace, Agent!NoDeadSession, Agent!FreeUnknown,
        Agent!AdaptersHeld, Agent!HoldingSteps, Agent!Starting, Agent!FailWrite,
        Agent!Goto, Agent!Threads, Agent!Return
  <1> QED BY <1>4, <1>5, LiveKept

\* CleanDelete is a move of its own thread.
LEMMA MovesDCleanDelete ==
  ASSUME Agent!IInv, NEW t \in Adapters, Agent!CleanDelete(t) PROVE AgentMoves(t)
  BY AdapterFacts
  DEF AgentMoves, Agent!IInv, Agent!TypeOK, Agent!SessionInv,
      Agent!ThreadsInPlace, Agent!AdaptersHeld, Agent!HoldingSteps,
      Agent!CleanDelete, Agent!Goto, Agent!Threads, Agent!StopSteps,
      Agent!FailSteps, Agent!CleanSteps, Agent!DrainSteps

\* CleanCancel is a move of its own thread.
LEMMA MovesDCleanCancel ==
  ASSUME Agent!IInv, NEW t \in Adapters, Agent!CleanCancel(t) PROVE AgentMoves(t)
  BY AdapterFacts
  DEF AgentMoves, Agent!IInv, Agent!TypeOK, Agent!SessionInv,
      Agent!ThreadsInPlace, Agent!AdaptersHeld, Agent!HoldingSteps,
      Agent!CleanCancel, Agent!Goto, Agent!Threads, Agent!Return,
      Agent!StopSteps, Agent!FailSteps, Agent!CleanSteps, Agent!DrainSteps

\* CleanCancel keeps every live adapter in a session or in the hands of a request.
LEMMA LiveDCleanCancel ==
  ASSUME Agent!IInv, LiveInv, CleanAd, NEW t \in Adapters, Agent!CleanCancel(t)
  PROVE LiveInv' /\ CleanAd'
  <1>1. LiveMoves
    BY AdapterFacts
    DEF LiveMoves, Agent!IInv, Agent!TypeOK, Agent!SessionInv,
        Agent!ThreadsInPlace, Agent!AdaptersHeld, Agent!HoldingSteps,
        Agent!Closed, Agent!CleanCancel, Agent!Goto, Agent!Threads, Agent!Return
  <1>2. CleanAd'
    BY AdapterFacts
    DEF CleanAd, Agent!IInv, Agent!TypeOK, Agent!SessionInv,
        Agent!ThreadsInPlace, Agent!NoDeadSession, Agent!FreeUnknown,
        Agent!AdaptersHeld, Agent!HoldingSteps, Agent!Starting,
        Agent!CleanCancel, Agent!Goto, Agent!Threads, Agent!Return
  <1> QED BY <1>1, <1>2, LiveKept

\* Talk keeps every live adapter in a session or in the hands of a request.
LEMMA LiveQTalk ==
  ASSUME Agent!IInv, LiveInv, CleanAd, NEW t \in Adapters, Agent!Talk(t)
  PROVE LiveInv' /\ CleanAd'
  <1>1. LiveMoves
    BY AdapterFacts
    DEF LiveMoves, Agent!IInv, Agent!TypeOK, Agent!SessionInv,
        Agent!ThreadsInPlace, Agent!AdaptersHeld, Agent!HoldingSteps,
        Agent!Closed, Agent!Talk, Agent!Goto, Agent!Threads, Agent!Emit
  <1>2. CleanAd'
    BY AdapterFacts
    DEF CleanAd, Agent!IInv, Agent!TypeOK, Agent!SessionInv,
        Agent!ThreadsInPlace, Agent!NoDeadSession, Agent!FreeUnknown,
        Agent!AdaptersHeld, Agent!HoldingSteps, Agent!Starting, Agent!Talk,
        Agent!Goto, Agent!Threads, Agent!Emit
  <1> QED BY <1>1, <1>2, LiveKept

\* FinishTurn keeps every live adapter in a session or in the hands of a request.
LEMMA LiveQFinishTurn ==
  ASSUME Agent!IInv, LiveInv, CleanAd, NEW t \in Adapters, Agent!FinishTurn(t)
  PROVE LiveInv' /\ CleanAd'
  <1>1. LiveMoves
    BY AdapterFacts
    DEF LiveMoves, Agent!IInv, Agent!TypeOK, Agent!SessionInv,
        Agent!ThreadsInPlace, Agent!AdaptersHeld, Agent!HoldingSteps,
        Agent!Closed, Agent!FinishTurn, Agent!Goto, Agent!Threads, Agent!Emit
  <1>2. CleanAd'
    BY AdapterFacts
    DEF CleanAd, Agent!IInv, Agent!TypeOK, Agent!SessionInv,
        Agent!ThreadsInPlace, Agent!NoDeadSession, Agent!FreeUnknown,
        Agent!AdaptersHeld, Agent!HoldingSteps, Agent!Starting,
        Agent!FinishTurn, Agent!Goto, Agent!Threads, Agent!Emit
  <1> QED BY <1>1, <1>2, LiveKept

\* ProcessExit keeps every live adapter in a session or in the hands of a request.
LEMMA LiveQProcessExit ==
  ASSUME Agent!IInv, LiveInv, CleanAd, NEW t \in Adapters, Agent!ProcessExit(t)
  PROVE LiveInv' /\ CleanAd'
  <1>1. LiveMoves
    BY AdapterFacts
    DEF LiveMoves, Agent!IInv, Agent!TypeOK, Agent!SessionInv,
        Agent!ThreadsInPlace, Agent!AdaptersHeld, Agent!HoldingSteps,
        Agent!Closed, Agent!ProcessExit, Agent!Goto, Agent!Threads
  <1>2. CleanAd'
    BY AdapterFacts
    DEF CleanAd, Agent!IInv, Agent!TypeOK, Agent!SessionInv,
        Agent!ThreadsInPlace, Agent!NoDeadSession, Agent!FreeUnknown,
        Agent!AdaptersHeld, Agent!HoldingSteps, Agent!Starting,
        Agent!ProcessExit, Agent!Goto, Agent!Threads
  <1> QED BY <1>1, <1>2, LiveKept

\* DrainTerminal is a move of its own thread.
LEMMA MovesDDrainTerminal ==
  ASSUME Agent!IInv, NEW t \in Adapters, Agent!DrainTerminal(t) PROVE AgentMoves(t)
  <1>1. agentPc[t] = "drain.terminal" /\ agentWs[t] \in Workspaces
          /\ t \in Agent!Threads
    BY
    DEF Agent!IInv, Agent!SessionInv, Agent!ThreadsInPlace, Agent!DrainTerminal,
        Agent!Threads
  <1>2. \A w \in Workspaces : status'[w] = "none" <=> status[w] = "none"
    <2>1. \/ status' = status
          \/ Agent!UpdateWorkspace(t, agentWs[t], "awaiting_input", TRUE,
               status[agentWs[t]] # "none")
      BY DEF Agent!DrainTerminal
    <2> QED BY <1>1, <2>1, UpdateRows DEF Agent!IInv, Agent!TypeOK
  <1>3. \A y \in Agent!Threads : y # t => agentPc'[y] = agentPc[y]
    BY <1>1 DEF Agent!DrainTerminal, Agent!Goto, Agent!IInv, Agent!TypeOK
  <1>4. UNCHANGED << ad, agentWs, sweep, crashes >>
    BY DEF Agent!DrainTerminal
  <1> QED BY <1>1, <1>2, <1>3, <1>4, AdapterFacts DEF AgentMoves, Agent!Threads

\* DrainTerminal keeps every live adapter in a session or in the hands of a request.
LEMMA LiveDDrainTerminal ==
  ASSUME Agent!IInv, LiveInv, CleanAd, NEW t \in Adapters, Agent!DrainTerminal(t)
  PROVE LiveInv' /\ CleanAd'
  <1>1. agentPc[t] = "drain.terminal" /\ agentWs[t] \in Workspaces
          /\ t \in Agent!Threads
    BY
    DEF Agent!IInv, Agent!SessionInv, Agent!ThreadsInPlace, Agent!DrainTerminal,
        Agent!Threads
  <1>2. ctxDone' = ctxDone
    <2>1. \/ ctxDone' = ctxDone
          \/ Agent!UpdateWorkspace(t, agentWs[t], "awaiting_input", TRUE,
               status[agentWs[t]] # "none")
      BY DEF Agent!DrainTerminal
    <2> QED BY <1>1, <2>1, UpdateDone, AdapterFacts
  <1>3. \A y \in Agent!Threads : y # t => agentPc'[y] = agentPc[y]
    BY <1>1 DEF Agent!DrainTerminal, Agent!Goto, Agent!IInv, Agent!TypeOK
  <1>4. UNCHANGED << ad, agentWs, sessions, life >>
    BY DEF Agent!DrainTerminal
  <1>5. LiveMoves
    BY <1>1, <1>2, <1>3, <1>4, AdapterFacts DEF LiveMoves, Agent!Threads
  <1>6. CleanAd'
    BY <1>1, <1>3, <1>4, AdapterFacts DEF CleanAd, Agent!Threads
  <1> QED BY <1>5, <1>6, LiveKept

\* StartSpawn keeps every live adapter in a session or in the hands of a request.
LEMMA LiveRStartSpawn ==
  ASSUME Agent!IInv, LiveInv, CleanAd, NEW t \in Reqs, Agent!StartSpawn(t)
  PROVE  LiveInv' /\ CleanAd'
  <1>1. agentPc[t] = "start.spawn" /\ agentWs[t] \in Workspaces /\ t \in Agent!Threads
    BY
    DEF Agent!IInv, Agent!SessionInv, Agent!ThreadsInPlace, Agent!StartSpawn,
        Agent!Threads
  <1>2. UNCHANGED << sessions, ctxDone >>
    BY DEF Agent!StartSpawn
  <1>3. \A y \in Agent!Threads : y # t => agentPc'[y] = agentPc[y]
    BY <1>1 DEF Agent!StartSpawn, Agent!Goto, Agent!IInv, Agent!TypeOK
  <1>4. CASE UNCHANGED << life, ad, agentWs >>
               /\ (Agent!Goto(t, "fail.read") \/ Agent!Goto(t, "idle"))
    <2>1. agentPc'[t] \in {"fail.read", "idle"}
      BY <1>1, <1>4 DEF Agent!Goto, Agent!IInv, Agent!TypeOK
    <2>2. LiveMoves
      BY <1>1, <1>2, <1>3, <1>4, AdapterFacts DEF LiveMoves, Agent!Threads
    <2>3. CleanAd'
      BY <1>1, <1>3, <1>4, <2>1, AdapterFacts DEF CleanAd, Agent!Threads
    <2> QED BY <2>2, <2>3, LiveKept
  <1>5. ASSUME NEW b \in Adapters, life[b] = "free",
                 life' = [life EXCEPT ![b] = "live"],
               ad' = [ad EXCEPT ![t] = b],
                 agentWs' = [agentWs EXCEPT ![b] = agentWs[t]],
               Agent!Goto(t, "start.running")
        PROVE  LiveInv' /\ CleanAd'
    <2>1. /\ agentPc'[t] = "start.running" /\ ad'[t] = b /\ agentWs'[b] = agentWs[t]
          /\ \A y \in Agent!Threads : y # t => ad'[y] = ad[y]
          /\ \A y \in Agent!Threads : y # b => agentWs'[y] = agentWs[y]
          /\ \A a \in Adapters : a # b => life'[a] = life[a]
      BY <1>1, <1>5, AdapterFacts
      DEF Agent!Goto, Agent!IInv, Agent!TypeOK, Agent!Threads
    <2>2. \A w \in Workspaces : sessions[w] # b
      BY <1>5 DEF Agent!IInv, Agent!SessionInv, Agent!FreeUnknown
    <2>3. \A a \in Adapters : Lost(a) => Lost(a)'
      BY <1>1, <1>2, <1>3, <2>1, AdapterFacts DEF Lost, Agent!Threads
    <2>4. \A a \in Adapters : Held(a) => Held(a)'
      BY <1>1, <1>3, <2>1, AdapterFacts DEF Held, Agent!Threads
    <2>5. Held(b)'
      BY <2>1 DEF Held
    <2>6. LiveInv'
      BY <1>1, <1>2, <2>1, <2>3, <2>4, <2>5 DEF LiveInv, Agent!Threads
    <2>7. \A u \in Reqs : agentPc[u] = "clean.cancel" => ad[u] # b
      BY <1>5, AdapterFacts DEF CleanAd
    <2>8. \A u \in Reqs : ad[u] \in Adapters \cup {None}
      BY DEF Agent!IInv, Agent!TypeOK, Agent!Threads
    <2>9. CleanAd'
      BY <1>1, <1>3, <2>1, <2>7, <2>8, AdapterFacts DEF CleanAd, Agent!Threads
    <2> QED BY <2>6, <2>9
  <1> QED BY <1>4, <1>5 DEF Agent!StartSpawn

\* StartRegister keeps every live adapter in a session or in the hands of a request.
LEMMA LiveRStartRegister ==
  ASSUME Agent!IInv, LiveInv, CleanAd, NEW t \in Reqs, Agent!StartRegister(t)
  PROVE  LiveInv' /\ CleanAd'
  <1>1. /\ agentPc[t] = "start.register" /\ agentWs[t] \in Workspaces
             /\ t \in Agent!Threads
        /\ ad[t] \in Adapters /\ agentWs[ad[t]] = agentWs[t]
    BY
    DEF Agent!IInv, Agent!SessionInv, Agent!ThreadsInPlace, Agent!AdaptersHeld,
        Agent!HoldingSteps, Agent!Starting, Agent!StartRegister, Agent!Threads
  <1>2. UNCHANGED << agentWs, life >>
    BY DEF Agent!StartRegister
  <1>3. \A y \in Agent!Threads : y # t => agentPc'[y] = agentPc[y] /\ ad'[y] = ad[y]
    BY <1>1 DEF Agent!StartRegister, Agent!Goto, Agent!IInv, Agent!TypeOK
  <1>4. agentPc'[t] \in {"start.prompt", "start.preempt"}
    BY <1>1 DEF Agent!StartRegister, Agent!Goto, Agent!IInv, Agent!TypeOK
  <1>5. CleanAd'
    BY <1>2, <1>3, <1>4, AdapterFacts DEF CleanAd, Agent!Threads
  <1>6. CASE sessions[agentWs[t]] = None
    <2>1. sessions' = [sessions EXCEPT ![agentWs[t]] = ad[t]]
            /\ UNCHANGED << ctxDone, ad >>
      BY <1>6 DEF Agent!StartRegister
    <2>2. \A a \in Adapters : Lost(a) => Lost(a)'
      BY <1>1, <1>3, <2>1, AdapterFacts DEF Lost, Agent!Threads
    <2>3. \A a \in Adapters : Held(a) => Held(a)' \/ a = ad[t]
      BY <1>3, AdapterFacts DEF Held, Agent!Threads
    <2>4. \A w \in Workspaces : sessions[w] # None => sessions'[w] = sessions[w]
      BY <1>6, <2>1 DEF Agent!IInv, Agent!TypeOK
    <2>5. sessions'[agentWs[t]] = ad[t]
      BY <1>1, <2>1 DEF Agent!IInv, Agent!TypeOK
    <2>6. LiveInv'
      BY <1>1, <1>2, <2>2, <2>3, <2>4, <2>5, AdapterFacts DEF LiveInv
    <2> QED BY <1>5, <2>6
  <1>7. CASE sessions[agentWs[t]] # None
    <2>1. sessions' = sessions /\ ctxDone' = ctxDone \cup {ad[t]}
      BY <1>7 DEF Agent!StartRegister
    <2>2. LiveMoves
      BY <1>1, <1>2, <1>3, <2>1, AdapterFacts DEF LiveMoves, Agent!Threads
    <2> QED BY <1>5, <2>2, LiveKept
  <1> QED BY <1>6, <1>7

\* CleanDelete hands the adapter from the table to the request or drain.
LEMMA LiveCleanDelete ==
  ASSUME Agent!IInv, LiveInv, CleanAd, NEW t \in Agent!Threads, Agent!CleanDelete(t)
  PROVE  LiveInv' /\ CleanAd'
  <1>1. agentPc[t] = "clean.delete" /\ agentWs[t] \in Workspaces
    BY DEF Agent!IInv, Agent!SessionInv, Agent!ThreadsInPlace, Agent!CleanDelete
  <1>2. UNCHANGED << ctxDone, agentWs, life >>
    BY DEF Agent!CleanDelete
  <1>3. /\ \A y \in Agent!Threads : y # t => agentPc'[y] = agentPc[y] /\ ad'[y] = ad[y]
        /\ agentPc'[t] = "clean.cancel" /\ ad'[t] = sessions[agentWs[t]]
        /\ \A w \in Workspaces : w # agentWs[t] => sessions'[w] = sessions[w]
    BY <1>1 DEF Agent!CleanDelete, Agent!Goto, Agent!IInv, Agent!TypeOK
  <1>4. \A a \in Adapters : sessions[agentWs[t]] = a => agentWs[a] = agentWs[t]
    BY <1>1 DEF Agent!IInv, Agent!SessionInv, Agent!NoDeadSession
  <1>5. \A a \in Adapters : Lost(a) => Lost(a)'
    BY <1>1, <1>2, <1>3, AdapterFacts DEF Lost, Agent!Threads
  <1>6. \A a \in Adapters : Held(a) => Held(a)'
    BY <1>1, <1>3, AdapterFacts DEF Held, Agent!Threads
  <1>7. \A a \in Adapters : sessions[agentWs[t]] = a => Lost(a)' \/ Held(a)'
    BY <1>3 DEF Held, Lost, Agent!Threads
  <1>8. LiveInv'
    BY <1>1, <1>2, <1>3, <1>5, <1>6, <1>7, AdapterFacts DEF LiveInv
  <1>9. CleanAd'
    <2>1. sessions[agentWs[t]] \in Adapters \cup {None}
      BY <1>1 DEF Agent!IInv, Agent!TypeOK
    <2>2. \A a \in Adapters : sessions[agentWs[t]] = a => life[a] # "free"
      BY <1>1 DEF Agent!IInv, Agent!SessionInv, Agent!FreeUnknown
    <2> QED BY <1>2, <1>3, <1>4, <2>1, <2>2, AdapterFacts DEF CleanAd, Agent!Threads
  <1> QED BY <1>8, <1>9

-----------------------------------------------------------------------------
(* What a step in the workspace manager does to the rows and the requests. *)

\* What a step of request t in the workspace manager does to requests and rows.
GitMoves(t) ==
  /\ pc[t] # "idle" /\ UNCHANGED << ws, sweep, crashes >>
  /\ \A u \in Reqs \ {t} : pc'[u] = pc[u]
  /\ pc'[t] \notin {"create.insert", "complete.load", "complete.write"}
  /\ pc'[t] \in {"cancel.load", "cancel.remove", "cancel.write"} =>
       pc[t] \in {"cancel.load", "cancel.remove", "cancel.write"}
  /\ pc[t] \in {"cancel.load", "cancel.remove", "cancel.write"} =>
       pc'[t] \in {"cancel.load", "cancel.remove", "cancel.write", "idle"}
  /\ \/ /\ pc[t] # "create.insert" \/ pc'[t] = "idle"
        /\ UNCHANGED born
        /\ \A w \in Workspaces : status'[w] = "none" <=> status[w] = "none"
     \/ /\ pc[t] = "create.insert"
        /\ born' = [born EXCEPT ![ws[t]] = window]
        /\ status' = [status EXCEPT ![ws[t]] = "queued"]

-----------------------------------------------------------------------------
(* The inductive invariant of the server.                                  *)

\* A request is in one method of one manager; after a Stop it goes on to Cancel.
OneMethod ==
  \A t \in Reqs :
    /\ pc[t] # "idle" => agentPc[t] = "idle" /\ next[t] = "return"
    /\ pc[t] \notin {"complete.load", "complete.write"}
    /\ next[t] = "cancel" =>
         /\ agentPc[t] \in Agent!StopSteps \cup Agent!FailSteps \cup Agent!CleanSteps
              \cup {"idle"}
         /\ agentWs[t] \in Workspaces
    /\ next[t] = "cleanup" => agentPc[t] = "idle"
    /\ todo[t] # {} => next[t] = "cleanup"

\* The workspaces of rows, sessions and requests are ones that clients know.
Heard ==
  /\ \A w \in Workspaces : Exists(w) => Known(w)
  /\ \A x \in Agent!Threads : agentWs[x] \in Workspaces => Known(agentWs[x])
  /\ \A t \in Reqs : pc[t] # "idle" => ws[t] \in Workspaces
  /\ \A t \in Reqs : pc[t] \notin {"idle", "create.insert"} => Known(ws[t])

\* The sweep is over before the first request is served.
Boot == sweep # {} => \A t \in Reqs : Idle(t)

\* A row that was inserted stays until the project is deleted, and all go with it;
\* no two requests create the same workspace.
RowsStay ==
  /\ \A w \in Workspaces : project /\ Known(w) => Exists(w)
  /\ ~project => \A w \in Workspaces : ~Exists(w)
  /\ \A w \in sweep : Exists(w)
  /\ \A t \in Reqs : pc[t] = "create.insert" /\ project => ~Known(ws[t])
  /\ \A t, u \in Reqs :
       pc[t] = "create.insert" /\ pc[u] = "create.insert" /\ ws[t] = ws[u] => t = u

\* The types of what the handlers keep.
HandlerTypes ==
  /\ project \in BOOLEAN
  /\ next \in [Reqs -> {"return", "cancel", "cleanup"}]
  /\ todo \in [Reqs -> SUBSET Workspaces]

\* The inductive invariant of the server.
RoomInv ==
  /\ Agent!IInv /\ Git!TypeOK /\ HandlerTypes
  /\ OneMethod /\ Heard /\ Boot /\ RowsStay
  /\ LiveInv /\ CleanAd

\* Every step of a request or of a drain in the agent manager is such a move.
LEMMA AgentThread ==
  ASSUME Agent!IInv, LiveInv, CleanAd, NEW x \in Agent!Threads,
         (x \in Reqs /\ Agent!Handle(x)) \/ (x \in Adapters /\ Agent!Drain(x))
  PROVE  AgentMoves(x) /\ LiveInv' /\ CleanAd' /\ Agent!IInv'
  <1>1. Agent!IInv'
    BY AgentSteps DEF Agent!Next
  <1>2. CASE x \in Reqs /\ Agent!Handle(x)
    <2> USE <1>2
    <2>1. CASE Agent!Shared(x)
      BY <2>1, <1>1, MovesRFailRead, MovesRFailWrite, MovesRCleanDelete,
         MovesRCleanCancel, LiveRFailRead, LiveRFailWrite, LiveCleanDelete,
         LiveRCleanCancel
      DEF Agent!Shared
    <2>2. CASE Agent!StartLoad(x) \/ Agent!StartSpawn(x) \/ Agent!StartRunning(x)
                 \/ Agent!StartRegister(x)
               \/ Agent!StartPreempt(x) \/ Agent!StartPrompt(x) \/ Agent!StartPersist(x)
      BY <2>2, <1>1, MovesRStartLoad, MovesRStartSpawn, MovesRStartRunning,
         MovesRStartRegister, MovesRStartPreempt, MovesRStartPrompt,
         MovesRStartPersist, LiveRStartLoad, LiveRStartSpawn, LiveRStartRunning,
         LiveRStartRegister, LiveRStartPreempt, LiveRStartPrompt,
         LiveRStartPersist
    <2>3. CASE Agent!PromptLookup(x) \/ Agent!PromptCheck(x) \/ Agent!PromptRunning(x)
                 \/ Agent!PromptSend(x) \/ Agent!PromptPersist(x)
      BY <2>3, <1>1, MovesRPromptLookup, MovesRPromptCheck, MovesRPromptRunning,
         MovesRPromptSend, MovesRPromptPersist, LiveRPromptLookup,
         LiveRPromptCheck, LiveRPromptRunning, LiveRPromptSend,
         LiveRPromptPersist
    <2>4. CASE Agent!StopLookup(x) \/ Agent!StopCancel(x) \/ Agent!StopKill(x)
                 \/ Agent!StopRead(x) \/ Agent!StopWrite(x)
      BY <2>4, <1>1, MovesRStopLookup, MovesRStopCancel, MovesRStopKill,
         MovesRStopRead, MovesRStopWrite, LiveRStopLookup, LiveRStopCancel,
         LiveRStopKill, LiveRStopRead, LiveRStopWrite
    <2>5. CASE Agent!CompleteRead(x) \/ Agent!CompleteWrite(x)
      BY <2>5, <1>1, MovesRCompleteRead, MovesRCompleteWrite, LiveRCompleteRead,
         LiveRCompleteWrite
    <2> QED BY <1>2, <2>1, <2>2, <2>3, <2>4, <2>5 DEF Agent!Handle
  <1>3. CASE x \in Adapters /\ Agent!Drain(x)
    <2> USE <1>3
    <2>1. CASE Agent!Shared(x)
      BY <2>1, <1>1, MovesDFailRead, MovesDFailWrite, MovesDCleanDelete,
         MovesDCleanCancel, LiveDFailRead, LiveDFailWrite, LiveCleanDelete,
         LiveDCleanCancel
      DEF Agent!Shared
    <2>2. CASE Agent!DrainSelect(x) \/ Agent!DrainClosed(x) \/ Agent!DrainPersist(x)
                 \/ Agent!DrainCostRead(x)
               \/ Agent!DrainCostWrite(x) \/ Agent!DrainTerminal(x)
      BY <2>2, <1>1, MovesDDrainSelect, MovesDDrainClosed, MovesDDrainPersist,
         MovesDDrainCostRead, MovesDDrainCostWrite, MovesDDrainTerminal,
         LiveDDrainSelect, LiveDDrainClosed, LiveDDrainPersist,
         LiveDDrainCostRead, LiveDDrainCostWrite, LiveDDrainTerminal
    <2> QED BY <1>3, <2>1, <2>2 DEF Agent!Drain
  <1> QED BY <1>2, <1>3

\* A step of the agent manager leaves what ties the managers together alone.
LEMMA AgentFrame ==
  ASSUME RoomInv, NEW x \in Agent!Threads, AgentMoves(x), Agent!IInv',
           UNCHANGED << gitVars, handlerVars >>
  PROVE  OneMethod' /\ Heard' /\ Boot' /\ RowsStay' /\ HandlerTypes' /\ Git!TypeOK'
  <1> USE DEF RoomInv, AgentMoves, gitVars, handlerVars
  <1>1. OneMethod'
    BY AdapterFacts DEF OneMethod, Agent!Threads
  <1>2. Heard'
    BY AdapterFacts
    DEF Heard, Agent!Threads, Exists, Known, Agent!IInv, Agent!SessionInv,
        Agent!ThreadsInPlace
  <1>3. Boot'
    BY AdapterFacts DEF Boot, Agent!Threads, Idle
  <1>4. RowsStay'
    BY DEF RowsStay, Exists, Known, Agent!IInv, Agent!TypeOK
  <1>5. HandlerTypes'
    BY DEF HandlerTypes
  <1>6. Git!TypeOK'
    BY
    DEF Git!TypeOK, Agent!IInv, Agent!TypeOK, Agent!Rows, Agent!WorkspaceStatus,
        Git!WorkspaceStatus
  <1> QED BY <1>1, <1>2, <1>3, <1>4, <1>5, <1>6

\* So does a step of the workspace manager, but for the row that it inserts.
LEMMA GitFrame ==
  ASSUME RoomInv, NEW t \in Reqs, GitMoves(t), Git!TypeOK',
           UNCHANGED << agentVars, handlerVars >>,
         pc[t] = "create.insert" => project \/ UNCHANGED << status, born >>
  PROVE  RoomInv'
  <1> USE DEF RoomInv, GitMoves, agentVars, handlerVars
  <1>1. OneMethod'
    BY DEF OneMethod
  <1>2. Heard'
    <2>1. CASE UNCHANGED born /\ (\A w \in Workspaces : status'[w] = "none"
                 <=> status[w] = "none")
               /\ (pc[t] # "create.insert" \/ pc'[t] = "idle")
      BY <2>1 DEF Heard, Exists, Known
    <2>2. CASE /\ born' = [born EXCEPT ![ws[t]] = window]
               /\ status' = [status EXCEPT ![ws[t]] = "queued"]
      <3>1. ws[t] \in Workspaces /\ window # None
        BY NameFacts DEF Heard, Git!TypeOK
      <3>2. \A w \in Workspaces : Known(w) => Known(w)'
        BY <2>2, <3>1 DEF Known, Git!TypeOK
      <3>3. Known(ws[t])'
        BY <2>2, <3>1 DEF Known, Git!TypeOK
      <3>4. \A w \in Workspaces : Exists(w)' => Exists(w) \/ w = ws[t]
        BY <2>2, <3>1 DEF Exists, Git!TypeOK
      <3> QED BY <3>1, <3>2, <3>3, <3>4 DEF Heard
    <2> QED BY <2>1, <2>2
  <1>3. Boot'
    BY DEF Boot, Idle
  <1>4. RowsStay'
    <2>1. sweep = {}
      BY DEF Boot, Idle
    <2>2. CASE UNCHANGED born /\ \A w \in Workspaces : status'[w] = "none"
                 <=> status[w] = "none"
      BY <2>1, <2>2 DEF RowsStay, Exists, Known, Heard
    <2>3. CASE /\ pc[t] = "create.insert" /\ project
               /\ born' = [born EXCEPT ![ws[t]] = window]
               /\ status' = [status EXCEPT ![ws[t]] = "queued"]
      BY <2>1, <2>3, NameFacts DEF RowsStay, Exists, Known, Git!TypeOK, Heard
    <2> QED BY <2>2, <2>3
  <1>5. HandlerTypes'
    BY DEF HandlerTypes
  <1>6. Agent!IInv'
    <2>1. Agent!TypeOK'
      BY
      DEF Git!TypeOK, Agent!IInv, Agent!TypeOK, Agent!Rows,
          Agent!WorkspaceStatus, Git!WorkspaceStatus
    <2>2. Agent!SessionInv'
      BY
      DEF Agent!IInv, Agent!SessionInv, Agent!ThreadsInPlace,
          Agent!AdaptersHeld, Agent!FreeUnknown, Agent!StoppedIsCancelled,
          Agent!ClosedByPreemption, Agent!PromptBeforeDrain,
          Agent!NoDeadSession, Agent!NoForgottenSession, Agent!HasSession,
          Agent!Starting, Agent!Closed
    <2> QED BY <2>1, <2>2 DEF Agent!IInv
  <1>7. LiveInv' /\ CleanAd'
    BY DEF LiveInv, CleanAd, Lost, Held
  <1> QED BY <1>1, <1>2, <1>3, <1>4, <1>5, <1>6, <1>7

\* Every step of a request in the workspace manager is such a move.
LEMMA GitHandleMoves ==
  ASSUME RoomInv, NEW t \in Reqs, Git!Handle(t)
  PROVE  GitMoves(t) /\ Git!TypeOK'
  <1>1. /\ Git!TypeOK /\ t \in Reqs /\ pc[t] \notin {"complete.load", "complete.write"}
        /\ pc[t] # "idle" => ws[t] \in Workspaces
        /\ pc[t] \notin {"idle", "create.insert"} => born[ws[t]] # None
    BY DEF RoomInv, Heard, OneMethod, Known
  <1>2. pc[t] # "idle"
    BY
    DEF Git!Handle, Git!CreateInsert, Git!PrepareLoad, Git!PreparePreparing,
        Git!PrepareAdd, Git!PrepareFailed, Git!PrepareBranch, Git!PrepareIdle,
        Git!CompleteLoad, Git!CompleteWrite, Git!CancelLoad, Git!CancelRemove,
        Git!CancelWrite, Git!MergeLoad, Git!MergeTree, Git!UpdateBranch,
        Git!MergeMerged, Git!MergeConflict
  <1> USE <1>1, <1>2
  <1>3. CASE Git!CreateInsert(t)
    <2>1. Git!TypeOK'
      BY <1>3, GitTypesCreateInsert
    <2>2. pc[t] = "create.insert"
      BY <1>3 DEF Git!CreateInsert
    <2> QED
        BY <1>3, <2>1, <2>2
        DEF GitMoves, Git!TypeOK, Git!CreateInsert, Git!Statement, Git!Goto,
           Git!Exists
  <1>4. CASE Git!PrepareLoad(t)
    <2>1. Git!TypeOK'
      BY <1>4, GitTypesPrepareLoad
    <2>2. pc[t] = "prepare.load"
      BY <1>4 DEF Git!PrepareLoad
    <2> QED
        BY <1>4, <2>1, <2>2
        DEF GitMoves, Git!TypeOK, Git!PrepareLoad, Git!LoadRow, Git!Goto,
           Git!Exists
  <1>5. CASE Git!PreparePreparing(t)
    <2>1. Git!TypeOK'
      BY <1>5, GitTypesPreparePreparing
    <2>2. pc[t] = "prepare.preparing"
      BY <1>5 DEF Git!PreparePreparing
    <2>3. Git!SetStatus(t, "preparing", "prepare.add")
      BY <1>5 DEF Git!PreparePreparing
    <2> QED
        BY <1>5, <2>1, <2>2, <2>3, SetStatusEffect
        DEF GitMoves, Git!TypeOK, Git!PreparePreparing, Git!Exists
  <1>6. CASE Git!PrepareAdd(t)
    <2>1. Git!TypeOK'
      BY <1>6, GitTypesPrepareAdd
    <2>2. pc[t] = "prepare.add"
      BY <1>6 DEF Git!PrepareAdd
    <2> QED
        BY <1>6, <2>1, <2>2
        DEF GitMoves, Git!TypeOK, Git!PrepareAdd, Git!Goto, Git!Exists
  <1>7. CASE Git!PrepareFailed(t)
    <2>1. Git!TypeOK'
      BY <1>7, GitTypesPrepareFailed
    <2>2. pc[t] = "prepare.failed"
      BY <1>7 DEF Git!PrepareFailed
    <2>3. Git!SetStatus(t, "failed", "idle")
      BY <1>7 DEF Git!PrepareFailed
    <2> QED
        BY <1>7, <2>1, <2>2, <2>3, SetStatusEffect
        DEF GitMoves, Git!TypeOK, Git!PrepareFailed, Git!Exists
  <1>8. CASE Git!PrepareBranch(t)
    <2>1. Git!TypeOK'
      BY <1>8, GitTypesPrepareBranch
    <2>2. pc[t] = "prepare.branch"
      BY <1>8 DEF Git!PrepareBranch
    <2> QED
        BY <1>8, <2>1, <2>2
        DEF GitMoves, Git!TypeOK, Git!PrepareBranch, Git!Goto, Git!Exists
  <1>9. CASE Git!PrepareIdle(t)
    <2>1. Git!TypeOK'
      BY <1>9, GitTypesPrepareIdle
    <2>2. pc[t] = "prepare.idle"
      BY <1>9 DEF Git!PrepareIdle
    <2> QED
        BY <1>9, <2>1, <2>2, UpdateEffect
        DEF GitMoves, Git!TypeOK, Git!PrepareIdle, Git!Goto, Git!Exists
  <1>10. CASE Git!CompleteLoad(t)
    BY <1>10 DEF Git!CompleteLoad
  <1>11. CASE Git!CompleteWrite(t)
    BY <1>11 DEF Git!CompleteWrite
  <1>12. CASE Git!CancelLoad(t)
    <2>1. Git!TypeOK'
      BY <1>12, GitTypesCancelLoad
    <2>2. pc[t] = "cancel.load"
      BY <1>12 DEF Git!CancelLoad
    <2> QED
        BY <1>12, <2>1, <2>2
        DEF GitMoves, Git!TypeOK, Git!CancelLoad, Git!Goto, Git!Exists
  <1>13. CASE Git!CancelRemove(t)
    <2>1. Git!TypeOK'
      BY <1>13, GitTypesCancelRemove
    <2>2. pc[t] = "cancel.remove"
      BY <1>13 DEF Git!CancelRemove
    <2> QED
        BY <1>13, <2>1, <2>2
        DEF GitMoves, Git!TypeOK, Git!CancelRemove, Git!Goto, Git!Exists
  <1>14. CASE Git!CancelWrite(t)
    <2>1. Git!TypeOK'
      BY <1>14, GitTypesCancelWrite
    <2>2. pc[t] = "cancel.write"
      BY <1>14 DEF Git!CancelWrite
    <2>3. Git!SetStatus(t, "cancelled", "idle")
      BY <1>14 DEF Git!CancelWrite
    <2> QED
        BY <1>14, <2>1, <2>2, <2>3, SetStatusEffect
        DEF GitMoves, Git!TypeOK, Git!CancelWrite, Git!Exists
  <1>15. CASE Git!MergeLoad(t)
    <2>1. Git!TypeOK'
      BY <1>15, GitTypesMergeLoad
    <2>2. pc[t] = "merge.load"
      BY <1>15 DEF Git!MergeLoad
    <2> QED
        BY <1>15, <2>1, <2>2
        DEF GitMoves, Git!TypeOK, Git!MergeLoad, Git!LoadRow, Git!Goto,
           Git!Exists
  <1>16. CASE Git!MergeTree(t)
    <2>1. Git!TypeOK'
      BY <1>16, GitTypesMergeTree
    <2>2. pc[t] = "merge.tree"
      BY <1>16 DEF Git!MergeTree
    <2> QED
        BY <1>16, <2>1, <2>2
        DEF GitMoves, Git!TypeOK, Git!MergeTree, Git!Goto, Git!Exists
  <1>17. CASE Git!UpdateBranch(t)
    <2>1. Git!TypeOK'
      BY <1>17, GitTypesUpdateBranch
    <2>2. pc[t] = "merge.update"
      BY <1>17 DEF Git!UpdateBranch
    <2> QED
        BY <1>17, <2>1, <2>2
        DEF GitMoves, Git!TypeOK, Git!UpdateBranch, Git!Goto, Git!Exists
  <1>18. CASE Git!MergeMerged(t)
    <2>1. Git!TypeOK'
      BY <1>18, GitTypesMergeMerged
    <2>2. pc[t] = "merge.merged"
      BY <1>18 DEF Git!MergeMerged
    <2>3. PICK s \in {"none", "merged", "conflict_stuck"}, n \in Nat :
                 Git!MergePersist(t, s, n)
      BY <1>18 DEF Git!MergeMerged
    <2>4. /\ pc' = [pc EXCEPT ![t] = "idle"] /\ UNCHANGED << ws, born, sweep, crashes >>
          /\ status' = status \/ (Git!Exists(t) /\ s # "none"
               /\ status' = [status EXCEPT ![ws[t]] = s])
      BY <2>3, MergePersistEffect
    <2> QED BY <2>1, <2>2, <2>4 DEF GitMoves, Git!TypeOK, Git!Exists
  <1>19. CASE Git!MergeConflict(t)
    <2>1. Git!TypeOK'
      BY <1>19, GitTypesMergeConflict
    <2>2. pc[t] = "merge.conflict"
      BY <1>19 DEF Git!MergeConflict
    <2>0. PICK p \in 0..2 : row[t].pending = p
      BY NameFacts DEF Git!TypeOK
    <2>3. PICK s \in {"none", "merged", "conflict_stuck"}, n \in {0, p + 1} :
                 Git!MergePersist(t, s, n)
      BY <1>19, <2>0 DEF Git!MergeConflict
    <2>4. /\ pc' = [pc EXCEPT ![t] = "idle"] /\ UNCHANGED << ws, born, sweep, crashes >>
          /\ status' = status \/ (Git!Exists(t) /\ s # "none"
               /\ status' = [status EXCEPT ![ws[t]] = s])
      BY <2>3, MergePersistEffect
    <2> QED BY <2>1, <2>2, <2>4 DEF GitMoves, Git!TypeOK, Git!Exists
  <1> QED
      BY <1>3, <1>4, <1>5, <1>6, <1>7, <1>8, <1>9, <1>10, <1>11, <1>12, <1>13,
         <1>14, <1>15, <1>16, <1>17, <1>18, <1>19
      DEF Git!Handle

\* The adapters when no thread of the manager moves
LEMMA AdaptersStay ==
  ASSUME Agent!IInv, LiveInv, CleanAd, UNCHANGED agentVars,
         status' \in [Workspaces -> Agent!Rows], sweep' \in SUBSET Workspaces,
           crashes' \in 0..MaxCrashes
  PROVE  Agent!IInv' /\ LiveInv' /\ CleanAd'
  <1> USE DEF agentVars
  <1>1. Agent!TypeOK'
    BY DEF Agent!IInv, Agent!TypeOK
  <1>2. Agent!SessionInv'
    BY
    DEF Agent!IInv, Agent!SessionInv, Agent!ThreadsInPlace, Agent!AdaptersHeld,
        Agent!FreeUnknown, Agent!StoppedIsCancelled, Agent!ClosedByPreemption,
        Agent!PromptBeforeDrain, Agent!NoDeadSession, Agent!NoForgottenSession,
        Agent!HasSession, Agent!Starting, Agent!Closed
  <1>3. LiveInv' /\ CleanAd'
    BY DEF LiveInv, CleanAd, Lost, Held
  <1> QED BY <1>1, <1>2, <1>3 DEF Agent!IInv

\* the same for rows
LEMMA SameRows == Agent!Rows = Git!WorkspaceStatus \cup {"none"}
  BY DEF Agent!Rows, Agent!WorkspaceStatus, Git!WorkspaceStatus

\* A request that arrives starts and stops no adapter.
LEMMA LiveRequest ==
  ASSUME Agent!IInv, LiveInv, CleanAd, NEW t \in Reqs, NEW w \in Workspaces,
         NEW op \in {"start", "prompt", "stop", "complete"}, Agent!Request(t, op, w)
  PROVE  LiveInv' /\ CleanAd'
  <1>1. /\ UNCHANGED << sessions, life >> /\ ctxDone' = ctxDone \ {t}
             /\ agentPc[t] = "idle"
        /\ agentPc'[t] \in {"start.load", "prompt.lookup", "stop.lookup",
             "complete.read"}
        /\ \A y \in Agent!Threads : y # t =>
             agentPc'[y] = agentPc[y] /\ agentWs'[y] = agentWs[y] /\ ad'[y] = ad[y]
    BY DEF Agent!Request, Agent!Goto, Agent!IInv, Agent!TypeOK, Agent!Threads
  <1>2. LiveMoves
    BY <1>1, AdapterFacts DEF LiveMoves, Agent!Threads
  <1>3. CleanAd'
    <2>1. \A u \in Reqs : ad[u] \in Adapters \cup {None}
      BY DEF Agent!IInv, Agent!TypeOK, Agent!Threads
    <2> QED BY <1>1, <2>1, AdapterFacts DEF CleanAd, Agent!Threads
  <1> QED BY <1>2, <1>3, LiveKept

-----------------------------------------------------------------------------
(* Every step preserves it.                                                *)

\* A request to start, to prompt or to complete arrives.
LEMMA AgentRequestInv ==
  ASSUME RoomInv, NEW t \in Reqs, NEW w \in Workspaces, NEW op \in Ops,
           AgentRequest(t, op, w)
  PROVE  RoomInv'
  <1>1. /\ Idle(t) /\ Known(w) /\ sweep = {} /\ op \in {"start", "prompt", "complete"}
        /\ Agent!Request(t, op, w)
        /\ UNCHANGED << gitVars, handlerVars, status, sweep, crashes >>
    BY DEF AgentRequest, Agent!Request
  <1>2. Agent!IInv'
    BY <1>1, AgentSteps DEF RoomInv, Agent!Next
  <1>3. LiveInv' /\ CleanAd'
    BY <1>1, LiveRequest DEF RoomInv
  <1>4. /\ \A y \in Agent!Threads : y # t => agentPc'[y] = agentPc[y]
             /\ agentWs'[y] = agentWs[y]
        /\ agentWs'[t] = w
    BY <1>1
    DEF Agent!Request, Agent!Goto, RoomInv, Agent!IInv, Agent!TypeOK,
        Agent!Threads
  <1>5. Git!TypeOK' /\ HandlerTypes'
    BY <1>1 DEF RoomInv, Git!TypeOK, HandlerTypes, gitVars, handlerVars
  <1>6. OneMethod'
    BY <1>1, <1>4
    DEF OneMethod, RoomInv, gitVars, handlerVars, Idle, Agent!Threads
  <1>7. Heard'
    BY <1>1, <1>4 DEF Heard, RoomInv, gitVars, Exists, Known
  <1>8. Boot' /\ RowsStay'
    BY <1>1 DEF Boot, RowsStay, RoomInv, gitVars, handlerVars, Exists, Known
  <1> QED BY <1>2, <1>3, <1>5, <1>6, <1>7, <1>8 DEF RoomInv

\* handleStopWorkspace calls the agent manager.
LEMMA StopRequestInv ==
  ASSUME RoomInv, NEW t \in Reqs, NEW w \in Workspaces, StopRequest(t, w)
  PROVE  RoomInv'
  <1>1. /\ Idle(t) /\ Known(w) /\ sweep = {} /\ "stop" \in Ops
        /\ Agent!Request(t, "stop", w)
        /\ next' = [next EXCEPT ![t] = "cancel"]
        /\ UNCHANGED << gitVars, project, todo, status, sweep, crashes >>
    BY DEF StopRequest, Then, Agent!Request
  <1>2. Agent!IInv'
    BY <1>1, AgentSteps DEF RoomInv, Agent!Next
  <1>3. LiveInv' /\ CleanAd'
    BY <1>1, LiveRequest DEF RoomInv
  <1>4. /\ \A y \in Agent!Threads : y # t => agentPc'[y] = agentPc[y]
             /\ agentWs'[y] = agentWs[y]
        /\ agentWs'[t] = w /\ agentPc'[t] = "stop.lookup"
    BY <1>1
    DEF Agent!Request, Agent!Goto, RoomInv, Agent!IInv, Agent!TypeOK,
        Agent!Threads
  <1>5. Git!TypeOK' /\ HandlerTypes'
    BY <1>1 DEF RoomInv, Git!TypeOK, HandlerTypes, gitVars
  <1>6. OneMethod'
    BY <1>1, <1>4
    DEF OneMethod, RoomInv, gitVars, HandlerTypes, Idle, Agent!Threads,
        Agent!StopSteps
  <1>7. Heard'
    BY <1>1, <1>4 DEF Heard, RoomInv, gitVars, Exists, Known
  <1>8. Boot' /\ RowsStay'
    BY <1>1 DEF Boot, RowsStay, RoomInv, gitVars, Exists, Known
  <1> QED BY <1>2, <1>3, <1>5, <1>6, <1>7, <1>8 DEF RoomInv

\* A request enters a method of the workspace manager.
LEMMA GitEnters ==
  ASSUME Git!TypeOK, NEW t \in Reqs, NEW w \in Workspaces,
         NEW op \in {"create", "merge", "cancel"}, Git!Request(t, op, w)
  PROVE  /\ Git!TypeOK' /\ pc[t] = "idle" /\ ws'[t] = w
         /\ pc'[t] = CASE op = "create" -> "create.insert" [] op = "merge" -> "merge.load"
                       [] op = "cancel" -> "cancel.load"
         /\ \A u \in Reqs : u # t => pc'[u] = pc[u] /\ ws'[u] = ws[u]
         /\ UNCHANGED << status, born, sweep, crashes >> /\ sweep = {}
  <1>1. /\ Git!NoRow \in [status : Git!WorkspaceStatus \cup {"none"}, pending :
             0..Git!MaxAutoMergeAttempts]
    BY NameFacts DEF Git!NoRow
  <1>2. Git!TypeOK'
    BY <1>1 DEF Git!TypeOK, Git!Request, Git!Goto, Git!Steps
  <1> QED BY <1>2 DEF Git!TypeOK, Git!Request, Git!Goto

\* A request to create or to merge arrives.
LEMMA GitRequestInv ==
  ASSUME RoomInv, NEW t \in Reqs, NEW w \in Workspaces, NEW op \in Ops,
           GitRequest(t, op, w)
  PROVE  RoomInv'
  <1>1. /\ Idle(t) /\ project /\ op \in {"create", "merge"} /\ Git!Request(t, op, w)
        /\ UNCHANGED << agentVars, handlerVars >>
    BY DEF GitRequest
  <1>2. /\ Git!TypeOK' /\ pc[t] = "idle" /\ ws'[t] = w
        /\ pc'[t] = IF op = "create" THEN "create.insert" ELSE "merge.load"
        /\ \A u \in Reqs : u # t => pc'[u] = pc[u] /\ ws'[u] = ws[u]
        /\ UNCHANGED << status, born, sweep, crashes >> /\ sweep = {}
    BY <1>1, GitEnters DEF RoomInv
  <1>3. IF op = "create"
        THEN status[w] = "none" /\ \A r \in Reqs :
          ~(pc[r] = "create.insert" /\ ws[r] = w)
        ELSE status[w] # "none"
    BY <1>1 DEF Git!Request
  <1>4. Agent!IInv' /\ LiveInv' /\ CleanAd'
    BY <1>1, <1>2, AdaptersStay DEF RoomInv, Agent!IInv, Agent!TypeOK
  <1>5. OneMethod'
    BY <1>1, <1>2 DEF RoomInv, OneMethod, Idle, agentVars, handlerVars
  <1>6. Heard'
    BY <1>1, <1>2, <1>3 DEF RoomInv, Heard, Exists, Known, agentVars
  <1>7. RowsStay'
    BY <1>1, <1>2, <1>3 DEF RoomInv, RowsStay, Exists, Known, handlerVars
  <1>8. Boot' /\ HandlerTypes'
    BY <1>1, <1>2 DEF RoomInv, Boot, HandlerTypes, handlerVars
  <1> QED BY <1>2, <1>4, <1>5, <1>6, <1>7, <1>8 DEF RoomInv

\* handleStopWorkspace goes on to the workspace manager.
LEMMA StopCancelInv ==
  ASSUME RoomInv, NEW t \in Reqs, StopCancel(t)
  PROVE  RoomInv'
  <1>1. /\ next[t] = "cancel" /\ agentPc[t] = "idle" /\ pc[t] = "idle"
             /\ agentWs[t] \in Workspaces
        /\ next' = [next EXCEPT ![t] = "return"] /\ todo[t] = {} /\ Known(agentWs[t])
        /\ UNCHANGED << agentVars, project, todo >>
    BY DEF StopCancel, Then, RoomInv, OneMethod, Heard, Agent!Threads
  <1>2. CASE Git!Request(t, "cancel", agentWs[t])
    <2>1. /\ Git!TypeOK' /\ pc[t] = "idle" /\ ws'[t] = agentWs[t]
               /\ pc'[t] = "cancel.load"
          /\ \A u \in Reqs : u # t => pc'[u] = pc[u] /\ ws'[u] = ws[u]
          /\ UNCHANGED << status, born, sweep, crashes >> /\ sweep = {}
      BY <1>1, <1>2, GitEnters DEF RoomInv
    <2>4. Agent!IInv' /\ LiveInv' /\ CleanAd'
      BY <1>1, <2>1, AdaptersStay DEF RoomInv, Agent!IInv, Agent!TypeOK
    <2>5. OneMethod'
      BY <1>1, <2>1 DEF RoomInv, OneMethod, HandlerTypes, agentVars
    <2>6. Heard'
      BY <1>1, <2>1 DEF RoomInv, Heard, Exists, Known, agentVars
    <2>7. RowsStay'
      BY <1>1, <2>1 DEF RoomInv, RowsStay, Exists, Known
    <2>8. Boot' /\ HandlerTypes'
      BY <1>1, <2>1 DEF RoomInv, Boot, HandlerTypes
    <2> QED BY <2>1, <2>4, <2>5, <2>6, <2>7, <2>8 DEF RoomInv
  <1>3. CASE UNCHANGED << status, bootVars, gitVars >>
    <2>1. UNCHANGED << status, sweep, crashes, pc, ws, born >>
      BY <1>3 DEF gitVars, bootVars
    <2>2. Git!TypeOK'
      BY <1>3 DEF RoomInv, Git!TypeOK, gitVars, bootVars
    <2>4. Agent!IInv' /\ LiveInv' /\ CleanAd'
      BY <1>1, <2>1, AdaptersStay DEF RoomInv, Agent!IInv, Agent!TypeOK
    <2>5. OneMethod'
      BY <1>1, <2>1 DEF RoomInv, OneMethod, HandlerTypes, agentVars
    <2>6. Heard' /\ RowsStay'
      BY <1>1, <2>1 DEF RoomInv, Heard, RowsStay, Exists, Known, agentVars
    <2>8. Boot' /\ HandlerTypes'
      BY <1>1, <2>1 DEF RoomInv, Boot, HandlerTypes, Idle, agentVars
    <2> QED BY <2>2, <2>4, <2>5, <2>6, <2>8 DEF RoomInv
  <1> QED BY <1>2, <1>3 DEF StopCancel

\* handleDeleteProject lists the workspaces.
LEMMA DeleteListInv ==
  ASSUME RoomInv, NEW t \in Reqs, DeleteList(t)
  PROVE  RoomInv'
  <1>1. /\ Idle(t) /\ sweep = {} /\ next' = [next EXCEPT ![t] = "cleanup"]
        /\ todo' = [todo EXCEPT ![t] = {w \in Workspaces : Exists(w)}]
        /\ UNCHANGED << status, sweep, crashes, agentVars, gitVars, project >>
    BY DEF DeleteList, Then, bootVars
  <1>2. Git!TypeOK'
    BY <1>1 DEF RoomInv, Git!TypeOK, gitVars
  <1>3. Agent!IInv' /\ LiveInv' /\ CleanAd'
    BY <1>1, AdaptersStay DEF RoomInv, Agent!IInv, Agent!TypeOK
  <1>4. OneMethod'
    BY <1>1 DEF RoomInv, OneMethod, HandlerTypes, agentVars, gitVars, Idle
  <1>5. Heard' /\ RowsStay'
    BY <1>1 DEF RoomInv, Heard, RowsStay, Exists, Known, agentVars, gitVars
  <1>6. Boot' /\ HandlerTypes'
    BY <1>1 DEF RoomInv, Boot, HandlerTypes
  <1> QED BY <1>2, <1>3, <1>4, <1>5, <1>6 DEF RoomInv

\* handleDeleteProject cleans up one of them.
LEMMA DeleteCleanupInv ==
  ASSUME RoomInv, NEW t \in Reqs, NEW w \in Workspaces, DeleteCleanup(t, w)
  PROVE  RoomInv'
  <1>1. /\ w \in todo[t] /\ todo' = [todo EXCEPT ![t] = @ \ {w}]
        /\ worktrees' = worktrees \/ worktrees' = worktrees \ {w}
        /\ UNCHANGED << status, sweep, crashes, agentVars, project, next, branch, path,
             pending,
                  born, target, tree, base, branches, pc, ws, row, merged, gone,
                  window, delivered, tries >>
    BY DEF DeleteCleanup, bootVars
  <1>2. Git!TypeOK'
    BY <1>1 DEF RoomInv, Git!TypeOK
  <1>3. Agent!IInv' /\ LiveInv' /\ CleanAd'
    BY <1>1, AdaptersStay DEF RoomInv, Agent!IInv, Agent!TypeOK
  <1>4. OneMethod'
    BY <1>1 DEF RoomInv, OneMethod, HandlerTypes, agentVars
  <1>5. Heard' /\ RowsStay'
    BY <1>1 DEF RoomInv, Heard, RowsStay, Exists, Known, agentVars
  <1>6. Boot' /\ HandlerTypes'
    BY <1>1 DEF RoomInv, Boot, HandlerTypes, Idle, agentVars
  <1> QED BY <1>2, <1>3, <1>4, <1>5, <1>6 DEF RoomInv

\* handleDeleteProject deletes the rows.
LEMMA DeleteRowsInv ==
  ASSUME RoomInv, NEW t \in Reqs, DeleteRows(t)
  PROVE  RoomInv'
  <1>1. /\ next[t] = "cleanup" /\ todo[t] = {} /\ project' = FALSE
        /\ status' = [w \in Workspaces |-> "none"]
        /\ branch' = [w \in Workspaces |-> None]
        /\ path' = [w \in Workspaces |-> FALSE]
        /\ pending' = [w \in Workspaces |-> 0]
        /\ next' = [next EXCEPT ![t] = "return"]
        /\ UNCHANGED << sweep, crashes, agentVars, todo, born, target, tree, base,
             branches,
                  worktrees, pc, ws, row, merged, gone, window, delivered, tries >>
    BY DEF DeleteRows, bootVars, Then
  <1>2. Git!TypeOK'
    BY <1>1, NameFacts DEF RoomInv, Git!TypeOK
  <1>3. Agent!IInv' /\ LiveInv' /\ CleanAd'
    BY <1>1, AdaptersStay DEF RoomInv, Agent!IInv, Agent!TypeOK, Agent!Rows
  <1>4. OneMethod'
    BY <1>1 DEF RoomInv, OneMethod, HandlerTypes, agentVars
  <1>5. Heard'
    BY <1>1 DEF RoomInv, Heard, Exists, Known, agentVars
  <1>6. sweep = {}
    BY <1>1 DEF RoomInv, Boot, Idle
  <1>7. RowsStay'
    BY <1>1, <1>6 DEF RoomInv, RowsStay, Exists, Known
  <1>8. Boot' /\ HandlerTypes'
    BY <1>1, <1>6 DEF RoomInv, Boot, HandlerTypes
  <1> QED BY <1>2, <1>3, <1>4, <1>5, <1>7, <1>8 DEF RoomInv

\* A request or a drain takes a step in the agent manager.
LEMMA AgentThreadInv ==
  ASSUME RoomInv, NEW x \in Agent!Threads,
         (x \in Reqs /\ Agent!Handle(x)) \/ (x \in Adapters /\ Agent!Drain(x)),
         UNCHANGED << gitVars, handlerVars >>
  PROVE  RoomInv' /\ AgentMoves(x)
  <1>1. AgentMoves(x) /\ LiveInv' /\ CleanAd' /\ Agent!IInv'
    BY AgentThread DEF RoomInv
  <1> QED BY <1>1, AgentFrame DEF RoomInv

\* A request takes a step in the workspace manager.
LEMMA GitStepInv ==
  ASSUME RoomInv, NEW t \in Reqs, GitStep(t)
  PROVE  RoomInv'
  <1>1. CASE pc[t] = "create.insert" /\ ~project
    <2>1. /\ pc' = [pc EXCEPT ![t] = "idle"]
          /\ UNCHANGED << agentVars, handlerVars >>
          /\ UNCHANGED << status, sweep, crashes, branch, path, pending, born, target,
               tree,
                          base, branches, worktrees, ws, row, merged, gone, window,
                          delivered, tries >>
      BY <1>1 DEF GitStep, Git!Goto, bootVars
    <2>2. Git!TypeOK'
      BY <2>1 DEF RoomInv, Git!TypeOK, Git!Steps
    <2>3. GitMoves(t)
      BY <1>1, <2>1 DEF GitMoves, RoomInv, Git!TypeOK
    <2> QED BY <2>1, <2>2, <2>3, GitFrame
  <1>2. CASE Git!Handle(t) /\ UNCHANGED << agentVars, handlerVars >>
            /\ (pc[t] = "create.insert" => project)
    <2>1. GitMoves(t) /\ Git!TypeOK'
      BY <1>2, GitHandleMoves
    <2> QED BY <1>2, <2>1, GitFrame
  <1> QED BY <1>1, <1>2 DEF GitStep, RoomInv, HandlerTypes

\* An adapter speaks, a drain takes a step, or a subprocess exits.
LEMMA BackgroundInv ==
  ASSUME RoomInv, NEW a \in Adapters, Background(a)
  PROVE  RoomInv'
  <1>1. CASE Agent!Drain(a)
    BY <1>1, AgentThreadInv DEF Background, Agent!Threads
  <1>2. CASE Agent!Agent(a)
    <2>1. Agent!IInv'
      BY <1>2, AgentSteps DEF RoomInv, Agent!Next
    <2>2. LiveInv' /\ CleanAd'
      BY <1>2, LiveQTalk, LiveQFinishTurn, LiveQProcessExit
      DEF RoomInv, Agent!Agent
    <2>3. UNCHANGED << status, sweep, crashes, agentPc, agentWs, gitVars, handlerVars >>
      BY <1>2
      DEF Background, Agent!Agent, Agent!Talk, Agent!FinishTurn,
          Agent!ProcessExit, Agent!Emit
    <2>4. Git!TypeOK' /\ HandlerTypes' /\ OneMethod' /\ Heard' /\ Boot' /\ RowsStay'
      BY <2>3
      DEF RoomInv, Git!TypeOK, HandlerTypes, OneMethod, Heard, Boot, RowsStay,
          gitVars, handlerVars, Exists, Known, Idle
    <2> QED BY <2>1, <2>2, <2>4 DEF RoomInv
  <1> QED BY <1>1, <1>2 DEF Background

\* The users commit to their branches.
LEMMA WorldInv ==
  ASSUME RoomInv, World
  PROVE  RoomInv'
  <1>1. /\ UNCHANGED << agentVars, handlerVars, status, born, pc, ws, sweep, crashes >>
    BY DEF World, Git!Commit, Git!Resolve, Git!UserCommit, Git!Tick
  <1>2. Git!TypeOK'
    <2>1. CASE \E w \in Workspaces : Git!Commit(w)
      <3>0. PICK w \in Workspaces : Git!Commit(w)
        BY <2>1
      <3>1. PICK n \in Git!Names \cup {None} : n = born[w] /\ Git!Commit(w)
        BY <3>0 DEF RoomInv, Git!TypeOK
      <3>2. tree' = [tree EXCEPT ![n] = @ \cup {w}]
        BY <3>1 DEF Git!Commit, Git!BranchIn
      <3>3. tree' \in [Git!Names -> SUBSET Git!Changes]
        BY <3>2 DEF RoomInv, Git!TypeOK, Git!Changes
      <3> QED BY <3>1, <3>3 DEF Git!Commit, RoomInv, Git!TypeOK
    <2>2. CASE \E w \in Workspaces : Git!Resolve(w)
      <3>0. PICK w \in Workspaces : Git!Resolve(w)
        BY <2>2
      <3>1. PICK n \in Git!Names \cup {None} : n = born[w] /\ Git!Resolve(w)
        BY <3>0 DEF RoomInv, Git!TypeOK
      <3>2. /\ tree' = [tree EXCEPT ![n] = Git!ThreeWay(n)]
            /\ base' = [base EXCEPT ![n] = target]
        BY <3>1 DEF Git!Resolve, Git!BranchIn
      <3>3. n \in Git!Names => Git!ThreeWay(n) \subseteq Git!Changes
        BY DEF RoomInv, Git!TypeOK, Git!ThreeWay
      <3>4. /\ tree' \in [Git!Names -> SUBSET Git!Changes]
            /\ base' \in [Git!Names -> SUBSET Git!Changes]
        BY <3>2, <3>3 DEF RoomInv, Git!TypeOK
      <3> QED BY <3>1, <3>4 DEF Git!Resolve, RoomInv, Git!TypeOK
    <2>3. CASE \E c \in UserChanges : Git!UserCommit(c)
      BY <2>3 DEF Git!UserCommit, RoomInv, Git!TypeOK, Git!Changes
    <2>4. CASE Git!Tick
      <3>1. window' \in Git!Names
        <4>1. PICK n \in 0..MaxWindow : n = window
          BY DEF RoomInv, Git!TypeOK, Git!Names
        <4>2. n + 1 \in 0..MaxWindow
          BY <2>4, <4>1, NameFacts DEF Git!Tick
        <4> QED BY <2>4, <4>1, <4>2 DEF Git!Tick, Git!Names
      <3> QED BY <2>4, <3>1 DEF Git!Tick, RoomInv, Git!TypeOK
    <2> QED BY <2>1, <2>2, <2>3, <2>4 DEF World
  <1>3. Agent!IInv' /\ LiveInv' /\ CleanAd'
    BY <1>1, AdaptersStay DEF RoomInv, Agent!IInv, Agent!TypeOK
  <1>4. HandlerTypes' /\ OneMethod' /\ Heard' /\ Boot' /\ RowsStay'
    BY <1>1
    DEF RoomInv, HandlerTypes, OneMethod, Heard, Boot, RowsStay, agentVars,
        handlerVars, Exists, Known, Idle
  <1> QED BY <1>2, <1>3, <1>4 DEF RoomInv

\* The orphan sweep of a boot writes one row.
LEMMA SweepRowInv ==
  ASSUME RoomInv, NEW w \in Workspaces, SweepRow(w)
  PROVE  RoomInv'
  <1>1. /\ w \in sweep /\ status' = [status EXCEPT ![w] = "failed"]
             /\ sweep' = sweep \ {w}
        /\ UNCHANGED << agentVars, gitVars, handlerVars, crashes >>
    BY DEF SweepRow, Agent!SweepRow, Git!SweepRow, agentVars, gitVars
  <1>2. Git!TypeOK'
    BY <1>1 DEF RoomInv, Git!TypeOK, gitVars, Git!WorkspaceStatus
  <1>3. Agent!IInv' /\ LiveInv' /\ CleanAd'
    <2>1. status' \in [Workspaces -> Agent!Rows] /\ sweep' \in SUBSET Workspaces
            /\ crashes' \in 0..MaxCrashes
      BY <1>2, SameRows DEF Git!TypeOK
    <2> QED BY <1>1, <2>1, AdaptersStay DEF RoomInv
  <1>4. HandlerTypes' /\ OneMethod' /\ Boot'
    BY <1>1
    DEF RoomInv, HandlerTypes, OneMethod, Boot, agentVars, gitVars, handlerVars,
        Idle
  <1>5. \A v \in Workspaces : Exists(v)' <=> Exists(v)
    BY <1>1 DEF RoomInv, RowsStay, Exists, Git!TypeOK
  <1>6. UNCHANGED << born, pc, ws, project, agentWs >>
    BY <1>1 DEF agentVars, gitVars, handlerVars
  <1>7. Heard'
    BY <1>5, <1>6 DEF RoomInv, Heard, Known
  <1>8. RowsStay'
    <2>1. \A v \in Workspaces : v \in sweep' => v \in sweep
      BY <1>1
    <2>2. \A v \in sweep' : v \in Workspaces
      BY <1>3 DEF Agent!IInv, Agent!TypeOK
    <2>3. (\A v \in sweep : Exists(v)) => \A v \in sweep' : Exists(v)'
      BY <1>5, <2>1, <2>2
    <2>4. (\A v \in Workspaces : project /\ Known(v) => Exists(v))
          => (\A v \in Workspaces : project /\ Known(v) => Exists(v))'
      BY <1>5, <1>6 DEF Known
    <2>5. (~project => \A v \in Workspaces : ~Exists(v))
          => (~project => \A v \in Workspaces : ~Exists(v))'
      BY <1>5, <1>6
    <2>6. ((\A t \in Reqs : pc[t] = "create.insert" /\ project => ~Known(ws[t])) /\
           (\A t, u \in Reqs : pc[t] = "create.insert" /\ pc[u] = "create.insert"
             /\ ws[t] = ws[u] => t = u))
          => ((\A t \in Reqs : pc[t] = "create.insert" /\ project => ~Known(ws[t])) /\
           (\A t, u \in Reqs : pc[t] = "create.insert" /\ pc[u] = "create.insert"
             /\ ws[t] = ws[u] => t = u))'
      BY <1>6 DEF Known
    <2> QED BY <2>3, <2>4, <2>5, <2>6 DEF RoomInv, RowsStay
  <1> QED BY <1>2, <1>3, <1>4, <1>7, <1>8 DEF RoomInv

\* No thread of the manager is at work and no adapter has been made.
NoAgents ==
  /\ sessions = [w \in Workspaces |-> None]
  /\ ctxDone = {}
  /\ agentPc = [t \in Agent!Threads |-> "idle"]
  /\ agentWs = [t \in Agent!Threads |-> None]
  /\ life = [a \in Adapters |-> "free"]

\* The server crashes: both managers are new, and the rows and the repository stay.
LEMMA CrashInv ==
  ASSUME RoomInv, Crash
  PROVE  RoomInv'
  <1>1. /\ Agent!Crash /\ Git!Crash
             /\ UNCHANGED << project, status, born, branch, path, worktrees >>
        /\ next' = [t \in Reqs |-> "return"] /\ todo' = [t \in Reqs |-> {}]
        /\ pc' = [t \in Reqs |-> "idle"] /\ ws' = ws
    BY DEF Crash, Git!Crash
  <1>2. Agent!IInv'
    BY <1>1, AgentSteps DEF RoomInv, Agent!Next
  <1>3. NoAgents'
    BY <1>1 DEF Agent!Crash, NoAgents, Agent!Threads
  <1>4. Git!TypeOK'
    BY <1>1, <1>2
    DEF Git!Crash, RoomInv, Git!TypeOK, Agent!IInv, Agent!TypeOK, Git!Steps
  <1>5. HandlerTypes' /\ Boot'
    BY <1>1, <1>3 DEF RoomInv, HandlerTypes, Boot, Idle, NoAgents, Agent!Threads
  <1>6. OneMethod'
    BY <1>1, <1>3 DEF OneMethod, NoAgents, Agent!Threads
  <1>7. Heard'
    BY <1>1, <1>3, AdapterFacts DEF RoomInv, Heard, NoAgents, Exists, Known
  <1>8. RowsStay'
    <2>1. \A w \in sweep' : status[w] # "none"
      BY <1>1 DEF Git!Crash, Git!Swept
    <2> QED BY <1>1, <2>1 DEF RoomInv, RowsStay, Exists, Known
  <1>9. LiveInv' /\ CleanAd'
    BY <1>3 DEF LiveInv, CleanAd, NoAgents, Agent!Threads
  <1> QED BY <1>2, <1>4, <1>5, <1>6, <1>7, <1>8, <1>9 DEF RoomInv

\* Nothing happens.
LEMMA StutterInv == ASSUME RoomInv, UNCHANGED vars PROVE RoomInv'
  <1>1. UNCHANGED << agentVars, gitVars, handlerVars, status, sweep, crashes >>
    BY DEF vars, bootVars
  <1>2. Git!TypeOK' /\ HandlerTypes' /\ OneMethod' /\ Heard' /\ Boot' /\ RowsStay'
    BY <1>1
    DEF RoomInv, Git!TypeOK, HandlerTypes, OneMethod, Heard, Boot, RowsStay,
        agentVars, gitVars, handlerVars, Exists, Known, Idle
  <1>3. Agent!IInv' /\ LiveInv' /\ CleanAd'
    BY <1>1, AdaptersStay DEF RoomInv, Agent!IInv, Agent!TypeOK
  <1> QED BY <1>2, <1>3 DEF RoomInv

\* Every step preserves RoomInv.
LEMMA NextRoom == ASSUME RoomInv, [Next]_vars PROVE RoomInv'
  <1>1. ASSUME NEW t \in Reqs, Handle(t) PROVE RoomInv'
    <2>1. CASE AgentStep(t)
      BY <2>1, AgentThreadInv DEF AgentStep, Agent!Threads
    <2> QED
        BY <1>1, <2>1, GitStepInv, StopCancelInv, DeleteRowsInv,
           DeleteCleanupInv
        DEF Handle
  <1> QED
    BY <1>1, AgentRequestInv, GitRequestInv, StopRequestInv, DeleteListInv,
       BackgroundInv, WorldInv, SweepRowInv, CrashInv, StutterInv
    DEF Next

\* RoomInv holds when the server has just been created.
LEMMA InitRoom == Init => RoomInv
  <1> SUFFICES ASSUME Init PROVE RoomInv
    OBVIOUS
  <1> USE DEF Init, Git!Init
  <1>1. /\ NewAgent!Init
    OBVIOUS
  <1>2. Agent!TypeOK
    BY <1>1, ControlRoomAssumption
    DEF NewAgent!Init, NewAgent!Threads, Agent!TypeOK, Agent!Threads,
        Agent!Rows, Agent!Life, Agent!Steps, Agent!ConstantsAssumption,
        Agent!Events
  <1>3. Agent!SessionInv
    BY <1>1, AdapterFacts
    DEF NewAgent!Init, NewAgent!Threads, Agent!Threads, Agent!SessionInv,
        Agent!ThreadsInPlace, Agent!AdaptersHeld, Agent!FreeUnknown,
        Agent!StoppedIsCancelled, Agent!ClosedByPreemption,
        Agent!PromptBeforeDrain, Agent!NoDeadSession, Agent!NoForgottenSession,
        Agent!HasSession, Agent!Starting, Agent!Closed, Agent!DrainSteps,
        Agent!FailSteps, Agent!CleanSteps, Agent!HoldingSteps
  <1>4. Git!TypeOK
    BY NameFacts, ControlRoomAssumption
    DEF Git!TypeOK, Git!Steps, Git!NoRow, Git!Names,
        Git!WorkspaceManagerAssumption
  <1>5. HandlerTypes /\ Boot
    BY DEF HandlerTypes, Boot
  <1>6. NoAgents
    BY <1>1 DEF NewAgent!Init, NewAgent!Threads, NoAgents, Agent!Threads
  <1>7. OneMethod
    BY <1>6 DEF OneMethod, NoAgents, Agent!Threads
  <1>8. Heard /\ RowsStay
    BY <1>6, AdapterFacts DEF Heard, RowsStay, NoAgents, Exists, Known
  <1>9. LiveInv /\ CleanAd
    BY <1>6 DEF LiveInv, CleanAd, NoAgents, Agent!Threads
  <1> QED BY <1>2, <1>3, <1>4, <1>5, <1>7, <1>8, <1>9 DEF RoomInv, Agent!IInv

\* RoomInv holds always: in particular a request is in one method of one manager at
\* a time, an agent that runs is in the session table or held by the request that
\* starts or stops it, and no row is there without having been heard of.
THEOREM RoomInvariance == Spec => []RoomInv
  BY InitRoom, NextRoom, PTL DEF Spec

\* The variables of the server have their types (TypeOK).
THEOREM RoomTypes == Spec => []TypeOK
  <1>1. RoomInv => TypeOK
    BY DEF RoomInv, TypeOK, Agent!IInv, HandlerTypes
  <1> QED BY <1>1, RoomInvariance, PTL

-----------------------------------------------------------------------------
(* handleStopWorkspace: when the worktree goes, the agent has been ended.  *)

\* What a step of thread x of the manager does to sessions and adapters.
AgentEffect(x) ==
  /\ \A w \in Workspaces :
       \/ sessions'[w] \in {sessions[w], None}
       \/ x \in Reqs /\ agentPc[x] = "start.register" /\ agentWs[x] = w
  /\ x \in Reqs /\ agentPc[x] \in Agent!StopSteps \cup {"clean.delete"} =>
       \/ agentPc'[x] \in Agent!StopSteps \cup {"clean.delete"}
       \/ sessions'[agentWs[x]] = None
  /\ agentPc[x] = "clean.cancel" => agentPc'[x] # "clean.cancel"
       /\ ad[x] \in ctxDone' \cup {None}
  /\ \A a \in Adapters :
       /\ a \in ctxDone => a \in ctxDone'
       /\ a # x /\ agentPc[a] # "idle" => agentPc'[a] = agentPc[a] /\ ad'[a] = ad[a]
       /\ \/ agentWs'[a] = agentWs[a] /\ (life'[a] = "live" => life[a] = "live")
          \/ /\ x \in Reqs /\ agentPc[x] = "start.spawn" /\ life' # life
             /\ agentWs'[a] = agentWs[x]

\* StartLoad has such an effect.
LEMMA EffectStartLoad ==
  ASSUME Agent!IInv, NEW t \in Reqs, Agent!StartLoad(t)
  PROVE  AgentEffect(t)
  BY AdapterFacts
  DEF AgentEffect, Agent!IInv, Agent!TypeOK, Agent!StartLoad, Agent!Goto,
      Agent!Threads, Agent!StopSteps

\* StartSpawn has such an effect.
LEMMA EffectStartSpawn ==
  ASSUME Agent!IInv, NEW t \in Reqs, Agent!StartSpawn(t)
  PROVE  AgentEffect(t)
  BY AdapterFacts
  DEF AgentEffect, Agent!IInv, Agent!TypeOK, Agent!StartSpawn, Agent!Goto,
      Agent!Threads, Agent!StopSteps

\* StartRunning has such an effect.
LEMMA EffectStartRunning ==
  ASSUME Agent!IInv, NEW t \in Reqs, Agent!StartRunning(t)
  PROVE  AgentEffect(t)
  <1>1. agentPc[t] # "idle" /\ agentWs[t] \in Workspaces /\ t \in Agent!Threads
    BY
    DEF Agent!IInv, Agent!SessionInv, Agent!ThreadsInPlace, Agent!StartRunning,
        Agent!Threads
  <1>2. ctxDone' = ctxDone \/ (t \in Reqs /\ ctxDone' = ctxDone \cup {t})
    BY <1>1, UpdateDone, AdapterFacts DEF Agent!StartRunning
  <1> QED
    BY <1>1, <1>2, AdapterFacts
    DEF AgentEffect, Agent!IInv, Agent!TypeOK, Agent!StartRunning, Agent!Goto,
        Agent!Threads, Agent!StopSteps, Agent!AdapterStop, Agent!Closed

\* StartRegister has such an effect.
LEMMA EffectStartRegister ==
  ASSUME Agent!IInv, NEW t \in Reqs, Agent!StartRegister(t)
  PROVE  AgentEffect(t)
  BY AdapterFacts
  DEF AgentEffect, Agent!IInv, Agent!TypeOK, Agent!StartRegister, Agent!Goto,
      Agent!Threads, Agent!StopSteps

\* StartPreempt has such an effect.
LEMMA EffectStartPreempt ==
  ASSUME Agent!IInv, NEW t \in Reqs, Agent!StartPreempt(t)
  PROVE  AgentEffect(t)
  BY AdapterFacts
  DEF AgentEffect, Agent!IInv, Agent!TypeOK, Agent!StartPreempt, Agent!Goto,
      Agent!Threads, Agent!StopSteps, Agent!AdapterStop, Agent!Closed

\* StartPrompt has such an effect.
LEMMA EffectStartPrompt ==
  ASSUME Agent!IInv, NEW t \in Reqs, Agent!StartPrompt(t)
  PROVE  AgentEffect(t)
  BY AdapterFacts
  DEF AgentEffect, Agent!IInv, Agent!TypeOK, Agent!StartPrompt, Agent!Goto,
      Agent!Threads, Agent!StopSteps, Agent!AdapterSendPrompt

\* StartPersist has such an effect.
LEMMA EffectStartPersist ==
  ASSUME Agent!IInv, NEW t \in Reqs, Agent!StartPersist(t)
  PROVE  AgentEffect(t)
  BY AdapterFacts
  DEF AgentEffect, Agent!IInv, Agent!TypeOK, Agent!StartPersist, Agent!Goto,
      Agent!Threads, Agent!StopSteps, Agent!SessionInv, Agent!AdaptersHeld,
      Agent!HoldingSteps, Agent!Starting

\* PromptLookup has such an effect.
LEMMA EffectPromptLookup ==
  ASSUME Agent!IInv, NEW t \in Reqs, Agent!PromptLookup(t)
  PROVE  AgentEffect(t)
  BY AdapterFacts
  DEF AgentEffect, Agent!IInv, Agent!TypeOK, Agent!PromptLookup, Agent!Goto,
      Agent!Threads, Agent!StopSteps

\* PromptCheck has such an effect.
LEMMA EffectPromptCheck ==
  ASSUME Agent!IInv, NEW t \in Reqs, Agent!PromptCheck(t)
  PROVE  AgentEffect(t)
  BY AdapterFacts
  DEF AgentEffect, Agent!IInv, Agent!TypeOK, Agent!PromptCheck, Agent!Goto,
      Agent!Threads, Agent!StopSteps

\* PromptRunning has such an effect.
LEMMA EffectPromptRunning ==
  ASSUME Agent!IInv, NEW t \in Reqs, Agent!PromptRunning(t)
  PROVE  AgentEffect(t)
  <1>1. agentPc[t] # "idle" /\ agentWs[t] \in Workspaces /\ t \in Agent!Threads
    BY
    DEF Agent!IInv, Agent!SessionInv, Agent!ThreadsInPlace, Agent!PromptRunning,
        Agent!Threads
  <1>2. ctxDone' = ctxDone \/ (t \in Reqs /\ ctxDone' = ctxDone \cup {t})
    BY <1>1, UpdateDone, AdapterFacts DEF Agent!PromptRunning
  <1> QED
    BY <1>1, <1>2, AdapterFacts
    DEF AgentEffect, Agent!IInv, Agent!TypeOK, Agent!PromptRunning, Agent!Goto,
        Agent!Threads, Agent!StopSteps

\* PromptSend has such an effect.
LEMMA EffectPromptSend ==
  ASSUME Agent!IInv, NEW t \in Reqs, Agent!PromptSend(t)
  PROVE  AgentEffect(t)
  BY AdapterFacts
  DEF AgentEffect, Agent!IInv, Agent!TypeOK, Agent!PromptSend, Agent!Goto,
      Agent!Threads, Agent!StopSteps, Agent!AdapterSendPrompt

\* PromptPersist has such an effect.
LEMMA EffectPromptPersist ==
  ASSUME Agent!IInv, NEW t \in Reqs, Agent!PromptPersist(t)
  PROVE  AgentEffect(t)
  BY AdapterFacts
  DEF AgentEffect, Agent!IInv, Agent!TypeOK, Agent!PromptPersist, Agent!Goto,
      Agent!Threads, Agent!StopSteps

\* StopLookup has such an effect.
LEMMA EffectStopLookup ==
  ASSUME Agent!IInv, NEW t \in Reqs, Agent!StopLookup(t)
  PROVE  AgentEffect(t)
  BY AdapterFacts
  DEF AgentEffect, Agent!IInv, Agent!TypeOK, Agent!StopLookup, Agent!Goto,
      Agent!Threads, Agent!StopSteps

\* StopCancel has such an effect.
LEMMA EffectStopCancel ==
  ASSUME Agent!IInv, NEW t \in Reqs, Agent!StopCancel(t)
  PROVE  AgentEffect(t)
  BY AdapterFacts
  DEF AgentEffect, Agent!IInv, Agent!TypeOK, Agent!StopCancel, Agent!Goto,
      Agent!Threads, Agent!StopSteps

\* StopKill has such an effect.
LEMMA EffectStopKill ==
  ASSUME Agent!IInv, NEW t \in Reqs, Agent!StopKill(t)
  PROVE  AgentEffect(t)
  BY AdapterFacts
  DEF AgentEffect, Agent!IInv, Agent!TypeOK, Agent!StopKill, Agent!Goto,
      Agent!Threads, Agent!StopSteps, Agent!AdapterStop, Agent!Closed

\* StopRead has such an effect.
LEMMA EffectStopRead ==
  ASSUME Agent!IInv, NEW t \in Reqs, Agent!StopRead(t)
  PROVE  AgentEffect(t)
  BY AdapterFacts
  DEF AgentEffect, Agent!IInv, Agent!TypeOK, Agent!StopRead, Agent!Goto,
      Agent!Threads, Agent!StopSteps

\* StopWrite has such an effect.
LEMMA EffectStopWrite ==
  ASSUME Agent!IInv, NEW t \in Reqs, Agent!StopWrite(t)
  PROVE  AgentEffect(t)
  <1>1. agentPc[t] # "idle" /\ agentWs[t] \in Workspaces /\ t \in Agent!Threads
    BY
    DEF Agent!IInv, Agent!SessionInv, Agent!ThreadsInPlace, Agent!StopWrite,
        Agent!Threads
  <1>2. ctxDone' = ctxDone \/ (t \in Reqs /\ ctxDone' = ctxDone \cup {t})
    BY <1>1, UpdateDone, AdapterFacts DEF Agent!StopWrite
  <1> QED
    BY <1>1, <1>2, AdapterFacts
    DEF AgentEffect, Agent!IInv, Agent!TypeOK, Agent!StopWrite, Agent!Goto,
        Agent!Threads, Agent!StopSteps

\* CompleteRead has such an effect.
LEMMA EffectCompleteRead ==
  ASSUME Agent!IInv, NEW t \in Reqs, Agent!CompleteRead(t)
  PROVE  AgentEffect(t)
  BY AdapterFacts
  DEF AgentEffect, Agent!IInv, Agent!TypeOK, Agent!CompleteRead, Agent!Goto,
      Agent!Threads, Agent!StopSteps

\* CompleteWrite has such an effect.
LEMMA EffectCompleteWrite ==
  ASSUME Agent!IInv, NEW t \in Reqs, Agent!CompleteWrite(t)
  PROVE  AgentEffect(t)
  <1>1. agentPc[t] # "idle" /\ agentWs[t] \in Workspaces /\ t \in Agent!Threads
    BY
    DEF Agent!IInv, Agent!SessionInv, Agent!ThreadsInPlace, Agent!CompleteWrite,
        Agent!Threads
  <1>2. ctxDone' = ctxDone \/ (t \in Reqs /\ ctxDone' = ctxDone \cup {t})
    BY <1>1, UpdateDone, AdapterFacts DEF Agent!CompleteWrite
  <1> QED
    BY <1>1, <1>2, AdapterFacts
    DEF AgentEffect, Agent!IInv, Agent!TypeOK, Agent!CompleteWrite, Agent!Goto,
        Agent!Threads, Agent!StopSteps

\* FailRead has such an effect.
LEMMA EffectFailRead ==
  ASSUME Agent!IInv, NEW t \in Agent!Threads, Agent!FailRead(t)
  PROVE  AgentEffect(t)
  BY AdapterFacts
  DEF AgentEffect, Agent!IInv, Agent!TypeOK, Agent!FailRead, Agent!Goto,
      Agent!Threads, Agent!StopSteps, Agent!Return, Agent!FailSteps

\* FailWrite has such an effect.
LEMMA EffectFailWrite ==
  ASSUME Agent!IInv, NEW t \in Agent!Threads, Agent!FailWrite(t)
  PROVE  AgentEffect(t)
  <1>1. agentPc[t] # "idle" /\ agentWs[t] \in Workspaces /\ t \in Agent!Threads
    BY
    DEF Agent!IInv, Agent!SessionInv, Agent!ThreadsInPlace, Agent!FailWrite,
        Agent!Threads
  <1>2. ctxDone' = ctxDone \/ (t \in Reqs /\ ctxDone' = ctxDone \cup {t})
    BY <1>1, UpdateDone, AdapterFacts DEF Agent!FailWrite
  <1> QED
    BY <1>1, <1>2, AdapterFacts
    DEF AgentEffect, Agent!IInv, Agent!TypeOK, Agent!FailWrite, Agent!Goto,
        Agent!Threads, Agent!StopSteps, Agent!Return, Agent!FailSteps

\* CleanDelete has such an effect.
LEMMA EffectCleanDelete ==
  ASSUME Agent!IInv, NEW t \in Agent!Threads, Agent!CleanDelete(t)
  PROVE  AgentEffect(t)
  BY AdapterFacts
  DEF AgentEffect, Agent!IInv, Agent!TypeOK, Agent!CleanDelete, Agent!Goto,
      Agent!Threads, Agent!StopSteps, Agent!SessionInv, Agent!ThreadsInPlace

\* CleanCancel has such an effect.
LEMMA EffectCleanCancel ==
  ASSUME Agent!IInv, NEW t \in Agent!Threads, Agent!CleanCancel(t)
  PROVE  AgentEffect(t)
  BY AdapterFacts
  DEF AgentEffect, Agent!IInv, Agent!TypeOK, Agent!CleanCancel, Agent!Goto,
      Agent!Threads, Agent!StopSteps, Agent!Return, Agent!FailSteps

\* DrainSelect has such an effect.
LEMMA EffectDrainSelect ==
  ASSUME Agent!IInv, NEW t \in Adapters, Agent!DrainSelect(t)
  PROVE  AgentEffect(t)
  BY AdapterFacts
  DEF AgentEffect, Agent!IInv, Agent!TypeOK, Agent!DrainSelect, Agent!Goto,
      Agent!Threads, Agent!StopSteps

\* DrainClosed has such an effect.
LEMMA EffectDrainClosed ==
  ASSUME Agent!IInv, NEW t \in Adapters, Agent!DrainClosed(t)
  PROVE  AgentEffect(t)
  BY AdapterFacts
  DEF AgentEffect, Agent!IInv, Agent!TypeOK, Agent!DrainClosed, Agent!Goto,
      Agent!Threads, Agent!StopSteps

\* DrainPersist has such an effect.
LEMMA EffectDrainPersist ==
  ASSUME Agent!IInv, NEW t \in Adapters, Agent!DrainPersist(t)
  PROVE  AgentEffect(t)
  BY AdapterFacts
  DEF AgentEffect, Agent!IInv, Agent!TypeOK, Agent!DrainPersist, Agent!Goto,
      Agent!Threads, Agent!StopSteps

\* DrainCostRead has such an effect.
LEMMA EffectDrainCostRead ==
  ASSUME Agent!IInv, NEW t \in Adapters, Agent!DrainCostRead(t)
  PROVE  AgentEffect(t)
  BY AdapterFacts
  DEF AgentEffect, Agent!IInv, Agent!TypeOK, Agent!DrainCostRead, Agent!Goto,
      Agent!Threads, Agent!StopSteps

\* DrainCostWrite has such an effect.
LEMMA EffectDrainCostWrite ==
  ASSUME Agent!IInv, NEW t \in Adapters, Agent!DrainCostWrite(t)
  PROVE  AgentEffect(t)
  BY AdapterFacts
  DEF AgentEffect, Agent!IInv, Agent!TypeOK, Agent!DrainCostWrite, Agent!Goto,
      Agent!Threads, Agent!StopSteps

\* DrainTerminal has such an effect.
LEMMA EffectDrainTerminal ==
  ASSUME Agent!IInv, NEW t \in Adapters, Agent!DrainTerminal(t)
  PROVE  AgentEffect(t)
  <1>1. agentPc[t] # "idle" /\ agentWs[t] \in Workspaces /\ t \in Agent!Threads
    BY
    DEF Agent!IInv, Agent!SessionInv, Agent!ThreadsInPlace, Agent!DrainTerminal,
        Agent!Threads
  <1>2. ctxDone' = ctxDone \/ (t \in Reqs /\ ctxDone' = ctxDone \cup {t})
    BY <1>1, UpdateDone, AdapterFacts DEF Agent!DrainTerminal
  <1> QED
    BY <1>1, <1>2, AdapterFacts
    DEF AgentEffect, Agent!IInv, Agent!TypeOK, Agent!DrainTerminal, Agent!Goto,
        Agent!Threads, Agent!StopSteps

\* Every step of a request or of a drain has one of these effects.
LEMMA AgentEffects ==
  ASSUME Agent!IInv, NEW x \in Agent!Threads,
         (x \in Reqs /\ Agent!Handle(x)) \/ (x \in Adapters /\ Agent!Drain(x))
  PROVE  AgentEffect(x)
  <1>1. CASE Agent!Shared(x)
    BY <1>1, EffectFailRead, EffectFailWrite, EffectCleanDelete,
       EffectCleanCancel
    DEF Agent!Shared
  <1>2. CASE x \in Reqs /\ Agent!Handle(x) /\ ~Agent!Shared(x)
    BY <1>2, EffectStartLoad, EffectStartSpawn, EffectStartRunning,
       EffectStartRegister, EffectStartPreempt, EffectStartPrompt,
       EffectStartPersist, EffectPromptLookup, EffectPromptCheck,
       EffectPromptRunning, EffectPromptSend, EffectPromptPersist,
       EffectStopLookup, EffectStopCancel, EffectStopKill, EffectStopRead,
       EffectStopWrite, EffectCompleteRead, EffectCompleteWrite
    DEF Agent!Handle
  <1>3. CASE x \in Adapters /\ Agent!Drain(x) /\ ~Agent!Shared(x)
    BY <1>3, EffectDrainSelect, EffectDrainClosed, EffectDrainPersist,
       EffectDrainCostRead, EffectDrainCostWrite, EffectDrainTerminal
    DEF Agent!Drain
  <1> QED BY <1>1, <1>2, <1>3

\* While handleStopWorkspace works on a workspace, no Start of it does, no
\* cleanup and no other handleStopWorkspace.
StopAlone ==
  \A t, u \in Reqs : Stopping(t) /\ t # u =>
    /\ agentPc[u] \in Agent!StartSteps \cup Agent!CleanSteps => agentWs[u] # StopOf(t)
    /\ Stopping(u) => StopOf(u) # StopOf(t)

\* A Stop that has cleaned up, or found nothing to clean up
Cleaned(t) == agentPc[t] \in {"idle", "clean.cancel"} \cup Agent!FailSteps

\* A Stop that has cleaned up finds no session.
StopInv == \A t \in Reqs : Stopping(t) /\ Cleaned(t) => sessions[StopOf(t)] = None

\* Where a request to stop is, and on which workspace it works.
LEMMA StopPlace ==
  ASSUME RoomInv, NEW t \in Reqs, Stopping(t)
  PROVE  /\ StopOf(t) \in Workspaces
         /\ next[t] = "cancel" => pc[t] = "idle" /\ StopOf(t) = agentWs[t]
         /\ next[t] # "cancel" => agentPc[t] = "idle" /\ next[t] = "return"
              /\ StopOf(t) = ws[t]
         /\ agentPc[t] \in Agent!StopSteps \cup Agent!FailSteps \cup Agent!CleanSteps
              \cup {"idle"}
  BY DEF RoomInv, OneMethod, Heard, Stopping, StopOf

\* Where a Stop has cleaned up, the Manager knows no agent any more.
LEMMA NoAgentLeft ==
  ASSUME RoomInv, StopAlone, StopInv, NEW t \in Reqs, Stopping(t), agentPc[t] = "idle"
  PROVE  /\ sessions[StopOf(t)] = None
         /\ \A a \in Adapters : agentWs[a] = StopOf(t) /\ life[a] = "live" => Lost(a)
  <1>1. sessions[StopOf(t)] = None
    BY DEF StopInv, Cleaned
  <1>2. SUFFICES ASSUME NEW a \in Adapters, agentWs[a] = StopOf(t), life[a] = "live",
                          ~Lost(a)
                 PROVE  FALSE
    BY <1>1
  <1>3. Held(a)
    BY <1>1, <1>2, AdapterFacts DEF RoomInv, LiveInv
  <1>4. PICK u \in Reqs : ad[u] = a
               /\ agentPc[u] \in {"start.running", "start.register", "clean.cancel"}
    BY <1>3 DEF Held
  <1>5. agentWs[u] = StopOf(t)
    BY <1>2, <1>4, AdapterFacts
    DEF RoomInv, CleanAd, Agent!IInv, Agent!SessionInv, Agent!AdaptersHeld,
        Agent!Starting
  <1> QED BY <1>4, <1>5 DEF StopAlone, Agent!StartSteps, Agent!CleanSteps

\* The strengthening under which RunsInWorktree is preserved.
SafeInv == StopInv /\ RunsInWorktree

\* An adapter that has been given up stays so.
LEMMA LostStays ==
  ASSUME NEW x \in Agent!Threads, AgentEffect(x), NEW a \in Adapters, Lost(a)
  PROVE  Lost(a)'
  BY AdapterFacts DEF Lost, AgentEffect

\* A step of a request or of a drain in the agent manager: only StartSpawn starts an
\* agent, in a worktree that is there, and a Stop that has cleaned up has no session.
LEMMA AgentThreadSafe ==
  ASSUME RoomInv, StopAlone, SafeInv, NEW x \in Agent!Threads, AgentMoves(x),
           AgentEffect(x),
         x \in Reqs /\ agentPc[x] = "start.spawn" /\ agentWs[x] \notin worktrees
           => UNCHANGED life,
         UNCHANGED << gitVars, handlerVars >>
  PROVE  SafeInv'
  <1>1. UNCHANGED << pc, ws, next, worktrees >>
    BY DEF gitVars, handlerVars
  <1>2. ASSUME NEW t \in Reqs, Stopping(t)', Cleaned(t)'
        PROVE  sessions'[StopOf(t)'] = None
    <2>1. Stopping(t) /\ StopOf(t)' = StopOf(t)
      BY <1>1, <1>2 DEF Stopping, StopOf, AgentMoves
    <2>2. CASE x = t
      <3>1. agentPc[t] # "idle" /\ StopOf(t) = agentWs[t] /\ StopOf(t) \in Workspaces
            /\ agentPc[t] \in Agent!StopSteps \cup Agent!FailSteps \cup Agent!CleanSteps
        BY <2>1, <2>2, StopPlace DEF AgentMoves
      <3>2. CASE agentPc[t] \in Agent!StopSteps \cup {"clean.delete"}
        BY <1>2, <2>1, <2>2, <3>1, <3>2
        DEF AgentEffect, Cleaned, Agent!StopSteps, Agent!FailSteps
      <3>3. CASE agentPc[t] \in Agent!FailSteps \cup {"clean.cancel"}
        <4>1. sessions[StopOf(t)] = None
          BY <2>1, <3>3 DEF SafeInv, StopInv, Cleaned
        <4>2. agentPc[t] # "start.register"
          BY <3>3 DEF Agent!FailSteps
        <4> QED BY <2>1, <2>2, <3>1, <4>1, <4>2 DEF AgentEffect
      <3> QED BY <3>1, <3>2, <3>3 DEF Agent!CleanSteps
    <2>3. CASE x # t
      <3>1. agentPc'[t] = agentPc[t]
        BY <2>3 DEF AgentMoves
      <3>2. sessions[StopOf(t)] = None /\ StopOf(t) \in Workspaces
        BY <1>2, <2>1, <3>1, StopPlace DEF SafeInv, StopInv, Cleaned
      <3>3. ~(x \in Reqs /\ agentPc[x] = "start.register" /\ agentWs[x] = StopOf(t))
        BY <2>1, <2>3 DEF StopAlone, Agent!StartSteps
      <3> QED BY <2>1, <3>2, <3>3 DEF AgentEffect
    <2> QED BY <2>2, <2>3
  <1>3. ASSUME NEW a \in Adapters, life'[a] = "live", ~Lost(a)', Exists(agentWs[a])',
               ~(\E t \in Reqs : next'[t] = "cleanup")
        PROVE  agentWs'[a] \in worktrees'
    <2>1. CASE x \in Reqs /\ agentPc[x] = "start.spawn" /\ life' # life
                 /\ agentWs'[a] = agentWs[x]
      BY <1>1, <2>1
    <2>2. CASE agentWs'[a] = agentWs[a] /\ life[a] = "live"
      <3>1. ~Lost(a)
        BY <1>3, LostStays
      <3>2. agentWs[a] \in Workspaces
        BY <2>2, <3>1 DEF RoomInv, LiveInv
      <3>3. Exists(agentWs[a])
        BY <1>3, <2>2, <3>2 DEF Exists, AgentMoves
      <3> QED BY <1>1, <1>3, <2>2, <3>1, <3>3 DEF SafeInv, RunsInWorktree
    <2> QED BY <1>3, <2>1, <2>2 DEF AgentEffect
  <1>4. StopInv'
    BY <1>2 DEF StopInv
  <1>5. RunsInWorktree'
    BY <1>3 DEF RunsInWorktree
  <1> QED BY <1>4, <1>5 DEF SafeInv

\* A step that moves no thread of the manager and kills no more than agents
LEMMA QuietSafe ==
  ASSUME RoomInv, SafeInv, UNCHANGED << sessions, ctxDone, agentPc, agentWs, ad >>,
         \A a \in Adapters : life'[a] = "live" => life[a] = "live",
         \A t \in Reqs : Stopping(t)' => Stopping(t) /\ StopOf(t)' = StopOf(t),
         \A a \in Adapters :
           life[a] = "live" /\ ~Lost(a) /\ Exists(agentWs[a])'
             /\ ~(\E t \in Reqs : next'[t] = "cleanup") =>
             /\ Exists(agentWs[a]) /\ ~(\E t \in Reqs : next[t] = "cleanup")
             /\ agentWs[a] \in worktrees => agentWs[a] \in worktrees'
  PROVE  SafeInv'
  <1>1. StopInv'
    BY DEF SafeInv, StopInv, Cleaned
  <1>2. \A a \in Adapters : Lost(a)' <=> Lost(a)
    BY DEF Lost
  <1>3. \A a \in Adapters : Exists(agentWs[a])' <=> status'[agentWs[a]] # "none"
    BY DEF Exists
  <1>4. RunsInWorktree'
    BY <1>2, <1>3 DEF SafeInv, RunsInWorktree, Exists
  <1> QED BY <1>1, <1>4 DEF SafeInv

\* A request that arrives at the agent manager.
LEMMA RequestSafe ==
  ASSUME RoomInv, SafeInv, NEW t \in Reqs, NEW w \in Workspaces, Idle(t),
         NEW op \in {"start", "prompt", "stop", "complete"}, Agent!Request(t, op, w),
         next' = next \/ (op = "stop" /\ next' = [next EXCEPT ![t] = "cancel"]),
         UNCHANGED gitVars
  PROVE  SafeInv'
  <1>1. /\ UNCHANGED << sessions, life, status, pc, ws, worktrees >>
             /\ ctxDone' = ctxDone \ {t}
        /\ op = "stop" => agentPc'[t] = "stop.lookup"
        /\ \A y \in Agent!Threads : y # t =>
             agentPc'[y] = agentPc[y] /\ agentWs'[y] = agentWs[y] /\ ad'[y] = ad[y]
    BY
    DEF Agent!Request, Agent!Goto, RoomInv, Agent!IInv, Agent!TypeOK,
        Agent!Threads, gitVars
  <1>2. \A u \in Reqs : Stopping(u)' /\ Cleaned(u)' => u # t /\ Stopping(u)
          /\ Cleaned(u) /\ StopOf(u)' = StopOf(u)
    BY <1>1
    DEF Stopping, StopOf, Cleaned, Idle, Agent!FailSteps, Agent!Threads,
        RoomInv, HandlerTypes
  <1>3. StopInv'
    BY <1>1, <1>2 DEF SafeInv, StopInv
  <1>4. \A a \in Adapters : (Lost(a)' <=> Lost(a)) /\ agentWs'[a] = agentWs[a]
    BY <1>1, AdapterFacts DEF Lost, Agent!Threads
  <1>5. \A u \in Reqs : next'[u] = "cleanup" <=> next[u] = "cleanup"
    BY DEF RoomInv, HandlerTypes, Idle
  <1>6. \A a \in Adapters : Exists(agentWs[a])' <=> Exists(agentWs[a])
    BY <1>1, <1>4 DEF Exists
  <1>7. RunsInWorktree'
    BY <1>1, <1>4, <1>5, <1>6 DEF SafeInv, RunsInWorktree
  <1> QED BY <1>3, <1>7 DEF SafeInv

\* Only cleanupSession of a Cancel takes a worktree away.
LEMMA WorktreesKept ==
  ASSUME NEW t \in Reqs, Git!Handle(t)
  PROVE  \/ worktrees \subseteq worktrees'
         \/ pc[t] = "cancel.remove" /\ worktrees \ {ws[t]} \subseteq worktrees'
  <1>1. CASE Git!CreateInsert(t) \/ Git!PrepareLoad(t) \/ Git!PreparePreparing(t)
               \/ Git!PrepareFailed(t)
             \/ Git!PrepareBranch(t) \/ Git!PrepareIdle(t) \/ Git!CompleteLoad(t)
                  \/ Git!CompleteWrite(t)
             \/ Git!CancelLoad(t) \/ Git!CancelWrite(t) \/ Git!MergeLoad(t)
                  \/ Git!MergeTree(t)
             \/ Git!UpdateBranch(t) \/ Git!MergeMerged(t)
    BY <1>1, Zenon
    DEF Git!CreateInsert, Git!PrepareLoad, Git!PreparePreparing,
        Git!PrepareFailed, Git!PrepareBranch, Git!PrepareIdle, Git!CompleteLoad,
        Git!CompleteWrite, Git!CancelLoad, Git!CancelWrite, Git!MergeLoad,
        Git!MergeTree, Git!UpdateBranch, Git!MergeMerged, Git!MergePersist
  <1>2. CASE Git!PrepareAdd(t)
    BY <1>2 DEF Git!PrepareAdd
  <1>3. CASE Git!CancelRemove(t)
    BY <1>3 DEF Git!CancelRemove
  <1>4. CASE Git!MergeConflict(t)
    BY <1>4, Zenon DEF Git!MergeConflict, Git!MergePersist
  <1> QED BY <1>1, <1>2, <1>3, <1>4 DEF Git!Handle

\* A step in the workspace manager: when Cancel removes a worktree, the Stop before
\* it has ended the agent that ran there.
LEMMA GitStepSafe ==
  ASSUME RoomInv, StopAlone, SafeInv, NEW t \in Reqs, GitStep(t)
  PROVE  SafeInv'
  <1>1. UNCHANGED << agentVars, handlerVars >>
    BY DEF GitStep
  <1>2. CASE pc[t] = "create.insert" /\ ~project
    <2>1. pc' = [pc EXCEPT ![t] = "idle"] /\ UNCHANGED << status, ws, worktrees >>
      BY <1>2 DEF GitStep, Git!Goto
    <2>2. \A u \in Reqs : Stopping(u)' => Stopping(u) /\ StopOf(u)' = StopOf(u)
      BY <1>1, <2>1
      DEF Stopping, StopOf, agentVars, handlerVars, RoomInv, Git!TypeOK
    <2> QED BY <1>1, <2>1, <2>2, QuietSafe DEF agentVars, handlerVars, Exists
  <1>3. CASE Git!Handle(t) /\ (pc[t] = "create.insert" => project)
    <2>1. GitMoves(t)
      BY <1>3, GitHandleMoves
    <2>2. \A u \in Reqs : Stopping(u)' => Stopping(u) /\ StopOf(u)' = StopOf(u)
      BY <1>1, <2>1 DEF Stopping, StopOf, agentVars, handlerVars, GitMoves
    <2>3. ASSUME NEW a \in Adapters, life[a] = "live", ~Lost(a), Exists(agentWs[a])'
          PROVE  Exists(agentWs[a])
                   /\ (agentWs[a] \in worktrees => agentWs[a] \in worktrees')
      <3>1. agentWs[a] \in Workspaces /\ Known(agentWs[a])
        BY <2>3 DEF RoomInv, LiveInv, Heard, Agent!Threads
      <3>2. agentWs'[a] = agentWs[a]
        BY <1>1 DEF agentVars
      <3>3. Exists(agentWs[a])
        <4>1. CASE \A w \in Workspaces : status'[w] = "none" <=> status[w] = "none"
          BY <2>3, <3>1, <3>2, <4>1 DEF Exists
        <4>2. CASE pc[t] = "create.insert"
                     /\ status' = [status EXCEPT ![ws[t]] = "queued"]
          <5>1. ws[t] # agentWs[a]
            BY <1>3, <3>1, <4>2 DEF RoomInv, RowsStay
          <5> QED BY <2>3, <3>1, <3>2, <4>2, <5>1 DEF Exists, RoomInv, Git!TypeOK
        <4> QED BY <2>1, <4>1, <4>2 DEF GitMoves
      <3>4. pc[t] = "cancel.remove" => ws[t] # agentWs[a]
        <4>1. SUFFICES ASSUME pc[t] = "cancel.remove" PROVE ws[t] # agentWs[a]
          OBVIOUS
        <4>2. Stopping(t) /\ agentPc[t] = "idle" /\ StopOf(t) = ws[t]
          BY <4>1 DEF Stopping, StopOf, RoomInv, OneMethod
        <4> QED BY <2>3, <4>2, NoAgentLeft DEF SafeInv
      <3> QED BY <1>3, <3>3, <3>4, WorktreesKept
    <2> QED BY <1>1, <2>2, <2>3, QuietSafe DEF agentVars, handlerVars, Exists
  <1> QED BY <1>2, <1>3 DEF GitStep

\* The steps of the handlers between the managers.
LEMMA HandlerSafe ==
  ASSUME RoomInv, SafeInv, NEW t \in Reqs,
         \/ \E w \in Workspaces : \/ \E op \in Ops : GitRequest(t, op, w)
                                 \/ DeleteCleanup(t, w)
         \/ StopCancel(t) \/ DeleteList(t) \/ DeleteRows(t)
  PROVE  SafeInv'
  <1>1. UNCHANGED agentVars
    BY DEF GitRequest, StopCancel, DeleteList, DeleteCleanup, DeleteRows
  <1>2. ASSUME NEW w \in Workspaces, NEW op \in Ops, GitRequest(t, op, w) PROVE SafeInv'
    <2>1. op \in {"create", "merge"} /\ Idle(t) /\ Git!Request(t, op, w)
            /\ UNCHANGED handlerVars
      BY <1>2 DEF GitRequest
    <2>2. /\ pc'[t] \in {"create.insert", "merge.load"}
          /\ \A u \in Reqs : u # t => pc'[u] = pc[u] /\ ws'[u] = ws[u]
          /\ UNCHANGED status
      BY <2>1, GitEnters DEF RoomInv
    <2>3. UNCHANGED worktrees
      BY <2>1 DEF Git!Request
    <2>4. \A u \in Reqs : Stopping(u)' => Stopping(u) /\ StopOf(u)' = StopOf(u)
      BY <1>1, <2>1, <2>2 DEF Stopping, StopOf, agentVars, handlerVars, Idle
    <2> QED
        BY <1>1, <2>1, <2>2, <2>3, <2>4, QuietSafe
        DEF agentVars, handlerVars, Exists
  <1>3. CASE StopCancel(t)
    <2>1. next[t] = "cancel" /\ next' = [next EXCEPT ![t] = "return"]
            /\ agentPc[t] = "idle" /\ pc[t] = "idle"
      BY <1>3 DEF StopCancel, Then, RoomInv, OneMethod
    <2>2. CASE Git!Request(t, "cancel", agentWs[t])
      <3>1. /\ pc'[t] = "cancel.load" /\ ws'[t] = agentWs[t]
            /\ \A u \in Reqs : u # t => pc'[u] = pc[u] /\ ws'[u] = ws[u]
            /\ UNCHANGED status
        BY <2>1, <2>2, GitEnters DEF RoomInv, OneMethod
      <3>2. UNCHANGED worktrees
        BY <2>2 DEF Git!Request
      <3>3. \A u \in Reqs : Stopping(u)' => Stopping(u) /\ StopOf(u)' = StopOf(u)
        BY <1>1, <2>1, <3>1
        DEF Stopping, StopOf, agentVars, RoomInv, HandlerTypes
      <3>4. \A u \in Reqs : next[u] = "cleanup" => next'[u] = "cleanup"
        BY <2>1 DEF RoomInv, HandlerTypes
      <3> QED BY <1>1, <3>1, <3>2, <3>3, <3>4, QuietSafe DEF agentVars, Exists
    <2>3. CASE UNCHANGED << status, bootVars, gitVars >>
      <3>1. UNCHANGED << status, pc, ws, worktrees >>
        BY <2>3 DEF gitVars
      <3>2. \A u \in Reqs : Stopping(u)' => Stopping(u) /\ StopOf(u)' = StopOf(u)
        BY <1>1, <2>1, <3>1
        DEF Stopping, StopOf, agentVars, RoomInv, HandlerTypes
      <3>3. \A u \in Reqs : next[u] = "cleanup" => next'[u] = "cleanup"
        BY <2>1 DEF RoomInv, HandlerTypes
      <3> QED BY <1>1, <3>1, <3>2, <3>3, QuietSafe DEF agentVars, Exists
    <2> QED BY <1>3, <2>2, <2>3 DEF StopCancel
  <1>4. CASE DeleteList(t)
    <2>1. next' = [next EXCEPT ![t] = "cleanup"] /\ Idle(t) /\ UNCHANGED gitVars
      BY <1>4 DEF DeleteList, Then
    <2>2. next'[t] = "cleanup"
      BY <2>1 DEF RoomInv, HandlerTypes
    <2>3. \A u \in Reqs : Stopping(u)' => Stopping(u) /\ StopOf(u)' = StopOf(u)
      BY <1>1, <2>1
      DEF Stopping, StopOf, agentVars, gitVars, RoomInv, HandlerTypes, Idle
    <2> QED BY <1>1, <2>2, <2>3, QuietSafe DEF agentVars
  <1>5. ASSUME NEW w \in Workspaces, DeleteCleanup(t, w) PROVE SafeInv'
    <2>1. next[t] = "cleanup" /\ UNCHANGED << next, pc, ws >>
      BY <1>5 DEF DeleteCleanup, RoomInv, OneMethod
    <2>2. \A u \in Reqs : Stopping(u)' => Stopping(u) /\ StopOf(u)' = StopOf(u)
      BY <1>1, <2>1 DEF Stopping, StopOf, agentVars
    <2> QED BY <1>1, <2>1, <2>2, QuietSafe DEF agentVars
  <1>6. CASE DeleteRows(t)
    <2>1. /\ next[t] = "cleanup" /\ next' = [next EXCEPT ![t] = "return"]
          /\ UNCHANGED << pc, ws, agentPc, agentWs >>
               /\ status' = [v \in Workspaces |-> "none"]
      BY <1>1, <1>6 DEF DeleteRows, Then, agentVars
    <2>2. \A u \in Reqs : Stopping(u)' => Stopping(u) /\ StopOf(u)' = StopOf(u)
      BY <2>1 DEF Stopping, StopOf, RoomInv, HandlerTypes, OneMethod
    <2>3. \A a \in Adapters : life[a] = "live" /\ ~Lost(a) => ~Exists(agentWs[a])'
      <3>1. \A a \in Adapters : life[a] = "live" /\ ~Lost(a)
              => agentWs'[a] \in Workspaces
        BY <2>1 DEF RoomInv, LiveInv
      <3> QED BY <2>1, <3>1 DEF Exists
    <2> QED BY <1>1, <2>2, <2>3, QuietSafe DEF agentVars
  <1> QED BY <1>2, <1>3, <1>4, <1>5, <1>6

\* Every step preserves SafeInv.
LEMMA NextSafe ==
  ASSUME RoomInv, StopAlone, SafeInv, [Next]_vars
  PROVE  SafeInv'
  <1>1. ASSUME NEW t \in Reqs, AgentStep(t) PROVE SafeInv'
    <2>1. AgentMoves(t) /\ AgentEffect(t)
      BY <1>1, AgentThread, AgentEffects DEF AgentStep, Agent!Threads, RoomInv
    <2> QED BY <1>1, <2>1, AgentThreadSafe DEF AgentStep, Agent!Threads
  <1>2. ASSUME NEW a \in Adapters, Background(a) PROVE SafeInv'
    <2>1. CASE Agent!Drain(a)
      <3>1. AgentMoves(a) /\ AgentEffect(a)
        BY <2>1, AgentThread, AgentEffects DEF Agent!Threads, RoomInv
      <3> QED BY <1>2, <3>1, AgentThreadSafe, AdapterFacts DEF Background, Agent!Threads
    <2>2. CASE Agent!Agent(a)
      <3>1. UNCHANGED << sessions, ctxDone, agentPc, agentWs, ad, status, gitVars,
              handlerVars >>
        BY <1>2, <2>2
        DEF Background, Agent!Agent, Agent!Talk, Agent!FinishTurn,
            Agent!ProcessExit, Agent!Emit
      <3>2. \A b \in Adapters : life'[b] = "live" => life[b] = "live"
        BY <2>2
        DEF Agent!Agent, Agent!Talk, Agent!FinishTurn, Agent!ProcessExit,
            Agent!Emit, RoomInv, Agent!IInv, Agent!TypeOK
      <3>3. \A u \in Reqs : Stopping(u)' => Stopping(u) /\ StopOf(u)' = StopOf(u)
        BY <3>1 DEF Stopping, StopOf, gitVars, handlerVars
      <3> QED BY <3>1, <3>2, <3>3, QuietSafe DEF Exists, gitVars, handlerVars
    <2> QED BY <1>2, <2>1, <2>2 DEF Background
  <1>3. CASE World \/ UNCHANGED vars
    <2>1. UNCHANGED << agentVars, handlerVars, status, pc, ws, worktrees >>
      BY <1>3
      DEF World, Git!Commit, Git!Resolve, Git!UserCommit, Git!Tick, vars,
          gitVars
    <2>2. \A u \in Reqs : Stopping(u)' => Stopping(u) /\ StopOf(u)' = StopOf(u)
      BY <2>1 DEF Stopping, StopOf, agentVars, handlerVars
    <2> QED BY <2>1, <2>2, QuietSafe DEF Exists, agentVars, handlerVars
  <1>4. ASSUME NEW w \in Workspaces, SweepRow(w) PROVE SafeInv'
    <2>1. /\ w \in sweep /\ status' = [status EXCEPT ![w] = "failed"]
          /\ UNCHANGED << agentVars, gitVars, handlerVars >>
      BY <1>4 DEF SweepRow, Agent!SweepRow, Git!SweepRow, agentVars, gitVars
    <2>2. \A u \in Reqs : Stopping(u)' => Stopping(u) /\ StopOf(u)' = StopOf(u)
      BY <2>1 DEF Stopping, StopOf, agentVars, handlerVars, gitVars
    <2>3. \A a \in Adapters : life[a] = "live" /\ ~Lost(a) /\ Exists(agentWs[a])'
            => Exists(agentWs[a])
      <3>1. \A a \in Adapters : life[a] = "live" /\ ~Lost(a)
              => agentWs[a] \in Workspaces /\ agentWs'[a] = agentWs[a]
        BY <2>1 DEF RoomInv, LiveInv, agentVars
      <3> QED BY <2>1, <3>1 DEF Exists, RoomInv, RowsStay, Git!TypeOK
    <2> QED BY <2>1, <2>2, <2>3, QuietSafe DEF agentVars, gitVars, handlerVars
  <1>5. CASE Crash
    <2>1. /\ life' = [a \in Adapters |-> "free"]
          /\ next' = [t \in Reqs |-> "return"] /\ pc' = [t \in Reqs |-> "idle"]
      BY <1>5 DEF Crash, Agent!Crash, Git!Crash
    <2> QED BY <2>1 DEF SafeInv, StopInv, Stopping, RunsInWorktree
  <1>6. ASSUME NEW t \in Reqs, NEW w \in Workspaces, NEW op \in Ops,
                 AgentRequest(t, op, w) PROVE SafeInv'
    BY <1>6, RequestSafe DEF AgentRequest, handlerVars
  <1>7. ASSUME NEW t \in Reqs, NEW w \in Workspaces, StopRequest(t, w) PROVE SafeInv'
    BY <1>7, RequestSafe DEF StopRequest, Then
  <1>8. ASSUME NEW t \in Reqs, StopCancel(t) \/ DeleteRows(t) \/ DeleteList(t)
        PROVE SafeInv'
    BY <1>8, HandlerSafe
  <1> QED
    BY <1>1, <1>2, <1>3, <1>4, <1>5, <1>6, <1>7, <1>8, GitStepSafe, HandlerSafe
    DEF Next, Handle

\* No agent runs when the server has just been created.
LEMMA InitSafe == Init => SafeInv
  <1>1. Init => NoAgents /\ next = [t \in Reqs |-> "return"]
          /\ pc = [t \in Reqs |-> "idle"]
    BY
    DEF Init, Git!Init, NewAgent!Init, NewAgent!Threads, NoAgents, Agent!Threads
  <1> QED BY <1>1 DEF SafeInv, StopInv, RunsInWorktree, Stopping, NoAgents

\* An agent runs in a worktree that exists (RunsInWorktree), whatever prompts,
\* completions, merges and turns overlap: handleStopWorkspace removes the worktree
\* only after the agent has been ended, provided that while it works no other request
\* starts or stops an agent of the same workspace.
THEOREM RunsInItsWorktree == Spec /\ []StopAlone => []RunsInWorktree
  <1>1. SafeInv => RunsInWorktree
    BY DEF SafeInv
  <1> QED BY <1>1, InitSafe, NextSafe, RoomInvariance, PTL DEF Spec

\* handleStopWorkspace ends when both managers have returned, or with the server.
LEMMA StopEnds ==
  ASSUME RoomInv, [Next]_vars, NEW t \in Reqs, Stopping(t), ~Stopping(t)'
  PROVE  \/ agentPc[t] = "idle" /\ UNCHANGED << sessions, life >>
         \/ NoAgents'
  <1>1. next[t] # "cleanup" /\ ~Idle(t)
    BY DEF Stopping, Idle, RoomInv, OneMethod
  <1>2. ~UNCHANGED << next, pc >> /\ ~UNCHANGED << next[t], pc[t] >>
    BY DEF Stopping
  <1>3. ASSUME NEW u \in Reqs, NEW w \in Workspaces, NEW op \in Ops,
                 AgentRequest(u, op, w) PROVE FALSE
    BY <1>2, <1>3 DEF AgentRequest, gitVars, handlerVars
  <1>4. ASSUME NEW u \in Reqs, NEW w \in Workspaces, NEW op \in Ops,
                 GitRequest(u, op, w) PROVE FALSE
    BY <1>1, <1>2, <1>4
    DEF GitRequest, handlerVars, Git!Request, Git!Goto, RoomInv, Git!TypeOK
  <1>5. ASSUME NEW u \in Reqs, NEW w \in Workspaces, StopRequest(u, w) PROVE FALSE
    BY <1>1, <1>2, <1>5 DEF StopRequest, gitVars, Then, RoomInv, HandlerTypes
  <1>6. ASSUME NEW u \in Reqs, DeleteList(u) PROVE FALSE
    BY <1>1, <1>2, <1>6 DEF DeleteList, gitVars, Then, RoomInv, HandlerTypes
  <1>7. ASSUME NEW u \in Reqs, NEW w \in Workspaces, DeleteCleanup(u, w) PROVE FALSE
    BY <1>2, <1>7 DEF DeleteCleanup
  <1>8. ASSUME NEW u \in Reqs, DeleteRows(u) PROVE FALSE
    BY <1>1, <1>2, <1>8 DEF DeleteRows, Then, RoomInv, HandlerTypes
  <1>9. ASSUME NEW u \in Reqs, AgentStep(u) PROVE FALSE
    BY <1>2, <1>9 DEF AgentStep, gitVars, handlerVars
  <1>10. ASSUME NEW u \in Reqs, GitStep(u)
         PROVE agentPc[t] = "idle" /\ UNCHANGED << sessions, life >>
    <2>1. UNCHANGED << next, agentVars >> /\ pc[u] # "idle" /\ \A v \in Reqs : v # u
            => pc'[v] = pc[v]
      <3>1. CASE pc[u] = "create.insert" /\ ~project
        BY <1>10, <3>1 DEF GitStep, handlerVars, Git!Goto, RoomInv, Git!TypeOK
      <3>2. CASE Git!Handle(u)
        BY <1>10, <3>2, GitHandleMoves DEF GitStep, handlerVars, GitMoves
      <3> QED BY <1>10, <3>1, <3>2 DEF GitStep
    <2>2. u = t
      BY <1>2, <2>1
    <2> QED BY <2>1, <2>2 DEF RoomInv, OneMethod, agentVars
  <1>11. ASSUME NEW u \in Reqs, StopCancel(u)
         PROVE agentPc[t] = "idle" /\ UNCHANGED << sessions, life >>
    <2>1. next[u] = "cancel" /\ agentPc[u] = "idle"
            /\ next' = [next EXCEPT ![u] = "return"] /\ UNCHANGED agentVars
      BY <1>11 DEF StopCancel, Then
    <2>2. u # t => pc'[t] = pc[t] /\ next'[t] = next[t]
      BY <1>11, <2>1
      DEF StopCancel, Git!Request, Git!Goto, gitVars, RoomInv, Git!TypeOK,
          HandlerTypes
    <2> QED BY <1>2, <2>1, <2>2 DEF agentVars
  <1>12. ASSUME NEW a \in Adapters, Background(a) PROVE FALSE
    BY <1>2, <1>12 DEF Background, gitVars, handlerVars
  <1>13. CASE World \/ UNCHANGED vars
    BY <1>2, <1>13
    DEF World, Git!Commit, Git!Resolve, Git!UserCommit, Git!Tick, vars, gitVars,
        handlerVars
  <1>14. ASSUME NEW w \in Workspaces, SweepRow(w) PROVE FALSE
    BY <1>2, <1>14 DEF SweepRow, Git!SweepRow, handlerVars
  <1>15. CASE Crash
    BY <1>15 DEF Crash, Agent!Crash, NoAgents
  <1> QED
    BY <1>3, <1>4, <1>5, <1>6, <1>7, <1>8, <1>9, <1>10, <1>11, <1>12, <1>13,
       <1>14, <1>15
    DEF Next, Handle

\* When handleStopWorkspace has returned, no agent of its workspace runs or has a
\* session (StopIsOver), under the same hypothesis.
THEOREM StopLeavesNothing == Spec /\ []StopAlone => StopIsOver
  <1>1. ASSUME RoomInv, StopAlone, SafeInv, [Next]_vars
        PROVE  \A t \in Reqs : Stopping(t) /\ ~Stopping(t)' =>
                 /\ sessions'[StopOf(t)] = None
                 /\ \A a \in Adapters : agentWs[a] = StopOf(t) /\ life'[a] = "live"
                      => Lost(a)
    <2>1. SUFFICES ASSUME NEW t \in Reqs, Stopping(t), ~Stopping(t)'
                   PROVE  /\ sessions'[StopOf(t)] = None
                          /\ \A a \in Adapters : agentWs[a] = StopOf(t)
                               /\ life'[a] = "live" => Lost(a)
      OBVIOUS
    <2>2. CASE agentPc[t] = "idle" /\ UNCHANGED << sessions, life >>
      BY <1>1, <2>1, <2>2, NoAgentLeft DEF SafeInv
    <2>3. CASE NoAgents'
      BY <1>1, <2>1, <2>3, StopPlace DEF NoAgents
    <2> QED BY <1>1, <2>1, <2>2, <2>3, StopEnds
  <1> QED BY <1>1, InitSafe, NextSafe, RoomInvariance, PTL DEF Spec, StopIsOver

-----------------------------------------------------------------------------
(* handleDeleteProject: when the rows go, no worktree is left.             *)

\* A project is deleted while no other request is handled.
DeleteAlone == \A t, u \in Reqs : next[t] = "cleanup" /\ t # u => Idle(u)

\* The steps of Prepare.
PrepareSteps == {"prepare.load", "prepare.preparing", "prepare.add", "prepare.failed",
                 "prepare.branch", "prepare.idle"}

\* What a step of request t in the workspace manager does to the worktrees and the rows that tell of them.
PathEffect(t) ==
  /\ UNCHANGED crashes
  /\ \A w \in Workspaces : path[w] => path'[w]
  /\ \A w \in worktrees' : w \in worktrees \/ (w = ws[t] /\ pc'[t] = "prepare.branch")
  /\ pc[t] = "prepare.branch" /\ t \notin gone => pc'[t] = "prepare.idle"
  /\ pc[t] = "prepare.idle" /\ t \notin gone /\ status[ws[t]] # "none" => path'[ws[t]]
  /\ pc'[t] \in PrepareSteps => t \notin gone'
  /\ \A u \in Reqs : u # t => (u \in gone' <=> u \in gone)

\* CreateInsert has such an effect.
LEMMA PathCreateInsert ==
  ASSUME Git!TypeOK, NEW t \in Reqs, ws[t] \in Workspaces, pc[t] \in PrepareSteps
           => t \notin gone,
         Git!CreateInsert(t)
  PROVE  PathEffect(t)
  BY
  DEF PathEffect, PrepareSteps, Git!TypeOK, Git!CreateInsert, Git!Goto,
      Git!Statement

\* PrepareLoad has such an effect.
LEMMA PathPrepareLoad ==
  ASSUME Git!TypeOK, NEW t \in Reqs, ws[t] \in Workspaces, pc[t] \in PrepareSteps
           => t \notin gone,
         Git!PrepareLoad(t)
  PROVE  PathEffect(t)
  BY DEF PathEffect, PrepareSteps, Git!TypeOK, Git!PrepareLoad, Git!Goto

\* PreparePreparing has such an effect.
LEMMA PathPreparePreparing ==
  ASSUME Git!TypeOK, NEW t \in Reqs, ws[t] \in Workspaces, pc[t] \in PrepareSteps
           => t \notin gone,
         Git!PreparePreparing(t)
  PROVE  PathEffect(t)
  BY
  DEF PathEffect, PrepareSteps, Git!TypeOK, Git!PreparePreparing, Git!Goto,
      Git!SetStatus, Git!UpdateRow, Git!Exists, Git!Statement

\* PrepareAdd has such an effect.
LEMMA PathPrepareAdd ==
  ASSUME Git!TypeOK, NEW t \in Reqs, ws[t] \in Workspaces, pc[t] \in PrepareSteps
           => t \notin gone,
         Git!PrepareAdd(t)
  PROVE  PathEffect(t)
  BY DEF PathEffect, PrepareSteps, Git!TypeOK, Git!PrepareAdd, Git!Goto

\* PrepareFailed has such an effect.
LEMMA PathPrepareFailed ==
  ASSUME Git!TypeOK, NEW t \in Reqs, ws[t] \in Workspaces, pc[t] \in PrepareSteps
           => t \notin gone,
         Git!PrepareFailed(t)
  PROVE  PathEffect(t)
  BY
  DEF PathEffect, PrepareSteps, Git!TypeOK, Git!PrepareFailed, Git!Goto,
      Git!SetStatus, Git!UpdateRow, Git!Exists, Git!Statement

\* PrepareBranch has such an effect.
LEMMA PathPrepareBranch ==
  ASSUME Git!TypeOK, NEW t \in Reqs, ws[t] \in Workspaces, pc[t] \in PrepareSteps
           => t \notin gone,
         Git!PrepareBranch(t)
  PROVE  PathEffect(t)
  BY DEF PathEffect, PrepareSteps, Git!TypeOK, Git!PrepareBranch, Git!Goto

\* PrepareIdle has such an effect.
LEMMA PathPrepareIdle ==
  ASSUME Git!TypeOK, NEW t \in Reqs, ws[t] \in Workspaces, pc[t] \in PrepareSteps
           => t \notin gone,
         Git!PrepareIdle(t)
  PROVE  PathEffect(t)
  BY
  DEF PathEffect, PrepareSteps, Git!TypeOK, Git!PrepareIdle, Git!Goto,
      Git!UpdateRow, Git!Exists, Git!Statement

\* CancelLoad has such an effect.
LEMMA PathCancelLoad ==
  ASSUME Git!TypeOK, NEW t \in Reqs, ws[t] \in Workspaces, pc[t] \in PrepareSteps
           => t \notin gone,
         Git!CancelLoad(t)
  PROVE  PathEffect(t)
  BY DEF PathEffect, PrepareSteps, Git!TypeOK, Git!CancelLoad, Git!Goto

\* CancelRemove has such an effect.
LEMMA PathCancelRemove ==
  ASSUME Git!TypeOK, NEW t \in Reqs, ws[t] \in Workspaces, pc[t] \in PrepareSteps
           => t \notin gone,
         Git!CancelRemove(t)
  PROVE  PathEffect(t)
  BY DEF PathEffect, PrepareSteps, Git!TypeOK, Git!CancelRemove, Git!Goto

\* CancelWrite has such an effect.
LEMMA PathCancelWrite ==
  ASSUME Git!TypeOK, NEW t \in Reqs, ws[t] \in Workspaces, pc[t] \in PrepareSteps
           => t \notin gone,
         Git!CancelWrite(t)
  PROVE  PathEffect(t)
  BY
  DEF PathEffect, PrepareSteps, Git!TypeOK, Git!CancelWrite, Git!Goto,
      Git!SetStatus, Git!UpdateRow, Git!Exists, Git!Statement

\* MergeLoad has such an effect.
LEMMA PathMergeLoad ==
  ASSUME Git!TypeOK, NEW t \in Reqs, ws[t] \in Workspaces, pc[t] \in PrepareSteps
           => t \notin gone,
         Git!MergeLoad(t)
  PROVE  PathEffect(t)
  BY DEF PathEffect, PrepareSteps, Git!TypeOK, Git!MergeLoad, Git!Goto

\* MergeTree has such an effect.
LEMMA PathMergeTree ==
  ASSUME Git!TypeOK, NEW t \in Reqs, ws[t] \in Workspaces, pc[t] \in PrepareSteps
           => t \notin gone,
         Git!MergeTree(t)
  PROVE  PathEffect(t)
  BY DEF PathEffect, PrepareSteps, Git!TypeOK, Git!MergeTree, Git!Goto

\* UpdateBranch has such an effect.
LEMMA PathUpdateBranch ==
  ASSUME Git!TypeOK, NEW t \in Reqs, ws[t] \in Workspaces, pc[t] \in PrepareSteps
           => t \notin gone,
         Git!UpdateBranch(t)
  PROVE  PathEffect(t)
  BY DEF PathEffect, PrepareSteps, Git!TypeOK, Git!UpdateBranch, Git!Goto

\* MergeMerged has such an effect.
LEMMA PathMergeMerged ==
  ASSUME Git!TypeOK, NEW t \in Reqs, ws[t] \in Workspaces, pc[t] \in PrepareSteps
           => t \notin gone,
         Git!MergeMerged(t)
  PROVE  PathEffect(t)
  BY
  DEF PathEffect, PrepareSteps, Git!TypeOK, Git!MergeMerged, Git!Goto,
      Git!MergePersist, Git!UpdateRow, Git!Exists, Git!Statement

\* MergeConflict has such an effect.
LEMMA PathMergeConflict ==
  ASSUME Git!TypeOK, NEW t \in Reqs, ws[t] \in Workspaces, pc[t] \in PrepareSteps
           => t \notin gone,
         Git!MergeConflict(t)
  PROVE  PathEffect(t)
  BY
  DEF PathEffect, PrepareSteps, Git!TypeOK, Git!MergeConflict, Git!Goto,
      Git!MergePersist, Git!UpdateRow, Git!Exists, Git!Statement

\* A row tells of the worktree w, or the Prepare that made it still will.
Told(w) ==
  \/ Exists(w) /\ path[w]
  \/ \E t \in Reqs : ws[t] = w /\ pc[t] \in {"prepare.branch", "prepare.idle"}

\* The strengthening of NothingLeftBehind: as long as the server has not crashed,
\* every worktree is told of, and a delete has listed those that are left.
LeftInv ==
  /\ \A t \in Reqs : pc[t] \in PrepareSteps => t \notin gone
  /\ ~project => \A t \in Reqs : pc[t] = "idle"
  /\ crashes = 0 => \A w \in worktrees : Told(w)
  /\ crashes = 0 => \A t \in Reqs : next[t] = "cleanup" => worktrees \subseteq todo[t]
  /\ crashes = 0 /\ ~project => worktrees = {}

\* Every step of a request in the workspace manager has one of these effects.
LEMMA PathEffects ==
  ASSUME RoomInv, LeftInv, NEW t \in Reqs, Git!Handle(t)
  PROVE  PathEffect(t)
  <1>1. Git!TypeOK /\ (pc[t] # "idle" => ws[t] \in Workspaces)
          /\ pc[t] \notin {"complete.load", "complete.write"}
        /\ (pc[t] \in PrepareSteps => t \notin gone)
    BY DEF RoomInv, Heard, OneMethod, LeftInv
  <1>2. pc[t] # "idle"
    BY GitHandleMoves DEF GitMoves
  <1> QED
    BY <1>1, <1>2, PathCreateInsert, PathPrepareLoad, PathPreparePreparing,
       PathPrepareAdd, PathPrepareFailed, PathPrepareBranch, PathPrepareIdle,
       PathCancelLoad, PathCancelRemove, PathCancelWrite, PathMergeLoad,
       PathMergeTree, PathUpdateBranch, PathMergeMerged, PathMergeConflict
    DEF Git!Handle, Git!CompleteLoad, Git!CompleteWrite

\* A step in the workspace manager: a worktree that is added is told of by its
\* request, and then by the row.
LEMMA GitStepLeft ==
  ASSUME RoomInv, DeleteAlone, LeftInv, NEW t \in Reqs, GitStep(t)
  PROVE  LeftInv'
  <1>1. /\ UNCHANGED << agentVars, handlerVars >> /\ project /\ Git!Handle(t)
        /\ GitMoves(t) /\ PathEffect(t) /\ pc[t] # "idle"
    <2>1. pc[t] # "idle"
      BY GitHandleMoves DEF GitStep, GitMoves
    <2>2. project
      BY <2>1 DEF LeftInv
    <2> QED BY <2>1, <2>2, GitHandleMoves, PathEffects DEF GitStep
  <1>2. ws[t] \in Workspaces /\ next[t] = "return" /\ \A u \in Reqs :
          next[u] # "cleanup"
    BY <1>1 DEF RoomInv, Heard, OneMethod, DeleteAlone, Idle
  <1>3. \A u \in Reqs : u # t => pc'[u] = pc[u] /\ ws'[u] = ws[u] /\ ws'[t] = ws[t]
    BY <1>1 DEF GitMoves
  <1>4. \A u \in Reqs : pc'[u] \in PrepareSteps => u \notin gone'
    BY <1>1, <1>3 DEF LeftInv, PathEffect
  <1>5. \A w \in Workspaces : Exists(w) => Exists(w)'
    BY <1>1, <1>2 DEF GitMoves, Exists, RoomInv, Git!TypeOK
  <1>6. ASSUME NEW w \in worktrees', crashes = 0
        PROVE  Told(w)'
    <2>1. w \in Workspaces
      BY <1>1, <1>2 DEF PathEffect, RoomInv, Git!TypeOK
    <2>2. CASE Exists(w) /\ path[w]
      BY <1>1, <1>5, <2>1, <2>2 DEF Told, PathEffect
    <2>3. CASE w = ws[t] /\ pc'[t] = "prepare.branch"
      BY <1>1, <2>3 DEF Told, GitMoves
    <2>4. CASE \E u \in Reqs : u # t /\ ws[u] = w
                 /\ pc[u] \in {"prepare.branch", "prepare.idle"}
      BY <1>3, <2>4 DEF Told
    <2>5. CASE ws[t] = w /\ pc[t] \in {"prepare.branch", "prepare.idle"}
      <3>1. t \notin gone
        BY <2>5 DEF LeftInv, PrepareSteps
      <3>2. Exists(w)
        BY <1>1, <1>2, <2>5 DEF RoomInv, Heard, RowsStay
      <3>3. CASE pc[t] = "prepare.branch"
        BY <1>1, <2>5, <3>1, <3>3 DEF PathEffect, Told, GitMoves
      <3>4. CASE pc[t] = "prepare.idle"
        BY <1>1, <1>5, <2>1, <2>5, <3>1, <3>2, <3>4 DEF PathEffect, Told, Exists
      <3> QED BY <2>5, <3>3, <3>4
    <2> QED BY <1>1, <1>6, <2>2, <2>3, <2>4, <2>5 DEF PathEffect, LeftInv, Told
  <1> QED BY <1>1, <1>2, <1>4, <1>6 DEF LeftInv, PathEffect, handlerVars

\* A step that leaves the rows and the worktrees, and the request that makes them
LEMMA QuietLeft ==
  ASSUME LeftInv, UNCHANGED << project, next, todo, path, worktrees, crashes, pc, ws,
           gone >>,
         \A w \in Workspaces : Exists(w) => Exists(w)', worktrees \subseteq Workspaces
  PROVE  LeftInv'
  BY DEF LeftInv, Told

\* The steps of the handlers: a delete that finds every request idle lists every
\* worktree, and the rows go when none of them is left.
LEMMA HandlerLeft ==
  ASSUME RoomInv, DeleteAlone, LeftInv, NEW t \in Reqs,
         \/ \E w \in Workspaces : \/ \E op \in Ops : GitRequest(t, op, w)
                                 \/ DeleteCleanup(t, w)
         \/ StopCancel(t) \/ DeleteList(t) \/ DeleteRows(t)
  PROVE  LeftInv'
  <1>0. worktrees \subseteq Workspaces
    BY DEF RoomInv, Git!TypeOK
  <1>1. ASSUME NEW w \in Workspaces, NEW op \in {"create", "merge", "cancel"},
                 Git!Request(t, op, w), project,
               UNCHANGED << project, todo >>, \A u \in Reqs : next'[u] = "cleanup"
                 <=> next[u] = "cleanup"
        PROVE  LeftInv'
    <2>1. /\ pc'[t] \in {"create.insert", "merge.load", "cancel.load"} /\ pc[t] = "idle"
          /\ \A u \in Reqs : u # t => pc'[u] = pc[u] /\ ws'[u] = ws[u]
          /\ UNCHANGED << status, crashes >>
      BY <1>1, GitEnters DEF RoomInv
    <2>2. UNCHANGED << path, worktrees >> /\ gone' = gone \ {t}
      BY <1>1 DEF Git!Request
    <2>3. \A v \in worktrees : Told(v) => Told(v)'
      BY <2>1, <2>2 DEF Told, Exists
    <2> QED BY <1>1, <2>1, <2>2, <2>3 DEF LeftInv, PrepareSteps
  <1>2. ASSUME NEW w \in Workspaces, NEW op \in Ops, GitRequest(t, op, w) PROVE LeftInv'
    BY <1>1, <1>2 DEF GitRequest, handlerVars
  <1>3. CASE StopCancel(t)
    <2>1. /\ next[t] = "cancel" /\ next' = [next EXCEPT ![t] = "return"]
               /\ UNCHANGED << project, todo >>
          /\ agentWs[t] \in Workspaces
      BY <1>3 DEF StopCancel, Then, RoomInv, OneMethod
    <2>2. \A u \in Reqs : next'[u] = "cleanup" <=> next[u] = "cleanup"
      BY <2>1 DEF RoomInv, HandlerTypes
    <2>3. CASE Exists(agentWs[t]) /\ Git!Request(t, "cancel", agentWs[t])
      BY <1>1, <2>1, <2>2, <2>3 DEF RoomInv, RowsStay
    <2>4. CASE UNCHANGED << status, bootVars, gitVars >>
      <3>1. UNCHANGED << status, path, worktrees, crashes, pc, ws, gone >>
        BY <2>4 DEF bootVars, gitVars
      <3> QED BY <2>1, <2>2, <3>1 DEF LeftInv, Told, Exists
    <2> QED BY <1>3, <2>3, <2>4 DEF StopCancel, Agent!GetWorkspace, Exists
  <1>4. CASE DeleteList(t)
    <2>1. /\ next' = [next EXCEPT ![t] = "cleanup"]
               /\ todo' = [todo EXCEPT ![t] = {w \in Workspaces : Exists(w)}]
          /\ UNCHANGED << status, path, worktrees, crashes, pc, ws, gone, project >>
      BY <1>4 DEF DeleteList, Then, gitVars, bootVars
    <2>2. ASSUME crashes = 0 PROVE worktrees \subseteq {w \in Workspaces : Exists(w)}
      <3>1. SUFFICES ASSUME NEW w \in worktrees PROVE Exists(w)
        BY <1>0
      <3>2. Told(w) /\ project
        BY <2>2, <3>1 DEF LeftInv
      <3> QED BY <3>2 DEF Told, RoomInv, Heard, RowsStay
    <2>3. \A w : Told(w) => Told(w)'
      BY <2>1 DEF Told, Exists
    <2>4. \A u \in Reqs : next'[u] = "cleanup" => u = t
            \/ (next[u] = "cleanup" /\ todo'[u] = todo[u])
      BY <2>1 DEF RoomInv, HandlerTypes
    <2>5. todo'[t] = {w \in Workspaces : Exists(w)}
      BY <2>1 DEF RoomInv, HandlerTypes
    <2> QED BY <2>1, <2>2, <2>3, <2>4, <2>5 DEF LeftInv
  <1>5. ASSUME NEW w \in Workspaces, DeleteCleanup(t, w) PROVE LeftInv'
    <2>1. /\ w \in todo[t] /\ todo' = [todo EXCEPT ![t] = @ \ {w}]
          /\ worktrees' = IF Exists(w) /\ path[w] THEN worktrees \ {w} ELSE worktrees
          /\ UNCHANGED << status, path, crashes, pc, ws, gone, project, next >>
      BY <1>5 DEF DeleteCleanup, bootVars
    <2>2. next[t] = "cleanup" /\ pc[t] = "idle"
      BY <2>1 DEF RoomInv, OneMethod
    <2>3. \A u \in Reqs : pc[u] = "idle" /\ (u # t => next[u] # "cleanup")
      BY <2>2 DEF DeleteAlone, Idle
    <2>4. ASSUME crashes = 0 PROVE w \notin worktrees'
      <3>1. w \in worktrees => Exists(w) /\ path[w]
        BY <2>3, <2>4 DEF LeftInv, Told
      <3> QED BY <2>1, <3>1
    <2>5. worktrees' \subseteq worktrees
      BY <2>1
    <2>6. \A v : Told(v) => Told(v)'
      BY <2>1 DEF Told, Exists
    <2>7. todo'[t] = todo[t] \ {w}
      BY <2>1 DEF RoomInv, HandlerTypes
    <2> QED BY <2>1, <2>3, <2>4, <2>5, <2>6, <2>7 DEF LeftInv
  <1>6. CASE DeleteRows(t)
    <2>1. /\ next[t] = "cleanup" /\ todo[t] = {} /\ project' = FALSE
               /\ next' = [next EXCEPT ![t] = "return"]
          /\ UNCHANGED << worktrees, crashes, pc, ws, gone, todo >>
      BY <1>6 DEF DeleteRows, Then, bootVars
    <2>2. \A u \in Reqs : pc[u] = "idle"
      BY <2>1 DEF DeleteAlone, Idle, RoomInv, OneMethod
    <2>3. crashes = 0 => worktrees = {}
      BY <2>1 DEF LeftInv
    <2> QED BY <2>1, <2>2, <2>3 DEF LeftInv, PrepareSteps
  <1> QED BY <1>2, <1>3, <1>4, <1>5, <1>6

\* Every step preserves LeftInv.
LEMMA NextLeft ==
  ASSUME RoomInv, DeleteAlone, LeftInv, [Next]_vars
  PROVE  LeftInv'
  <1>0. worktrees \subseteq Workspaces
    BY DEF RoomInv, Git!TypeOK
  <1>1. ASSUME NEW x \in Agent!Threads,
               (x \in Reqs /\ Agent!Handle(x)) \/ (x \in Adapters /\ Agent!Drain(x)),
               UNCHANGED << gitVars, handlerVars >>
        PROVE LeftInv'
    <2>1. AgentMoves(x)
      BY <1>1, AgentThread DEF RoomInv
    <2> QED BY <1>0, <1>1, <2>1, QuietLeft DEF AgentMoves, gitVars, handlerVars, Exists
  <1>2. ASSUME NEW a \in Adapters, Agent!Agent(a), UNCHANGED << gitVars, handlerVars >>
        PROVE LeftInv'
    BY <1>0, <1>2, QuietLeft
    DEF Agent!Agent, Agent!Talk, Agent!FinishTurn, Agent!ProcessExit,
        Agent!Emit, gitVars, handlerVars, Exists
  <1>3. ASSUME NEW t \in Reqs, NEW w \in Workspaces, NEW op \in Ops,
                 AgentRequest(t, op, w) PROVE LeftInv'
    BY <1>0, <1>3, QuietLeft
    DEF AgentRequest, Agent!Request, gitVars, handlerVars, Exists
  <1>4. ASSUME NEW t \in Reqs, NEW w \in Workspaces, StopRequest(t, w) PROVE LeftInv'
    <2>1. /\ UNCHANGED << status, path, worktrees, crashes, pc, ws, gone, project,
               todo >>
          /\ next' = [next EXCEPT ![t] = "cancel"]
      BY <1>4 DEF StopRequest, Agent!Request, Then, gitVars
    <2>2. \A u \in Reqs : next'[u] = "cleanup" => next[u] = "cleanup"
      BY <2>1 DEF RoomInv, HandlerTypes
    <2> QED BY <2>1, <2>2 DEF LeftInv, Told, Exists
  <1>5. CASE World \/ UNCHANGED vars
    BY <1>0, <1>5, QuietLeft
    DEF World, Git!Commit, Git!Resolve, Git!UserCommit, Git!Tick, vars, gitVars,
        bootVars, handlerVars, Exists
  <1>6. ASSUME NEW w \in Workspaces, SweepRow(w) PROVE LeftInv'
    <2>1. status' = [status EXCEPT ![w] = "failed"]
          /\ UNCHANGED << project, next, todo, path, worktrees, crashes, pc, ws, gone >>
      BY <1>6 DEF SweepRow, Agent!SweepRow, Git!SweepRow, handlerVars
    <2>2. \A v \in Workspaces : Exists(v) => Exists(v)'
      BY <2>1 DEF Exists, RoomInv, Git!TypeOK
    <2> QED BY <1>0, <2>1, <2>2, QuietLeft
  <1>7. CASE Crash
    <2>1. crashes' = crashes + 1 /\ pc' = [t \in Reqs |-> "idle"]
      BY <1>7 DEF Crash, Git!Crash
    <2>2. crashes' # 0
      BY <2>1 DEF RoomInv, Git!TypeOK
    <2> QED BY <2>1, <2>2 DEF LeftInv, PrepareSteps
  <1> QED
    BY <1>1, <1>2, <1>3, <1>4, <1>5, <1>6, <1>7, GitStepLeft, HandlerLeft
    DEF Next, Handle, AgentStep, Background, Agent!Threads

\* There is no worktree when the server has just been created.
LEMMA InitLeft == Init => LeftInv
  BY DEF Init, Git!Init, LeftInv, PrepareSteps

\* A project that has been deleted leaves no worktree behind (NothingLeftBehind) as
\* long as the server has not crashed, provided that no other request is under way
\* while handleDeleteProject works.
THEOREM NothingIsLeft == Spec /\ []DeleteAlone => []NothingLeftBehind
  <1>1. LeftInv => NothingLeftBehind
    BY DEF LeftInv, NothingLeftBehind
  <1> QED BY <1>1, InitLeft, NextLeft, RoomInvariance, PTL DEF Spec
=============================================================================
