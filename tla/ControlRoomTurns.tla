-------------------------- MODULE ControlRoomTurns --------------------------
(***************************************************************************)
(* What ControlRoom does while the requests at work are at different       *)
(* workspaces (OneAtATime): the turns of the agents, the conflicts of the  *)
(* merges, the transitions of the status and the worktrees.  OneAtATime is *)
(* a hypothesis of the theorems: nothing in the code makes it true, and the*)
(* managers overwrite each other's status when it is false.                *)
(*                                                                         *)
(* TurnInv is inductive under it: which agents may still write the status  *)
(* of their workspace, and what they may then write over.  CountInv,       *)
(* StatusInv and HouseInv are the invariants that ConflictsCounted,        *)
(* StatusMoves and WorktreePresent need besides.                           *)
(***************************************************************************)
EXTENDS ControlRoomProofs, Sequences

USE DEF Git!rowVars, Git!repoVars, Git!localVars, Git!worldVars, Git!historyVars
USE DEF Agent!dbVars, Agent!adapterVars, Agent!drainVars, Agent!bootVars

-----------------------------------------------------------------------------
(* The turns of the agents. A drain writes the status of its workspace     *)
(* when a turn ends, whatever has happened to the workspace since: TurnInv *)
(* says which agents may still do so, and what they may then write over.   *)

\* s has no end of a turn in it / no two of them
NoDone(s) == \A i \in 1..Len(s) : s[i] \notin DoneReasons

\* No two of them are.
OneDone(s) ==
  \A i, j \in 1..Len(s) : s[i] \in DoneReasons /\ s[j] \in DoneReasons => i = j

\* A channel without an end of a turn has at most one.
LEMMA NoneIsOne == ASSUME NEW s, NoDone(s) PROVE OneDone(s)
  BY DEF NoDone, OneDone

\* An event is sent to a channel.
LEMMA DoneAppend ==
  ASSUME NEW s \in Seq(Agent!Events), NEW e \in Agent!Events
  PROVE  /\ Append(s, e) \in Seq(Agent!Events)
         /\ e \notin DoneReasons /\ NoDone(s) => NoDone(Append(s, e))
         /\ e \notin DoneReasons /\ OneDone(s) => OneDone(Append(s, e))
         /\ NoDone(s) => OneDone(Append(s, e))
  <1>1. /\ Append(s, e) \in Seq(Agent!Events) /\ Len(Append(s, e)) = Len(s) + 1
        /\ Len(s) \in Nat
        /\ \A i \in 1..Len(s) : Append(s, e)[i] = s[i]
        /\ Append(s, e)[Len(s) + 1] = e
    OBVIOUS
  <1>2. \A i \in 1..Len(Append(s, e)) : i \in 1..Len(s) \/ i = Len(s) + 1
    BY <1>1
  <1> QED BY <1>1, <1>2 DEF NoDone, OneDone

\* An event is taken from a channel.
LEMMA DoneTail ==
  ASSUME NEW s \in Seq(Agent!Events), s # << >>
  PROVE  /\ Tail(s) \in Seq(Agent!Events) /\ Head(s) \in Agent!Events
         /\ NoDone(s) => NoDone(Tail(s)) /\ Head(s) \notin DoneReasons
         /\ OneDone(s) => OneDone(Tail(s))
         /\ OneDone(s) /\ Head(s) \in DoneReasons => NoDone(Tail(s))
  <1>1. /\ Tail(s) \in Seq(Agent!Events) /\ Len(Tail(s)) = Len(s) - 1
        /\ Len(s) \in Nat /\ Len(s) # 0 /\ Head(s) = s[1]
        /\ \A i \in 1..Len(Tail(s)) : Tail(s)[i] = s[i + 1]
    OBVIOUS
  <1>2. /\ \A i \in 1..Len(Tail(s)) : i + 1 \in 1..Len(s)
        /\ 1 \in 1..Len(s)
    BY <1>1
  <1>3. Head(s) \in Agent!Events
    BY <1>1, <1>2
  <1>4. NoDone(s) => NoDone(Tail(s)) /\ Head(s) \notin DoneReasons
    BY <1>1, <1>2 DEF NoDone
  <1>5. OneDone(s) => OneDone(Tail(s))
    <2>1. SUFFICES ASSUME OneDone(s), NEW i \in 1..Len(Tail(s)),
                            NEW j \in 1..Len(Tail(s)),
                     Tail(s)[i] \in DoneReasons, Tail(s)[j] \in DoneReasons
                   PROVE i = j
      BY DEF OneDone
    <2>2. i + 1 = j + 1
      BY <2>1, <1>1, <1>2 DEF OneDone
    <2> QED BY <2>2, <1>1
  <1>6. OneDone(s) /\ Head(s) \in DoneReasons => NoDone(Tail(s))
    <2>1. SUFFICES ASSUME OneDone(s), NEW i \in 1..Len(Tail(s)), s[1] \in DoneReasons,
                     Tail(s)[i] \in DoneReasons
                   PROVE FALSE
      BY <1>1 DEF NoDone
    <2>2. i + 1 = 1
      BY <2>1, <1>1, <1>2 DEF OneDone
    <2> QED BY <2>2, <1>1
  <1> QED BY <1>1, <1>3, <1>4, <1>5, <1>6

\* What an adapter says during a turn is not its end.
LEMMA DoneFacts ==
  /\ Chatter \cap DoneReasons = {} /\ MaxTurns \in Nat /\ MaxTurns # 0
  /\ "none" \notin DoneReasons
  BY ControlRoomAssumption DEF Agent!ConstantsAssumption, Agent!AllReasons

\* The workspace a request works on
WorkOf(t) == IF pc[t] # "idle" THEN ws[t] ELSE agentWs[t]

\* The requests at work are at different workspaces, and none of them works while
\* handleDeleteProject cleans a project up.
OneAtATime ==
  \A t, u \in Reqs : t # u /\ ~Idle(t) /\ ~Idle(u) =>
    next[t] # "cleanup" /\ next[u] # "cleanup" /\ WorkOf(t) # WorkOf(u)

\* The drain of a has taken the end of a turn and has not yet written its status.
Taken(a) ==
  (agentPc[a] = "drain.persist" /\ ev[a] \in DoneReasons)
    \/ agentPc[a] = "drain.terminal"

\* The drain of a is about to fail the workspace.
Failing(a) == agentPc[a] \in Agent!FailSteps

\* Something is left that makes the drain of a write a status: a turn that runs, the
\* end of one, or the end of an agent that was preempted.
Outstanding(a) ==
  \/ turn[a] > 0 \/ ~NoDone(chan[a]) \/ Taken(a) \/ Failing(a)
  \/ life[a] = "preempted" /\ agentPc[a] \notin Agent!CleanSteps

\* The drain of a may still write the status of its workspace.
Owes(a) == Agent!HasSession(a) /\ Outstanding(a)

\* No drain may still write the status of w.
Quiet(w) == \A a \in Adapters : agentWs[a] = w => ~Owes(a)

\* Nothing has been sent to a yet.
Fresh(a) ==
  \/ life[a] = "free"
  \/ \E t \in Reqs : ad[t] = a
       /\ agentPc[t] \in {"start.running", "start.register", "start.prompt"}

\* An agent has one turn open at most, and it ends once.
OneTurn(a) ==
  /\ turn[a] > 0 => turn[a] = 1 /\ NoDone(chan[a]) /\ ~Taken(a) /\ ~Failing(a)
  /\ OneDone(chan[a])
  /\ Taken(a) \/ Failing(a) => NoDone(chan[a])
  /\ life[a] = "preempted" =>
       NoDone(chan[a]) /\ ~Taken(a) /\ (Failing(a) => then[a] = "clean.delete")

\* What each adapter is sure of.
LocalInv(a) ==
  /\ turn[a] > 0 => life[a] = "live"
  /\ agentPc[a] = "drain.closed" => NoDone(chan[a])
  /\ Fresh(a) => ~Outstanding(a)
  /\ Agent!HasSession(a) => OneTurn(a)

\* The statuses a workspace can have when a drain still owes the end of a turn.
Ending == {"running", "failed", "cancelled", "none"}

\* The statuses from which a turn begins.
Ready == {"idle", "awaiting_input"}

\* One agent of a workspace at most owes the end of a turn, and the status it will
\* then write over is none that a merge has written.
OwesInv ==
  /\ \A a, b \in Adapters : Owes(a) /\ Owes(b) /\ agentWs[a] = agentWs[b] => a = b
  /\ \A a \in Adapters : Owes(a) => status[agentWs[a]] \in Ending

\* A request that holds an adapter holds one of its workspace.
HeldWs(t) == agentPc[t] \in Agent!HoldingSteps => agentWs[ad[t]] = agentWs[t]
  /\ life[ad[t]] # "free"

\* The statuses of a merge that is over.
Settled == {"merged", "conflict_stuck"}

\* The steps between the check of the status and the prompt.
Openings == {"start.register", "start.preempt", "start.prompt", "prompt.send"}

\* The steps by which StartAgent gives up.
Giving(t) ==
  \/ agentPc[t] \in Agent!FailSteps
  \/ agentPc[t] \in Agent!CleanSteps /\ then[t] = "fail.read"

\* What a request in the agent manager knows of its workspace, step by step.
ReqPlace(t) ==
  LET w == agentWs[t] s == status[w] IN
    /\ agentPc[t] \notin Agent!CleanSteps => then[t] = "idle"
    /\ agentPc[t] \in {"start.spawn", "start.running", "prompt.running"} => s \in Ready
    /\ agentPc[t] \in Openings => s = "running"
    /\ agentPc[t] \in Openings \cup {"start.running", "prompt.running"} => Quiet(w)
    /\ agentPc[t] = "complete.write" => s \in Ready \cup {"resolving_conflict"}
    /\ Giving(t) => s \in Ready \cup {"running", "failed"}
    /\ agentPc[t] = "stop.write" => s \notin Settled

\* What a request in the workspace manager knows of it.
GitPlace(t) ==
  LET s == status[ws[t]] IN
    /\ pc[t] = "prepare.preparing" => s \in {"queued", "idle"}
    /\ pc[t] \in {"prepare.add", "prepare.failed", "prepare.branch", "prepare.idle"} =>
         s = "preparing"
    /\ pc[t] \in {"cancel.remove", "cancel.write"} => s \notin Settled
    /\ pc[t] \in {"merge.tree", "merge.update", "merge.merged", "merge.conflict"} =>
         s \in {"completed", "resolving_conflict"}

\* The inductive invariant of the turns.
TurnInv ==
  /\ \A a \in Adapters : LocalInv(a)
  /\ OwesInv
  /\ \A t \in Reqs : HeldWs(t) /\ ReqPlace(t) /\ GitPlace(t)

\* Where the agent manager writes the status, and what
StatusWrite(x) ==
  \/ status' = status
  \/ \E s : /\ status' = [status EXCEPT ![agentWs[x]] = s]
            /\ status[agentWs[x]] # "none"
            /\ \/ agentPc[x] \in {"start.running", "prompt.running"} /\ s = "running"
               \/ agentPc[x] = "stop.write" /\ s = "cancelled"
               \/ agentPc[x] = "complete.write" /\ s = "completed"
               \/ agentPc[x] = "fail.write" /\ s = "failed"
               \/ agentPc[x] = "drain.terminal" /\ s = "awaiting_input"

\* Nothing happens to a.
Same(a) ==
  /\ UNCHANGED << turn[a], chan[a], ev[a], life[a], agentPc[a], then[a], agentWs[a] >>
  /\ Agent!HasSession(a)' => Agent!HasSession(a)
  /\ Fresh(a)' => Fresh(a)

\* Adapter a owes no more after the step than before it, on the same workspace
NoMore(a) == LocalInv(a)' /\ (Owes(a)' => Owes(a) /\ agentWs'[a] = agentWs[a])

\* An adapter that nothing happens to owes no more than before.
LEMMA SameNoMore == ASSUME NEW a \in Adapters, LocalInv(a), Same(a) PROVE NoMore(a)
  BY
  DEF Same, NoMore, LocalInv, Owes, Outstanding, Taken, Failing, OneTurn,
      NoDone, OneDone

\* Thread x sends a prompt to its adapter a.
Opens(x, a) ==
  /\ LocalInv(a)' /\ agentWs'[a] = agentWs[a] /\ agentWs[a] = agentWs[x] /\ a = ad[x]
  /\ x \in Reqs /\ agentPc[x] \in {"start.preempt", "start.prompt", "prompt.send"}
  /\ status' = status

\* What a step of the agent manager does to the turns and to the status.
TurnStep(x) ==
  /\ \A a \in Adapters : NoMore(a) \/ Opens(x, a)
  /\ StatusWrite(x)

-----------------------------------------------------------------------------
(* The steps of the agent manager, one by one.                             *)

\* An UPDATE of the status changes one row that is there, or nothing.
LEMMA UpdateStatus ==
  ASSUME NEW t, NEW w, NEW s, NEW alive, NEW ok,
           Agent!UpdateWorkspace(t, w, s, alive, ok)
  PROVE  \/ status' = status
         \/ status[w] # "none" /\ status' = [status EXCEPT ![w] = s]
  BY Zenon DEF Agent!UpdateWorkspace

\* StartLoad is a step of the kind TurnStep says.
LEMMA TurnRStartLoad ==
  ASSUME Agent!IInv, TurnInv, NEW t \in Reqs, Agent!StartLoad(t)
  PROVE  TurnStep(t)
  <1>1. ASSUME NEW a \in Adapters PROVE Same(a)
    BY AdapterFacts
    DEF Same, Fresh, Agent!HasSession, Agent!IInv, Agent!TypeOK, Agent!Threads,
        Agent!SessionInv, Agent!ThreadsInPlace, Agent!StartLoad, Agent!Goto
  <1>2. status' = status
    BY DEF Agent!StartLoad
  <1> QED BY <1>1, <1>2, SameNoMore DEF TurnStep, TurnInv, StatusWrite

\* PromptLookup is a step of the kind TurnStep says.
LEMMA TurnRPromptLookup ==
  ASSUME Agent!IInv, TurnInv, NEW t \in Reqs, Agent!PromptLookup(t)
  PROVE  TurnStep(t)
  <1>1. ASSUME NEW a \in Adapters PROVE Same(a)
    BY AdapterFacts
    DEF Same, Fresh, Agent!HasSession, Agent!IInv, Agent!TypeOK, Agent!Threads,
        Agent!SessionInv, Agent!ThreadsInPlace, Agent!PromptLookup, Agent!Goto
  <1>2. status' = status
    BY DEF Agent!PromptLookup
  <1> QED BY <1>1, <1>2, SameNoMore DEF TurnStep, TurnInv, StatusWrite

\* PromptCheck is a step of the kind TurnStep says.
LEMMA TurnRPromptCheck ==
  ASSUME Agent!IInv, TurnInv, NEW t \in Reqs, Agent!PromptCheck(t)
  PROVE  TurnStep(t)
  <1>1. ASSUME NEW a \in Adapters PROVE Same(a)
    BY AdapterFacts
    DEF Same, Fresh, Agent!HasSession, Agent!IInv, Agent!TypeOK, Agent!Threads,
        Agent!SessionInv, Agent!ThreadsInPlace, Agent!PromptCheck, Agent!Goto
  <1>2. status' = status
    BY DEF Agent!PromptCheck
  <1> QED BY <1>1, <1>2, SameNoMore DEF TurnStep, TurnInv, StatusWrite

\* PromptPersist is a step of the kind TurnStep says.
LEMMA TurnRPromptPersist ==
  ASSUME Agent!IInv, TurnInv, NEW t \in Reqs, Agent!PromptPersist(t)
  PROVE  TurnStep(t)
  <1>1. ASSUME NEW a \in Adapters PROVE Same(a)
    BY AdapterFacts
    DEF Same, Fresh, Agent!HasSession, Agent!IInv, Agent!TypeOK, Agent!Threads,
        Agent!SessionInv, Agent!ThreadsInPlace, Agent!PromptPersist, Agent!Goto
  <1>2. status' = status
    BY DEF Agent!PromptPersist
  <1> QED BY <1>1, <1>2, SameNoMore DEF TurnStep, TurnInv, StatusWrite

\* StopLookup is a step of the kind TurnStep says.
LEMMA TurnRStopLookup ==
  ASSUME Agent!IInv, TurnInv, NEW t \in Reqs, Agent!StopLookup(t)
  PROVE  TurnStep(t)
  <1>1. ASSUME NEW a \in Adapters PROVE Same(a)
    BY AdapterFacts
    DEF Same, Fresh, Agent!HasSession, Agent!IInv, Agent!TypeOK, Agent!Threads,
        Agent!SessionInv, Agent!ThreadsInPlace, Agent!StopLookup, Agent!Goto
  <1>2. status' = status
    BY DEF Agent!StopLookup
  <1> QED BY <1>1, <1>2, SameNoMore DEF TurnStep, TurnInv, StatusWrite

\* StopCancel is a step of the kind TurnStep says.
LEMMA TurnRStopCancel ==
  ASSUME Agent!IInv, TurnInv, NEW t \in Reqs, Agent!StopCancel(t)
  PROVE  TurnStep(t)
  <1>1. ASSUME NEW a \in Adapters PROVE Same(a)
    BY AdapterFacts
    DEF Same, Fresh, Agent!HasSession, Agent!IInv, Agent!TypeOK, Agent!Threads,
        Agent!SessionInv, Agent!ThreadsInPlace, Agent!StopCancel, Agent!Goto
  <1>2. status' = status
    BY DEF Agent!StopCancel
  <1> QED BY <1>1, <1>2, SameNoMore DEF TurnStep, TurnInv, StatusWrite

\* StopRead is a step of the kind TurnStep says.
LEMMA TurnRStopRead ==
  ASSUME Agent!IInv, TurnInv, NEW t \in Reqs, Agent!StopRead(t)
  PROVE  TurnStep(t)
  <1>1. ASSUME NEW a \in Adapters PROVE Same(a)
    BY AdapterFacts
    DEF Same, Fresh, Agent!HasSession, Agent!IInv, Agent!TypeOK, Agent!Threads,
        Agent!SessionInv, Agent!ThreadsInPlace, Agent!StopRead, Agent!Goto
  <1>2. status' = status
    BY DEF Agent!StopRead
  <1> QED BY <1>1, <1>2, SameNoMore DEF TurnStep, TurnInv, StatusWrite

\* CompleteRead is a step of the kind TurnStep says.
LEMMA TurnRCompleteRead ==
  ASSUME Agent!IInv, TurnInv, NEW t \in Reqs, Agent!CompleteRead(t)
  PROVE  TurnStep(t)
  <1>1. ASSUME NEW a \in Adapters PROVE Same(a)
    BY AdapterFacts
    DEF Same, Fresh, Agent!HasSession, Agent!IInv, Agent!TypeOK, Agent!Threads,
        Agent!SessionInv, Agent!ThreadsInPlace, Agent!CompleteRead, Agent!Goto
  <1>2. status' = status
    BY DEF Agent!CompleteRead
  <1> QED BY <1>1, <1>2, SameNoMore DEF TurnStep, TurnInv, StatusWrite

\* FailRead is a step of the kind TurnStep says.
LEMMA TurnRFailRead ==
  ASSUME Agent!IInv, TurnInv, NEW t \in Reqs, Agent!FailRead(t)
  PROVE  TurnStep(t)
  <1>1. ASSUME NEW a \in Adapters PROVE Same(a)
    BY AdapterFacts
    DEF Same, Fresh, Agent!HasSession, Agent!IInv, Agent!TypeOK, Agent!Threads,
        Agent!SessionInv, Agent!ThreadsInPlace, Agent!FailRead, Agent!Goto,
        Agent!Return
  <1>2. status' = status
    BY DEF Agent!FailRead
  <1> QED BY <1>1, <1>2, SameNoMore DEF TurnStep, TurnInv, StatusWrite

\* CleanDelete is a step of the kind TurnStep says.
LEMMA TurnRCleanDelete ==
  ASSUME Agent!IInv, TurnInv, NEW t \in Reqs, Agent!CleanDelete(t)
  PROVE  TurnStep(t)
  <1>1. ASSUME NEW a \in Adapters PROVE Same(a)
    BY AdapterFacts
    DEF Same, Fresh, Agent!HasSession, Agent!IInv, Agent!TypeOK, Agent!Threads,
        Agent!SessionInv, Agent!ThreadsInPlace, Agent!CleanDelete, Agent!Goto
  <1>2. status' = status
    BY DEF Agent!CleanDelete
  <1> QED BY <1>1, <1>2, SameNoMore DEF TurnStep, TurnInv, StatusWrite

\* CleanCancel is a step of the kind TurnStep says.
LEMMA TurnRCleanCancel ==
  ASSUME Agent!IInv, TurnInv, NEW t \in Reqs, Agent!CleanCancel(t)
  PROVE  TurnStep(t)
  <1>1. ASSUME NEW a \in Adapters PROVE Same(a)
    BY AdapterFacts
    DEF Same, Fresh, Agent!HasSession, Agent!IInv, Agent!TypeOK, Agent!Threads,
        Agent!SessionInv, Agent!ThreadsInPlace, Agent!CleanCancel, Agent!Goto,
        Agent!Return
  <1>2. status' = status
    BY DEF Agent!CleanCancel
  <1> QED BY <1>1, <1>2, SameNoMore DEF TurnStep, TurnInv, StatusWrite

\* PromptRunning is a step of the kind TurnStep says.
LEMMA TurnRPromptRunning ==
  ASSUME Agent!IInv, TurnInv, NEW t \in Reqs, Agent!PromptRunning(t)
  PROVE  TurnStep(t)
  <1>1. ASSUME NEW a \in Adapters PROVE Same(a)
    BY AdapterFacts
    DEF Same, Fresh, Agent!HasSession, Agent!IInv, Agent!TypeOK, Agent!Threads,
        Agent!SessionInv, Agent!ThreadsInPlace, Agent!PromptRunning, Agent!Goto
  <1>3. PICK ok \in BOOLEAN : Agent!UpdateWorkspace(t, agentWs[t], "running",
               Agent!CtxOK(t), ok)
    BY DEF Agent!PromptRunning
  <1>2. StatusWrite(t)
    BY <1>3, UpdateStatus DEF Agent!PromptRunning, StatusWrite
  <1> QED BY <1>1, <1>2, SameNoMore DEF TurnStep, TurnInv, StatusWrite

\* StopWrite is a step of the kind TurnStep says.
LEMMA TurnRStopWrite ==
  ASSUME Agent!IInv, TurnInv, NEW t \in Reqs, Agent!StopWrite(t)
  PROVE  TurnStep(t)
  <1>1. ASSUME NEW a \in Adapters PROVE Same(a)
    BY AdapterFacts
    DEF Same, Fresh, Agent!HasSession, Agent!IInv, Agent!TypeOK, Agent!Threads,
        Agent!SessionInv, Agent!ThreadsInPlace, Agent!StopWrite, Agent!Goto
  <1>3. PICK ok \in BOOLEAN : Agent!UpdateWorkspace(t, agentWs[t], "cancelled",
               Agent!CtxOK(t), ok)
    BY DEF Agent!StopWrite
  <1>2. StatusWrite(t)
    BY <1>3, UpdateStatus DEF Agent!StopWrite, StatusWrite
  <1> QED BY <1>1, <1>2, SameNoMore DEF TurnStep, TurnInv, StatusWrite

\* CompleteWrite is a step of the kind TurnStep says.
LEMMA TurnRCompleteWrite ==
  ASSUME Agent!IInv, TurnInv, NEW t \in Reqs, Agent!CompleteWrite(t)
  PROVE  TurnStep(t)
  <1>1. ASSUME NEW a \in Adapters PROVE Same(a)
    BY AdapterFacts
    DEF Same, Fresh, Agent!HasSession, Agent!IInv, Agent!TypeOK, Agent!Threads,
        Agent!SessionInv, Agent!ThreadsInPlace, Agent!CompleteWrite, Agent!Goto
  <1>3. PICK ok \in BOOLEAN : Agent!UpdateWorkspace(t, agentWs[t], "completed",
               Agent!CtxOK(t), ok)
    BY DEF Agent!CompleteWrite
  <1>2. StatusWrite(t)
    BY <1>3, UpdateStatus DEF Agent!CompleteWrite, StatusWrite
  <1> QED BY <1>1, <1>2, SameNoMore DEF TurnStep, TurnInv, StatusWrite

\* FailWrite is a step of the kind TurnStep says.
LEMMA TurnRFailWrite ==
  ASSUME Agent!IInv, TurnInv, NEW t \in Reqs, Agent!FailWrite(t)
  PROVE  TurnStep(t)
  <1>1. ASSUME NEW a \in Adapters PROVE Same(a)
    BY AdapterFacts
    DEF Same, Fresh, Agent!HasSession, Agent!IInv, Agent!TypeOK, Agent!Threads,
        Agent!SessionInv, Agent!ThreadsInPlace, Agent!FailWrite, Agent!Goto,
        Agent!Return
  <1>3. PICK ok \in BOOLEAN : Agent!UpdateWorkspace(t, agentWs[t], "failed",
               Agent!FailCtxOK(t), ok)
    BY DEF Agent!FailWrite
  <1>2. StatusWrite(t)
    BY <1>3, UpdateStatus DEF Agent!FailWrite, StatusWrite
  <1> QED BY <1>1, <1>2, SameNoMore DEF TurnStep, TurnInv, StatusWrite

\* The adapter of a drain at work is in the session table or is given up by a request.
LEMMA DrainHasSession ==
  ASSUME Agent!IInv, NEW a \in Adapters, agentPc[a] # "idle"
  PROVE  ~Fresh(a) /\ Agent!HasSession(a)
  BY
  DEF Fresh, Agent!HasSession, Agent!IInv, Agent!SessionInv, Agent!AdaptersHeld,
      Agent!FreeUnknown, Agent!Starting

\* DrainPersist is a step of the kind TurnStep says.
LEMMA TurnDDrainPersist ==
  ASSUME Agent!IInv, TurnInv, NEW t \in Adapters, Agent!DrainPersist(t)
  PROVE  TurnStep(t)
  <1>1. ASSUME NEW a \in Adapters, a # t PROVE Same(a)
    BY <1>1, AdapterFacts
    DEF Same, Fresh, Agent!HasSession, Agent!IInv, Agent!TypeOK, Agent!Threads,
        Agent!SessionInv, Agent!ThreadsInPlace, Agent!DrainPersist, Agent!Goto,
        Agent!CleanSteps, Agent!FailSteps
  <1>2. agentPc[t] = "drain.persist" /\ ~Fresh(t) /\ Agent!HasSession(t) /\ LocalInv(t)
    BY DrainHasSession DEF Agent!DrainPersist, TurnInv
  <1>3. ~Fresh(t)'
    BY <1>2, AdapterFacts
    DEF Fresh, Agent!IInv, Agent!TypeOK, Agent!Threads, Agent!DrainPersist,
        Agent!Goto, Agent!CleanSteps, Agent!FailSteps
  <1>4. NoMore(t)
    BY <1>2, <1>3, AdapterFacts
    DEF NoMore, LocalInv, Outstanding, Owes, OneTurn, Taken, Failing, NoDone,
        OneDone, Agent!IInv, Agent!TypeOK, Agent!Threads, Agent!SessionInv,
        Agent!ThreadsInPlace, Agent!DrainPersist, Agent!Goto, Agent!CleanSteps,
        Agent!FailSteps
  <1>5. status' = status
    BY DEF Agent!DrainPersist
  <1> QED BY <1>1, <1>4, <1>5, SameNoMore DEF TurnStep, TurnInv, StatusWrite

\* DrainCostRead is a step of the kind TurnStep says.
LEMMA TurnDDrainCostRead ==
  ASSUME Agent!IInv, TurnInv, NEW t \in Adapters, Agent!DrainCostRead(t)
  PROVE  TurnStep(t)
  <1>1. ASSUME NEW a \in Adapters, a # t PROVE Same(a)
    BY <1>1, AdapterFacts
    DEF Same, Fresh, Agent!HasSession, Agent!IInv, Agent!TypeOK, Agent!Threads,
        Agent!SessionInv, Agent!ThreadsInPlace, Agent!DrainCostRead, Agent!Goto,
        Agent!CleanSteps, Agent!FailSteps
  <1>2. agentPc[t] = "drain.costread" /\ ~Fresh(t) /\ Agent!HasSession(t) /\ LocalInv(t)
    BY DrainHasSession DEF Agent!DrainCostRead, TurnInv
  <1>3. ~Fresh(t)'
    BY <1>2, AdapterFacts
    DEF Fresh, Agent!IInv, Agent!TypeOK, Agent!Threads, Agent!DrainCostRead,
        Agent!Goto, Agent!CleanSteps, Agent!FailSteps
  <1>4. NoMore(t)
    BY <1>2, <1>3, AdapterFacts
    DEF NoMore, LocalInv, Outstanding, Owes, OneTurn, Taken, Failing, NoDone,
        OneDone, Agent!IInv, Agent!TypeOK, Agent!Threads, Agent!SessionInv,
        Agent!ThreadsInPlace, Agent!DrainCostRead, Agent!Goto, Agent!CleanSteps,
        Agent!FailSteps
  <1>5. status' = status
    BY DEF Agent!DrainCostRead
  <1> QED BY <1>1, <1>4, <1>5, SameNoMore DEF TurnStep, TurnInv, StatusWrite

\* DrainCostWrite is a step of the kind TurnStep says.
LEMMA TurnDDrainCostWrite ==
  ASSUME Agent!IInv, TurnInv, NEW t \in Adapters, Agent!DrainCostWrite(t)
  PROVE  TurnStep(t)
  <1>1. ASSUME NEW a \in Adapters, a # t PROVE Same(a)
    BY <1>1, AdapterFacts
    DEF Same, Fresh, Agent!HasSession, Agent!IInv, Agent!TypeOK, Agent!Threads,
        Agent!SessionInv, Agent!ThreadsInPlace, Agent!DrainCostWrite,
        Agent!Goto, Agent!CleanSteps, Agent!FailSteps
  <1>2. agentPc[t] = "drain.costwrite" /\ ~Fresh(t) /\ Agent!HasSession(t)
          /\ LocalInv(t)
    BY DrainHasSession DEF Agent!DrainCostWrite, TurnInv
  <1>3. ~Fresh(t)'
    BY <1>2, AdapterFacts
    DEF Fresh, Agent!IInv, Agent!TypeOK, Agent!Threads, Agent!DrainCostWrite,
        Agent!Goto, Agent!CleanSteps, Agent!FailSteps
  <1>4. NoMore(t)
    BY <1>2, <1>3, AdapterFacts
    DEF NoMore, LocalInv, Outstanding, Owes, OneTurn, Taken, Failing, NoDone,
        OneDone, Agent!IInv, Agent!TypeOK, Agent!Threads, Agent!SessionInv,
        Agent!ThreadsInPlace, Agent!DrainCostWrite, Agent!Goto,
        Agent!CleanSteps, Agent!FailSteps
  <1>5. status' = status
    BY DEF Agent!DrainCostWrite
  <1> QED BY <1>1, <1>4, <1>5, SameNoMore DEF TurnStep, TurnInv, StatusWrite

\* FailRead is a step of the kind TurnStep says.
LEMMA TurnDFailRead ==
  ASSUME Agent!IInv, TurnInv, NEW t \in Adapters, Agent!FailRead(t)
  PROVE  TurnStep(t)
  <1>1. ASSUME NEW a \in Adapters, a # t PROVE Same(a)
    BY <1>1, AdapterFacts
    DEF Same, Fresh, Agent!HasSession, Agent!IInv, Agent!TypeOK, Agent!Threads,
        Agent!SessionInv, Agent!ThreadsInPlace, Agent!FailRead, Agent!Goto,
        Agent!Return, Agent!FailSteps, Agent!CleanSteps
  <1>2. agentPc[t] = "fail.read" /\ ~Fresh(t) /\ Agent!HasSession(t) /\ LocalInv(t)
    BY DrainHasSession DEF Agent!FailRead, TurnInv
  <1>3. ~Fresh(t)'
    BY <1>2, AdapterFacts
    DEF Fresh, Agent!IInv, Agent!TypeOK, Agent!Threads, Agent!FailRead,
        Agent!Goto, Agent!Return, Agent!FailSteps, Agent!CleanSteps
  <1>4. NoMore(t)
    BY <1>2, <1>3, AdapterFacts
    DEF NoMore, LocalInv, Outstanding, Owes, OneTurn, Taken, Failing, NoDone,
        OneDone, Agent!IInv, Agent!TypeOK, Agent!Threads, Agent!SessionInv,
        Agent!ThreadsInPlace, Agent!FailRead, Agent!Goto, Agent!Return,
        Agent!FailSteps, Agent!CleanSteps
  <1>5. status' = status
    BY DEF Agent!FailRead
  <1> QED BY <1>1, <1>4, <1>5, SameNoMore DEF TurnStep, TurnInv, StatusWrite

\* FailWrite is a step of the kind TurnStep says.
LEMMA TurnDFailWrite ==
  ASSUME Agent!IInv, TurnInv, NEW t \in Adapters, Agent!FailWrite(t)
  PROVE  TurnStep(t)
  <1>1. ASSUME NEW a \in Adapters, a # t PROVE Same(a)
    BY <1>1, AdapterFacts
    DEF Same, Fresh, Agent!HasSession, Agent!IInv, Agent!TypeOK, Agent!Threads,
        Agent!SessionInv, Agent!ThreadsInPlace, Agent!FailWrite, Agent!Goto,
        Agent!Return, Agent!FailSteps, Agent!CleanSteps
  <1>2. agentPc[t] = "fail.write" /\ ~Fresh(t) /\ Agent!HasSession(t) /\ LocalInv(t)
    BY DrainHasSession DEF Agent!FailWrite, TurnInv
  <1>3. ~Fresh(t)'
    BY <1>2, AdapterFacts
    DEF Fresh, Agent!IInv, Agent!TypeOK, Agent!Threads, Agent!FailWrite,
        Agent!Goto, Agent!Return, Agent!FailSteps, Agent!CleanSteps
  <1>7. /\ agentPc'[t] = then[t] /\ then[t] \in {"drain.select", "clean.delete"}
        /\ UNCHANGED << turn, chan, ev, life, agentWs >>
    BY <1>2
    DEF Agent!FailWrite, Agent!Return, Agent!Goto, Agent!FailSteps, Agent!IInv,
        Agent!TypeOK, Agent!Threads, Agent!SessionInv, Agent!ThreadsInPlace
  <1>4. NoMore(t)
    BY <1>2, <1>3, <1>7
    DEF NoMore, LocalInv, Outstanding, Owes, OneTurn, Taken, Failing, NoDone,
        OneDone, Agent!FailSteps, Agent!CleanSteps
  <1>6. PICK ok \in BOOLEAN : Agent!UpdateWorkspace(t, agentWs[t], "failed",
               Agent!FailCtxOK(t), ok)
    BY DEF Agent!FailWrite
  <1>5. StatusWrite(t)
    BY <1>6, UpdateStatus DEF Agent!FailWrite, StatusWrite
  <1> QED BY <1>1, <1>4, <1>5, SameNoMore DEF TurnStep, TurnInv, StatusWrite

\* CleanDelete is a step of the kind TurnStep says.
LEMMA TurnDCleanDelete ==
  ASSUME Agent!IInv, TurnInv, NEW t \in Adapters, Agent!CleanDelete(t)
  PROVE  TurnStep(t)
  <1>1. ASSUME NEW a \in Adapters, a # t PROVE Same(a)
    BY <1>1, AdapterFacts
    DEF Same, Fresh, Agent!HasSession, Agent!IInv, Agent!TypeOK, Agent!Threads,
        Agent!SessionInv, Agent!ThreadsInPlace, Agent!CleanDelete, Agent!Goto,
        Agent!CleanSteps, Agent!FailSteps
  <1>2. agentPc[t] = "clean.delete" /\ ~Fresh(t) /\ Agent!HasSession(t) /\ LocalInv(t)
    BY DrainHasSession DEF Agent!CleanDelete, TurnInv
  <1>3. ~Fresh(t)'
    BY <1>2, AdapterFacts
    DEF Fresh, Agent!IInv, Agent!TypeOK, Agent!Threads, Agent!CleanDelete,
        Agent!Goto, Agent!CleanSteps, Agent!FailSteps
  <1>4. NoMore(t)
    BY <1>2, <1>3, AdapterFacts
    DEF NoMore, LocalInv, Outstanding, Owes, OneTurn, Taken, Failing, NoDone,
        OneDone, Agent!IInv, Agent!TypeOK, Agent!Threads, Agent!SessionInv,
        Agent!ThreadsInPlace, Agent!CleanDelete, Agent!Goto, Agent!CleanSteps,
        Agent!FailSteps
  <1>5. status' = status
    BY DEF Agent!CleanDelete
  <1> QED BY <1>1, <1>4, <1>5, SameNoMore DEF TurnStep, TurnInv, StatusWrite

\* CleanCancel is a step of the kind TurnStep says.
LEMMA TurnDCleanCancel ==
  ASSUME Agent!IInv, TurnInv, NEW t \in Adapters, Agent!CleanCancel(t)
  PROVE  TurnStep(t)
  <1>1. ASSUME NEW a \in Adapters, a # t PROVE Same(a)
    BY <1>1, AdapterFacts
    DEF Same, Fresh, Agent!HasSession, Agent!IInv, Agent!TypeOK, Agent!Threads,
        Agent!SessionInv, Agent!ThreadsInPlace, Agent!CleanCancel, Agent!Goto,
        Agent!Return, Agent!FailSteps, Agent!CleanSteps
  <1>2. agentPc[t] = "clean.cancel" /\ ~Fresh(t) /\ Agent!HasSession(t) /\ LocalInv(t)
    BY DrainHasSession DEF Agent!CleanCancel, TurnInv
  <1>3. ~Fresh(t)'
    BY <1>2, AdapterFacts
    DEF Fresh, Agent!IInv, Agent!TypeOK, Agent!Threads, Agent!CleanCancel,
        Agent!Goto, Agent!Return, Agent!FailSteps, Agent!CleanSteps
  <1>7. agentPc'[t] = "idle" /\ UNCHANGED << turn, chan, ev, life, agentWs >>
    BY <1>2
    DEF Agent!CleanCancel, Agent!Return, Agent!Goto, Agent!FailSteps,
        Agent!IInv, Agent!TypeOK, Agent!Threads, Agent!SessionInv,
        Agent!ThreadsInPlace
  <1>8. ~Agent!HasSession(t)'
    BY <1>2, <1>7, AdapterFacts
    DEF Agent!HasSession, Agent!CleanCancel, Agent!Return, Agent!Goto,
        Agent!IInv, Agent!TypeOK, Agent!Threads, Agent!SessionInv,
        Agent!AdaptersHeld, Agent!Starting
  <1>4. NoMore(t)
    BY <1>2, <1>3, <1>7, <1>8 DEF NoMore, LocalInv, Owes
  <1>5. status' = status
    BY DEF Agent!CleanCancel
  <1> QED BY <1>1, <1>4, <1>5, SameNoMore DEF TurnStep, TurnInv, StatusWrite

\* DrainSelect is a step of the kind TurnStep says.
LEMMA TurnDDrainSelect ==
  ASSUME Agent!IInv, TurnInv, NEW t \in Adapters, Agent!DrainSelect(t)
  PROVE  TurnStep(t)
  <1>1. ASSUME NEW a \in Adapters, a # t PROVE Same(a)
    BY <1>1, AdapterFacts
    DEF Same, Fresh, Agent!HasSession, Agent!IInv, Agent!TypeOK, Agent!Threads,
        Agent!SessionInv, Agent!ThreadsInPlace, Agent!DrainSelect, Agent!Goto
  <1>2. agentPc[t] = "drain.select" /\ ~Fresh(t) /\ Agent!HasSession(t) /\ LocalInv(t)
    BY DrainHasSession DEF Agent!DrainSelect, TurnInv
  <1>3. ~Fresh(t)'
    BY <1>2, AdapterFacts
    DEF Fresh, Agent!IInv, Agent!TypeOK, Agent!Threads, Agent!DrainSelect,
        Agent!Goto
  <1>4. UNCHANGED << turn, life, agentWs, then, status >>
          /\ chan[t] \in Seq(Agent!Events)
    BY DEF Agent!DrainSelect, Agent!IInv, Agent!TypeOK
  <1>5. NoMore(t)
    <2>1. CASE agentPc'[t] = "clean.delete" /\ chan' = chan /\ ev' = ev
      BY <1>2, <1>3, <1>4, <2>1
      DEF NoMore, LocalInv, Outstanding, Owes, OneTurn, Taken, Failing, NoDone,
          OneDone, Agent!FailSteps, Agent!CleanSteps
    <2>2. CASE agentPc'[t] = "drain.closed" /\ chan' = chan /\ ev' = ev
                 /\ chan[t] = << >>
      <3>1. NoDone(chan[t])
        BY <2>2 DEF NoDone
      <3> QED
        BY <1>2, <1>3, <1>4, <2>2, <3>1
        DEF NoMore, LocalInv, Outstanding, Owes, OneTurn, Taken, Failing,
            NoDone, OneDone, Agent!FailSteps, Agent!CleanSteps
    <2>3. CASE /\ agentPc'[t] = "drain.persist" /\ chan[t] # << >>
               /\ chan'[t] = Tail(chan[t]) /\ ev'[t] = Head(chan[t])
      <3> DEFINE s == chan[t]
      <3>1. /\ NoDone(s) => NoDone(Tail(s)) /\ Head(s) \notin DoneReasons
            /\ OneDone(s) => OneDone(Tail(s))
            /\ OneDone(s) /\ Head(s) \in DoneReasons => NoDone(Tail(s))
        BY <1>4, <2>3, DoneTail
      <3>2. (NoDone(chan[t])' <=> NoDone(Tail(s)))
              /\ (OneDone(chan[t])' <=> OneDone(Tail(s)))
        BY <2>3 DEF NoDone, OneDone
      <3>3. ~Failing(t)' /\ (Taken(t)' <=> Head(s) \in DoneReasons) /\ ~Taken(t)
        BY <1>2, <2>3 DEF Failing, Taken, Agent!FailSteps
      <3>4. OneTurn(t)
        BY <1>2 DEF LocalInv
      <3>5. Outstanding(t)' => Outstanding(t)
        BY <1>2, <1>4, <2>3, <3>1, <3>2, <3>3 DEF Outstanding, Agent!CleanSteps
      <3>6. OneTurn(t)'
        BY <1>4, <3>1, <3>2, <3>3, <3>4 DEF OneTurn
      <3> QED BY <1>2, <1>3, <1>4, <2>3, <3>5, <3>6 DEF NoMore, LocalInv, Owes
    <2> QED
      BY <2>1, <2>2, <2>3
      DEF Agent!DrainSelect, Agent!Goto, Agent!IInv, Agent!TypeOK, Agent!Threads
  <1> QED BY <1>1, <1>4, <1>5, SameNoMore DEF TurnStep, TurnInv, StatusWrite

\* DrainClosed is a step of the kind TurnStep says.
LEMMA TurnDDrainClosed ==
  ASSUME Agent!IInv, Agent!IInv', TurnInv, NEW t \in Adapters, Agent!DrainClosed(t)
  PROVE  TurnStep(t)
  <1>1. ASSUME NEW a \in Adapters, a # t PROVE Same(a)
    BY <1>1, AdapterFacts
    DEF Same, Fresh, Agent!HasSession, Agent!IInv, Agent!TypeOK, Agent!Threads,
        Agent!SessionInv, Agent!ThreadsInPlace, Agent!DrainClosed, Agent!Goto
  <1>2. agentPc[t] = "drain.closed" /\ ~Fresh(t) /\ Agent!HasSession(t) /\ LocalInv(t)
    BY DrainHasSession DEF Agent!DrainClosed, TurnInv
  <1>3. ~Fresh(t)'
    BY <1>2, AdapterFacts
    DEF Fresh, Agent!IInv, Agent!TypeOK, Agent!Threads, Agent!DrainClosed,
        Agent!Goto
  <1>4. UNCHANGED << turn, life, agentWs, chan, ev, status >>
          /\ agentPc'[t] \in {"fail.read", "clean.delete"}
        /\ life[t] \in {"stopped", "preempted"}
             /\ (agentPc'[t] = "fail.read" => then'[t] = "clean.delete")
    BY
    DEF Agent!DrainClosed, Agent!IInv, Agent!TypeOK, Agent!Goto,
        Agent!SessionInv, Agent!ClosedByPreemption, Agent!Closed, Agent!Threads
  <1>5. agentPc'[t] = "fail.read" => life[t] = "preempted"
    BY <1>4
    DEF Agent!IInv, Agent!SessionInv, Agent!ClosedByPreemption, Agent!FailSteps
  <1>6. turn[t] = 0 /\ NoDone(chan[t])
    BY <1>2, <1>4 DEF LocalInv, Agent!IInv, Agent!TypeOK
  <1>7. NoMore(t)
    BY <1>2, <1>3, <1>4, <1>5, <1>6
    DEF NoMore, LocalInv, Outstanding, Owes, OneTurn, Taken, Failing, NoDone,
        OneDone, Agent!FailSteps, Agent!CleanSteps
  <1> QED BY <1>1, <1>4, <1>7, SameNoMore DEF TurnStep, TurnInv, StatusWrite

\* DrainTerminal is a step of the kind TurnStep says.
LEMMA TurnDDrainTerminal ==
  ASSUME Agent!IInv, TurnInv, NEW t \in Adapters, Agent!DrainTerminal(t)
  PROVE  TurnStep(t) /\ (agentPc'[t] = "drain.select" => ~Owes(t)')
         /\ Owes(t) /\ (agentPc'[t] # "drain.select" => status' = status)
  <1>10. \A y \in Adapters : y # t => then'[y] = then[y]
    <2>1. then' = then \/ then' = [then EXCEPT ![t] = "drain.select"]
      BY Zenon DEF Agent!DrainTerminal
    <2> QED BY <2>1 DEF Agent!IInv, Agent!TypeOK, Agent!Threads
  <1>0. /\ \A y \in Agent!Threads : y # t => agentPc'[y] = agentPc[y]
        /\ UNCHANGED << ad, agentWs, turn, chan, ev, life >>
             /\ agentPc[t] = "drain.terminal"
    BY DEF Agent!DrainTerminal, Agent!Goto, Agent!IInv, Agent!TypeOK
  <1>1. ASSUME NEW a \in Adapters, a # t PROVE Same(a)
    BY <1>0, <1>1, <1>10, AdapterFacts
    DEF Same, Fresh, Agent!HasSession, Agent!Threads
  <1>2. agentPc[t] = "drain.terminal" /\ ~Fresh(t) /\ Agent!HasSession(t) /\ LocalInv(t)
    BY DrainHasSession DEF Agent!DrainTerminal, TurnInv
  <1>3. ~Fresh(t)'
    BY <1>2, AdapterFacts
    DEF Fresh, Agent!IInv, Agent!TypeOK, Agent!Threads, Agent!DrainTerminal,
        Agent!Goto
  <1>4. UNCHANGED << turn, life, agentWs, chan, ev >>
          /\ agentPc'[t] \in {"fail.read", "drain.select"}
        /\ (agentPc'[t] # "drain.select" => status' = status)
    BY
    DEF Agent!DrainTerminal, Agent!IInv, Agent!TypeOK, Agent!Goto, Agent!Threads
  <1>5. turn[t] = 0 /\ NoDone(chan[t]) /\ life[t] # "preempted" /\ Owes(t)
    BY <1>2
    DEF LocalInv, OneTurn, Taken, Agent!IInv, Agent!TypeOK, Owes, Outstanding
  <1>6. NoMore(t) /\ (agentPc'[t] = "drain.select" => ~Owes(t)')
    BY <1>2, <1>3, <1>4, <1>5
    DEF NoMore, LocalInv, Outstanding, Owes, OneTurn, Taken, Failing, NoDone,
        OneDone, Agent!FailSteps, Agent!CleanSteps
  <1>7. StatusWrite(t)
    <2>1. \/ status' = status
          \/ Agent!UpdateWorkspace(t, agentWs[t], "awaiting_input", TRUE,
               status[agentWs[t]] # "none")
      BY DEF Agent!DrainTerminal
    <2> QED BY <1>2, <2>1, UpdateStatus DEF StatusWrite
  <1> QED BY <1>1, <1>4, <1>5, <1>6, <1>7, SameNoMore DEF TurnStep, TurnInv

\* An adapter speaks during a turn.
LEMMA TurnTalk ==
  ASSUME Agent!IInv, TurnInv, NEW t \in Adapters, Agent!Talk(t)
  PROVE  \A a \in Adapters : NoMore(a)
  <1>1. ASSUME NEW a \in Adapters, a # t PROVE Same(a)
    BY <1>1, AdapterFacts
    DEF Same, Fresh, Agent!HasSession, Agent!IInv, Agent!TypeOK, Agent!Threads,
        Agent!Talk, Agent!Emit
  <1>2. PICK e \in Chatter : Agent!Emit(t, e)
    BY DEF Agent!Talk
  <1>3. /\ chan'[t] = Append(chan[t], e) /\ turn[t] > 0 /\ life[t] = "live"
             /\ chan[t] \in Seq(Agent!Events)
        /\ UNCHANGED << turn, life, agentWs, then, ev, agentPc, ad >>
    BY <1>2 DEF Agent!Talk, Agent!Emit, Agent!CanEmit, Agent!IInv, Agent!TypeOK
  <1>4. LocalInv(t) /\ ~Fresh(t)
    BY <1>3 DEF TurnInv, LocalInv, Outstanding
  <1>5. (NoDone(chan[t]) => NoDone(chan[t])') /\ (OneDone(chan[t]) => OneDone(chan[t])')
    <2>1. /\ NoDone(chan[t]) => NoDone(Append(chan[t], e))
          /\ OneDone(chan[t]) => OneDone(Append(chan[t], e))
      BY <1>3, DoneAppend, DoneFacts DEF Agent!Events
    <2> QED BY <1>3, <2>1 DEF NoDone, OneDone
  <1>6. Fresh(t)' <=> Fresh(t)
    BY <1>3 DEF Fresh
  <1>7. Agent!HasSession(t)' <=> Agent!HasSession(t)
    BY <1>3 DEF Agent!HasSession
  <1>8. NoMore(t)
    BY <1>3, <1>4, <1>5, <1>6, <1>7
    DEF NoMore, LocalInv, Owes, Outstanding, OneTurn, Taken, Failing
  <1> QED BY <1>1, <1>8, SameNoMore DEF TurnInv

\* An adapter ends its turn: what it owed in turn it now owes in its channel.
LEMMA TurnFinishTurn ==
  ASSUME Agent!IInv, TurnInv, NEW t \in Adapters, Agent!FinishTurn(t)
  PROVE  \A a \in Adapters : NoMore(a)
  <1>1. ASSUME NEW a \in Adapters, a # t PROVE Same(a)
    BY <1>1, AdapterFacts
    DEF Same, Fresh, Agent!HasSession, Agent!IInv, Agent!TypeOK, Agent!Threads,
        Agent!FinishTurn, Agent!Emit
  <1>2. PICK e \in DoneReasons : Agent!Emit(t, e)
    BY DEF Agent!FinishTurn
  <1>3. /\ chan'[t] = Append(chan[t], e) /\ turn[t] > 0 /\ life[t] = "live"
             /\ chan[t] \in Seq(Agent!Events)
        /\ turn'[t] = turn[t] - 1 /\ turn[t] \in Nat
        /\ UNCHANGED << life, agentWs, then, ev, agentPc, ad >>
    BY <1>2
    DEF Agent!FinishTurn, Agent!Emit, Agent!CanEmit, Agent!IInv, Agent!TypeOK
  <1>4. LocalInv(t) /\ ~Fresh(t)
    BY <1>3 DEF TurnInv, LocalInv, Outstanding
  <1>5. NoDone(chan[t]) => OneDone(chan[t])'
    <2>1. NoDone(chan[t]) => OneDone(Append(chan[t], e))
      BY <1>3, DoneAppend DEF Agent!Events
    <2> QED BY <1>3, <2>1 DEF OneDone
  <1>6. Fresh(t)' <=> Fresh(t)
    BY <1>3 DEF Fresh
  <1>7. Agent!HasSession(t)' <=> Agent!HasSession(t)
    BY <1>3 DEF Agent!HasSession
  <1>8. agentPc[t] # "drain.closed"
    BY <1>3
    DEF Agent!IInv, Agent!SessionInv, Agent!ClosedByPreemption, Agent!Closed
  <1>9. NoMore(t)
    BY <1>3, <1>4, <1>5, <1>6, <1>7, <1>8
    DEF NoMore, LocalInv, Owes, Outstanding, OneTurn, Taken, Failing
  <1> QED BY <1>1, <1>9, SameNoMore DEF TurnInv

\* A subprocess exits.
LEMMA TurnProcessExit ==
  ASSUME Agent!IInv, TurnInv, NEW t \in Adapters, Agent!ProcessExit(t)
  PROVE  \A a \in Adapters : NoMore(a)
  <1>1. ASSUME NEW a \in Adapters, a # t PROVE Same(a)
    BY <1>1, AdapterFacts
    DEF Same, Fresh, Agent!HasSession, Agent!IInv, Agent!TypeOK, Agent!Threads,
        Agent!ProcessExit
  <1>2. /\ turn'[t] = 0 /\ life[t] = "live" /\ life'[t] = "exited"
        /\ UNCHANGED << agentWs, then, ev, agentPc, ad, chan >>
    BY DEF Agent!ProcessExit, Agent!IInv, Agent!TypeOK
  <1>3. LocalInv(t)
    BY DEF TurnInv
  <1>4. Fresh(t)' => Fresh(t)
    BY <1>2 DEF Fresh
  <1>5. Agent!HasSession(t)' <=> Agent!HasSession(t)
    BY <1>2 DEF Agent!HasSession
  <1>6. NoMore(t)
    BY <1>2, <1>3, <1>4, <1>5
    DEF NoMore, LocalInv, Owes, Outstanding, OneTurn, Taken, Failing, NoDone,
        OneDone
  <1> QED BY <1>1, <1>6, SameNoMore DEF TurnInv

\* A request that holds an adapter holds one of its own workspace.
LEMMA HeldAdapter ==
  ASSUME Agent!IInv, TurnInv, NEW t \in Reqs, agentPc[t] \in Agent!HoldingSteps
  PROVE  ad[t] \in Adapters /\ agentWs[ad[t]] = agentWs[t] /\ life[ad[t]] # "free"
         /\ agentPc[t] # "idle" /\ agentWs[t] \in Workspaces
  BY
  DEF TurnInv, HeldWs, Agent!IInv, Agent!SessionInv, Agent!AdaptersHeld,
      Agent!ThreadsInPlace, Agent!HoldingSteps, Agent!Threads

\* An adapter in the session table of which no request has charge is not fresh.
LEMMA HeldNotFresh ==
  ASSUME RoomInv, TurnInv, OneAtATime, NEW t \in Reqs,
           agentPc[t] \in Agent!HoldingSteps,
         agentPc[t] \notin {"start.running", "start.register", "start.prompt"}
  PROVE  ~Fresh(ad[t])
  <1>1. SUFFICES ASSUME NEW u \in Reqs, ad[u] = ad[t],
                   agentPc[u] \in {"start.running", "start.register", "start.prompt"}
                 PROVE FALSE
    BY HeldAdapter DEF Fresh, RoomInv
  <1>2. agentWs[u] = agentWs[t] /\ u # t /\ agentPc[t] # "idle" /\ agentPc[u] # "idle"
    BY <1>1, HeldAdapter DEF RoomInv, Agent!HoldingSteps
  <1>3. pc[t] = "idle" /\ pc[u] = "idle"
    BY <1>2 DEF RoomInv, OneMethod
  <1> QED BY <1>2, <1>3 DEF OneAtATime, WorkOf, Idle

\* StartSpawn is a step of the kind TurnStep says.
LEMMA TurnRStartSpawn ==
  ASSUME Agent!IInv, TurnInv, NEW t \in Reqs, Agent!StartSpawn(t)
  PROVE  TurnStep(t)
  <1>1. status' = status
    BY DEF Agent!StartSpawn
  <1>2. CASE \E a \in Adapters :
               /\ life[a] = "free" /\ life' = [life EXCEPT ![a] = "live"]
               /\ ad' = [ad EXCEPT ![t] = a]
                    /\ agentWs' = [agentWs EXCEPT ![a] = agentWs[t]]
               /\ Agent!Goto(t, "start.running")
    <2>1. PICK b \in Adapters :
               /\ life[b] = "free" /\ life' = [life EXCEPT ![b] = "live"]
               /\ ad' = [ad EXCEPT ![t] = b]
                    /\ agentWs' = [agentWs EXCEPT ![b] = agentWs[t]]
               /\ Agent!Goto(t, "start.running")
      BY <1>2
    <2>2. ASSUME NEW a \in Adapters, a # b PROVE Same(a)
      BY <2>1, <2>2, AdapterFacts
      DEF Same, Fresh, Agent!HasSession, Agent!IInv, Agent!TypeOK,
          Agent!Threads, Agent!SessionInv, Agent!ThreadsInPlace,
          Agent!StartSpawn, Agent!Goto
    <2>3. Fresh(b) /\ LocalInv(b) /\ agentPc[b] = "idle" /\ \A u \in Reqs :
            Agent!Starting(u) => ad[u] # b
      BY <2>1
      DEF Fresh, TurnInv, Agent!IInv, Agent!SessionInv, Agent!FreeUnknown
    <2>4. UNCHANGED << turn, chan, ev, then >> /\ agentPc'[b] = "idle"
            /\ life'[b] = "live"
      BY <2>1, <2>3, AdapterFacts
      DEF Agent!StartSpawn, Agent!Goto, Agent!IInv, Agent!TypeOK, Agent!Threads
    <2>5. ~Agent!HasSession(b)'
      BY <2>1, <2>3, <2>4, AdapterFacts
      DEF Agent!HasSession, Agent!Starting, Agent!Goto, Agent!IInv,
          Agent!TypeOK, Agent!Threads
    <2>6. ~Outstanding(b)'
      BY <2>3, <2>4
      DEF LocalInv, Outstanding, Taken, Failing, NoDone, Agent!FailSteps
    <2>7. NoMore(b)
      BY <2>3, <2>4, <2>5, <2>6 DEF NoMore, LocalInv, Owes
    <2> QED BY <1>1, <2>2, <2>7, SameNoMore DEF TurnStep, TurnInv, StatusWrite
  <1>3. CASE UNCHANGED << life, ad, agentWs >>
               /\ (Agent!Goto(t, "fail.read") \/ Agent!Goto(t, "idle"))
    <2>1. ASSUME NEW a \in Adapters PROVE Same(a)
      BY <1>3, <2>1, AdapterFacts
      DEF Same, Fresh, Agent!HasSession, Agent!IInv, Agent!TypeOK,
          Agent!Threads, Agent!StartSpawn, Agent!Goto
    <2> QED BY <1>1, <2>1, SameNoMore DEF TurnStep, TurnInv, StatusWrite
  <1> QED BY <1>2, <1>3 DEF Agent!StartSpawn

\* StartRunning is a step of the kind TurnStep says.
LEMMA TurnRStartRunning ==
  ASSUME Agent!IInv, TurnInv, NEW t \in Reqs, Agent!StartRunning(t)
  PROVE  TurnStep(t)
  <1>1. PICK ok \in BOOLEAN :
          /\ Agent!UpdateWorkspace(t, agentWs[t], "running", Agent!CtxOK(t), ok)
          /\ IF ok THEN Agent!Goto(t, "start.register")
               /\ UNCHANGED << life, turn, chan, budget >>
             ELSE Agent!AdapterStop(ad[t], "stopped") /\ Agent!Goto(t, "idle")
    BY DEF Agent!StartRunning
  <1>2. /\ agentPc[t] = "start.running" /\ UNCHANGED << then, agentWs, ad, chan, ev >>
        /\ ad[t] \in Adapters /\ agentPc[ad[t]] = "idle"
    BY <1>1
    DEF Agent!StartRunning, Agent!AdapterStop, Agent!IInv, Agent!SessionInv,
        Agent!AdaptersHeld, Agent!HoldingSteps, Agent!Starting
  <1>3. StatusWrite(t)
    BY <1>1, <1>2, UpdateStatus DEF StatusWrite
  <1>4. ASSUME NEW a \in Adapters, ok \/ a # ad[t] PROVE Same(a)
    BY <1>1, <1>2, <1>4, AdapterFacts
    DEF Same, Fresh, Agent!HasSession, Agent!IInv, Agent!TypeOK, Agent!Threads,
        Agent!AdapterStop, Agent!Goto
  <1>5. ASSUME ~ok PROVE NoMore(ad[t])
    <2>1. LocalInv(ad[t]) /\ Fresh(ad[t])
      BY <1>2 DEF TurnInv, Fresh
    <2>2. turn'[ad[t]] = 0 /\ (life'[ad[t]] = life[ad[t]] \/ life'[ad[t]] = "stopped")
            /\ agentPc'[ad[t]] = "idle"
      BY <1>1, <1>2, <1>5, AdapterFacts
      DEF Agent!AdapterStop, Agent!Goto, Agent!IInv, Agent!TypeOK, Agent!Threads
    <2>3. ~Outstanding(ad[t])'
      BY <1>2, <2>1, <2>2
      DEF LocalInv, Outstanding, Taken, Failing, NoDone, Agent!FailSteps
    <2>4. ~Agent!HasSession(ad[t])'
      <3>1. \A u \in Reqs : Agent!Starting(u) /\ ad[u] = ad[t] => u = t
        BY <1>2
        DEF Agent!IInv, Agent!SessionInv, Agent!AdaptersHeld, Agent!Starting
      <3> QED
          BY <1>1, <1>2, <1>5, <2>2, <3>1, AdapterFacts
          DEF Agent!HasSession, Agent!Goto, Agent!Starting, Agent!IInv,
             Agent!TypeOK, Agent!Threads
    <2> QED BY <1>2, <2>1, <2>2, <2>3, <2>4 DEF NoMore, LocalInv, Owes
  <1> QED BY <1>2, <1>3, <1>4, <1>5, SameNoMore DEF TurnStep, TurnInv

\* StartRegister is a step of the kind TurnStep says.
LEMMA TurnRStartRegister ==
  ASSUME Agent!IInv, TurnInv, NEW t \in Reqs, Agent!StartRegister(t)
  PROVE  TurnStep(t)
  <1>1. PICK b \in Adapters : b = ad[t]
    BY
    DEF Agent!StartRegister, Agent!IInv, Agent!SessionInv, Agent!AdaptersHeld,
        Agent!HoldingSteps
  <1>2. /\ agentPc[t] = "start.register"
             /\ UNCHANGED << then, agentWs, life, turn, chan, ev, status >>
        /\ agentPc[b] = "idle"
    BY <1>1
    DEF Agent!StartRegister, Agent!IInv, Agent!SessionInv, Agent!AdaptersHeld,
        Agent!Starting
  <1>3. ASSUME NEW a \in Adapters, a # b PROVE Same(a)
    <2>1. CASE Agent!Goto(t, "start.prompt") /\ ad' = ad
      BY <1>1, <1>2, <1>3, <2>1, AdapterFacts
      DEF Same, Fresh, Agent!HasSession, Agent!IInv, Agent!TypeOK,
          Agent!Threads, Agent!Goto
    <2>2. CASE Agent!Goto(t, "start.preempt")
                 /\ ad' = [ad EXCEPT ![t] = sessions[agentWs[t]]]
      BY <1>1, <1>2, <1>3, <2>2, AdapterFacts
      DEF Same, Fresh, Agent!HasSession, Agent!IInv, Agent!TypeOK,
          Agent!Threads, Agent!Goto
    <2> QED BY <2>1, <2>2 DEF Agent!StartRegister
  <1>4. NoMore(b)
    <2>1. LocalInv(b) /\ Fresh(b)
      BY <1>1, <1>2 DEF TurnInv, Fresh
    <2>2. agentPc'[b] = "idle"
      BY <1>2, AdapterFacts
      DEF Agent!StartRegister, Agent!Goto, Agent!IInv, Agent!TypeOK,
          Agent!Threads
    <2>3. ~Outstanding(b) /\ ~Outstanding(b)'
      BY <1>2, <2>1, <2>2
      DEF LocalInv, Outstanding, Taken, Failing, NoDone, Agent!FailSteps
    <2>4. OneTurn(b)'
      BY <2>2, <2>3 DEF Outstanding, OneTurn, NoDone, OneDone, Agent!CleanSteps
    <2> QED BY <1>2, <2>1, <2>2, <2>3, <2>4 DEF NoMore, LocalInv, Owes
  <1> QED BY <1>2, <1>3, <1>4, SameNoMore DEF TurnStep, TurnInv, StatusWrite

\* StartPreempt is a step of the kind TurnStep says.
LEMMA TurnRStartPreempt ==
  ASSUME RoomInv, TurnInv, OneAtATime, NEW t \in Reqs, Agent!StartPreempt(t)
  PROVE  TurnStep(t)
  <1>1. PICK b \in Adapters : b = ad[t]
    BY HeldAdapter DEF Agent!StartPreempt, RoomInv, Agent!HoldingSteps
  <1>2. /\ agentPc[t] = "start.preempt"
             /\ UNCHANGED << then, agentWs, ad, chan, ev, status >>
        /\ ~Fresh(b) /\ LocalInv(b) /\ agentWs[b] = agentWs[t] /\ ~Owes(b)
    BY <1>1, HeldAdapter, HeldNotFresh
    DEF Agent!StartPreempt, Agent!AdapterStop, RoomInv, Agent!HoldingSteps,
        TurnInv, ReqPlace, Openings, Quiet
  <1>3. ASSUME NEW a \in Adapters, a # b PROVE Same(a)
    BY <1>1, <1>2, <1>3, AdapterFacts
    DEF Same, Fresh, Agent!HasSession, RoomInv, Agent!IInv, Agent!TypeOK,
        Agent!Threads, Agent!StartPreempt, Agent!AdapterStop, Agent!Goto
  <1>4. /\ turn'[b] = 0 /\ (life'[b] = life[b] \/ life'[b] = "preempted")
             /\ agentPc'[b] = agentPc[b]
        /\ life[b] # "free" /\ life'[b] # "live"
    BY <1>1, <1>2, HeldAdapter, AdapterFacts
    DEF Agent!StartPreempt, Agent!AdapterStop, Agent!Goto, RoomInv, Agent!IInv,
        Agent!TypeOK, Agent!Threads, Agent!Closed, Agent!HoldingSteps
  <1>5. LocalInv(b)'
    <2>1. ~Fresh(b)'
      BY <1>2, <1>4, AdapterFacts
      DEF Fresh, Agent!StartPreempt, Agent!Goto, RoomInv, Agent!IInv,
          Agent!TypeOK, Agent!Threads
    <2>2. Agent!HasSession(b)' => Agent!HasSession(b)
      BY <1>2, <1>4, AdapterFacts
      DEF Agent!HasSession, Agent!StartPreempt, Agent!Goto, RoomInv, Agent!IInv,
          Agent!TypeOK, Agent!Threads
    <2>3. Agent!HasSession(b) => OneTurn(b) /\ ~Outstanding(b)
      BY <1>2 DEF LocalInv, Owes
    <2>4. Agent!HasSession(b) => OneTurn(b)'
      BY <1>2, <1>4, <2>3
      DEF OneTurn, Outstanding, Taken, Failing, NoDone, OneDone
    <2> QED BY <1>2, <1>4, <2>1, <2>2, <2>4 DEF LocalInv, NoDone
  <1> QED
      BY <1>1, <1>2, <1>3, <1>5, SameNoMore
      DEF TurnStep, TurnInv, StatusWrite, Opens

\* StopKill is a step of the kind TurnStep says.
LEMMA TurnRStopKill ==
  ASSUME RoomInv, TurnInv, OneAtATime, NEW t \in Reqs, Agent!StopKill(t)
  PROVE  TurnStep(t)
  <1>1. PICK b \in Adapters : b = ad[t]
    BY HeldAdapter DEF Agent!StopKill, RoomInv, Agent!HoldingSteps
  <1>2. /\ agentPc[t] = "stop.kill"
             /\ UNCHANGED << then, agentWs, ad, chan, ev, status >>
        /\ ~Fresh(b) /\ LocalInv(b) /\ agentWs[b] = agentWs[t]
    BY <1>1, HeldAdapter, HeldNotFresh
    DEF Agent!StopKill, Agent!AdapterStop, RoomInv, Agent!HoldingSteps, TurnInv
  <1>3. ASSUME NEW a \in Adapters, a # b PROVE Same(a)
    BY <1>1, <1>2, <1>3, AdapterFacts
    DEF Same, Fresh, Agent!HasSession, RoomInv, Agent!IInv, Agent!TypeOK,
        Agent!Threads, Agent!StopKill, Agent!AdapterStop, Agent!Goto
  <1>4. /\ turn'[b] = 0 /\ (life'[b] = life[b] \/ life'[b] = "stopped")
             /\ agentPc'[b] = agentPc[b]
        /\ life[b] # "free"
    BY <1>1, <1>2, HeldAdapter, AdapterFacts
    DEF Agent!StopKill, Agent!AdapterStop, Agent!Goto, RoomInv, Agent!IInv,
        Agent!TypeOK, Agent!Threads, Agent!HoldingSteps
  <1>5. ~Fresh(b)'
    BY <1>2, <1>4, AdapterFacts
    DEF Fresh, Agent!StopKill, Agent!Goto, RoomInv, Agent!IInv, Agent!TypeOK,
        Agent!Threads
  <1>6. Agent!HasSession(b)' => Agent!HasSession(b)
    BY <1>2, <1>4, AdapterFacts
    DEF Agent!HasSession, Agent!StopKill, Agent!Goto, RoomInv, Agent!IInv,
        Agent!TypeOK, Agent!Threads
  <1>7. NoMore(b)
    BY <1>2, <1>4, <1>5, <1>6
    DEF NoMore, LocalInv, Owes, Outstanding, OneTurn, Taken, Failing, NoDone,
        OneDone
  <1> QED BY <1>2, <1>3, <1>7, SameNoMore DEF TurnStep, TurnInv, StatusWrite

\* SendPrompt opens one turn, on an adapter that owed nothing.
LEMMA SendEffect ==
  ASSUME Agent!IInv, NEW t, NEW b \in Adapters, NEW ok,
           Agent!AdapterSendPrompt(t, b, ok)
  PROVE  /\ UNCHANGED << life, chan, budget >>
         /\ \A a \in Adapters : a # b => turn'[a] = turn[a]
         /\ \/ ~ok /\ turn' = turn
            \/ /\ life[b] = "live" /\ (ok \/ ~Agent!CtxOK(t)
                    \/ "prompt" \in AgentFaults)
               /\ turn[b] = 0 => turn'[b] = 1
               /\ turn'[b] > 0
  BY DoneFacts DEF Agent!AdapterSendPrompt, Agent!IInv, Agent!TypeOK

\* StartPrompt is a step of the kind TurnStep says.
LEMMA TurnRStartPrompt ==
  ASSUME Agent!IInv, TurnInv, NEW t \in Reqs, Agent!StartPrompt(t)
  PROVE  TurnStep(t)
  <1>1. PICK b \in Adapters : b = ad[t]
    BY HeldAdapter DEF Agent!StartPrompt, Agent!HoldingSteps
  <1>2. /\ agentPc[t] = "start.prompt" /\ UNCHANGED << agentWs, ad, ev, status >>
        /\ Fresh(b) /\ LocalInv(b) /\ agentWs[b] = agentWs[t] /\ agentPc[b] = "idle"
    BY <1>1, HeldAdapter
    DEF Agent!StartPrompt, Agent!HoldingSteps, TurnInv, Fresh, Agent!IInv,
        Agent!SessionInv, Agent!AdaptersHeld, Agent!Starting
  <1>3. PICK ok \in BOOLEAN :
          /\ Agent!AdapterSendPrompt(t, b, ok)
          /\ IF ok THEN Agent!Goto(t, "start.persist") /\ UNCHANGED then
             ELSE Agent!Goto(t, "clean.delete")
               /\ then' = [then EXCEPT ![t] = "fail.read"]
    BY <1>1 DEF Agent!StartPrompt
  <1>4. /\ UNCHANGED << life, chan, budget >> /\ \A a \in Adapters : a # b
             => turn'[a] = turn[a]
        /\ \/ ~ok /\ turn' = turn
           \/ life[b] = "live" /\ (turn[b] = 0 => turn'[b] = 1)
    BY <1>3, SendEffect
  <1>5. \A a \in Adapters : agentPc'[a] = agentPc[a] /\ then'[a] = then[a]
    BY <1>3, AdapterFacts
    DEF Agent!Goto, Agent!IInv, Agent!TypeOK, Agent!Threads
  <1>6. \A u \in Reqs : u # t => agentPc'[u] = agentPc[u]
    BY <1>3 DEF Agent!Goto, Agent!IInv, Agent!TypeOK, Agent!Threads
  <1>7. agentPc'[t] = IF ok THEN "start.persist" ELSE "clean.delete"
    BY <1>3 DEF Agent!Goto, Agent!IInv, Agent!TypeOK, Agent!Threads
  <1>8. ASSUME NEW a \in Adapters, a # b PROVE Same(a)
    BY <1>1, <1>2, <1>4, <1>5, <1>6, <1>7, <1>8
    DEF Same, Fresh, Agent!HasSession
  <1>9. ~Outstanding(b) /\ turn[b] = 0 /\ life[b] # "free"
    BY <1>1, <1>2, HeldAdapter
    DEF LocalInv, Outstanding, Agent!IInv, Agent!TypeOK, Agent!HoldingSteps
  <1>10. \A u \in Reqs : Agent!Starting(u) /\ ad[u] = b => u = t
    BY <1>1, <1>2
    DEF Agent!IInv, Agent!SessionInv, Agent!AdaptersHeld, Agent!Starting
  <1>11. ~Fresh(b)'
    BY <1>1, <1>2, <1>4, <1>6, <1>7, <1>9, <1>10 DEF Fresh, Agent!Starting
  <1>12. CASE ok
    <2>1. turn'[b] = 1 /\ life[b] = "live"
      BY <1>4, <1>9, <1>12
    <2>2. OneTurn(b)'
      BY <1>2, <1>4, <1>5, <1>9, <2>1
      DEF Outstanding, OneTurn, Taken, Failing, NoDone, OneDone, Agent!FailSteps
    <2>3. LocalInv(b)'
      BY <1>2, <1>4, <1>5, <1>11, <2>1, <2>2 DEF LocalInv
    <2> QED
        BY <1>1, <1>2, <1>8, <2>3, SameNoMore
        DEF TurnStep, TurnInv, StatusWrite, Opens
  <1>13. CASE ~ok
    <2>1. ~Agent!HasSession(b)'
      BY <1>1, <1>2, <1>5, <1>6, <1>7, <1>10, <1>13
      DEF Agent!HasSession, Agent!Starting
    <2>2. NoMore(b)
      <3>1. turn'[b] > 0 => life'[b] = "live"
        BY <1>4, <1>9
      <3> QED BY <1>2, <1>4, <1>5, <1>11, <2>1, <3>1 DEF NoMore, LocalInv, Owes
    <2> QED BY <1>2, <1>8, <2>2, SameNoMore DEF TurnStep, TurnInv, StatusWrite
  <1> QED BY <1>12, <1>13

\* StartPersist is a step of the kind TurnStep says.
LEMMA TurnRStartPersist ==
  ASSUME Agent!IInv, TurnInv, NEW t \in Reqs, Agent!StartPersist(t)
  PROVE  TurnStep(t)
  <1>1. PICK b \in Adapters : b = ad[t]
    BY HeldAdapter DEF Agent!StartPersist, Agent!HoldingSteps
  <1>2. /\ agentPc[t] = "start.persist"
             /\ UNCHANGED << agentWs, ad, ev, status, turn, chan, life, then >>
        /\ LocalInv(b) /\ agentWs[b] = agentWs[t] /\ agentPc[b] = "idle"
             /\ Agent!HasSession(b)
    BY <1>1, HeldAdapter
    DEF Agent!StartPersist, Agent!HoldingSteps, TurnInv, Agent!IInv,
        Agent!SessionInv, Agent!AdaptersHeld, Agent!Starting, Agent!HasSession
  <1>3. /\ \A y \in Agent!Threads : y # t /\ y # b => agentPc'[y] = agentPc[y]
        /\ agentPc'[t] = "idle" /\ agentPc'[b] = "drain.select"
    BY <1>1, AdapterFacts
    DEF Agent!StartPersist, Agent!IInv, Agent!TypeOK, Agent!Threads
  <1>4. ASSUME NEW a \in Adapters, a # b PROVE Same(a)
    BY <1>1, <1>2, <1>3, <1>4, AdapterFacts
    DEF Same, Fresh, Agent!HasSession, Agent!Threads
  <1>5. Fresh(b)' => Fresh(b)
    BY <1>1, <1>2, <1>3, AdapterFacts DEF Fresh, Agent!Threads
  <1>6. NoMore(b)
    BY <1>2, <1>3, <1>5
    DEF NoMore, LocalInv, Owes, Outstanding, OneTurn, Taken, Failing, NoDone,
        OneDone, Agent!FailSteps, Agent!CleanSteps
  <1> QED BY <1>2, <1>4, <1>6, SameNoMore DEF TurnStep, TurnInv, StatusWrite

\* PromptSend is a step of the kind TurnStep says.
LEMMA TurnRPromptSend ==
  ASSUME RoomInv, TurnInv, OneAtATime, NEW t \in Reqs, Agent!PromptSend(t)
  PROVE  TurnStep(t)
  <1>1. PICK b \in Adapters : b = ad[t]
    BY HeldAdapter DEF Agent!PromptSend, RoomInv, Agent!HoldingSteps
  <1>2. /\ agentPc[t] = "prompt.send" /\ UNCHANGED << agentWs, ad, ev, status, then >>
        /\ ~Fresh(b) /\ LocalInv(b) /\ agentWs[b] = agentWs[t] /\ ~Owes(b)
    BY <1>1, HeldAdapter, HeldNotFresh
    DEF Agent!PromptSend, RoomInv, Agent!HoldingSteps, TurnInv, ReqPlace,
        Openings, Quiet
  <1>3. PICK ok \in BOOLEAN :
          /\ Agent!AdapterSendPrompt(t, b, ok)
          /\ agentPc' = [agentPc EXCEPT ![t] = IF ok THEN "prompt.persist" ELSE "fail.read"]
    BY <1>1 DEF Agent!PromptSend, Agent!Goto
  <1>4. /\ UNCHANGED << life, chan, budget >> /\ \A a \in Adapters : a # b
             => turn'[a] = turn[a]
        /\ \/ turn' = turn
           \/ life[b] = "live" /\ (turn[b] = 0 => turn'[b] = 1)
    BY <1>3, SendEffect DEF RoomInv
  <1>5. /\ \A y \in Agent!Threads : y # t => agentPc'[y] = agentPc[y]
        /\ agentPc'[t] \in {"prompt.persist", "fail.read"}
    BY <1>3 DEF RoomInv, Agent!IInv, Agent!TypeOK, Agent!Threads
  <1>6. ASSUME NEW a \in Adapters
        PROVE (Fresh(a)' => Fresh(a)) /\ (Agent!HasSession(a)' => Agent!HasSession(a))
            /\ agentPc'[a] = agentPc[a]
    BY <1>2, <1>4, <1>5, <1>6, AdapterFacts
    DEF Fresh, Agent!HasSession, Agent!Threads
  <1>7. ASSUME NEW a \in Adapters, a # b PROVE Same(a)
    BY <1>2, <1>4, <1>6, <1>7 DEF Same
  <1>8. LocalInv(b)'
    <2>1. CASE Agent!HasSession(b)
      <3>1. ~Outstanding(b) /\ turn[b] = 0 /\ OneTurn(b)
        BY <1>2, <2>1
        DEF Owes, Outstanding, LocalInv, RoomInv, Agent!IInv, Agent!TypeOK
      <3>2. OneTurn(b)'
        BY <1>2, <1>4, <1>6, <3>1
        DEF Outstanding, OneTurn, Taken, Failing, NoDone, OneDone,
            Agent!FailSteps
      <3> QED BY <1>2, <1>4, <1>6, <3>1, <3>2 DEF LocalInv, NoDone
    <2>2. CASE ~Agent!HasSession(b)
      BY <1>2, <1>4, <1>6, <2>2 DEF LocalInv, NoDone
    <2> QED BY <2>1, <2>2
  <1> QED
      BY <1>1, <1>2, <1>7, <1>8, SameNoMore
      DEF TurnStep, TurnInv, StatusWrite, Opens

-----------------------------------------------------------------------------
(* A drain that writes the status is the one that owed it.                 *)

\* Every step of a request or of a drain is of the kind TurnStep says.
LEMMA AgentTurn ==
  ASSUME RoomInv, OneAtATime, TurnInv, NEW x \in Agent!Threads, Agent!IInv',
         (x \in Reqs /\ Agent!Handle(x)) \/ (x \in Adapters /\ Agent!Drain(x))
  PROVE  TurnStep(x)
  <1>0. Agent!IInv
    BY DEF RoomInv
  <1>1. CASE x \in Reqs /\ Agent!Handle(x)
    <2>1. CASE Agent!Shared(x)
      BY <1>0, <1>1, <2>1, TurnRFailRead, TurnRFailWrite, TurnRCleanDelete,
         TurnRCleanCancel
      DEF Agent!Shared
    <2>2. CASE ~Agent!Shared(x)
      BY <1>0, <1>1, <2>2, TurnRStartLoad, TurnRStartSpawn, TurnRStartRunning,
         TurnRStartRegister, TurnRStartPreempt, TurnRStartPrompt,
         TurnRStartPersist, TurnRPromptLookup, TurnRPromptCheck,
         TurnRPromptRunning, TurnRPromptSend, TurnRPromptPersist,
         TurnRStopLookup, TurnRStopCancel, TurnRStopKill, TurnRStopRead,
         TurnRStopWrite, TurnRCompleteRead, TurnRCompleteWrite
      DEF Agent!Handle
    <2> QED BY <2>1, <2>2
  <1>2. CASE x \in Adapters /\ Agent!Drain(x)
    <2>1. CASE Agent!Shared(x)
      BY <1>0, <1>2, <2>1, TurnDFailRead, TurnDFailWrite, TurnDCleanDelete,
         TurnDCleanCancel
      DEF Agent!Shared
    <2>2. CASE ~Agent!Shared(x)
      BY <1>0, <1>2, <2>2, TurnDDrainSelect, TurnDDrainClosed,
         TurnDDrainPersist, TurnDDrainCostRead, TurnDDrainCostWrite,
         TurnDDrainTerminal
      DEF Agent!Drain
    <2> QED BY <2>1, <2>2
  <1> QED BY <1>1, <1>2

\* An agent that owes the end of a turn works on a workspace.
LEMMA OwesPlace ==
  ASSUME Agent!IInv, NEW a \in Adapters, Owes(a)
  PROVE  agentWs[a] \in Workspaces
  BY
  DEF Owes, Agent!HasSession, Agent!IInv, Agent!SessionInv,
      Agent!ThreadsInPlace, Agent!AdaptersHeld, Agent!Starting, Agent!Threads

\* No turn is open on a workspace whose status is none of Ending.
LEMMA QuietPlace ==
  ASSUME OwesInv, NEW w, status[w] \notin Ending
  PROVE  Quiet(w)
  BY DEF OwesInv, Quiet

\* A drain that writes a status owes it.
LEMMA WriterOwes ==
  ASSUME NEW x \in Adapters, agentPc[x] \in {"drain.terminal", "fail.write"}
  PROVE  Owes(x)
  BY DEF Owes, Agent!HasSession, Outstanding, Taken, Failing, Agent!FailSteps

\* It owes nothing any more once it has written.
LEMMA WriterOnly ==
  ASSUME Agent!IInv, TurnInv, NEW x \in Adapters, Agent!Drain(x), status' # status
  PROVE  ~Owes(x)' /\ agentPc[x] \in {"drain.terminal", "fail.write"}
  <1>1. CASE Agent!DrainTerminal(x)
    <2>1. agentPc[x] = "drain.terminal"
      BY <1>1 DEF Agent!DrainTerminal
    <2> QED BY <1>1, <2>1, TurnDDrainTerminal
  <1>2. CASE Agent!FailWrite(x)
    <2>1. agentPc[x] = "fail.write" /\ LocalInv(x) /\ Agent!HasSession(x)
      BY <1>2 DEF Agent!FailWrite, TurnInv, Agent!HasSession
    <2>2. /\ turn[x] = 0 /\ NoDone(chan[x])
          /\ life[x] = "preempted" => then[x] = "clean.delete"
      BY <2>1
      DEF LocalInv, OneTurn, Failing, Agent!FailSteps, Agent!IInv, Agent!TypeOK
    <2>3. /\ UNCHANGED << turn, chan, life >> /\ agentPc'[x] = then[x]
          /\ then[x] \in {"drain.select", "clean.delete"}
      BY <1>2, <2>1, AdapterFacts
      DEF Agent!FailWrite, Agent!Return, Agent!Goto, Agent!Threads, Agent!IInv,
          Agent!TypeOK, Agent!SessionInv, Agent!ThreadsInPlace, Agent!FailSteps
    <2> QED BY <2>1, <2>2, <2>3
        DEF Owes, Outstanding, Taken, Failing, NoDone, Agent!FailSteps,
            Agent!CleanSteps
  <1>3. CASE Agent!Drain(x) /\ ~Agent!DrainTerminal(x) /\ ~Agent!FailWrite(x)
    <2>1. status' = status
      BY <1>3, Zenon
      DEF Agent!Drain, Agent!Shared, Agent!DrainSelect, Agent!DrainClosed,
          Agent!DrainPersist, Agent!DrainCostRead, Agent!DrainCostWrite,
          Agent!FailRead, Agent!CleanDelete, Agent!CleanCancel
    <2> QED BY <2>1
  <1> QED BY <1>1, <1>2, <1>3

\* The agent manager writes a status that leaves no agent owing an end it may not write
LEMMA OwesKept ==
  ASSUME Agent!IInv, TurnInv, NEW x \in Agent!Threads, agentPc[x] # "idle", TurnStep(x),
         x \in Adapters /\ status' # status => ~Owes(x)'
  PROVE  OwesInv'
  <1>0. /\ agentWs[x] \in Workspaces /\ status \in [Workspaces -> Agent!Rows]
        /\ \A a \in Adapters : Owes(a) => agentWs[a] \in Workspaces
    BY OwesPlace
    DEF Agent!IInv, Agent!TypeOK, Agent!SessionInv, Agent!ThreadsInPlace
  <1>1. ASSUME NEW a \in Adapters, Opens(x, a)
        PROVE  Quiet(agentWs[x]) /\ status[agentWs[x]] = "running"
    BY <1>1 DEF Opens, TurnInv, ReqPlace, Openings
  <1>2. ASSUME NEW a \in Adapters, NEW b \in Adapters, Owes(a)', Owes(b)',
                 agentWs'[a] = agentWs'[b]
        PROVE  a = b
    <2>1. CASE Opens(x, a) \/ Opens(x, b)
      BY <1>1, <1>2, <2>1 DEF TurnStep, NoMore, Opens, Quiet
    <2>2. CASE NoMore(a) /\ NoMore(b)
      BY <1>2, <2>2 DEF NoMore, TurnInv, OwesInv
    <2> QED BY <2>1, <2>2 DEF TurnStep
  <1>3. ASSUME NEW a \in Adapters, Owes(a)'
        PROVE  status'[agentWs'[a]] \in Ending
    <2>1. CASE Opens(x, a)
      BY <1>1, <2>1 DEF Opens, Ending
    <2>2. CASE NoMore(a)
      <3>1. Owes(a) /\ agentWs'[a] = agentWs[a] /\ status[agentWs[a]] \in Ending
        BY <1>3, <2>2 DEF NoMore, TurnInv, OwesInv
      <3>2. CASE status' = status
        BY <3>1, <3>2
      <3>3. CASE status' # status
        <4>1. PICK s : /\ status' = [status EXCEPT ![agentWs[x]] = s]
                       /\ status[agentWs[x]] # "none"
                       /\ \/ s \in Ending
                          \/ agentPc[x] = "complete.write"
                          \/ agentPc[x] = "drain.terminal"
          BY <3>3 DEF TurnStep, StatusWrite, Ending
        <4>2. CASE agentWs[a] # agentWs[x]
          BY <1>0, <3>1, <4>1, <4>2
        <4>3. CASE agentWs[a] = agentWs[x] /\ s \in Ending
          BY <1>0, <3>1, <4>1, <4>3
        <4>4. CASE agentWs[a] = agentWs[x] /\ agentPc[x] = "complete.write"
          <5>1. x \in Reqs
            BY <4>4
            DEF Agent!Threads, Agent!IInv, Agent!SessionInv,
                Agent!ThreadsInPlace, Agent!DrainSteps, Agent!FailSteps,
                Agent!CleanSteps
          <5>2. status[agentWs[x]] \notin Ending
            BY <4>4, <5>1 DEF TurnInv, ReqPlace, Ready, Ending
          <5> QED BY <3>1, <4>4, <5>2
        <4>5. CASE agentWs[a] = agentWs[x] /\ agentPc[x] = "drain.terminal"
          <5>1. x \in Adapters
            BY <4>5
            DEF Agent!Threads, Agent!IInv, Agent!SessionInv,
                Agent!ThreadsInPlace, Agent!DrainSteps
          <5>2. a = x
            BY <3>1, <4>5, <5>1, WriterOwes DEF TurnInv, OwesInv
          <5> QED BY <1>3, <3>3, <5>1, <5>2
        <4> QED BY <4>1, <4>2, <4>3, <4>4, <4>5
      <3> QED BY <3>2, <3>3
    <2> QED BY <2>1, <2>2 DEF TurnStep
  <1> QED BY <1>2, <1>3 DEF OwesInv

-----------------------------------------------------------------------------
(* What the requests rely on.                                              *)

\* An adapter that was created stays so, and with its workspace.
AdaptersTied ==
  \A a \in Adapters : life[a] # "free" => life'[a] # "free" /\ agentWs'[a] = agentWs[a]

\* Adapter.Stop leaves the agent with its workspace.
LEMMA StopsTied ==
  ASSUME Agent!IInv, NEW a \in Adapters, NEW how \in {"stopped", "preempted"},
         Agent!AdapterStop(a, how), UNCHANGED agentWs
  PROVE  AdaptersTied
  BY DEF Agent!AdapterStop, AdaptersTied, Agent!IInv, Agent!TypeOK

\* So does every step of the agent manager.
LEMMA AgentTied ==
  ASSUME Agent!IInv, NEW x \in Agent!Threads,
         (x \in Reqs /\ Agent!Handle(x)) \/ (x \in Adapters /\ Agent!Drain(x))
  PROVE  AdaptersTied
  <1>1. CASE Agent!StartSpawn(x)
    BY <1>1, AdapterFacts
    DEF Agent!StartSpawn, AdaptersTied, Agent!IInv, Agent!TypeOK, Agent!Threads
  <1>2. CASE Agent!StartRunning(x)
    <2>1. UNCHANGED << agentWs, life >>
            \/ (Agent!AdapterStop(ad[x], "stopped") /\ UNCHANGED agentWs)
      BY <1>2 DEF Agent!StartRunning
    <2>2. ad[x] \in Adapters
      BY <1>2, AdapterFacts
      DEF Agent!StartRunning, Agent!IInv, Agent!SessionInv, Agent!AdaptersHeld,
          Agent!ThreadsInPlace, Agent!HoldingSteps, Agent!DrainSteps,
          Agent!FailSteps, Agent!CleanSteps, Agent!Threads
    <2> QED BY <2>1, <2>2, StopsTied DEF AdaptersTied
  <1>3. CASE Agent!StartPreempt(x) \/ Agent!StopKill(x)
    <2>1. (Agent!AdapterStop(ad[x], "stopped") \/ Agent!AdapterStop(ad[x], "preempted"))
            /\ UNCHANGED agentWs
      BY <1>3 DEF Agent!StartPreempt, Agent!StopKill
    <2>2. ad[x] \in Adapters
      BY <1>3, AdapterFacts
      DEF Agent!StartPreempt, Agent!StopKill, Agent!IInv, Agent!SessionInv,
          Agent!AdaptersHeld, Agent!ThreadsInPlace, Agent!HoldingSteps,
          Agent!DrainSteps, Agent!FailSteps, Agent!CleanSteps, Agent!Threads
    <2> QED BY <2>1, <2>2, StopsTied DEF AdaptersTied
  <1>4. CASE Agent!Handle(x) /\ ~Agent!StartSpawn(x) /\ ~Agent!StartRunning(x)
               /\ ~Agent!StartPreempt(x) /\ ~Agent!StopKill(x)
    <2>1. UNCHANGED << agentWs, life >>
      BY <1>4, Zenon
      DEF Agent!Handle, Agent!Shared, Agent!StartLoad, Agent!StartRegister,
          Agent!StartPrompt, Agent!StartPersist, Agent!PromptLookup,
          Agent!PromptCheck, Agent!PromptRunning, Agent!PromptSend,
          Agent!PromptPersist, Agent!StopLookup, Agent!StopCancel,
          Agent!StopRead, Agent!StopWrite, Agent!CompleteRead,
          Agent!CompleteWrite, Agent!FailRead, Agent!FailWrite,
          Agent!CleanDelete, Agent!CleanCancel, Agent!AdapterSendPrompt
    <2> QED BY <2>1 DEF AdaptersTied
  <1>5. CASE Agent!Drain(x)
    <2>1. UNCHANGED << agentWs, life >>
      BY <1>5, Zenon
      DEF Agent!Drain, Agent!Shared, Agent!DrainSelect, Agent!DrainClosed,
          Agent!DrainPersist, Agent!DrainCostRead, Agent!DrainCostWrite,
          Agent!DrainTerminal, Agent!FailRead, Agent!FailWrite,
          Agent!CleanDelete, Agent!CleanCancel
    <2> QED BY <2>1 DEF AdaptersTied
  <1> QED BY <1>1, <1>2, <1>3, <1>4, <1>5

\* The status of w changes only where a turn is open on w.
StatusFine(w) ==
  \/ status'[w] = status[w]
  \/ /\ status[w] \in Ending \ {"none"} /\ ~Quiet(w)
     /\ status'[w] \in {"failed", "awaiting_input"}

\* What a request relies on survives the steps that are not its own.
LEMMA PlacesKept ==
  ASSUME RoomInv, TurnInv, AdaptersTied, NEW u \in Reqs,
         UNCHANGED << agentPc[u], then[u], agentWs[u], ad[u], pc[u], ws[u] >>,
         agentPc[u] # "idle" =>
           /\ StatusFine(agentWs[u])
           /\ \A a \in Adapters : Owes(a)' /\ agentWs'[a] = agentWs[u] =>
                Owes(a) /\ agentWs[a] = agentWs[u],
         pc[u] # "idle" => StatusFine(ws[u])
  PROVE  HeldWs(u)' /\ ReqPlace(u)' /\ GitPlace(u)'
  <1>1. HeldWs(u)'
    <2>1. SUFFICES ASSUME agentPc[u] \in Agent!HoldingSteps
                   PROVE  agentWs'[ad'[u]] = agentWs'[u] /\ life'[ad'[u]] # "free"
      BY DEF HeldWs
    <2>2. ad[u] \in Adapters /\ agentWs[ad[u]] = agentWs[u] /\ life[ad[u]] # "free"
      BY <2>1
      DEF TurnInv, HeldWs, RoomInv, Agent!IInv, Agent!SessionInv,
          Agent!AdaptersHeld
    <2> QED BY <2>2 DEF AdaptersTied
  <1>2. ReqPlace(u)'
    <2>1. CASE agentPc[u] = "idle"
      BY <2>1
      DEF ReqPlace, TurnInv, Openings, Giving, Agent!FailSteps, Agent!CleanSteps
    <2>2. CASE agentPc[u] # "idle"
      <3>1. Quiet(agentWs[u]) => Quiet(agentWs[u])'
        BY <2>2 DEF Quiet
      <3>2. ReqPlace(u)
        BY DEF TurnInv
      <3>3. CASE status'[agentWs[u]] = status[agentWs[u]]
        BY <3>1, <3>2, <3>3 DEF ReqPlace, Giving
      <3>4. CASE /\ status[agentWs[u]] \in Ending \ {"none"} /\ ~Quiet(agentWs[u])
                 /\ status'[agentWs[u]] \in {"failed", "awaiting_input"}
        BY <3>1, <3>2, <3>4
        DEF ReqPlace, Giving, Ending, Ready, Openings, Settled
      <3> QED BY <2>2, <3>3, <3>4 DEF StatusFine
    <2> QED BY <2>1, <2>2
  <1>3. GitPlace(u)'
    <2>1. CASE pc[u] = "idle"
      BY <2>1 DEF GitPlace
    <2>2. CASE pc[u] # "idle"
      <3>2. GitPlace(u)
        BY DEF TurnInv
      <3>3. CASE status'[ws[u]] = status[ws[u]]
        BY <3>2, <3>3 DEF GitPlace
      <3>4. CASE /\ status[ws[u]] \in Ending \ {"none"} /\ ~Quiet(ws[u])
                 /\ status'[ws[u]] \in {"failed", "awaiting_input"}
        BY <3>2, <3>4 DEF GitPlace, Ending, Settled
      <3> QED BY <2>2, <3>3, <3>4 DEF StatusFine
    <2> QED BY <2>1, <2>2
  <1> QED BY <1>1, <1>2, <1>3

\* The requests that are not at work in this step of the agent manager keep their places.
LEMMA OthersKept ==
  ASSUME RoomInv, OneAtATime, TurnInv, AdaptersTied, NEW x \in Agent!Threads,
           NEW u \in Reqs, u # x,
         agentPc[x] # "idle", TurnStep(x), AgentMoves(x), then'[u] = then[u],
         UNCHANGED << pc, ws >>
  PROVE  HeldWs(u)' /\ ReqPlace(u)' /\ GitPlace(u)'
  <1>0. /\ agentWs[x] \in Workspaces /\ status \in [Workspaces -> Agent!Rows]
        /\ UNCHANGED << agentPc[u], then[u], agentWs[u], ad[u], pc[u], ws[u] >>
        /\ agentPc[u] # "idle" => agentWs[u] \in Workspaces
        /\ pc[u] # "idle" => ws[u] \in Workspaces
    BY
    DEF RoomInv, Agent!IInv, Agent!TypeOK, Agent!SessionInv,
        Agent!ThreadsInPlace, Heard, AgentMoves, Agent!Threads
  <1>1. CASE x \in Reqs
    <2>1. agentPc[u] # "idle" => agentWs[u] # agentWs[x]
      BY <1>1 DEF OneAtATime, WorkOf, Idle, RoomInv, OneMethod
    <2>2. pc[u] # "idle" => ws[u] # agentWs[x]
      BY <1>1 DEF OneAtATime, WorkOf, Idle, RoomInv, OneMethod
    <2>3. \A w \in Workspaces : w # agentWs[x] => status'[w] = status[w]
      BY <1>0 DEF TurnStep, StatusWrite
    <2>4. ASSUME agentPc[u] # "idle", NEW a \in Adapters, Owes(a)',
                   agentWs'[a] = agentWs[u]
          PROVE  Owes(a) /\ agentWs[a] = agentWs[u]
      BY <2>1, <2>4 DEF TurnStep, NoMore, Opens
    <2> QED BY <1>0, <2>1, <2>2, <2>3, <2>4, PlacesKept DEF StatusFine
  <1>2. CASE x \in Adapters
    <2>1. ASSUME NEW a \in Adapters, Owes(a)' PROVE Owes(a) /\ agentWs'[a] = agentWs[a]
      BY <1>2, <2>1, AdapterFacts DEF TurnStep, NoMore, Opens
    <2>2. ASSUME NEW w \in Workspaces PROVE StatusFine(w)
      <3>1. CASE status' = status
        BY <3>1 DEF StatusFine
      <3>2. CASE status' # status
        <4>1. agentPc[x] \notin {"start.running", "prompt.running", "stop.write",
                "complete.write"}
          BY <1>2
          DEF RoomInv, Agent!IInv, Agent!SessionInv, Agent!ThreadsInPlace,
              Agent!DrainSteps, Agent!FailSteps, Agent!CleanSteps
        <4>2. PICK s : /\ status' = [status EXCEPT ![agentWs[x]] = s]
                       /\ status[agentWs[x]] # "none"
                       /\ s \in {"failed", "awaiting_input"}
                       /\ agentPc[x] \in {"drain.terminal", "fail.write"}
          BY <3>2, <4>1 DEF TurnStep, StatusWrite
        <4>3. Owes(x)
          BY <1>2, <4>2, WriterOwes
        <4>4. ~Quiet(agentWs[x]) /\ status[agentWs[x]] \in Ending
          BY <1>2, <4>3 DEF Quiet, TurnInv, OwesInv
        <4> QED BY <1>0, <4>2, <4>4 DEF StatusFine
      <3> QED BY <3>1, <3>2
    <2> QED BY <1>0, <2>1, <2>2, PlacesKept
  <1> QED BY <1>1, <1>2 DEF Agent!Threads

\* What the checks of the agent manager say of the status they let through.
LEMMA AgentTransitions ==
  ASSUME NEW s \in Agent!Rows, s # "none"
  PROVE  /\ Agent!CanTransition(s, "running") => s \in Ready
         /\ Agent!CanTransition(s, "completed")
              => s \in Ready \cup {"resolving_conflict"}
         /\ Agent!CanTransition(s, "cancelled") => s \notin Settled
  BY
  DEF Agent!CanTransition, Agent!allowedTransitions, Agent!Rows,
      Agent!WorkspaceStatus, Ready, Settled

\* And those of the workspace manager.
LEMMA GitTransitions ==
  ASSUME NEW s \in Git!WorkspaceStatus
  PROVE  /\ Git!CanTransition(s, "preparing") => s \in {"queued", "idle"}
         /\ Git!CanTransition(s, "cancelled") => s \notin Settled
  BY DEF Git!CanTransition, Git!allowedTransitions, Git!WorkspaceStatus, Settled

\* A thread leaves where the others are to return to alone.
LEMMA ThenKept ==
  ASSUME Agent!IInv, NEW x \in Agent!Threads,
         (x \in Reqs /\ Agent!Handle(x)) \/ (x \in Adapters /\ Agent!Drain(x))
  PROVE  \A y \in Agent!Threads : y # x => then'[y] = then[y]
  <1>1. \/ then' = then
        \/ \E s : then' = [then EXCEPT ![x] = s]
    <2>1. CASE Agent!Shared(x)
      BY <2>1, Zenon
      DEF Agent!Shared, Agent!FailRead, Agent!FailWrite, Agent!CleanDelete,
          Agent!CleanCancel, Agent!Return
    <2>2. CASE Agent!Handle(x) /\ ~Agent!Shared(x)
      BY <2>2, Zenon
      DEF Agent!Handle, Agent!StartLoad, Agent!StartSpawn, Agent!StartRunning,
          Agent!StartRegister, Agent!StartPreempt, Agent!StartPrompt,
          Agent!StartPersist, Agent!PromptLookup, Agent!PromptCheck,
          Agent!PromptRunning, Agent!PromptSend, Agent!PromptPersist,
          Agent!StopLookup, Agent!StopCancel, Agent!StopKill, Agent!StopRead,
          Agent!StopWrite, Agent!CompleteRead, Agent!CompleteWrite
    <2>3. CASE Agent!Drain(x) /\ ~Agent!Shared(x)
      BY <2>3, Zenon
      DEF Agent!Drain, Agent!DrainSelect, Agent!DrainClosed, Agent!DrainPersist,
          Agent!DrainCostRead, Agent!DrainCostWrite, Agent!DrainTerminal
    <2> QED BY <2>1, <2>2, <2>3
  <1> QED BY <1>1 DEF Agent!IInv, Agent!TypeOK

\* Steps whose requests promise nothing
Plain == {"idle", "start.load", "start.persist", "prompt.lookup", "prompt.check",
          "prompt.persist", "stop.lookup", "stop.cancel", "stop.kill", "stop.read",
          "complete.read"}

\* A request at such a step relies on nothing.
LEMMA PlainPlace ==
  ASSUME NEW t \in Reqs, agentPc[t] \in Plain, then[t] = "idle"
  PROVE  ReqPlace(t)
  BY DEF ReqPlace, Plain, Openings, Giving, Agent!FailSteps, Agent!CleanSteps

\* A workspace where nothing is owed stays so.
LEMMA QuietStays ==
  ASSUME NEW x, NEW w, Quiet(w), TurnStep(x), \A a \in Adapters : ~Opens(x, a)
  PROVE  Quiet(w)'
  BY DEF Quiet, TurnStep, NoMore

\* A request that reads the status, and goes to where the status lets it.
LEMMA OwnReads ==
  ASSUME RoomInv, TurnInv, NEW t \in Reqs, TurnStep(t),
         Agent!StartLoad(t) \/ Agent!PromptCheck(t) \/ Agent!CompleteRead(t)
           \/ Agent!StopRead(t)
  PROVE  HeldWs(t)' /\ ReqPlace(t)'
  <1>1. /\ UNCHANGED << status, agentWs, ad, life, then >> /\ then[t] = "idle"
        /\ agentWs[t] \in Workspaces /\ status[agentWs[t]] \in Agent!Rows
        /\ agentPc[t] \in {"start.load", "prompt.check", "complete.read", "stop.read"}
    <2>1. /\ UNCHANGED << status, agentWs, ad, life, then >>
          /\ agentPc[t] \in {"start.load", "prompt.check", "complete.read", "stop.read"}
      BY Zenon
      DEF Agent!StartLoad, Agent!PromptCheck, Agent!CompleteRead, Agent!StopRead
    <2>2. then[t] = "idle"
      BY <2>1 DEF TurnInv, ReqPlace, Agent!CleanSteps
    <2>3. agentWs[t] \in Workspaces /\ status[agentWs[t]] \in Agent!Rows
      BY <2>1
      DEF RoomInv, Agent!IInv, Agent!TypeOK, Agent!SessionInv,
          Agent!ThreadsInPlace, Agent!Threads
    <2> QED BY <2>1, <2>2, <2>3
  <1>2. \/ agentPc'[t] = "idle"
        \/ /\ agentPc'[t] = "start.spawn" /\ status[agentWs[t]] \in Ready
        \/ /\ agentPc'[t] = "prompt.running" /\ status[agentWs[t]] \in Ready
                /\ agentPc[t] = "prompt.check"
        \/ /\ agentPc'[t] = "complete.write"
                /\ status[agentWs[t]] \in Ready \cup {"resolving_conflict"}
        \/ agentPc'[t] = "clean.delete"
        \/ /\ agentPc'[t] = "stop.write" /\ status[agentWs[t]] \notin Settled
    BY <1>1, AgentTransitions
    DEF Agent!StartLoad, Agent!PromptCheck, Agent!CompleteRead, Agent!StopRead,
        Agent!Goto, Agent!GetWorkspace, RoomInv, Agent!IInv, Agent!TypeOK,
        Agent!Threads
  <1>3. \A a \in Adapters : ~Opens(t, a)
    BY <1>1 DEF Opens
  <1>4. PICK w \in Workspaces : w = agentWs[t] /\ w = agentWs'[t]
    BY <1>1
  <1>5. status[w] \in Ready => Quiet(w)'
    BY <1>3, QuietPlace, QuietStays DEF Ready, Ending, TurnInv
  <1>6. HeldWs(t)'
    BY <1>1, <1>2 DEF TurnInv, HeldWs, Agent!HoldingSteps
  <1>7. ReqPlace(t)'
    BY <1>1, <1>2, <1>4, <1>5
    DEF ReqPlace, Openings, Giving, Agent!FailSteps, Agent!CleanSteps, Ready
  <1> QED BY <1>6, <1>7

\* What a session in the table is.
LEMMA TableFacts ==
  ASSUME Agent!IInv, NEW w \in Workspaces, sessions[w] # None
  PROVE  sessions[w] \in Adapters /\ agentWs[sessions[w]] = w
           /\ life[sessions[w]] # "free"
  BY
  DEF Agent!IInv, Agent!TypeOK, Agent!SessionInv, Agent!NoDeadSession,
      Agent!FreeUnknown

\* A request that looks the session table up.
LEMMA OwnLookups ==
  ASSUME RoomInv, TurnInv, NEW t \in Reqs, Agent!PromptLookup(t) \/ Agent!StopLookup(t)
  PROVE  HeldWs(t)' /\ ReqPlace(t)'
  <1>0. agentPc[t] \in {"prompt.lookup", "stop.lookup"}
    BY DEF Agent!PromptLookup, Agent!StopLookup
  <1>1. /\ UNCHANGED << status, agentWs, life, then >> /\ then[t] = "idle"
        /\ agentWs[t] \in Workspaces
        /\ ad'[t] = sessions[agentWs[t]]
        /\ agentPc'[t] \in Plain
        /\ sessions[agentWs[t]] = None => agentPc'[t] = "idle"
    <2>1. then[t] = "idle" /\ agentWs[t] \in Workspaces
      BY <1>0
      DEF RoomInv, Agent!IInv, Agent!SessionInv, Agent!ThreadsInPlace, TurnInv,
          ReqPlace, Agent!Threads, Agent!CleanSteps
    <2>2. ad'[t] = sessions[agentWs[t]] /\ UNCHANGED << status, agentWs, life, then >>
      BY
      DEF RoomInv, Agent!IInv, Agent!TypeOK, Agent!PromptLookup,
          Agent!StopLookup, Agent!Threads
    <2>3. agentPc'[t] = IF sessions[agentWs[t]] = None THEN "idle" ELSE
            IF agentPc[t] = "prompt.lookup" THEN "prompt.check" ELSE "stop.cancel"
      BY <1>0
      DEF RoomInv, Agent!IInv, Agent!TypeOK, Agent!PromptLookup,
          Agent!StopLookup, Agent!Threads, Agent!Goto
    <2> QED BY <2>1, <2>2, <2>3 DEF Plain
  <1>2. HeldWs(t)'
    BY <1>1, TableFacts DEF HeldWs, Agent!HoldingSteps, RoomInv
  <1>3. ReqPlace(t)'
    BY <1>1
    DEF ReqPlace, Plain, Openings, Giving, Agent!FailSteps, Agent!CleanSteps
  <1> QED BY <1>2, <1>3

\* StartAgent spawns the subprocess: no turn is open on the workspace.
LEMMA OwnStartSpawn ==
  ASSUME RoomInv, TurnInv, NEW t \in Reqs, TurnStep(t), Agent!StartSpawn(t)
  PROVE  HeldWs(t)' /\ ReqPlace(t)'
  <1>1. /\ UNCHANGED << status, then >> /\ then[t] = "idle" /\ agentWs'[t] = agentWs[t]
        /\ agentPc[t] = "start.spawn" /\ status[agentWs[t]] \in Ready
    <2>1. UNCHANGED << status, then >> /\ agentPc[t] = "start.spawn"
      BY DEF Agent!StartSpawn
    <2>2. then[t] = "idle" /\ status[agentWs[t]] \in Ready
      BY <2>1 DEF TurnInv, ReqPlace, Agent!CleanSteps
    <2>3. agentWs'[t] = agentWs[t]
      BY AdapterFacts
      DEF Agent!StartSpawn, RoomInv, Agent!IInv, Agent!TypeOK, Agent!Threads
    <2> QED BY <2>1, <2>2, <2>3
  <1>2. \/ /\ agentPc'[t] = "start.running" /\ ad'[t] \in Adapters
                /\ agentWs'[ad'[t]] = agentWs[t]
           /\ life'[ad'[t]] = "live"
        \/ agentPc'[t] \in {"fail.read", "idle"}
    BY AdapterFacts
    DEF Agent!StartSpawn, Agent!Goto, RoomInv, Agent!IInv, Agent!TypeOK,
        Agent!Threads
  <1>3. \A a \in Adapters : ~Opens(t, a)
    BY <1>1 DEF Opens
  <1>4. PICK w : w = agentWs[t] /\ w = agentWs'[t]
    BY <1>1
  <1>5. Quiet(w)'
    BY <1>1, <1>3, <1>4, QuietPlace, QuietStays DEF Ready, Ending, TurnInv
  <1>6. HeldWs(t)'
    BY <1>1, <1>2 DEF HeldWs, Agent!HoldingSteps
  <1>7. ReqPlace(t)'
    BY <1>1, <1>2, <1>4, <1>5
    DEF ReqPlace, Openings, Giving, Agent!FailSteps, Agent!CleanSteps, Ready
  <1> QED BY <1>6, <1>7

\* The request has written running, and goes on to its session.
LEMMA OwnRunning ==
  ASSUME RoomInv, TurnInv, NEW t \in Reqs, TurnStep(t), AgentMoves(t), AdaptersTied,
         Agent!StartRunning(t) \/ Agent!PromptRunning(t)
  PROVE  HeldWs(t)' /\ ReqPlace(t)'
  <1>1. /\ UNCHANGED << agentWs, ad, then >> /\ then[t] = "idle"
        /\ agentPc[t] \in {"start.running", "prompt.running"} /\ Quiet(agentWs[t])
        /\ agentWs[t] \in Workspaces /\ ad[t] \in Adapters /\ HeldWs(t)
    BY
    DEF RoomInv, Agent!IInv, Agent!TypeOK, TurnInv, ReqPlace,
        Agent!StartRunning, Agent!PromptRunning, Agent!CleanSteps,
        Agent!Threads, Agent!SessionInv, Agent!AdaptersHeld, Agent!HoldingSteps,
        Agent!ThreadsInPlace
  <1>2. \/ /\ agentPc'[t] \in {"start.register", "prompt.send"}
           /\ status'[agentWs[t]] = "running"
        \/ agentPc'[t] = "idle"
    BY <1>1
    DEF Agent!StartRunning, Agent!PromptRunning, Agent!UpdateWorkspace,
        Agent!Goto, RoomInv, Agent!IInv, Agent!TypeOK, Agent!Threads
  <1>3. \A a \in Adapters : ~Opens(t, a)
    BY <1>1 DEF Opens
  <1>4. PICK w : w = agentWs[t] /\ w = agentWs'[t]
    BY <1>1
  <1>5. Quiet(w)'
    BY <1>1, <1>3, <1>4, QuietStays
  <1>6. HeldWs(t)'
    BY <1>1, <1>2 DEF HeldWs, Agent!HoldingSteps, AdaptersTied
  <1>7. ReqPlace(t)'
    BY <1>1, <1>2, <1>4, <1>5
    DEF ReqPlace, Openings, Giving, Agent!FailSteps, Agent!CleanSteps, Ready
  <1> QED BY <1>6, <1>7

\* A request that has done what it promised.
LEMMA OwnPlain ==
  ASSUME RoomInv, TurnInv, NEW t \in Reqs, AdaptersTied,
         \/ Agent!StartPreempt(t) \/ Agent!StartPersist(t) \/ Agent!PromptPersist(t)
         \/ Agent!StopCancel(t) \/ Agent!StopKill(t) \/ Agent!StopWrite(t)
              \/ Agent!CompleteWrite(t)
  PROVE  HeldWs(t)' /\ ReqPlace(t)'
  <1>1. agentPc[t] \in {"start.preempt", "start.persist", "prompt.persist",
          "stop.cancel", "stop.kill", "stop.write", "complete.write"}
    BY
    DEF Agent!StartPreempt, Agent!StartPersist, Agent!PromptPersist,
        Agent!StopCancel, Agent!StopKill, Agent!StopWrite, Agent!CompleteWrite
  <1>2. then[t] = "idle" /\ HeldWs(t)
    BY <1>1 DEF TurnInv, ReqPlace, Agent!CleanSteps
  <1>3. UNCHANGED << then, agentWs, ad >>
    BY Zenon
    DEF Agent!StartPreempt, Agent!StartPersist, Agent!PromptPersist,
        Agent!StopCancel, Agent!StopKill, Agent!StopWrite, Agent!CompleteWrite
  <1>4. agentPc'[t] \in {"idle", "stop.read", "clean.delete"}
          \/ (agentPc'[t] = "stop.kill" /\ agentPc[t] = "stop.cancel")
    <2>1. CASE Agent!StartPersist(t)
      <3>1. ad[t] \in Adapters
        BY <2>1
        DEF RoomInv, Agent!IInv, Agent!SessionInv, Agent!AdaptersHeld,
            Agent!HoldingSteps, Agent!StartPersist
      <3> QED
          BY <2>1, <3>1, AdapterFacts
          DEF RoomInv, Agent!IInv, Agent!TypeOK, Agent!Threads,
             Agent!StartPersist
    <2>2. CASE ~Agent!StartPersist(t)
      BY <2>2
      DEF RoomInv, Agent!IInv, Agent!TypeOK, Agent!Threads, Agent!Goto,
          Agent!StartPreempt, Agent!PromptPersist, Agent!StopCancel,
          Agent!StopKill, Agent!StopWrite, Agent!CompleteWrite
    <2> QED BY <2>1, <2>2
  <1>5. HeldWs(t)'
    <2>1. agentPc[t] = "stop.cancel" => ad[t] \in Adapters
      BY
      DEF RoomInv, Agent!IInv, Agent!SessionInv, Agent!AdaptersHeld,
          Agent!HoldingSteps
    <2> QED BY <1>2, <1>3, <1>4, <2>1 DEF HeldWs, Agent!HoldingSteps, AdaptersTied
  <1>6. ReqPlace(t)'
    BY <1>2, <1>3, <1>4
    DEF ReqPlace, Openings, Giving, Agent!FailSteps, Agent!CleanSteps
  <1> QED BY <1>5, <1>6

\* StartAgent registers the agent, or stops the one it replaces.
LEMMA OwnRegister ==
  ASSUME RoomInv, TurnInv, NEW t \in Reqs, TurnStep(t), Agent!StartRegister(t)
  PROVE  HeldWs(t)' /\ ReqPlace(t)'
  <1>1. agentPc[t] = "start.register" /\ UNCHANGED << status, agentWs, life, then >>
    BY DEF Agent!StartRegister
  <1>2. /\ then[t] = "idle" /\ status[agentWs[t]] = "running" /\ Quiet(agentWs[t])
             /\ HeldWs(t)
        /\ agentWs[t] \in Workspaces
    BY <1>1
    DEF TurnInv, ReqPlace, Agent!CleanSteps, Openings, RoomInv, Agent!IInv,
        Agent!SessionInv, Agent!ThreadsInPlace, Agent!Threads
  <1>3. \/ agentPc'[t] = "start.prompt" /\ ad' = ad
        \/ agentPc'[t] = "start.preempt" /\ ad'[t] = sessions[agentWs[t]]
             /\ sessions[agentWs[t]] # None
    BY
    DEF Agent!StartRegister, Agent!Goto, RoomInv, Agent!IInv, Agent!TypeOK,
        Agent!Threads
  <1>4. \A a \in Adapters : ~Opens(t, a)
    BY <1>1 DEF Opens
  <1>5. PICK w : w = agentWs[t] /\ w = agentWs'[t]
    BY <1>1
  <1>6. Quiet(w)'
    BY <1>2, <1>4, <1>5, QuietStays
  <1>7. HeldWs(t)'
    BY <1>1, <1>2, <1>3, TableFacts DEF HeldWs, Agent!HoldingSteps, RoomInv
  <1>8. ReqPlace(t)'
    BY <1>1, <1>2, <1>3, <1>5, <1>6
    DEF ReqPlace, Openings, Giving, Agent!FailSteps, Agent!CleanSteps
  <1> QED BY <1>7, <1>8

\* StartAgent and SendPrompt have sent the prompt, or have failed.
LEMMA OwnSends ==
  ASSUME RoomInv, TurnInv, NEW t \in Reqs, Agent!StartPrompt(t) \/ Agent!PromptSend(t)
  PROVE  HeldWs(t)' /\ ReqPlace(t)'
  <1>1. agentPc[t] \in {"start.prompt", "prompt.send"}
          /\ UNCHANGED << status, agentWs, ad >>
    BY DEF Agent!StartPrompt, Agent!PromptSend
  <1>0. UNCHANGED life
    BY DEF Agent!StartPrompt, Agent!PromptSend, Agent!AdapterSendPrompt
  <1>2. then[t] = "idle" /\ status[agentWs[t]] = "running" /\ HeldWs(t)
    BY <1>1 DEF TurnInv, ReqPlace, Agent!CleanSteps, Openings
  <1>3. \/ agentPc'[t] \in {"start.persist", "prompt.persist", "fail.read"}
             /\ then' = then
        \/ agentPc'[t] = "clean.delete" /\ then'[t] = "fail.read"
    <2>1. CASE Agent!StartPrompt(t)
      BY <2>1
      DEF Agent!StartPrompt, Agent!Goto, RoomInv, Agent!IInv, Agent!TypeOK,
          Agent!Threads
    <2>2. CASE Agent!PromptSend(t)
      BY <2>2
      DEF Agent!PromptSend, Agent!Goto, RoomInv, Agent!IInv, Agent!TypeOK,
          Agent!Threads
    <2> QED BY <2>1, <2>2
  <1>4. HeldWs(t)'
    BY <1>0, <1>1, <1>2, <1>3 DEF HeldWs, Agent!HoldingSteps
  <1>5. ReqPlace(t)'
    BY <1>1, <1>2, <1>3
    DEF ReqPlace, Openings, Giving, Agent!FailSteps, Agent!CleanSteps
  <1> QED BY <1>4, <1>5

\* A request fails its workspace, or cleans up after itself.
LEMMA OwnShared ==
  ASSUME RoomInv, TurnInv, NEW t \in Reqs, Agent!Shared(t)
  PROVE  HeldWs(t)' /\ ReqPlace(t)'
  <1>1. /\ agentPc[t] \in {"fail.read", "fail.write", "clean.delete", "clean.cancel"}
             /\ agentWs' = agentWs
        /\ then[t] \in {"idle", "fail.read"}
        /\ agentPc[t] \in {"fail.read", "fail.write"} => then[t] = "idle"
        /\ Giving(t) => status[agentWs[t]] \in Ready \cup {"running", "failed"}
    BY
    DEF Agent!Shared, Agent!FailRead, Agent!FailWrite, Agent!CleanDelete,
        Agent!CleanCancel, RoomInv, Agent!IInv, Agent!SessionInv,
        Agent!ThreadsInPlace, TurnInv, ReqPlace, Agent!CleanSteps
  <1>2. CASE Agent!FailRead(t) \/ Agent!FailWrite(t)
    <2>1. agentPc[t] \in {"fail.read", "fail.write"} /\ then[t] = "idle"
      BY <1>1, <1>2 DEF Agent!FailRead, Agent!FailWrite
    <2>2. /\ agentPc' = [agentPc EXCEPT ![t] = then[t]]
               /\ then' = [then EXCEPT ![t] = "idle"]
          \/ /\ agentPc' = [agentPc EXCEPT ![t] = "fail.write"] /\ then' = then
                  /\ status' = status
             /\ agentPc[t] = "fail.read"
      BY <1>2, Zenon
      DEF Agent!FailRead, Agent!FailWrite, Agent!Return, Agent!Goto
    <2>3. /\ then'[t] = "idle" /\ agentPc'[t] \in {"fail.write", "idle"}
          /\ agentPc'[t] = "fail.write" => agentPc[t] = "fail.read" /\ status' = status
      BY <2>1, <2>2 DEF RoomInv, Agent!IInv, Agent!TypeOK, Agent!Threads
    <2> QED
        BY <1>1, <2>1, <2>3
        DEF HeldWs, ReqPlace, Openings, Giving, Agent!FailSteps,
           Agent!CleanSteps, Agent!HoldingSteps
  <1>4. CASE Agent!CleanDelete(t)
    <2>1. agentPc[t] = "clean.delete" /\ agentPc'[t] = "clean.cancel"
            /\ UNCHANGED << then, status >>
      BY <1>4
      DEF Agent!CleanDelete, Agent!Goto, RoomInv, Agent!IInv, Agent!TypeOK,
          Agent!Threads
    <2> QED
        BY <1>1, <2>1
        DEF HeldWs, ReqPlace, Openings, Giving, Agent!FailSteps,
           Agent!CleanSteps, Agent!HoldingSteps
  <1>5. CASE Agent!CleanCancel(t)
    <2>0. agentPc' = [agentPc EXCEPT ![t] = then[t]]
            /\ then' = [then EXCEPT ![t] = "idle"]
      BY <1>5, Zenon DEF Agent!CleanCancel, Agent!Return, Agent!Goto
    <2>1. agentPc[t] = "clean.cancel" /\ agentPc'[t] = then[t] /\ then'[t] = "idle"
      BY <1>5, <2>0
      DEF Agent!CleanCancel, RoomInv, Agent!IInv, Agent!TypeOK, Agent!Threads
    <2>2. status' = status
      BY <1>5 DEF Agent!CleanCancel
    <2> QED
        BY <1>1, <2>1, <2>2
        DEF HeldWs, ReqPlace, Openings, Giving, Agent!FailSteps,
           Agent!CleanSteps, Agent!HoldingSteps
  <1> QED BY <1>2, <1>4, <1>5 DEF Agent!Shared

\* A step of a request or of a drain in the agent manager preserves TurnInv.
LEMMA AgentThreadTurn ==
  ASSUME RoomInv, OneAtATime, TurnInv, NEW x \in Agent!Threads,
         (x \in Reqs /\ Agent!Handle(x)) \/ (x \in Adapters /\ Agent!Drain(x)),
         UNCHANGED << gitVars, handlerVars >>
  PROVE  TurnInv' /\ TurnStep(x)
  <1>1. AgentMoves(x) /\ Agent!IInv'
    BY AgentThread DEF RoomInv
  <1>2. TurnStep(x) /\ AdaptersTied
    BY <1>1, AgentTurn, AgentTied DEF RoomInv
  <1>3. agentPc[x] # "idle"
    BY <1>1 DEF AgentMoves
  <1>4. x \in Adapters /\ status' # status => ~Owes(x)'
    BY WriterOnly, AdapterFacts DEF RoomInv
  <1>5. OwesInv'
    BY <1>2, <1>3, <1>4, OwesKept DEF RoomInv
  <1>6. \A a \in Adapters : LocalInv(a)'
    BY <1>2 DEF TurnStep, NoMore, Opens
  <1>7. UNCHANGED << pc, ws >>
    BY DEF gitVars
  <1>8. ASSUME NEW u \in Reqs, u # x PROVE HeldWs(u)' /\ ReqPlace(u)' /\ GitPlace(u)'
    <2>1. then'[u] = then[u]
      BY <1>8, ThenKept DEF RoomInv, Agent!Threads
    <2> QED BY <1>1, <1>2, <1>3, <1>7, <1>8, <2>1, OthersKept
  <1>9. ASSUME x \in Reqs PROVE HeldWs(x)' /\ ReqPlace(x)' /\ GitPlace(x)'
    <2>1. Agent!Handle(x)
      BY <1>9, AdapterFacts
    <2>2. HeldWs(x)' /\ ReqPlace(x)'
      BY <1>1, <1>2, <1>9, <2>1, OwnReads, OwnLookups, OwnStartSpawn,
         OwnRunning, OwnPlain, OwnRegister, OwnSends, OwnShared
      DEF Agent!Handle
    <2>3. pc[x] = "idle"
      BY <1>3, <1>9 DEF RoomInv, OneMethod
    <2> QED BY <1>7, <2>2, <2>3 DEF GitPlace
  <1> QED BY <1>2, <1>5, <1>6, <1>8, <1>9 DEF TurnInv

\* A subprocess that speaks, ends its turn or exits
LEMMA ProcessTurn ==
  ASSUME RoomInv, TurnInv, NEW b \in Adapters, Agent!Agent(b)
  PROVE  (\A a \in Adapters : NoMore(a)) /\ AdaptersTied
  <1>1. /\ UNCHANGED << status, sessions, ctxDone, agentPc, then, agentWs, ad, ev >>
        /\ \A a \in Adapters : Agent!HasSession(a)' = Agent!HasSession(a)
    BY
    DEF Agent!Agent, Agent!Talk, Agent!FinishTurn, Agent!ProcessExit,
        Agent!Emit, Agent!HasSession, Agent!Starting
  <1>2. /\ \A a \in Adapters : a # b => UNCHANGED << turn[a], chan[a], life[a] >>
        /\ life[b] = "live" /\ life'[b] \in {"live", "exited"}
    BY
    DEF Agent!Agent, Agent!Talk, Agent!FinishTurn, Agent!ProcessExit,
        Agent!Emit, Agent!CanEmit, RoomInv, Agent!IInv, Agent!TypeOK
  <1>3. \A a \in Adapters : Fresh(a)' => Fresh(a)
    BY <1>1, <1>2 DEF Fresh
  <1>4. ASSUME NEW a \in Adapters, a # b PROVE NoMore(a)
    BY <1>1, <1>2, <1>3, <1>4, SameNoMore DEF Same, TurnInv
  <1>5. chan[b] \in Seq(Agent!Events) /\ LocalInv(b) /\ turn[b] \in 0..MaxTurns
          /\ MaxTurns \in Nat
    BY DoneFacts DEF RoomInv, Agent!IInv, Agent!TypeOK, TurnInv
  <1>6. NoMore(b)
    <2>1. CASE Agent!ProcessExit(b)
      <3>1. UNCHANGED chan /\ turn'[b] = 0 /\ life'[b] = "exited"
        BY <2>1 DEF Agent!ProcessExit, RoomInv, Agent!IInv, Agent!TypeOK
      <3> QED BY <1>1, <1>2, <1>3, <1>5, <3>1
          DEF NoMore, LocalInv, Owes, Outstanding, OneTurn, Taken, Failing,
              NoDone, OneDone
    <2>2. CASE Agent!Talk(b)
      <3>1. PICK e \in Chatter : Agent!Emit(b, e)
        BY <2>2 DEF Agent!Talk
      <3>2. /\ chan'[b] = Append(chan[b], e) /\ turn'[b] = turn[b] /\ turn[b] > 0
                 /\ life' = life
            /\ e \in Agent!Events /\ e \notin DoneReasons
        BY <2>2, <3>1, DoneFacts
        DEF Agent!Talk, Agent!Emit, Agent!CanEmit, Agent!Events, RoomInv,
            Agent!IInv, Agent!TypeOK
      <3>3. ~Fresh(b) /\ Outstanding(b)
        BY <1>5, <3>2 DEF LocalInv, Outstanding
      <3>4. /\ NoDone(chan[b]) => NoDone(chan[b])'
            /\ OneDone(chan[b]) => OneDone(chan[b])'
        <4>1. /\ NoDone(chan[b]) => NoDone(chan'[b])
              /\ OneDone(chan[b]) => OneDone(chan'[b])
          BY <1>5, <3>2, DoneAppend
        <4>2. PICK s, r : s = chan[b] /\ r = chan'[b]
          OBVIOUS
        <4> QED BY <4>1 DEF NoDone, OneDone
      <3>5. agentPc[b] = "drain.closed" => life[b] # "live"
        BY
        DEF RoomInv, Agent!IInv, Agent!SessionInv, Agent!ClosedByPreemption,
            Agent!Closed
      <3>6. LocalInv(b)'
        BY <1>1, <1>2, <1>3, <1>5, <3>2, <3>3, <3>4, <3>5
        DEF LocalInv, OneTurn, Taken, Failing
      <3> QED BY <1>1, <3>3, <3>6 DEF NoMore, Owes
    <2>3. CASE Agent!FinishTurn(b)
      <3>1. PICK e \in DoneReasons : Agent!Emit(b, e)
        BY <2>3 DEF Agent!FinishTurn
      <3>2. /\ chan'[b] = Append(chan[b], e) /\ turn'[b] = turn[b] - 1 /\ turn[b] > 0
                 /\ life' = life
            /\ e \in Agent!Events
        BY <2>3, <3>1, DoneFacts
        DEF Agent!FinishTurn, Agent!Emit, Agent!CanEmit, Agent!Events, RoomInv,
            Agent!IInv, Agent!TypeOK
      <3>3. ~Fresh(b) /\ Outstanding(b)
        BY <1>5, <3>2 DEF LocalInv, Outstanding
      <3>4. NoDone(chan[b]) => OneDone(chan[b])'
        <4>1. NoDone(chan[b]) => OneDone(chan'[b])
          BY <1>5, <3>2, DoneAppend
        <4> QED BY <4>1 DEF OneDone
      <3>5. agentPc[b] = "drain.closed" => life[b] # "live"
        BY
        DEF RoomInv, Agent!IInv, Agent!SessionInv, Agent!ClosedByPreemption,
            Agent!Closed
      <3>6. LocalInv(b)'
        <4>1. Agent!HasSession(b) =>
                /\ turn[b] = 1 /\ NoDone(chan[b]) /\ ~Taken(b) /\ ~Failing(b)
          BY <1>5, <3>2 DEF LocalInv, OneTurn
        <4>2. OneTurn(b)' \/ ~Agent!HasSession(b)
          BY <1>1, <1>2, <1>5, <3>2, <3>4, <4>1 DEF OneTurn, Taken, Failing
        <4> QED BY <1>1, <1>2, <1>3, <1>5, <3>2, <3>3, <3>5, <4>2 DEF LocalInv
      <3> QED BY <1>1, <3>3, <3>6 DEF NoMore, Owes
    <2> QED BY <2>1, <2>2, <2>3 DEF Agent!Agent
  <1>7. AdaptersTied
    BY <1>1, <1>2 DEF AdaptersTied
  <1> QED BY <1>4, <1>6, <1>7

\* Owing less on rows that stay is no harm.
LEMMA LessOwed ==
  ASSUME OwesInv, \A a \in Adapters : NoMore(a),
         \A a \in Adapters : Owes(a) => status'[agentWs[a]] \in Ending
  PROVE  OwesInv'
  BY DEF OwesInv, NoMore

\* A step of a request or of a drain in the agent manager preserves TurnInv.
LEMMA AgentTurnsOn ==
  ASSUME RoomInv, TurnInv, NEW b \in Adapters, Agent!Agent(b),
           UNCHANGED << gitVars, handlerVars >>
  PROVE  TurnInv'
  <1>1. (\A a \in Adapters : NoMore(a)) /\ AdaptersTied
    BY ProcessTurn
  <1>2. UNCHANGED << status, agentPc, then, agentWs, ad, pc, ws >>
    BY
    DEF gitVars, Agent!Agent, Agent!Talk, Agent!FinishTurn, Agent!ProcessExit,
        Agent!Emit
  <1>3. OwesInv'
    BY <1>1, <1>2, LessOwed DEF TurnInv, OwesInv
  <1>4. ASSUME NEW u \in Reqs PROVE HeldWs(u)' /\ ReqPlace(u)' /\ GitPlace(u)'
    BY <1>1, <1>2, PlacesKept DEF StatusFine, NoMore
  <1> QED BY <1>1, <1>3, <1>4 DEF TurnInv, NoMore

\* A request arrives in the agent manager.
LEMMA RequestTurn ==
  ASSUME RoomInv, TurnInv, NEW t \in Reqs, NEW w \in Workspaces,
         NEW op \in {"start", "prompt", "stop", "complete"}, Agent!Request(t, op, w),
         UNCHANGED gitVars
  PROVE  TurnInv'
  <1>1. /\ UNCHANGED << status, sessions, then, turn, chan, life, ev, pc, ws >>
             /\ agentPc[t] = "idle"
        /\ agentPc'[t] \in {"start.load", "prompt.lookup", "stop.lookup",
             "complete.read"}
        /\ \A y \in Agent!Threads : y # t =>
             agentPc'[y] = agentPc[y] /\ agentWs'[y] = agentWs[y] /\ ad'[y] = ad[y]
    BY
    DEF Agent!Request, Agent!Goto, RoomInv, Agent!IInv, Agent!TypeOK,
        Agent!Threads, gitVars
  <1>2. ASSUME NEW a \in Adapters PROVE NoMore(a)
    <2>1. Same(a)
      BY <1>1, AdapterFacts DEF Same, Fresh, Agent!HasSession, Agent!Threads
    <2> QED BY <2>1, SameNoMore DEF TurnInv
  <1>3. AdaptersTied
    BY <1>1, AdapterFacts DEF AdaptersTied, Agent!Threads
  <1>4. OwesInv'
    BY <1>1, <1>2, LessOwed DEF TurnInv, OwesInv
  <1>5. ASSUME NEW u \in Reqs, u # t PROVE HeldWs(u)' /\ ReqPlace(u)' /\ GitPlace(u)'
    <2>1. UNCHANGED << agentPc[u], then[u], agentWs[u], ad[u], pc[u], ws[u] >>
      BY <1>1, <1>5 DEF Agent!Threads
    <2> QED BY <1>1, <1>2, <1>3, <2>1, PlacesKept DEF StatusFine, NoMore
  <1>6. HeldWs(t)' /\ ReqPlace(t)' /\ GitPlace(t)'
    <2>1. then[t] = "idle" /\ GitPlace(t)
      BY <1>1 DEF TurnInv, ReqPlace, Agent!CleanSteps
    <2>2. HeldWs(t)' /\ GitPlace(t)'
      BY <1>1, <2>1 DEF HeldWs, Agent!HoldingSteps, GitPlace
    <2>3. ReqPlace(t)'
      BY <1>1, <2>1
      DEF ReqPlace, Openings, Giving, Agent!FailSteps, Agent!CleanSteps
    <2> QED BY <2>2, <2>3
  <1> QED BY <1>2, <1>4, <1>5, <1>6 DEF TurnInv, NoMore

\* A step outside the agent manager
LEMMA SideTurn ==
  ASSUME TurnInv, UNCHANGED agentVars,
         \A a \in Adapters : Owes(a) => status'[agentWs[a]] \in Ending,
         \A u \in Reqs : agentPc[u] # "idle"
           => status'[agentWs[u]] = status[agentWs[u]],
         \A u \in Reqs : GitPlace(u)'
  PROVE  TurnInv'
  <1>1. UNCHANGED << sessions, agentPc, then, agentWs, ad, life, turn, chan, ev >>
    BY DEF agentVars
  <1>2. ASSUME NEW a \in Adapters PROVE NoMore(a)
    <2>1. Same(a)
      BY <1>1 DEF Same, Fresh, Agent!HasSession
    <2> QED BY <2>1, SameNoMore DEF TurnInv
  <1>3. OwesInv'
    BY <1>2, LessOwed DEF TurnInv
  <1>4. ASSUME NEW u \in Reqs PROVE HeldWs(u)' /\ ReqPlace(u)'
    <2>1. HeldWs(u)'
      BY <1>1 DEF TurnInv, HeldWs
    <2>2. \A w : Quiet(w) => Quiet(w)'
      BY <1>1, <1>2 DEF Quiet, NoMore
    <2>0. ReqPlace(u) /\ agentPc'[u] = agentPc[u] /\ then'[u] = then[u]
            /\ agentWs'[u] = agentWs[u]
      BY <1>1 DEF TurnInv
    <2>3. CASE agentPc[u] = "idle"
      BY <2>0, <2>1, <2>3
      DEF ReqPlace, Openings, Giving, Agent!FailSteps, Agent!CleanSteps
    <2>4. CASE agentPc[u] # "idle"
      <3>1. PICK w : w = agentWs[u]
        OBVIOUS
      <3>2. w = agentWs'[u] /\ status'[w] = status[w] /\ (Quiet(w) => Quiet(w)')
        BY <2>0, <2>2, <2>4, <3>1
      <3> QED BY <2>0, <2>1, <3>1, <3>2 DEF ReqPlace, Giving
    <2> QED BY <2>1, <2>3, <2>4
  <1> QED BY <1>2, <1>3, <1>4 DEF TurnInv, NoMore

\* The other requests find the status as they left it.
LEMMA GitPlaceKept ==
  ASSUME TurnInv, NEW u \in Reqs, UNCHANGED << pc[u], ws[u] >>,
         pc[u] # "idle" => status'[ws[u]] = status[ws[u]]
  PROVE  GitPlace(u)'
  <1>1. GitPlace(u)
    BY DEF TurnInv
  <1> QED BY <1>1 DEF GitPlace

-----------------------------------------------------------------------------
(* The workspace manager and the handlers.                                 *)

\* Where the workspace manager writes the status, and what
GitWrites ==
  {<< "create.insert", "queued" >>, << "prepare.preparing", "preparing" >>,
   << "prepare.failed", "failed" >>, << "prepare.idle", "idle" >>,
   << "cancel.write", "cancelled" >>, << "merge.merged", "merged" >>,
   << "merge.conflict", "conflict_stuck" >>}

\* What a step of the workspace manager does to the status of its workspace.
GitWrite(t) ==
  \/ status' = status
  \/ \E s : status' = [status EXCEPT ![ws[t]] = s] /\ << pc[t], s >> \in GitWrites

\* CreateInsert writes the status of its own workspace, as GitWrite says.
LEMMA WriteCreateInsert ==
  ASSUME Git!TypeOK, NEW t \in Reqs, ws[t] \in Workspaces, GitPlace(t),
           Git!CreateInsert(t)
  PROVE  GitWrite(t) /\ GitPlace(t)'
  <1>1. pc'[t] \in {"prepare.load", "idle"}
    BY DEF Git!CreateInsert, Git!Goto, Git!TypeOK
  <1>2. GitWrite(t)
    BY DEF Git!CreateInsert, GitWrite, GitWrites
  <1> QED BY <1>1, <1>2 DEF GitPlace

\* PrepareLoad writes the status of its own workspace, as GitWrite says.
LEMMA WritePrepareLoad ==
  ASSUME Git!TypeOK, NEW t \in Reqs, ws[t] \in Workspaces, GitPlace(t),
           Git!PrepareLoad(t)
  PROVE  GitWrite(t) /\ GitPlace(t)'
  <1>1. UNCHANGED << status, ws >> /\ pc[t] = "prepare.load"
    BY DEF Git!PrepareLoad
  <1>2. GitPlace(t)'
    BY <1>1, GitTransitions
    DEF Git!PrepareLoad, Git!Goto, Git!TypeOK, GitPlace, Settled, Git!LoadRow,
        Git!Loaded, Git!Exists
  <1> QED BY <1>1, <1>2 DEF GitWrite

\* PreparePreparing writes the status of its own workspace, as GitWrite says.
LEMMA WritePreparePreparing ==
  ASSUME Git!TypeOK, NEW t \in Reqs, ws[t] \in Workspaces, GitPlace(t),
           Git!PreparePreparing(t)
  PROVE  GitWrite(t) /\ GitPlace(t)'
  <1>1. PICK s, step : Git!SetStatus(t, s, step) /\ << pc[t], s >> \in GitWrites
             /\ << pc[t], s, step >> \in {<< "prepare.preparing", "preparing",
                  "prepare.add" >>,
                  << "prepare.failed", "failed", "idle" >>,
                    << "cancel.write", "cancelled", "idle" >>}
    BY DEF Git!PreparePreparing, GitWrites
  <1>2. GitWrite(t)
    BY <1>1, SetStatusEffect DEF GitWrite
  <1>3. \/ pc'[t] = "idle"
        \/ pc'[t] = "prepare.add" /\ status'[ws[t]] = "preparing"
    BY <1>1, SetStatusEffect DEF Git!TypeOK
  <1>4. ws' = ws
    BY DEF Git!PreparePreparing
  <1> QED BY <1>2, <1>3, <1>4 DEF GitPlace

\* PrepareAdd writes the status of its own workspace, as GitWrite says.
LEMMA WritePrepareAdd ==
  ASSUME Git!TypeOK, NEW t \in Reqs, ws[t] \in Workspaces, GitPlace(t),
           Git!PrepareAdd(t)
  PROVE  GitWrite(t) /\ GitPlace(t)'
  <1>1. UNCHANGED << status, ws >> /\ pc[t] = "prepare.add"
    BY DEF Git!PrepareAdd
  <1>2. GitPlace(t)'
    BY <1>1, GitTransitions
    DEF Git!PrepareAdd, Git!Goto, Git!TypeOK, GitPlace, Settled
  <1> QED BY <1>1, <1>2 DEF GitWrite

\* PrepareFailed writes the status of its own workspace, as GitWrite says.
LEMMA WritePrepareFailed ==
  ASSUME Git!TypeOK, NEW t \in Reqs, ws[t] \in Workspaces, GitPlace(t),
           Git!PrepareFailed(t)
  PROVE  GitWrite(t) /\ GitPlace(t)'
  <1>1. PICK s, step : Git!SetStatus(t, s, step) /\ << pc[t], s >> \in GitWrites
             /\ << pc[t], s, step >> \in {<< "prepare.preparing", "preparing",
                  "prepare.add" >>,
                  << "prepare.failed", "failed", "idle" >>,
                    << "cancel.write", "cancelled", "idle" >>}
    BY DEF Git!PrepareFailed, GitWrites
  <1>2. GitWrite(t)
    BY <1>1, SetStatusEffect DEF GitWrite
  <1>3. \/ pc'[t] = "idle"
        \/ pc'[t] = "prepare.add" /\ status'[ws[t]] = "preparing"
    BY <1>1, SetStatusEffect DEF Git!TypeOK
  <1>4. ws' = ws
    BY DEF Git!PrepareFailed
  <1> QED BY <1>2, <1>3, <1>4 DEF GitPlace

\* PrepareBranch writes the status of its own workspace, as GitWrite says.
LEMMA WritePrepareBranch ==
  ASSUME Git!TypeOK, NEW t \in Reqs, ws[t] \in Workspaces, GitPlace(t),
           Git!PrepareBranch(t)
  PROVE  GitWrite(t) /\ GitPlace(t)'
  <1>1. UNCHANGED << status, ws >> /\ pc[t] = "prepare.branch"
    BY DEF Git!PrepareBranch
  <1>2. GitPlace(t)'
    BY <1>1, GitTransitions
    DEF Git!PrepareBranch, Git!Goto, Git!TypeOK, GitPlace, Settled
  <1> QED BY <1>1, <1>2 DEF GitWrite

\* PrepareIdle writes the status of its own workspace, as GitWrite says.
LEMMA WritePrepareIdle ==
  ASSUME Git!TypeOK, NEW t \in Reqs, ws[t] \in Workspaces, GitPlace(t),
           Git!PrepareIdle(t)
  PROVE  GitWrite(t) /\ GitPlace(t)'
  <1>1. pc'[t] = "idle"
    BY DEF Git!PrepareIdle, Git!Goto, Git!TypeOK
  <1>2. GitWrite(t)
    BY DEF Git!PrepareIdle, GitWrite, GitWrites
  <1> QED BY <1>1, <1>2 DEF GitPlace

\* CancelLoad writes the status of its own workspace, as GitWrite says.
LEMMA WriteCancelLoad ==
  ASSUME Git!TypeOK, NEW t \in Reqs, ws[t] \in Workspaces, GitPlace(t),
           Git!CancelLoad(t)
  PROVE  GitWrite(t) /\ GitPlace(t)'
  <1>1. UNCHANGED << status, ws >> /\ pc[t] = "cancel.load"
    BY DEF Git!CancelLoad
  <1>2. GitPlace(t)'
    BY <1>1, GitTransitions
    DEF Git!CancelLoad, Git!Goto, Git!TypeOK, GitPlace, Settled, Git!Loaded,
        Git!Exists
  <1> QED BY <1>1, <1>2 DEF GitWrite

\* CancelRemove writes the status of its own workspace, as GitWrite says.
LEMMA WriteCancelRemove ==
  ASSUME Git!TypeOK, NEW t \in Reqs, ws[t] \in Workspaces, GitPlace(t),
           Git!CancelRemove(t)
  PROVE  GitWrite(t) /\ GitPlace(t)'
  <1>1. UNCHANGED << status, ws >> /\ pc[t] = "cancel.remove"
    BY DEF Git!CancelRemove
  <1>2. GitPlace(t)'
    BY <1>1, GitTransitions
    DEF Git!CancelRemove, Git!Goto, Git!TypeOK, GitPlace, Settled
  <1> QED BY <1>1, <1>2 DEF GitWrite

\* CancelWrite writes the status of its own workspace, as GitWrite says.
LEMMA WriteCancelWrite ==
  ASSUME Git!TypeOK, NEW t \in Reqs, ws[t] \in Workspaces, GitPlace(t),
           Git!CancelWrite(t)
  PROVE  GitWrite(t) /\ GitPlace(t)'
  <1>1. PICK s, step : Git!SetStatus(t, s, step) /\ << pc[t], s >> \in GitWrites
             /\ << pc[t], s, step >> \in {<< "prepare.preparing", "preparing",
                  "prepare.add" >>,
                  << "prepare.failed", "failed", "idle" >>,
                    << "cancel.write", "cancelled", "idle" >>}
    BY DEF Git!CancelWrite, GitWrites
  <1>2. GitWrite(t)
    BY <1>1, SetStatusEffect DEF GitWrite
  <1>3. \/ pc'[t] = "idle"
        \/ pc'[t] = "prepare.add" /\ status'[ws[t]] = "preparing"
    BY <1>1, SetStatusEffect DEF Git!TypeOK
  <1>4. ws' = ws
    BY DEF Git!CancelWrite
  <1> QED BY <1>2, <1>3, <1>4 DEF GitPlace

\* MergeLoad writes the status of its own workspace, as GitWrite says.
LEMMA WriteMergeLoad ==
  ASSUME Git!TypeOK, NEW t \in Reqs, ws[t] \in Workspaces, GitPlace(t), Git!MergeLoad(t)
  PROVE  GitWrite(t) /\ GitPlace(t)'
  <1>1. UNCHANGED << status, ws >> /\ pc[t] = "merge.load"
    BY DEF Git!MergeLoad
  <1>2. GitPlace(t)'
    BY <1>1, GitTransitions
    DEF Git!MergeLoad, Git!Goto, Git!TypeOK, GitPlace, Settled, Git!Loaded,
        Git!Exists, Git!LoadRow
  <1> QED BY <1>1, <1>2 DEF GitWrite

\* MergeTree writes the status of its own workspace, as GitWrite says.
LEMMA WriteMergeTree ==
  ASSUME Git!TypeOK, NEW t \in Reqs, ws[t] \in Workspaces, GitPlace(t), Git!MergeTree(t)
  PROVE  GitWrite(t) /\ GitPlace(t)'
  <1>1. UNCHANGED << status, ws >> /\ pc[t] = "merge.tree"
    BY DEF Git!MergeTree
  <1>2. GitPlace(t)'
    BY <1>1, GitTransitions
    DEF Git!MergeTree, Git!Goto, Git!TypeOK, GitPlace, Settled
  <1> QED BY <1>1, <1>2 DEF GitWrite

\* UpdateBranch writes the status of its own workspace, as GitWrite says.
LEMMA WriteUpdateBranch ==
  ASSUME Git!TypeOK, NEW t \in Reqs, ws[t] \in Workspaces, GitPlace(t),
           Git!UpdateBranch(t)
  PROVE  GitWrite(t) /\ GitPlace(t)'
  <1>1. UNCHANGED << status, ws >> /\ pc[t] = "merge.update"
    BY DEF Git!UpdateBranch
  <1>2. GitPlace(t)'
    BY <1>1, GitTransitions
    DEF Git!UpdateBranch, Git!Goto, Git!TypeOK, GitPlace, Settled
  <1> QED BY <1>1, <1>2 DEF GitWrite

\* MergeMerged writes the status of its own workspace, as GitWrite says.
LEMMA WriteMergeMerged ==
  ASSUME Git!TypeOK, NEW t \in Reqs, ws[t] \in Workspaces, GitPlace(t),
           Git!MergeMerged(t)
  PROVE  GitWrite(t) /\ GitPlace(t)'
  <1>1. PICK s, n : Git!MergePersist(t, s, n)
               /\ (s # "none" => << pc[t], s >> \in GitWrites)
    BY Zenon DEF Git!MergeMerged, GitWrites
  <1>2. GitWrite(t) /\ pc'[t] = "idle"
    BY <1>1, MergePersistEffect DEF GitWrite, Git!TypeOK
  <1> QED BY <1>2 DEF GitPlace

\* MergeConflict writes the status of its own workspace, as GitWrite says.
LEMMA WriteMergeConflict ==
  ASSUME Git!TypeOK, NEW t \in Reqs, ws[t] \in Workspaces, GitPlace(t),
           Git!MergeConflict(t)
  PROVE  GitWrite(t) /\ GitPlace(t)'
  <1>1. PICK s, n : Git!MergePersist(t, s, n)
               /\ (s # "none" => << pc[t], s >> \in GitWrites)
    BY Zenon DEF Git!MergeConflict, GitWrites
  <1>2. GitWrite(t) /\ pc'[t] = "idle"
    BY <1>1, MergePersistEffect DEF GitWrite, Git!TypeOK
  <1> QED BY <1>2 DEF GitPlace

\* Every step of a request in the workspace manager is such a write.
LEMMA GitHandleWrites ==
  ASSUME RoomInv, TurnInv, NEW t \in Reqs, Git!Handle(t)
  PROVE  GitWrite(t) /\ GitPlace(t)'
  <1>1. Git!TypeOK /\ (pc[t] # "idle" => ws[t] \in Workspaces)
          /\ pc[t] \notin {"complete.load", "complete.write"} /\ GitPlace(t)
    BY DEF RoomInv, Heard, OneMethod, TurnInv
  <1>2. pc[t] # "idle"
    BY GitHandleMoves DEF GitMoves
  <1> QED
    BY <1>1, <1>2, WriteCreateInsert, WritePrepareLoad, WritePreparePreparing,
       WritePrepareAdd, WritePrepareFailed, WritePrepareBranch,
       WritePrepareIdle, WriteCancelLoad, WriteCancelRemove, WriteCancelWrite,
       WriteMergeLoad, WriteMergeTree, WriteUpdateBranch, WriteMergeMerged,
       WriteMergeConflict
    DEF Git!Handle, Git!CompleteLoad, Git!CompleteWrite

\* The other requests do not see what a request writes.
LEMMA OthersBlind ==
  ASSUME RoomInv, OneAtATime, NEW t \in Reqs, NEW u \in Reqs, u # t, pc[t] # "idle",
           GitWrite(t)
  PROVE  /\ agentPc[u] # "idle" => status'[agentWs[u]] = status[agentWs[u]]
         /\ pc[u] # "idle" => status'[ws[u]] = status[ws[u]]
  <1>1. /\ ~Idle(t) /\ ws[t] \in Workspaces /\ status \in [Workspaces -> Agent!Rows]
        /\ agentPc[u] # "idle" => agentWs[u] \in Workspaces /\ pc[u] = "idle"
        /\ pc[u] # "idle" => ws[u] \in Workspaces
    BY
    DEF Idle, RoomInv, OneMethod, Heard, Agent!IInv, Agent!TypeOK,
        Agent!SessionInv, Agent!ThreadsInPlace, Agent!Threads
  <1>2. ~Idle(u) => WorkOf(u) # ws[t]
    BY <1>1 DEF OneAtATime, WorkOf
  <1>3. \A w \in Workspaces : w # ws[t] => status'[w] = status[w]
    BY <1>1 DEF GitWrite
  <1> QED BY <1>1, <1>2, <1>3 DEF WorkOf, Idle

\* A write to a workspace where a turn is open leaves its status in Ending.
LEMMA WriteEnding ==
  ASSUME RoomInv, TurnInv, NEW t \in Reqs, pc[t] # "idle", GitWrite(t), GitPlace(t),
         pc[t] = "create.insert" => project \/ status' = status
  PROVE  \A a \in Adapters : Owes(a) => status'[agentWs[a]] \in Ending
  <1>1. SUFFICES ASSUME NEW a \in Adapters, Owes(a) PROVE status'[agentWs[a]] \in Ending
    OBVIOUS
  <1>2. /\ agentWs[a] \in Workspaces /\ status[agentWs[a]] \in Ending
        /\ ws[t] \in Workspaces /\ status \in [Workspaces -> Agent!Rows]
    BY <1>1, OwesPlace
    DEF RoomInv, Heard, Agent!IInv, Agent!TypeOK, TurnInv, OwesInv
  <1>3. CASE status' = status \/ agentWs[a] # ws[t]
    BY <1>2, <1>3 DEF GitWrite
  <1>4. CASE status' # status /\ agentWs[a] = ws[t]
    <2>1. PICK s : status' = [status EXCEPT ![ws[t]] = s]
                 /\ << pc[t], s >> \in GitWrites
      BY <1>4 DEF GitWrite
    <2>2. pc[t] # "create.insert"
      <3>1. Known(agentWs[a])
        BY <1>2 DEF RoomInv, Heard, Agent!Threads
      <3> QED BY <1>4, <3>1 DEF RoomInv, RowsStay
    <2>3. pc[t] \in {"prepare.failed", "cancel.write"}
      BY <1>2, <1>4, <2>1, <2>2 DEF GitPlace, GitWrites, Ending
    <2>4. s \in Ending
      BY <2>1, <2>3 DEF GitWrites, Ending
    <2> QED BY <1>2, <1>4, <2>1, <2>4
  <1> QED BY <1>3, <1>4

\* A step of a request in the workspace manager preserves TurnInv.
LEMMA GitStepTurn ==
  ASSUME RoomInv, OneAtATime, TurnInv, NEW t \in Reqs, GitStep(t)
  PROVE  TurnInv'
  <1>1. CASE pc[t] = "create.insert" /\ ~project
    <2>1. pc' = [pc EXCEPT ![t] = "idle"] /\ UNCHANGED << agentVars, status, ws >>
      BY <1>1 DEF GitStep, Git!Goto
    <2>2. pc \in [Reqs -> Git!Steps]
      BY DEF RoomInv, Git!TypeOK
    <2>3. ASSUME NEW u \in Reqs PROVE GitPlace(u)'
      <3>1. CASE u = t
        BY <2>1, <2>2, <3>1 DEF GitPlace
      <3>2. CASE u # t
        BY <2>1, <2>2, <3>2, GitPlaceKept
      <3> QED BY <3>1, <3>2
    <2> QED BY <2>1, <2>3, SideTurn DEF TurnInv, OwesInv
  <1>2. CASE Git!Handle(t) /\ (pc[t] = "create.insert" => project)
    <2>1. /\ GitWrite(t) /\ GitPlace(t)' /\ GitMoves(t)
               /\ UNCHANGED << agentVars, handlerVars >>
      BY <1>2, GitHandleWrites, GitHandleMoves DEF GitStep
    <2>2. pc[t] # "idle" /\ agentPc[t] = "idle" /\ GitPlace(t)
      BY <2>1 DEF GitMoves, RoomInv, OneMethod, TurnInv
    <2>3. \A a \in Adapters : Owes(a) => status'[agentWs[a]] \in Ending
      BY <1>2, <2>1, <2>2, WriteEnding
    <2>4. ASSUME NEW u \in Reqs, u # t PROVE GitPlace(u)'
      BY <2>1, <2>2, <2>4, OthersBlind, GitPlaceKept DEF GitMoves
    <2>5. \A u \in Reqs : agentPc[u] # "idle"
            => status'[agentWs[u]] = status[agentWs[u]]
      BY <2>1, <2>2, OthersBlind
    <2> QED BY <2>1, <2>3, <2>4, <2>5, SideTurn
  <1> QED BY <1>1, <1>2 DEF GitStep, RoomInv, HandlerTypes

\* A request enters a method of the workspace manager.
LEMMA GitEntersTurn ==
  ASSUME RoomInv, TurnInv, NEW t \in Reqs, NEW w \in Workspaces,
         NEW op \in {"create", "merge", "cancel"}, Git!Request(t, op, w),
           UNCHANGED agentVars
  PROVE  TurnInv'
  <1>1. /\ pc'[t] \in {"create.insert", "merge.load", "cancel.load"} /\ status' = status
        /\ \A u \in Reqs : u # t => pc'[u] = pc[u] /\ ws'[u] = ws[u]
    BY GitEnters DEF RoomInv
  <1>2. GitPlace(t)'
    BY <1>1 DEF GitPlace
  <1>3. \A u \in Reqs : GitPlace(u)'
    BY <1>1, <1>2, GitPlaceKept
  <1> QED BY <1>1, <1>3, SideTurn DEF TurnInv, OwesInv

\* Nothing of the managers moves.
LEMMA QuietTurn ==
  ASSUME TurnInv, UNCHANGED << agentVars, status, pc, ws >>
  PROVE  TurnInv'
  <1>1. \A u \in Reqs : GitPlace(u)'
    BY GitPlaceKept
  <1> QED BY <1>1, SideTurn DEF TurnInv, OwesInv

\* handleDeleteProject deletes the rows.
LEMMA DeleteRowsTurn ==
  ASSUME RoomInv, OneAtATime, TurnInv, NEW t \in Reqs, DeleteRows(t)
  PROVE  TurnInv'
  <1>1. /\ next[t] = "cleanup" /\ status' = [w \in Workspaces |-> "none"]
        /\ UNCHANGED << agentVars, pc, ws >>
    BY DEF DeleteRows
  <1>2. \A u \in Reqs : agentPc[u] = "idle" /\ pc[u] = "idle"
    BY <1>1 DEF OneAtATime, Idle, RoomInv, OneMethod
  <1>3. \A u \in Reqs : GitPlace(u)'
    BY <1>1, <1>2 DEF GitPlace
  <1>4. \A a \in Adapters : Owes(a) => status'[agentWs[a]] \in Ending
    BY <1>1, OwesPlace DEF RoomInv, Ending
  <1> QED BY <1>1, <1>2, <1>3, <1>4, SideTurn

\* The orphan sweep of a boot writes one row.
LEMMA SweepRowTurn ==
  ASSUME RoomInv, TurnInv, NEW w \in Workspaces, SweepRow(w)
  PROVE  TurnInv'
  <1>1. w \in sweep /\ status' = [status EXCEPT ![w] = "failed"]
          /\ UNCHANGED << agentVars, pc, ws >>
    BY DEF SweepRow, Agent!SweepRow, Git!SweepRow, agentVars
  <1>2. \A u \in Reqs : agentPc[u] = "idle" /\ pc[u] = "idle"
    BY <1>1 DEF RoomInv, Boot, Idle
  <1>3. \A u \in Reqs : GitPlace(u)'
    BY <1>1, <1>2 DEF GitPlace
  <1>4. \A a \in Adapters : Owes(a) => status'[agentWs[a]] \in Ending
    BY <1>1, OwesPlace
    DEF RoomInv, Ending, TurnInv, OwesInv, Agent!IInv, Agent!TypeOK
  <1> QED BY <1>1, <1>2, <1>3, <1>4, SideTurn

\* A server that has just been created has given no turns.
JustCreated ==
  /\ NoAgents
  /\ turn = [a \in Adapters |-> 0]
  /\ chan = [a \in Adapters |-> << >>]
  /\ then = [x \in Agent!Threads |-> "idle"]
  /\ pc = [t \in Reqs |-> "idle"]

\* TurnInv holds of a server that has just been created.
LEMMA NewTurn == JustCreated => TurnInv
  <1> SUFFICES ASSUME JustCreated PROVE TurnInv
    OBVIOUS
  <1> USE DEF JustCreated
  <1>1. \A a \in Adapters : ~Agent!HasSession(a) /\ ~Outstanding(a) /\ NoDone(chan[a])
          /\ turn[a] = 0 /\ agentPc[a] = "idle"
    BY
    DEF NoAgents, Agent!HasSession, Agent!Starting, Agent!Threads, Outstanding,
        NoDone, Taken, Failing, Agent!FailSteps
  <1>2. \A a \in Adapters : LocalInv(a)
    BY <1>1 DEF LocalInv
  <1>3. OwesInv
    BY <1>1 DEF OwesInv, Owes
  <1>4. ASSUME NEW t \in Reqs PROVE HeldWs(t) /\ ReqPlace(t) /\ GitPlace(t)
    <2>1. agentPc[t] = "idle" /\ then[t] = "idle" /\ pc[t] = "idle"
      BY DEF NoAgents, Agent!Threads
    <2>2. HeldWs(t) /\ GitPlace(t)
      BY <2>1 DEF HeldWs, GitPlace, Agent!HoldingSteps
    <2>3. ReqPlace(t)
      BY <2>1, PlainPlace DEF Plain
    <2> QED BY <2>2, <2>3
  <1> QED BY <1>2, <1>3, <1>4 DEF TurnInv

\* So it does after a crash.
LEMMA CrashTurn == ASSUME Crash PROVE TurnInv'
  <1>1. JustCreated'
    BY DEF Crash, Agent!Crash, Git!Crash, NoAgents, JustCreated
  <1> QED BY <1>1, NewTurn, PTL

\* And in the beginning.
LEMMA InitTurn == Init => TurnInv
  <1>1. Init => JustCreated
    BY
    DEF Init, NewAgent!Init, NewAgent!Threads, NoAgents, Agent!Threads,
        Git!Init, JustCreated
  <1> QED BY <1>1, NewTurn

\* Every step preserves TurnInv.
LEMMA NextTurn == ASSUME RoomInv, OneAtATime, TurnInv, [Next]_vars PROVE TurnInv'
  <1>1. ASSUME NEW t \in Reqs, NEW w \in Workspaces, NEW op \in Ops,
                 AgentRequest(t, op, w)
        PROVE  TurnInv'
    BY <1>1, RequestTurn DEF AgentRequest
  <1>2. ASSUME NEW t \in Reqs, NEW w \in Workspaces, NEW op \in Ops,
                 GitRequest(t, op, w)
        PROVE  TurnInv'
    BY <1>2, GitEntersTurn DEF GitRequest
  <1>3. ASSUME NEW t \in Reqs, NEW w \in Workspaces, StopRequest(t, w)
        PROVE  TurnInv'
    BY <1>3, RequestTurn DEF StopRequest
  <1>4. ASSUME NEW t \in Reqs, DeleteList(t) PROVE TurnInv'
    BY <1>4, QuietTurn DEF DeleteList, gitVars
  <1>5. ASSUME NEW t \in Reqs, Handle(t) PROVE TurnInv'
    <2>1. CASE AgentStep(t)
      BY <2>1, AgentThreadTurn DEF AgentStep, Agent!Threads
    <2>2. CASE GitStep(t)
      BY <2>2, GitStepTurn
    <2>3. CASE StopCancel(t)
      <3>1. agentWs[t] \in Workspaces /\ UNCHANGED agentVars
        BY <2>3 DEF StopCancel, RoomInv, OneMethod
      <3>2. CASE Git!Request(t, "cancel", agentWs[t])
        BY <3>1, <3>2, GitEntersTurn
      <3>3. CASE UNCHANGED << status, bootVars, gitVars >>
        BY <3>1, <3>3, QuietTurn DEF gitVars
      <3> QED BY <2>3, <3>2, <3>3 DEF StopCancel
    <2>4. CASE DeleteRows(t)
      BY <2>4, DeleteRowsTurn
    <2>5. CASE \E w \in Workspaces : DeleteCleanup(t, w)
      BY <2>5, QuietTurn DEF DeleteCleanup
    <2> QED BY <1>5, <2>1, <2>2, <2>3, <2>4, <2>5 DEF Handle
  <1>6. ASSUME NEW a \in Adapters, Background(a) PROVE TurnInv'
    BY <1>6, AgentThreadTurn, AgentTurnsOn DEF Background, Agent!Threads
  <1>7. CASE World
    BY <1>7, QuietTurn
    DEF World, Git!Commit, Git!Resolve, Git!UserCommit, Git!Tick
  <1>8. CASE UNCHANGED vars
    BY <1>8, QuietTurn DEF vars, gitVars
  <1> QED
      BY <1>1, <1>2, <1>3, <1>4, <1>5, <1>6, <1>7, <1>8, SweepRowTurn, CrashTurn
      DEF Next

\* While the requests at work are at different workspaces, an agent's turn ends once,
\* one agent of a workspace at most owes the end of a turn, and the status that this
\* end writes over is running, failed or cancelled: never one of a new turn of
\* another agent, nor one that a merge has written.
THEOREM TurnsInvariance == Spec /\ []OneAtATime => []TurnInv
  <1>1. Init => RoomInv /\ TurnInv
    BY InitRoom, InitTurn
  <1>2. RoomInv /\ TurnInv /\ OneAtATime /\ [Next]_vars => (RoomInv /\ TurnInv)'
    BY NextRoom, NextTurn
  <1> QED BY <1>1, <1>2, PTL DEF Spec

-----------------------------------------------------------------------------
(* The conflicts of a merge.                                               *)

\* The steps of Merge between the reading of the row and the last write.
Counting == {"merge.tree", "merge.update", "merge.merged", "merge.conflict"}

\* pending_merge and the conflicts that were reported go together.
CountInv ==
  /\ \A t \in Reqs : pc[t] # "idle" => t \notin gone
  /\ crashes = 0 =>
     /\ sweep = {}
     /\ \A w \in Workspaces :
          /\ /\ Exists(w) /\ status[w] \notin Settled
             /\ ~(\E t \in Reqs : pc[t] = "merge.conflict" /\ ws[t] = w)
             => pending[w] = tries[w]
          /\ status[w] = "conflict_stuck" => pending[w] = 0 /\ tries[w] = 3
          /\ status[w] = "merged" => pending[w] = 0 /\ tries[w] <= 2
          /\ ~Known(w) => pending[w] = 0 /\ tries[w] = 0
     /\ \A t \in Reqs : pc[t] \in Counting => row[t].pending = pending[ws[t]]
     /\ \A t \in Reqs : pc[t] = "merge.conflict" => tries[ws[t]] = pending[ws[t]] + 1

\* A write that comes to no settled status and leaves none
OpenWrite(w) ==
  \/ status' = status
  \/ \E s : /\ status' = [status EXCEPT ![w] = s] /\ s \notin Settled \cup {"none"}
            /\ status[w] \notin Settled /\ (status[w] = "none" => ~Known(w))

\* What a step of the workspace manager does to the counters.
CountStep(t) ==
  /\ pc'[t] # "idle" => t \notin gone'
  /\ \A u \in Reqs : u # t => row'[u] = row[u] /\ (u \in gone' <=> u \in gone)
  /\ pc'[t] \in Counting =>
       \/ pc[t] \in Counting /\ row'[t] = row[t]
       \/ row'[t].pending = pending[ws[t]]
  /\ \/ /\ UNCHANGED << pending, tries >> /\ OpenWrite(ws[t])
        /\ pc[t] # "merge.conflict" /\ pc'[t] # "merge.conflict"
     \/ /\ pc[t] = "merge.tree" /\ pc'[t] = "merge.conflict" /\ row' = row
        /\ tries' = [tries EXCEPT ![ws[t]] = IF @ < Git!MaxTries THEN @ + 1 ELSE @]
        /\ UNCHANGED << status, pending >>
     \/ /\ pc[t] = "merge.conflict" /\ pc'[t] = "idle" /\ tries' = tries
        /\ row[t].pending + 1 > 2
        /\ status' = [status EXCEPT ![ws[t]] = "conflict_stuck"]
        /\ pending' = [pending EXCEPT ![ws[t]] = 0]
     \/ /\ pc[t] = "merge.conflict" /\ pc'[t] = "idle" /\ UNCHANGED << tries, status >>
        /\ row[t].pending + 1 <= 2
        /\ pending' = [pending EXCEPT ![ws[t]] = row[t].pending + 1]
     \/ /\ pc[t] = "merge.merged" /\ pc'[t] = "idle" /\ tries' = tries
        /\ status' = [status EXCEPT ![ws[t]] = "merged"]
        /\ pending' = [pending EXCEPT ![ws[t]] = 0]

\* CreateInsert counts as CountStep says.
LEMMA CountCreateInsert ==
  ASSUME Git!TypeOK, NEW t \in Reqs, ws[t] \in Workspaces, t \notin gone, GitPlace(t),
         pc[t] = "create.insert" => ~Known(ws[t]) /\ status[ws[t]] = "none",
         Git!CreateInsert(t)
  PROVE  CountStep(t)
  <1>1. UNCHANGED << pending, tries, row >> /\ pc[t] = "create.insert"
          /\ pc'[t] \in {"prepare.load", "idle"}
    BY DEF Git!CreateInsert, Git!Goto, Git!TypeOK
  <1>2. (pc'[t] # "idle" => t \notin gone') /\ \A u \in Reqs : u # t
          => (u \in gone' <=> u \in gone)
    BY DEF Git!CreateInsert, Git!Goto, Git!TypeOK, Git!Statement
  <1>3. OpenWrite(ws[t])
    BY <1>1 DEF Git!CreateInsert, OpenWrite, Settled
  <1> QED BY <1>1, <1>2, <1>3 DEF CountStep, Counting

\* PrepareLoad counts as CountStep says.
LEMMA CountPrepareLoad ==
  ASSUME Git!TypeOK, NEW t \in Reqs, ws[t] \in Workspaces, t \notin gone, GitPlace(t),
         pc[t] = "create.insert" => ~Known(ws[t]) /\ status[ws[t]] = "none",
         Git!PrepareLoad(t)
  PROVE  CountStep(t)
  <1>1. UNCHANGED << status, pending, tries, gone >> /\ pc[t] = "prepare.load"
    BY DEF Git!PrepareLoad
  <1>2. /\ pc'[t] # "merge.conflict" /\ \A u \in Reqs : u # t => row'[u] = row[u]
        /\ pc'[t] \in Counting =>
             \/ pc[t] \in Counting /\ row'[t] = row[t]
             \/ row'[t].pending = pending[ws[t]]
    BY <1>1
    DEF Git!PrepareLoad, Git!Goto, Git!TypeOK, Counting, Git!LoadRow,
        Git!Loaded, Git!Exists
  <1> QED BY <1>1, <1>2 DEF CountStep, OpenWrite

\* PreparePreparing counts as CountStep says.
LEMMA CountPreparePreparing ==
  ASSUME Git!TypeOK, NEW t \in Reqs, ws[t] \in Workspaces, t \notin gone, GitPlace(t),
         pc[t] = "create.insert" => ~Known(ws[t]) /\ status[ws[t]] = "none",
         Git!PreparePreparing(t)
  PROVE  CountStep(t)
  <1>1. PICK s, step : Git!SetStatus(t, s, step)
             /\ << s, step >> \in {<< "preparing", "prepare.add" >>,
                  << "failed", "idle" >>, << "cancelled", "idle" >>}
    BY DEF Git!PreparePreparing
  <1>2. UNCHANGED << pending, tries, row >> /\ pc[t] = "prepare.preparing"
    BY DEF Git!PreparePreparing
  <1>3. /\ pc'[t] \in {"idle", "prepare.add"} /\ (pc'[t] # "idle" => t \notin gone')
        /\ \A u \in Reqs : u # t => (u \in gone' <=> u \in gone)
    BY <1>1, SetStatusEffect DEF Git!TypeOK
  <1>4. OpenWrite(ws[t])
    BY <1>1, <1>2, SetStatusEffect DEF OpenWrite, Settled, GitPlace, Git!Exists
  <1> QED BY <1>2, <1>3, <1>4 DEF CountStep, Counting

\* PrepareAdd counts as CountStep says.
LEMMA CountPrepareAdd ==
  ASSUME Git!TypeOK, NEW t \in Reqs, ws[t] \in Workspaces, t \notin gone, GitPlace(t),
         pc[t] = "create.insert" => ~Known(ws[t]) /\ status[ws[t]] = "none",
         Git!PrepareAdd(t)
  PROVE  CountStep(t)
  <1>1. UNCHANGED << status, pending, tries, gone >> /\ pc[t] = "prepare.add"
    BY DEF Git!PrepareAdd
  <1>2. /\ pc'[t] # "merge.conflict" /\ \A u \in Reqs : u # t => row'[u] = row[u]
        /\ pc'[t] \in Counting =>
             \/ pc[t] \in Counting /\ row'[t] = row[t]
             \/ row'[t].pending = pending[ws[t]]
    BY <1>1 DEF Git!PrepareAdd, Git!Goto, Git!TypeOK, Counting
  <1> QED BY <1>1, <1>2 DEF CountStep, OpenWrite

\* PrepareFailed counts as CountStep says.
LEMMA CountPrepareFailed ==
  ASSUME Git!TypeOK, NEW t \in Reqs, ws[t] \in Workspaces, t \notin gone, GitPlace(t),
         pc[t] = "create.insert" => ~Known(ws[t]) /\ status[ws[t]] = "none",
         Git!PrepareFailed(t)
  PROVE  CountStep(t)
  <1>1. PICK s, step : Git!SetStatus(t, s, step)
             /\ << s, step >> \in {<< "preparing", "prepare.add" >>,
                  << "failed", "idle" >>, << "cancelled", "idle" >>}
    BY DEF Git!PrepareFailed
  <1>2. UNCHANGED << pending, tries, row >> /\ pc[t] = "prepare.failed"
    BY DEF Git!PrepareFailed
  <1>3. /\ pc'[t] \in {"idle", "prepare.add"} /\ (pc'[t] # "idle" => t \notin gone')
        /\ \A u \in Reqs : u # t => (u \in gone' <=> u \in gone)
    BY <1>1, SetStatusEffect DEF Git!TypeOK
  <1>4. OpenWrite(ws[t])
    BY <1>1, <1>2, SetStatusEffect DEF OpenWrite, Settled, GitPlace, Git!Exists
  <1> QED BY <1>2, <1>3, <1>4 DEF CountStep, Counting

\* PrepareBranch counts as CountStep says.
LEMMA CountPrepareBranch ==
  ASSUME Git!TypeOK, NEW t \in Reqs, ws[t] \in Workspaces, t \notin gone, GitPlace(t),
         pc[t] = "create.insert" => ~Known(ws[t]) /\ status[ws[t]] = "none",
         Git!PrepareBranch(t)
  PROVE  CountStep(t)
  <1>1. UNCHANGED << status, pending, tries, gone >> /\ pc[t] = "prepare.branch"
    BY DEF Git!PrepareBranch
  <1>2. /\ pc'[t] # "merge.conflict" /\ \A u \in Reqs : u # t => row'[u] = row[u]
        /\ pc'[t] \in Counting =>
             \/ pc[t] \in Counting /\ row'[t] = row[t]
             \/ row'[t].pending = pending[ws[t]]
    BY <1>1 DEF Git!PrepareBranch, Git!Goto, Git!TypeOK, Counting
  <1> QED BY <1>1, <1>2 DEF CountStep, OpenWrite

\* PrepareIdle counts as CountStep says.
LEMMA CountPrepareIdle ==
  ASSUME Git!TypeOK, NEW t \in Reqs, ws[t] \in Workspaces, t \notin gone, GitPlace(t),
         pc[t] = "create.insert" => ~Known(ws[t]) /\ status[ws[t]] = "none",
         Git!PrepareIdle(t)
  PROVE  CountStep(t)
  <1>1. UNCHANGED << pending, tries, row >> /\ pc[t] = "prepare.idle" /\ pc'[t] = "idle"
    BY DEF Git!PrepareIdle, Git!Goto, Git!TypeOK
  <1>2. \A u \in Reqs : u # t => (u \in gone' <=> u \in gone)
    BY DEF Git!PrepareIdle, Git!UpdateRow, Git!Statement
  <1>3. OpenWrite(ws[t])
    BY <1>1 DEF Git!PrepareIdle, OpenWrite, Settled, GitPlace
  <1> QED BY <1>1, <1>2, <1>3 DEF CountStep, Counting

\* CancelLoad counts as CountStep says.
LEMMA CountCancelLoad ==
  ASSUME Git!TypeOK, NEW t \in Reqs, ws[t] \in Workspaces, t \notin gone, GitPlace(t),
         pc[t] = "create.insert" => ~Known(ws[t]) /\ status[ws[t]] = "none",
         Git!CancelLoad(t)
  PROVE  CountStep(t)
  <1>1. UNCHANGED << status, pending, tries, gone >> /\ pc[t] = "cancel.load"
    BY DEF Git!CancelLoad
  <1>2. /\ pc'[t] # "merge.conflict" /\ \A u \in Reqs : u # t => row'[u] = row[u]
        /\ pc'[t] \in Counting =>
             \/ pc[t] \in Counting /\ row'[t] = row[t]
             \/ row'[t].pending = pending[ws[t]]
    BY <1>1
    DEF Git!CancelLoad, Git!Goto, Git!TypeOK, Counting, Git!Loaded, Git!Exists
  <1> QED BY <1>1, <1>2 DEF CountStep, OpenWrite

\* CancelRemove counts as CountStep says.
LEMMA CountCancelRemove ==
  ASSUME Git!TypeOK, NEW t \in Reqs, ws[t] \in Workspaces, t \notin gone, GitPlace(t),
         pc[t] = "create.insert" => ~Known(ws[t]) /\ status[ws[t]] = "none",
         Git!CancelRemove(t)
  PROVE  CountStep(t)
  <1>1. UNCHANGED << status, pending, tries, gone >> /\ pc[t] = "cancel.remove"
    BY DEF Git!CancelRemove
  <1>2. /\ pc'[t] # "merge.conflict" /\ \A u \in Reqs : u # t => row'[u] = row[u]
        /\ pc'[t] \in Counting =>
             \/ pc[t] \in Counting /\ row'[t] = row[t]
             \/ row'[t].pending = pending[ws[t]]
    BY <1>1
    DEF Git!CancelRemove, Git!Goto, Git!TypeOK, Counting, Git!Loaded, Git!Exists
  <1> QED BY <1>1, <1>2 DEF CountStep, OpenWrite

\* CancelWrite counts as CountStep says.
LEMMA CountCancelWrite ==
  ASSUME Git!TypeOK, NEW t \in Reqs, ws[t] \in Workspaces, t \notin gone, GitPlace(t),
         pc[t] = "create.insert" => ~Known(ws[t]) /\ status[ws[t]] = "none",
         Git!CancelWrite(t)
  PROVE  CountStep(t)
  <1>1. PICK s, step : Git!SetStatus(t, s, step)
             /\ << s, step >> \in {<< "preparing", "prepare.add" >>,
                  << "failed", "idle" >>, << "cancelled", "idle" >>}
    BY DEF Git!CancelWrite
  <1>2. UNCHANGED << pending, tries, row >> /\ pc[t] = "cancel.write"
    BY DEF Git!CancelWrite
  <1>3. /\ pc'[t] \in {"idle", "prepare.add"} /\ (pc'[t] # "idle" => t \notin gone')
        /\ \A u \in Reqs : u # t => (u \in gone' <=> u \in gone)
    BY <1>1, SetStatusEffect DEF Git!TypeOK
  <1>4. OpenWrite(ws[t])
    BY <1>1, <1>2, SetStatusEffect DEF OpenWrite, Settled, GitPlace, Git!Exists
  <1> QED BY <1>2, <1>3, <1>4 DEF CountStep, Counting

\* MergeLoad counts as CountStep says.
LEMMA CountMergeLoad ==
  ASSUME Git!TypeOK, NEW t \in Reqs, ws[t] \in Workspaces, t \notin gone, GitPlace(t),
         pc[t] = "create.insert" => ~Known(ws[t]) /\ status[ws[t]] = "none",
         Git!MergeLoad(t)
  PROVE  CountStep(t)
  <1>1. UNCHANGED << status, pending, tries, gone >> /\ pc[t] = "merge.load"
    BY DEF Git!MergeLoad
  <1>2. /\ pc'[t] # "merge.conflict" /\ \A u \in Reqs : u # t => row'[u] = row[u]
        /\ pc'[t] \in Counting =>
             \/ pc[t] \in Counting /\ row'[t] = row[t]
             \/ row'[t].pending = pending[ws[t]]
    BY <1>1
    DEF Git!MergeLoad, Git!Goto, Git!TypeOK, Counting, Git!Loaded, Git!Exists,
        Git!LoadRow
  <1> QED BY <1>1, <1>2 DEF CountStep, OpenWrite

\* MergeTree counts as CountStep says.
LEMMA CountMergeTree ==
  ASSUME Git!TypeOK, NEW t \in Reqs, ws[t] \in Workspaces, t \notin gone, GitPlace(t),
         pc[t] = "create.insert" => ~Known(ws[t]) /\ status[ws[t]] = "none",
         Git!MergeTree(t)
  PROVE  CountStep(t)
  <1>1. UNCHANGED << status, pending, gone, row >> /\ pc[t] = "merge.tree"
    BY DEF Git!MergeTree
  <1>2. \/ pc'[t] \in {"merge.update", "idle"} /\ tries' = tries
        \/ /\ pc'[t] = "merge.conflict"
           /\ tries' = [tries EXCEPT ![ws[t]] = IF @ < Git!MaxTries THEN @ + 1 ELSE @]
    BY DEF Git!MergeTree, Git!Goto, Git!TypeOK
  <1> QED BY <1>1, <1>2 DEF CountStep, OpenWrite, Counting

\* UpdateBranch counts as CountStep says.
LEMMA CountUpdateBranch ==
  ASSUME Git!TypeOK, NEW t \in Reqs, ws[t] \in Workspaces, t \notin gone, GitPlace(t),
         pc[t] = "create.insert" => ~Known(ws[t]) /\ status[ws[t]] = "none",
         Git!UpdateBranch(t)
  PROVE  CountStep(t)
  <1>1. UNCHANGED << status, pending, tries, gone >> /\ pc[t] = "merge.update"
    BY DEF Git!UpdateBranch
  <1>2. /\ pc'[t] # "merge.conflict" /\ \A u \in Reqs : u # t => row'[u] = row[u]
        /\ pc'[t] \in Counting =>
             \/ pc[t] \in Counting /\ row'[t] = row[t]
             \/ row'[t].pending = pending[ws[t]]
    BY <1>1 DEF Git!UpdateBranch, Git!Goto, Git!TypeOK, Counting
  <1> QED BY <1>1, <1>2 DEF CountStep, OpenWrite

\* MergeMerged counts as CountStep says.
LEMMA CountMergeMerged ==
  ASSUME Git!TypeOK, NEW t \in Reqs, ws[t] \in Workspaces, t \notin gone, GitPlace(t),
         pc[t] = "create.insert" => ~Known(ws[t]) /\ status[ws[t]] = "none",
         Git!MergeMerged(t)
  PROVE  CountStep(t)
  <1>1. pc[t] = "merge.merged" /\ status[ws[t]] # "none"
    BY DEF Git!MergeMerged, GitPlace
  <1>2. \A s, n : Git!MergePersist(t, s, n) =>
          /\ pending' = [pending EXCEPT ![ws[t]] = n]
          /\ status' = IF s # "none" THEN [status EXCEPT ![ws[t]] = s] ELSE status
          /\ pc'[t] = "idle" /\ UNCHANGED << tries, row >>
          /\ \A u \in Reqs : u # t => (u \in gone' <=> u \in gone)
    BY <1>1
    DEF Git!MergePersist, Git!UpdateRow, Git!Exists, Git!Statement, Git!Goto,
        Git!TypeOK
  <1>3. Git!MergePersist(t, "merged", 0)
    BY DEF Git!MergeMerged
  <1> QED BY <1>1, <1>2, <1>3 DEF CountStep, Counting

\* MergeConflict counts as CountStep says.
LEMMA CountMergeConflict ==
  ASSUME Git!TypeOK, NEW t \in Reqs, ws[t] \in Workspaces, t \notin gone, GitPlace(t),
         pc[t] = "create.insert" => ~Known(ws[t]) /\ status[ws[t]] = "none",
         Git!MergeConflict(t)
  PROVE  CountStep(t)
  <1>1. pc[t] = "merge.conflict" /\ status[ws[t]] # "none"
    BY DEF Git!MergeConflict, GitPlace
  <1>2. \A s, n : Git!MergePersist(t, s, n) =>
          /\ pending' = [pending EXCEPT ![ws[t]] = n]
          /\ status' = IF s # "none" THEN [status EXCEPT ![ws[t]] = s] ELSE status
          /\ pc'[t] = "idle" /\ UNCHANGED << tries, row >>
          /\ \A u \in Reqs : u # t => (u \in gone' <=> u \in gone)
    BY <1>1
    DEF Git!MergePersist, Git!UpdateRow, Git!Exists, Git!Statement, Git!Goto,
        Git!TypeOK
  <1>3. row[t].pending \in 0..2
    BY NameFacts DEF Git!TypeOK
  <1>4. CASE row[t].pending + 1 > 2
    <2>1. Git!MergePersist(t, "conflict_stuck", 0)
      BY <1>4, NameFacts DEF Git!MergeConflict
    <2> QED BY <1>1, <1>2, <1>4, <2>1 DEF CountStep, Counting
  <1>5. CASE row[t].pending + 1 <= 2
    <2>1. Git!MergePersist(t, "none", row[t].pending + 1)
      BY <1>3, <1>5, NameFacts DEF Git!MergeConflict
    <2> QED BY <1>1, <1>2, <1>5, <2>1 DEF CountStep, Counting
  <1> QED BY <1>3, <1>4, <1>5

\* Every step of a request in the workspace manager counts so.
LEMMA GitHandleCounts ==
  ASSUME RoomInv, TurnInv, CountInv, NEW t \in Reqs, Git!Handle(t),
           pc[t] = "create.insert" => project
  PROVE  CountStep(t)
  <1>2. pc[t] # "idle"
    BY GitHandleMoves DEF GitMoves
  <1>1. Git!TypeOK /\ ws[t] \in Workspaces /\ t \notin gone
          /\ pc[t] \notin {"complete.load", "complete.write"} /\ GitPlace(t)
    BY <1>2 DEF RoomInv, Heard, OneMethod, TurnInv, CountInv
  <1>3. pc[t] = "create.insert" => ~Known(ws[t]) /\ status[ws[t]] = "none"
    BY <1>1 DEF RoomInv, RowsStay, Heard, Exists
  <1> QED
    BY <1>1, <1>2, <1>3, CountCreateInsert, CountPrepareLoad,
       CountPreparePreparing, CountPrepareAdd, CountPrepareFailed,
       CountPrepareBranch, CountPrepareIdle, CountCancelLoad, CountCancelRemove,
       CountCancelWrite, CountMergeLoad, CountMergeTree, CountUpdateBranch,
       CountMergeMerged, CountMergeConflict
    DEF Git!Handle, Git!CompleteLoad, Git!CompleteWrite

\* The types of the two counters.
LEMMA CountTypes ==
  ASSUME Git!TypeOK
  PROVE  /\ pending \in [Workspaces -> 0..2] /\ tries \in [Workspaces -> 0..4]
         /\ status \in [Workspaces -> Git!WorkspaceStatus \cup {"none"}]
         /\ \A t \in Reqs : row[t].pending \in 0..2
  BY NameFacts DEF Git!TypeOK

\* A step that counts nothing
LEMMA CountSide ==
  ASSUME RoomInv, CountInv, NEW w \in Workspaces, OpenWrite(w),
         UNCHANGED << pending, tries, born, sweep, crashes >>,
         \A t \in Reqs :
           \/ pc'[t] = pc[t] /\ row'[t] = row[t] /\ ws'[t] = ws[t]
           \/ pc[t] # "merge.conflict" /\ pc'[t] \notin Counting,
         \A t \in Reqs : pc'[t] # "idle" => t \notin gone'
  PROVE  CountInv'
  <1>1. \A v \in Workspaces : v # w => status'[v] = status[v]
    BY CountTypes DEF OpenWrite, RoomInv
  <1>2. \A v \in Workspaces :
          ~(\E t \in Reqs : pc'[t] = "merge.conflict" /\ ws'[t] = v) =>
          ~(\E t \in Reqs : pc[t] = "merge.conflict" /\ ws[t] = v)
    BY DEF Counting
  <1>3. ASSUME crashes = 0, NEW v \in Workspaces
        PROVE  /\ /\ Exists(v)' /\ status'[v] \notin Settled
                  /\ ~(\E t \in Reqs : pc'[t] = "merge.conflict" /\ ws'[t] = v)
                  => pending'[v] = tries'[v]
               /\ status'[v] = "conflict_stuck" => pending'[v] = 0 /\ tries'[v] = 3
               /\ status'[v] = "merged" => pending'[v] = 0 /\ tries'[v] <= 2
               /\ ~Known(v)' => pending'[v] = 0 /\ tries'[v] = 0
    <2>1. CASE status'[v] = status[v]
      BY <1>2, <1>3, <2>1 DEF CountInv, Exists, Known
    <2>2. CASE status'[v] # status[v]
      <3>1. /\ v = w /\ status'[w] \notin Settled \cup {"none"}
                 /\ status[w] \notin Settled
            /\ status[w] = "none" => ~Known(w)
        BY <1>1, <2>2, CountTypes DEF OpenWrite, RoomInv
      <3> QED BY <1>2, <1>3, <3>1 DEF CountInv, Exists, Known, Settled
    <2> QED BY <2>1, <2>2
  <1>4. ASSUME crashes = 0, NEW t \in Reqs, pc'[t] \in Counting
        PROVE  row'[t].pending = pending'[ws'[t]]
               /\ (pc'[t] = "merge.conflict" => tries'[ws'[t]] = pending'[ws'[t]] + 1)
    BY <1>4 DEF CountInv
  <1> QED BY <1>3, <1>4 DEF CountInv, Counting

\* Two requests in the workspace manager are at two workspaces.
LEMMA TwoWorkspaces ==
  ASSUME RoomInv, OneAtATime, NEW t \in Reqs, NEW u \in Reqs, u # t, pc[t] # "idle",
           pc[u] # "idle"
  PROVE  ws[u] # ws[t] /\ ws[u] \in Workspaces
  BY DEF OneAtATime, WorkOf, Idle, RoomInv, OneMethod, Heard

\* A step of a request in the workspace manager keeps the count.
LEMMA GitStepCount ==
  ASSUME RoomInv, OneAtATime, TurnInv, CountInv, NEW t \in Reqs, GitStep(t)
  PROVE  CountInv'
  <1>1. CASE pc[t] = "create.insert" /\ ~project
    <2>1. /\ pc' = [pc EXCEPT ![t] = "idle"]
          /\ UNCHANGED << status, sweep, crashes, pending, born, ws, row, gone, tries >>
      BY <1>1 DEF GitStep, Git!Goto, bootVars
    <2>2. \A u \in Reqs : pc'[u] = IF u = t THEN "idle" ELSE pc[u]
      BY <2>1 DEF RoomInv, Git!TypeOK
    <2>3. ws[t] \in Workspaces
      BY <1>1 DEF RoomInv, Heard
    <2>4. \A u \in Reqs : pc'[u] # "idle" => u \notin gone'
      BY <2>1, <2>2 DEF CountInv
    <2> QED BY <1>1, <2>1, <2>2, <2>3, <2>4, CountSide DEF OpenWrite, Counting
  <1>2. CASE Git!Handle(t) /\ (pc[t] = "create.insert" => project)
    <2>1. /\ CountStep(t) /\ GitMoves(t) /\ Git!TypeOK /\ Git!TypeOK'
      BY <1>2, GitHandleCounts, GitHandleMoves DEF RoomInv
    <2>2. /\ pc[t] # "idle" /\ ws[t] \in Workspaces /\ GitPlace(t)
          /\ UNCHANGED << ws, sweep, crashes >> /\ \A u \in Reqs \ {t} : pc'[u] = pc[u]
          /\ born' = born \/ pc[t] = "create.insert"
      BY <2>1 DEF GitMoves, RoomInv, Heard, TurnInv
    <2>3. \A u \in Reqs : pc'[u] # "idle" => u \notin gone'
      BY <2>1, <2>2 DEF CountStep, CountInv
    <2>4. \A v \in Workspaces : ~Known(v)' => ~Known(v)
      BY <2>1, <2>2, NameFacts DEF Known, GitMoves, Git!TypeOK
    <2>5. \A u \in Reqs : u # t /\ pc[u] # "idle" => ws[u] # ws[t]
            /\ ws[u] \in Workspaces
      BY <2>2, TwoWorkspaces
    <2>6. /\ pending \in [Workspaces -> 0..2] /\ tries \in [Workspaces -> 0..4]
          /\ status \in [Workspaces -> Git!WorkspaceStatus \cup {"none"}]
          /\ row[t].pending \in 0..2
      BY <2>1, CountTypes
    <2>7. pc[t] \in Counting => status[ws[t]] \notin Settled /\ Exists(ws[t])
            /\ Known(ws[t])
      BY <2>2 DEF GitPlace, Counting, Settled, Exists, RoomInv, Heard
    <2>8. crashes = 0 => /\ pc[t] \in Counting => row[t].pending = pending[ws[t]]
                         /\ pc[t] = "merge.conflict"
                              => tries[ws[t]] = pending[ws[t]] + 1
                         /\ pc[t] \in Counting \ {"merge.conflict"}
                              => pending[ws[t]] = tries[ws[t]]
      <3>1. pc[t] # "merge.conflict" => ~\E u \in Reqs : pc[u] = "merge.conflict"
              /\ ws[u] = ws[t]
        BY <2>2, <2>5
      <3> QED BY <2>2, <2>7, <3>1 DEF CountInv
    <2>9. \A v \in Workspaces : v # ws[t] => status'[v] = status[v]
            /\ pending'[v] = pending[v] /\ tries'[v] = tries[v]
      BY <2>1, <2>6 DEF CountStep, OpenWrite
    <2>10. ASSUME crashes = 0, NEW v \in Workspaces, v # ws[t]
           PROVE  /\ /\ Exists(v)' /\ status'[v] \notin Settled
                     /\ ~(\E u \in Reqs : pc'[u] = "merge.conflict" /\ ws'[u] = v)
                     => pending'[v] = tries'[v]
                  /\ status'[v] = "conflict_stuck" => pending'[v] = 0 /\ tries'[v] = 3
                  /\ status'[v] = "merged" => pending'[v] = 0 /\ tries'[v] <= 2
                  /\ ~Known(v)' => pending'[v] = 0 /\ tries'[v] = 0
      <3>1. (\E u \in Reqs : pc[u] = "merge.conflict" /\ ws[u] = v) =>
              \E u \in Reqs : pc'[u] = "merge.conflict" /\ ws'[u] = v
        BY <2>2, <2>10
      <3> QED BY <2>4, <2>9, <2>10, <3>1 DEF CountInv, Exists
    <2>11. ASSUME crashes = 0, NEW w \in Workspaces, w = ws[t]
           PROVE  /\ /\ Exists(w)' /\ status'[w] \notin Settled
                     /\ pc'[t] # "merge.conflict"
                     => pending'[w] = tries'[w]
                  /\ status'[w] = "conflict_stuck" => pending'[w] = 0 /\ tries'[w] = 3
                  /\ status'[w] = "merged" => pending'[w] = 0 /\ tries'[w] <= 2
                  /\ ~Known(w)' => pending'[w] = 0 /\ tries'[w] = 0
                  /\ pc'[t] \in Counting => row'[t].pending = pending'[w]
                  /\ pc'[t] = "merge.conflict" => tries'[w] = pending'[w] + 1
      <3>0. w \in Workspaces /\ w = ws[t]
        BY <2>11
      <3>1. CASE /\ UNCHANGED << pending, tries >> /\ OpenWrite(w)
                 /\ pc[t] # "merge.conflict" /\ pc'[t] # "merge.conflict"
        <4>1. ~\E u \in Reqs : pc[u] = "merge.conflict" /\ ws[u] = w
          BY <2>2, <2>5, <3>0, <3>1
        <4>2. /\ Exists(w) /\ status[w] \notin Settled => pending[w] = tries[w]
              /\ status[w] = "conflict_stuck" => pending[w] = 0 /\ tries[w] = 3
              /\ status[w] = "merged" => pending[w] = 0 /\ tries[w] <= 2
              /\ ~Known(w) => pending[w] = 0 /\ tries[w] = 0
          BY <2>11, <3>0, <4>1 DEF CountInv
        <4>3. \/ status'[w] = status[w]
              \/ /\ status'[w] \notin Settled \cup {"none"} /\ status[w] \notin Settled
                 /\ status[w] = "none" => ~Known(w)
          BY <2>6, <3>0, <3>1 DEF OpenWrite
        <4>4. /\ /\ Exists(w)' /\ status'[w] \notin Settled => pending[w] = tries[w]
              /\ status'[w] = "conflict_stuck" => pending[w] = 0 /\ tries[w] = 3
              /\ status'[w] = "merged" => pending[w] = 0 /\ tries[w] <= 2
          BY <2>2, <4>2, <4>3 DEF Exists, Settled
        <4>5. pc'[t] \in Counting => row'[t].pending = pending[w]
          BY <2>1, <2>8, <2>11 DEF CountStep
        <4> QED BY <2>4, <3>0, <3>1, <4>2, <4>4, <4>5
      <3>2. CASE /\ pc[t] = "merge.tree" /\ pc'[t] = "merge.conflict" /\ row' = row
                 /\ tries' = [tries EXCEPT ![w] = IF @ < Git!MaxTries THEN @ + 1 ELSE @]
                 /\ UNCHANGED << status, pending >>
        <4>1. pending[w] = tries[w] /\ row[t].pending = pending[w] /\ Known(w)'
                /\ status[w] \notin Settled
          BY <2>2, <2>4, <2>7, <2>8, <2>11, <3>2 DEF Counting
        <4>2. tries'[w] = tries[w] + 1
          BY <2>6, <3>0, <3>2, <4>1, NameFacts
        <4> QED BY <3>2, <4>1, <4>2 DEF Settled
      <3>3. CASE /\ pc[t] = "merge.conflict" /\ pc'[t] = "idle" /\ tries' = tries
                 /\ row[t].pending + 1 > 2
                 /\ status' = [status EXCEPT ![w] = "conflict_stuck"]
                 /\ pending' = [pending EXCEPT ![w] = 0]
        <4>1. tries[w] = row[t].pending + 1 /\ Known(w)'
          BY <2>2, <2>4, <2>7, <2>8, <2>11, <3>3 DEF Counting
        <4>2. status'[w] = "conflict_stuck" /\ pending'[w] = 0 /\ tries'[w] = 3
          BY <2>6, <3>0, <3>3, <4>1
        <4> QED BY <3>3, <4>1, <4>2 DEF Settled, Counting
      <3>4. CASE /\ pc[t] = "merge.conflict" /\ pc'[t] = "idle"
                      /\ UNCHANGED << tries, status >>
                 /\ row[t].pending + 1 <= 2
                 /\ pending' = [pending EXCEPT ![w] = row[t].pending + 1]
        <4>1. tries[w] = row[t].pending + 1 /\ Known(w)' /\ status[w] \notin Settled
          BY <2>2, <2>4, <2>7, <2>8, <2>11, <3>4 DEF Counting
        <4>2. pending'[w] = tries'[w]
          BY <2>6, <3>0, <3>4, <4>1
        <4> QED BY <3>4, <4>1, <4>2 DEF Settled, Counting
      <3>5. CASE /\ pc[t] = "merge.merged" /\ pc'[t] = "idle" /\ tries' = tries
                 /\ status' = [status EXCEPT ![w] = "merged"]
                 /\ pending' = [pending EXCEPT ![w] = 0]
        <4>1. tries[w] = pending[w] /\ Known(w)'
          BY <2>2, <2>4, <2>7, <2>8, <2>11, <3>5 DEF Counting
        <4>2. status'[w] = "merged" /\ pending'[w] = 0 /\ tries'[w] <= 2
          BY <2>6, <3>0, <3>5, <4>1
        <4> QED BY <3>5, <4>1, <4>2 DEF Settled, Counting
      <3> QED BY <2>1, <3>0, <3>1, <3>2, <3>3, <3>4, <3>5 DEF CountStep
    <2>12. ASSUME crashes = 0, NEW u \in Reqs, u # t, pc'[u] \in Counting
           PROVE  row'[u].pending = pending'[ws[u]]
                  /\ (pc'[u] = "merge.conflict" => tries'[ws[u]] = pending'[ws[u]] + 1)
      <3>1. pc'[u] = pc[u] /\ pc[u] # "idle" /\ row'[u] = row[u]
        BY <2>1, <2>2, <2>12 DEF CountStep, Counting
      <3>2. pending'[ws[u]] = pending[ws[u]] /\ tries'[ws[u]] = tries[ws[u]]
        BY <2>5, <2>9, <2>12, <3>1
      <3> QED BY <2>12, <3>1, <3>2 DEF CountInv
    <2>13. ASSUME crashes = 0, NEW v \in Workspaces
           PROVE  /\ /\ Exists(v)' /\ status'[v] \notin Settled
                     /\ ~(\E u \in Reqs : pc'[u] = "merge.conflict" /\ ws'[u] = v)
                     => pending'[v] = tries'[v]
                  /\ status'[v] = "conflict_stuck" => pending'[v] = 0 /\ tries'[v] = 3
                  /\ status'[v] = "merged" => pending'[v] = 0 /\ tries'[v] <= 2
                  /\ ~Known(v)' => pending'[v] = 0 /\ tries'[v] = 0
      BY <2>2, <2>10, <2>11, <2>13
    <2> QED BY <2>2, <2>3, <2>11, <2>12, <2>13 DEF CountInv, Counting
  <1> QED BY <1>1, <1>2 DEF GitStep, RoomInv, HandlerTypes

\* The agent manager writes no settled status and overwrites none.
LEMMA AgentWritesOpen ==
  ASSUME RoomInv, TurnInv, NEW x \in Agent!Threads, agentPc[x] # "idle", TurnStep(x)
  PROVE  OpenWrite(agentWs[x])
  <1>1. CASE status' = status
    BY <1>1 DEF OpenWrite
  <1>2. CASE status' # status
    <2>1. PICK s : /\ status' = [status EXCEPT ![agentWs[x]] = s]
                   /\ status[agentWs[x]] # "none"
                   /\ s \in {"running", "cancelled", "completed", "failed",
                        "awaiting_input"}
                   /\ agentPc[x] \in {"start.running", "prompt.running", "stop.write",
                        "complete.write",
                        "fail.write", "drain.terminal"}
      BY <1>2 DEF TurnStep, StatusWrite
    <2>2. CASE x \in Reqs
      <3>1. agentPc[x] # "drain.terminal" /\ ReqPlace(x)
        BY <2>2, AdapterFacts
        DEF RoomInv, Agent!IInv, Agent!SessionInv, Agent!ThreadsInPlace,
            Agent!DrainSteps, Agent!StartSteps, Agent!PromptSteps,
            Agent!StopSteps, Agent!CompleteSteps, Agent!FailSteps,
            Agent!CleanSteps, TurnInv
      <3>2. status[agentWs[x]] \notin Settled
        BY <2>1, <3>1 DEF ReqPlace, Giving, Agent!FailSteps, Settled, Ready
      <3> QED BY <2>1, <3>2 DEF OpenWrite, Settled
    <2>3. CASE x \in Adapters
      <3>1. agentPc[x] \in {"fail.write", "drain.terminal"}
        BY <2>1, <2>3
        DEF RoomInv, Agent!IInv, Agent!SessionInv, Agent!ThreadsInPlace,
            Agent!DrainSteps, Agent!FailSteps, Agent!CleanSteps
      <3>2. status[agentWs[x]] \in Ending
        BY <2>3, <3>1, WriterOwes DEF TurnInv, OwesInv
      <3> QED BY <2>1, <3>2 DEF OpenWrite, Settled, Ending
    <2> QED BY <2>2, <2>3 DEF Agent!Threads
  <1> QED BY <1>1, <1>2

\* A step of the agent manager counts nothing.
LEMMA AgentCounts ==
  ASSUME RoomInv, OneAtATime, TurnInv, CountInv, NEW x \in Agent!Threads,
         (x \in Reqs /\ Agent!Handle(x)) \/ (x \in Adapters /\ Agent!Drain(x)),
         UNCHANGED << gitVars, handlerVars >>
  PROVE  CountInv'
  <1>1. AgentMoves(x) /\ TurnStep(x)
    BY AgentThread, AgentThreadTurn DEF RoomInv
  <1>2. agentWs[x] \in Workspaces /\ agentPc[x] # "idle"
    BY <1>1
    DEF AgentMoves, RoomInv, Agent!IInv, Agent!SessionInv, Agent!ThreadsInPlace
  <1>3. OpenWrite(agentWs[x])
    BY <1>1, <1>2, AgentWritesOpen
  <1>4. UNCHANGED << pending, tries, born, sweep, crashes, pc, row, ws, gone >>
    BY <1>1 DEF gitVars, AgentMoves
  <1>5. \A t \in Reqs : pc'[t] # "idle" => t \notin gone'
    BY <1>4 DEF CountInv
  <1> QED BY <1>2, <1>3, <1>4, <1>5, CountSide

\* Nor does a step that keeps the rows.
LEMMA QuietCounts ==
  ASSUME CountInv, UNCHANGED << status, pending, tries, born, sweep, crashes, pc, row,
           ws, gone >>
  PROVE  CountInv'
  BY DEF CountInv, Exists, Known

\* A request enters a method of the workspace manager.
LEMMA GitEntersCount ==
  ASSUME RoomInv, CountInv, NEW t \in Reqs, NEW w \in Workspaces,
         NEW op \in {"create", "merge", "cancel"}, Git!Request(t, op, w)
  PROVE  CountInv'
  <1>1. /\ pc[t] = "idle" /\ pc'[t] \in {"create.insert", "merge.load", "cancel.load"}
        /\ \A u \in Reqs : u # t => pc'[u] = pc[u] /\ ws'[u] = ws[u]
        /\ UNCHANGED << status, born, sweep, crashes >>
    BY GitEnters DEF RoomInv
  <1>2. /\ UNCHANGED << pending, tries >> /\ gone' = gone \ {t}
        /\ \A u \in Reqs : u # t => row'[u] = row[u]
    BY DEF Git!Request, RoomInv, Git!TypeOK
  <1>3. \A u \in Reqs : pc'[u] # "idle" => u \notin gone'
    BY <1>1, <1>2 DEF CountInv
  <1>4. \A u \in Reqs :
           \/ pc'[u] = pc[u] /\ row'[u] = row[u] /\ ws'[u] = ws[u]
           \/ pc[u] # "merge.conflict" /\ pc'[u] \notin Counting
    BY <1>1, <1>2 DEF Counting
  <1> QED BY <1>1, <1>2, <1>3, <1>4, CountSide DEF OpenWrite

\* A deleted row counts nothing.
LEMMA DeleteRowsCount ==
  ASSUME RoomInv, OneAtATime, CountInv, NEW t \in Reqs, DeleteRows(t)
  PROVE  CountInv'
  <1>1. /\ next[t] = "cleanup" /\ status' = [w \in Workspaces |-> "none"]
        /\ pending' = [w \in Workspaces |-> 0]
        /\ UNCHANGED << tries, born, sweep, crashes, pc, row, ws, gone >>
    BY DEF DeleteRows, bootVars
  <1>2. \A u \in Reqs : pc[u] = "idle"
    BY <1>1 DEF OneAtATime, Idle, RoomInv, OneMethod
  <1>3. ASSUME crashes = 0, NEW v \in Workspaces
        PROVE  /\ ~Exists(v)' /\ status'[v] = "none" /\ sweep = {}
               /\ ~Known(v)' => pending'[v] = 0 /\ tries'[v] = 0
    BY <1>1, <1>3 DEF CountInv, Exists, Known
  <1>4. crashes = 0 => sweep = {}
    BY DEF CountInv
  <1> QED BY <1>1, <1>2, <1>3, <1>4 DEF CountInv, Counting

\* Every step preserves CountInv.
LEMMA NextCount == ASSUME RoomInv, OneAtATime, TurnInv, CountInv, [Next]_vars
                   PROVE CountInv'
  <1>1. ASSUME NEW t \in Reqs, NEW w \in Workspaces, NEW op \in Ops,
                 AgentRequest(t, op, w)
        PROVE  CountInv'
    BY <1>1, QuietCounts DEF AgentRequest, Agent!Request, gitVars
  <1>2. ASSUME NEW t \in Reqs, NEW w \in Workspaces, NEW op \in Ops,
                 GitRequest(t, op, w)
        PROVE  CountInv'
    BY <1>2, GitEntersCount DEF GitRequest
  <1>3. ASSUME NEW t \in Reqs, NEW w \in Workspaces, StopRequest(t, w)
        PROVE  CountInv'
    BY <1>3, QuietCounts DEF StopRequest, Agent!Request, gitVars
  <1>4. ASSUME NEW t \in Reqs, DeleteList(t) PROVE CountInv'
    BY <1>4, QuietCounts DEF DeleteList, gitVars, bootVars
  <1>5. ASSUME NEW t \in Reqs, Handle(t) PROVE CountInv'
    <2>1. CASE AgentStep(t)
      BY <2>1, AgentCounts DEF AgentStep, Agent!Threads
    <2>2. CASE GitStep(t)
      BY <2>2, GitStepCount
    <2>3. CASE StopCancel(t)
      <3>1. agentWs[t] \in Workspaces
        BY <2>3 DEF StopCancel, RoomInv, OneMethod
      <3>2. CASE Git!Request(t, "cancel", agentWs[t])
        BY <3>1, <3>2, GitEntersCount
      <3>3. CASE UNCHANGED << status, bootVars, gitVars >>
        BY <3>3, QuietCounts DEF gitVars, bootVars
      <3> QED BY <2>3, <3>2, <3>3 DEF StopCancel
    <2>4. CASE DeleteRows(t)
      BY <2>4, DeleteRowsCount
    <2>5. CASE \E w \in Workspaces : DeleteCleanup(t, w)
      BY <2>5, QuietCounts DEF DeleteCleanup, bootVars
    <2> QED BY <1>5, <2>1, <2>2, <2>3, <2>4, <2>5 DEF Handle
  <1>6. ASSUME NEW a \in Adapters, Background(a) PROVE CountInv'
    <2>1. CASE Agent!Drain(a)
      BY <1>6, <2>1, AgentCounts DEF Background, Agent!Threads
    <2>2. CASE Agent!Agent(a)
      BY <1>6, <2>2, QuietCounts
      DEF Background, gitVars, Agent!Agent, Agent!Talk, Agent!FinishTurn,
          Agent!ProcessExit, Agent!Emit
    <2> QED BY <1>6, <2>1, <2>2 DEF Background
  <1>7. CASE World
    BY <1>7, QuietCounts
    DEF World, Git!Commit, Git!Resolve, Git!UserCommit, Git!Tick
  <1>8. CASE UNCHANGED vars
    BY <1>8, QuietCounts DEF vars, gitVars, bootVars
  <1>9. ASSUME NEW w \in Workspaces, SweepRow(w) PROVE CountInv'
    <2>1. w \in sweep /\ UNCHANGED << crashes, pc, gone >>
      BY <1>9 DEF SweepRow, Git!SweepRow
    <2>2. crashes # 0
      BY <2>1 DEF CountInv
    <2> QED BY <2>1, <2>2 DEF CountInv
  <1>10. CASE Crash
    <2>1. /\ crashes' = crashes + 1 /\ gone' = {} /\ crashes \in 0..MaxCrashes
               /\ MaxCrashes \in Nat
      BY <1>10, ControlRoomAssumption
      DEF Crash, Git!Crash, RoomInv, Git!TypeOK, Git!WorkspaceManagerAssumption
    <2>2. crashes' # 0
      BY <2>1
    <2> QED BY <2>1, <2>2 DEF CountInv
  <1> QED BY <1>1, <1>2, <1>3, <1>4, <1>5, <1>6, <1>7, <1>8, <1>9, <1>10 DEF Next

\* CountInv holds in the beginning.
LEMMA InitCount == Init => CountInv
  BY NameFacts DEF Init, Git!Init, CountInv, Exists, Known, Settled, Counting

\* CountInv is what the property says of the workspaces no request is at.
LEMMA CountsWell == ASSUME RoomInv, CountInv PROVE ConflictsCounted
  <1>1. SUFFICES ASSUME crashes = 0, NEW w \in Workspaces, ~Git!Handled(w)
                 PROVE  /\ status[w] = "completed" => pending[w] = tries[w]
                        /\ status[w] = "conflict_stuck" => pending[w] = 0
                             /\ tries[w] = 3
                        /\ status[w] = "merged" => pending[w] = 0 /\ tries[w] <= 2
    BY NameFacts DEF ConflictsCounted, Git!ConflictsCounted
  <1>2. ~\E t \in Reqs : pc[t] = "merge.conflict" /\ ws[t] = w
    BY <1>1 DEF Git!Handled
  <1> QED BY <1>1, <1>2 DEF CountInv, Exists, Settled

\* While the requests at work are at different workspaces and none of them overlaps
\* the deletion of a project, the count that pending_merge keeps is the number of
\* conflicts that were reported since the agent last completed, a workspace is
\* conflict_stuck after exactly three of them and merged after at most two
\* (ConflictsCounted): no agent's turn ends over the status that a merge writes.
THEOREM ConflictsAreCounted == Spec /\ []OneAtATime => []ConflictsCounted
  <1>1. Init => RoomInv /\ TurnInv /\ CountInv
    BY InitRoom, InitTurn, InitCount
  <1>2. RoomInv /\ TurnInv /\ CountInv /\ OneAtATime /\ [Next]_vars
          => (RoomInv /\ TurnInv /\ CountInv)'
    BY NextRoom, NextTurn, NextCount
  <1>3. RoomInv /\ CountInv => ConflictsCounted
    BY CountsWell
  <1> QED BY <1>1, <1>2, <1>3, PTL DEF Spec

-----------------------------------------------------------------------------
(* The transitions of the status. StatusInv says what a write              *)
(* of the status, in either manager, finds there.                          *)

\* An agent that owes the end of a turn and has not been given up runs, if agents accept
\* every prompt they take.
NonLost ==
  "prompt" \notin AgentFaults =>
    \A a \in Adapters : Owes(a) /\ ~Lost(a)
      => status[agentWs[a]] \in {"running", "none"}

\* A Stop at work holds the agent of its workspace, and has given it up.
StopHolds(t) ==
  agentPc[t] \in {"stop.cancel", "stop.kill", "stop.read", "stop.write"} =>
    /\ ad[t] \in Adapters
    /\ sessions[agentWs[t]] \in {ad[t], None}
    /\ agentPc[t] # "stop.cancel" => ad[t] \in ctxDone

\* Nobody gives up the agent in a request's hands.
CtxHeld(t) ==
  agentPc[t] \notin {"idle"} \cup Agent!CleanSteps \/ Giving(t) => t \notin ctxDone

\* A StartAgent that gives up leaves no turn behind.
GivesQuiet(t) == "prompt" \notin AgentFaults /\ Giving(t) => Quiet(agentWs[t])

\* The orphan sweep runs alone, over rows that are not terminal.
SweepFine ==
  sweep # {} =>
    /\ \A x \in Agent!Threads : agentPc[x] = "idle"
    /\ \A w \in sweep : status[w] \in Git!Swept

\* The inductive invariant of the statuses.
StatusInv ==
  /\ NonLost /\ SweepFine
  /\ \A t \in Reqs : StopHolds(t) /\ CtxHeld(t) /\ GivesQuiet(t)

\* Requests at different workspaces leave a Stop alone.
LEMMA AloneAtATime == ASSUME RoomInv, OneAtATime PROVE StopAlone
  <1>1. SUFFICES ASSUME NEW t \in Reqs, NEW u \in Reqs, Stopping(t), t # u
                 PROVE  /\ agentPc[u] \in Agent!StartSteps \cup Agent!CleanSteps =>
                             agentWs[u] # StopOf(t)
                        /\ Stopping(u) => StopOf(u) # StopOf(t)
    BY DEF StopAlone
  <1>2. ASSUME NEW v \in Reqs, Stopping(v) PROVE ~Idle(v) /\ WorkOf(v) = StopOf(v)
    BY <1>2 DEF Stopping, StopOf, WorkOf, Idle, RoomInv, OneMethod
  <1>3. agentPc[u] \in Agent!StartSteps \cup Agent!CleanSteps => ~Idle(u)
          /\ WorkOf(u) = agentWs[u]
    BY DEF Idle, WorkOf, RoomInv, OneMethod, Agent!StartSteps, Agent!CleanSteps
  <1> QED BY <1>1, <1>2, <1>3 DEF OneAtATime

\* Who knows an agent that owes the end of a turn and has not been given up.
LEMMA OwesKnown ==
  ASSUME RoomInv, NEW a \in Adapters, Owes(a), ~Lost(a)
  PROVE  /\ agentWs[a] \in Workspaces
         /\ \/ sessions[agentWs[a]] = a
            \/ \E u \in Reqs : agentPc[u] = "clean.cancel" /\ agentWs[u] = agentWs[a]
  <1>1. agentWs[a] \in Workspaces
    BY OwesPlace DEF RoomInv
  <1>2. SUFFICES ASSUME sessions[agentWs[a]] # a
                 PROVE  \E u \in Reqs : agentPc[u] = "clean.cancel"
                          /\ agentWs[u] = agentWs[a]
    BY <1>1
  <1>3. PICK u \in Agent!Threads : agentPc[u] = "clean.cancel" /\ ad[u] = a
    BY <1>2
    DEF Lost, Owes, RoomInv, Agent!IInv, Agent!SessionInv,
        Agent!NoForgottenSession
  <1>4. u \in Reqs
    BY <1>3 DEF Lost, Agent!Threads
  <1>5. agentWs[u] = agentWs[a]
    BY <1>3, <1>4, AdapterFacts DEF RoomInv, CleanAd
  <1> QED BY <1>3, <1>4, <1>5

\* A Stop that is about to write cancelled has given up what it found.
LEMMA StopGaveUp ==
  ASSUME RoomInv, OneAtATime, StatusInv, NEW t \in Reqs,
         agentPc[t] \in {"stop.kill", "stop.read", "stop.write"},
         NEW a \in Adapters, Owes(a), agentWs[a] = agentWs[t]
  PROVE  Lost(a)
  <1>1. SUFFICES ASSUME ~Lost(a) PROVE FALSE
    OBVIOUS
  <1>2. CASE sessions[agentWs[a]] = a
    <2>1. a = ad[t] /\ ad[t] \in ctxDone
      BY <1>2, AdapterFacts DEF StatusInv, StopHolds
    <2> QED BY <1>1, <2>1 DEF Lost
  <1>3. CASE \E u \in Reqs : agentPc[u] = "clean.cancel" /\ agentWs[u] = agentWs[a]
    <2>1. PICK u \in Reqs : agentPc[u] = "clean.cancel" /\ agentWs[u] = agentWs[a]
      BY <1>3
    <2>2. u # t /\ ~Idle(u) /\ ~Idle(t) /\ WorkOf(u) = WorkOf(t)
      BY <2>1 DEF Idle, WorkOf, RoomInv, OneMethod
    <2> QED BY <2>2 DEF OneAtATime
  <1> QED BY <1>1, <1>2, <1>3, OwesKnown

\* Nor does a Cancel find one.
LEMMA CancelGaveUp ==
  ASSUME RoomInv, OneAtATime, SafeInv, NEW t \in Reqs,
         pc[t] \in {"cancel.load", "cancel.remove", "cancel.write"}
  PROVE  /\ sessions[ws[t]] = None
         /\ \A a \in Adapters : Owes(a) /\ agentWs[a] = ws[t] => Lost(a)
  <1>1. Stopping(t) /\ StopOf(t) = ws[t] /\ agentPc[t] = "idle"
    BY DEF Stopping, StopOf, RoomInv, OneMethod
  <1>2. sessions[ws[t]] = None
    BY <1>1 DEF SafeInv, StopInv, Cleaned
  <1>3. SUFFICES ASSUME NEW a \in Adapters, Owes(a), agentWs[a] = ws[t], ~Lost(a)
                 PROVE FALSE
    BY <1>2
  <1>4. PICK u \in Reqs : agentPc[u] = "clean.cancel" /\ agentWs[u] = ws[t]
    BY <1>2, <1>3, OwesKnown, AdapterFacts
  <1>5. u # t /\ ~Idle(u) /\ ~Idle(t) /\ WorkOf(u) = WorkOf(t)
    BY <1>1, <1>4 DEF Idle, WorkOf, RoomInv, OneMethod
  <1> QED BY <1>5 DEF OneAtATime

\* The transitions the managers rely on.
LEMMA Moves ==
  /\ \A s \in Ready : CanTransition(s, "running") /\ CanTransition(s, "completed")
  /\ CanTransition("resolving_conflict", "completed")
  /\ CanTransition("running", "awaiting_input") /\ CanTransition("running", "failed")
  /\ CanTransition("queued", "preparing") /\ CanTransition("idle", "preparing")
  /\ CanTransition("preparing", "idle") /\ CanTransition("preparing", "failed")
  /\ \A s \in {"completed", "resolving_conflict"} :
       CanTransition(s, "merged") /\ CanTransition(s, "conflict_stuck")
  BY DEF Ready, CanTransition, allowedTransitions, WorkspaceStatus

-----------------------------------------------------------------------------
(* The steps of a request.                                                 *)

\* A step of a request that leaves it neither giving up nor stopping
LEMMA StatusElsewhere ==
  ASSUME NEW t \in Reqs, CtxHeld(t), then'[t] = "idle",
         agentPc[t] \notin {"idle"} \cup Agent!CleanSteps,
         agentPc'[t] \notin {"stop.cancel", "stop.kill", "stop.read", "stop.write"}
           \cup Agent!FailSteps,
         \/ agentPc'[t] \in {"idle"} \cup Agent!CleanSteps
         \/ t \in ctxDone' => t \in ctxDone
  PROVE  StopHolds(t)' /\ CtxHeld(t)' /\ GivesQuiet(t)'
  BY
  DEF StopHolds, CtxHeld, GivesQuiet, Giving, Agent!FailSteps, Agent!CleanSteps

\* So do the steps that read,
LEMMA StatusReads ==
  ASSUME RoomInv, TurnInv, NEW t \in Reqs, CtxHeld(t),
         \/ Agent!StartLoad(t) \/ Agent!PromptLookup(t) \/ Agent!PromptCheck(t)
         \/ Agent!PromptPersist(t) \/ Agent!CompleteRead(t) \/ Agent!StartPersist(t)
         \/ Agent!StartPreempt(t) \/ Agent!StartRegister(t)
  PROVE  StopHolds(t)' /\ CtxHeld(t)' /\ GivesQuiet(t)'
  <1>1. /\ agentPc[t] \in {"start.load", "prompt.lookup", "prompt.check",
             "prompt.persist", "complete.read",
                            "start.persist", "start.preempt", "start.register"}
        /\ then' = then
    BY Zenon
    DEF Agent!StartLoad, Agent!PromptLookup, Agent!PromptCheck,
        Agent!PromptPersist, Agent!CompleteRead, Agent!StartPersist,
        Agent!StartPreempt, Agent!StartRegister
  <1>2. then[t] = "idle" /\ (agentPc[t] \in Agent!HoldingSteps => ad[t] \in Adapters)
    BY <1>1
    DEF TurnInv, ReqPlace, Agent!CleanSteps, RoomInv, Agent!IInv,
        Agent!SessionInv, Agent!AdaptersHeld
  <1>3. agentPc'[t] \in {"idle", "start.spawn", "prompt.check", "prompt.running",
          "complete.write",
                          "start.prompt", "start.preempt"}
    <2>1. CASE Agent!StartPersist(t)
      BY <1>2, <2>1, AdapterFacts
      DEF RoomInv, Agent!IInv, Agent!TypeOK, Agent!Threads, Agent!StartPersist,
          Agent!HoldingSteps
    <2>2. CASE ~Agent!StartPersist(t)
      BY <2>2
      DEF RoomInv, Agent!IInv, Agent!TypeOK, Agent!Threads, Agent!Goto,
          Agent!StartLoad, Agent!PromptLookup, Agent!PromptCheck,
          Agent!PromptPersist, Agent!CompleteRead, Agent!StartPreempt,
          Agent!StartRegister
    <2> QED BY <2>1, <2>2
  <1>4. t \in ctxDone' => t \in ctxDone
    BY <1>1, <1>2, AdapterFacts
    DEF Agent!StartLoad, Agent!PromptLookup, Agent!PromptCheck,
        Agent!PromptPersist, Agent!CompleteRead, Agent!StartPersist,
        Agent!StartPreempt, Agent!StartRegister, Agent!HoldingSteps
  <1> QED
      BY <1>1, <1>2, <1>3, <1>4, StatusElsewhere
      DEF Agent!CleanSteps, Agent!FailSteps

\* the ones that write the status,
LEMMA StatusUpdates ==
  ASSUME RoomInv, TurnInv, NEW t \in Reqs, CtxHeld(t),
         Agent!StartRunning(t) \/ Agent!PromptRunning(t) \/ Agent!CompleteWrite(t)
           \/ Agent!StopWrite(t)
  PROVE  StopHolds(t)' /\ CtxHeld(t)' /\ GivesQuiet(t)'
  <1>1. /\ agentPc[t] \in {"start.running", "prompt.running", "complete.write",
             "stop.write"}
        /\ then' = then
    BY Zenon
    DEF Agent!StartRunning, Agent!PromptRunning, Agent!CompleteWrite,
        Agent!StopWrite
  <1>2. then[t] = "idle"
    BY <1>1 DEF TurnInv, ReqPlace, Agent!CleanSteps
  <1>3. \/ agentPc'[t] \in {"idle", "clean.delete"}
        \/ agentPc'[t] \in {"start.register", "prompt.send"} /\ ctxDone' = ctxDone
    BY
    DEF RoomInv, Agent!IInv, Agent!TypeOK, Agent!Threads, Agent!Goto,
        Agent!UpdateWorkspace, Agent!StartRunning, Agent!PromptRunning,
        Agent!CompleteWrite, Agent!StopWrite
  <1> QED BY <1>1, <1>2, <1>3, StatusElsewhere DEF Agent!CleanSteps, Agent!FailSteps

\* the steps of Manager.Stop,
LEMMA StatusStops ==
  ASSUME RoomInv, TurnInv, NEW t \in Reqs, CtxHeld(t), StopHolds(t),
         Agent!StopLookup(t) \/ Agent!StopCancel(t) \/ Agent!StopKill(t)
           \/ Agent!StopRead(t)
  PROVE  StopHolds(t)' /\ CtxHeld(t)' /\ GivesQuiet(t)'
  <1>1. /\ agentPc[t] \in {"stop.lookup", "stop.cancel", "stop.kill", "stop.read"}
        /\ UNCHANGED << then, agentWs, sessions >>
    BY Zenon
    DEF Agent!StopLookup, Agent!StopCancel, Agent!StopKill, Agent!StopRead
  <1>2. then[t] = "idle" /\ agentWs[t] \in Workspaces
    BY <1>1
    DEF TurnInv, ReqPlace, Agent!CleanSteps, RoomInv, Agent!IInv,
        Agent!SessionInv, Agent!ThreadsInPlace, Agent!Threads
  <1>3. \/ agentPc'[t] \in {"idle", "clean.delete"}
        \/ /\ agentPc'[t] = "stop.cancel" /\ agentPc[t] = "stop.lookup"
                /\ ctxDone' = ctxDone
           /\ ad'[t] = sessions[agentWs[t]] /\ ad'[t] # None
        \/ /\ agentPc'[t] = "stop.kill" /\ agentPc[t] = "stop.cancel"
                /\ ctxDone' = ctxDone \cup {ad[t]} /\ ad' = ad
        \/ /\ agentPc'[t] \in {"stop.read", "stop.write"}
                /\ agentPc[t] \in {"stop.kill", "stop.read"}
           /\ ctxDone' = ctxDone /\ ad' = ad
    BY
    DEF RoomInv, Agent!IInv, Agent!TypeOK, Agent!Threads, Agent!Goto,
        Agent!StopLookup, Agent!StopCancel, Agent!StopKill, Agent!StopRead
  <1>4. CASE agentPc'[t] \in {"idle", "clean.delete"}
    BY <1>1, <1>2, <1>4, StatusElsewhere DEF Agent!CleanSteps, Agent!FailSteps
  <1>5. CASE agentPc'[t] \notin {"idle", "clean.delete"}
    <2>1. t \notin ctxDone /\ sessions[agentWs[t]] \in Adapters \cup {None}
      BY <1>1, <1>2
      DEF CtxHeld, Agent!CleanSteps, RoomInv, Agent!IInv, Agent!TypeOK
    <2>2. GivesQuiet(t)'
      BY <1>3, <1>5 DEF GivesQuiet, Giving, Agent!FailSteps, Agent!CleanSteps
    <2>3. StopHolds(t)'
      BY <1>1, <1>3, <1>5, <2>1 DEF StopHolds
    <2>4. CtxHeld(t)'
      BY <1>1, <1>3, <1>5, <2>1, AdapterFacts DEF CtxHeld, StopHolds
    <2> QED BY <2>2, <2>3, <2>4
  <1> QED BY <1>4, <1>5

\* StartAgent when it spawns the subprocess,
LEMMA StatusSpawn ==
  ASSUME RoomInv, TurnInv, NEW t \in Reqs, CtxHeld(t), TurnStep(t), Agent!StartSpawn(t)
  PROVE  StopHolds(t)' /\ CtxHeld(t)' /\ GivesQuiet(t)'
  <1>1. /\ agentPc[t] = "start.spawn" /\ UNCHANGED << then, ctxDone >>
             /\ agentWs'[t] = agentWs[t]
        /\ agentPc'[t] \in {"idle", "start.running", "fail.read"}
    BY AdapterFacts
    DEF Agent!StartSpawn, RoomInv, Agent!IInv, Agent!TypeOK, Agent!Threads,
        Agent!Goto
  <1>2. t \notin ctxDone /\ status[agentWs[t]] \in Ready
    BY <1>1 DEF CtxHeld, TurnInv, ReqPlace, Agent!CleanSteps
  <1>3. PICK w : w = agentWs[t] /\ w = agentWs'[t]
    BY <1>1
  <1>4. Quiet(w)'
    <2>1. \A a \in Adapters : ~Opens(t, a)
      BY <1>1 DEF Opens
    <2> QED BY <1>2, <1>3, <2>1, QuietPlace, QuietStays DEF Ready, Ending, TurnInv
  <1> QED
      BY <1>1, <1>2, <1>3, <1>4
      DEF StopHolds, CtxHeld, GivesQuiet, Giving, Agent!FailSteps,
         Agent!CleanSteps

\* A prompt the agent refuses starts no turn.
LEMMA StatusSends ==
  ASSUME RoomInv, TurnInv, NEW t \in Reqs, CtxHeld(t),
         Agent!StartPrompt(t) \/ Agent!PromptSend(t)
  PROVE  StopHolds(t)' /\ CtxHeld(t)' /\ GivesQuiet(t)'
  <1>1. /\ agentPc[t] \in {"start.prompt", "prompt.send"}
             /\ UNCHANGED << status, sessions, ctxDone, agentWs, ad, ev >>
        /\ then[t] = "idle" /\ t \notin ctxDone /\ Quiet(agentWs[t])
    <2>1. /\ agentPc[t] \in {"start.prompt", "prompt.send"}
          /\ UNCHANGED << status, sessions, ctxDone, agentWs, ad, ev >>
      BY Zenon DEF Agent!StartPrompt, Agent!PromptSend
    <2> QED BY <2>1 DEF TurnInv, ReqPlace, CtxHeld, Agent!CleanSteps, Openings
  <1>2. PICK ok \in BOOLEAN :
          /\ Agent!AdapterSendPrompt(t, ad[t], ok)
          /\ \/ ok /\ agentPc'[t] \in {"start.persist", "prompt.persist"}
             \/ /\ ~ok /\ agentPc'[t] \in {"clean.delete", "fail.read"}
                /\ \E s : agentPc' = [agentPc EXCEPT ![t] = s]
                /\ \/ then' = then
                   \/ \E s : then' = [then EXCEPT ![t] = s]
    BY
    DEF Agent!StartPrompt, Agent!PromptSend, Agent!Goto, RoomInv, Agent!IInv,
        Agent!TypeOK, Agent!Threads
  <1>3. CASE ok
    <2>1. agentPc'[t] \in {"start.persist", "prompt.persist"}
      BY <1>2, <1>3
    <2> QED
        BY <1>1, <2>1
        DEF StopHolds, CtxHeld, GivesQuiet, Giving, Agent!FailSteps,
           Agent!CleanSteps
  <1>4. CASE ~ok /\ "prompt" \notin AgentFaults
    <2>1. UNCHANGED << life, chan, turn >>
      BY <1>1, <1>2, <1>4 DEF Agent!AdapterSendPrompt, Agent!CtxOK
    <2>2. ASSUME NEW a \in Adapters PROVE NoMore(a)
      <3>1. Same(a)
        BY <1>1, <1>2, <1>4, <2>1, AdapterFacts
        DEF Same, Fresh, Agent!HasSession, RoomInv, Agent!IInv, Agent!TypeOK,
            Agent!Threads
      <3> QED BY <3>1, SameNoMore DEF TurnInv
    <2>3. PICK w : w = agentWs[t] /\ w = agentWs'[t]
      BY <1>1
    <2>4. Quiet(w)'
      BY <1>1, <2>2, <2>3 DEF Quiet, NoMore
    <2> QED
        BY <1>1, <1>2, <1>4, <2>3, <2>4
        DEF StopHolds, CtxHeld, GivesQuiet, Agent!FailSteps, Agent!CleanSteps
  <1>5. CASE ~ok /\ "prompt" \in AgentFaults
    BY <1>1, <1>2, <1>5
    DEF StopHolds, CtxHeld, GivesQuiet, Agent!FailSteps, Agent!CleanSteps
  <1> QED BY <1>3, <1>4, <1>5

\* the steps by which a request gives up,
LEMMA StatusShared ==
  ASSUME RoomInv, TurnInv, NEW t \in Reqs, CtxHeld(t), GivesQuiet(t), TurnStep(t),
           Agent!Shared(t)
  PROVE  StopHolds(t)' /\ CtxHeld(t)' /\ GivesQuiet(t)'
  <1>1. /\ agentPc[t] \in {"fail.read", "fail.write", "clean.delete", "clean.cancel"}
             /\ UNCHANGED agentWs
        /\ then[t] \in {"idle", "fail.read"}
        /\ agentPc[t] \in {"fail.read", "fail.write"} => then[t] = "idle"
    BY
    DEF Agent!Shared, Agent!FailRead, Agent!FailWrite, Agent!CleanDelete,
        Agent!CleanCancel, RoomInv, Agent!IInv, Agent!SessionInv,
        Agent!ThreadsInPlace, TurnInv, ReqPlace, Agent!CleanSteps
  <1>2. PICK w : w = agentWs[t] /\ w = agentWs'[t]
    BY <1>1
  <1>3. "prompt" \notin AgentFaults /\ Giving(t) => Quiet(w)'
    <2>1. \A a \in Adapters : ~Opens(t, a)
      BY <1>1 DEF Opens
    <2> QED BY <1>2, <2>1, QuietStays DEF GivesQuiet
  <1>4. /\ Giving(t)' => Giving(t)
        /\ agentPc'[t] \in {"idle", "fail.read", "fail.write", "clean.cancel"}
        /\ Giving(t)' => (t \in ctxDone' => t \in ctxDone)
        /\ agentPc'[t] \in {"fail.read", "fail.write"} => Giving(t)'
    <2>1. CASE Agent!FailRead(t) \/ Agent!FailWrite(t)
      <3>1. agentPc[t] \in {"fail.read", "fail.write"} /\ then[t] = "idle"
        BY <1>1, <2>1 DEF Agent!FailRead, Agent!FailWrite
      <3>2. \/ agentPc' = [agentPc EXCEPT ![t] = then[t]]
                 /\ then' = [then EXCEPT ![t] = "idle"]
            \/ /\ agentPc' = [agentPc EXCEPT ![t] = "fail.write"] /\ then' = then
                    /\ ctxDone' = ctxDone
        BY <2>1, Zenon
        DEF Agent!FailRead, Agent!FailWrite, Agent!Return, Agent!Goto
      <3>3. \/ agentPc'[t] = "idle"
            \/ agentPc'[t] = "fail.write" /\ ctxDone' = ctxDone
        BY <3>1, <3>2 DEF RoomInv, Agent!IInv, Agent!TypeOK, Agent!Threads
      <3> QED BY <3>1, <3>3 DEF Giving, Agent!FailSteps, Agent!CleanSteps
    <2>2. CASE Agent!CleanDelete(t)
      <3>1. agentPc[t] = "clean.delete" /\ agentPc'[t] = "clean.cancel"
              /\ UNCHANGED << then, ctxDone >>
        BY <2>2
        DEF Agent!CleanDelete, Agent!Goto, RoomInv, Agent!IInv, Agent!TypeOK,
            Agent!Threads
      <3> QED BY <3>1 DEF Giving, Agent!FailSteps, Agent!CleanSteps
    <2>3. CASE Agent!CleanCancel(t)
      <3>1. /\ agentPc' = [agentPc EXCEPT ![t] = then[t]]
                 /\ then' = [then EXCEPT ![t] = "idle"]
            /\ ctxDone' = ctxDone \cup ({ad[t]} \ {None}) /\ agentPc[t] = "clean.cancel"
        BY <2>3, Zenon DEF Agent!CleanCancel, Agent!Return, Agent!Goto
      <3>2. agentPc'[t] = then[t] /\ ad[t] \in Adapters \cup {None}
        BY <3>1 DEF RoomInv, Agent!IInv, Agent!TypeOK, Agent!Threads
      <3> QED
          BY <1>1, <3>1, <3>2, AdapterFacts
          DEF Giving, Agent!FailSteps, Agent!CleanSteps
    <2> QED BY <2>1, <2>2, <2>3 DEF Agent!Shared
  <1> QED BY <1>2, <1>3, <1>4 DEF StopHolds, CtxHeld, GivesQuiet, Agent!CleanSteps

\* and every other.
LEMMA StatusOwn ==
  ASSUME RoomInv, TurnInv, StatusInv, NEW t \in Reqs, TurnStep(t), Agent!Handle(t)
  PROVE  StopHolds(t)' /\ CtxHeld(t)' /\ GivesQuiet(t)'
  <1>1. StopHolds(t) /\ CtxHeld(t) /\ GivesQuiet(t)
    BY DEF StatusInv
  <1> QED
      BY <1>1, StatusReads, StatusUpdates, StatusStops, StatusSpawn,
         StatusSends, StatusShared
      DEF Agent!Handle

-----------------------------------------------------------------------------
(* The steps of the others.                                                *)

\* A step in the agent manager ends the context of no other request.
LEMMA CtxStep ==
  ASSUME Agent!IInv, NEW x \in Agent!Threads, NEW u \in Reqs, u # x,
         (x \in Reqs /\ Agent!Handle(x)) \/ (x \in Adapters /\ Agent!Drain(x)),
         u \in ctxDone'
  PROVE  u \in ctxDone
  <1>1. CASE Agent!Shared(x)
    <2>1. CASE Agent!FailWrite(x)
      BY <2>1, UpdateDone DEF Agent!FailWrite
    <2>2. CASE ~Agent!FailWrite(x)
      <3>1. ad[x] \in Adapters \cup {None}
        BY DEF Agent!IInv, Agent!TypeOK
      <3> QED BY <1>1, <2>2, <3>1, AdapterFacts
          DEF Agent!Shared, Agent!FailRead, Agent!CleanDelete, Agent!CleanCancel
    <2> QED BY <2>1, <2>2
  <1>2. CASE x \in Reqs /\ Agent!Handle(x) /\ ~Agent!Shared(x)
    <2>1. CASE Agent!StartRunning(x) \/ Agent!PromptRunning(x) \/ Agent!CompleteWrite(x)
                 \/ Agent!StopWrite(x)
      BY <2>1, UpdateDone
      DEF Agent!StartRunning, Agent!PromptRunning, Agent!CompleteWrite,
          Agent!StopWrite
    <2>2. CASE Agent!StartRegister(x) \/ Agent!StopCancel(x)
      <3>1. ad[x] \in Adapters
        BY <1>2, <2>2
        DEF Agent!StartRegister, Agent!StopCancel, Agent!IInv, Agent!SessionInv,
            Agent!AdaptersHeld, Agent!HoldingSteps
      <3> QED BY <2>2, <3>1, AdapterFacts DEF Agent!StartRegister, Agent!StopCancel
    <2>3. CASE ~(Agent!StartRunning(x) \/ Agent!PromptRunning(x)
                 \/ Agent!CompleteWrite(x) \/ Agent!StopWrite(x)
                  \/ Agent!StartRegister(x) \/ Agent!StopCancel(x))
      <3>1. ctxDone' = ctxDone
        BY <1>2, <2>3, Zenon
        DEF Agent!Handle, Agent!StartLoad, Agent!StartSpawn, Agent!StartPreempt,
            Agent!StartPrompt, Agent!StartPersist, Agent!PromptLookup,
            Agent!PromptCheck, Agent!PromptSend, Agent!PromptPersist,
            Agent!StopLookup, Agent!StopKill, Agent!StopRead, Agent!CompleteRead
      <3> QED BY <3>1
    <2> QED BY <2>1, <2>2, <2>3
  <1>3. CASE x \in Adapters /\ Agent!Drain(x) /\ ~Agent!Shared(x)
    <2>1. CASE Agent!DrainTerminal(x)
      <3>1. ctxDone' = ctxDone \/ \E ok :
              Agent!UpdateWorkspace(x, agentWs[x], "awaiting_input", TRUE, ok)
        BY <2>1, Zenon DEF Agent!DrainTerminal
      <3> QED BY <1>3, <3>1, UpdateDone, AdapterFacts
    <2>2. CASE ~Agent!DrainTerminal(x)
      <3>1. ctxDone' = ctxDone
        BY <1>3, <2>2, Zenon
        DEF Agent!Drain, Agent!DrainSelect, Agent!DrainClosed,
            Agent!DrainPersist, Agent!DrainCostRead, Agent!DrainCostWrite
      <3> QED BY <3>1
    <2> QED BY <2>1, <2>2
  <1> QED BY <1>1, <1>2, <1>3

\* The other requests keep what they hold.
LEMMA StatusOthers ==
  ASSUME RoomInv, OneAtATime, StatusInv, NEW x \in Agent!Threads, NEW u \in Reqs, u # x,
         AgentMoves(x), AgentEffect(x), TurnStep(x), then'[u] = then[u],
         u \in ctxDone' => u \in ctxDone
  PROVE  StopHolds(u)' /\ CtxHeld(u)' /\ GivesQuiet(u)'
  <1>1. /\ UNCHANGED << agentPc[u], then[u], agentWs[u], ad[u] >>
        /\ agentPc[u] # "idle" => agentWs[u] \in Workspaces
        /\ StopHolds(u) /\ CtxHeld(u) /\ GivesQuiet(u)
    BY
    DEF AgentMoves, StatusInv, RoomInv, Agent!IInv, Agent!SessionInv,
        Agent!ThreadsInPlace, Agent!Threads
  <1>2. agentPc[u] # "idle" /\ x \in Reqs => agentWs[u] # agentWs[x]
    BY DEF OneAtATime, WorkOf, Idle, RoomInv, OneMethod, AgentMoves
  <1>3. StopHolds(u)'
    BY <1>1, <1>2 DEF StopHolds, AgentEffect
  <1>4. CtxHeld(u)'
    BY <1>1 DEF CtxHeld, Giving
  <1>5. GivesQuiet(u)'
    <2>1. SUFFICES ASSUME "prompt" \notin AgentFaults, Giving(u), NEW a \in Adapters,
                            Owes(a)', agentWs'[a] = agentWs[u] PROVE FALSE
      BY <1>1 DEF GivesQuiet, Giving, Quiet
    <2>2. agentPc[u] # "idle"
      BY <2>1 DEF Giving, Agent!FailSteps, Agent!CleanSteps
    <2> QED BY <1>1, <1>2, <2>1, <2>2 DEF TurnStep, NoMore, Opens, GivesQuiet, Quiet
  <1> QED BY <1>3, <1>4, <1>5

\* An agent that owes the end of a turn and has not been given up sees no status but
\* running, whatever a step in the agent manager writes.
LEMMA AgentNonLost ==
  ASSUME RoomInv, OneAtATime, TurnInv, StatusInv, NEW x \in Agent!Threads,
         AgentEffect(x), AgentMoves(x), TurnStep(x),
         x \in Adapters /\ status' # status => ~Owes(x)'
  PROVE  NonLost'
  <1>1. SUFFICES ASSUME "prompt" \notin AgentFaults, NEW a \in Adapters, Owes(a)',
                          ~Lost(a)'
                 PROVE  status'[agentWs'[a]] \in {"running", "none"}
    BY DEF NonLost
  <1>2. /\ agentWs[x] \in Workspaces /\ status \in [Workspaces -> Agent!Rows]
        /\ ~Lost(a)
    BY <1>1, LostStays
    DEF RoomInv, Agent!IInv, Agent!TypeOK, Agent!SessionInv,
        Agent!ThreadsInPlace, AgentMoves
  <1>3. CASE Opens(x, a)
    BY <1>3 DEF Opens, TurnInv, ReqPlace, Openings
  <1>4. CASE NoMore(a)
    <2>1. /\ Owes(a) /\ agentWs'[a] = agentWs[a] /\ agentWs[a] \in Workspaces
          /\ status[agentWs[a]] \in {"running", "none"}
      BY <1>1, <1>2, <1>4, OwesPlace DEF NoMore, StatusInv, NonLost, RoomInv
    <2>2. CASE status' = status \/ agentWs[a] # agentWs[x]
      BY <1>2, <2>1, <2>2 DEF TurnStep, StatusWrite
    <2>3. CASE status' # status /\ agentWs[a] = agentWs[x]
      <3>1. PICK s : /\ status' = [status EXCEPT ![agentWs[x]] = s]
                     /\ status[agentWs[x]] # "none"
                     /\ \/ agentPc[x] \in {"start.running", "prompt.running"}
                             /\ s = "running"
                        \/ agentPc[x] = "stop.write" /\ s = "cancelled"
                        \/ agentPc[x] = "complete.write" /\ s = "completed"
                        \/ agentPc[x] = "fail.write" /\ s = "failed"
                        \/ agentPc[x] = "drain.terminal" /\ s = "awaiting_input"
        BY <2>3 DEF TurnStep, StatusWrite
      <3>2. CASE x \in Reqs
        <4>1. agentPc[x] # "stop.write"
          BY <1>2, <2>1, <2>3, <3>2, StopGaveUp
        <4>2. agentPc[x] # "complete.write"
          BY <2>1, <2>3, <3>1, <3>2 DEF TurnInv, ReqPlace, Ready
        <4>3. agentPc[x] # "fail.write"
          BY <1>1, <2>1, <2>3, <3>2
          DEF StatusInv, GivesQuiet, Giving, Quiet, Agent!FailSteps
        <4>4. agentPc[x] # "drain.terminal"
          BY <3>2
          DEF RoomInv, Agent!IInv, Agent!SessionInv, Agent!ThreadsInPlace,
              Agent!DrainSteps
        <4> QED BY <1>2, <2>1, <2>3, <3>1, <4>1, <4>2, <4>3, <4>4
      <3>3. CASE x \in Adapters
        <4>1. agentPc[x] \in {"fail.write", "drain.terminal"}
          BY <3>1, <3>3
          DEF RoomInv, Agent!IInv, Agent!SessionInv, Agent!ThreadsInPlace,
              Agent!DrainSteps, Agent!FailSteps, Agent!CleanSteps
        <4>2. a = x
          BY <2>1, <2>3, <3>3, <4>1, WriterOwes DEF TurnInv, OwesInv
        <4> QED BY <1>1, <2>3, <3>3, <4>2
      <3> QED BY <3>2, <3>3 DEF Agent!Threads
    <2> QED BY <2>2, <2>3
  <1> QED BY <1>3, <1>4 DEF TurnStep

\* A step of a request or of a drain in the agent manager preserves StatusInv.
LEMMA AgentThreadStatus ==
  ASSUME RoomInv, OneAtATime, TurnInv, StatusInv, NEW x \in Agent!Threads,
         (x \in Reqs /\ Agent!Handle(x)) \/ (x \in Adapters /\ Agent!Drain(x)),
         UNCHANGED << gitVars, handlerVars >>
  PROVE  StatusInv'
  <1>1. AgentMoves(x) /\ AgentEffect(x) /\ TurnStep(x)
    BY AgentThread, AgentEffects, AgentThreadTurn DEF RoomInv
  <1>2. x \in Adapters /\ status' # status => ~Owes(x)'
    BY WriterOnly, AdapterFacts DEF RoomInv
  <1>3. NonLost'
    BY <1>1, <1>2, AgentNonLost
  <1>4. ASSUME NEW u \in Reqs PROVE StopHolds(u)' /\ CtxHeld(u)' /\ GivesQuiet(u)'
    <2>1. CASE u = x
      BY <1>1, <2>1, StatusOwn, AdapterFacts
    <2>2. CASE u # x
      <3>1. then'[u] = then[u] /\ (u \in ctxDone' => u \in ctxDone)
        BY <2>2, ThenKept, CtxStep DEF RoomInv, Agent!Threads
      <3> QED BY <1>1, <2>2, <3>1, StatusOthers
    <2> QED BY <2>1, <2>2
  <1>5. SweepFine'
    BY <1>1 DEF StatusInv, SweepFine, AgentMoves
  <1> QED BY <1>3, <1>4, <1>5 DEF StatusInv

-----------------------------------------------------------------------------
(* The workspace manager, the handlers and the agents.                     *)

\* A step outside the agent manager
LEMMA SideStatus ==
  ASSUME StatusInv, UNCHANGED agentVars,
         "prompt" \notin AgentFaults =>
           \A a \in Adapters : Owes(a) /\ ~Lost(a)
             => status'[agentWs[a]] \in {"running", "none"},
         SweepFine'
  PROVE  StatusInv'
  <1>1. UNCHANGED << sessions, ctxDone, agentPc, then, agentWs, ad, life, turn, chan,
          ev >>
    BY DEF agentVars
  <1>2. \A a \in Adapters : (Owes(a)' <=> Owes(a)) /\ (Lost(a)' <=> Lost(a))
    BY <1>1
    DEF Owes, Outstanding, Agent!HasSession, Taken, Failing, NoDone, Lost
  <1>3. NonLost'
    BY <1>1, <1>2 DEF NonLost
  <1>4. ASSUME NEW u \in Reqs PROVE StopHolds(u)' /\ CtxHeld(u)' /\ GivesQuiet(u)'
    <2>1. StopHolds(u) /\ CtxHeld(u) /\ GivesQuiet(u)
      BY DEF StatusInv
    <2>2. StopHolds(u)' /\ CtxHeld(u)'
      BY <1>1, <2>1 DEF StopHolds, CtxHeld, Giving
    <2>3. GivesQuiet(u)'
      BY <1>1, <1>2, <2>1 DEF GivesQuiet, Giving, Quiet
    <2> QED BY <2>2, <2>3
  <1> QED BY <1>3, <1>4 DEF StatusInv

\* So does a step that leaves the status and the agents alone.
LEMMA QuietStatus ==
  ASSUME StatusInv, UNCHANGED << agentVars, status, sweep >>
  PROVE  StatusInv'
  <1>1. SweepFine'
    BY DEF StatusInv, SweepFine, agentVars
  <1> QED BY <1>1, SideStatus DEF StatusInv, NonLost

\* A step of the workspace manager preserves StatusInv: a Cancel finds no agent that
\* owes the end of a turn.
LEMMA GitStepStatus ==
  ASSUME RoomInv, OneAtATime, SafeInv, TurnInv, StatusInv, NEW t \in Reqs, GitStep(t)
  PROVE  StatusInv'
  <1>1. CASE pc[t] = "create.insert" /\ ~project
    BY <1>1, QuietStatus DEF GitStep, bootVars
  <1>2. CASE Git!Handle(t) /\ (pc[t] = "create.insert" => project)
    <2>1. /\ GitWrite(t) /\ GitMoves(t) /\ UNCHANGED agentVars
          /\ pc[t] # "idle" /\ GitPlace(t)
      BY <1>2, GitHandleWrites, GitHandleMoves DEF GitStep, GitMoves, TurnInv
    <2>2. sweep = {} /\ sweep' = {}
      BY <2>1 DEF GitMoves, RoomInv, Boot, Idle
    <2>3. ASSUME "prompt" \notin AgentFaults, NEW a \in Adapters, Owes(a), ~Lost(a)
          PROVE  status'[agentWs[a]] \in {"running", "none"}
      <3>1. /\ agentWs[a] \in Workspaces /\ status[agentWs[a]] \in {"running", "none"}
            /\ ws[t] \in Workspaces /\ status \in [Workspaces -> Agent!Rows]
        BY <2>1, <2>3, OwesPlace
        DEF RoomInv, Heard, Agent!IInv, Agent!TypeOK, StatusInv, NonLost
      <3>2. CASE status' = status \/ agentWs[a] # ws[t]
        BY <2>1, <3>1, <3>2 DEF GitWrite
      <3>3. CASE status' # status /\ agentWs[a] = ws[t]
        <4>1. PICK s : << pc[t], s >> \in GitWrites
          BY <2>1, <3>3 DEF GitWrite
        <4>2. pc[t] # "create.insert"
          <5>1. Known(agentWs[a])
            BY <3>1 DEF RoomInv, Heard, Agent!Threads
          <5> QED BY <1>2, <3>3, <5>1 DEF RoomInv, RowsStay
        <4>3. pc[t] # "cancel.write"
          BY <2>3, <3>3, CancelGaveUp
        <4> QED BY <2>1, <3>1, <3>3, <4>1, <4>2, <4>3 DEF GitPlace, GitWrites
      <3> QED BY <3>2, <3>3
    <2>4. SweepFine'
      BY <2>2 DEF SweepFine
    <2> QED BY <2>1, <2>3, <2>4, SideStatus
  <1> QED BY <1>1, <1>2 DEF GitStep, RoomInv, HandlerTypes

\* handleDeleteProject deletes the rows.
LEMMA DeleteRowsStatus ==
  ASSUME RoomInv, StatusInv, NEW t \in Reqs, DeleteRows(t)
  PROVE  StatusInv'
  <1>1. /\ next[t] = "cleanup" /\ status' = [w \in Workspaces |-> "none"]
        /\ UNCHANGED << agentVars, sweep >>
    BY DEF DeleteRows, bootVars
  <1>2. sweep = {}
    BY <1>1 DEF RoomInv, Boot, Idle
  <1>3. \A a \in Adapters : Owes(a) => status'[agentWs[a]] = "none"
    BY <1>1, OwesPlace DEF RoomInv
  <1> QED BY <1>1, <1>2, <1>3, SideStatus DEF SweepFine

\* The orphan sweep of a boot writes one row.
LEMMA SweepRowStatus ==
  ASSUME RoomInv, StatusInv, NEW w \in Workspaces, SweepRow(w)
  PROVE  StatusInv'
  <1>1. /\ w \in sweep /\ status' = [status EXCEPT ![w] = "failed"]
             /\ sweep' = sweep \ {w}
        /\ UNCHANGED agentVars
    BY DEF SweepRow, Agent!SweepRow, Git!SweepRow, agentVars
  <1>2. /\ \A x \in Agent!Threads : agentPc[x] = "idle"
        /\ \A v \in sweep : status[v] \in Git!Swept
    BY <1>1 DEF StatusInv, SweepFine
  <1>3. \A a \in Adapters : ~Owes(a)
    BY <1>2 DEF Owes, Agent!HasSession, Agent!Threads
  <1>4. SweepFine'
    BY <1>1, <1>2 DEF SweepFine, agentVars, RoomInv, Agent!IInv, Agent!TypeOK
  <1> QED BY <1>1, <1>3, <1>4, SideStatus

\* A subprocess speaks, ends its turn or exits.
LEMMA ProcessStatus ==
  ASSUME RoomInv, TurnInv, StatusInv, NEW b \in Adapters, Agent!Agent(b),
           UNCHANGED << gitVars, handlerVars >>
  PROVE  StatusInv'
  <1>1. \A a \in Adapters : NoMore(a)
    BY ProcessTurn
  <1>2. UNCHANGED << status, sessions, ctxDone, agentPc, then, agentWs, ad, sweep >>
    BY
    DEF Agent!Agent, Agent!Talk, Agent!FinishTurn, Agent!ProcessExit, Agent!Emit
  <1>3. NonLost' /\ SweepFine'
    BY <1>1, <1>2 DEF StatusInv, NonLost, SweepFine, NoMore, Lost
  <1>4. ASSUME NEW u \in Reqs PROVE StopHolds(u)' /\ CtxHeld(u)' /\ GivesQuiet(u)'
    <2>1. StopHolds(u) /\ CtxHeld(u) /\ GivesQuiet(u)
      BY DEF StatusInv
    <2>2. StopHolds(u)' /\ CtxHeld(u)'
      BY <1>2, <2>1 DEF StopHolds, CtxHeld, Giving
    <2>3. GivesQuiet(u)'
      BY <1>1, <1>2, <2>1 DEF GivesQuiet, Giving, Quiet, NoMore
    <2> QED BY <2>2, <2>3
  <1> QED BY <1>3, <1>4 DEF StatusInv

\* A request enters the agent manager.
LEMMA RequestStatus ==
  ASSUME RoomInv, TurnInv, StatusInv, NEW t \in Reqs, NEW w \in Workspaces,
         NEW op \in {"start", "prompt", "stop", "complete"}, Agent!Request(t, op, w),
         UNCHANGED gitVars
  PROVE  StatusInv'
  <1>1. /\ UNCHANGED << status, sessions, then, turn, chan, life, ev, sweep >>
             /\ agentPc[t] = "idle"
        /\ agentPc'[t] \in {"start.load", "prompt.lookup", "stop.lookup",
             "complete.read"}
        /\ sweep = {} /\ ctxDone' = ctxDone \ {t}
        /\ \A y \in Agent!Threads : y # t =>
             agentPc'[y] = agentPc[y] /\ agentWs'[y] = agentWs[y] /\ ad'[y] = ad[y]
    BY
    DEF Agent!Request, Agent!Goto, RoomInv, Agent!IInv, Agent!TypeOK,
        Agent!Threads
  <1>2. ASSUME NEW a \in Adapters PROVE NoMore(a)
    <2>1. Same(a)
      BY <1>1, AdapterFacts DEF Same, Fresh, Agent!HasSession, Agent!Threads
    <2> QED BY <2>1, SameNoMore DEF TurnInv
  <1>3. \A a \in Adapters : Lost(a) => Lost(a)'
    BY <1>1, AdapterFacts DEF Lost, Agent!Threads
  <1>4. NonLost' /\ SweepFine'
    BY <1>1, <1>2, <1>3 DEF StatusInv, NonLost, SweepFine, NoMore
  <1>5. ASSUME NEW u \in Reqs PROVE StopHolds(u)' /\ CtxHeld(u)' /\ GivesQuiet(u)'
    <2>1. StopHolds(u) /\ CtxHeld(u) /\ GivesQuiet(u)
      BY DEF StatusInv
    <2>2. CASE u = t
      <3>1. ~Giving(u)'
        BY <1>1, <2>2 DEF Giving, Agent!FailSteps, Agent!CleanSteps
      <3>2. StopHolds(u)' /\ CtxHeld(u)' /\ GivesQuiet(u)'
        BY <1>1, <2>2, <3>1 DEF StopHolds, CtxHeld, GivesQuiet
      <3> QED BY <3>2
    <2>3. CASE u # t
      <3>1. UNCHANGED << agentPc[u], agentWs[u], ad[u] >>
        BY <1>1, <2>3 DEF Agent!Threads
      <3>2. StopHolds(u)' /\ CtxHeld(u)'
        BY <1>1, <2>1, <3>1, AdapterFacts DEF StopHolds, CtxHeld, Giving
      <3>3. GivesQuiet(u)'
        BY <1>1, <1>2, <2>1, <3>1 DEF GivesQuiet, Giving, Quiet, NoMore
      <3> QED BY <3>2, <3>3
    <2> QED BY <2>2, <2>3
  <1> QED BY <1>4, <1>5 DEF StatusInv

\* StatusInv holds of a server that has just been created.
LEMMA NewStatus ==
  JustCreated /\ (\A w \in sweep : status[w] \in Git!Swept) => StatusInv
  <1> SUFFICES ASSUME JustCreated, \A w \in sweep : status[w] \in Git!Swept
               PROVE StatusInv
    OBVIOUS
  <1>1. (\A x \in Agent!Threads : agentPc[x] = "idle" /\ then[x] = "idle")
          /\ ctxDone = {}
    BY DEF JustCreated, NoAgents
  <1>2. \A a \in Adapters : ~Owes(a)
    BY <1>1 DEF Owes, Agent!HasSession, Agent!Threads
  <1>3. ASSUME NEW t \in Reqs PROVE StopHolds(t) /\ CtxHeld(t) /\ GivesQuiet(t)
    BY <1>1, <1>2
    DEF StopHolds, CtxHeld, GivesQuiet, Giving, Quiet, Agent!Threads,
        Agent!FailSteps, Agent!CleanSteps
  <1> QED BY <1>1, <1>2, <1>3 DEF StatusInv, NonLost, SweepFine

\* So it does after a crash.
LEMMA CrashStatus == ASSUME Crash PROVE StatusInv'
  <1>1. JustCreated'
    BY DEF Crash, Agent!Crash, Git!Crash, NoAgents, JustCreated
  <1>2. (\A w \in sweep : status[w] \in Git!Swept)'
    BY DEF Crash, Git!Crash
  <1> QED BY <1>1, <1>2, NewStatus, PTL

\* And in the beginning.
LEMMA InitStatus == Init => StatusInv
  <1>1. Init => JustCreated /\ sweep = {}
    BY
    DEF Init, NewAgent!Init, NewAgent!Threads, NoAgents, Agent!Threads,
        Git!Init, JustCreated
  <1> QED BY <1>1, NewStatus

\* Every step preserves StatusInv.
LEMMA NextStatus ==
  ASSUME RoomInv, OneAtATime, SafeInv, TurnInv, StatusInv, [Next]_vars
  PROVE  StatusInv'
  <1>1. ASSUME NEW t \in Reqs, NEW w \in Workspaces, NEW op \in Ops,
                 AgentRequest(t, op, w)
        PROVE  StatusInv'
    BY <1>1, RequestStatus DEF AgentRequest
  <1>2. ASSUME NEW t \in Reqs, NEW w \in Workspaces, NEW op \in Ops,
                 GitRequest(t, op, w)
        PROVE  StatusInv'
    BY <1>2, GitEnters, QuietStatus DEF GitRequest, RoomInv
  <1>3. ASSUME NEW t \in Reqs, NEW w \in Workspaces, StopRequest(t, w)
        PROVE  StatusInv'
    BY <1>3, RequestStatus DEF StopRequest
  <1>4. ASSUME NEW t \in Reqs, DeleteList(t) PROVE StatusInv'
    BY <1>4, QuietStatus DEF DeleteList, bootVars
  <1>5. ASSUME NEW t \in Reqs, Handle(t) PROVE StatusInv'
    <2>1. CASE AgentStep(t)
      BY <2>1, AgentThreadStatus DEF AgentStep, Agent!Threads
    <2>2. CASE GitStep(t)
      BY <2>2, GitStepStatus
    <2>3. CASE StopCancel(t)
      <3>1. agentWs[t] \in Workspaces /\ UNCHANGED agentVars
        BY <2>3 DEF StopCancel, RoomInv, OneMethod
      <3>2. CASE Git!Request(t, "cancel", agentWs[t])
        BY <3>1, <3>2, GitEnters, QuietStatus DEF RoomInv
      <3>3. CASE UNCHANGED << status, bootVars, gitVars >>
        BY <3>1, <3>3, QuietStatus DEF bootVars
      <3> QED BY <2>3, <3>2, <3>3 DEF StopCancel
    <2>4. CASE DeleteRows(t)
      BY <2>4, DeleteRowsStatus
    <2>5. CASE \E w \in Workspaces : DeleteCleanup(t, w)
      BY <2>5, QuietStatus DEF DeleteCleanup, bootVars
    <2> QED BY <1>5, <2>1, <2>2, <2>3, <2>4, <2>5 DEF Handle
  <1>6. ASSUME NEW a \in Adapters, Background(a) PROVE StatusInv'
    BY <1>6, AgentThreadStatus, ProcessStatus DEF Background, Agent!Threads
  <1>7. CASE World
    BY <1>7, QuietStatus
    DEF World, Git!Commit, Git!Resolve, Git!UserCommit, Git!Tick
  <1>8. CASE UNCHANGED vars
    BY <1>8, QuietStatus DEF vars, bootVars
  <1> QED
      BY <1>1, <1>2, <1>3, <1>4, <1>5, <1>6, <1>7, <1>8, SweepRowStatus,
         CrashStatus
      DEF Next

-----------------------------------------------------------------------------
(* The transitions.                                                        *)

\* The status of w changes only as StatusMoves says.
StatusMove(w) ==
  status'[w] # status[w] =>
     \/ status[w] = "none" /\ status'[w] = "queued"
     \/ status'[w] = "none" /\ \E t \in Reqs : next[t] = "cleanup"
     \/ Exists(w) /\ Exists(w)' /\ CanTransition(status[w], status'[w])
     \/ Exists(w) /\ ~IsTerminal(status[w]) /\ status'[w] = "failed"
     \/ \E a \in Adapters :
          /\ agentWs[a] = w /\ Lost(a)
          /\ agentPc[a] \in {"drain.terminal", "fail.write"}
          /\ agentPc'[a] # agentPc[a]
     \/ /\ status'[w] = "cancelled"
        /\ \E t \in Reqs :
             \/ agentPc[t] = "stop.write" /\ agentWs[t] = w
             \/ pc[t] = "cancel.write" /\ ws[t] = w

\* A drain that writes the status moves it as the table allows, unless its agent has
\* been given up.
LEMMA DrainMove ==
  ASSUME "prompt" \notin AgentFaults, RoomInv, StatusInv, NEW x \in Adapters,
         agentPc[x] \in {"drain.terminal", "fail.write"}, ~Owes(x)',
         status' = [status EXCEPT ![agentWs[x]] =
                      IF agentPc[x] = "fail.write" THEN "failed" ELSE "awaiting_input"],
         status[agentWs[x]] # "none",
         NEW w \in Workspaces
  PROVE  StatusMove(w)
  <1>1. Owes(x) /\ agentWs[x] \in Workspaces /\ status \in [Workspaces -> Agent!Rows]
    BY WriterOwes, OwesPlace DEF RoomInv, Agent!IInv, Agent!TypeOK
  <1>2. agentPc'[x] # agentPc[x]
    BY DEF Owes, Agent!HasSession, Outstanding, Taken, Failing, Agent!FailSteps
  <1>3. CASE w = agentWs[x]
    <2>1. CASE Lost(x)
      BY <1>2, <1>3, <2>1 DEF StatusMove
    <2>2. CASE ~Lost(x)
      <3>1. status[w] = "running" /\ status'[w] \in {"failed", "awaiting_input"}
        BY <1>1, <1>3, <2>2 DEF StatusInv, NonLost
      <3> QED BY <3>1, Moves DEF StatusMove, Exists
    <2> QED BY <2>1, <2>2
  <1>4. CASE w # agentWs[x]
    BY <1>1, <1>4 DEF StatusMove
  <1> QED BY <1>3, <1>4

\* A request in the agent manager finds the status it has checked.
LEMMA RequestMove ==
  ASSUME RoomInv, TurnInv, NEW x \in Reqs, StatusWrite(x), agentPc[x] # "idle",
         NEW w \in Workspaces
  PROVE  StatusMove(w)
  <1>1. /\ agentWs[x] \in Workspaces /\ status \in [Workspaces -> Agent!Rows]
        /\ agentPc[x] # "drain.terminal" /\ ReqPlace(x)
    BY
    DEF RoomInv, Agent!IInv, Agent!TypeOK, Agent!SessionInv,
        Agent!ThreadsInPlace, Agent!Threads, Agent!DrainSteps, TurnInv
  <1>2. SUFFICES ASSUME w = agentWs[x], status' # status PROVE StatusMove(w)
    BY <1>1 DEF StatusMove, StatusWrite
  <1>3. CASE agentPc[x] \in {"start.running", "prompt.running"}
               /\ status'[w] = "running"
    <2>1. status[w] \in Ready
      BY <1>1, <1>2, <1>3 DEF ReqPlace
    <2> QED BY <1>3, <2>1, Moves DEF StatusMove, Exists, Ready
  <1>4. CASE agentPc[x] = "stop.write" /\ status'[w] = "cancelled"
    BY <1>2, <1>4 DEF StatusMove
  <1>5. CASE agentPc[x] = "complete.write" /\ status'[w] = "completed"
    <2>1. status[w] \in Ready \cup {"resolving_conflict"}
      BY <1>1, <1>2, <1>5 DEF ReqPlace
    <2> QED BY <1>5, <2>1, Moves DEF StatusMove, Exists, Ready
  <1>6. CASE agentPc[x] = "fail.write" /\ status'[w] = "failed"
    <2>1. status[w] \in Ready \cup {"running", "failed"}
      BY <1>1, <1>2, <1>6 DEF ReqPlace, Giving, Agent!FailSteps
    <2> QED BY <1>6, <2>1 DEF StatusMove, Exists, Ready, IsTerminal
  <1> QED BY <1>1, <1>2, <1>3, <1>4, <1>5, <1>6 DEF StatusWrite

\* A step of the agent manager moves the statuses as StatusMoves says.
LEMMA AgentThreadMove ==
  ASSUME "prompt" \notin AgentFaults, RoomInv, OneAtATime, TurnInv, StatusInv,
           NEW x \in Agent!Threads,
         (x \in Reqs /\ Agent!Handle(x)) \/ (x \in Adapters /\ Agent!Drain(x)),
         UNCHANGED << gitVars, handlerVars >>, NEW w \in Workspaces
  PROVE  StatusMove(w)
  <1>1. AgentMoves(x) /\ StatusWrite(x)
    BY AgentThread, AgentThreadTurn DEF RoomInv, TurnStep
  <1>2. CASE x \in Reqs
    BY <1>1, <1>2, RequestMove DEF AgentMoves
  <1>3. CASE x \in Adapters
    <2>1. CASE status' = status
      BY <2>1 DEF StatusMove
    <2>2. CASE status' # status
      <3>1. ~Owes(x)' /\ agentPc[x] \in {"drain.terminal", "fail.write"}
        BY <1>3, <2>2, WriterOnly, AdapterFacts DEF RoomInv
      <3> QED BY <1>1, <1>3, <2>2, <3>1, DrainMove DEF StatusWrite
    <2> QED BY <2>1, <2>2
  <1> QED BY <1>2, <1>3 DEF Agent!Threads

\* So does a step of the workspace manager.
LEMMA GitStepMove ==
  ASSUME RoomInv, OneAtATime, TurnInv, NEW t \in Reqs, GitStep(t), NEW w \in Workspaces
  PROVE  StatusMove(w)
  <1>1. CASE pc[t] = "create.insert" /\ ~project
    BY <1>1 DEF GitStep, StatusMove
  <1>2. CASE Git!Handle(t) /\ (pc[t] = "create.insert" => project)
    <2>1. /\ GitWrite(t) /\ pc[t] # "idle" /\ GitPlace(t)
          /\ status \in [Workspaces -> Agent!Rows] /\ ws[t] \in Workspaces
      BY <1>2, GitHandleWrites, GitHandleMoves
      DEF GitStep, GitMoves, TurnInv, RoomInv, Heard, Agent!IInv, Agent!TypeOK
    <2>2. SUFFICES ASSUME w = ws[t], status' # status PROVE StatusMove(w)
      BY <2>1 DEF StatusMove, GitWrite
    <2>3. PICK s : s = status'[w] /\ << pc[t], s >> \in GitWrites
      BY <2>1, <2>2 DEF GitWrite
    <2>4. CASE pc[t] = "create.insert" /\ s = "queued"
      <3>1. status[w] = "none"
        BY <1>2, <2>2, <2>4 DEF RoomInv, RowsStay, Heard, Known, Exists
      <3> QED BY <2>3, <2>4, <3>1 DEF StatusMove
    <2>5. CASE pc[t] = "prepare.preparing" /\ s = "preparing"
      BY <2>1, <2>2, <2>3, <2>5, Moves DEF StatusMove, GitPlace, Exists
    <2>6. CASE << pc[t], s >> \in {<< "prepare.failed", "failed" >>,
                 << "prepare.idle", "idle" >>}
      BY <2>1, <2>2, <2>3, <2>6, Moves DEF StatusMove, GitPlace, Exists
    <2>7. CASE pc[t] = "cancel.write" /\ s = "cancelled"
      BY <2>2, <2>3, <2>7 DEF StatusMove
    <2>8. CASE << pc[t], s >> \in {<< "merge.merged", "merged" >>,
                 << "merge.conflict", "conflict_stuck" >>}
      BY <2>1, <2>2, <2>3, <2>8, Moves DEF StatusMove, GitPlace, Exists
    <2> QED BY <2>3, <2>4, <2>5, <2>6, <2>7, <2>8 DEF GitWrites
  <1> QED BY <1>1, <1>2 DEF GitStep, RoomInv, HandlerTypes

\* The orphan sweep fails what is not terminal.
LEMMA SweepRowMove ==
  ASSUME RoomInv, StatusInv, NEW v \in Workspaces, SweepRow(v), NEW w \in Workspaces
  PROVE  StatusMove(w)
  <1>1. v \in sweep /\ status' = [status EXCEPT ![v] = "failed"]
          /\ status \in [Workspaces -> Agent!Rows]
    BY
    DEF SweepRow, Agent!SweepRow, Git!SweepRow, RoomInv, Agent!IInv,
        Agent!TypeOK
  <1>2. status[v] \in Git!Swept
    BY <1>1 DEF StatusInv, SweepFine
  <1> QED BY <1>1, <1>2 DEF StatusMove, Exists, IsTerminal, Git!Swept

\* A step that leaves the statuses alone.
LEMMA StillMove == ASSUME status' = status, NEW w \in Workspaces PROVE StatusMove(w)
  BY DEF StatusMove

\* Every step moves the statuses as StatusMoves says.
LEMMA NextMove ==
  ASSUME "prompt" \notin AgentFaults, RoomInv, OneAtATime, TurnInv, StatusInv,
           [Next]_vars, NEW w \in Workspaces
  PROVE  StatusMove(w)
  <1>1. ASSUME NEW t \in Reqs, NEW v \in Workspaces, NEW op \in Ops,
                 AgentRequest(t, op, v)
        PROVE  StatusMove(w)
    BY <1>1, StillMove DEF AgentRequest, Agent!Request
  <1>2. ASSUME NEW t \in Reqs, NEW v \in Workspaces, NEW op \in Ops,
                 GitRequest(t, op, v)
        PROVE  StatusMove(w)
    BY <1>2, StillMove, GitEnters DEF GitRequest, RoomInv
  <1>3. ASSUME NEW t \in Reqs, NEW v \in Workspaces, StopRequest(t, v)
        PROVE StatusMove(w)
    BY <1>3, StillMove DEF StopRequest, Agent!Request
  <1>4. ASSUME NEW t \in Reqs, DeleteList(t) PROVE StatusMove(w)
    BY <1>4, StillMove DEF DeleteList
  <1>5. ASSUME NEW t \in Reqs, Handle(t) PROVE StatusMove(w)
    <2>1. CASE AgentStep(t)
      BY <2>1, AgentThreadMove DEF AgentStep, Agent!Threads
    <2>2. CASE GitStep(t)
      BY <2>2, GitStepMove
    <2>3. CASE StopCancel(t)
      <3>1. agentWs[t] \in Workspaces
        BY <2>3 DEF StopCancel, RoomInv, OneMethod
      <3>2. status' = status
        BY <2>3, <3>1, GitEnters DEF StopCancel, RoomInv
      <3> QED BY <3>2, StillMove
    <2>4. CASE DeleteRows(t)
      BY <2>4 DEF DeleteRows, StatusMove
    <2>5. CASE \E v \in Workspaces : DeleteCleanup(t, v)
      BY <2>5, StillMove DEF DeleteCleanup
    <2> QED BY <1>5, <2>1, <2>2, <2>3, <2>4, <2>5 DEF Handle
  <1>6. ASSUME NEW a \in Adapters, Background(a) PROVE StatusMove(w)
    <2>1. CASE Agent!Agent(a)
      BY <2>1, StillMove
      DEF Agent!Agent, Agent!Talk, Agent!FinishTurn, Agent!ProcessExit,
          Agent!Emit
    <2>2. CASE Agent!Drain(a)
      BY <1>6, <2>2, AgentThreadMove DEF Background, Agent!Threads
    <2> QED BY <1>6, <2>1, <2>2 DEF Background
  <1>7. CASE World
    BY <1>7, StillMove
    DEF World, Git!Commit, Git!Resolve, Git!UserCommit, Git!Tick
  <1>8. CASE UNCHANGED vars
    BY <1>8, StillMove DEF vars
  <1>9. CASE Crash
    BY <1>9, StillMove DEF Crash, Git!Crash, Agent!Crash
  <1> QED BY <1>1, <1>2, <1>3, <1>4, <1>5, <1>6, <1>7, <1>8, <1>9, SweepRowMove DEF Next

\* While the requests at work are at different workspaces, and if no agent refuses a
\* prompt it has taken, a status follows another one only if the table of transitions
\* allows it, with the exceptions that StatusMoves lists: the drain of an agent given
\* up by a Stop is the only one to write over a status that it has not checked.
\* An agent that takes a prompt and then answers with an error makes SendPrompt report
\* a failure, the workspace failed, and the end of its turn awaiting_input again.
THEOREM StatusesMove ==
  "prompt" \notin AgentFaults => (Spec /\ []OneAtATime => StatusMoves)
  <1> SUFFICES ASSUME "prompt" \notin AgentFaults
               PROVE Spec /\ []OneAtATime => StatusMoves
    OBVIOUS
  <1>1. Init => RoomInv /\ SafeInv /\ TurnInv /\ StatusInv
    BY InitRoom, InitSafe, InitTurn, InitStatus
  <1>2. RoomInv /\ SafeInv /\ TurnInv /\ StatusInv /\ OneAtATime /\ [Next]_vars
          => (RoomInv /\ SafeInv /\ TurnInv /\ StatusInv)'
    BY NextRoom, NextSafe, NextTurn, NextStatus, AloneAtATime
  <1>3. ASSUME RoomInv, TurnInv, StatusInv, OneAtATime, [Next]_vars
        PROVE  \A w \in Workspaces : status'[w] # status[w] =>
                 \/ status[w] = "none" /\ status'[w] = "queued"
                 \/ status'[w] = "none" /\ \E t \in Reqs : next[t] = "cleanup"
                 \/ Exists(w) /\ Exists(w)' /\ CanTransition(status[w], status'[w])
                 \/ Exists(w) /\ ~IsTerminal(status[w]) /\ status'[w] = "failed"
                 \/ \E a \in Adapters :
                      /\ agentWs[a] = w /\ Lost(a)
                      /\ agentPc[a] \in {"drain.terminal", "fail.write"}
                      /\ agentPc'[a] # agentPc[a]
                 \/ /\ status'[w] = "cancelled"
                    /\ \E t \in Reqs :
                         \/ agentPc[t] = "stop.write" /\ agentWs[t] = w
                         \/ pc[t] = "cancel.write" /\ ws[t] = w
    BY <1>3, NextMove DEF StatusMove
  <1> QED BY <1>1, <1>2, <1>3, PTL DEF Spec, StatusMoves

-----------------------------------------------------------------------------
(* The worktrees. HouseInv says that a workspace which is in use, or which *)
(* a drain may still bring back into use, has its worktree.                *)

\* Something is left that makes the drain of a write a status with which the workspace
\* lives on: a turn that runs, or the end of one.
Pending(a) == turn[a] > 0 \/ ~NoDone(chan[a]) \/ Taken(a)

\* And the drain would write it: the agent's session has not been cancelled.
Revives(a) == Agent!HasSession(a) /\ Pending(a)

\* Thread x is about to send a prompt to its adapter a.
Sends(x, a) ==
  /\ x \in Reqs /\ agentPc[x] \in {"start.prompt", "prompt.send"} /\ ad[x] = a
  /\ life'[a] = "live"

\* What a step of thread x does to what is pending.
PendStep(x) ==
  \A a \in Adapters :
    /\ Pending(a)' => Pending(a) \/ Sends(x, a)
    /\ life[a] = "live" /\ life'[a] # "live" =>
         /\ x \in Reqs /\ ad[x] = a
         /\ \/ agentPc[x] = "start.running"
            \/ agentPc[x] = "start.preempt" /\ life'[a] = "preempted"
            \/ agentPc[x] = "stop.kill" /\ agentPc'[x] = "stop.read"

\* A step that leaves the phase, the turns, the channels and the drains alone.
LEMMA PendPlain ==
  ASSUME NEW x, UNCHANGED << chan, turn, ev >>,
         \A a \in Adapters : life[a] = "live" => life'[a] = "live",
         \A a \in Adapters : agentPc'[a] \in {"drain.persist", "drain.terminal"}
           => agentPc'[a] = agentPc[a]
  PROVE  PendStep(x)
  BY DEF PendStep, Pending, NoDone, Taken

\* Manager.Stop cancels the session and closes the channel.
LEMMA PendStop ==
  ASSUME Agent!IInv, NEW x \in Reqs, NEW b \in Adapters, ad[x] = b, NEW how,
           Agent!AdapterStop(b, how),
         UNCHANGED ev,
         \A a \in Adapters : agentPc'[a] = agentPc[a],
         \/ agentPc[x] = "start.running"
         \/ agentPc[x] = "start.preempt" /\ how = "preempted"
         \/ agentPc[x] = "stop.kill" /\ agentPc'[x] = "stop.read"
  PROVE  PendStep(x)
  <1>1. /\ turn' = [turn EXCEPT ![b] = 0] /\ UNCHANGED chan
        /\ life' = [life EXCEPT ![b] = IF Agent!Closed(b) THEN @ ELSE how]
        /\ turn \in [Adapters -> 0..MaxTurns] /\ life \in [Adapters -> Agent!Life]
    BY DEF Agent!AdapterStop, Agent!IInv, Agent!TypeOK
  <1>2. \A a \in Adapters : Pending(a)' => Pending(a)
    BY <1>1 DEF Pending, NoDone, Taken
  <1> QED BY <1>1, <1>2 DEF PendStep, Agent!Closed

\* A prompt is sent.
LEMMA PendSend ==
  ASSUME Agent!IInv, NEW x \in Reqs, agentPc[x] \in {"start.prompt", "prompt.send"},
         NEW b \in Adapters, ad[x] = b, NEW ok, Agent!AdapterSendPrompt(x, b, ok),
         UNCHANGED ev, \A a \in Adapters : agentPc'[a] = agentPc[a]
  PROVE  PendStep(x)
  <1>1. /\ UNCHANGED << life, chan >>
        /\ \A a \in Adapters : a # b => turn'[a] = turn[a]
        /\ turn' = turn \/ life[b] = "live"
    BY SendEffect
  <1> QED BY <1>1 DEF PendStep, Pending, Sends, NoDone, Taken

\* The steps of a request
LEMMA PendRequest ==
  ASSUME Agent!IInv, NEW x \in Reqs, Agent!Handle(x)
  PROVE  PendStep(x)
  <1>1. CASE Agent!StartPersist(x)
    <2>1. ad[x] \in Adapters
      BY <1>1
      DEF Agent!StartPersist, Agent!IInv, Agent!SessionInv, Agent!AdaptersHeld,
          Agent!HoldingSteps
    <2>2. \A a \in Adapters : agentPc'[a] \in {"drain.persist", "drain.terminal"}
            => agentPc'[a] = agentPc[a]
      BY <1>1, <2>1, AdapterFacts
      DEF Agent!StartPersist, Agent!IInv, Agent!TypeOK, Agent!Threads
    <2> QED BY <1>1, <2>2, PendPlain DEF Agent!StartPersist
  <1>2. CASE ~Agent!StartPersist(x)
    <2>1. \E s : agentPc' = [agentPc EXCEPT ![x] = s]
      BY <1>2, Zenon
      DEF Agent!Handle, Agent!Shared, Agent!FailRead, Agent!FailWrite,
          Agent!CleanDelete, Agent!CleanCancel, Agent!Return, Agent!Goto,
          Agent!StartLoad, Agent!StartSpawn, Agent!StartRunning,
          Agent!StartRegister, Agent!StartPreempt, Agent!StartPrompt,
          Agent!PromptLookup, Agent!PromptCheck, Agent!PromptRunning,
          Agent!PromptSend, Agent!PromptPersist, Agent!StopLookup,
          Agent!StopCancel, Agent!StopKill, Agent!StopRead, Agent!StopWrite,
          Agent!CompleteRead, Agent!CompleteWrite
    <2>2. \A a \in Adapters : agentPc'[a] = agentPc[a]
      BY <2>1, AdapterFacts DEF Agent!IInv, Agent!TypeOK, Agent!Threads
    <2>3. agentPc[x] \in Agent!HoldingSteps => ad[x] \in Adapters
      BY DEF Agent!IInv, Agent!SessionInv, Agent!AdaptersHeld
    <2>4. CASE Agent!StartRunning(x)
      <3>1. agentPc[x] = "start.running" /\ ad[x] \in Adapters /\ UNCHANGED ev
        BY <2>3, <2>4 DEF Agent!StartRunning, Agent!HoldingSteps
      <3>2. UNCHANGED << life, turn, chan >> \/ Agent!AdapterStop(ad[x], "stopped")
        BY <2>4 DEF Agent!StartRunning
      <3>3. CASE UNCHANGED << life, turn, chan >>
        BY <2>2, <3>1, <3>3, PendPlain
      <3>4. CASE Agent!AdapterStop(ad[x], "stopped")
        BY <2>2, <3>1, <3>4, PendStop
      <3> QED BY <3>2, <3>3, <3>4
    <2>5. CASE Agent!StartPreempt(x)
      BY <2>2, <2>3, <2>5, PendStop DEF Agent!StartPreempt, Agent!HoldingSteps
    <2>6. CASE Agent!StopKill(x)
      <3>1. agentPc'[x] = "stop.read"
        BY <2>6
        DEF Agent!StopKill, Agent!Goto, Agent!IInv, Agent!TypeOK, Agent!Threads
      <3> QED BY <2>2, <2>3, <2>6, <3>1, PendStop DEF Agent!StopKill, Agent!HoldingSteps
    <2>7. CASE Agent!StartPrompt(x) \/ Agent!PromptSend(x)
      <3>1. agentPc[x] \in {"start.prompt", "prompt.send"} /\ UNCHANGED ev
              /\ ad[x] \in Adapters
        BY <2>3, <2>7
        DEF Agent!StartPrompt, Agent!PromptSend, Agent!HoldingSteps
      <3>2. PICK ok \in BOOLEAN : Agent!AdapterSendPrompt(x, ad[x], ok)
        BY <2>7 DEF Agent!StartPrompt, Agent!PromptSend
      <3> QED BY <2>2, <3>1, <3>2, PendSend
    <2>8. CASE Agent!StartSpawn(x)
      <3>1. \A a \in Adapters : life[a] = "live" => life'[a] = "live"
        BY <2>8 DEF Agent!StartSpawn, Agent!IInv, Agent!TypeOK
      <3> QED BY <2>2, <2>8, <3>1, PendPlain DEF Agent!StartSpawn
    <2>9. CASE ~(Agent!StartRunning(x) \/ Agent!StartPreempt(x) \/ Agent!StopKill(x)
                 \/ Agent!StartPrompt(x)
                  \/ Agent!PromptSend(x) \/ Agent!StartSpawn(x))
      <3>1. UNCHANGED << life, turn, chan, ev >>
        BY <1>2, <2>9, Zenon
        DEF Agent!Handle, Agent!Shared, Agent!FailRead, Agent!FailWrite,
            Agent!CleanDelete, Agent!CleanCancel, Agent!StartLoad,
            Agent!StartRegister, Agent!PromptLookup, Agent!PromptCheck,
            Agent!PromptRunning, Agent!PromptPersist, Agent!StopLookup,
            Agent!StopCancel, Agent!StopRead, Agent!StopWrite,
            Agent!CompleteRead, Agent!CompleteWrite
      <3> QED BY <2>2, <3>1, PendPlain
    <2> QED BY <2>4, <2>5, <2>6, <2>7, <2>8, <2>9
  <1> QED BY <1>1, <1>2

\* And those of a drain
LEMMA PendDrain ==
  ASSUME Agent!IInv, NEW x \in Adapters, Agent!Drain(x)
  PROVE  PendStep(x)
  <1>1. \E s : agentPc' = [agentPc EXCEPT ![x] = s]
    BY Zenon
    DEF Agent!Drain, Agent!Shared, Agent!FailRead, Agent!FailWrite,
        Agent!CleanDelete, Agent!CleanCancel, Agent!Return, Agent!Goto,
        Agent!DrainSelect, Agent!DrainClosed, Agent!DrainPersist,
        Agent!DrainCostRead, Agent!DrainCostWrite, Agent!DrainTerminal
  <1>2. /\ \A a \in Adapters : a # x => agentPc'[a] = agentPc[a]
        /\ UNCHANGED << turn, life >>
        /\ chan[x] \in Seq(Agent!Events)
    <2>1. UNCHANGED << turn, life >>
      BY Zenon
      DEF Agent!Drain, Agent!Shared, Agent!FailRead, Agent!FailWrite,
          Agent!CleanDelete, Agent!CleanCancel, Agent!DrainSelect,
          Agent!DrainClosed, Agent!DrainPersist, Agent!DrainCostRead,
          Agent!DrainCostWrite, Agent!DrainTerminal
    <2> QED BY <1>1, <2>1 DEF Agent!IInv, Agent!TypeOK
  <1>3. CASE Agent!DrainSelect(x)
    <2>1. \/ UNCHANGED << chan, ev >>
               /\ agentPc'[x] \in {"clean.delete", "drain.closed"}
          \/ /\ agentPc'[x] = "drain.persist" /\ chan[x] # << >>
             /\ ev' = [ev EXCEPT ![x] = Head(chan[x])]
             /\ chan' = [chan EXCEPT ![x] = Tail(@)]
      BY <1>3
      DEF Agent!DrainSelect, Agent!Goto, Agent!IInv, Agent!TypeOK, Agent!Threads
    <2>2. CASE UNCHANGED << chan, ev >>
                 /\ agentPc'[x] \in {"clean.delete", "drain.closed"}
      BY <1>2, <2>2, PendPlain
    <2>3. CASE agentPc'[x] = "drain.persist" /\ chan[x] # << >>
               /\ ev' = [ev EXCEPT ![x] = Head(chan[x])]
                    /\ chan' = [chan EXCEPT ![x] = Tail(@)]
      <3>1. /\ chan'[x] = Tail(chan[x]) /\ ev'[x] = Head(chan[x])
            /\ \A a \in Adapters : a # x => chan'[a] = chan[a] /\ ev'[a] = ev[a]
        BY <2>3 DEF Agent!IInv, Agent!TypeOK
      <3>2. NoDone(chan[x]) => NoDone(Tail(chan[x])) /\ Head(chan[x]) \notin DoneReasons
        BY <1>2, <2>3, DoneTail
      <3>3. Pending(x)' => Pending(x)
        BY <1>2, <2>3, <3>1, <3>2 DEF Pending, NoDone, Taken
      <3>4. \A a \in Adapters : a # x => (Pending(a)' => Pending(a))
        BY <1>2, <3>1 DEF Pending, NoDone, Taken
      <3> QED BY <1>2, <3>3, <3>4 DEF PendStep
    <2> QED BY <2>1, <2>2, <2>3
  <1>4. CASE Agent!DrainPersist(x)
    <2>1. /\ UNCHANGED << chan, ev >> /\ agentPc[x] = "drain.persist"
          /\ agentPc' = [agentPc EXCEPT ![x] = CASE ev[x] = "cost" -> "drain.costread"
                           [] ev[x] \in DoneReasons -> "drain.terminal" [] OTHER -> "drain.select"]
      BY <1>4, Zenon DEF Agent!DrainPersist, Agent!Goto
    <2>2. agentPc'[x] \in {"drain.costread", "drain.terminal", "drain.select"}
          /\ (agentPc'[x] = "drain.terminal" => ev[x] \in DoneReasons)
      BY <2>1 DEF Agent!IInv, Agent!TypeOK, Agent!Threads
    <2>3. \A a \in Adapters : Pending(a)' => Pending(a)
      BY <1>2, <2>1, <2>2 DEF Pending, NoDone, Taken
    <2> QED BY <1>2, <2>3 DEF PendStep
  <1>5. CASE ~Agent!DrainSelect(x) /\ ~Agent!DrainPersist(x)
    <2>1. UNCHANGED << chan, ev >>
      BY <1>5, Zenon
      DEF Agent!Drain, Agent!Shared, Agent!FailRead, Agent!FailWrite,
          Agent!CleanDelete, Agent!CleanCancel, Agent!DrainClosed,
          Agent!DrainCostRead, Agent!DrainCostWrite, Agent!DrainTerminal
    <2>2. agentPc'[x] \notin {"drain.persist", "drain.terminal"}
      <3>1. CASE Agent!FailRead(x) \/ Agent!FailWrite(x) \/ Agent!CleanCancel(x)
        <4>1. \/ agentPc' = [agentPc EXCEPT ![x] = then[x]]
              \/ agentPc' = [agentPc EXCEPT ![x] = "fail.write"]
          BY <3>1, Zenon
          DEF Agent!FailRead, Agent!FailWrite, Agent!CleanCancel, Agent!Return,
              Agent!Goto
        <4>2. then[x] \notin {"drain.persist", "drain.terminal"}
          BY <3>1, AdapterFacts
          DEF Agent!FailRead, Agent!FailWrite, Agent!CleanCancel, Agent!IInv,
              Agent!SessionInv, Agent!ThreadsInPlace, Agent!Threads,
              Agent!FailSteps, Agent!CleanSteps
        <4> QED BY <4>1, <4>2 DEF Agent!IInv, Agent!TypeOK, Agent!Threads
      <3>2. CASE Agent!CleanDelete(x) \/ Agent!DrainClosed(x) \/ Agent!DrainCostRead(x)
                 \/ Agent!DrainCostWrite(x) \/ Agent!DrainTerminal(x)
        <4>1. \E s \in {"clean.cancel", "fail.read", "clean.delete", "drain.select",
                "drain.costwrite"} :
                agentPc' = [agentPc EXCEPT ![x] = s]
          BY <3>2
          DEF Agent!CleanDelete, Agent!DrainClosed, Agent!DrainCostRead,
              Agent!DrainCostWrite, Agent!DrainTerminal, Agent!Goto
        <4> QED BY <4>1 DEF Agent!IInv, Agent!TypeOK, Agent!Threads
      <3> QED BY <1>5, <3>1, <3>2 DEF Agent!Drain, Agent!Shared
    <2> QED BY <1>2, <2>1, <2>2, PendPlain
  <1> QED BY <1>3, <1>4, <1>5

\* Such an agent owes the end of a turn.
LEMMA RevivesOwes ==
  ASSUME NEW a \in Adapters, Revives(a) PROVE Owes(a)
  BY DEF Revives, Pending, Owes, Outstanding

\* An agent that StartAgent preempts had no more to write than it has now.
LEMMA PreemptKeeps ==
  ASSUME Agent!IInv, NEW x \in Reqs, Agent!Handle(x), agentPc[x] = "start.preempt",
         NEW a \in Adapters, Agent!HasSession(a)'
  PROVE  Agent!HasSession(a)
  <1>1. Agent!StartPreempt(x)
    BY
    DEF Agent!Handle, Agent!Shared, Agent!FailRead, Agent!FailWrite,
        Agent!CleanDelete, Agent!CleanCancel, Agent!StartLoad, Agent!StartSpawn,
        Agent!StartRunning, Agent!StartRegister, Agent!StartPreempt,
        Agent!StartPrompt, Agent!StartPersist, Agent!PromptLookup,
        Agent!PromptCheck, Agent!PromptRunning, Agent!PromptSend,
        Agent!PromptPersist, Agent!StopLookup, Agent!StopCancel, Agent!StopKill,
        Agent!StopRead, Agent!StopWrite, Agent!CompleteRead, Agent!CompleteWrite
  <1>2. agentPc' = [agentPc EXCEPT ![x] = "idle"] /\ ad' = ad
    BY <1>1 DEF Agent!StartPreempt, Agent!Goto
  <1> QED
      BY <1>2, AdapterFacts
      DEF Agent!HasSession, Agent!IInv, Agent!TypeOK, Agent!Threads

\* A turn that a step revives was open before, or the step sends a prompt.
Reopens(x, a) ==
  /\ x \in Reqs /\ agentPc[x] \in {"start.prompt", "prompt.send"} /\ ad[x] = a
       /\ life'[a] = "live"
  /\ agentWs'[a] = agentWs[x] /\ agentWs[a] = agentWs[x]
  /\ status[agentWs[x]] = "running" /\ status' = status

\* A step of the agent manager revives an agent only by a prompt.
LEMMA RevivesStep ==
  ASSUME RoomInv, TurnInv, NEW x \in Agent!Threads, TurnStep(x), AgentMoves(x),
           PendStep(x),
         x \in Reqs => Agent!Handle(x),
         NEW a \in Adapters, Revives(a)'
  PROVE  \/ Revives(a) /\ agentWs'[a] = agentWs[a]
         \/ Reopens(x, a)
  <1>1. Agent!HasSession(a)' /\ Pending(a)'
    BY DEF Revives
  <1>2. Owes(a)'
    BY <1>1 DEF Owes, Outstanding, Pending
  <1>3. CASE Pending(a) /\ ~Sends(x, a)
    <2>1. CASE NoMore(a)
      <3>1. Owes(a) /\ agentWs'[a] = agentWs[a]
        BY <1>2, <2>1 DEF NoMore
      <3> QED BY <1>3, <3>1 DEF Revives, Owes
    <2>2. CASE Opens(x, a)
      <3>1. CASE agentPc[x] = "start.preempt"
        <4>1. Agent!HasSession(a)
          BY <1>1, <2>2, <3>1, PreemptKeeps DEF RoomInv, Opens
        <4> QED BY <1>3, <2>2, <4>1 DEF Revives, Opens
      <3>2. CASE agentPc[x] = "prompt.send" /\ Agent!HasSession(a)
        BY <1>3, <2>2, <3>2 DEF Revives, Opens
      <3>3. CASE agentPc[x] = "start.prompt"
        <4>1. Agent!HasSession(a)
          BY <2>2, <3>3 DEF Opens, Agent!HasSession
        <4> QED BY <1>3, <2>2, <4>1 DEF Revives, Opens
      <3>4. CASE agentPc[x] = "prompt.send" /\ ~Agent!HasSession(a)
        <4>1. x \in Reqs /\ Agent!Handle(x)
          BY <2>2 DEF Opens
        <4>2. Agent!PromptSend(x)
          BY <3>4, <4>1
          DEF Agent!Handle, Agent!Shared, Agent!FailRead, Agent!FailWrite,
              Agent!CleanDelete, Agent!CleanCancel, Agent!StartLoad,
              Agent!StartSpawn, Agent!StartRunning, Agent!StartRegister,
              Agent!StartPreempt, Agent!StartPrompt, Agent!StartPersist,
              Agent!PromptLookup, Agent!PromptCheck, Agent!PromptRunning,
              Agent!PromptSend, Agent!PromptPersist, Agent!StopLookup,
              Agent!StopCancel, Agent!StopKill, Agent!StopRead, Agent!StopWrite,
              Agent!CompleteRead, Agent!CompleteWrite
        <4>3. \E s \in {"prompt.persist", "fail.read"} :
                agentPc' = [agentPc EXCEPT ![x] = s]
          BY <4>2, Zenon DEF Agent!PromptSend, Agent!Goto
        <4>4. ad' = ad
          BY <4>2 DEF Agent!PromptSend
        <4> QED
            BY <1>1, <3>4, <4>1, <4>3, <4>4, AdapterFacts
            DEF Agent!HasSession, RoomInv, Agent!IInv, Agent!TypeOK,
               Agent!Threads
      <3> QED BY <2>2, <3>1, <3>2, <3>3, <3>4 DEF Opens
    <2> QED BY <2>1, <2>2 DEF TurnStep
  <1>4. CASE Sends(x, a)
    <2>1. x \in Reqs /\ agentPc[x] \in {"start.prompt", "prompt.send"} /\ ad[x] = a
            /\ life'[a] = "live"
      BY <1>4 DEF Sends
    <2>2. agentWs[a] = agentWs[x] /\ status[agentWs[x]] = "running"
      BY <2>1 DEF TurnInv, HeldWs, ReqPlace, Openings, Agent!HoldingSteps
    <2>3. status' = status
      BY <2>1 DEF TurnStep, StatusWrite
    <2>4. agentWs'[a] = agentWs[x]
      BY <2>1, <2>2 DEF AgentMoves
    <2> QED BY <2>1, <2>2, <2>3, <2>4 DEF Reopens
  <1>5. Pending(a) \/ Sends(x, a)
    BY <1>1 DEF PendStep
  <1> QED BY <1>3, <1>4, <1>5

\* A request takes an adapter in hand only where there is a session or a worktree.
LEMMA Takes ==
  ASSUME RoomInv, NEW x \in Reqs, Agent!Handle(x), agentPc[x] \notin Agent!HoldingSteps,
         agentPc'[x] \in Agent!HoldingSteps
  PROVE  sessions[agentWs[x]] # None \/ (agentPc[x] = "start.spawn" /\ life' # life)
  <1>1. agentPc \in [Agent!Threads -> Agent!Steps] /\ x \in Agent!Threads
        /\ then[x] \in {"idle", "fail.read"}
    BY
    DEF RoomInv, Agent!IInv, Agent!TypeOK, Agent!SessionInv,
        Agent!ThreadsInPlace, Agent!Threads
  <1>2. CASE Agent!PromptLookup(x) \/ Agent!StopLookup(x)
    BY <1>1, <1>2
    DEF Agent!PromptLookup, Agent!StopLookup, Agent!Goto, Agent!HoldingSteps
  <1>3. CASE Agent!StartSpawn(x)
    <2>1. \/ \E a \in Adapters : life[a] = "free" /\ life' = [life EXCEPT ![a] = "live"]
          \/ agentPc' = [agentPc EXCEPT ![x] = "fail.read"]
          \/ agentPc' = [agentPc EXCEPT ![x] = "idle"]
      BY <1>3, Zenon DEF Agent!StartSpawn, Agent!Goto
    <2>2. agentPc[x] = "start.spawn" /\ life \in [Adapters -> Agent!Life]
      BY <1>3 DEF Agent!StartSpawn, RoomInv, Agent!IInv, Agent!TypeOK
    <2>3. CASE \E a \in Adapters : life[a] = "free"
                 /\ life' = [life EXCEPT ![a] = "live"]
      <3>1. PICK a \in Adapters : life[a] = "free"
                   /\ life' = [life EXCEPT ![a] = "live"]
        BY <2>3
      <3>2. life'[a] = "live"
        BY <2>2, <3>1
      <3> QED BY <2>2, <3>1, <3>2
    <2> QED BY <1>1, <2>1, <2>3 DEF Agent!HoldingSteps
  <1>4. CASE \/ Agent!StartLoad(x) \/ Agent!StopRead(x) \/ Agent!StopWrite(x)
                  \/ Agent!CompleteRead(x)
             \/ Agent!CompleteWrite(x) \/ Agent!Shared(x)
    <2>1. \E s \in {"start.spawn", "idle", "stop.write", "clean.delete",
            "complete.write", "clean.cancel",
                    "fail.write", then[x]} : agentPc' = [agentPc EXCEPT ![x] = s]
      BY <1>4
      DEF Agent!StartLoad, Agent!StopRead, Agent!StopWrite, Agent!CompleteRead,
          Agent!CompleteWrite, Agent!Shared, Agent!FailRead, Agent!FailWrite,
          Agent!CleanDelete, Agent!CleanCancel, Agent!Goto, Agent!Return
    <2> QED BY <1>1, <2>1 DEF Agent!HoldingSteps
  <1>5. CASE \/ Agent!StartRunning(x) \/ Agent!StartRegister(x) \/ Agent!StartPreempt(x)
             \/ Agent!StartPrompt(x) \/ Agent!StartPersist(x) \/ Agent!PromptCheck(x)
             \/ Agent!PromptRunning(x) \/ Agent!PromptSend(x) \/ Agent!PromptPersist(x)
             \/ Agent!StopCancel(x) \/ Agent!StopKill(x)
    BY <1>5
    DEF Agent!StartRunning, Agent!StartRegister, Agent!StartPreempt,
        Agent!StartPrompt, Agent!StartPersist, Agent!PromptCheck,
        Agent!PromptRunning, Agent!PromptSend, Agent!PromptPersist,
        Agent!StopCancel, Agent!StopKill, Agent!HoldingSteps
  <1> QED BY <1>2, <1>3, <1>4, <1>5 DEF Agent!Handle

\* handleDeleteProject is removing the worktrees.
Cleaning == \E t \in Reqs : next[t] = "cleanup"

\* An agent of w runs that a Stop could not kill.
LostLive(w) == \E a \in Adapters : agentWs[a] = w /\ life[a] = "live" /\ Lost(a)

-----------------------------------------------------------------------------
(* What is inductive.                                                      *)

\* A workspace without a worktree has no session, and no request holds it, unless its
\* project is being deleted.
NoTree ==
  \A w \in Workspaces : ~Cleaning /\ Exists(w) /\ w \notin worktrees =>
    /\ sessions[w] = None
    /\ \A t \in Reqs : agentPc[t] \in Agent!HoldingSteps => agentWs[t] # w

\* An agent that would bring a running workspace back and is not running any more is
\* in the hands of a Stop that will write the status itself.
StopRun ==
  \A a \in Adapters : Revives(a) /\ life[a] # "live"
    /\ status[agentWs[a]] = "running" =>
    \E t \in Reqs : agentPc[t] \in {"stop.read", "stop.write"}
      /\ agentWs[t] = agentWs[a]

\* A Cancel past the stop of its agent has only one to fear that a Stop could not kill.
CancelRev ==
  \A t \in Reqs : pc[t] \in {"cancel.remove", "cancel.write"} =>
    \A a \in Adapters : Revives(a) /\ agentWs[a] = ws[t] => life[a] = "live" /\ Lost(a)

\* The statuses with which a workspace has a worktree.
HousedStatus == {"idle", "running", "awaiting_input", "completed", "resolving_conflict"}

\* Such a workspace has one, and so has one that a drain would bring back.
Housed(w) ==
  /\ Exists(w)
  /\ status[w] \in HousedStatus \/ \E a \in Adapters : Revives(a) /\ agentWs[a] = w
  /\ ~ \E t \in Reqs : pc[t] = "cancel.write" /\ ws[t] = w
  /\ ~LostLive(w)
  => w \in worktrees

\* Nothing is promised after a crash or during the deletion of a project.
AllHoused == crashes = 0 /\ ~Cleaning => \A w \in Workspaces : Housed(w)

\* Prepare has added the worktree when it writes the base commit and idle.
Prepared ==
  \A t \in Reqs : pc[t] \in {"prepare.branch", "prepare.idle"} => ws[t] \in worktrees

\* The inductive invariant of the worktrees.
HouseInv == NoTree /\ StopRun /\ CancelRev /\ AllHoused /\ Prepared

\* What every lemma below knows of a step of the agent manager.
ThreadStep(x) ==
  /\ (x \in Reqs /\ Agent!Handle(x)) \/ (x \in Adapters /\ Agent!Drain(x))
  /\ TurnStep(x) /\ AgentMoves(x) /\ AgentEffect(x) /\ PendStep(x) /\ AdaptersTied
  /\ UNCHANGED << gitVars, handlerVars >>

\* A request holds an adapter of its workspace.
LEMMA HeldHere ==
  ASSUME RoomInv, TurnInv, NEW x, x \in Reqs, agentPc[x] \in Agent!HoldingSteps,
           NEW a \in Adapters, ad[x] = a
  PROVE  agentWs[a] = agentWs[x]
  BY DEF TurnInv, HeldWs

\* An agent is only killed by a request that holds it.
LEMMA KilledHeld ==
  ASSUME RoomInv, TurnInv, NEW x, PendStep(x), NEW a \in Adapters, life[a] = "live",
           life'[a] # "live"
  PROVE  x \in Reqs /\ agentPc[x] \in Agent!HoldingSteps /\ agentWs[a] = agentWs[x]
  <1>1. x \in Reqs /\ ad[x] = a
          /\ agentPc[x] \in {"start.running", "start.preempt", "stop.kill"}
    BY DEF PendStep
  <1>2. agentPc[x] \in Agent!HoldingSteps
    BY <1>1 DEF Agent!HoldingSteps
  <1> QED BY <1>1, <1>2, HeldHere

\* An agent given up stays given up, unless a request at its workspace kills it.
LEMMA LostLiveStays ==
  ASSUME RoomInv, TurnInv, NEW x \in Agent!Threads, ThreadStep(x), NEW w \in Workspaces,
           LostLive(w),
         \A t \in Reqs : agentPc[t] \in Agent!HoldingSteps => agentWs[t] # w
  PROVE  LostLive(w)'
  <1>1. PICK a \in Adapters : agentWs[a] = w /\ life[a] = "live" /\ Lost(a)
    BY DEF LostLive
  <1>2. Lost(a)'
    BY <1>1, LostStays DEF ThreadStep
  <1>3. agentWs'[a] = w
    BY <1>1 DEF ThreadStep, AdaptersTied
  <1>4. life'[a] = "live"
    BY <1>1, KilledHeld DEF ThreadStep
  <1> QED BY <1>2, <1>3, <1>4 DEF LostLive

\* The steps of a request or a drain, part by part.
LEMMA ThreadNoTree ==
  ASSUME RoomInv, TurnInv, NoTree, NEW x \in Agent!Threads, ThreadStep(x),
         x \in Reqs /\ agentPc[x] = "start.spawn" /\ agentWs[x] \notin worktrees
           => UNCHANGED life
  PROVE  NoTree'
  <1>1. UNCHANGED << next, worktrees >> /\ Cleaning' = Cleaning
    BY DEF ThreadStep, gitVars, handlerVars, Cleaning
  <1>2. SUFFICES ASSUME NEW w \in Workspaces, ~Cleaning, Exists(w)', w \notin worktrees
                 PROVE  /\ sessions'[w] = None
                        /\ \A t \in Reqs : agentPc'[t] \in Agent!HoldingSteps
                             => agentWs'[t] # w
    BY <1>1 DEF NoTree
  <1>3. Exists(w)
    BY <1>2 DEF ThreadStep, AgentMoves, Exists
  <1>4. sessions[w] = None /\ \A t \in Reqs : agentPc[t] \in Agent!HoldingSteps
          => agentWs[t] # w
    BY <1>2, <1>3 DEF NoTree
  <1>5. sessions'[w] = None
    BY <1>4 DEF ThreadStep, AgentEffect, Agent!HoldingSteps
  <1>6. ASSUME NEW t \in Reqs, agentPc'[t] \in Agent!HoldingSteps, agentWs'[t] = w
        PROVE FALSE
    <2>1. agentWs[t] = w /\ agentPc[t] \notin Agent!HoldingSteps
      BY <1>4, <1>6 DEF ThreadStep, AgentMoves
    <2>2. t = x /\ Agent!Handle(x)
      BY <1>6, <2>1, AdapterFacts DEF ThreadStep, AgentMoves
    <2> QED BY <1>2, <1>4, <1>6, <2>1, <2>2, Takes
  <1> QED BY <1>5, <1>6

\* The status stays running while a Stop is about to write it.
LEMMA ThreadStopRun ==
  ASSUME RoomInv, OneAtATime, TurnInv, TurnInv', StatusInv, StopRun,
           NEW x \in Agent!Threads, ThreadStep(x)
  PROVE  StopRun'
  <1>1. SUFFICES ASSUME NEW a \in Adapters, Revives(a)', life'[a] # "live",
                          status'[agentWs'[a]] = "running"
                 PROVE  \E t \in Reqs : agentPc'[t] \in {"stop.read", "stop.write"}
                          /\ agentWs'[t] = agentWs'[a]
    BY DEF StopRun
  <1>2. Revives(a) /\ agentWs'[a] = agentWs[a] /\ Owes(a)
    BY <1>1, RevivesStep, RevivesOwes, AdapterFacts DEF ThreadStep, Reopens
  <1>3. agentWs[a] \in Workspaces /\ status \in [Workspaces -> Agent!Rows]
        /\ agentPc \in [Agent!Threads -> Agent!Steps]
    BY <1>2, OwesPlace DEF RoomInv, Agent!IInv, Agent!TypeOK
  <1>4. CASE life[a] = "live"
    <2>1. x \in Reqs /\ ad[x] = a /\ agentWs[a] = agentWs[x]
      BY <1>1, <1>4, KilledHeld DEF ThreadStep, PendStep
    <2>2. CASE agentPc[x] = "start.running"
      BY <1>2, <2>1, <2>2 DEF TurnInv, LocalInv, Fresh, Owes
    <2>3. CASE life'[a] = "preempted"
      BY <1>1, <2>3 DEF TurnInv, LocalInv, OneTurn, Revives, Pending
    <2>4. CASE agentPc'[x] = "stop.read"
      BY <1>2, <2>1, <2>4 DEF ThreadStep, AgentMoves
    <2> QED BY <1>1, <1>4, <2>2, <2>3, <2>4 DEF ThreadStep, PendStep
  <1>5. CASE life[a] # "live" /\ status[agentWs[a]] = "running"
    <2>1. PICK t \in Reqs : agentPc[t] \in {"stop.read", "stop.write"}
                 /\ agentWs[t] = agentWs[a]
      BY <1>2, <1>5 DEF StopRun
    <2>2. CASE t # x
      BY <1>2, <2>1, <2>2 DEF ThreadStep, AgentMoves
    <2>3. CASE t = x
      <3>1. t \notin ctxDone
        BY <2>1 DEF StatusInv, CtxHeld, Agent!CleanSteps
      <3>2. Agent!StopRead(t) \/ Agent!StopWrite(t)
        <4>1. Agent!Handle(t)
          BY <2>3, AdapterFacts DEF ThreadStep
        <4> QED
            BY <2>1, <4>1
            DEF Agent!Handle, Agent!Shared, Agent!FailRead, Agent!FailWrite,
               Agent!CleanDelete, Agent!CleanCancel,
             Agent!StartLoad, Agent!StartSpawn, Agent!StartRunning, Agent!StartRegister,
               Agent!StartPreempt,
             Agent!StartPrompt, Agent!StartPersist, Agent!PromptLookup,
               Agent!PromptCheck, Agent!PromptRunning,
             Agent!PromptSend, Agent!PromptPersist, Agent!StopLookup, Agent!StopCancel,
               Agent!StopKill,
             Agent!StopRead, Agent!StopWrite, Agent!CompleteRead, Agent!CompleteWrite
      <3>3. CASE Agent!StopRead(t)
        <4>1. Agent!CanTransition("running", "cancelled")
                /\ ~Agent!IsTerminal("running")
          BY
          DEF Agent!CanTransition, Agent!allowedTransitions, Agent!IsTerminal,
              Agent!WorkspaceStatus
        <4>2. agentPc'[t] = "stop.write"
          BY <1>3, <1>5, <2>1, <3>1, <3>3, <4>1
          DEF Agent!StopRead, Agent!Goto, Agent!GetWorkspace, Agent!CtxOK,
              Agent!Threads
        <4> QED BY <1>2, <2>1, <4>2 DEF ThreadStep, AgentMoves
      <3>4. CASE Agent!StopWrite(t)
        <4>1. status' = [status EXCEPT ![agentWs[t]] = "cancelled"]
          BY <1>5, <2>1, <3>1, <3>4
          DEF Agent!StopWrite, Agent!UpdateWorkspace, Agent!CtxOK
        <4> QED BY <1>1, <1>2, <1>3, <2>1, <4>1
      <3> QED BY <3>2, <3>3, <3>4
    <2> QED BY <2>2, <2>3
  <1>6. CASE status[agentWs[a]] # "running"
    <2>1. agentPc[x] \in {"start.running", "prompt.running"} /\ agentWs[x] = agentWs[a]
      BY <1>1, <1>2, <1>3, <1>6 DEF ThreadStep, TurnStep, StatusWrite
    <2>2. x \in Reqs
      BY <2>1
      DEF RoomInv, Agent!IInv, Agent!SessionInv, Agent!ThreadsInPlace,
          Agent!Threads, Agent!DrainSteps, Agent!FailSteps, Agent!CleanSteps
    <2>3. Quiet(agentWs[x])
      BY <2>1, <2>2 DEF TurnInv, ReqPlace
    <2> QED BY <1>2, <2>1, <2>3 DEF Quiet
  <1> QED BY <1>4, <1>5, <1>6

\* Who works at the workspace of a request in the workspace manager: nobody else.
LEMMA GitAlone ==
  ASSUME RoomInv, OneAtATime, NEW t \in Reqs, pc[t] # "idle", NEW u \in Reqs,
         agentPc[u] # "idle"
  PROVE  u # t /\ agentWs[u] # ws[t]
  <1>1. u # t /\ pc[u] = "idle"
    BY DEF RoomInv, OneMethod
  <1> QED BY <1>1 DEF OneAtATime, Idle, WorkOf

\* A Cancel past the stop of its agent finds nothing of it.
LEMMA ThreadCancelRev ==
  ASSUME RoomInv, OneAtATime, TurnInv, CancelRev, NEW x \in Agent!Threads, ThreadStep(x)
  PROVE  CancelRev'
  <1>1. UNCHANGED << pc, ws >>
    BY DEF ThreadStep, gitVars
  <1>2. SUFFICES ASSUME NEW t \in Reqs, pc[t] \in {"cancel.remove", "cancel.write"},
                        NEW a \in Adapters, Revives(a)', agentWs'[a] = ws[t]
                 PROVE  life'[a] = "live" /\ Lost(a)'
    BY <1>1 DEF CancelRev
  <1>3. x \in Reqs => agentWs[x] # ws[t]
    BY <1>2, GitAlone DEF ThreadStep, AgentMoves
  <1>4. Revives(a) /\ agentWs[a] = ws[t]
    BY <1>2, <1>3, RevivesStep, AdapterFacts DEF ThreadStep, Reopens
  <1>5. life[a] = "live" /\ Lost(a)
    BY <1>2, <1>4 DEF CancelRev
  <1>6. Lost(a)'
    BY <1>5, LostStays DEF ThreadStep
  <1>7. life'[a] = "live"
    BY <1>3, <1>4, <1>5, KilledHeld DEF ThreadStep
  <1> QED BY <1>6, <1>7

\* A drain or a request brings a workspace into use only if it was or has its worktree.
LEMMA ThreadHoused ==
  ASSUME RoomInv, TurnInv, NoTree, AllHoused, NEW x \in Agent!Threads, ThreadStep(x)
  PROVE  AllHoused'
  <1>1. UNCHANGED << next, worktrees, pc, ws, crashes >> /\ Cleaning' = Cleaning
    BY DEF ThreadStep, AgentMoves, gitVars, handlerVars, Cleaning
  <1>2. SUFFICES ASSUME NEW w \in Workspaces, ~Cleaning, crashes = 0, Exists(w)',
                          w \notin worktrees,
                        status'[w] \in HousedStatus \/ \E a \in Adapters : Revives(a)'
                          /\ agentWs'[a] = w,
                        ~ \E t \in Reqs : pc[t] = "cancel.write" /\ ws[t] = w,
                        ~LostLive(w)'
                 PROVE  FALSE
    BY <1>1 DEF AllHoused, Housed
  <1>3. Exists(w)
    BY <1>2 DEF ThreadStep, AgentMoves, Exists
  <1>4. sessions[w] = None /\ \A t \in Reqs : agentPc[t] \in Agent!HoldingSteps
          => agentWs[t] # w
    BY <1>2, <1>3 DEF NoTree
  <1>5. ~LostLive(w)
    BY <1>2, <1>4, LostLiveStays
  <1>6. status[w] \notin HousedStatus /\ \A a \in Adapters : Revives(a)
          => agentWs[a] # w
    BY <1>2, <1>3, <1>5 DEF AllHoused, Housed
  <1>7. ASSUME NEW a \in Adapters, Revives(a)', agentWs'[a] = w PROVE FALSE
    BY <1>4, <1>6, <1>7, RevivesStep, AdapterFacts
    DEF ThreadStep, Reopens, Agent!HoldingSteps
  <1>8. status'[w] \notin HousedStatus
    <2>1. SUFFICES ASSUME status'[w] \in HousedStatus, status'[w] # status[w]
                   PROVE FALSE
      BY <1>6
    <2>2. status \in [Workspaces -> Agent!Rows]
      BY DEF RoomInv, Agent!IInv, Agent!TypeOK
    <2>3. PICK s : /\ status' = [status EXCEPT ![agentWs[x]] = s]
                   /\ \/ agentPc[x] \in {"start.running", "prompt.running"}
                           /\ s = "running"
                      \/ agentPc[x] = "stop.write" /\ s = "cancelled"
                      \/ agentPc[x] = "complete.write" /\ s = "completed"
                      \/ agentPc[x] = "fail.write" /\ s = "failed"
                      \/ agentPc[x] = "drain.terminal" /\ s = "awaiting_input"
      BY <2>1 DEF ThreadStep, TurnStep, StatusWrite
    <2>4. agentWs[x] = w /\ s \in HousedStatus
      BY <2>1, <2>2, <2>3
    <2>5. CASE agentPc[x] \in {"start.running", "prompt.running", "complete.write"}
      <3>1. x \in Reqs
        BY <2>5
        DEF RoomInv, Agent!IInv, Agent!SessionInv, Agent!ThreadsInPlace,
            Agent!Threads, Agent!DrainSteps, Agent!FailSteps, Agent!CleanSteps
      <3>2. agentPc[x] = "complete.write"
        BY <1>4, <2>4, <2>5, <3>1 DEF Agent!HoldingSteps
      <3>3. status[w] \in Ready \cup {"resolving_conflict"}
        BY <2>4, <3>1, <3>2 DEF TurnInv, ReqPlace
      <3> QED BY <1>6, <3>3 DEF Ready, HousedStatus
    <2>6. CASE agentPc[x] = "drain.terminal"
      <3>1. x \in Adapters
        BY <2>6
        DEF RoomInv, Agent!IInv, Agent!SessionInv, Agent!ThreadsInPlace,
            Agent!Threads, Agent!DrainSteps
      <3>2. Revives(x)
        BY <2>6 DEF Revives, Pending, Taken, Agent!HasSession
      <3> QED BY <1>6, <2>4, <3>1, <3>2
    <2> QED BY <2>3, <2>4, <2>5, <2>6 DEF HousedStatus
  <1> QED BY <1>2, <1>7, <1>8

\* A step of the agent manager preserves HouseInv.
LEMMA AgentThreadHouse ==
  ASSUME RoomInv, OneAtATime, TurnInv, StatusInv, HouseInv, NEW x \in Agent!Threads,
         (x \in Reqs /\ Agent!Handle(x)) \/ (x \in Adapters /\ Agent!Drain(x)),
         x \in Reqs /\ agentPc[x] = "start.spawn" /\ agentWs[x] \notin worktrees
           => UNCHANGED life,
         UNCHANGED << gitVars, handlerVars >>
  PROVE  HouseInv'
  <1>1. AgentMoves(x) /\ AgentEffect(x) /\ TurnStep(x) /\ AdaptersTied /\ TurnInv'
    BY AgentThread, AgentEffects, AgentThreadTurn, AgentTied DEF RoomInv
  <1>2. PendStep(x)
    BY PendRequest, PendDrain DEF RoomInv
  <1>3. ThreadStep(x)
    BY <1>1, <1>2 DEF ThreadStep
  <1>4. Prepared'
    BY <1>3 DEF HouseInv, Prepared, ThreadStep, gitVars
  <1> QED
      BY <1>1, <1>3, <1>4, ThreadNoTree, ThreadStopRun, ThreadCancelRev,
         ThreadHoused
      DEF HouseInv

\* A step that touches none of this
LEMMA QuietHouse ==
  ASSUME HouseInv, UNCHANGED << life, status, worktrees, crashes, sessions >>,
         \A a \in Adapters : Revives(a)' => Revives(a),
         \A a \in Adapters : agentWs'[a] = agentWs[a] /\ (Lost(a) => Lost(a)'),
         \A t \in Reqs : agentPc'[t] \in Agent!HoldingSteps => agentPc'[t] = agentPc[t]
           /\ agentWs'[t] = agentWs[t],
         \A t \in Reqs : agentPc[t] \in {"stop.read", "stop.write"} =>
            agentPc'[t] = agentPc[t] /\ agentWs'[t] = agentWs[t],
         \A t \in Reqs : pc'[t] \in {"cancel.remove", "cancel.write", "prepare.branch",
           "prepare.idle"} =>
            pc'[t] = pc[t] /\ ws'[t] = ws[t],
         \A t \in Reqs : pc[t] = "cancel.write" => pc'[t] = pc[t] /\ ws'[t] = ws[t],
         Cleaning => Cleaning'
  PROVE  HouseInv'
  <1>1. NoTree'
    BY DEF HouseInv, NoTree, Exists
  <1>2. StopRun'
    BY DEF HouseInv, StopRun
  <1>3. CancelRev'
    BY DEF HouseInv, CancelRev
  <1>4. AllHoused'
    <2>1. \A w \in Workspaces : LostLive(w) => LostLive(w)'
      BY DEF LostLive
    <2>2. SUFFICES ASSUME crashes' = 0, ~Cleaning', NEW w \in Workspaces
                   PROVE Housed(w)'
      BY DEF AllHoused
    <2>3. Housed(w)
      BY <2>2 DEF AllHoused, HouseInv
    <2> QED BY <2>1, <2>3 DEF Housed, Exists
  <1>5. Prepared'
    BY DEF HouseInv, Prepared
  <1> QED BY <1>1, <1>2, <1>3, <1>4, <1>5 DEF HouseInv

\* A subprocess speaks, ends its turn or exits.
LEMMA ProcessHouse ==
  ASSUME "exit" \notin AgentFaults, RoomInv, HouseInv, NEW b \in Adapters,
           Agent!Agent(b),
         UNCHANGED << gitVars, handlerVars >>
  PROVE  HouseInv'
  <1>1. /\ UNCHANGED << status, sessions, ctxDone, agentPc, agentWs, ad, life, ev,
             crashes >>
        /\ turn[b] > 0 /\ \A a \in Adapters : a # b => turn'[a] = turn[a]
             /\ chan'[a] = chan[a]
    <2>1. CASE Agent!Talk(b)
      BY <2>1 DEF Agent!Talk, Agent!Emit, Agent!CanEmit
    <2>2. CASE Agent!FinishTurn(b)
      BY <2>2 DEF Agent!FinishTurn, Agent!Emit, Agent!CanEmit
    <2> QED BY <2>1, <2>2 DEF Agent!Agent, Agent!ProcessExit
  <1>2. ASSUME NEW a \in Adapters, Revives(a)' PROVE Revives(a)
    <2>1. CASE a = b
      BY <1>1, <1>2, <2>1 DEF Revives, Pending, Agent!HasSession
    <2>2. CASE a # b
      BY <1>1, <1>2, <2>2 DEF Revives, Pending, Agent!HasSession, NoDone, Taken
    <2> QED BY <2>1, <2>2
  <1> QED BY <1>1, <1>2, QuietHouse DEF gitVars, handlerVars, Lost, Cleaning

\* A request enters the agent manager.
LEMMA RequestHouse ==
  ASSUME RoomInv, HouseInv, NEW t \in Reqs, NEW w \in Workspaces,
         NEW op \in {"start", "prompt", "stop", "complete"}, Agent!Request(t, op, w),
         UNCHANGED << gitVars >>, next'= next \/ next' = [next EXCEPT ![t] = "cancel"],
           Idle(t)
  PROVE  HouseInv'
  <1>1. /\ UNCHANGED << status, sessions, turn, chan, life, ev, crashes >>
             /\ agentPc[t] = "idle"
        /\ agentPc'[t] \in {"start.load", "prompt.lookup", "stop.lookup",
             "complete.read"}
        /\ ctxDone' = ctxDone \ {t}
        /\ \A y \in Agent!Threads : y # t =>
             agentPc'[y] = agentPc[y] /\ agentWs'[y] = agentWs[y] /\ ad'[y] = ad[y]
    BY
    DEF Agent!Request, Agent!Goto, RoomInv, Agent!IInv, Agent!TypeOK,
        Agent!Threads
  <1>2. ASSUME NEW a \in Adapters
        PROVE  (Revives(a)' => Revives(a)) /\ agentWs'[a] = agentWs[a]
                 /\ (Lost(a) => Lost(a)')
    <2>1. agentPc'[a] = agentPc[a] /\ agentWs'[a] = agentWs[a]
      BY <1>1, AdapterFacts DEF Agent!Threads
    <2>2. Agent!HasSession(a)' => Agent!HasSession(a)
      BY <1>1, <2>1 DEF Agent!HasSession, Agent!Threads
    <2>3. Pending(a)' => Pending(a)
      BY <1>1, <2>1 DEF Pending, NoDone, Taken
    <2>4. Lost(a) => Lost(a)'
      BY <1>1, AdapterFacts DEF Lost, Agent!Threads
    <2> QED BY <2>1, <2>2, <2>3, <2>4 DEF Revives
  <1>3. Cleaning => Cleaning'
    BY DEF Cleaning, Idle, RoomInv, HandlerTypes
  <1>4. \A u \in Reqs : agentPc'[u] \in Agent!HoldingSteps => agentPc'[u] = agentPc[u]
          /\ agentWs'[u] = agentWs[u]
    BY <1>1 DEF Agent!HoldingSteps, Agent!Threads
  <1>5. \A u \in Reqs : agentPc[u] \in {"stop.read", "stop.write"} =>
            agentPc'[u] = agentPc[u] /\ agentWs'[u] = agentWs[u]
    BY <1>1 DEF Agent!Threads
  <1> QED BY <1>1, <1>2, <1>3, <1>4, <1>5, QuietHouse DEF gitVars

-----------------------------------------------------------------------------
(* The workspace manager.                                                  *)

\* What a step of the workspace manager does to the worktrees.
TreeStep(t) ==
  /\ \/ worktrees \subseteq worktrees'
     \/ /\ pc[t] = "cancel.remove" /\ pc'[t] = "cancel.write"
        /\ worktrees \ {ws[t]} \subseteq worktrees'
  /\ pc'[t] \in {"cancel.remove", "cancel.write"} =>
       \/ pc[t] = "cancel.remove"
       \/ pc[t] = "cancel.load" /\ Exists(ws[t])
            /\ Git!CanTransition(status[ws[t]], "cancelled")
  /\ pc[t] = "cancel.write" /\ Exists(ws[t])
       => status' = [status EXCEPT ![ws[t]] = "cancelled"]
  /\ pc'[t] = "prepare.branch" => ws[t] \in worktrees'
  /\ pc'[t] = "prepare.idle" => pc[t] = "prepare.branch"

\* Prepare adds the worktree before it writes idle.
LEMMA TreePrepare ==
  ASSUME Git!TypeOK, NEW t \in Reqs, ws[t] \in Workspaces, t \notin gone,
         \/ Git!CreateInsert(t) \/ Git!PrepareLoad(t) \/ Git!PreparePreparing(t)
              \/ Git!PrepareAdd(t)
         \/ Git!PrepareFailed(t) \/ Git!PrepareBranch(t) \/ Git!PrepareIdle(t)
  PROVE  TreeStep(t)
  <1>1. CASE Git!PrepareAdd(t)
    <2>1. /\ pc[t] = "prepare.add" /\ worktrees \subseteq worktrees'
          /\ pc'[t] \in {"prepare.branch", "prepare.failed"}
          /\ pc'[t] = "prepare.branch" => ws[t] \in worktrees'
      BY <1>1 DEF Git!PrepareAdd, Git!Goto, Git!TypeOK
    <2> QED BY <2>1 DEF TreeStep
  <1>2. CASE Git!PreparePreparing(t) \/ Git!PrepareFailed(t)
    <2>1. worktrees' = worktrees /\ pc[t] \in {"prepare.preparing", "prepare.failed"}
          /\ \E s, step : Git!SetStatus(t, s, step) /\ step \in {"prepare.add", "idle"}
      BY <1>2 DEF Git!PreparePreparing, Git!PrepareFailed
    <2>2. pc'[t] \in {"prepare.add", "idle"}
      BY <2>1, SetStatusEffect DEF Git!TypeOK
    <2> QED BY <2>1, <2>2 DEF TreeStep
  <1>3. CASE Git!CreateInsert(t)
    <2>1. pc[t] = "create.insert" /\ worktrees' = worktrees
            /\ pc'[t] \in {"prepare.load", "idle"}
      BY <1>3 DEF Git!CreateInsert, Git!Goto, Git!TypeOK
    <2> QED BY <2>1 DEF TreeStep
  <1>4. CASE Git!PrepareLoad(t)
    <2>1. pc[t] = "prepare.load" /\ worktrees' = worktrees
            /\ pc'[t] \in {"prepare.preparing", "idle"}
      BY <1>4 DEF Git!PrepareLoad, Git!Goto, Git!TypeOK
    <2> QED BY <2>1 DEF TreeStep
  <1>5. CASE Git!PrepareBranch(t)
    <2>1. pc[t] = "prepare.branch" /\ worktrees' = worktrees
            /\ pc'[t] \in {"prepare.idle", "idle"}
      BY <1>5 DEF Git!PrepareBranch, Git!Goto, Git!TypeOK
    <2> QED BY <2>1 DEF TreeStep
  <1>6. CASE Git!PrepareIdle(t)
    <2>1. pc[t] = "prepare.idle" /\ worktrees' = worktrees /\ pc'[t] = "idle"
      BY <1>6 DEF Git!PrepareIdle, Git!Goto, Git!TypeOK
    <2> QED BY <2>1 DEF TreeStep
  <1> QED BY <1>1, <1>2, <1>3, <1>4, <1>5, <1>6

\* Cancel removes it, and then writes cancelled.
LEMMA TreeCancel ==
  ASSUME Git!TypeOK, NEW t \in Reqs, ws[t] \in Workspaces, t \notin gone,
         Git!CancelLoad(t) \/ Git!CancelRemove(t) \/ Git!CancelWrite(t)
  PROVE  TreeStep(t)
  <1>1. CASE Git!CancelLoad(t)
    <2>1. /\ pc[t] = "cancel.load" /\ worktrees' = worktrees
          /\ \/ pc'[t] = "idle"
             \/ /\ pc'[t] \in {"cancel.remove", "cancel.write"}
                /\ Git!Exists(t) /\ Git!CanTransition(status[ws[t]], "cancelled")
      BY <1>1 DEF Git!CancelLoad, Git!Goto, Git!TypeOK, Git!Loaded
    <2> QED BY <2>1 DEF TreeStep, Exists, Git!Exists
  <1>2. CASE Git!CancelRemove(t)
    <2>1. /\ pc[t] = "cancel.remove" /\ worktrees \ {ws[t]} \subseteq worktrees'
          /\ pc'[t] = "cancel.write"
      BY <1>2 DEF Git!CancelRemove, Git!Goto, Git!TypeOK
    <2> QED BY <2>1 DEF TreeStep
  <1>3. CASE Git!CancelWrite(t)
    <2>1. pc[t] = "cancel.write" /\ worktrees' = worktrees
            /\ Git!SetStatus(t, "cancelled", "idle")
      BY <1>3 DEF Git!CancelWrite
    <2>2. pc'[t] = "idle"
      BY <2>1, SetStatusEffect DEF Git!TypeOK
    <2>3. Exists(ws[t]) => status' = [status EXCEPT ![ws[t]] = "cancelled"]
      BY <2>1, SetStatusEffect DEF Exists, Git!Exists
    <2> QED BY <2>1, <2>2, <2>3 DEF TreeStep
  <1> QED BY <1>1, <1>2, <1>3

\* Merge leaves the worktrees alone until it has written merged.
LEMMA TreeMerge ==
  ASSUME Git!TypeOK, NEW t \in Reqs, ws[t] \in Workspaces, t \notin gone,
         \/ Git!MergeLoad(t) \/ Git!MergeTree(t) \/ Git!UpdateBranch(t)
              \/ Git!MergeMerged(t)
         \/ Git!MergeConflict(t)
  PROVE  TreeStep(t)
  <1>1. CASE Git!MergeMerged(t) \/ Git!MergeConflict(t)
    <2>1. pc[t] \in {"merge.merged", "merge.conflict"} /\ \E s, n :
            Git!MergePersist(t, s, n)
      BY <1>1 DEF Git!MergeMerged, Git!MergeConflict
    <2>2. worktrees' = worktrees /\ pc'[t] = "idle"
      BY <2>1, MergePersistEffect DEF Git!TypeOK
    <2> QED BY <2>1, <2>2 DEF TreeStep
  <1>2. CASE Git!MergeLoad(t)
    <2>1. pc[t] = "merge.load" /\ worktrees' = worktrees
            /\ pc'[t] \in {"merge.tree", "idle"}
      BY <1>2 DEF Git!MergeLoad, Git!Goto, Git!TypeOK
    <2> QED BY <2>1 DEF TreeStep
  <1>3. CASE Git!MergeTree(t)
    <2>1. pc[t] = "merge.tree" /\ worktrees' = worktrees
          /\ pc'[t] \in {"merge.update", "merge.conflict", "idle"}
      BY <1>3 DEF Git!MergeTree, Git!Goto, Git!TypeOK
    <2> QED BY <2>1 DEF TreeStep
  <1>4. CASE Git!UpdateBranch(t)
    <2>1. pc[t] = "merge.update" /\ worktrees' = worktrees
            /\ pc'[t] \in {"merge.merged", "idle"}
      BY <1>4 DEF Git!UpdateBranch, Git!Goto, Git!TypeOK
    <2> QED BY <2>1 DEF TreeStep
  <1> QED BY <1>1, <1>2, <1>3, <1>4

\* All of them.
LEMMA TreeSteps ==
  ASSUME RoomInv, CountInv, NEW t \in Reqs, Git!Handle(t)
  PROVE  TreeStep(t)
  <1>1. pc[t] # "idle"
    BY GitHandleMoves DEF GitMoves
  <1>2. Git!TypeOK /\ ws[t] \in Workspaces /\ t \notin gone
        /\ pc[t] \notin {"complete.load", "complete.write"}
    BY <1>1 DEF RoomInv, Heard, OneMethod, CountInv
  <1> QED
      BY <1>2, TreePrepare, TreeCancel, TreeMerge
      DEF Git!Handle, Git!CompleteLoad, Git!CompleteWrite

\* A step of the workspace manager, of the request t
TreeMoves(t) ==
  /\ TreeStep(t) /\ GitMoves(t) /\ GitWrite(t)
  /\ pc[t] = "create.insert" => project
  /\ UNCHANGED << agentVars, handlerVars >>

\* A workspace the API has just been asked to create is known to nobody.
LEMMA NewUnknown ==
  ASSUME RoomInv, NEW t \in Reqs, pc[t] = "create.insert", project
  PROVE  /\ sessions[ws[t]] = None
         /\ \A x \in Agent!Threads : agentWs[x] # ws[t]
  <1>1. ws[t] \in Workspaces /\ ~Known(ws[t])
    BY DEF RoomInv, Heard, RowsStay
  <1>2. \A x \in Agent!Threads : agentWs[x] # ws[t]
    BY <1>1 DEF RoomInv, Heard
  <1>3. sessions[ws[t]] = None
    BY <1>1, <1>2, TableFacts DEF RoomInv, Agent!Threads
  <1> QED BY <1>2, <1>3

\* The steps of the workspace manager, part by part.
LEMMA TreeNoTree ==
  ASSUME RoomInv, OneAtATime, SafeInv, NoTree, NEW t \in Reqs, TreeMoves(t)
  PROVE  NoTree'
  <1>1. UNCHANGED << sessions, agentPc, agentWs, next >> /\ Cleaning' = Cleaning
          /\ pc[t] # "idle"
        /\ ws[t] \in Workspaces
    BY DEF TreeMoves, agentVars, handlerVars, Cleaning, GitMoves, RoomInv, Heard
  <1>2. SUFFICES ASSUME NEW w \in Workspaces, ~Cleaning, Exists(w)', w \notin worktrees'
                 PROVE  /\ sessions[w] = None
                        /\ \A u \in Reqs : agentPc[u] \in Agent!HoldingSteps
                             => agentWs[u] # w
    BY <1>1 DEF NoTree
  <1>3. CASE Exists(w) /\ w \notin worktrees
    BY <1>2, <1>3 DEF NoTree
  <1>4. CASE ~Exists(w)
    <2>1. pc[t] = "create.insert" /\ w = ws[t] /\ project
      BY <1>2, <1>4
      DEF TreeMoves, GitMoves, Exists, RoomInv, Agent!IInv, Agent!TypeOK
    <2> QED BY <2>1, NewUnknown DEF Agent!Threads
  <1>5. CASE w \in worktrees
    <2>1. w = ws[t] /\ pc[t] = "cancel.remove"
      BY <1>2, <1>5 DEF TreeMoves, TreeStep
    <2>2. sessions[w] = None
      BY <2>1, CancelGaveUp
    <2>3. \A u \in Reqs : agentPc[u] \in Agent!HoldingSteps => agentWs[u] # w
      BY <1>1, <2>1, GitAlone DEF Agent!HoldingSteps
    <2> QED BY <2>2, <2>3
  <1> QED BY <1>3, <1>4, <1>5

\* A step that leaves the agents alone revives nothing and loses no agent.
LEMMA AgentsAlone ==
  ASSUME UNCHANGED agentVars
  PROVE  /\ UNCHANGED << sessions, ctxDone, agentPc, agentWs, ad, life >>
         /\ \A a \in Adapters : (Revives(a)' <=> Revives(a)) /\ (Lost(a)' <=> Lost(a))
         /\ \A w : LostLive(w)' <=> LostLive(w)
  <1>1. UNCHANGED << sessions, ctxDone, agentPc, agentWs, ad, life, turn, chan, ev >>
    BY DEF agentVars
  <1>2. \A a \in Adapters : (Revives(a)' <=> Revives(a)) /\ (Lost(a)' <=> Lost(a))
    BY <1>1 DEF Revives, Agent!HasSession, Pending, NoDone, Taken, Lost
  <1> QED BY <1>1, <1>2 DEF LostLive

\* A Stop at work is at another workspace.
LEMMA TreeStopRun ==
  ASSUME RoomInv, StopRun, NEW t \in Reqs, TreeMoves(t)
  PROVE  StopRun'
  <1>1. SUFFICES ASSUME NEW a \in Adapters, Revives(a), life[a] # "live",
                          status'[agentWs[a]] = "running"
                 PROVE  \E u \in Reqs : agentPc[u] \in {"stop.read", "stop.write"}
                          /\ agentWs[u] = agentWs[a]
    BY AgentsAlone DEF StopRun, TreeMoves
  <1>2. agentWs[a] \in Workspaces /\ status \in [Workspaces -> Agent!Rows]
    BY <1>1, RevivesOwes, OwesPlace DEF RoomInv, Agent!IInv, Agent!TypeOK
  <1>3. status[agentWs[a]] = "running"
    BY <1>1, <1>2 DEF TreeMoves, GitWrite, GitWrites
  <1> QED BY <1>1, <1>3 DEF StopRun

\* A Cancel removes the worktree once its agent is stopped.
LEMMA TreeCancelRev ==
  ASSUME RoomInv, OneAtATime, SafeInv, TurnInv, StopRun, CancelRev, NEW t \in Reqs,
           TreeMoves(t)
  PROVE  CancelRev'
  <1>1. SUFFICES ASSUME NEW u \in Reqs, pc'[u] \in {"cancel.remove", "cancel.write"},
                        NEW a \in Adapters, Revives(a), agentWs[a] = ws[u]
                 PROVE  life[a] = "live" /\ Lost(a)
    BY AgentsAlone DEF CancelRev, TreeMoves, GitMoves
  <1>2. CASE pc[u] \in {"cancel.remove", "cancel.write"}
    BY <1>1, <1>2 DEF CancelRev
  <1>3. CASE pc[u] \notin {"cancel.remove", "cancel.write"}
    <2>1. u = t
      BY <1>1, <1>3 DEF TreeMoves, GitMoves
    <2>2. pc[t] = "cancel.load" /\ Exists(ws[t])
            /\ Git!CanTransition(status[ws[t]], "cancelled")
      BY <1>1, <1>3, <2>1 DEF TreeMoves, TreeStep
    <2>3. Owes(a) /\ Lost(a)
      BY <1>1, <2>1, <2>2, RevivesOwes, CancelGaveUp
    <2>4. status[ws[t]] \in {"running", "failed", "cancelled", "none"}
      BY <1>1, <2>1, <2>3 DEF TurnInv, OwesInv, Ending
    <2>5. ~Git!CanTransition("failed", "cancelled")
            /\ ~Git!CanTransition("cancelled", "cancelled")
      BY DEF Git!CanTransition, Git!allowedTransitions, Git!WorkspaceStatus
    <2>6. status[ws[t]] = "running"
      BY <2>2, <2>4, <2>5 DEF Exists
    <2>7. ASSUME life[a] # "live" PROVE FALSE
      <3>1. PICK v \in Reqs : agentPc[v] \in {"stop.read", "stop.write"}
                   /\ agentWs[v] = ws[t]
        BY <1>1, <2>1, <2>6, <2>7 DEF StopRun
      <3> QED BY <2>2, <3>1, GitAlone
    <2> QED BY <2>3, <2>7
  <1> QED BY <1>2, <1>3

\* The workspace manager writes a status of HousedStatus only with a worktree.
LEMMA TreeHoused ==
  ASSUME RoomInv, CancelRev, AllHoused, Prepared, NEW t \in Reqs, TreeMoves(t)
  PROVE  AllHoused'
  <1>1. /\ UNCHANGED << crashes, ws >> /\ Cleaning' = Cleaning /\ pc[t] # "idle"
             /\ ws[t] \in Workspaces
        /\ status \in [Workspaces -> Agent!Rows]
        /\ \A u \in Reqs : u # t => pc'[u] = pc[u]
    BY
    DEF TreeMoves, handlerVars, Cleaning, GitMoves, RoomInv, Heard, Agent!IInv,
        Agent!TypeOK
  <1>2. /\ UNCHANGED agentWs
        /\ \A a \in Adapters : Revives(a)' <=> Revives(a)
        /\ \A w : LostLive(w)' <=> LostLive(w)
    BY AgentsAlone DEF TreeMoves
  <1>3. SUFFICES ASSUME crashes = 0, ~Cleaning, NEW w \in Workspaces, Exists(w)',
                          w \notin worktrees',
                        status'[w] \in HousedStatus \/ \E a \in Adapters : Revives(a)
                          /\ agentWs[a] = w,
                        ~ \E u \in Reqs : pc'[u] = "cancel.write" /\ ws[u] = w,
                        ~LostLive(w)
                 PROVE  FALSE
    BY <1>1, <1>2 DEF AllHoused, Housed
  <1>4. w \notin worktrees
    BY <1>3 DEF TreeMoves, TreeStep
  <1>5. Exists(w)
    <2>1. SUFFICES ASSUME ~Exists(w) PROVE FALSE
      OBVIOUS
    <2>2. pc[t] = "create.insert" /\ w = ws[t] /\ project /\ status'[w] = "queued"
      BY <1>1, <1>3, <2>1 DEF TreeMoves, GitMoves, Exists
    <2>3. \A x \in Agent!Threads : agentWs[x] # w
      BY <2>2, NewUnknown
    <2> QED BY <1>3, <2>2, <2>3 DEF HousedStatus, Agent!Threads
  <1>6. ASSUME NEW u \in Reqs, pc[u] = "cancel.write", ws[u] = w PROVE FALSE
    <2>1. u = t
      BY <1>1, <1>3, <1>6
    <2>2. status'[w] = "cancelled"
      BY <1>1, <1>5, <1>6, <2>1 DEF TreeMoves, TreeStep
    <2>3. PICK a \in Adapters : Revives(a) /\ agentWs[a] = w
      BY <1>3, <2>2 DEF HousedStatus
    <2>4. life[a] = "live" /\ Lost(a)
      BY <1>6, <2>3 DEF CancelRev
    <2> QED BY <1>3, <2>3, <2>4 DEF LostLive
  <1>7. status[w] \notin HousedStatus /\ \A a \in Adapters : Revives(a)
          => agentWs[a] # w
    BY <1>3, <1>4, <1>5, <1>6 DEF AllHoused, Housed
  <1>8. PICK s : status' = [status EXCEPT ![ws[t]] = s] /\ << pc[t], s >> \in GitWrites
                 /\ s \in HousedStatus /\ ws[t] = w
    BY <1>1, <1>3, <1>7 DEF TreeMoves, GitWrite
  <1>9. pc[t] = "prepare.idle"
    BY <1>8 DEF GitWrites, HousedStatus
  <1> QED BY <1>4, <1>8, <1>9 DEF Prepared

\* The worktree that Prepare has added stays until it writes idle.
LEMMA TreePrepared ==
  ASSUME RoomInv, OneAtATime, Prepared, NEW t \in Reqs, TreeMoves(t)
  PROVE  Prepared'
  <1>1. SUFFICES ASSUME NEW u \in Reqs, pc'[u] \in {"prepare.branch", "prepare.idle"}
                 PROVE  ws[u] \in worktrees'
    BY DEF Prepared, TreeMoves, GitMoves
  <1>2. CASE u = t
    BY <1>1, <1>2 DEF Prepared, TreeMoves, TreeStep
  <1>3. CASE u # t
    <2>1. pc[u] = pc'[u] /\ pc[t] # "idle"
      BY <1>3 DEF TreeMoves, GitMoves
    <2>2. ws[u] # ws[t] /\ ws[u] \in worktrees
      BY <1>1, <1>3, <2>1, TwoWorkspaces DEF Prepared
    <2> QED BY <2>2 DEF TreeMoves, TreeStep
  <1> QED BY <1>2, <1>3

\* A step of the workspace manager preserves HouseInv.
LEMMA GitStepHouse ==
  ASSUME RoomInv, OneAtATime, SafeInv, TurnInv, CountInv, HouseInv, NEW t \in Reqs,
           GitStep(t)
  PROVE  HouseInv'
  <1>1. CASE pc[t] = "create.insert" /\ ~project
    <2>1. /\ UNCHANGED << status, agentVars, handlerVars, worktrees, ws, crashes >>
          /\ pc' = [pc EXCEPT ![t] = "idle"]
      BY <1>1 DEF GitStep, Git!Goto, bootVars
    <2>2. \A u \in Reqs : pc'[u] = pc[u] \/ (u = t /\ pc'[u] = "idle")
      BY <2>1 DEF RoomInv, Git!TypeOK
    <2> QED BY <1>1, <2>1, <2>2, AgentsAlone, QuietHouse DEF handlerVars, Cleaning
  <1>2. CASE Git!Handle(t) /\ (pc[t] = "create.insert" => project)
    <2>1. TreeMoves(t)
      BY <1>2, TreeSteps, GitHandleWrites, GitHandleMoves DEF GitStep, TreeMoves
    <2> QED
        BY <2>1, TreeNoTree, TreeStopRun, TreeCancelRev, TreeHoused,
           TreePrepared
        DEF HouseInv
  <1> QED BY <1>1, <1>2 DEF GitStep, RoomInv, HandlerTypes

-----------------------------------------------------------------------------
(* The handlers, a boot and a crash.                                       *)

\* A request enters the workspace manager.
LEMMA GitEntersHouse ==
  ASSUME RoomInv, HouseInv, NEW t \in Reqs, NEW w \in Workspaces,
         NEW op \in {"create", "merge", "cancel"}, Git!Request(t, op, w),
           UNCHANGED agentVars,
         Cleaning => Cleaning'
  PROVE  HouseInv'
  <1>1. /\ pc[t] = "idle" /\ pc'[t] \in {"create.insert", "merge.load", "cancel.load"}
        /\ \A u \in Reqs : u # t => pc'[u] = pc[u] /\ ws'[u] = ws[u]
        /\ UNCHANGED << status, crashes >>
    BY GitEnters DEF RoomInv
  <1>2. UNCHANGED worktrees
    BY DEF Git!Request
  <1>3. \A u \in Reqs :
          /\ pc'[u] \in {"cancel.remove", "cancel.write", "prepare.branch",
               "prepare.idle"} =>
               pc'[u] = pc[u] /\ ws'[u] = ws[u]
          /\ pc[u] = "cancel.write" => pc'[u] = pc[u] /\ ws'[u] = ws[u]
    BY <1>1
  <1> QED BY <1>1, <1>2, <1>3, AgentsAlone, QuietHouse

\* A step that leaves the agents, the rows and the worktrees alone.
LEMMA CalmHouse ==
  ASSUME HouseInv, UNCHANGED << agentVars, status, worktrees, crashes, pc, ws >>,
           Cleaning => Cleaning'
  PROVE  HouseInv'
  BY AgentsAlone, QuietHouse

\* Stop of a workspace without a session goes on to Cancel.
LEMMA StopCancelHouse ==
  ASSUME RoomInv, HouseInv, NEW t \in Reqs, StopCancel(t)
  PROVE  HouseInv'
  <1>1. /\ agentWs[t] \in Workspaces /\ UNCHANGED agentVars /\ next[t] = "cancel"
        /\ next' = [next EXCEPT ![t] = "return"]
    BY DEF StopCancel, RoomInv, OneMethod, Then
  <1>2. Cleaning => Cleaning'
    BY <1>1 DEF Cleaning, RoomInv, HandlerTypes
  <1>3. CASE Git!Request(t, "cancel", agentWs[t])
    BY <1>1, <1>2, <1>3, GitEntersHouse
  <1>4. CASE UNCHANGED << status, bootVars, gitVars >>
    BY <1>1, <1>2, <1>4, CalmHouse DEF bootVars, gitVars
  <1> QED BY <1>3, <1>4 DEF StopCancel

\* handleDeleteProject lists the workspaces.
LEMMA DeleteListHouse ==
  ASSUME RoomInv, HouseInv, NEW t \in Reqs, DeleteList(t)
  PROVE  HouseInv'
  <1>1. UNCHANGED << status, agentVars, gitVars, crashes >>
          /\ next' = [next EXCEPT ![t] = "cleanup"]
    BY DEF DeleteList, Then, bootVars
  <1>2. Cleaning => Cleaning'
    BY <1>1 DEF Cleaning, RoomInv, HandlerTypes
  <1> QED BY <1>1, <1>2, CalmHouse DEF gitVars

\* While handleDeleteProject cleans up, only this is left to say.
LEMMA DeleteCleanupHouse ==
  ASSUME RoomInv, OneAtATime, HouseInv, NEW t \in Reqs, NEW w \in Workspaces,
           DeleteCleanup(t, w)
  PROVE  HouseInv'
  <1>1. /\ UNCHANGED << status, agentVars, next, pc, ws, crashes >>
             /\ next[t] = "cleanup"
    BY DEF DeleteCleanup, bootVars, RoomInv, OneMethod
  <1>2. Cleaning'
    BY <1>1 DEF Cleaning
  <1>3. NoTree' /\ AllHoused'
    BY <1>2 DEF NoTree, AllHoused
  <1>4. StopRun' /\ CancelRev'
    BY <1>1, AgentsAlone DEF HouseInv, StopRun, CancelRev
  <1>5. \A u \in Reqs : pc[u] = "idle"
    BY <1>1 DEF OneAtATime, Idle, RoomInv, OneMethod
  <1>6. Prepared'
    BY <1>1, <1>5 DEF Prepared
  <1> QED BY <1>3, <1>4, <1>6 DEF HouseInv

\* It deletes the rows.
LEMMA DeleteRowsHouse ==
  ASSUME RoomInv, HouseInv, NEW t \in Reqs, DeleteRows(t)
  PROVE  HouseInv'
  <1>1. UNCHANGED << agentVars, worktrees, pc, ws >>
          /\ status' = [w \in Workspaces |-> "none"]
    BY DEF DeleteRows
  <1>2. \A w \in Workspaces : ~Exists(w)'
    BY <1>1 DEF Exists
  <1>3. NoTree' /\ AllHoused'
    BY <1>2 DEF NoTree, AllHoused, Housed
  <1>4. StopRun'
    <2>1. \A a \in Adapters : Revives(a) => agentWs[a] \in Workspaces
      BY RevivesOwes, OwesPlace DEF RoomInv
    <2> QED BY <1>1, <2>1, AgentsAlone DEF StopRun
  <1>5. CancelRev' /\ Prepared'
    BY <1>1, AgentsAlone DEF HouseInv, CancelRev, Prepared
  <1> QED BY <1>3, <1>4, <1>5 DEF HouseInv

\* The orphan sweep of a boot writes one row.
LEMMA SweepRowHouse ==
  ASSUME RoomInv, StatusInv, CountInv, HouseInv, NEW w \in Workspaces, SweepRow(w)
  PROVE  HouseInv'
  <1>1. /\ w \in sweep /\ status' = [status EXCEPT ![w] = "failed"]
             /\ status[w] # "none"
        /\ UNCHANGED << agentVars, next, worktrees, pc, ws, crashes >>
    BY
    DEF SweepRow, Agent!SweepRow, Git!SweepRow, agentVars, handlerVars, RoomInv,
        RowsStay, Exists
  <1>2. crashes # 0 /\ \A a \in Adapters : ~Revives(a)
    BY <1>1
    DEF CountInv, StatusInv, SweepFine, Revives, Agent!HasSession, Agent!Threads
  <1>3. NoTree'
    <2>1. \A v \in Workspaces : Exists(v)' <=> Exists(v)
      BY <1>1 DEF Exists, RoomInv, Agent!IInv, Agent!TypeOK
    <2> QED BY <1>1, <2>1 DEF HouseInv, NoTree, agentVars, Cleaning
  <1>4. StopRun' /\ CancelRev'
    BY <1>1, <1>2, AgentsAlone DEF StopRun, CancelRev
  <1>5. AllHoused' /\ Prepared'
    BY <1>1, <1>2 DEF HouseInv, AllHoused, Prepared
  <1> QED BY <1>3, <1>4, <1>5 DEF HouseInv

\* A server that has just been created knows no agent.
LEMMA NewHouse ==
  JustCreated /\ (crashes = 0 => \A w \in Workspaces : status[w] = "none") => HouseInv
  <1> SUFFICES ASSUME JustCreated, crashes = 0 => \A w \in Workspaces :
    status[w] = "none" PROVE HouseInv
    OBVIOUS
  <1>1. /\ \A w \in Workspaces : sessions[w] = None
        /\ \A x \in Agent!Threads : agentPc[x] = "idle"
        /\ \A t \in Reqs : pc[t] = "idle"
    BY DEF JustCreated, NoAgents
  <1>2. \A a \in Adapters : ~Revives(a)
    BY <1>1 DEF Revives, Agent!HasSession, Agent!Threads
  <1>3. NoTree
    BY <1>1 DEF NoTree, Agent!Threads, Agent!HoldingSteps
  <1>4. StopRun /\ CancelRev /\ Prepared
    BY <1>1, <1>2 DEF StopRun, CancelRev, Prepared
  <1>5. AllHoused
    BY DEF AllHoused, Housed, Exists
  <1> QED BY <1>3, <1>4, <1>5 DEF HouseInv

\* So it is after a crash.
LEMMA CrashHouse == ASSUME RoomInv, Crash PROVE HouseInv'
  <1>1. JustCreated'
    BY DEF Crash, Agent!Crash, Git!Crash, NoAgents, JustCreated
  <1>2. (crashes = 0 => \A w \in Workspaces : status[w] = "none")'
    BY DEF Crash, Git!Crash, RoomInv, Git!TypeOK
  <1> QED BY <1>1, <1>2, NewHouse, PTL

\* And in the beginning.
LEMMA InitHouse == Init => HouseInv
  <1>1. Init => JustCreated /\ \A w \in Workspaces : status[w] = "none"
    BY
    DEF Init, NewAgent!Init, NewAgent!Threads, NoAgents, Agent!Threads,
        Git!Init, JustCreated
  <1> QED BY <1>1, NewHouse

\* Every step preserves HouseInv.
LEMMA NextHouse ==
  ASSUME "exit" \notin AgentFaults, RoomInv, OneAtATime, SafeInv, TurnInv, StatusInv,
           CountInv, HouseInv,
         [Next]_vars
  PROVE  HouseInv'
  <1>1. ASSUME NEW t \in Reqs, NEW w \in Workspaces, NEW op \in Ops,
                 AgentRequest(t, op, w)
        PROVE  HouseInv'
    BY <1>1, RequestHouse DEF AgentRequest, handlerVars
  <1>2. ASSUME NEW t \in Reqs, NEW w \in Workspaces, NEW op \in Ops,
                 GitRequest(t, op, w)
        PROVE  HouseInv'
    BY <1>2, GitEntersHouse DEF GitRequest, handlerVars, Cleaning
  <1>3. ASSUME NEW t \in Reqs, NEW w \in Workspaces, StopRequest(t, w)
        PROVE  HouseInv'
    BY <1>3, RequestHouse DEF StopRequest, Then
  <1>4. ASSUME NEW t \in Reqs, Handle(t) PROVE HouseInv'
    <2>1. CASE AgentStep(t)
      BY <2>1, AgentThreadHouse DEF AgentStep, Agent!Threads
    <2> QED
        BY <1>4, <2>1, GitStepHouse, StopCancelHouse, DeleteRowsHouse,
           DeleteCleanupHouse
        DEF Handle
  <1>5. ASSUME NEW a \in Adapters, Background(a) PROVE HouseInv'
    BY <1>5, AgentThreadHouse, ProcessHouse, AdapterFacts
    DEF Background, Agent!Threads
  <1>6. CASE World
    BY <1>6, CalmHouse
    DEF World, Git!Commit, Git!Resolve, Git!UserCommit, Git!Tick, handlerVars,
        Cleaning
  <1>7. CASE UNCHANGED vars
    BY <1>7, CalmHouse DEF vars, bootVars, gitVars, handlerVars, Cleaning
  <1> QED
      BY <1>1, <1>2, <1>3, <1>4, <1>5, <1>6, <1>7, DeleteListHouse,
         SweepRowHouse, CrashHouse
      DEF Next

\* HouseInv says what a run checks.
LEMMA HousedWell == ASSUME HouseInv PROVE WorktreePresent
  <1>1. SUFFICES ASSUME NEW w \in Workspaces,
                        status[w] \in {"idle", "running", "awaiting_input",
                          "completed"},
                        ~Handled(w), crashes = 0,
                        \A a \in Adapters : agentWs[a] = w /\ life[a] = "live"
                          => ~Lost(a)
                 PROVE  w \in worktrees
    BY DEF WorktreePresent
  <1>2. ~Cleaning /\ ~ \E t \in Reqs : pc[t] = "cancel.write" /\ ws[t] = w
    BY <1>1 DEF Handled, Cleaning
  <1>3. Exists(w) /\ status[w] \in HousedStatus /\ ~LostLive(w)
    BY <1>1 DEF Exists, HousedStatus, LostLive
  <1> QED BY <1>1, <1>2, <1>3 DEF HouseInv, AllHoused, Housed

\* While the requests at work are at different workspaces and none of them overlaps
\* the deletion of a project, and if no agent exits by itself, a workspace that is
\* idle, running, awaiting input or completed has its worktree, with the exceptions
\* that WorktreePresent lists: a request in the middle of it, a crash since, and an
\* agent that a Stop could not kill.
\* An agent that a Stop has given up and that then exits by itself leaves
\* awaiting_input behind on a workspace that has been cancelled.
THEOREM WorktreesPresent ==
  "exit" \notin AgentFaults => (Spec /\ []OneAtATime => []WorktreePresent)
  <1> SUFFICES ASSUME "exit" \notin AgentFaults
               PROVE Spec /\ []OneAtATime => []WorktreePresent
    OBVIOUS
  <1> DEFINE All == RoomInv /\ SafeInv /\ TurnInv /\ CountInv /\ StatusInv /\ HouseInv
  <1>1. Init => All
    BY InitRoom, InitSafe, InitTurn, InitCount, InitStatus, InitHouse
  <1>2. All /\ OneAtATime /\ [Next]_vars => All'
    <2> SUFFICES ASSUME All, OneAtATime, [Next]_vars PROVE All'
      OBVIOUS
    <2>1. StopAlone
      BY AloneAtATime
    <2> QED BY <2>1, NextRoom, NextSafe, NextTurn, NextCount, NextStatus, NextHouse
  <1>3. All => WorktreePresent
    BY HousedWell
  <1> HIDE DEF All
  <1> QED BY <1>1, <1>2, <1>3, PTL DEF Spec
=============================================================================
