------------------------- MODULE AgentManagerProofs ------------------------
(***************************************************************************)
(* The safety properties of AgentManager, for every value of its constants.*)
(* IInv is inductive: TypeOK and SessionInv.  An action that uses a local  *)
(* variable of a thread relies on SessionInv for its type.  Most actions   *)
(* preserve SessionInv because of what they leave alone (RequestStep,      *)
(* DrainStep, QuietStep).  The actions that change the table of sessions   *)
(* or hand an adapter over have a proof of their own.                      *)
(***************************************************************************)
EXTENDS AgentManager, TLAPS

-----------------------------------------------------------------------------
(* Types.  Each lemma lists what its action leaves alone (<1>2) and types  *)
(* the rest.                                                               *)

\* Every name that an action assigns to pc is a step.
LEMMA StepNames ==
  /\ "idle" \in Steps
  /\ "start.load" \in Steps
  /\ "start.spawn" \in Steps
  /\ "start.running" \in Steps
  /\ "start.register" \in Steps
  /\ "start.preempt" \in Steps
  /\ "start.prompt" \in Steps
  /\ "start.persist" \in Steps
  /\ "prompt.lookup" \in Steps
  /\ "prompt.check" \in Steps
  /\ "prompt.running" \in Steps
  /\ "prompt.send" \in Steps
  /\ "prompt.persist" \in Steps
  /\ "stop.lookup" \in Steps
  /\ "stop.cancel" \in Steps
  /\ "stop.kill" \in Steps
  /\ "stop.read" \in Steps
  /\ "stop.write" \in Steps
  /\ "complete.read" \in Steps
  /\ "complete.write" \in Steps
  /\ "drain.select" \in Steps
  /\ "drain.closed" \in Steps
  /\ "drain.persist" \in Steps
  /\ "drain.costread" \in Steps
  /\ "drain.costwrite" \in Steps
  /\ "drain.terminal" \in Steps
  /\ "fail.read" \in Steps
  /\ "fail.write" \in Steps
  /\ "clean.delete" \in Steps
  /\ "clean.cancel" \in Steps
  BY DEF Steps, StartSteps, PromptSteps, StopSteps, CompleteSteps, DrainSteps,
         FailSteps, CleanSteps

\* Every status that an action writes is a value of the status column.
LEMMA RowNames ==
  {"running", "cancelled", "completed", "failed", "awaiting_input"}
    \subseteq Rows
  BY DEF Rows, WorkspaceStatus

\* UpdateWorkspace keeps the types of the column and of the contexts.
LEMMA UpdateWorkspaceType ==
  ASSUME TypeOK, NEW t \in Threads, NEW w, NEW s \in Rows, NEW alive, NEW ok,
         UpdateWorkspace(t, w, s, alive, ok)
  PROVE  status' \in [Workspaces -> Rows] /\ ctxDone' \in SUBSET Threads
  BY DEF TypeOK, UpdateWorkspace

\* Stop keeps the types of an adapter's subprocess and turns.
LEMMA AdapterStopType ==
  ASSUME TypeOK, NEW a \in Adapters, NEW how \in {"stopped", "preempted"},
         AdapterStop(a, how)
  PROVE  life' \in [Adapters -> Life] /\ turn' \in [Adapters -> 0..MaxTurns]
  BY ConstantsAssumption DEF TypeOK, AdapterStop, Life

\* SendPrompt keeps the number of turns within its bound.
LEMMA AdapterSendPromptType ==
  ASSUME TypeOK, NEW t, NEW a, NEW ok, AdapterSendPrompt(t, a, ok)
  PROVE  turn' \in [Adapters -> 0..MaxTurns]
  <1>1. turn \in [Adapters -> 0..MaxTurns] /\ MaxTurns \in Nat
    BY ConstantsAssumption DEF TypeOK
  <1>2. \/ turn' = turn
        \/ turn' = [turn EXCEPT ![a] = IF @ < MaxTurns THEN @ + 1 ELSE @]
    BY DEF AdapterSendPrompt
  <1> QED BY <1>1, <1>2

\* Request preserves the types.
LEMMA TypeRequest ==
  ASSUME TypeOK, NEW t \in Reqs, NEW op \in Ops, NEW w \in Workspaces,
      Request(t, op, w)
  PROVE  TypeOK'
  <1>1. t \in Threads
    BY DEF Threads
  <1>2. UNCHANGED << status, tokens, sessions, then, life, turn, chan, budget,
                     ev, base, first, sweep, crashes >>
    BY DEF Request, dbVars, adapterVars, drainVars, bootVars
  <1>3. pc' \in [Threads -> Steps]
    BY <1>1, StepNames, ConstantsAssumption DEF TypeOK, Goto, AllOps, Request
  <1>4. /\ ws' \in [Threads -> Workspaces \cup {None}]
        /\ ad' \in [Threads -> Adapters \cup {None}]
    BY <1>1 DEF TypeOK, Request
  <1>5. ctxDone' \in SUBSET Threads
    BY <1>1 DEF TypeOK, Request
  <1> QED BY <1>2, <1>3, <1>4, <1>5 DEF TypeOK

\* Disconnect preserves the types.
LEMMA TypeDisconnect ==
  ASSUME TypeOK, SessionInv, NEW t \in Reqs, Disconnect(t)
  PROVE  TypeOK'
  <1>1. t \in Threads
    BY StepNames
    DEF SessionInv, ThreadsInPlace, AdaptersHeld, HoldingSteps, TypeOK,
        Threads, Disconnect
  <1>2. UNCHANGED << status, tokens, sessions, pc, then, ws, ad, life, turn,
                     chan, budget, ev, base, first, sweep, crashes >>
    BY DEF Disconnect, dbVars, adapterVars, drainVars, bootVars
  <1>3. ctxDone' \in SUBSET Threads
    BY <1>1, UpdateWorkspaceType, RowNames DEF TypeOK, Disconnect
  <1> QED BY <1>2, <1>3 DEF TypeOK

\* StartLoad preserves the types.
LEMMA TypeStartLoad ==
  ASSUME TypeOK, SessionInv, NEW t \in Reqs, StartLoad(t)
  PROVE  TypeOK'
  <1>1. t \in Threads
    BY StepNames
    DEF SessionInv, ThreadsInPlace, AdaptersHeld, HoldingSteps, TypeOK,
        Threads, StartLoad
  <1>2. UNCHANGED << status, tokens, sessions, ctxDone, then, ws, ad, life,
                     turn, chan, budget, ev, base, first, sweep, crashes >>
    BY DEF StartLoad, dbVars, adapterVars, drainVars, bootVars
  <1>3. pc' \in [Threads -> Steps]
    BY <1>1, StepNames DEF TypeOK, Goto, StartLoad
  <1> QED BY <1>2, <1>3 DEF TypeOK

\* StartSpawn preserves the types.
LEMMA TypeStartSpawn ==
  ASSUME TypeOK, SessionInv, NEW t \in Reqs, StartSpawn(t)
  PROVE  TypeOK'
  <1>1. t \in Threads /\ ws[t] \in Workspaces
    BY StepNames
    DEF SessionInv, ThreadsInPlace, AdaptersHeld, HoldingSteps, TypeOK,
        Threads, StartSpawn
  <1>2. UNCHANGED << status, tokens, sessions, ctxDone, then, turn, chan,
                     budget, ev, base, first, sweep, crashes >>
    BY DEF StartSpawn, dbVars, drainVars, bootVars
  <1>3. pc' \in [Threads -> Steps]
    BY <1>1, StepNames DEF TypeOK, Goto, StartSpawn
  <1>4. life' \in [Adapters -> Life]
    BY <1>1 DEF TypeOK, Life, StartSpawn
  <1>5. ad' \in [Threads -> Adapters \cup {None}]
    BY <1>1 DEF TypeOK, StartSpawn
  <1>6. ws' \in [Threads -> Workspaces \cup {None}]
    BY <1>1 DEF TypeOK, StartSpawn
  <1> QED BY <1>2, <1>3, <1>4, <1>5, <1>6 DEF TypeOK

\* StartRunning preserves the types.
LEMMA TypeStartRunning ==
  ASSUME TypeOK, SessionInv, NEW t \in Reqs, StartRunning(t)
  PROVE  TypeOK'
  <1>1. t \in Threads /\ ad[t] \in Adapters
    BY StepNames
    DEF SessionInv, ThreadsInPlace, AdaptersHeld, HoldingSteps, TypeOK,
        Threads, StartRunning
  <1>2. UNCHANGED << tokens, sessions, then, ws, ad, chan, budget, ev, base,
                     first, sweep, crashes >>
    BY DEF StartRunning, UpdateWorkspace, AdapterStop, adapterVars, drainVars,
        bootVars
  <1>3. status' \in [Workspaces -> Rows]
    BY <1>1, UpdateWorkspaceType, RowNames DEF StartRunning
  <1>4. ctxDone' \in SUBSET Threads
    BY <1>1, UpdateWorkspaceType, RowNames DEF TypeOK, StartRunning
  <1>5. pc' \in [Threads -> Steps]
    BY <1>1, StepNames DEF TypeOK, Goto, StartRunning
  <1>6. life' \in [Adapters -> Life]
    BY <1>1, AdapterStopType DEF TypeOK, adapterVars, StartRunning
  <1>7. turn' \in [Adapters -> 0..MaxTurns]
    BY <1>1, AdapterStopType DEF TypeOK, adapterVars, StartRunning
  <1> QED BY <1>2, <1>3, <1>4, <1>5, <1>6, <1>7 DEF TypeOK

\* StartRegister preserves the types.
LEMMA TypeStartRegister ==
  ASSUME TypeOK, SessionInv, NEW t \in Reqs, StartRegister(t)
  PROVE  TypeOK'
  <1>1. /\ t \in Threads /\ ws[t] \in Workspaces
        /\ ad[t] \in Adapters /\ ad[t] \in Threads
    BY StepNames
    DEF SessionInv, ThreadsInPlace, AdaptersHeld, HoldingSteps, TypeOK,
        Threads, StartRegister
  <1>2. UNCHANGED << status, tokens, then, ws, life, turn, chan, budget, ev,
                     base, first, sweep, crashes >>
    BY DEF StartRegister, dbVars, adapterVars, drainVars, bootVars
  <1>3. sessions' \in [Workspaces -> Adapters \cup {None}]
    <2>1. CASE sessions' = [sessions EXCEPT ![ws[t]] = ad[t]]
      BY <1>1, <2>1 DEF TypeOK
    <2>2. CASE UNCHANGED sessions
      BY <2>2 DEF TypeOK
    <2> QED BY <2>1, <2>2 DEF StartRegister
  <1>4. ctxDone' \in SUBSET Threads
    BY <1>1, UpdateWorkspaceType, RowNames DEF TypeOK, StartRegister
  <1>5. ad' \in [Threads -> Adapters \cup {None}]
    BY <1>1 DEF TypeOK, StartRegister
  <1>6. pc' \in [Threads -> Steps]
    BY <1>1, StepNames DEF TypeOK, Goto, StartRegister
  <1> QED BY <1>2, <1>3, <1>4, <1>5, <1>6 DEF TypeOK

\* StartPreempt preserves the types.
LEMMA TypeStartPreempt ==
  ASSUME TypeOK, SessionInv, NEW t \in Reqs, StartPreempt(t)
  PROVE  TypeOK'
  <1>1. t \in Threads /\ ad[t] \in Adapters
    BY StepNames
    DEF SessionInv, ThreadsInPlace, AdaptersHeld, HoldingSteps, TypeOK,
        Threads, StartPreempt
  <1>2. UNCHANGED << status, tokens, sessions, ctxDone, then, ws, ad, chan,
                     budget, ev, base, first, sweep, crashes >>
    BY DEF StartPreempt, AdapterStop, dbVars, drainVars, bootVars
  <1>3. pc' \in [Threads -> Steps]
    BY <1>1, StepNames DEF TypeOK, Goto, StartPreempt
  <1>4. life' \in [Adapters -> Life]
    BY <1>1, AdapterStopType DEF TypeOK, StartPreempt
  <1>5. turn' \in [Adapters -> 0..MaxTurns]
    BY <1>1, AdapterStopType, AdapterSendPromptType DEF TypeOK, StartPreempt
  <1> QED BY <1>2, <1>3, <1>4, <1>5 DEF TypeOK

\* StartPrompt preserves the types.
LEMMA TypeStartPrompt ==
  ASSUME TypeOK, SessionInv, NEW t \in Reqs, StartPrompt(t)
  PROVE  TypeOK'
  <1>1. t \in Threads
    BY StepNames
    DEF SessionInv, ThreadsInPlace, AdaptersHeld, HoldingSteps, TypeOK,
        Threads, StartPrompt
  <1>2. UNCHANGED << status, tokens, sessions, ctxDone, ws, ad, life, chan,
                     budget, ev, base, first, sweep, crashes >>
    BY DEF StartPrompt, AdapterSendPrompt, dbVars, drainVars, bootVars
  <1>3. pc' \in [Threads -> Steps]
    BY <1>1, StepNames DEF TypeOK, Goto, StartPrompt
  <1>4. then' \in
         [Threads -> {"idle", "drain.select", "clean.delete", "fail.read"}]
    BY <1>1 DEF TypeOK, StartPrompt
  <1>5. turn' \in [Adapters -> 0..MaxTurns]
    BY <1>1, AdapterStopType, AdapterSendPromptType DEF TypeOK, StartPrompt
  <1> QED BY <1>2, <1>3, <1>4, <1>5 DEF TypeOK

\* StartPersist preserves the types.
LEMMA TypeStartPersist ==
  ASSUME TypeOK, SessionInv, NEW t \in Reqs, StartPersist(t)
  PROVE  TypeOK'
  <1>1. t \in Threads /\ ad[t] \in Adapters /\ ad[t] \in Threads
    BY StepNames
    DEF SessionInv, ThreadsInPlace, AdaptersHeld, HoldingSteps, TypeOK,
        Threads, StartPersist
  <1>2. UNCHANGED << status, tokens, sessions, ctxDone, then, ws, ad, life,
                     turn, chan, budget, ev, base, sweep, crashes >>
    BY DEF StartPersist, dbVars, adapterVars, bootVars
  <1>3. pc' \in [Threads -> Steps]
    BY <1>1, StepNames DEF TypeOK, StartPersist
  <1>4. first' \in [Adapters -> {"none", "user", "lost", "agent"}]
    BY <1>1 DEF TypeOK, StartPersist
  <1> QED BY <1>2, <1>3, <1>4 DEF TypeOK

\* PromptLookup preserves the types.
LEMMA TypePromptLookup ==
  ASSUME TypeOK, SessionInv, NEW t \in Reqs, PromptLookup(t)
  PROVE  TypeOK'
  <1>1. t \in Threads /\ ws[t] \in Workspaces
    BY StepNames
    DEF SessionInv, ThreadsInPlace, AdaptersHeld, HoldingSteps, TypeOK,
        Threads, PromptLookup
  <1>2. UNCHANGED << status, tokens, sessions, ctxDone, then, ws, life, turn,
                     chan, budget, ev, base, first, sweep, crashes >>
    BY DEF PromptLookup, dbVars, adapterVars, drainVars, bootVars
  <1>3. pc' \in [Threads -> Steps]
    BY <1>1, StepNames DEF TypeOK, Goto, PromptLookup
  <1>4. ad' \in [Threads -> Adapters \cup {None}]
    BY <1>1 DEF TypeOK, PromptLookup
  <1> QED BY <1>2, <1>3, <1>4 DEF TypeOK

\* PromptCheck preserves the types.
LEMMA TypePromptCheck ==
  ASSUME TypeOK, SessionInv, NEW t \in Reqs, PromptCheck(t)
  PROVE  TypeOK'
  <1>1. t \in Threads
    BY StepNames
    DEF SessionInv, ThreadsInPlace, AdaptersHeld, HoldingSteps, TypeOK,
        Threads, PromptCheck
  <1>2. UNCHANGED << status, tokens, sessions, ctxDone, then, ws, ad, life,
                     turn, chan, budget, ev, base, first, sweep, crashes >>
    BY DEF PromptCheck, dbVars, adapterVars, drainVars, bootVars
  <1>3. pc' \in [Threads -> Steps]
    BY <1>1, StepNames DEF TypeOK, Goto, PromptCheck
  <1> QED BY <1>2, <1>3 DEF TypeOK

\* PromptRunning preserves the types.
LEMMA TypePromptRunning ==
  ASSUME TypeOK, SessionInv, NEW t \in Reqs, PromptRunning(t)
  PROVE  TypeOK'
  <1>1. t \in Threads
    BY StepNames
    DEF SessionInv, ThreadsInPlace, AdaptersHeld, HoldingSteps, TypeOK,
        Threads, PromptRunning
  <1>2. UNCHANGED << tokens, sessions, then, ws, ad, life, turn, chan, budget,
                     ev, base, first, sweep, crashes >>
    BY DEF PromptRunning, UpdateWorkspace, adapterVars, drainVars, bootVars
  <1>3. status' \in [Workspaces -> Rows]
    BY <1>1, UpdateWorkspaceType, RowNames DEF PromptRunning
  <1>4. ctxDone' \in SUBSET Threads
    BY <1>1, UpdateWorkspaceType, RowNames DEF TypeOK, PromptRunning
  <1>5. pc' \in [Threads -> Steps]
    BY <1>1, StepNames DEF TypeOK, Goto, PromptRunning
  <1> QED BY <1>2, <1>3, <1>4, <1>5 DEF TypeOK

\* PromptSend preserves the types.
LEMMA TypePromptSend ==
  ASSUME TypeOK, SessionInv, NEW t \in Reqs, PromptSend(t)
  PROVE  TypeOK'
  <1>1. t \in Threads
    BY StepNames
    DEF SessionInv, ThreadsInPlace, AdaptersHeld, HoldingSteps, TypeOK,
        Threads, PromptSend
  <1>2. UNCHANGED << status, tokens, sessions, ctxDone, then, ws, ad, life,
                     chan, budget, ev, base, first, sweep, crashes >>
    BY DEF PromptSend, AdapterSendPrompt, dbVars, drainVars, bootVars
  <1>3. pc' \in [Threads -> Steps]
    BY <1>1, StepNames DEF TypeOK, Goto, PromptSend
  <1>4. turn' \in [Adapters -> 0..MaxTurns]
    BY <1>1, AdapterStopType, AdapterSendPromptType DEF TypeOK, PromptSend
  <1> QED BY <1>2, <1>3, <1>4 DEF TypeOK

\* PromptPersist preserves the types.
LEMMA TypePromptPersist ==
  ASSUME TypeOK, SessionInv, NEW t \in Reqs, PromptPersist(t)
  PROVE  TypeOK'
  <1>1. t \in Threads
    BY StepNames
    DEF SessionInv, ThreadsInPlace, AdaptersHeld, HoldingSteps, TypeOK,
        Threads, PromptPersist
  <1>2. UNCHANGED << status, tokens, sessions, ctxDone, then, ws, ad, life,
                     turn, chan, budget, ev, base, sweep, crashes >>
    BY DEF PromptPersist, dbVars, adapterVars, bootVars
  <1>3. pc' \in [Threads -> Steps]
    BY <1>1, StepNames DEF TypeOK, Goto, PromptPersist
  <1>4. first' \in [Adapters -> {"none", "user", "lost", "agent"}]
    BY <1>1 DEF TypeOK, PromptPersist
  <1> QED BY <1>2, <1>3, <1>4 DEF TypeOK

\* StopLookup preserves the types.
LEMMA TypeStopLookup ==
  ASSUME TypeOK, SessionInv, NEW t \in Reqs, StopLookup(t)
  PROVE  TypeOK'
  <1>1. t \in Threads /\ ws[t] \in Workspaces
    BY StepNames
    DEF SessionInv, ThreadsInPlace, AdaptersHeld, HoldingSteps, TypeOK,
        Threads, StopLookup
  <1>2. UNCHANGED << status, tokens, sessions, ctxDone, then, ws, life, turn,
                     chan, budget, ev, base, first, sweep, crashes >>
    BY DEF StopLookup, dbVars, adapterVars, drainVars, bootVars
  <1>3. pc' \in [Threads -> Steps]
    BY <1>1, StepNames DEF TypeOK, Goto, StopLookup
  <1>4. ad' \in [Threads -> Adapters \cup {None}]
    BY <1>1 DEF TypeOK, StopLookup
  <1> QED BY <1>2, <1>3, <1>4 DEF TypeOK

\* StopCancel preserves the types.
LEMMA TypeStopCancel ==
  ASSUME TypeOK, SessionInv, NEW t \in Reqs, StopCancel(t)
  PROVE  TypeOK'
  <1>1. t \in Threads /\ ad[t] \in Adapters /\ ad[t] \in Threads
    BY StepNames
    DEF SessionInv, ThreadsInPlace, AdaptersHeld, HoldingSteps, TypeOK,
        Threads, StopCancel
  <1>2. UNCHANGED << status, tokens, sessions, then, ws, ad, life, turn, chan,
                     budget, ev, base, first, sweep, crashes >>
    BY DEF StopCancel, dbVars, adapterVars, drainVars, bootVars
  <1>3. pc' \in [Threads -> Steps]
    BY <1>1, StepNames DEF TypeOK, Goto, StopCancel
  <1>4. ctxDone' \in SUBSET Threads
    BY <1>1, UpdateWorkspaceType, RowNames DEF TypeOK, StopCancel
  <1> QED BY <1>2, <1>3, <1>4 DEF TypeOK

\* StopKill preserves the types.
LEMMA TypeStopKill ==
  ASSUME TypeOK, SessionInv, NEW t \in Reqs, StopKill(t)
  PROVE  TypeOK'
  <1>1. t \in Threads /\ ad[t] \in Adapters
    BY StepNames
    DEF SessionInv, ThreadsInPlace, AdaptersHeld, HoldingSteps, TypeOK,
        Threads, StopKill
  <1>2. UNCHANGED << status, tokens, sessions, ctxDone, then, ws, ad, chan,
                     budget, ev, base, first, sweep, crashes >>
    BY DEF StopKill, AdapterStop, dbVars, drainVars, bootVars
  <1>3. pc' \in [Threads -> Steps]
    BY <1>1, StepNames DEF TypeOK, Goto, StopKill
  <1>4. life' \in [Adapters -> Life]
    BY <1>1, AdapterStopType DEF TypeOK, StopKill
  <1>5. turn' \in [Adapters -> 0..MaxTurns]
    BY <1>1, AdapterStopType, AdapterSendPromptType DEF TypeOK, StopKill
  <1> QED BY <1>2, <1>3, <1>4, <1>5 DEF TypeOK

\* StopRead preserves the types.
LEMMA TypeStopRead ==
  ASSUME TypeOK, SessionInv, NEW t \in Reqs, StopRead(t)
  PROVE  TypeOK'
  <1>1. t \in Threads
    BY StepNames
    DEF SessionInv, ThreadsInPlace, AdaptersHeld, HoldingSteps, TypeOK,
        Threads, StopRead
  <1>2. UNCHANGED << status, tokens, sessions, ctxDone, then, ws, ad, life,
                     turn, chan, budget, ev, base, first, sweep, crashes >>
    BY DEF StopRead, dbVars, adapterVars, drainVars, bootVars
  <1>3. pc' \in [Threads -> Steps]
    BY <1>1, StepNames DEF TypeOK, Goto, StopRead
  <1> QED BY <1>2, <1>3 DEF TypeOK

\* StopWrite preserves the types.
LEMMA TypeStopWrite ==
  ASSUME TypeOK, SessionInv, NEW t \in Reqs, StopWrite(t)
  PROVE  TypeOK'
  <1>1. t \in Threads
    BY StepNames
    DEF SessionInv, ThreadsInPlace, AdaptersHeld, HoldingSteps, TypeOK,
        Threads, StopWrite
  <1>2. UNCHANGED << tokens, sessions, then, ws, ad, life, turn, chan, budget,
                     ev, base, first, sweep, crashes >>
    BY DEF StopWrite, UpdateWorkspace, adapterVars, drainVars, bootVars
  <1>3. status' \in [Workspaces -> Rows]
    BY <1>1, UpdateWorkspaceType, RowNames DEF StopWrite
  <1>4. ctxDone' \in SUBSET Threads
    BY <1>1, UpdateWorkspaceType, RowNames DEF TypeOK, StopWrite
  <1>5. pc' \in [Threads -> Steps]
    BY <1>1, StepNames DEF TypeOK, Goto, StopWrite
  <1> QED BY <1>2, <1>3, <1>4, <1>5 DEF TypeOK

\* CompleteRead preserves the types.
LEMMA TypeCompleteRead ==
  ASSUME TypeOK, SessionInv, NEW t \in Reqs, CompleteRead(t)
  PROVE  TypeOK'
  <1>1. t \in Threads
    BY StepNames
    DEF SessionInv, ThreadsInPlace, AdaptersHeld, HoldingSteps, TypeOK,
        Threads, CompleteRead
  <1>2. UNCHANGED << status, tokens, sessions, ctxDone, then, ws, ad, life,
                     turn, chan, budget, ev, base, first, sweep, crashes >>
    BY DEF CompleteRead, dbVars, adapterVars, drainVars, bootVars
  <1>3. pc' \in [Threads -> Steps]
    BY <1>1, StepNames DEF TypeOK, Goto, CompleteRead
  <1> QED BY <1>2, <1>3 DEF TypeOK

\* CompleteWrite preserves the types.
LEMMA TypeCompleteWrite ==
  ASSUME TypeOK, SessionInv, NEW t \in Reqs, CompleteWrite(t)
  PROVE  TypeOK'
  <1>1. t \in Threads
    BY StepNames
    DEF SessionInv, ThreadsInPlace, AdaptersHeld, HoldingSteps, TypeOK,
        Threads, CompleteWrite
  <1>2. UNCHANGED << tokens, sessions, then, ws, ad, life, turn, chan, budget,
                     ev, base, first, sweep, crashes >>
    BY DEF CompleteWrite, UpdateWorkspace, adapterVars, drainVars, bootVars
  <1>3. status' \in [Workspaces -> Rows]
    BY <1>1, UpdateWorkspaceType, RowNames DEF CompleteWrite
  <1>4. ctxDone' \in SUBSET Threads
    BY <1>1, UpdateWorkspaceType, RowNames DEF TypeOK, CompleteWrite
  <1>5. pc' \in [Threads -> Steps]
    BY <1>1, StepNames DEF TypeOK, Goto, CompleteWrite
  <1> QED BY <1>2, <1>3, <1>4, <1>5 DEF TypeOK

\* FailRead preserves the types.
LEMMA TypeFailRead ==
  ASSUME TypeOK, SessionInv, NEW t \in Threads, FailRead(t)
  PROVE  TypeOK'
  <1>1. t \in Threads /\ then[t] \in Steps
    BY StepNames DEF TypeOK, Threads
  <1>2. UNCHANGED << status, tokens, sessions, ctxDone, ws, ad, life, turn,
                     chan, budget, ev, base, first, sweep, crashes >>
    BY DEF FailRead, Return, dbVars, adapterVars, drainVars, bootVars
  <1>3. pc' \in [Threads -> Steps]
    BY <1>1, StepNames DEF TypeOK, Goto, Return, FailRead
  <1>4. then' \in
         [Threads -> {"idle", "drain.select", "clean.delete", "fail.read"}]
    BY <1>1 DEF TypeOK, Return, FailRead
  <1> QED BY <1>2, <1>3, <1>4 DEF TypeOK

\* FailWrite preserves the types.
LEMMA TypeFailWrite ==
  ASSUME TypeOK, SessionInv, NEW t \in Threads, FailWrite(t)
  PROVE  TypeOK'
  <1>1. t \in Threads /\ then[t] \in Steps
    BY StepNames DEF TypeOK, Threads
  <1>2. UNCHANGED << tokens, sessions, ws, ad, life, turn, chan, budget, ev,
                     base, first, sweep, crashes >>
    BY DEF FailWrite, Return, UpdateWorkspace, adapterVars, drainVars, bootVars
  <1>3. status' \in [Workspaces -> Rows]
    BY <1>1, UpdateWorkspaceType, RowNames DEF FailWrite
  <1>4. ctxDone' \in SUBSET Threads
    BY <1>1, UpdateWorkspaceType, RowNames DEF TypeOK, FailWrite
  <1>5. pc' \in [Threads -> Steps]
    BY <1>1, StepNames DEF TypeOK, Goto, Return, FailWrite
  <1>6. then' \in
         [Threads -> {"idle", "drain.select", "clean.delete", "fail.read"}]
    BY <1>1 DEF TypeOK, Return, FailWrite
  <1> QED BY <1>2, <1>3, <1>4, <1>5, <1>6 DEF TypeOK

\* CleanDelete preserves the types.
LEMMA TypeCleanDelete ==
  ASSUME TypeOK, SessionInv, NEW t \in Threads, CleanDelete(t)
  PROVE  TypeOK'
  <1>1. t \in Threads /\ ws[t] \in Workspaces
    BY StepNames
    DEF SessionInv, ThreadsInPlace, AdaptersHeld, HoldingSteps, TypeOK,
        Threads, CleanDelete
  <1>2. UNCHANGED << status, tokens, ctxDone, then, ws, life, turn, chan,
                     budget, ev, base, first, sweep, crashes >>
    BY DEF CleanDelete, dbVars, adapterVars, drainVars, bootVars
  <1>3. sessions' \in [Workspaces -> Adapters \cup {None}]
    BY <1>1 DEF TypeOK, CleanDelete
  <1>4. ad' \in [Threads -> Adapters \cup {None}]
    BY <1>1 DEF TypeOK, CleanDelete
  <1>5. pc' \in [Threads -> Steps]
    BY <1>1, StepNames DEF TypeOK, Goto, CleanDelete
  <1> QED BY <1>2, <1>3, <1>4, <1>5 DEF TypeOK

\* CleanCancel preserves the types.
LEMMA TypeCleanCancel ==
  ASSUME TypeOK, SessionInv, NEW t \in Threads, CleanCancel(t)
  PROVE  TypeOK'
  <1>1. t \in Threads /\ then[t] \in Steps /\ ad[t] \in Threads \cup {None}
    BY StepNames DEF TypeOK, Threads
  <1>2. UNCHANGED << status, tokens, sessions, ws, ad, life, turn, chan,
                     budget, ev, base, first, sweep, crashes >>
    BY DEF CleanCancel, Return, dbVars, adapterVars, drainVars, bootVars
  <1>3. ctxDone' \in SUBSET Threads
    BY <1>1, UpdateWorkspaceType, RowNames DEF TypeOK, CleanCancel
  <1>4. pc' \in [Threads -> Steps]
    BY <1>1, StepNames DEF TypeOK, Goto, Return, CleanCancel
  <1>5. then' \in
         [Threads -> {"idle", "drain.select", "clean.delete", "fail.read"}]
    BY <1>1 DEF TypeOK, Return, CleanCancel
  <1> QED BY <1>2, <1>3, <1>4, <1>5 DEF TypeOK

\* DrainSelect preserves the types.
LEMMA TypeDrainSelect ==
  ASSUME TypeOK, SessionInv, NEW t \in Adapters, DrainSelect(t)
  PROVE  TypeOK'
  <1>1. t \in Threads
    BY StepNames
    DEF SessionInv, ThreadsInPlace, AdaptersHeld, HoldingSteps, TypeOK,
        Threads, DrainSelect
  <1>2. UNCHANGED << status, tokens, sessions, ctxDone, then, ws, ad, life,
                     turn, budget, base, first, sweep, crashes >>
    BY DEF DrainSelect, dbVars, bootVars
  <1>3. pc' \in [Threads -> Steps]
    BY <1>1, StepNames DEF TypeOK, Goto, DrainSelect
  <1>4. chan' \in [Adapters -> Seq(Events)]
    <2>1. /\ chan[t] \in Seq(Events)
          /\ chan[t] # << >> => Tail(chan[t]) \in Seq(Events)
      BY DEF TypeOK
    <2>2. CASE chan[t] # << >> /\ chan' = [chan EXCEPT ![t] = Tail(@)]
      BY <2>1, <2>2 DEF TypeOK
    <2>3. CASE UNCHANGED chan
      BY <2>3 DEF TypeOK
    <2> QED BY <2>2, <2>3 DEF DrainSelect
  <1>5. ev' \in [Adapters -> Events \cup {"none"}]
    BY <1>1 DEF TypeOK, DrainSelect
  <1> QED BY <1>2, <1>3, <1>4, <1>5 DEF TypeOK

\* DrainClosed preserves the types.
LEMMA TypeDrainClosed ==
  ASSUME TypeOK, SessionInv, NEW t \in Adapters, DrainClosed(t)
  PROVE  TypeOK'
  <1>1. t \in Threads
    BY StepNames
    DEF SessionInv, ThreadsInPlace, AdaptersHeld, HoldingSteps, TypeOK,
        Threads, DrainClosed
  <1>2. UNCHANGED << status, tokens, sessions, ctxDone, ws, ad, life, turn,
                     chan, budget, ev, base, first, sweep, crashes >>
    BY DEF DrainClosed, dbVars, adapterVars, drainVars, bootVars
  <1>3. pc' \in [Threads -> Steps]
    BY <1>1, StepNames DEF TypeOK, Goto, DrainClosed
  <1>4. then' \in
         [Threads -> {"idle", "drain.select", "clean.delete", "fail.read"}]
    BY <1>1 DEF TypeOK, DrainClosed
  <1> QED BY <1>2, <1>3, <1>4 DEF TypeOK

\* DrainPersist preserves the types.
LEMMA TypeDrainPersist ==
  ASSUME TypeOK, SessionInv, NEW t \in Adapters, DrainPersist(t)
  PROVE  TypeOK'
  <1>1. t \in Threads
    BY StepNames
    DEF SessionInv, ThreadsInPlace, AdaptersHeld, HoldingSteps, TypeOK,
        Threads, DrainPersist
  <1>2. UNCHANGED << status, tokens, sessions, ctxDone, then, ws, ad, life,
                     turn, chan, budget, ev, base, sweep, crashes >>
    BY DEF DrainPersist, dbVars, adapterVars, bootVars
  <1>3. pc' \in [Threads -> Steps]
    BY <1>1, StepNames DEF TypeOK, Goto, DrainPersist
  <1>4. first' \in [Adapters -> {"none", "user", "lost", "agent"}]
    BY <1>1 DEF TypeOK, DrainPersist
  <1> QED BY <1>2, <1>3, <1>4 DEF TypeOK

\* DrainCostRead preserves the types.
LEMMA TypeDrainCostRead ==
  ASSUME TypeOK, SessionInv, NEW t \in Adapters, DrainCostRead(t)
  PROVE  TypeOK'
  <1>1. t \in Threads /\ ws[t] \in Workspaces
    BY StepNames
    DEF SessionInv, ThreadsInPlace, AdaptersHeld, HoldingSteps, TypeOK,
        Threads, DrainCostRead
  <1>2. UNCHANGED << status, tokens, sessions, ctxDone, then, ws, ad, life,
                     turn, chan, budget, ev, first, sweep, crashes >>
    BY DEF DrainCostRead, dbVars, adapterVars, bootVars
  <1>3. pc' \in [Threads -> Steps]
    BY <1>1, StepNames DEF TypeOK, Goto, DrainCostRead
  <1>4. base' \in [Adapters -> Nat]
    BY <1>1 DEF TypeOK, DrainCostRead
  <1> QED BY <1>2, <1>3, <1>4 DEF TypeOK

\* DrainCostWrite preserves the types.
LEMMA TypeDrainCostWrite ==
  ASSUME TypeOK, SessionInv, NEW t \in Adapters, DrainCostWrite(t)
  PROVE  TypeOK'
  <1>1. t \in Threads /\ base[t] + 1 \in Nat
    BY StepNames
    DEF SessionInv, ThreadsInPlace, AdaptersHeld, HoldingSteps, TypeOK,
        Threads, DrainCostWrite
  <1>2. UNCHANGED << status, sessions, ctxDone, then, ws, ad, life, turn, chan,
                     budget, ev, base, first, sweep, crashes >>
    BY DEF DrainCostWrite, adapterVars, drainVars, bootVars
  <1>3. pc' \in [Threads -> Steps]
    BY <1>1, StepNames DEF TypeOK, Goto, DrainCostWrite
  <1>4. tokens' \in [Workspaces -> Nat]
    BY <1>1 DEF TypeOK, GetWorkspace, DrainCostWrite
  <1> QED BY <1>2, <1>3, <1>4 DEF TypeOK

\* DrainTerminal preserves the types.
LEMMA TypeDrainTerminal ==
  ASSUME TypeOK, SessionInv, NEW t \in Adapters, DrainTerminal(t)
  PROVE  TypeOK'
  <1>1. t \in Threads
    BY StepNames
    DEF SessionInv, ThreadsInPlace, AdaptersHeld, HoldingSteps, TypeOK,
        Threads, DrainTerminal
  <1>2. UNCHANGED << tokens, sessions, ws, ad, life, turn, chan, budget, ev,
                     base, first, sweep, crashes >>
    BY DEF DrainTerminal, UpdateWorkspace, adapterVars, drainVars, bootVars
  <1>3. status' \in [Workspaces -> Rows]
    BY <1>1, UpdateWorkspaceType, RowNames DEF TypeOK, DrainTerminal
  <1>4. ctxDone' \in SUBSET Threads
    BY <1>1, UpdateWorkspaceType, RowNames DEF TypeOK, DrainTerminal
  <1>5. pc' \in [Threads -> Steps]
    BY <1>1, StepNames DEF TypeOK, Goto, DrainTerminal
  <1>6. then' \in
         [Threads -> {"idle", "drain.select", "clean.delete", "fail.read"}]
    BY <1>1 DEF TypeOK, DrainTerminal
  <1> QED BY <1>2, <1>3, <1>4, <1>5, <1>6 DEF TypeOK

\* Talk preserves the types.
LEMMA TypeTalk ==
  ASSUME TypeOK, NEW a \in Adapters, Talk(a)
  PROVE  TypeOK'
  <1>2. UNCHANGED << status, tokens, sessions, ctxDone, pc, then, ws, ad, life,
                     turn, ev, base, first, sweep, crashes >>
    BY DEF Talk, Emit, dbVars, drainVars, bootVars
  <1>3. budget' \in [Adapters -> 0..MaxEvents]
    BY ConstantsAssumption DEF TypeOK, Talk
  <1>4. chan' \in [Adapters -> Seq(Events)]
    BY DEF TypeOK, Emit, Events, Talk
  <1> QED BY <1>2, <1>3, <1>4 DEF TypeOK

\* FinishTurn preserves the types.
LEMMA TypeFinishTurn ==
  ASSUME TypeOK, NEW a \in Adapters, FinishTurn(a)
  PROVE  TypeOK'
  <1>2. UNCHANGED << status, tokens, sessions, ctxDone, pc, then, ws, ad, life,
                     budget, ev, base, first, sweep, crashes >>
    BY DEF FinishTurn, Emit, dbVars, drainVars, bootVars
  <1>3. turn' \in [Adapters -> 0..MaxTurns]
    BY ConstantsAssumption DEF TypeOK, Emit, CanEmit, FinishTurn
  <1>4. chan' \in [Adapters -> Seq(Events)]
    BY DEF TypeOK, Emit, Events, FinishTurn
  <1> QED BY <1>2, <1>3, <1>4 DEF TypeOK

\* ProcessExit preserves the types.
LEMMA TypeProcessExit ==
  ASSUME TypeOK, NEW a \in Adapters, ProcessExit(a)
  PROVE  TypeOK'
  <1>2. UNCHANGED << status, tokens, sessions, ctxDone, pc, then, ws, ad, chan,
                     budget, ev, base, first, sweep, crashes >>
    BY DEF ProcessExit, dbVars, drainVars, bootVars
  <1>3. life' \in [Adapters -> Life]
    BY DEF TypeOK, Life, ProcessExit
  <1>4. turn' \in [Adapters -> 0..MaxTurns]
    BY ConstantsAssumption DEF TypeOK, ProcessExit
  <1> QED BY <1>2, <1>3, <1>4 DEF TypeOK

\* DeleteRow preserves the types.
LEMMA TypeDeleteRow ==
  ASSUME TypeOK, NEW w \in Workspaces, DeleteRow(w)
  PROVE  TypeOK'
  <1>2. UNCHANGED << tokens, sessions, ctxDone, pc, then, ws, ad, life, turn,
                     chan, budget, ev, base, first, sweep, crashes >>
    BY DEF DeleteRow, adapterVars, drainVars, bootVars
  <1>3. status' \in [Workspaces -> Rows]
    BY RowNames DEF TypeOK, Rows, DeleteRow
  <1> QED BY <1>2, <1>3 DEF TypeOK

\* SweepRow preserves the types.
LEMMA TypeSweepRow ==
  ASSUME TypeOK, NEW w \in Workspaces, SweepRow(w)
  PROVE  TypeOK'
  <1>2. UNCHANGED << tokens, sessions, ctxDone, pc, then, ws, ad, life, turn,
                     chan, budget, ev, base, first, crashes >>
    BY DEF SweepRow, adapterVars, drainVars
  <1>3. status' \in [Workspaces -> Rows]
    BY RowNames DEF TypeOK, Rows, SweepRow
  <1>4. sweep' \in SUBSET Workspaces
    BY DEF TypeOK, SweepRow
  <1> QED BY <1>2, <1>3, <1>4 DEF TypeOK

\* Crash preserves the types.
LEMMA TypeCrash ==
  ASSUME TypeOK, Crash
  PROVE  TypeOK'
  BY StepNames, ConstantsAssumption DEF TypeOK, Crash, dbVars, Life

-----------------------------------------------------------------------------
(* The sessions.                                                           *)

\* A step of thread t leaves the other threads where they are.
OthersStay(t) ==
  \A u \in Threads \ {t} :
    pc'[u] = pc[u] /\ then'[u] = then[u] /\ ws'[u] = ws[u] /\ ad'[u] = ad[u]

\* No session is un-cancelled and no first message is taken back.
Monotone ==
  /\ \A a \in Adapters : a \in ctxDone => a \in ctxDone'
  /\ \A a \in Adapters :
       first'[a] # "agent" /\ (first[a] # "none" => first'[a] # "none")

\* No adapter is unmade, and a closed channel stays closed.
LifeMoves ==
  \A a \in Adapters :
    /\ life'[a] = "free" => life[a] = "free"
    /\ Closed(a) => life'[a] = life[a]

\* A step of request t that keeps its hands off the table and the drains.
RequestMoves(t) ==
  /\ pc'[t] \notin DrainSteps /\ then'[t] \in {"idle", "fail.read"}
  /\ pc'[t] # "idle" => ws'[t] \in Workspaces
  /\ pc'[t] \in HoldingSteps => ad'[t] \in Adapters
  /\ Starting(t)' => Starting(t) /\ ad'[t] = ad[t] /\ ws'[t] = ws[t]
  /\ pc'[t] \in {"start.prompt", "start.persist"} =>
       pc[t] \in {"start.prompt", "start.persist"}
  /\ pc'[t] = "stop.kill" => ad'[t] \in ctxDone'
  /\ pc[t] \in {"start.prompt", "start.persist", "clean.delete"} =>
       /\ pc'[t] \in {"start.prompt", "start.persist", "clean.delete"}
       /\ ad'[t] = ad[t] /\ ws'[t] = ws[t]
  /\ pc[t] = "clean.cancel" => ad[t] \in ctxDone' \cup {None}

\* An adapter that is stopped without being cancelled is nobody's any more.
StopsMove ==
  \A a \in Adapters : life'[a] = "stopped" /\ a \notin ctxDone' =>
    \/ life[a] = "stopped"
    \/ /\ pc[a] = "idle"
       /\ \A u \in Reqs : Starting(u)' => ad'[u] # a

\* Such steps of requests preserve the session invariant.
LEMMA RequestStep ==
  ASSUME SessionInv, NEW t \in Reqs, OthersStay(t), Monotone, LifeMoves,
      StopsMove,
         RequestMoves(t), UNCHANGED sessions
  PROVE  SessionInv'
  <1> USE DEF RequestMoves, StopsMove
  <1>0. None \notin Adapters /\ \A a \in Adapters : a \in Threads /\ a # t
    BY ConstantsAssumption DEF Threads
  <1>1. \A u \in Reqs : u \in Threads
    BY DEF Threads
  <1>2. ThreadsInPlace'
    BY <1>0, <1>1 DEF SessionInv, ThreadsInPlace, OthersStay
  <1>3. \A u \in Reqs :
          Starting(u)' => Starting(u) /\ ad'[u] = ad[u] /\ ws'[u] = ws[u]
    BY <1>1 DEF OthersStay, Starting
  <1>4. AdaptersHeld'
    <2>1. \A u \in Reqs : pc'[u] \in HoldingSteps => ad'[u] \in Adapters
      BY <1>1 DEF SessionInv, AdaptersHeld, OthersStay
    <2>2. \A u \in Reqs : Starting(u) => ad[u] \in Adapters
      BY DEF SessionInv, AdaptersHeld, Starting, HoldingSteps
    <2>3. \A u \in Reqs :
            Starting(u)' => ws'[ad'[u]] = ws'[u] /\ pc'[ad'[u]] = "idle"
      BY <1>0, <1>3, <2>2 DEF SessionInv, AdaptersHeld, OthersStay
    <2>4. \A u, v \in Reqs :
            Starting(u)' /\ Starting(v)' /\ ad'[u] = ad'[v] => u = v
      BY <1>3 DEF SessionInv, AdaptersHeld
    <2> QED BY <2>1, <2>3, <2>4 DEF AdaptersHeld
  <1>5. FreeUnknown'
    BY <1>0, <1>3 DEF SessionInv, FreeUnknown, OthersStay, LifeMoves
  <1>6. StoppedIsCancelled'
    <2>1. \A u \in Reqs : pc'[u] = "stop.kill" => ad'[u] \in ctxDone'
      BY <1>1
      DEF SessionInv, StoppedIsCancelled, AdaptersHeld, HoldingSteps,
          OthersStay, Monotone
    <2>2. \A a \in Adapters : life'[a] = "stopped" /\ a \notin ctxDone' =>
            pc'[a] = "idle" /\ \A u \in Reqs : Starting(u)' => ad'[u] # a
      BY <1>0, <1>3 DEF SessionInv, StoppedIsCancelled, OthersStay, Monotone
    <2> QED BY <2>1, <2>2 DEF StoppedIsCancelled
  <1>7. ClosedByPreemption'
    BY <1>0 DEF SessionInv, ClosedByPreemption, OthersStay, LifeMoves, Closed
  <1>8. PromptBeforeDrain'
    BY <1>0 DEF SessionInv, PromptBeforeDrain, OthersStay, Monotone
  <1>9. NoDeadSession'
    BY <1>0, <1>1 DEF SessionInv, NoDeadSession, OthersStay
  <1>10. NoForgottenSession'
    BY <1>0, <1>1
    DEF SessionInv, NoForgottenSession, HasSession, OthersStay, Monotone,
        Starting
  <1> QED BY <1>2, <1>4, <1>5, <1>6, <1>7, <1>8, <1>9, <1>10 DEF SessionInv

\* A step of the drain goroutine of b that keeps its hands off the table.
DrainMoves(b) ==
  /\ pc[b] # "idle"
  /\ pc'[b] \in DrainSteps \cup FailSteps \cup CleanSteps \cup {"idle"}
  /\ pc'[b] \in FailSteps => then'[b] \in {"drain.select", "clean.delete"}
  /\ pc'[b] \notin FailSteps => then'[b] = "idle"
  /\ pc'[b] = "drain.closed" => Closed(b)
  /\ pc'[b] \in FailSteps /\ then'[b] = "clean.delete" => life[b] = "preempted"
  /\ \/ pc[b] = "clean.cancel" /\ ad[b] \in ctxDone' \cup {None}
     \/ /\ pc[b] # "clean.cancel"
        /\ pc'[b] \in DrainSteps \cup FailSteps \cup {"clean.delete"}

\* Such steps of drain goroutines preserve the session invariant.
LEMMA DrainStep ==
  ASSUME SessionInv, NEW b \in Adapters, OthersStay(b), Monotone,
      DrainMoves(b),
         UNCHANGED << sessions, ws, life >>
  PROVE  SessionInv'
  <1> USE DEF DrainMoves
  <1>0. None \notin Adapters /\ \A a \in Adapters : a \in Threads
    BY ConstantsAssumption DEF Threads
  <1>1. \A u \in Reqs : u \in Threads /\ u # b
    BY ConstantsAssumption DEF Threads
  <1>2. ThreadsInPlace'
    BY <1>0, <1>1 DEF SessionInv, ThreadsInPlace, OthersStay, Threads
  <1>3. \A u \in Reqs : (Starting(u)' <=> Starting(u)) /\ ad'[u] = ad[u]
    BY <1>1 DEF OthersStay, Starting
  <1>4. \A u \in Reqs : Starting(u) => ad[u] # b /\ ad[u] \in Adapters
    BY DEF SessionInv, AdaptersHeld, Starting, HoldingSteps
  <1>5. AdaptersHeld'
    <2>1. \A u \in Reqs : pc'[u] \in HoldingSteps => ad'[u] \in Adapters
      BY <1>1 DEF SessionInv, AdaptersHeld, OthersStay
    <2>3. \A u \in Reqs :
            Starting(u)' => ws'[ad'[u]] = ws'[u] /\ pc'[ad'[u]] = "idle"
      BY <1>0, <1>3, <1>4 DEF SessionInv, AdaptersHeld, OthersStay
    <2>4. \A u, v \in Reqs :
            Starting(u)' /\ Starting(v)' /\ ad'[u] = ad'[v] => u = v
      BY <1>3 DEF SessionInv, AdaptersHeld
    <2> QED BY <2>1, <2>3, <2>4 DEF AdaptersHeld
  <1>6. FreeUnknown'
    BY <1>0, <1>3 DEF SessionInv, FreeUnknown, OthersStay
  <1>7. StoppedIsCancelled'
    <2>1. \A u \in Reqs : pc'[u] = "stop.kill" => ad'[u] \in ctxDone'
      BY <1>1
      DEF SessionInv, StoppedIsCancelled, AdaptersHeld, HoldingSteps,
          OthersStay, Monotone
    <2>2. \A a \in Adapters : life'[a] = "stopped" /\ a \notin ctxDone' =>
            pc'[a] = "idle" /\ \A u \in Reqs : Starting(u)' => ad'[u] # a
      BY <1>0, <1>3 DEF SessionInv, StoppedIsCancelled, OthersStay, Monotone
    <2> QED BY <2>1, <2>2 DEF StoppedIsCancelled
  <1>8. ClosedByPreemption'
    BY <1>0 DEF SessionInv, ClosedByPreemption, OthersStay, Closed
  <1>9. PromptBeforeDrain'
    BY <1>0 DEF SessionInv, PromptBeforeDrain, OthersStay, Monotone
  <1>10. NoDeadSession'
    BY <1>0, <1>1
    DEF SessionInv, NoDeadSession, OthersStay, DrainSteps, FailSteps
  <1>11. NoForgottenSession'
    BY <1>0, <1>1
    DEF SessionInv, NoForgottenSession, HasSession, OthersStay, Monotone
  <1> QED BY <1>2, <1>5, <1>6, <1>7, <1>8, <1>9, <1>10, <1>11 DEF SessionInv

\* So does a step that moves no thread and stops no adapter.
LEMMA QuietStep ==
  ASSUME SessionInv, UNCHANGED << sessions, pc, then, ws, ad, first >>,
      LifeMoves,
         \A a \in Adapters : a \in ctxDone' <=> a \in ctxDone,
         \A a \in Adapters : life'[a] = "stopped" => life[a] = "stopped"
  PROVE  SessionInv'
  <1> USE DEF SessionInv
  <1>1. ThreadsInPlace' /\ AdaptersHeld' /\ FreeUnknown'
    BY DEF ThreadsInPlace, AdaptersHeld, FreeUnknown, Starting, LifeMoves
  <1>2. StoppedIsCancelled'
    BY DEF StoppedIsCancelled, Starting, AdaptersHeld, HoldingSteps
  <1>3. ClosedByPreemption' /\ PromptBeforeDrain'
    BY DEF ClosedByPreemption, PromptBeforeDrain, Closed, LifeMoves
  <1>4. NoDeadSession' /\ NoForgottenSession'
    BY DEF NoDeadSession, NoForgottenSession, HasSession
  <1> QED BY <1>1, <1>2, <1>3, <1>4

\* StartSpawn preserves the session invariant.
LEMMA SessionsStartSpawn ==
  ASSUME TypeOK, SessionInv, NEW t \in Reqs, StartSpawn(t)
  PROVE  SessionInv'
  <1>1. CASE /\ UNCHANGED << life, ad, ws >>
             /\ Goto(t, "fail.read") \/ Goto(t, "idle")
    <2>1. t \in Threads /\ ws[t] \in Workspaces /\ pc[t] = "start.spawn"
      BY DEF SessionInv, ThreadsInPlace, StartSpawn, Threads
    <2>2. UNCHANGED << sessions, ctxDone, then, first >>
      BY DEF StartSpawn, drainVars
    <2>3. OthersStay(t) /\ pc'[t] \in {"fail.read", "idle"}
      BY <1>1, <2>1, <2>2 DEF OthersStay, Goto, TypeOK
    <2>4. Monotone /\ LifeMoves /\ StopsMove
      BY <1>1, <2>2
      DEF SessionInv, PromptBeforeDrain, Monotone, LifeMoves, StopsMove
    <2>5. RequestMoves(t)
      BY <1>1, <2>1, <2>2, <2>3
      DEF SessionInv, ThreadsInPlace, RequestMoves, DrainSteps, HoldingSteps,
          Starting
    <2> QED BY <2>2, <2>3, <2>4, <2>5, RequestStep
  <1>2. ASSUME NEW b \in Adapters, life[b] = "free",
               life' = [life EXCEPT ![b] = "live"],
               ad' = [ad EXCEPT ![t] = b], ws' = [ws EXCEPT ![b] = ws[t]],
               Goto(t, "start.running")
        PROVE  SessionInv'
    <2>1. /\ t \in Threads /\ b \in Threads /\ t # b
          /\ ws[t] \in Workspaces /\ pc[t] = "start.spawn"
      BY ConstantsAssumption
      DEF SessionInv, ThreadsInPlace, StartSpawn, Threads
    <2>2. UNCHANGED << sessions, ctxDone, then, first >>
      BY DEF StartSpawn, drainVars
    <2>3. /\ pc'[t] = "start.running" /\ ad'[t] = b
          /\ ws'[b] = ws[t] /\ ws'[t] = ws[t]
          /\ life'[b] = "live"
          /\ \A u \in Threads : u # t => pc'[u] = pc[u] /\ ad'[u] = ad[u]
          /\ \A u \in Threads : u # b => ws'[u] = ws[u]
          /\ \A a \in Adapters : a # b => life'[a] = life[a]
      BY <1>2, <2>1 DEF Goto, TypeOK
    <2>4. \A a \in Adapters : a \in Threads /\ a # t
      BY ConstantsAssumption DEF Threads
    <2>5. \A u \in Reqs : u \in Threads /\ u # b
      BY ConstantsAssumption DEF Threads
    <2>6. pc[b] = "idle" /\ (\A w \in Workspaces : sessions[w] # b)
            /\ \A u \in Reqs : Starting(u) => ad[u] # b
      BY <1>2 DEF SessionInv, FreeUnknown
    <2>7. \A u \in Reqs :
            u # t => /\ Starting(u)' <=> Starting(u)
                     /\ ad'[u] = ad[u] /\ ws'[u] = ws[u]
      BY <2>3, <2>5 DEF Starting
    <2>8. \A u \in Reqs : Starting(u) => ad[u] \in Adapters
      BY DEF SessionInv, AdaptersHeld, Starting, HoldingSteps
    <2>9. ThreadsInPlace'
      BY <2>1, <2>2, <2>3, <2>4, <2>5
      DEF SessionInv, ThreadsInPlace, DrainSteps, Threads
    <2>10. AdaptersHeld'
      <3>1. \A u \in Reqs : pc'[u] \in HoldingSteps => ad'[u] \in Adapters
        BY <2>3, <2>5 DEF SessionInv, AdaptersHeld
      <3>2. \A u \in Reqs :
              Starting(u)' => ws'[ad'[u]] = ws'[u] /\ pc'[ad'[u]] = "idle"
        BY <2>3, <2>4, <2>6, <2>7, <2>8 DEF SessionInv, AdaptersHeld
      <3>3. \A u, v \in Reqs :
              Starting(u)' /\ Starting(v)' /\ ad'[u] = ad'[v] => u = v
        BY <2>3, <2>6, <2>7 DEF SessionInv, AdaptersHeld
      <3> QED BY <3>1, <3>2, <3>3 DEF AdaptersHeld
    <2>11. FreeUnknown'
      BY <2>2, <2>3, <2>4, <2>7 DEF SessionInv, FreeUnknown
    <2>12. StoppedIsCancelled'
      <3>1. \A u \in Reqs : pc'[u] = "stop.kill" => ad'[u] \in ctxDone'
        BY <2>2, <2>3, <2>5 DEF SessionInv, StoppedIsCancelled
      <3>2. \A a \in Adapters : life'[a] = "stopped" /\ a \notin ctxDone' =>
              pc'[a] = "idle" /\ \A u \in Reqs : Starting(u)' => ad'[u] # a
        BY <2>2, <2>3, <2>4, <2>7 DEF SessionInv, StoppedIsCancelled
      <3> QED BY <3>1, <3>2 DEF StoppedIsCancelled
    <2>13. ClosedByPreemption'
      BY <2>2, <2>3, <2>4, <2>6
      DEF SessionInv, ClosedByPreemption, Closed, FailSteps
    <2>14. PromptBeforeDrain'
      BY <2>2, <2>3, <2>4 DEF SessionInv, PromptBeforeDrain
    <2>15. NoDeadSession'
      BY <2>1, <2>2, <2>3, <2>4, <2>5, <2>6 DEF SessionInv, NoDeadSession
    <2>16. NoForgottenSession'
      BY <2>1, <2>2, <2>3, <2>4, <2>5, <2>6
      DEF SessionInv, NoForgottenSession, HasSession, Starting
    <2> QED BY <2>9, <2>10, <2>11, <2>12, <2>13, <2>14, <2>15, <2>16
      DEF SessionInv
  <1> QED BY <1>1, <1>2 DEF StartSpawn

\* StartRegister preserves the session invariant.
LEMMA SessionsStartRegister ==
  ASSUME TypeOK, SessionInv, NEW t \in Reqs, StartRegister(t)
  PROVE  SessionInv'
  <1> DEFINE b == ad[t]
             w == ws[t]
  <1>1. /\ t \in Threads /\ b \in Adapters /\ b \in Threads /\ w \in Workspaces
        /\ pc[t] = "start.register" /\ pc[b] = "idle" /\ ws[b] = w
        /\ \A u \in Reqs : Starting(u) /\ ad[u] = b => u = t
    BY DEF SessionInv, ThreadsInPlace, AdaptersHeld, HoldingSteps, Starting,
        StartRegister, Threads
  <1>2. UNCHANGED << then, ws, life, first >>
    BY DEF StartRegister, adapterVars, drainVars
  <1>3. \A a \in Adapters : a \in Threads /\ a # t
    BY ConstantsAssumption DEF Threads
  <1>4. \A u \in Reqs : u \in Threads
    BY DEF Threads
  <1>5. CASE sessions[w] = None
    <2>1. /\ sessions' = [sessions EXCEPT ![w] = b]
          /\ UNCHANGED << ctxDone, ad >>
          /\ Goto(t, "start.prompt")
      BY <1>5 DEF StartRegister
    <2>2. /\ pc'[t] = "start.prompt" /\ sessions'[w] = b
          /\ \A u \in Threads : u # t => pc'[u] = pc[u]
          /\ \A x \in Workspaces : x # w => sessions'[x] = sessions[x]
      BY <1>1, <2>1 DEF Goto, TypeOK
    <2>3. \A u \in Reqs : Starting(u)' <=> Starting(u)
      BY <1>1, <1>4, <2>2 DEF Starting
    <2>4. ThreadsInPlace'
      BY <1>1, <1>2, <1>3, <1>4, <2>2
      DEF SessionInv, ThreadsInPlace, DrainSteps, Threads
    <2>5. AdaptersHeld'
      <3>1. \A u \in Reqs : pc'[u] \in HoldingSteps => ad'[u] \in Adapters
        BY <1>1, <1>4, <2>1, <2>2 DEF SessionInv, AdaptersHeld
      <3>2. \A u \in Reqs : Starting(u) => ad[u] \in Adapters
        BY DEF SessionInv, AdaptersHeld, Starting, HoldingSteps
      <3>3. \A u \in Reqs :
              Starting(u)' => ws'[ad'[u]] = ws'[u] /\ pc'[ad'[u]] = "idle"
        BY <1>2, <1>3, <2>1, <2>2, <2>3, <3>2 DEF SessionInv, AdaptersHeld
      <3>4. \A u, v \in Reqs :
              Starting(u)' /\ Starting(v)' /\ ad'[u] = ad'[v] => u = v
        BY <2>1, <2>3 DEF SessionInv, AdaptersHeld
      <3> QED BY <3>1, <3>3, <3>4 DEF AdaptersHeld
    <2>6. FreeUnknown'
      <3>1. life[b] # "free"
        BY <1>1 DEF SessionInv, FreeUnknown, Starting
      <3> QED BY <1>2, <1>3, <2>1, <2>2, <2>3, <3>1 DEF SessionInv, FreeUnknown
    <2>7. StoppedIsCancelled'
      BY <1>1, <1>2, <1>3, <1>4, <2>1, <2>2, <2>3
      DEF SessionInv, StoppedIsCancelled
    <2>8. ClosedByPreemption' /\ PromptBeforeDrain'
      BY <1>2, <1>3, <2>2
      DEF SessionInv, ClosedByPreemption, PromptBeforeDrain, Closed
    <2>9. NoDeadSession'
      BY <1>1, <1>2, <1>3, <1>4, <2>1, <2>2 DEF SessionInv, NoDeadSession
    <2>10. NoForgottenSession'
      <3>1. SUFFICES ASSUME NEW a \in Adapters, HasSession(a)', a \notin ctxDone
                     PROVE  \/ sessions'[ws[a]] = a
                            \/ \E u \in Threads : pc'[u] = "clean.cancel" /\ ad[u] = a
        BY <1>2, <2>1 DEF NoForgottenSession
      <3>2. CASE a = b
        BY <1>1, <2>2, <3>2
      <3>3. CASE a # b
        <4>1. HasSession(a)
          BY <1>1, <1>3, <1>4, <2>1, <2>2, <3>1, <3>3 DEF HasSession
        <4>2. CASE sessions[ws[a]] = a
          <5>1. ws[a] \in Workspaces
            <6>1. pc[a] # "idle" \/ \E u \in Reqs : Starting(u) /\ ad[u] = a
              BY <4>1 DEF HasSession, Starting
            <6>2. \A u \in Reqs :
                    Starting(u) => ws[ad[u]] = ws[u] /\ ws[u] \in Workspaces
              BY <1>4 DEF SessionInv, AdaptersHeld, ThreadsInPlace, Starting
            <6> QED BY <1>3, <6>1, <6>2 DEF SessionInv, ThreadsInPlace
          <5>2. a # None
            BY ConstantsAssumption
          <5> QED BY <1>5, <2>2, <4>2, <5>1, <5>2
        <4>3. CASE \E u \in Threads : pc[u] = "clean.cancel" /\ ad[u] = a
          BY <1>1, <2>2, <4>3
        <4> QED BY <3>1, <4>1, <4>2, <4>3 DEF SessionInv, NoForgottenSession
      <3> QED BY <3>2, <3>3
    <2> QED BY <2>4, <2>5, <2>6, <2>7, <2>8, <2>9, <2>10 DEF SessionInv
  <1>6. CASE sessions[w] # None
    <2>1. /\ ctxDone' = ctxDone \cup {b} /\ ad' = [ad EXCEPT ![t] = sessions[w]]
          /\ Goto(t, "start.preempt") /\ UNCHANGED sessions
      BY <1>6 DEF StartRegister
    <2>2. sessions[w] \in Adapters
      BY <1>1, <1>6 DEF TypeOK
    <2>3. OthersStay(t) /\ pc'[t] = "start.preempt" /\ ad'[t] = sessions[w]
      BY <1>1, <1>2, <2>1 DEF OthersStay, Goto, TypeOK
    <2>4. Monotone /\ LifeMoves /\ StopsMove
      BY <1>2, <2>1
      DEF SessionInv, PromptBeforeDrain, Monotone, LifeMoves, StopsMove
    <2>5. RequestMoves(t)
      BY <1>1, <1>2, <2>2, <2>3
      DEF SessionInv, ThreadsInPlace, RequestMoves, DrainSteps, HoldingSteps,
          Starting
    <2> QED BY <2>1, <2>3, <2>4, <2>5, RequestStep
  <1> QED BY <1>5, <1>6

\* StartPersist preserves the session invariant.
LEMMA SessionsStartPersist ==
  ASSUME TypeOK, SessionInv, NEW t \in Reqs, StartPersist(t)
  PROVE  SessionInv'
  <1> DEFINE b == ad[t]
  <1>1. /\ t \in Threads /\ b \in Adapters /\ b \in Threads /\ b # t
        /\ ws[t] \in Workspaces /\ pc[t] = "start.persist" /\ pc[b] = "idle"
        /\ ws[b] = ws[t] /\ then[b] = "idle"
        /\ \A u \in Reqs : Starting(u) /\ ad[u] = b => u = t
    BY ConstantsAssumption
    DEF SessionInv, ThreadsInPlace, AdaptersHeld, HoldingSteps, Starting,
        StartPersist, Threads, FailSteps
  <1>2. UNCHANGED << sessions, ctxDone, then, ws, ad, life >>
    BY DEF StartPersist, adapterVars
  <1>3. \A a \in Adapters : a \in Threads /\ a # t
    BY ConstantsAssumption DEF Threads
  <1>4. \A u \in Reqs : u \in Threads /\ u # b
    BY <1>1, ConstantsAssumption DEF Threads
  <1>5. /\ pc'[t] = "idle" /\ pc'[b] = "drain.select"
        /\ \A u \in Threads : u # t /\ u # b => pc'[u] = pc[u]
    BY <1>1 DEF StartPersist, TypeOK
  <1>6. /\ first'[b] \notin {"none", "agent"}
        /\ \A a \in Adapters : a # b => first'[a] = first[a]
    BY <1>1 DEF StartPersist, TypeOK, SessionInv, PromptBeforeDrain
  <1>7. \A u \in Reqs : Starting(u)' => Starting(u) /\ u # t
    BY <1>4, <1>5 DEF Starting
  <1>8. Starting(t)
    BY <1>1 DEF Starting
  <1>9. ThreadsInPlace'
    BY <1>1, <1>2, <1>3, <1>4, <1>5
    DEF SessionInv, ThreadsInPlace, DrainSteps, FailSteps, Threads
  <1>10. AdaptersHeld'
    <2>1. \A u \in Reqs : pc'[u] \in HoldingSteps => ad'[u] \in Adapters
      BY <1>2, <1>4, <1>5 DEF SessionInv, AdaptersHeld, HoldingSteps
    <2>2. \A u \in Reqs : Starting(u) => ad[u] \in Adapters
      BY DEF SessionInv, AdaptersHeld, Starting, HoldingSteps
    <2>3. \A u \in Reqs :
            Starting(u)' => ws'[ad'[u]] = ws'[u] /\ pc'[ad'[u]] = "idle"
      BY <1>1, <1>2, <1>3, <1>5, <1>7, <2>2 DEF SessionInv, AdaptersHeld
    <2>4. \A u, v \in Reqs :
            Starting(u)' /\ Starting(v)' /\ ad'[u] = ad'[v] => u = v
      BY <1>2, <1>7 DEF SessionInv, AdaptersHeld
    <2> QED BY <2>1, <2>3, <2>4 DEF AdaptersHeld
  <1>11. FreeUnknown'
    BY <1>1, <1>2, <1>3, <1>5, <1>7, <1>8 DEF SessionInv, FreeUnknown
  <1>12. StoppedIsCancelled'
    BY <1>1, <1>2, <1>3, <1>4, <1>5, <1>7, <1>8
    DEF SessionInv, StoppedIsCancelled
  <1>13. ClosedByPreemption'
    BY <1>1, <1>2, <1>3, <1>5
    DEF SessionInv, ClosedByPreemption, Closed, FailSteps
  <1>14. PromptBeforeDrain'
    BY <1>3, <1>5, <1>6 DEF SessionInv, PromptBeforeDrain
  <1>15. NoDeadSession'
    BY <1>1, <1>2, <1>3, <1>4, <1>5 DEF SessionInv, NoDeadSession, DrainSteps
  <1>16. NoForgottenSession'
    <2>1. \A a \in Adapters : HasSession(a)' => HasSession(a)
      BY <1>1, <1>2, <1>3, <1>4, <1>5 DEF HasSession
    <2> QED BY <1>1, <1>2, <1>5, <2>1 DEF SessionInv, NoForgottenSession
  <1> QED BY <1>9, <1>10, <1>11, <1>12, <1>13, <1>14, <1>15, <1>16
    DEF SessionInv

\* CleanDelete preserves the session invariant.
LEMMA SessionsCleanDelete ==
  ASSUME TypeOK, SessionInv, NEW t \in Threads, CleanDelete(t)
  PROVE  SessionInv'
  <1> DEFINE w == ws[t]
  <1>1. w \in Workspaces /\ pc[t] = "clean.delete"
    BY DEF SessionInv, ThreadsInPlace, CleanDelete
  <1>2. UNCHANGED << ctxDone, then, ws, life, first >>
    BY DEF CleanDelete, adapterVars, drainVars
  <1>3. \A a \in Adapters : a \in Threads /\ a # None
    BY ConstantsAssumption DEF Threads
  <1>4. \A u \in Reqs : u \in Threads
    BY DEF Threads
  <1>5. /\ pc'[t] = "clean.cancel"
        /\ ad'[t] = sessions[w] /\ sessions'[w] = None
        /\ \A u \in Threads : u # t => pc'[u] = pc[u] /\ ad'[u] = ad[u]
        /\ \A x \in Workspaces : x # w => sessions'[x] = sessions[x]
    BY <1>1 DEF CleanDelete, Goto, TypeOK
  <1>6. \A u \in Reqs :
          (Starting(u)' <=> Starting(u)) /\ (Starting(u) => ad'[u] = ad[u])
    BY <1>1, <1>4, <1>5 DEF Starting
  <1>7. ThreadsInPlace'
    BY <1>1, <1>2, <1>3, <1>4, <1>5
    DEF SessionInv, ThreadsInPlace, DrainSteps, FailSteps, CleanSteps, Threads
  <1>8. \A a \in Adapters : pc'[a] = "idle" <=> pc[a] = "idle"
    BY <1>1, <1>3, <1>5
  <1>9. AdaptersHeld'
    <2>1. \A u \in Reqs : pc'[u] \in HoldingSteps => ad'[u] \in Adapters
      BY <1>4, <1>5 DEF SessionInv, AdaptersHeld, HoldingSteps
    <2>2. \A u \in Reqs : Starting(u) => ad[u] \in Adapters
      BY DEF SessionInv, AdaptersHeld, Starting, HoldingSteps
    <2>3. \A u \in Reqs :
            Starting(u)' => ws'[ad'[u]] = ws'[u] /\ pc'[ad'[u]] = "idle"
      BY <1>2, <1>6, <1>8, <2>2 DEF SessionInv, AdaptersHeld
    <2>4. \A u, v \in Reqs :
            Starting(u)' /\ Starting(v)' /\ ad'[u] = ad'[v] => u = v
      BY <1>6 DEF SessionInv, AdaptersHeld
    <2> QED BY <2>1, <2>3, <2>4 DEF AdaptersHeld
  <1>10. FreeUnknown'
    BY <1>2, <1>3, <1>5, <1>6, <1>8 DEF SessionInv, FreeUnknown
  <1>11. StoppedIsCancelled'
    <2>1. \A u \in Reqs : pc'[u] = "stop.kill" => ad'[u] \in ctxDone'
      BY <1>2, <1>4, <1>5 DEF SessionInv, StoppedIsCancelled
    <2>2. \A a \in Adapters : life'[a] = "stopped" /\ a \notin ctxDone' =>
            pc'[a] = "idle" /\ \A u \in Reqs : Starting(u)' => ad'[u] # a
      BY <1>2, <1>6, <1>8 DEF SessionInv, StoppedIsCancelled
    <2> QED BY <2>1, <2>2 DEF StoppedIsCancelled
  <1>12. ClosedByPreemption'
    BY <1>2, <1>3, <1>5 DEF SessionInv, ClosedByPreemption, Closed, FailSteps
  <1>13. PromptBeforeDrain'
    BY <1>2, <1>8 DEF SessionInv, PromptBeforeDrain
  <1>14. NoDeadSession'
    <2>1. SUFFICES ASSUME NEW x \in Workspaces, NEW a \in Adapters, sessions'[x] = a
                   PROVE  /\ ws[a] = x
                          /\ \/ pc'[a] \in DrainSteps \cup FailSteps \cup {"clean.delete"}
                             \/ \E u \in Reqs :
                                  /\ ws[u] = x /\ ad'[u] = a
                                  /\ pc'[u] \in {"start.prompt", "start.persist", "clean.delete"}
      BY <1>2 DEF NoDeadSession
    <2>2. x # w /\ sessions[x] = a
      BY <1>3, <1>5, <2>1
    <2>3. ws[a] = x
      BY <2>2 DEF SessionInv, NoDeadSession
    <2>4. a # t
      BY <2>2, <2>3
    <2>5. CASE pc[a] \in DrainSteps \cup FailSteps \cup {"clean.delete"}
      BY <1>3, <1>5, <2>3, <2>4, <2>5
    <2>6. ASSUME NEW u \in Reqs, ws[u] = x, ad[u] = a,
                 pc[u] \in {"start.prompt", "start.persist", "clean.delete"}
          PROVE  ad'[u] = a /\ pc'[u] = pc[u]
      BY <1>4, <1>5, <2>2, <2>6
    <2> QED BY <2>2, <2>3, <2>5, <2>6 DEF SessionInv, NoDeadSession
  <1>15. NoForgottenSession'
    <2>1. SUFFICES ASSUME NEW a \in Adapters, HasSession(a)', a \notin ctxDone
                   PROVE  \/ sessions'[ws[a]] = a
                          \/ \E u \in Threads : pc'[u] = "clean.cancel" /\ ad'[u] = a
      BY <1>2 DEF NoForgottenSession
    <2>2. HasSession(a)
      BY <1>1, <1>4, <1>5, <1>8, <2>1 DEF HasSession
    <2>3. CASE sessions[ws[a]] = a /\ ws[a] = w
      BY <1>5, <2>3
    <2>4. CASE sessions[ws[a]] = a /\ ws[a] # w
      <3>1. ws[a] \in Workspaces
        <4>1. pc[a] # "idle" \/ \E u \in Reqs : Starting(u) /\ ad[u] = a
          BY <2>2 DEF HasSession, Starting
        <4>2. \A u \in Reqs :
                Starting(u) => ws[ad[u]] = ws[u] /\ ws[u] \in Workspaces
          BY <1>4 DEF SessionInv, AdaptersHeld, ThreadsInPlace, Starting
        <4> QED BY <1>3, <4>1, <4>2 DEF SessionInv, ThreadsInPlace
      <3> QED BY <1>5, <2>4, <3>1
    <2>5. CASE \E u \in Threads : pc[u] = "clean.cancel" /\ ad[u] = a
      BY <1>1, <1>5, <2>5
    <2> QED BY <2>1, <2>2, <2>3, <2>4, <2>5 DEF SessionInv, NoForgottenSession
  <1> QED BY <1>7, <1>9, <1>10, <1>11, <1>12, <1>13, <1>14, <1>15
    DEF SessionInv

\* Nothing has run yet.
Fresh ==
  /\ \A t \in Threads : pc[t] = "idle" /\ then[t] = "idle"
  /\ \A a \in Adapters : life[a] = "free" /\ first[a] = "none"
  /\ \A w \in Workspaces : sessions[w] = None

\* A server that has just been started has no sessions.
LEMMA SessionsFresh == Fresh => SessionInv
  <1> SUFFICES ASSUME Fresh PROVE SessionInv
    OBVIOUS
  <1> USE DEF Fresh
  <1>1. None \notin Adapters /\ \A a \in Adapters : a \in Threads
    BY ConstantsAssumption DEF Threads
  <1>2. \A t \in Reqs : t \in Threads /\ ~Starting(t)
    BY DEF Threads, Starting
  <1>3. ThreadsInPlace /\ AdaptersHeld /\ FreeUnknown
    BY <1>1, <1>2
    DEF ThreadsInPlace, AdaptersHeld, FreeUnknown, DrainSteps, FailSteps,
        CleanSteps, HoldingSteps
  <1>4. StoppedIsCancelled /\ ClosedByPreemption /\ PromptBeforeDrain
    BY <1>1, <1>2
    DEF StoppedIsCancelled, ClosedByPreemption, PromptBeforeDrain, FailSteps
  <1>5. NoDeadSession /\ NoForgottenSession
    BY <1>1, <1>2 DEF NoDeadSession, NoForgottenSession, HasSession
  <1> QED BY <1>3, <1>4, <1>5 DEF SessionInv

\* Request preserves the session invariant.
LEMMA SessionsRequest ==
  ASSUME TypeOK, SessionInv, NEW t \in Reqs, NEW op \in Ops,
      NEW w \in Workspaces, Request(t, op, w)
  PROVE  SessionInv'
  <1>1. t \in Threads /\ (pc[t] # "idle" => ws[t] \in Workspaces)
    BY DEF SessionInv, ThreadsInPlace, Threads
  <1>2. OthersStay(t) /\ UNCHANGED sessions
    BY <1>1 DEF OthersStay, TypeOK, Goto, Request
  <1>3. Monotone
    BY ConstantsAssumption
    DEF Monotone, SessionInv, PromptBeforeDrain, TypeOK, drainVars, Request
  <1>4. LifeMoves
    BY DEF LifeMoves, TypeOK, adapterVars, Request, Closed
  <1>5. StopsMove
    BY <1>1
    DEF StopsMove, SessionInv, StoppedIsCancelled, TypeOK, adapterVars, Request
  <1>6. RequestMoves(t)
    <2>1. /\ pc[t] = "idle" /\ ws'[t] = w /\ then'[t] = then[t]
          /\ pc'[t] \in {"start.load", "prompt.lookup", "stop.lookup", "complete.read"}
      BY <1>1, ConstantsAssumption DEF Request, Goto, AllOps, TypeOK
    <2> QED BY <1>1, <2>1
        DEF RequestMoves, SessionInv, ThreadsInPlace, DrainSteps, HoldingSteps,
            Starting
  <1> QED BY <1>2, <1>3, <1>4, <1>5, <1>6, RequestStep

\* StartLoad preserves the session invariant.
LEMMA SessionsStartLoad ==
  ASSUME TypeOK, SessionInv, NEW t \in Reqs, StartLoad(t)
  PROVE  SessionInv'
  <1>1. t \in Threads /\ (pc[t] # "idle" => ws[t] \in Workspaces)
    BY DEF SessionInv, ThreadsInPlace, Threads
  <1>2. OthersStay(t) /\ UNCHANGED sessions
    BY <1>1 DEF OthersStay, TypeOK, Goto, StartLoad
  <1>3. Monotone
    BY ConstantsAssumption
    DEF Monotone, SessionInv, PromptBeforeDrain, TypeOK, drainVars, StartLoad
  <1>4. LifeMoves
    BY DEF LifeMoves, TypeOK, adapterVars, StartLoad, Closed
  <1>5. StopsMove
    BY <1>1
    DEF StopsMove, SessionInv, StoppedIsCancelled, TypeOK, adapterVars,
        StartLoad
  <1>6. RequestMoves(t)
    BY <1>1
    DEF RequestMoves, SessionInv, ThreadsInPlace, AdaptersHeld, DrainSteps,
        HoldingSteps, Starting, TypeOK, Goto, StartLoad
  <1> QED BY <1>2, <1>3, <1>4, <1>5, <1>6, RequestStep

\* StartRunning preserves the session invariant.
LEMMA SessionsStartRunning ==
  ASSUME TypeOK, SessionInv, NEW t \in Reqs, StartRunning(t)
  PROVE  SessionInv'
  <1>1. t \in Threads /\ (pc[t] # "idle" => ws[t] \in Workspaces)
    BY DEF SessionInv, ThreadsInPlace, Threads
  <1>2. OthersStay(t) /\ UNCHANGED sessions
    BY <1>1 DEF OthersStay, TypeOK, Goto, StartRunning
  <1>3. Monotone
    BY ConstantsAssumption
    DEF Monotone, SessionInv, PromptBeforeDrain, TypeOK, drainVars,
        UpdateWorkspace, StartRunning
  <1>4. LifeMoves
    BY DEF LifeMoves, TypeOK, adapterVars, AdapterStop, StartRunning, Closed
  <1>5. StopsMove
    <2>1. \A u \in Reqs : Starting(u) /\ ad[u] = ad[t] => u = t
      BY DEF SessionInv, AdaptersHeld, Starting, StartRunning
    <2>2. ad[t] \in Adapters /\ pc[ad[t]] = "idle"
      BY DEF SessionInv, AdaptersHeld, Starting, HoldingSteps, StartRunning
    <2>3. CASE UNCHANGED life
      BY <2>3 DEF StopsMove
    <2>4. CASE AdapterStop(ad[t], "stopped") /\ Goto(t, "idle")
      <3>1. pc'[t] = "idle" /\ UNCHANGED ad
        BY <1>1, <2>4 DEF Goto, TypeOK, StartRunning
      <3>2. \A u \in Reqs : Starting(u)' => Starting(u) /\ u # t
        BY <1>2, <3>1 DEF OthersStay, Starting, Threads
      <3>3. \A a \in Adapters : a # ad[t] => life'[a] = life[a]
        BY <2>4 DEF AdapterStop, TypeOK
      <3> QED BY <2>1, <2>2, <3>1, <3>2, <3>3 DEF StopsMove
    <2> QED BY <2>3, <2>4 DEF StartRunning, adapterVars
  <1>6. RequestMoves(t)
    BY <1>1
    DEF RequestMoves, SessionInv, ThreadsInPlace, AdaptersHeld, DrainSteps,
        HoldingSteps, Starting, TypeOK, Goto, StartRunning
  <1> QED BY <1>2, <1>3, <1>4, <1>5, <1>6, RequestStep

\* StartPreempt preserves the session invariant.
LEMMA SessionsStartPreempt ==
  ASSUME TypeOK, SessionInv, NEW t \in Reqs, StartPreempt(t)
  PROVE  SessionInv'
  <1>1. t \in Threads /\ (pc[t] # "idle" => ws[t] \in Workspaces)
    BY DEF SessionInv, ThreadsInPlace, Threads
  <1>2. OthersStay(t) /\ UNCHANGED sessions
    BY <1>1 DEF OthersStay, TypeOK, Goto, StartPreempt
  <1>3. Monotone
    BY ConstantsAssumption
    DEF Monotone, SessionInv, PromptBeforeDrain, TypeOK, drainVars,
        StartPreempt
  <1>4. LifeMoves
    BY DEF LifeMoves, TypeOK, AdapterStop, StartPreempt, Closed
  <1>5. StopsMove
    BY <1>1
    DEF StopsMove, SessionInv, StoppedIsCancelled, TypeOK, AdapterStop,
        StartPreempt
  <1>6. RequestMoves(t)
    BY <1>1
    DEF RequestMoves, SessionInv, ThreadsInPlace, AdaptersHeld, DrainSteps,
        HoldingSteps, Starting, TypeOK, Goto, StartPreempt
  <1> QED BY <1>2, <1>3, <1>4, <1>5, <1>6, RequestStep

\* StartPrompt preserves the session invariant.
LEMMA SessionsStartPrompt ==
  ASSUME TypeOK, SessionInv, NEW t \in Reqs, StartPrompt(t)
  PROVE  SessionInv'
  <1>1. t \in Threads /\ (pc[t] # "idle" => ws[t] \in Workspaces)
    BY DEF SessionInv, ThreadsInPlace, Threads
  <1>2. OthersStay(t) /\ UNCHANGED sessions
    BY <1>1 DEF OthersStay, TypeOK, Goto, StartPrompt
  <1>3. Monotone
    BY ConstantsAssumption
    DEF Monotone, SessionInv, PromptBeforeDrain, TypeOK, drainVars, StartPrompt
  <1>4. LifeMoves
    BY DEF LifeMoves, TypeOK, AdapterSendPrompt, StartPrompt, Closed
  <1>5. StopsMove
    BY <1>1
    DEF StopsMove, SessionInv, StoppedIsCancelled, TypeOK, AdapterSendPrompt,
        StartPrompt
  <1>6. RequestMoves(t)
    BY <1>1
    DEF RequestMoves, SessionInv, ThreadsInPlace, AdaptersHeld, DrainSteps,
        HoldingSteps, Starting, TypeOK, Goto, StartPrompt
  <1> QED BY <1>2, <1>3, <1>4, <1>5, <1>6, RequestStep

\* PromptLookup preserves the session invariant.
LEMMA SessionsPromptLookup ==
  ASSUME TypeOK, SessionInv, NEW t \in Reqs, PromptLookup(t)
  PROVE  SessionInv'
  <1>1. t \in Threads /\ (pc[t] # "idle" => ws[t] \in Workspaces)
    BY DEF SessionInv, ThreadsInPlace, Threads
  <1>2. OthersStay(t) /\ UNCHANGED sessions
    BY <1>1 DEF OthersStay, TypeOK, Goto, PromptLookup
  <1>3. Monotone
    BY ConstantsAssumption
    DEF Monotone, SessionInv, PromptBeforeDrain, TypeOK, drainVars,
        PromptLookup
  <1>4. LifeMoves
    BY DEF LifeMoves, TypeOK, adapterVars, PromptLookup, Closed
  <1>5. StopsMove
    BY <1>1
    DEF StopsMove, SessionInv, StoppedIsCancelled, TypeOK, adapterVars,
        PromptLookup
  <1>6. RequestMoves(t)
    BY <1>1
    DEF RequestMoves, SessionInv, ThreadsInPlace, AdaptersHeld, DrainSteps,
        HoldingSteps, Starting, TypeOK, Goto, PromptLookup
  <1> QED BY <1>2, <1>3, <1>4, <1>5, <1>6, RequestStep

\* PromptCheck preserves the session invariant.
LEMMA SessionsPromptCheck ==
  ASSUME TypeOK, SessionInv, NEW t \in Reqs, PromptCheck(t)
  PROVE  SessionInv'
  <1>1. t \in Threads /\ (pc[t] # "idle" => ws[t] \in Workspaces)
    BY DEF SessionInv, ThreadsInPlace, Threads
  <1>2. OthersStay(t) /\ UNCHANGED sessions
    BY <1>1 DEF OthersStay, TypeOK, Goto, PromptCheck
  <1>3. Monotone
    BY ConstantsAssumption
    DEF Monotone, SessionInv, PromptBeforeDrain, TypeOK, drainVars, PromptCheck
  <1>4. LifeMoves
    BY DEF LifeMoves, TypeOK, adapterVars, PromptCheck, Closed
  <1>5. StopsMove
    BY <1>1
    DEF StopsMove, SessionInv, StoppedIsCancelled, TypeOK, adapterVars,
        PromptCheck
  <1>6. RequestMoves(t)
    BY <1>1
    DEF RequestMoves, SessionInv, ThreadsInPlace, AdaptersHeld, DrainSteps,
        HoldingSteps, Starting, TypeOK, Goto, PromptCheck
  <1> QED BY <1>2, <1>3, <1>4, <1>5, <1>6, RequestStep

\* PromptRunning preserves the session invariant.
LEMMA SessionsPromptRunning ==
  ASSUME TypeOK, SessionInv, NEW t \in Reqs, PromptRunning(t)
  PROVE  SessionInv'
  <1>1. t \in Threads /\ (pc[t] # "idle" => ws[t] \in Workspaces)
    BY DEF SessionInv, ThreadsInPlace, Threads
  <1>2. OthersStay(t) /\ UNCHANGED sessions
    BY <1>1 DEF OthersStay, TypeOK, Goto, PromptRunning
  <1>3. Monotone
    BY ConstantsAssumption
    DEF Monotone, SessionInv, PromptBeforeDrain, TypeOK, drainVars,
        UpdateWorkspace, PromptRunning
  <1>4. LifeMoves
    BY DEF LifeMoves, TypeOK, adapterVars, PromptRunning, Closed
  <1>5. StopsMove
    BY <1>1
    DEF StopsMove, SessionInv, StoppedIsCancelled, TypeOK, adapterVars,
        PromptRunning
  <1>6. RequestMoves(t)
    BY <1>1
    DEF RequestMoves, SessionInv, ThreadsInPlace, AdaptersHeld, DrainSteps,
        HoldingSteps, Starting, TypeOK, Goto, PromptRunning
  <1> QED BY <1>2, <1>3, <1>4, <1>5, <1>6, RequestStep

\* PromptSend preserves the session invariant.
LEMMA SessionsPromptSend ==
  ASSUME TypeOK, SessionInv, NEW t \in Reqs, PromptSend(t)
  PROVE  SessionInv'
  <1>1. t \in Threads /\ (pc[t] # "idle" => ws[t] \in Workspaces)
    BY DEF SessionInv, ThreadsInPlace, Threads
  <1>2. OthersStay(t) /\ UNCHANGED sessions
    BY <1>1 DEF OthersStay, TypeOK, Goto, PromptSend
  <1>3. Monotone
    BY ConstantsAssumption
    DEF Monotone, SessionInv, PromptBeforeDrain, TypeOK, drainVars, PromptSend
  <1>4. LifeMoves
    BY DEF LifeMoves, TypeOK, AdapterSendPrompt, PromptSend, Closed
  <1>5. StopsMove
    BY <1>1
    DEF StopsMove, SessionInv, StoppedIsCancelled, TypeOK, AdapterSendPrompt,
        PromptSend
  <1>6. RequestMoves(t)
    BY <1>1
    DEF RequestMoves, SessionInv, ThreadsInPlace, AdaptersHeld, DrainSteps,
        HoldingSteps, Starting, TypeOK, Goto, PromptSend
  <1> QED BY <1>2, <1>3, <1>4, <1>5, <1>6, RequestStep

\* PromptPersist preserves the session invariant.
LEMMA SessionsPromptPersist ==
  ASSUME TypeOK, SessionInv, NEW t \in Reqs, PromptPersist(t)
  PROVE  SessionInv'
  <1>1. t \in Threads /\ (pc[t] # "idle" => ws[t] \in Workspaces)
    BY DEF SessionInv, ThreadsInPlace, Threads
  <1>2. OthersStay(t) /\ UNCHANGED sessions
    BY <1>1 DEF OthersStay, TypeOK, Goto, PromptPersist
  <1>3. Monotone
    BY ConstantsAssumption
    DEF Monotone, SessionInv, PromptBeforeDrain, TypeOK, PromptPersist
  <1>4. LifeMoves
    BY DEF LifeMoves, TypeOK, adapterVars, PromptPersist, Closed
  <1>5. StopsMove
    BY <1>1
    DEF StopsMove, SessionInv, StoppedIsCancelled, TypeOK, adapterVars,
        PromptPersist
  <1>6. RequestMoves(t)
    BY <1>1
    DEF RequestMoves, SessionInv, ThreadsInPlace, AdaptersHeld, DrainSteps,
        HoldingSteps, Starting, TypeOK, Goto, PromptPersist
  <1> QED BY <1>2, <1>3, <1>4, <1>5, <1>6, RequestStep

\* StopLookup preserves the session invariant.
LEMMA SessionsStopLookup ==
  ASSUME TypeOK, SessionInv, NEW t \in Reqs, StopLookup(t)
  PROVE  SessionInv'
  <1>1. t \in Threads /\ (pc[t] # "idle" => ws[t] \in Workspaces)
    BY DEF SessionInv, ThreadsInPlace, Threads
  <1>2. OthersStay(t) /\ UNCHANGED sessions
    BY <1>1 DEF OthersStay, TypeOK, Goto, StopLookup
  <1>3. Monotone
    BY ConstantsAssumption
    DEF Monotone, SessionInv, PromptBeforeDrain, TypeOK, drainVars, StopLookup
  <1>4. LifeMoves
    BY DEF LifeMoves, TypeOK, adapterVars, StopLookup, Closed
  <1>5. StopsMove
    BY <1>1
    DEF StopsMove, SessionInv, StoppedIsCancelled, TypeOK, adapterVars,
        StopLookup
  <1>6. RequestMoves(t)
    BY <1>1
    DEF RequestMoves, SessionInv, ThreadsInPlace, AdaptersHeld, DrainSteps,
        HoldingSteps, Starting, TypeOK, Goto, StopLookup
  <1> QED BY <1>2, <1>3, <1>4, <1>5, <1>6, RequestStep

\* StopCancel preserves the session invariant.
LEMMA SessionsStopCancel ==
  ASSUME TypeOK, SessionInv, NEW t \in Reqs, StopCancel(t)
  PROVE  SessionInv'
  <1>1. t \in Threads /\ (pc[t] # "idle" => ws[t] \in Workspaces)
    BY DEF SessionInv, ThreadsInPlace, Threads
  <1>2. OthersStay(t) /\ UNCHANGED sessions
    BY <1>1 DEF OthersStay, TypeOK, Goto, StopCancel
  <1>3. Monotone
    BY ConstantsAssumption
    DEF Monotone, SessionInv, PromptBeforeDrain, TypeOK, drainVars, StopCancel
  <1>4. LifeMoves
    BY DEF LifeMoves, TypeOK, adapterVars, StopCancel, Closed
  <1>5. StopsMove
    BY <1>1
    DEF StopsMove, SessionInv, StoppedIsCancelled, TypeOK, adapterVars,
        StopCancel
  <1>6. RequestMoves(t)
    BY <1>1
    DEF RequestMoves, SessionInv, ThreadsInPlace, AdaptersHeld, DrainSteps,
        HoldingSteps, Starting, TypeOK, Goto, StopCancel
  <1> QED BY <1>2, <1>3, <1>4, <1>5, <1>6, RequestStep

\* StopKill preserves the session invariant.
LEMMA SessionsStopKill ==
  ASSUME TypeOK, SessionInv, NEW t \in Reqs, StopKill(t)
  PROVE  SessionInv'
  <1>1. t \in Threads /\ (pc[t] # "idle" => ws[t] \in Workspaces)
    BY DEF SessionInv, ThreadsInPlace, Threads
  <1>2. OthersStay(t) /\ UNCHANGED sessions
    BY <1>1 DEF OthersStay, TypeOK, Goto, StopKill
  <1>3. Monotone
    BY ConstantsAssumption
    DEF Monotone, SessionInv, PromptBeforeDrain, TypeOK, drainVars, StopKill
  <1>4. LifeMoves
    BY DEF LifeMoves, TypeOK, AdapterStop, StopKill, Closed
  <1>5. StopsMove
    BY <1>1
    DEF StopsMove, SessionInv, StoppedIsCancelled, TypeOK, AdapterStop,
        StopKill
  <1>6. RequestMoves(t)
    BY <1>1
    DEF RequestMoves, SessionInv, ThreadsInPlace, AdaptersHeld, DrainSteps,
        HoldingSteps, Starting, TypeOK, Goto, StopKill
  <1> QED BY <1>2, <1>3, <1>4, <1>5, <1>6, RequestStep

\* StopRead preserves the session invariant.
LEMMA SessionsStopRead ==
  ASSUME TypeOK, SessionInv, NEW t \in Reqs, StopRead(t)
  PROVE  SessionInv'
  <1>1. t \in Threads /\ (pc[t] # "idle" => ws[t] \in Workspaces)
    BY DEF SessionInv, ThreadsInPlace, Threads
  <1>2. OthersStay(t) /\ UNCHANGED sessions
    BY <1>1 DEF OthersStay, TypeOK, Goto, StopRead
  <1>3. Monotone
    BY ConstantsAssumption
    DEF Monotone, SessionInv, PromptBeforeDrain, TypeOK, drainVars, StopRead
  <1>4. LifeMoves
    BY DEF LifeMoves, TypeOK, adapterVars, StopRead, Closed
  <1>5. StopsMove
    BY <1>1
    DEF StopsMove, SessionInv, StoppedIsCancelled, TypeOK, adapterVars,
        StopRead
  <1>6. RequestMoves(t)
    BY <1>1
    DEF RequestMoves, SessionInv, ThreadsInPlace, AdaptersHeld, DrainSteps,
        HoldingSteps, Starting, TypeOK, Goto, StopRead
  <1> QED BY <1>2, <1>3, <1>4, <1>5, <1>6, RequestStep

\* StopWrite preserves the session invariant.
LEMMA SessionsStopWrite ==
  ASSUME TypeOK, SessionInv, NEW t \in Reqs, StopWrite(t)
  PROVE  SessionInv'
  <1>1. t \in Threads /\ (pc[t] # "idle" => ws[t] \in Workspaces)
    BY DEF SessionInv, ThreadsInPlace, Threads
  <1>2. OthersStay(t) /\ UNCHANGED sessions
    BY <1>1 DEF OthersStay, TypeOK, Goto, StopWrite
  <1>3. Monotone
    BY ConstantsAssumption
    DEF Monotone, SessionInv, PromptBeforeDrain, TypeOK, drainVars,
        UpdateWorkspace, StopWrite
  <1>4. LifeMoves
    BY DEF LifeMoves, TypeOK, adapterVars, StopWrite, Closed
  <1>5. StopsMove
    BY <1>1
    DEF StopsMove, SessionInv, StoppedIsCancelled, TypeOK, adapterVars,
        StopWrite
  <1>6. RequestMoves(t)
    BY <1>1
    DEF RequestMoves, SessionInv, ThreadsInPlace, AdaptersHeld, DrainSteps,
        HoldingSteps, Starting, TypeOK, Goto, StopWrite
  <1> QED BY <1>2, <1>3, <1>4, <1>5, <1>6, RequestStep

\* CompleteRead preserves the session invariant.
LEMMA SessionsCompleteRead ==
  ASSUME TypeOK, SessionInv, NEW t \in Reqs, CompleteRead(t)
  PROVE  SessionInv'
  <1>1. t \in Threads /\ (pc[t] # "idle" => ws[t] \in Workspaces)
    BY DEF SessionInv, ThreadsInPlace, Threads
  <1>2. OthersStay(t) /\ UNCHANGED sessions
    BY <1>1 DEF OthersStay, TypeOK, Goto, CompleteRead
  <1>3. Monotone
    BY ConstantsAssumption
    DEF Monotone, SessionInv, PromptBeforeDrain, TypeOK, drainVars,
        CompleteRead
  <1>4. LifeMoves
    BY DEF LifeMoves, TypeOK, adapterVars, CompleteRead, Closed
  <1>5. StopsMove
    BY <1>1
    DEF StopsMove, SessionInv, StoppedIsCancelled, TypeOK, adapterVars,
        CompleteRead
  <1>6. RequestMoves(t)
    BY <1>1
    DEF RequestMoves, SessionInv, ThreadsInPlace, AdaptersHeld, DrainSteps,
        HoldingSteps, Starting, TypeOK, Goto, CompleteRead
  <1> QED BY <1>2, <1>3, <1>4, <1>5, <1>6, RequestStep

\* CompleteWrite preserves the session invariant.
LEMMA SessionsCompleteWrite ==
  ASSUME TypeOK, SessionInv, NEW t \in Reqs, CompleteWrite(t)
  PROVE  SessionInv'
  <1>1. t \in Threads /\ (pc[t] # "idle" => ws[t] \in Workspaces)
    BY DEF SessionInv, ThreadsInPlace, Threads
  <1>2. OthersStay(t) /\ UNCHANGED sessions
    BY <1>1 DEF OthersStay, TypeOK, Goto, CompleteWrite
  <1>3. Monotone
    BY ConstantsAssumption
    DEF Monotone, SessionInv, PromptBeforeDrain, TypeOK, drainVars,
        UpdateWorkspace, CompleteWrite
  <1>4. LifeMoves
    BY DEF LifeMoves, TypeOK, adapterVars, CompleteWrite, Closed
  <1>5. StopsMove
    BY <1>1
    DEF StopsMove, SessionInv, StoppedIsCancelled, TypeOK, adapterVars,
        CompleteWrite
  <1>6. RequestMoves(t)
    BY <1>1
    DEF RequestMoves, SessionInv, ThreadsInPlace, AdaptersHeld, DrainSteps,
        HoldingSteps, Starting, TypeOK, Goto, CompleteWrite
  <1> QED BY <1>2, <1>3, <1>4, <1>5, <1>6, RequestStep

\* FailRead of a request preserves the session invariant.
LEMMA SessionsFailReadR ==
  ASSUME TypeOK, SessionInv, NEW t \in Reqs, FailRead(t)
  PROVE  SessionInv'
  <1>1. t \in Threads /\ (pc[t] # "idle" => ws[t] \in Workspaces)
    BY DEF SessionInv, ThreadsInPlace, Threads
  <1>2. OthersStay(t) /\ UNCHANGED sessions
    BY <1>1 DEF OthersStay, TypeOK, Goto, Return, FailRead
  <1>3. Monotone
    BY ConstantsAssumption
    DEF Monotone, SessionInv, PromptBeforeDrain, TypeOK, drainVars, FailRead
  <1>4. LifeMoves
    BY DEF LifeMoves, TypeOK, adapterVars, FailRead, Closed
  <1>5. StopsMove
    BY <1>1
    DEF StopsMove, SessionInv, StoppedIsCancelled, TypeOK, adapterVars,
        FailRead
  <1>6. RequestMoves(t)
    BY <1>1
    DEF RequestMoves, SessionInv, ThreadsInPlace, AdaptersHeld, DrainSteps,
        HoldingSteps, Starting, TypeOK, Goto, Return, FailRead
  <1> QED BY <1>2, <1>3, <1>4, <1>5, <1>6, RequestStep

\* FailWrite of a request preserves the session invariant.
LEMMA SessionsFailWriteR ==
  ASSUME TypeOK, SessionInv, NEW t \in Reqs, FailWrite(t)
  PROVE  SessionInv'
  <1>1. t \in Threads /\ (pc[t] # "idle" => ws[t] \in Workspaces)
    BY DEF SessionInv, ThreadsInPlace, Threads
  <1>2. OthersStay(t) /\ UNCHANGED sessions
    BY <1>1 DEF OthersStay, TypeOK, Goto, Return, FailWrite
  <1>3. Monotone
    BY ConstantsAssumption
    DEF Monotone, SessionInv, PromptBeforeDrain, TypeOK, drainVars,
        UpdateWorkspace, FailWrite
  <1>4. LifeMoves
    BY DEF LifeMoves, TypeOK, adapterVars, FailWrite, Closed
  <1>5. StopsMove
    BY <1>1
    DEF StopsMove, SessionInv, StoppedIsCancelled, TypeOK, adapterVars,
        FailWrite
  <1>6. RequestMoves(t)
    <2>1. /\ pc[t] = "fail.write" /\ pc'[t] = then[t] /\ then'[t] = "idle"
          /\ UNCHANGED << ad, ws >>
      BY <1>1 DEF FailWrite, Goto, Return, TypeOK
    <2> QED BY <1>1, <2>1
        DEF RequestMoves, SessionInv, ThreadsInPlace, DrainSteps, HoldingSteps,
            Starting
  <1> QED BY <1>2, <1>3, <1>4, <1>5, <1>6, RequestStep

\* CleanCancel of a request preserves the session invariant.
LEMMA SessionsCleanCancelR ==
  ASSUME TypeOK, SessionInv, NEW t \in Reqs, CleanCancel(t)
  PROVE  SessionInv'
  <1>1. t \in Threads /\ (pc[t] # "idle" => ws[t] \in Workspaces)
    BY DEF SessionInv, ThreadsInPlace, Threads
  <1>2. OthersStay(t) /\ UNCHANGED sessions
    BY <1>1 DEF OthersStay, TypeOK, Goto, Return, CleanCancel
  <1>3. Monotone
    BY ConstantsAssumption
    DEF Monotone, SessionInv, PromptBeforeDrain, TypeOK, drainVars, CleanCancel
  <1>4. LifeMoves
    BY DEF LifeMoves, TypeOK, adapterVars, CleanCancel, Closed
  <1>5. StopsMove
    BY <1>1
    DEF StopsMove, SessionInv, StoppedIsCancelled, TypeOK, adapterVars,
        CleanCancel
  <1>6. RequestMoves(t)
    <2>1. /\ pc[t] = "clean.cancel" /\ pc'[t] = then[t] /\ then'[t] = "idle"
          /\ ad[t] \in ctxDone' \cup {None} /\ UNCHANGED ws
      BY <1>1 DEF CleanCancel, Goto, Return, TypeOK
    <2> QED BY <1>1, <2>1
        DEF RequestMoves, SessionInv, ThreadsInPlace, DrainSteps, HoldingSteps,
            Starting
  <1> QED BY <1>2, <1>3, <1>4, <1>5, <1>6, RequestStep

\* DrainSelect preserves the session invariant.
LEMMA SessionsDrainSelect ==
  ASSUME TypeOK, SessionInv, NEW a \in Adapters, DrainSelect(a)
  PROVE  SessionInv'
  <1>1. a \in Threads /\ ws[a] \in Workspaces
    BY DEF SessionInv, ThreadsInPlace, Threads, DrainSelect
  <1>2. OthersStay(a) /\ UNCHANGED << sessions, ws, life >>
    BY <1>1 DEF OthersStay, TypeOK, Goto, DrainSelect, adapterVars
  <1>3. Monotone
    BY DEF Monotone, SessionInv, PromptBeforeDrain, TypeOK, DrainSelect
  <1>4. DrainMoves(a)
    BY <1>1
    DEF DrainMoves, SessionInv, ThreadsInPlace, ClosedByPreemption,
        StoppedIsCancelled, Closed, CtxOK, DrainSteps, FailSteps, CleanSteps,
        TypeOK, Goto, DrainSelect
  <1> QED BY <1>2, <1>3, <1>4, DrainStep

\* DrainClosed preserves the session invariant.
LEMMA SessionsDrainClosed ==
  ASSUME TypeOK, SessionInv, NEW a \in Adapters, DrainClosed(a)
  PROVE  SessionInv'
  <1>1. a \in Threads /\ ws[a] \in Workspaces
    BY DEF SessionInv, ThreadsInPlace, Threads, DrainClosed
  <1>2. OthersStay(a) /\ UNCHANGED << sessions, ws, life >>
    BY <1>1 DEF OthersStay, TypeOK, Goto, DrainClosed, adapterVars
  <1>3. Monotone
    BY
    DEF Monotone, SessionInv, PromptBeforeDrain, TypeOK, drainVars, DrainClosed
  <1>4. DrainMoves(a)
    BY <1>1
    DEF DrainMoves, SessionInv, ThreadsInPlace, ClosedByPreemption,
        StoppedIsCancelled, Closed, CtxOK, GetWorkspace, DrainSteps, FailSteps,
        CleanSteps, TypeOK, Goto, DrainClosed
  <1> QED BY <1>2, <1>3, <1>4, DrainStep

\* DrainPersist preserves the session invariant.
LEMMA SessionsDrainPersist ==
  ASSUME TypeOK, SessionInv, NEW a \in Adapters, DrainPersist(a)
  PROVE  SessionInv'
  <1>1. a \in Threads /\ ws[a] \in Workspaces
    BY DEF SessionInv, ThreadsInPlace, Threads, DrainPersist
  <1>2. OthersStay(a) /\ UNCHANGED << sessions, ws, life >>
    BY <1>1 DEF OthersStay, TypeOK, Goto, DrainPersist, adapterVars
  <1>3. Monotone
    BY DEF Monotone, SessionInv, PromptBeforeDrain, TypeOK, DrainPersist
  <1>4. DrainMoves(a)
    BY <1>1
    DEF DrainMoves, SessionInv, ThreadsInPlace, ClosedByPreemption,
        StoppedIsCancelled, Closed, CtxOK, GetWorkspace, DrainSteps, FailSteps,
        CleanSteps, TypeOK, Goto, DrainPersist
  <1> QED BY <1>2, <1>3, <1>4, DrainStep

\* DrainCostRead preserves the session invariant.
LEMMA SessionsDrainCostRead ==
  ASSUME TypeOK, SessionInv, NEW a \in Adapters, DrainCostRead(a)
  PROVE  SessionInv'
  <1>1. a \in Threads /\ ws[a] \in Workspaces
    BY DEF SessionInv, ThreadsInPlace, Threads, DrainCostRead
  <1>2. OthersStay(a) /\ UNCHANGED << sessions, ws, life >>
    BY <1>1 DEF OthersStay, TypeOK, Goto, DrainCostRead, adapterVars
  <1>3. Monotone
    BY DEF Monotone, SessionInv, PromptBeforeDrain, TypeOK, DrainCostRead
  <1>4. DrainMoves(a)
    BY <1>1
    DEF DrainMoves, SessionInv, ThreadsInPlace, ClosedByPreemption,
        StoppedIsCancelled, Closed, CtxOK, GetWorkspace, DrainSteps, FailSteps,
        CleanSteps, TypeOK, Goto, DrainCostRead
  <1> QED BY <1>2, <1>3, <1>4, DrainStep

\* DrainCostWrite preserves the session invariant.
LEMMA SessionsDrainCostWrite ==
  ASSUME TypeOK, SessionInv, NEW a \in Adapters, DrainCostWrite(a)
  PROVE  SessionInv'
  <1>1. a \in Threads /\ ws[a] \in Workspaces
    BY DEF SessionInv, ThreadsInPlace, Threads, DrainCostWrite
  <1>2. OthersStay(a) /\ UNCHANGED << sessions, ws, life >>
    BY <1>1 DEF OthersStay, TypeOK, Goto, DrainCostWrite, adapterVars
  <1>3. Monotone
    BY DEF Monotone, SessionInv, PromptBeforeDrain, TypeOK, drainVars,
        DrainCostWrite
  <1>4. DrainMoves(a)
    BY <1>1
    DEF DrainMoves, SessionInv, ThreadsInPlace, ClosedByPreemption,
        StoppedIsCancelled, Closed, CtxOK, GetWorkspace, DrainSteps, FailSteps,
        CleanSteps, TypeOK, Goto, DrainCostWrite
  <1> QED BY <1>2, <1>3, <1>4, DrainStep

\* DrainTerminal preserves the session invariant.
LEMMA SessionsDrainTerminal ==
  ASSUME TypeOK, SessionInv, NEW a \in Adapters, DrainTerminal(a)
  PROVE  SessionInv'
  <1>1. a \in Threads /\ ws[a] \in Workspaces
    BY DEF SessionInv, ThreadsInPlace, Threads, DrainTerminal
  <1>2. OthersStay(a) /\ UNCHANGED << sessions, ws, life >>
    BY <1>1 DEF OthersStay, TypeOK, Goto, DrainTerminal, adapterVars
  <1>3. Monotone
    BY DEF Monotone, SessionInv, PromptBeforeDrain, TypeOK, drainVars,
        UpdateWorkspace, DrainTerminal
  <1>4. DrainMoves(a)
    <2>1. /\ pc[a] = "drain.terminal"
          /\ \/ pc'[a] = "drain.select" /\ then'[a] = then[a]
             \/ pc'[a] = "fail.read" /\ then'[a] = "drain.select"
      BY <1>1 DEF DrainTerminal, Goto, TypeOK
    <2> QED BY <2>1
      DEF DrainMoves, SessionInv, ThreadsInPlace, DrainSteps, FailSteps
  <1> QED BY <1>2, <1>3, <1>4, DrainStep

\* FailRead of a drain goroutine preserves the session invariant.
LEMMA SessionsFailReadD ==
  ASSUME TypeOK, SessionInv, NEW a \in Adapters, FailRead(a)
  PROVE  SessionInv'
  <1>1. a \in Threads /\ ws[a] \in Workspaces
    BY DEF SessionInv, ThreadsInPlace, Threads, FailRead
  <1>2. OthersStay(a) /\ UNCHANGED << sessions, ws, life >>
    BY <1>1 DEF OthersStay, TypeOK, Goto, Return, FailRead, adapterVars
  <1>3. Monotone
    BY DEF Monotone, SessionInv, PromptBeforeDrain, TypeOK, drainVars, FailRead
  <1>4. DrainMoves(a)
    BY <1>1
    DEF DrainMoves, SessionInv, ThreadsInPlace, ClosedByPreemption,
        StoppedIsCancelled, Closed, DrainSteps, FailSteps, CleanSteps, TypeOK,
        Goto, Return, FailRead
  <1> QED BY <1>2, <1>3, <1>4, DrainStep

\* FailWrite of a drain goroutine preserves the session invariant.
LEMMA SessionsFailWriteD ==
  ASSUME TypeOK, SessionInv, NEW a \in Adapters, FailWrite(a)
  PROVE  SessionInv'
  <1>1. a \in Threads /\ ws[a] \in Workspaces
    BY DEF SessionInv, ThreadsInPlace, Threads, FailWrite
  <1>2. OthersStay(a) /\ UNCHANGED << sessions, ws, life >>
    BY <1>1 DEF OthersStay, TypeOK, Goto, Return, FailWrite, adapterVars
  <1>3. Monotone
    BY DEF Monotone, SessionInv, PromptBeforeDrain, TypeOK, drainVars,
        UpdateWorkspace, FailWrite
  <1>4. DrainMoves(a)
    BY <1>1
    DEF DrainMoves, SessionInv, ThreadsInPlace, ClosedByPreemption,
        StoppedIsCancelled, Closed, DrainSteps, FailSteps, CleanSteps, TypeOK,
        Goto, Return, FailWrite
  <1> QED BY <1>2, <1>3, <1>4, DrainStep

\* CleanCancel of a drain goroutine preserves the session invariant.
LEMMA SessionsCleanCancelD ==
  ASSUME TypeOK, SessionInv, NEW a \in Adapters, CleanCancel(a)
  PROVE  SessionInv'
  <1>1. a \in Threads /\ ws[a] \in Workspaces
    BY DEF SessionInv, ThreadsInPlace, Threads, CleanCancel
  <1>2. OthersStay(a) /\ UNCHANGED << sessions, ws, life >>
    BY <1>1 DEF OthersStay, TypeOK, Goto, Return, CleanCancel, adapterVars
  <1>3. Monotone
    BY
    DEF Monotone, SessionInv, PromptBeforeDrain, TypeOK, drainVars, CleanCancel
  <1>4. DrainMoves(a)
    BY <1>1
    DEF DrainMoves, SessionInv, ThreadsInPlace, ClosedByPreemption,
        StoppedIsCancelled, Closed, DrainSteps, FailSteps, CleanSteps, TypeOK,
        Goto, Return, CleanCancel
  <1> QED BY <1>2, <1>3, <1>4, DrainStep

\* Talk preserves the session invariant.
LEMMA SessionsTalk ==
  ASSUME TypeOK, SessionInv, NEW a \in Adapters, Talk(a)
  PROVE  SessionInv'
  <1>1. UNCHANGED << sessions, ctxDone, pc, then, ws, ad, first >>
    BY DEF Talk, Emit, drainVars, bootVars
  <1>2. /\ LifeMoves
        /\ \A b \in Adapters : life'[b] = "stopped" => life[b] = "stopped"
    BY DEF LifeMoves, Closed, TypeOK, Talk, Emit
  <1> QED BY <1>1, <1>2, QuietStep

\* FinishTurn preserves the session invariant.
LEMMA SessionsFinishTurn ==
  ASSUME TypeOK, SessionInv, NEW a \in Adapters, FinishTurn(a)
  PROVE  SessionInv'
  <1>1. UNCHANGED << sessions, ctxDone, pc, then, ws, ad, first >>
    BY DEF FinishTurn, Emit, drainVars, bootVars
  <1>2. /\ LifeMoves
        /\ \A b \in Adapters : life'[b] = "stopped" => life[b] = "stopped"
    BY DEF LifeMoves, Closed, TypeOK, FinishTurn, Emit
  <1> QED BY <1>1, <1>2, QuietStep

\* ProcessExit preserves the session invariant.
LEMMA SessionsProcessExit ==
  ASSUME TypeOK, SessionInv, NEW a \in Adapters, ProcessExit(a)
  PROVE  SessionInv'
  <1>1. UNCHANGED << sessions, ctxDone, pc, then, ws, ad, first >>
    BY DEF ProcessExit, drainVars, bootVars
  <1>2. /\ LifeMoves
        /\ \A b \in Adapters : life'[b] = "stopped" => life[b] = "stopped"
    BY DEF LifeMoves, Closed, TypeOK, ProcessExit
  <1> QED BY <1>1, <1>2, QuietStep

\* DeleteRow preserves the session invariant.
LEMMA SessionsDeleteRow ==
  ASSUME TypeOK, SessionInv, NEW w \in Workspaces, DeleteRow(w)
  PROVE  SessionInv'
  <1>1. UNCHANGED << sessions, ctxDone, pc, then, ws, ad, first >>
    BY DEF DeleteRow, adapterVars, drainVars, bootVars
  <1>2. /\ LifeMoves
        /\ \A b \in Adapters : life'[b] = "stopped" => life[b] = "stopped"
    BY DEF LifeMoves, Closed, TypeOK, DeleteRow, adapterVars
  <1> QED BY <1>1, <1>2, QuietStep

\* SweepRow preserves the session invariant.
LEMMA SessionsSweepRow ==
  ASSUME TypeOK, SessionInv, NEW w \in Workspaces, SweepRow(w)
  PROVE  SessionInv'
  <1>1. UNCHANGED << sessions, ctxDone, pc, then, ws, ad, first >>
    BY DEF SweepRow, adapterVars, drainVars
  <1>2. /\ LifeMoves
        /\ \A b \in Adapters : life'[b] = "stopped" => life[b] = "stopped"
    BY DEF LifeMoves, Closed, TypeOK, SweepRow, adapterVars
  <1> QED BY <1>1, <1>2, QuietStep

\* Disconnect preserves the session invariant.
LEMMA SessionsDisconnect ==
  ASSUME TypeOK, SessionInv, NEW t \in Reqs, Disconnect(t)
  PROVE  SessionInv'
  <1>1. UNCHANGED << sessions, pc, then, ws, ad, life, first >>
    BY DEF Disconnect, adapterVars, drainVars
  <1>2. \A a \in Adapters : a \in ctxDone' <=> a \in ctxDone
    BY ConstantsAssumption DEF Disconnect
  <1> QED BY <1>1, <1>2, QuietStep DEF LifeMoves

\* A crash leaves nothing of the sessions.
LEMMA SessionsCrash ==
  ASSUME Crash
  PROVE  SessionInv'
  <1>1. \A t \in Threads : pc'[t] = "idle" /\ then'[t] = "idle"
    BY DEF Crash
  <1>2. \A a \in Adapters : life'[a] = "free" /\ first'[a] = "none"
    BY DEF Crash
  <1>3. \A w \in Workspaces : sessions'[w] = None
    BY DEF Crash
  <1>4. Fresh'
    BY <1>1, <1>2, <1>3 DEF Fresh
  <1> QED BY <1>4, SessionsFresh, PTL

-----------------------------------------------------------------------------
(* The theorems.                                                           *)

\* The initial states satisfy the inductive invariant.
LEMMA InitIInv == Init => IInv
  <1> SUFFICES ASSUME Init PROVE IInv
    OBVIOUS
  <1>1. TypeOK
    BY StepNames, ConstantsAssumption
    DEF Init, TypeOK, Rows, WorkspaceStatus, Life
  <1>2. SessionInv
    BY SessionsFresh DEF Init, Fresh
  <1> QED BY <1>1, <1>2 DEF IInv

\* Every step preserves the inductive invariant.
LEMMA NextIInv == IInv /\ [Next]_vars => IInv'
  <1> SUFFICES ASSUME TypeOK, SessionInv, [Next]_vars
               PROVE  TypeOK' /\ SessionInv'
    BY DEF IInv
  <1>R. ASSUME NEW t \in Reqs,
               \/ \E op \in Ops, w \in Workspaces : Request(t, op, w)
               \/ Disconnect(t) \/ Handle(t)
        PROVE  TypeOK' /\ SessionInv'
    <2>0. t \in Threads
      BY DEF Threads
    <2>1. CASE StartLoad(t)
      BY <2>1, TypeStartLoad, SessionsStartLoad
    <2>2. CASE StartSpawn(t)
      BY <2>2, TypeStartSpawn, SessionsStartSpawn
    <2>3. CASE StartRunning(t)
      BY <2>3, TypeStartRunning, SessionsStartRunning
    <2>4. CASE StartRegister(t)
      BY <2>4, TypeStartRegister, SessionsStartRegister
    <2>5. CASE StartPreempt(t)
      BY <2>5, TypeStartPreempt, SessionsStartPreempt
    <2>6. CASE StartPrompt(t)
      BY <2>6, TypeStartPrompt, SessionsStartPrompt
    <2>7. CASE StartPersist(t)
      BY <2>7, TypeStartPersist, SessionsStartPersist
    <2>8. CASE PromptLookup(t)
      BY <2>8, TypePromptLookup, SessionsPromptLookup
    <2>9. CASE PromptCheck(t)
      BY <2>9, TypePromptCheck, SessionsPromptCheck
    <2>10. CASE PromptRunning(t)
      BY <2>10, TypePromptRunning, SessionsPromptRunning
    <2>11. CASE PromptSend(t)
      BY <2>11, TypePromptSend, SessionsPromptSend
    <2>12. CASE PromptPersist(t)
      BY <2>12, TypePromptPersist, SessionsPromptPersist
    <2>13. CASE StopLookup(t)
      BY <2>13, TypeStopLookup, SessionsStopLookup
    <2>14. CASE StopCancel(t)
      BY <2>14, TypeStopCancel, SessionsStopCancel
    <2>15. CASE StopKill(t)
      BY <2>15, TypeStopKill, SessionsStopKill
    <2>16. CASE StopRead(t)
      BY <2>16, TypeStopRead, SessionsStopRead
    <2>17. CASE StopWrite(t)
      BY <2>17, TypeStopWrite, SessionsStopWrite
    <2>18. CASE CompleteRead(t)
      BY <2>18, TypeCompleteRead, SessionsCompleteRead
    <2>19. CASE CompleteWrite(t)
      BY <2>19, TypeCompleteWrite, SessionsCompleteWrite
    <2>20. CASE FailRead(t)
      BY <2>0, <2>20, TypeFailRead, SessionsFailReadR
    <2>21. CASE FailWrite(t)
      BY <2>0, <2>21, TypeFailWrite, SessionsFailWriteR
    <2>22. CASE CleanDelete(t)
      BY <2>0, <2>22, TypeCleanDelete, SessionsCleanDelete
    <2>23. CASE CleanCancel(t)
      BY <2>0, <2>23, TypeCleanCancel, SessionsCleanCancelR
    <2>24. CASE Disconnect(t)
      BY <2>24, TypeDisconnect, SessionsDisconnect
    <2>25. ASSUME NEW op \in Ops, NEW w \in Workspaces, Request(t, op, w)
           PROVE  TypeOK' /\ SessionInv'
      BY <2>25, TypeRequest, SessionsRequest
    <2> QED
      BY <1>R, <2>1, <2>2, <2>3, <2>4, <2>5, <2>6, <2>7, <2>8, <2>9, <2>10,
         <2>11, <2>12, <2>13, <2>14, <2>15, <2>16, <2>17, <2>18, <2>19,
         <2>20, <2>21, <2>22, <2>23, <2>24, <2>25
      DEF Handle, Shared
  <1>D. ASSUME NEW a \in Adapters, Drain(a)
        PROVE  TypeOK' /\ SessionInv'
    <2>0. a \in Threads
      BY DEF Threads
    <2>1. CASE DrainSelect(a)
      BY <2>1, TypeDrainSelect, SessionsDrainSelect
    <2>2. CASE DrainClosed(a)
      BY <2>2, TypeDrainClosed, SessionsDrainClosed
    <2>3. CASE DrainPersist(a)
      BY <2>3, TypeDrainPersist, SessionsDrainPersist
    <2>4. CASE DrainCostRead(a)
      BY <2>4, TypeDrainCostRead, SessionsDrainCostRead
    <2>5. CASE DrainCostWrite(a)
      BY <2>5, TypeDrainCostWrite, SessionsDrainCostWrite
    <2>6. CASE DrainTerminal(a)
      BY <2>6, TypeDrainTerminal, SessionsDrainTerminal
    <2>7. CASE FailRead(a)
      BY <2>0, <2>7, TypeFailRead, SessionsFailReadD
    <2>8. CASE FailWrite(a)
      BY <2>0, <2>8, TypeFailWrite, SessionsFailWriteD
    <2>9. CASE CleanDelete(a)
      BY <2>0, <2>9, TypeCleanDelete, SessionsCleanDelete
    <2>10. CASE CleanCancel(a)
      BY <2>0, <2>10, TypeCleanCancel, SessionsCleanCancelD
    <2> QED
      BY <1>D, <2>1, <2>2, <2>3, <2>4, <2>5, <2>6, <2>7, <2>8, <2>9, <2>10
      DEF Drain, Shared
  <1>A. ASSUME NEW a \in Adapters, Talk(a) \/ FinishTurn(a) \/ ProcessExit(a)
        PROVE  TypeOK' /\ SessionInv'
    BY <1>A, TypeTalk, TypeFinishTurn, TypeProcessExit, SessionsTalk,
       SessionsFinishTurn, SessionsProcessExit
  <1>W. ASSUME NEW w \in Workspaces, DeleteRow(w) \/ SweepRow(w)
        PROVE  TypeOK' /\ SessionInv'
    BY <1>W, TypeDeleteRow, TypeSweepRow, SessionsDeleteRow, SessionsSweepRow
  <1>C. CASE Crash
    BY <1>C, TypeCrash, SessionsCrash
  <1>S. CASE UNCHANGED vars
    <2>1. UNCHANGED << sessions, ctxDone, pc, then, ws, ad, life, first >>
      BY <1>S DEF vars
    <2>2. SessionInv'
      BY <2>1, QuietStep DEF LifeMoves
    <2> QED BY <1>S, <2>2 DEF TypeOK, vars
  <1> QED
    BY <1>R, <1>D, <1>A, <1>W, <1>C, <1>S, ConstantsAssumption DEF Next, Agent

\* The inductive invariant holds throughout: no session is lost or left behind,
\* at any moment of any number of concurrent requests and drain goroutines.
THEOREM Invariance == Spec => []IInv
  BY InitIInv, NextIInv, PTL DEF Spec

\* Type correctness, for every set of workspaces, requests and adapters.
THEOREM TypeCorrectness == Spec => []TypeOK
  <1>1. IInv => TypeOK
    BY DEF IInv
  <1> QED BY <1>1, Invariance, PTL

\* A session that is not cancelled is where Stop and SendPrompt find it, or is
\* about to be cancelled.
THEOREM SessionsAreKnown == Spec => []NoForgottenSession
  <1>1. IInv => NoForgottenSession
    BY DEF IInv, SessionInv
  <1> QED BY <1>1, Invariance, PTL

\* A session in the table has a goroutine that will clean it up.
THEOREM SessionsAreServed == Spec => []NoDeadSession
  <1>1. IInv => NoDeadSession
    BY DEF IInv, SessionInv
  <1> QED BY <1>1, Invariance, PTL

\* A drain never takes the channel closed by a Stop for a crash of the agent.
THEOREM StopsAreNotFailures == Spec => []StopIsNotFailure
  <1>1. IInv => StopIsNotFailure
    BY DEF IInv, SessionInv, ClosedByPreemption, StopIsNotFailure
  <1> QED BY <1>1, Invariance, PTL

\* The first message of a session is never the agent's.
THEOREM PromptsComeFirst == Spec => []InitialPromptFirst
  <1>1. IInv => InitialPromptFirst
    BY DEF IInv, SessionInv, PromptBeforeDrain, InitialPromptFirst
  <1> QED BY <1>1, Invariance, PTL
=============================================================================
