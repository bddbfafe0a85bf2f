----------------------- MODULE OpenCodeAdapterProofs -----------------------
(***************************************************************************)
(* Stop and the end of a turn in OpenCodeAdapter, for any callers, any     *)
(* capacities and any number of prompts, events and lost connections.      *)
(*                                                                         *)
(* IInv is inductive whatever the environment does.  DoneInv, which counts *)
(* the EventDones, is inductive too when clients follow up only after the  *)
(* last turn's events have come in ("late" is no fault).                   *)
(***************************************************************************)
EXTENDS OpenCodeAdapter, FiniteSetTheorems, TLAPS

Posting == {t \in Callers : pc[t] = "prompt.post"}

\* A prompt is on its way, or a turn in progress, or a turn finished.
BudgetInv ==
  /\ IsFiniteSet(Posting)
  /\ Cardinality(Posting) + turns + finished <= prompts

Stopper == {"stop.abort", "stop.kill", "stop.close"}

\* The function of stopOnce is run by the caller stopOnce names, and by nobody
\* else; the others return when it has killed the subprocess and closed the
\* channel.  A subprocess is started once, before anybody can stop it.
StopInv ==
  /\ \A t \in Callers : pc[t] \in Stopper => stopOnce = t
  /\ \A t \in Callers : pc[t] = "stop.close" => process = "dead"
  /\ \A t \in Callers : pc[t] = "stopped" => stopOnce = "done"
  /\ stopOnce = "done" => process = "dead" /\ closed
  /\ stopOnce # None => stopCh
  /\ closed => stopOnce = "done"
  /\ spawn # "up" => stopOnce = None /\ \A t \in Callers : pc[t] = "idle"

\* readLoop emits the event it has made of the one it read.
EmitInv == loop = "emit" => out # "none"

IInv == TypeOK /\ BudgetInv /\ StopInv /\ EmitInv

-----------------------------------------------------------------------------
(* The types.                                                              *)

\* The types in four parts, which are proved one by one.
FlagTypes ==
  /\ turnDoneEmitted \in BOOLEAN /\ stopCh \in BOOLEAN /\ closed \in BOOLEAN
  /\ linked \in BOOLEAN /\ panicked \in BOOLEAN /\ final \in BOOLEAN

ControlTypes ==
  /\ spawn \in {"new", "waiting", "session", "up", "failed"}
  /\ process \in {"none", "up", "dead"}
  /\ stopOnce \in Callers \cup {None, "done"}
  /\ pc \in [Callers -> {"idle", "prompt.post", "stop", "stop.abort",
                         "stop.kill", "stop.close", "stopped"}]
  /\ loop \in {"none", "check", "connect", "scan", "handle", "emit", "sleep", "end"}
  /\ sse \in {"none", "delta", "step", "stop"}
  /\ out \in {"none", "text", "cost", "done"}

QueueTypes ==
  /\ events \in Seq({"text", "cost", "done"}) /\ Len(events) <= ChanCap
  /\ wire \in Seq({"delta", "step", "stop"}) /\ Len(wire) <= WireCap

NumberTypes ==
  /\ turns \in 0..MaxTurns /\ finished \in 0..MaxTurns /\ prompts \in 0..MaxTurns
  /\ dones \in Nat
  /\ deltas \in 0..MaxDeltas /\ drops \in 0..MaxDrops

LEMMA Parts == TypeOK <=> FlagTypes /\ ControlTypes /\ QueueTypes /\ NumberTypes
  BY DEF TypeOK, FlagTypes, ControlTypes, QueueTypes, NumberTypes

LEMMA PartsNext ==
  TypeOK' <=> FlagTypes' /\ ControlTypes' /\ QueueTypes' /\ NumberTypes'
  BY DEF TypeOK, FlagTypes, ControlTypes, QueueTypes, NumberTypes

LEMMA InitIInv == Init => IInv
  <1> SUFFICES ASSUME Init PROVE IInv
    OBVIOUS
  <1>1. TypeOK
    <2>1. FlagTypes
      BY DEF Init, FlagTypes
    <2>2. ControlTypes /\ NumberTypes
      BY OpenCodeAssumption DEF Init, ControlTypes, NumberTypes
    <2>3. QueueTypes
      BY OpenCodeAssumption DEF Init, QueueTypes
    <2> QED BY <2>1, <2>2, <2>3, Parts
  <1>2. Posting = {}
    BY DEF Init, Posting
  <1>3. BudgetInv
    BY <1>2, FS_EmptySet DEF Init, BudgetInv
  <1>4. StopInv
    BY OpenCodeAssumption DEF Init, StopInv, Stopper
  <1>5. EmitInv
    BY DEF Init, EmitInv
  <1> QED BY <1>1, <1>3, <1>4, <1>5 DEF IInv

LEMMA StepFlags == ASSUME FlagTypes, Next PROVE FlagTypes'
  <1> USE DEF FlagTypes, flagVars, chanVars, loopVars, netVars, agentVars
  <1>1. CASE Spawn
    BY <1>1, Zenon DEF Spawn, SpawnStart, SpawnReady, SpawnSession
  <1>2. ASSUME NEW t \in Callers, SendPrompt(t) \/ StopCall(t) PROVE FlagTypes'
    BY <1>2, Zenon DEF SendPrompt, PromptReset, PromptPost, StopCall
  <1>3. ASSUME NEW t \in Callers, Stop(t) PROVE FlagTypes'
    BY <1>3, Zenon DEF Stop, StopOnce, StopAbort, StopKill, StopClose
  <1>4. CASE readLoop
    <2>1. CASE LoopCheck \/ LoopHandle \/ LoopEmit \/ LoopSleep
      BY <2>1, Zenon DEF LoopCheck, LoopHandle, LoopEmit, LoopSleep
    <2>2. CASE LoopConnect
      BY <2>2, Zenon DEF LoopConnect
    <2>3. CASE LoopScan
      BY <2>3, Zenon DEF LoopScan
    <2> QED BY <1>4, <2>1, <2>2, <2>3 DEF readLoop
  <1>5. CASE Receive \/ Agent
    BY <1>5, Zenon DEF Receive, Agent, AgentWorks, AgentFinishes, AgentRepeats,
                       ProcessExit, Drop
  <1> QED BY <1>1, <1>2, <1>3, <1>4, <1>5 DEF Next

LEMMA StepControl == ASSUME ControlTypes, QueueTypes, Next PROVE ControlTypes'
  <1> USE DEF ControlTypes, flagVars, loopVars
  <1>1. CASE Spawn
    BY <1>1 DEF Spawn, SpawnStart, SpawnReady, SpawnSession, SpawnFails
  <1>2. ASSUME NEW t \in Callers, SendPrompt(t) \/ StopCall(t) PROVE ControlTypes'
    BY <1>2 DEF SendPrompt, PromptReset, PromptPost, StopCall, Goto
  <1>3. ASSUME NEW t \in Callers, Stop(t) PROVE ControlTypes'
    BY <1>3 DEF Stop, StopOnce, StopAbort, StopKill, StopClose, Goto
  <1>4. CASE LoopCheck \/ LoopConnect \/ LoopSleep
    BY <1>4 DEF LoopCheck, LoopConnect, LoopSleep
  <1>5. CASE LoopScan
    <2>1. wire # << >> => Head(wire) \in {"delta", "step", "stop"}
      BY DEF QueueTypes
    <2> QED BY <1>5, <2>1 DEF LoopScan
  <1>6. CASE LoopHandle
    BY <1>6 DEF LoopHandle
  <1>7. CASE LoopEmit
    BY <1>7 DEF LoopEmit
  <1>8. CASE Receive \/ Agent
    BY <1>8 DEF Receive, Agent, AgentWorks, AgentFinishes, AgentRepeats, ProcessExit,
                Drop
  <1> QED BY <1>1, <1>2, <1>3, <1>4, <1>5, <1>6, <1>7, <1>8 DEF Next, readLoop

\* The wire, when something is sent on it or not.
LEMMA PublishTypes ==
  ASSUME QueueTypes, NEW e \in {"delta", "step", "stop"},
         Publish(e) \/ UNCHANGED wire, UNCHANGED events
  PROVE  QueueTypes'
  BY OpenCodeAssumption DEF Publish, QueueTypes

LEMMA StepQueue == ASSUME ControlTypes, QueueTypes, EmitInv, Next PROVE QueueTypes'
  <1> USE DEF chanVars, netVars
  <1>1. ASSUME UNCHANGED << events, wire >> PROVE QueueTypes'
    BY <1>1 DEF QueueTypes
  <1>2. CASE Spawn \/ Drop \/ ProcessExit
    BY <1>1, <1>2 DEF Spawn, SpawnStart, SpawnReady, SpawnSession, Drop, ProcessExit
  <1>3. ASSUME NEW t \in Callers, SendPrompt(t) \/ StopCall(t) \/ Stop(t)
        PROVE  QueueTypes'
    BY <1>1, <1>3 DEF SendPrompt, PromptReset, PromptPost, StopCall, Stop, StopOnce,
                      StopAbort, StopKill, StopClose
  <1>4. CASE LoopCheck \/ LoopHandle \/ LoopSleep
    BY <1>1, <1>4 DEF LoopCheck, LoopHandle, LoopSleep
  <1>5. CASE LoopConnect
    <2>1. UNCHANGED events /\ (UNCHANGED wire \/ wire' = << >>)
      BY <1>5 DEF LoopConnect
    <2>2. ASSUME UNCHANGED events, wire' = << >> PROVE QueueTypes'
      BY <2>2, OpenCodeAssumption DEF QueueTypes
    <2> QED BY <1>1, <2>1, <2>2
  <1>6. CASE LoopScan
    <2>1. UNCHANGED events /\ (UNCHANGED wire \/ (wire # << >> /\ wire' = Tail(wire)))
      BY <1>6 DEF LoopScan
    <2>2. ASSUME UNCHANGED events, wire # << >>, wire' = Tail(wire) PROVE QueueTypes'
      BY <2>2, OpenCodeAssumption DEF QueueTypes
    <2> QED BY <1>1, <2>1, <2>2
  <1>7. CASE LoopEmit
    <2>1. out \in {"text", "cost", "done"} /\ UNCHANGED wire
      BY <1>7 DEF LoopEmit, ControlTypes, EmitInv
    <2>2. CASE UNCHANGED events
      BY <1>1, <2>1, <2>2
    <2>3. CASE Len(events) < ChanCap /\ events' = Append(events, out)
      BY <2>1, <2>3, OpenCodeAssumption DEF QueueTypes
    <2> QED BY <1>7, <2>2, <2>3 DEF LoopEmit, Send
  <1>8. CASE Receive
    <2>1. UNCHANGED wire /\ events # << >> /\ events' = Tail(events)
      BY <1>8 DEF Receive
    <2> QED BY <2>1, OpenCodeAssumption DEF QueueTypes
  <1>9. CASE AgentWorks \/ AgentFinishes \/ AgentRepeats
    BY <1>9, PublishTypes DEF AgentWorks, AgentFinishes, AgentRepeats
  <1> QED BY <1>2, <1>3, <1>4, <1>5, <1>6, <1>7, <1>8, <1>9 DEF Next, readLoop, Agent

LEMMA StepNumbers == ASSUME NumberTypes, BudgetInv, Next PROVE NumberTypes'
  <1> USE OpenCodeAssumption DEF NumberTypes, chanVars, netVars, agentVars
  <1>0. Cardinality(Posting) \in Nat
    BY FS_CardinalityType DEF BudgetInv
  <1>1. CASE Spawn
    BY <1>1 DEF Spawn, SpawnStart, SpawnReady, SpawnSession
  <1>2. ASSUME NEW t \in Callers, PromptReset(t) \/ StopCall(t) PROVE NumberTypes'
    BY <1>2 DEF PromptReset, StopCall
  <1>3. ASSUME NEW t \in Callers, PromptPost(t) PROVE NumberTypes'
    <2>1. t \in Posting
      BY <1>3 DEF PromptPost, Posting
    <2>2. Cardinality(Posting) # 0
      BY <2>1, FS_EmptySet DEF BudgetInv
    <2>3. turns + 1 <= MaxTurns
      BY <1>0, <2>2 DEF BudgetInv
    <2> QED BY <1>3, <2>3 DEF PromptPost
  <1>4. ASSUME NEW t \in Callers, Stop(t) PROVE NumberTypes'
    BY <1>4 DEF Stop, StopOnce, StopAbort, StopKill, StopClose
  <1>5. CASE readLoop
    BY <1>5 DEF readLoop, LoopCheck, LoopConnect, LoopScan, LoopHandle, LoopEmit,
                LoopSleep, Send
  <1>6. CASE AgentFinishes
    <2>1. finished + 1 <= MaxTurns
      BY <1>0, <1>6 DEF AgentFinishes, BudgetInv
    <2> QED BY <1>6, <2>1 DEF AgentFinishes
  <1>7. CASE Receive \/ AgentWorks \/ AgentRepeats \/ ProcessExit \/ Drop
    BY <1>7 DEF Receive, AgentWorks, AgentRepeats, ProcessExit, Drop
  <1> QED BY <1>1, <1>2, <1>3, <1>4, <1>5, <1>6, <1>7 DEF Next, SendPrompt, Agent

LEMMA StepTypes == ASSUME IInv, Next PROVE TypeOK'
  BY StepFlags, StepControl, StepQueue, StepNumbers, Parts, PartsNext DEF IInv

-----------------------------------------------------------------------------
(* The prompts that are paid for.                                          *)

\* A prompt that is posted counts before it has arrived.
LEMMA StepBudget == ASSUME IInv, Next PROVE BudgetInv'
  <1> USE DEF IInv, BudgetInv, TypeOK
  <1>0. Cardinality(Posting) \in Nat
    BY FS_CardinalityType
  <1>1. ASSUME NEW t \in Callers, PromptReset(t) PROVE BudgetInv'
    <2>1. Posting' = Posting \cup {t} /\ t \notin Posting
      BY <1>1 DEF PromptReset, Goto, Posting
    <2>2. IsFiniteSet(Posting') /\ Cardinality(Posting') = Cardinality(Posting) + 1
      BY <2>1, FS_AddElement
    <2> QED BY <1>0, <1>1, <2>2 DEF PromptReset
  <1>2. ASSUME NEW t \in Callers, PromptPost(t) PROVE BudgetInv'
    <2>1. Posting' = Posting \ {t} /\ t \in Posting
      BY <1>2 DEF PromptPost, Goto, Posting
    <2>2. IsFiniteSet(Posting') /\ Cardinality(Posting') = Cardinality(Posting) - 1
      BY <2>1, FS_RemoveElement
    <2>3. turns' \in {turns, turns + 1} /\ UNCHANGED << finished, prompts >>
      BY <1>2 DEF PromptPost
    <2> QED BY <1>0, <2>2, <2>3
  <1>3. ASSUME NEW t \in Callers, StopCall(t) \/ Stop(t) PROVE BudgetInv'
    <2>1. Posting' = Posting
      BY <1>3 DEF StopCall, Stop, StopOnce, StopAbort, StopKill, StopClose, Goto, Posting
    <2>2. turns' \in {turns, 0} /\ UNCHANGED << finished, prompts >>
      BY <1>3 DEF StopCall, Stop, StopOnce, StopAbort, StopKill, StopClose, agentVars
    <2> QED BY <1>0, <2>1, <2>2
  <1>4. CASE Spawn \/ readLoop \/ Receive \/ Agent
    <2>1. UNCHANGED pc
      BY <1>4 DEF Spawn, SpawnStart, SpawnReady, SpawnSession, readLoop, LoopCheck,
                  LoopConnect, LoopScan, LoopHandle, LoopEmit, LoopSleep, Receive, Agent,
                  AgentWorks, AgentFinishes, AgentRepeats, ProcessExit, Drop
    <2>2. /\ UNCHANGED prompts
          /\ \/ UNCHANGED << turns, finished >>
             \/ turns' = 0 /\ UNCHANGED finished
             \/ turns > 0 /\ turns' = turns - 1 /\ finished' = finished + 1
      BY <1>4 DEF Spawn, SpawnStart, SpawnReady, SpawnSession, readLoop, LoopCheck,
                  LoopConnect, LoopScan, LoopHandle, LoopEmit, LoopSleep, Receive, Agent,
                  AgentWorks, AgentFinishes, AgentRepeats, ProcessExit, Drop, agentVars
    <2>3. Posting' = Posting
      BY <2>1 DEF Posting
    <2> QED BY <1>0, <2>2, <2>3
  <1> QED BY <1>1, <1>2, <1>3, <1>4 DEF Next, SendPrompt

-----------------------------------------------------------------------------
(* Stop.                                                                   *)

LEMMA StepStop == ASSUME IInv, Next PROVE StopInv'
  <1> USE DEF IInv, StopInv, Stopper, TypeOK
  <1>1. CASE Spawn
    BY <1>1, OpenCodeAssumption
    DEF Spawn, SpawnStart, SpawnReady, SpawnSession, SpawnFails, flagVars, chanVars
  <1>2. ASSUME NEW t \in Callers, SendPrompt(t) \/ StopCall(t) PROVE StopInv'
    BY <1>2 DEF SendPrompt, PromptReset, PromptPost, StopCall, Goto, flagVars, chanVars
  <1>3. ASSUME NEW t \in Callers, StopOnce(t) PROVE StopInv'
    BY <1>3, OpenCodeAssumption DEF StopOnce, Goto, chanVars
  <1>4. ASSUME NEW t \in Callers, StopAbort(t) \/ StopKill(t) PROVE StopInv'
    BY <1>4 DEF StopAbort, StopKill, Goto, flagVars, chanVars
  <1>5. ASSUME NEW t \in Callers, StopClose(t) PROVE StopInv'
    BY <1>5, OpenCodeAssumption DEF StopClose, Goto
  <1>6. CASE readLoop
    BY <1>6 DEF readLoop, LoopCheck, LoopConnect, LoopScan, LoopHandle, LoopEmit,
                LoopSleep, flagVars, chanVars
  <1>7. CASE Receive \/ Agent
    BY <1>7 DEF Receive, Agent, AgentWorks, AgentFinishes, AgentRepeats, ProcessExit,
                Drop, flagVars, chanVars
  <1> QED BY <1>1, <1>2, <1>3, <1>4, <1>5, <1>6, <1>7 DEF Next, Stop

LEMMA StepEmit == ASSUME IInv, Next PROVE EmitInv'
  <1> USE DEF IInv, EmitInv, loopVars
  <1>1. CASE Spawn \/ Receive \/ Agent
    BY <1>1 DEF Spawn, SpawnStart, SpawnReady, SpawnSession, SpawnFails, Receive, Agent,
                AgentWorks, AgentFinishes, AgentRepeats, ProcessExit, Drop
  <1>2. ASSUME NEW t \in Callers, SendPrompt(t) \/ StopCall(t) \/ Stop(t)
        PROVE  EmitInv'
    BY <1>2 DEF SendPrompt, PromptReset, PromptPost, StopCall, Stop, StopOnce,
                StopAbort, StopKill, StopClose
  <1>3. CASE readLoop
    BY <1>3 DEF readLoop, LoopCheck, LoopConnect, LoopScan, LoopHandle, LoopEmit,
                LoopSleep
  <1> QED BY <1>1, <1>2, <1>3 DEF Next

LEMMA StutterIInv == ASSUME IInv, UNCHANGED vars PROVE IInv'
  <1> USE DEF vars, flagVars, chanVars, loopVars, agentVars, netVars
  <1>1. Posting' = Posting
    BY DEF Posting
  <1>2. TypeOK'
    BY DEF IInv, TypeOK
  <1>3. BudgetInv' /\ StopInv' /\ EmitInv'
    BY <1>1 DEF IInv, BudgetInv, StopInv, Stopper, EmitInv
  <1> QED BY <1>2, <1>3 DEF IInv

\* The adapter stays well typed, its prompts within their budget, and the
\* function of stopOnce with one caller, whatever its environment does.
THEOREM AdapterInvariance == Spec => []IInv
  <1>1. IInv /\ [Next]_vars => IInv'
    <2> SUFFICES ASSUME IInv, Next PROVE IInv'
      BY StutterIInv
    <2> QED BY StepTypes, StepBudget, StepStop, StepEmit DEF IInv
  <1> QED BY <1>1, InitIInv, PTL DEF Spec

\* Every variable keeps its type, the channel and the wire their bounds, and the
\* number of turns is that of the prompts.
THEOREM AdapterTypes == Spec => []TypeOK
  <1>1. IInv => TypeOK
    BY DEF IInv
  <1> QED BY <1>1, AdapterInvariance, PTL

\* However many call Stop (opencode.go, stopOnce.Do): a call that has returned
\* has the subprocess killed and the channel closed, its own work or another's.
THEOREM StopsAreOver == Spec => []StoppedIsOver
  <1>1. IInv => StoppedIsOver
    BY DEF IInv, StopInv, StoppedIsOver
  <1> QED BY <1>1, AdapterInvariance, PTL

-----------------------------------------------------------------------------
(* One EventDone per turn.                                                 *)

\* A final message of the current turn can still be turned into an EventDone.
Pending ==
  ~turnDoneEmitted /\ (\/ \E i \in 1..Len(wire) : wire[i] = "stop"
                       \/ final
                       \/ loop = "handle" /\ sse = "stop")

\* A turn that has finished is owed at most one EventDone: it is in the channel,
\* about to be put there, or its final message is still on its way.
DoneInv ==
  dones + (IF loop = "emit" /\ out = "done" THEN 1 ELSE 0)
        + (IF Pending THEN 1 ELSE 0) <= finished

LEMMA StepDone ==
  ASSUME IInv, DoneInv, Next, "late" \notin Faults
  PROVE  DoneInv'
  <1> USE DEF IInv, TypeOK, DoneInv, Pending
  <1>1. CASE Spawn
    BY <1>1 DEF Spawn, SpawnStart, SpawnReady, SpawnSession, SpawnFails, flagVars,
                chanVars, loopVars, netVars, agentVars
  <1>2. ASSUME NEW t \in Callers, PromptReset(t) PROVE DoneInv'
    BY <1>2 DEF PromptReset, Quiet, chanVars, loopVars, netVars
  <1>3. ASSUME NEW t \in Callers, PromptPost(t) \/ StopCall(t) \/ Stop(t) PROVE DoneInv'
    BY <1>3 DEF PromptPost, StopCall, Stop, StopOnce, StopAbort, StopKill, StopClose,
                flagVars, chanVars, loopVars, netVars, agentVars
  <1>4. CASE LoopCheck \/ LoopSleep
    BY <1>4 DEF LoopCheck, LoopSleep, flagVars, chanVars, netVars, agentVars
  <1>5. CASE LoopConnect
    BY <1>5 DEF LoopConnect, flagVars, chanVars, agentVars
  <1>6. CASE LoopScan
    <2>1. UNCHANGED << turnDoneEmitted, dones, out, final, finished >> /\ loop' # "emit"
      BY <1>6 DEF LoopScan, flagVars, chanVars, agentVars
    <2>2. Pending' => Pending
      <3>1. CASE wire = << >>
        BY <1>6, <2>1, <3>1 DEF LoopScan
      <3>2. CASE wire # << >>
        <4>1. \A i \in 1..Len(wire') : i + 1 \in 1..Len(wire) /\ wire'[i] = wire[i + 1]
          BY <1>6, <3>2 DEF LoopScan
        <4>2. sse' = wire[1] /\ 1 \in 1..Len(wire)
          BY <1>6, <3>2 DEF LoopScan
        <4> QED BY <2>1, <4>1, <4>2
      <3> QED BY <3>1, <3>2
    <2>3. loop = "scan"
      BY <1>6 DEF LoopScan
    <2> QED BY <2>1, <2>2, <2>3
  <1>7. CASE LoopHandle
    BY <1>7 DEF LoopHandle, chanVars, netVars, agentVars
  <1>8. CASE LoopEmit
    BY <1>8 DEF LoopEmit, Send, flagVars, netVars, agentVars
  <1>9. CASE Receive \/ ProcessExit \/ Drop
    BY <1>9 DEF Receive, ProcessExit, Drop, flagVars, loopVars, chanVars, netVars, agentVars
  <1>10. CASE AgentWorks
    BY <1>10 DEF AgentWorks, Publish, flagVars, chanVars, loopVars
  <1>11. CASE AgentFinishes
    BY <1>11 DEF AgentFinishes, Publish, flagVars, chanVars, loopVars
  <1>12. CASE AgentRepeats
    BY <1>12 DEF AgentRepeats, Publish, flagVars, chanVars, loopVars
  <1> QED BY <1>1, <1>2, <1>3, <1>4, <1>5, <1>6, <1>7, <1>8, <1>9, <1>10, <1>11, <1>12
          DEF Next, SendPrompt, readLoop, Agent

\* However often a final message is repeated, whatever connection breaks and
\* whoever stops the adapter, no turn has two EventDones (opencode.go,
\* turnDoneEmitted), if clients follow up when the last turn's events are in.
THEOREM DonesAreTurns ==
  ASSUME "late" \notin Faults PROVE Spec => []OneDonePerTurn
  <1>1. Init => DoneInv
    BY DEF Init, DoneInv, Pending
  <1>2. IInv /\ DoneInv /\ [Next]_vars => DoneInv'
    <2>1. ASSUME IInv, DoneInv, UNCHANGED vars PROVE DoneInv'
      BY <2>1 DEF DoneInv, Pending, vars, flagVars, chanVars, loopVars, agentVars, netVars
    <2> QED BY <2>1, StepDone
  <1>3. IInv /\ DoneInv => OneDonePerTurn
    BY DEF IInv, TypeOK, DoneInv, OneDonePerTurn
  <1> QED BY <1>1, <1>2, <1>3, AdapterInvariance, PTL DEF Spec
=============================================================================
