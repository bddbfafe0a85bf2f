-------------------------- MODULE OpenCodeAdapter --------------------------
(***************************************************************************)
(* openCodeAdapter (internal/agent/opencode.go): one "opencode serve"      *)
(* subprocess, whose HTTP API takes prompts and whose SSE stream of events *)
(* the goroutine readLoop translates into AgentEvents on a bounded channel.*)
(*                                                                         *)
(* SendPrompt and Stop are called by requests that run concurrently with   *)
(* each other and with readLoop.  The subprocess and its event stream are  *)
(* modelled from how the adapter uses them.                                *)
(***************************************************************************)
EXTENDS Naturals, Sequences

CONSTANTS
  Callers,      \* requests that call the adapter
  None,
  Faults,       \* what the environment may do
  ChanCap,      \* capacity of the events channel (64)
  WireCap,      \* bound: SSE events on their way
  MaxTurns,     \* bound: prompts delivered to the subprocess
  MaxDeltas,    \* bound: events within turns
  MaxDrops      \* bound: broken SSE connections

ASSUME OpenCodeAssumption ==
  /\ Faults \subseteq {"spawn", "prompt", "exit", "drop", "late"}
  /\ None \notin Callers /\ "done" \notin Callers \cup {None}
  /\ ChanCap \in Nat \ {0} /\ WireCap \in Nat \ {0}
  /\ MaxTurns \in Nat /\ MaxDeltas \in Nat /\ MaxDrops \in Nat

VARIABLES
  spawn,            \* how far Spawn is
  process,          \* the subprocess
  turnDoneEmitted,
  stopCh,           \* stopCh is closed
  stopOnce,         \* who runs the function of stopOnce; "done" after it
  events,           \* the events channel
  closed,           \* the events channel is closed
  pc,               \* next step of each caller
  loop,             \* next step of readLoop
  sse,              \* the SSE event readLoop handles
  out,              \* the AgentEvent it emits
  linked,           \* the SSE connection is up
  wire,             \* SSE events sent and not read yet
  turns,            \* turns the subprocess has been given and not finished
  final,            \* a final message that may be sent once more
  finished,         \* history: turns finished
  dones,            \* history: EventDones put on the channel
  deltas, drops, prompts,   \* counters of the bounds
  panicked          \* the server process is dead

flagVars == << turnDoneEmitted, stopCh, stopOnce >>
chanVars == << events, closed, dones, panicked >>
loopVars == << loop, sse, out >>
agentVars == << turns, final, finished, deltas, prompts >>
netVars == << linked, wire, drops >>

vars == << spawn, process, flagVars, chanVars, pc, loopVars, netVars, agentVars >>

TypeOK ==
  /\ spawn \in {"new", "waiting", "session", "up", "failed"}
  /\ process \in {"none", "up", "dead"}
  /\ turnDoneEmitted \in BOOLEAN /\ stopCh \in BOOLEAN /\ closed \in BOOLEAN
  /\ stopOnce \in Callers \cup {None, "done"}
  /\ events \in Seq({"text", "cost", "done"}) /\ Len(events) <= ChanCap
  /\ pc \in [Callers -> {"idle", "prompt.post", "stop", "stop.abort",
                         "stop.kill", "stop.close", "stopped"}]
  /\ loop \in {"none", "check", "connect", "scan", "handle", "emit", "sleep", "end"}
  /\ sse \in {"none", "delta", "step", "stop"}
  /\ out \in {"none", "text", "cost", "done"}
  /\ linked \in BOOLEAN /\ panicked \in BOOLEAN /\ final \in BOOLEAN
  /\ wire \in Seq({"delta", "step", "stop"}) /\ Len(wire) <= WireCap
  /\ turns \in 0..MaxTurns /\ finished \in 0..MaxTurns /\ prompts \in 0..MaxTurns
  /\ dones \in Nat
  /\ deltas \in 0..MaxDeltas /\ drops \in 0..MaxDrops

Init ==
  /\ spawn = "new" /\ process = "none"
  /\ turnDoneEmitted = FALSE /\ stopCh = FALSE /\ stopOnce = None
  /\ events = << >> /\ closed = FALSE
  /\ pc = [t \in Callers |-> "idle"]
  /\ loop = "none" /\ sse = "none" /\ out = "none"
  /\ linked = FALSE /\ wire = << >>
  /\ turns = 0 /\ final = FALSE /\ finished = 0 /\ dones = 0
  /\ deltas = 0 /\ drops = 0 /\ prompts = 0
  /\ panicked = FALSE

Goto(t, step) == pc' = [pc EXCEPT ![t] = step]

-----------------------------------------------------------------------------
(* Spawn, called once, by Manager.Start; its error discards the adapter.   *)

SpawnFails ==
  /\ spawn' = "failed"
  /\ process' = "dead"
  /\ UNCHANGED loop

\* The subprocess starts, or cannot be started.
SpawnStart ==
  /\ spawn = "new"
  /\ \/ spawn' = "waiting" /\ process' = "up" /\ UNCHANGED loop
     \/ "spawn" \in Faults /\ SpawnFails
  /\ UNCHANGED << flagVars, chanVars, pc, sse, out, netVars, agentVars >>

\* waitForReady: the "listening on" line, or end of output, 30 s, or ctx.
SpawnReady ==
  /\ spawn = "waiting"
  /\ \/ process = "up" /\ spawn' = "session" /\ UNCHANGED << process, loop >>
     \/ (process = "dead" \/ "spawn" \in Faults) /\ SpawnFails
  /\ UNCHANGED << flagVars, chanVars, pc, sse, out, netVars, agentVars >>

\* createSession; then "go a.readLoop()".
SpawnSession ==
  /\ spawn = "session"
  /\ \/ process = "up" /\ spawn' = "up" /\ loop' = "check" /\ UNCHANGED process
     \/ (process = "dead" \/ "spawn" \in Faults) /\ SpawnFails
  /\ UNCHANGED << flagVars, chanVars, pc, sse, out, netVars, agentVars >>

-----------------------------------------------------------------------------
(* SendPrompt.                                                             *)

\* Nothing of an earlier turn is still on its way to the adapter.
Quiet == wire = << >> /\ ~final /\ loop \notin {"handle", "emit"}

\* The flag is reset before the prompt is posted.  Unless "late" is a fault,
\* clients follow up only when the last turn's events have all come in.
PromptReset(t) ==
  /\ spawn = "up"
  /\ pc[t] = "idle"
  /\ prompts < MaxTurns
  /\ "late" \in Faults
       \/ (turns = 0 /\ Quiet /\ \A u \in Callers : pc[u] # "prompt.post")
  /\ prompts' = prompts + 1
  /\ turnDoneEmitted' = FALSE
  /\ Goto(t, "prompt.post")
  /\ UNCHANGED << spawn, process, stopCh, stopOnce, chanVars, loopVars, netVars,
                  turns, final, finished, deltas >>

\* POST prompt_async.  An answer can be lost although the prompt was taken.
PromptPost(t) ==
  /\ pc[t] = "prompt.post"
  /\ Goto(t, "idle")
  /\ \/ process = "up" /\ turns' = turns + 1
     \/ (process # "up" \/ "prompt" \in Faults) /\ UNCHANGED turns
  /\ UNCHANGED << spawn, process, flagVars, chanVars, loopVars, netVars, final,
                  finished, deltas, prompts >>

-----------------------------------------------------------------------------
(* Stop.                                                                   *)

StopCall(t) ==
  /\ spawn = "up"
  /\ pc[t] = "idle"
  /\ Goto(t, "stop")
  /\ UNCHANGED << spawn, process, flagVars, chanVars, loopVars, netVars, agentVars >>

\* Mutant: a flag instead of sync.Once: the second caller does not wait.
StopOnce_Flag(t) ==
  /\ pc[t] = "stop"
  /\ IF stopOnce = None
     THEN stopOnce' = t /\ stopCh' = TRUE /\ Goto(t, "stop.abort")
     ELSE Goto(t, "stopped") /\ UNCHANGED << stopOnce, stopCh >>
  /\ UNCHANGED << spawn, process, turnDoneEmitted, chanVars, loopVars, netVars,
                  agentVars >>

\* sync.Once: the first caller runs the function, the others wait for its end.
StopOnce(t) ==
  /\ pc[t] = "stop"
  /\ \/ stopOnce = None /\ stopOnce' = t /\ stopCh' = TRUE /\ Goto(t, "stop.abort")
     \/ stopOnce = "done" /\ Goto(t, "stopped") /\ UNCHANGED << stopOnce, stopCh >>
  /\ UNCHANGED << spawn, process, turnDoneEmitted, chanVars, loopVars, netVars,
                  agentVars >>

\* POST abort, for at most 2 s; its outcome is ignored.
StopAbort(t) ==
  /\ pc[t] = "stop.abort"
  /\ Goto(t, "stop.kill")
  /\ \/ process = "up" /\ turns' = 0
     \/ UNCHANGED turns
  /\ UNCHANGED << spawn, process, flagVars, chanVars, loopVars, netVars, final,
                  finished, deltas, prompts >>

StopKill(t) ==
  /\ pc[t] = "stop.kill"
  /\ process' = "dead"
  /\ linked' = FALSE
  /\ Goto(t, "stop.close")
  /\ UNCHANGED << spawn, flagVars, chanVars, loopVars, wire, drops, agentVars >>

\* Mutant: the end of the function is not announced to those who wait for it.
StopClose_Forgets(t) ==
  /\ pc[t] = "stop.close"
  /\ closed' = TRUE
  /\ Goto(t, "stopped")
  /\ UNCHANGED << spawn, process, flagVars, events, dones, panicked, loopVars,
                  netVars, agentVars >>

StopClose(t) ==
  /\ pc[t] = "stop.close"
  /\ closed' = TRUE
  /\ stopOnce' = "done"
  /\ Goto(t, "stopped")
  /\ UNCHANGED << spawn, process, turnDoneEmitted, stopCh, events, dones, panicked,
                  loopVars, netVars, agentVars >>

-----------------------------------------------------------------------------
(* readLoop.                                                               *)

LoopCheck ==
  /\ loop = "check"
  /\ loop' = IF stopCh THEN "end" ELSE "connect"
  /\ UNCHANGED << spawn, process, flagVars, chanVars, pc, sse, out, netVars, agentVars >>

\* GET /event: only events sent from now on will be in the stream.
LoopConnect ==
  /\ loop = "connect"
  /\ IF process = "up"
     THEN linked' = TRUE /\ wire' = << >> /\ loop' = "scan"
     ELSE loop' = "sleep" /\ UNCHANGED << linked, wire >>
  /\ UNCHANGED << spawn, process, flagVars, chanVars, pc, sse, out, drops, agentVars >>

\* The next SSE event is read, and stopCh looked at; or the stream is over: with
\* an error (sleep) or at its end (reconnect at once).
LoopScan ==
  /\ loop = "scan"
  /\ \/ /\ wire # << >>
        /\ sse' = Head(wire)
        /\ wire' = Tail(wire)
        /\ loop' = IF stopCh THEN "check" ELSE "handle"
     \/ /\ wire = << >> /\ ~linked
        /\ loop' \in {"sleep", "check"}
        /\ UNCHANGED << sse, wire >>
  /\ linked' = (linked /\ loop' # "check")
  /\ UNCHANGED << spawn, process, flagVars, chanVars, pc, out, drops, agentVars >>

\* Mutant: every final message is an EventDone.
LoopHandle_NoDedupe ==
  /\ loop = "handle"
  /\ out' = CASE sse = "delta" -> "text" [] sse = "step" -> "cost" [] OTHER -> "done"
  /\ loop' = "emit"
  /\ UNCHANGED << spawn, process, flagVars, chanVars, pc, sse, netVars, agentVars >>

\* handleSSEEvent: a delta is text, the end of a step a cost, and the final
\* message of the assistant ends the turn, once.
LoopHandle ==
  /\ loop = "handle"
  /\ \/ /\ sse \in {"delta", "step"}
        /\ out' = IF sse = "delta" THEN "text" ELSE "cost"
        /\ loop' = "emit"
        /\ UNCHANGED turnDoneEmitted
     \/ /\ sse = "stop" /\ ~turnDoneEmitted
        /\ turnDoneEmitted' = TRUE
        /\ out' = "done"
        /\ loop' = "emit"
     \/ /\ sse = "stop" /\ turnDoneEmitted
        /\ loop' = "scan"
        /\ UNCHANGED << out, turnDoneEmitted >>
  /\ UNCHANGED << spawn, process, stopCh, stopOnce, chanVars, pc, sse, netVars, agentVars >>

Send ==
  /\ events' = Append(events, out)
  /\ dones' = IF out = "done" THEN dones + 1 ELSE dones

\* Mutant: emit waits for the channel only.
LoopEmit_NoStop ==
  /\ loop = "emit"
  /\ ~closed /\ Len(events) < ChanCap /\ Send
  /\ loop' = "scan"
  /\ UNCHANGED << spawn, process, flagVars, closed, pc, sse, out, netVars, agentVars,
                  panicked >>

\* Mutant: a channel without a bound.
LoopEmit_Unbounded ==
  /\ loop = "emit"
  /\ ~closed /\ Send
  /\ loop' = "scan"
  /\ UNCHANGED << spawn, process, flagVars, closed, pc, sse, out, netVars, agentVars,
                  panicked >>

\* select { case a.events <- ev: case <-a.stopCh: }: any ready case is taken; a
\* send on a closed channel is ready, and panics.
LoopEmit ==
  /\ loop = "emit"
  /\ \/ /\ closed
        /\ panicked' = TRUE
        /\ UNCHANGED << loop, events, dones >>
     \/ /\ ~closed /\ Len(events) < ChanCap
        /\ Send
        /\ loop' = "scan"
        /\ UNCHANGED panicked
     \/ /\ stopCh
        /\ loop' = "scan"
        /\ UNCHANGED << events, dones, panicked >>
  /\ UNCHANGED << spawn, process, flagVars, closed, pc, sse, out, netVars, agentVars >>

LoopSleep ==
  /\ loop = "sleep"
  /\ \/ stopCh /\ loop' = "end"
     \/ loop' = "check"
  /\ UNCHANGED << spawn, process, flagVars, chanVars, pc, sse, out, netVars, agentVars >>

-----------------------------------------------------------------------------
(* The drain goroutine, and the subprocess.                                *)

\* The drain takes an event; it may have ended (its session is cancelled).
Receive ==
  /\ events # << >>
  /\ events' = Tail(events)
  /\ UNCHANGED << spawn, process, flagVars, closed, dones, panicked, pc, loopVars,
                  netVars, agentVars >>

\* What is sent while nobody is connected is lost.
Publish(e) ==
  /\ process = "up"
  /\ linked => Len(wire) < WireCap
  /\ wire' = IF linked THEN Append(wire, e) ELSE wire

AgentWorks ==
  /\ turns > 0 /\ deltas < MaxDeltas
  /\ \E e \in {"delta", "step"} : Publish(e)
  /\ deltas' = deltas + 1
  /\ UNCHANGED << spawn, process, flagVars, chanVars, pc, loopVars, linked, drops,
                  turns, final, finished, prompts >>

AgentFinishes ==
  /\ turns > 0
  /\ Publish("stop")
  /\ turns' = turns - 1
  /\ finished' = finished + 1
  /\ final' = TRUE
  /\ UNCHANGED << spawn, process, flagVars, chanVars, pc, loopVars, linked, drops,
                  deltas, prompts >>

\* The final message is sent again, with timing data; or it is not.
AgentRepeats ==
  /\ final
  /\ final' = FALSE
  /\ Publish("stop") \/ UNCHANGED wire
  /\ UNCHANGED << spawn, process, flagVars, chanVars, pc, loopVars, linked, drops,
                  turns, finished, deltas, prompts >>

ProcessExit ==
  /\ "exit" \in Faults
  /\ process = "up"
  /\ process' = "dead"
  /\ linked' = FALSE
  /\ turns' = 0
  /\ UNCHANGED << spawn, flagVars, chanVars, pc, loopVars, wire, drops, final,
                  finished, deltas, prompts >>

\* The SSE connection breaks.
Drop ==
  /\ "drop" \in Faults
  /\ linked /\ drops < MaxDrops
  /\ linked' = FALSE
  /\ drops' = drops + 1
  /\ UNCHANGED << spawn, process, flagVars, chanVars, pc, loopVars, wire, agentVars >>

-----------------------------------------------------------------------------
Spawn == SpawnStart \/ SpawnReady \/ SpawnSession

SendPrompt(t) == PromptReset(t) \/ PromptPost(t)

Stop(t) == StopOnce(t) \/ StopAbort(t) \/ StopKill(t) \/ StopClose(t)

readLoop ==
  \/ LoopCheck \/ LoopConnect \/ LoopScan \/ LoopHandle \/ LoopEmit \/ LoopSleep

Agent == AgentWorks \/ AgentFinishes \/ AgentRepeats \/ ProcessExit \/ Drop

Next ==
  /\ ~panicked
  /\ \/ Spawn
     \/ \E t \in Callers : SendPrompt(t) \/ StopCall(t) \/ Stop(t)
     \/ readLoop
     \/ Receive
     \/ Agent

\* Goroutines that can run do, and an agent ends its turn; nothing says that
\* the channel is read.
Fairness ==
  /\ WF_vars(~panicked /\ readLoop)
  /\ \A t \in Callers : WF_vars(~panicked /\ (Stop(t) \/ PromptPost(t)))
  /\ WF_vars(~panicked /\ AgentFinishes)
  /\ WF_vars(~panicked /\ AgentRepeats)

Spec == Init /\ [][Next]_vars

FairSpec == Spec /\ Fairness

-----------------------------------------------------------------------------
(* Properties.                                                             *)

\* One EventDone per turn, and never before the turn has ended, although the
\* final message of a turn may come twice.
OneDonePerTurn == dones <= finished

\* A Stop that has returned, to any of its callers, has killed the subprocess
\* and closed the channel.
StoppedIsOver ==
  \A t \in Callers : pc[t] = "stopped" => process = "dead" /\ closed

\* After Stop, readLoop ends, be the channel full and the drain gone.
LoopEnds == stopCh ~> (loop \in {"none", "end"} \/ panicked)

\* A call of Stop returns, whoever else calls it.
StopsReturn ==
  \A t \in Callers : (pc[t] = "stop") ~> (pc[t] = "stopped" \/ panicked)

\* No event is emitted on a closed channel.
NoPanic == ~panicked

\* The adapter never waits for room in the channel.
NeverBlocked == ~(loop = "emit" /\ ~closed /\ ~stopCh /\ Len(events) >= ChanCap)

\* Every turn ends with an EventDone, or the adapter is stopped.
TurnsReported ==
  \A n \in 1..MaxTurns : (finished >= n) ~> (dones >= n \/ stopCh \/ process = "dead")
=============================================================================
