---------------------------- MODULE AgentManager ----------------------------
(***************************************************************************)
(* agent.Manager (internal/agent/manager.go): the owner of the running     *)
(* agent sessions, called concurrently by HTTP handlers, with one drain    *)
(* goroutine per session that consumes the events of its adapter.          *)
(*                                                                         *)
(* Every SQL statement, critical section of m.mu and adapter call is one   *)
(* atomic step: the database has a single connection (db.go: Open), so a   *)
(* statement is atomic and two statements of one function are not.         *)
(*                                                                         *)
(* A session is identified with its adapter.  A thread is a request being  *)
(* handled (Reqs) or the drain goroutine of an adapter (Adapters).         *)
(***************************************************************************)
EXTENDS Naturals, Sequences, WorkspaceState

CONSTANTS
  Workspaces,   \* workspace ids
  Reqs,         \* HTTP requests the server handles at the same time
  Adapters,     \* adapters the factory can hand out
  None,         \* "no session", "no adapter"
  Ops,          \* the requests clients make
  Chatter,      \* kinds of events adapters emit within a turn
  DoneReasons,  \* reasons of the EventDone events adapters emit
  Faults,       \* what the environment may do to the server
  MaxEvents,    \* bound: Chatter events of one adapter
  ChanCap,      \* bound: capacity of an adapter's event channel (64)
  MaxTurns,     \* bound: turns an adapter runs at the same time
  MaxCrashes    \* bound: crashes of the server

AllOps == {"start", "prompt", "stop", "complete"}

AllFaults == {"spawn", "prompt", "disconnect", "exit", "delete"}

AllReasons == {"turn_complete", "stopped", "error", "process_exit", "unknown"}

ASSUME ConstantsAssumption ==
  /\ Ops \subseteq AllOps
  /\ Faults \subseteq AllFaults
  /\ Chatter \subseteq {"text", "cost"}
  /\ DoneReasons \subseteq AllReasons
  /\ Reqs \cap Adapters = {}
  /\ None \notin Adapters \cup Workspaces
  /\ MaxEvents \in Nat
  /\ ChanCap \in Nat \ {0}
  /\ MaxTurns \in Nat \ {0}
  /\ MaxCrashes \in Nat

VARIABLES
  status,    \* workspaces.status, or "none" once the row is deleted
  tokens,    \* workspaces.tokens_in: one unit per applied EventCost
  sessions,  \* Manager.sessions
  ctxDone,   \* requests whose client is gone, sessions that are cancelled
  pc,        \* the next step of each thread
  then,      \* where a thread goes after markFailed or cleanupSession
  ws,        \* the workspace a thread works on
  ad,        \* the adapter in a local variable of a thread
  life,      \* of an adapter: its subprocess and its channel
  turn,      \* turns an adapter is running
  chan,      \* events buffered in an adapter's channel
  budget,    \* Chatter events an adapter may still emit
  ev,        \* the event a drain goroutine is handling
  base,      \* tokens_in as read by applyCost
  first,     \* the first message of a session in the messages table
  sweep,     \* rows SweepOrphans has still to mark
  crashes

vars == << status, tokens, sessions, ctxDone, pc, then, ws, ad, life, turn,
           chan, budget, ev, base, first, sweep, crashes >>

dbVars == << status, tokens >>
adapterVars == << life, turn, chan, budget >>
drainVars == << ev, base, first >>
bootVars == << sweep, crashes >>

Threads == Reqs \cup Adapters

Events == Chatter \cup DoneReasons

Rows == WorkspaceStatus \cup {"none"}

StartSteps == {"start.load", "start.spawn", "start.running", "start.register",
               "start.preempt", "start.prompt", "start.persist"}
PromptSteps == {"prompt.lookup", "prompt.check", "prompt.running",
                "prompt.send", "prompt.persist"}
StopSteps == {"stop.lookup", "stop.cancel", "stop.kill", "stop.read",
              "stop.write"}
CompleteSteps == {"complete.read", "complete.write"}
DrainSteps == {"drain.select", "drain.closed", "drain.persist",
               "drain.costread", "drain.costwrite", "drain.terminal"}
FailSteps == {"fail.read", "fail.write"}
CleanSteps == {"clean.delete", "clean.cancel"}

Steps == StartSteps \cup PromptSteps \cup StopSteps \cup CompleteSteps
           \cup DrainSteps \cup FailSteps \cup CleanSteps \cup {"idle"}

Life == {"free", "live", "exited", "stopped", "preempted"}

TypeOK ==
  /\ status \in [Workspaces -> Rows]
  /\ tokens \in [Workspaces -> Nat]
  /\ sessions \in [Workspaces -> Adapters \cup {None}]
  /\ ctxDone \in SUBSET Threads
  /\ pc \in [Threads -> Steps]
  /\ then \in [Threads -> {"idle", "drain.select", "clean.delete", "fail.read"}]
  /\ ws \in [Threads -> Workspaces \cup {None}]
  /\ ad \in [Threads -> Adapters \cup {None}]
  /\ life \in [Adapters -> Life]
  /\ turn \in [Adapters -> 0..MaxTurns]
  /\ chan \in [Adapters -> Seq(Events)]
  /\ budget \in [Adapters -> 0..MaxEvents]
  /\ ev \in [Adapters -> Events \cup {"none"}]
  /\ base \in [Adapters -> Nat]
  /\ first \in [Adapters -> {"none", "user", "lost", "agent"}]
  /\ sweep \in SUBSET Workspaces
  /\ crashes \in 0..MaxCrashes

\* The workspaces are prepared (idle, with a worktree) and no agent has run.
Init ==
  /\ status = [w \in Workspaces |-> "idle"]
  /\ tokens = [w \in Workspaces |-> 0]
  /\ sessions = [w \in Workspaces |-> None]
  /\ ctxDone = {}
  /\ pc = [t \in Threads |-> "idle"]
  /\ then = [t \in Threads |-> "idle"]
  /\ ws = [t \in Threads |-> None]
  /\ ad = [t \in Threads |-> None]
  /\ life = [a \in Adapters |-> "free"]
  /\ turn = [a \in Adapters |-> 0]
  /\ chan = [a \in Adapters |-> << >>]
  /\ budget = [a \in Adapters |-> MaxEvents]
  /\ ev = [a \in Adapters |-> "none"]
  /\ base = [a \in Adapters |-> 0]
  /\ first = [a \in Adapters |-> "none"]
  /\ sweep = {}
  /\ crashes = 0

-----------------------------------------------------------------------------
(* Database calls.                                                         *)

Goto(t, step) == pc' = [pc EXCEPT ![t] = step]

\* A statement runs unless its context is already done.
CtxOK(t) == t \notin ctxDone

\* GetWorkspace(ctx, w) returns the row.
GetWorkspace(t, w) == CtxOK(t) /\ status[w] # "none"

\* UpdateWorkspace(ctx, w, {Status: s}): an UPDATE and then a SELECT.  When the
\* client goes away between the two, the row is written and an error returned.
\* alive says whether ctx is alive when the UPDATE runs.
UpdateWorkspace(t, w, s, alive, ok) ==
  IF ~alive \/ status[w] = "none"
  THEN ~ok /\ UNCHANGED << status, ctxDone >>
  ELSE /\ status' = [status EXCEPT ![w] = s]
       /\ \/ ok /\ UNCHANGED ctxDone
          \/ /\ ~ok /\ t \in Reqs /\ "disconnect" \in Faults
             /\ ctxDone' = ctxDone \cup {t}

-----------------------------------------------------------------------------
(* Adapter calls, as the Manager sees them (adapter.go, opencode.go).      *)

Closed(a) == life[a] \in {"stopped", "preempted"}

\* Stop is idempotent: it kills the subprocess and closes the channel, whose
\* buffered events can still be received.
AdapterStop(a, how) ==
  /\ life' = [life EXCEPT ![a] = IF Closed(a) THEN @ ELSE how]
  /\ turn' = [turn EXCEPT ![a] = 0]
  /\ UNCHANGED << chan, budget >>

\* SendPrompt posts the prompt to the subprocess.  An error can come back
\* although the prompt was delivered (the client is gone before the answer).
AdapterSendPrompt(t, a, ok) ==
  /\ UNCHANGED << life, chan, budget >>
  /\ \/ /\ life[a] = "live" /\ (ok \/ ~CtxOK(t) \/ "prompt" \in Faults)
        /\ turn' = [turn EXCEPT ![a] = IF @ < MaxTurns THEN @ + 1 ELSE @]
     \/ /\ ~ok /\ (life[a] # "live" \/ ~CtxOK(t) \/ "prompt" \in Faults)
        /\ UNCHANGED turn

-----------------------------------------------------------------------------
(* Requests.                                                               *)

\* A handler is called for workspace w.
Request(t, op, w) ==
  /\ sweep = {}
  /\ pc[t] = "idle"
  /\ Goto(t, CASE op = "start"    -> "start.load"
               [] op = "prompt"   -> "prompt.lookup"
               [] op = "stop"     -> "stop.lookup"
               [] op = "complete" -> "complete.read")
  /\ ws' = [ws EXCEPT ![t] = w]
  /\ ad' = [ad EXCEPT ![t] = None]
  /\ ctxDone' = ctxDone \ {t}
  /\ UNCHANGED << dbVars, sessions, then, adapterVars, drainVars, bootVars >>

\* The client closes its connection: the request context is done.
Disconnect(t) ==
  /\ "disconnect" \in Faults
  /\ pc[t] # "idle" /\ CtxOK(t)
  /\ ctxDone' = ctxDone \cup {t}
  /\ UNCHANGED << dbVars, sessions, pc, then, ws, ad, adapterVars, drainVars,
                  bootVars >>

StartLoad(t) ==
  /\ pc[t] = "start.load"
  /\ Goto(t, IF GetWorkspace(t, ws[t]) /\ CanTransition(status[ws[t]], "running")
             THEN "start.spawn" ELSE "idle")
  /\ UNCHANGED << dbVars, sessions, ctxDone, then, ws, ad, adapterVars,
                  drainVars, bootVars >>

\* The factory makes an adapter, or refuses (unsupported agent type, missing
\* binary; in the model also when Adapters is exhausted); Spawn starts it.
StartSpawn(t) ==
  /\ pc[t] = "start.spawn"
  /\ \/ \E a \in Adapters :
          /\ life[a] = "free"
          /\ CtxOK(t)
          /\ life' = [life EXCEPT ![a] = "live"]
          /\ ad' = [ad EXCEPT ![t] = a]
          /\ ws' = [ws EXCEPT ![a] = ws[t]]
          /\ Goto(t, "start.running")
     \/ /\ "spawn" \in Faults \/ ~CtxOK(t)
        /\ Goto(t, "fail.read")
        /\ UNCHANGED << life, ad, ws >>
     \/ /\ Goto(t, "idle")
        /\ UNCHANGED << life, ad, ws >>
  /\ UNCHANGED << dbVars, sessions, ctxDone, then, turn, chan, budget,
                  drainVars, bootVars >>

StartRunning(t) ==
  /\ pc[t] = "start.running"
  /\ \E ok \in BOOLEAN :
       /\ UpdateWorkspace(t, ws[t], "running", CtxOK(t), ok)
       /\ IF ok
          THEN Goto(t, "start.register") /\ UNCHANGED adapterVars
          ELSE AdapterStop(ad[t], "stopped") /\ Goto(t, "idle")
  /\ UNCHANGED << tokens, sessions, then, ws, ad, drainVars, bootVars >>

\* Mutant: Start does not look for a session that is already there.
StartRegister_Overwrites(t) ==
  /\ pc[t] = "start.register"
  /\ sessions' = [sessions EXCEPT ![ws[t]] = ad[t]]
  /\ Goto(t, "start.prompt")
  /\ UNCHANGED << dbVars, ctxDone, ad, then, ws, adapterVars, drainVars, bootVars >>

\* Mutant: Start starts the drain goroutine as soon as it has a session.
StartRegister_DrainsEarly(t) ==
  /\ pc[t] = "start.register"
  /\ sessions[ws[t]] = None
  /\ sessions' = [sessions EXCEPT ![ws[t]] = ad[t]]
  /\ pc' = [pc EXCEPT ![t] = "start.prompt", ![ad[t]] = "drain.select"]
  /\ UNCHANGED << dbVars, ctxDone, ad, then, ws, adapterVars, drainVars, bootVars >>

\* The critical section that registers the session.  When there is one
\* already, Start goes on to stop the adapter of the EXISTING session.
StartRegister(t) ==
  /\ pc[t] = "start.register"
  /\ IF sessions[ws[t]] = None
     THEN /\ sessions' = [sessions EXCEPT ![ws[t]] = ad[t]]
          /\ Goto(t, "start.prompt")
          /\ UNCHANGED << ctxDone, ad >>
     ELSE /\ ctxDone' = ctxDone \cup {ad[t]}
          /\ ad' = [ad EXCEPT ![t] = sessions[ws[t]]]
          /\ Goto(t, "start.preempt")
          /\ UNCHANGED sessions
  /\ UNCHANGED << dbVars, then, ws, adapterVars, drainVars, bootVars >>

StartPreempt(t) ==
  /\ pc[t] = "start.preempt"
  /\ AdapterStop(ad[t], "preempted")
  /\ Goto(t, "idle")
  /\ UNCHANGED << dbVars, sessions, ctxDone, then, ws, ad, drainVars, bootVars >>

StartPrompt(t) ==
  /\ pc[t] = "start.prompt"
  /\ \E ok \in BOOLEAN :
       /\ AdapterSendPrompt(t, ad[t], ok)
       /\ IF ok
          THEN Goto(t, "start.persist") /\ UNCHANGED then
          ELSE /\ Goto(t, "clean.delete")
               /\ then' = [then EXCEPT ![t] = "fail.read"]
  /\ UNCHANGED << dbVars, sessions, ctxDone, ws, ad, drainVars, bootVars >>

\* The user's prompt is written to the transcript; then "go m.drain(...)".
StartPersist(t) ==
  /\ pc[t] = "start.persist"
  /\ first' = [first EXCEPT ![ad[t]] =
                 IF @ # "none" THEN @
                 ELSE IF GetWorkspace(t, ws[t]) THEN "user" ELSE "lost"]
  /\ pc' = [pc EXCEPT ![t] = "idle", ![ad[t]] = "drain.select"]
  /\ UNCHANGED << dbVars, sessions, ctxDone, then, ws, ad, adapterVars, ev, base,
                  bootVars >>

-----------------------------------------------------------------------------
PromptLookup(t) ==
  /\ pc[t] = "prompt.lookup"
  /\ ad' = [ad EXCEPT ![t] = sessions[ws[t]]]
  /\ Goto(t, IF sessions[ws[t]] = None THEN "idle" ELSE "prompt.check")
  /\ UNCHANGED << dbVars, sessions, ctxDone, then, ws, adapterVars, drainVars,
                  bootVars >>

\* Mutant: SendPrompt does not check the transition to running.
PromptCheck_AnyStatus(t) ==
  /\ pc[t] = "prompt.check"
  /\ Goto(t, IF GetWorkspace(t, ws[t]) THEN "prompt.running" ELSE "idle")
  /\ UNCHANGED << dbVars, sessions, ctxDone, then, ws, ad, adapterVars,
                  drainVars, bootVars >>

PromptCheck(t) ==
  /\ pc[t] = "prompt.check"
  /\ Goto(t, IF GetWorkspace(t, ws[t]) /\ CanTransition(status[ws[t]], "running")
             THEN "prompt.running" ELSE "idle")
  /\ UNCHANGED << dbVars, sessions, ctxDone, then, ws, ad, adapterVars,
                  drainVars, bootVars >>

PromptRunning(t) ==
  /\ pc[t] = "prompt.running"
  /\ \E ok \in BOOLEAN :
       /\ UpdateWorkspace(t, ws[t], "running", CtxOK(t), ok)
       /\ Goto(t, IF ok THEN "prompt.send" ELSE "idle")
  /\ UNCHANGED << tokens, sessions, then, ws, ad, adapterVars, drainVars,
                  bootVars >>

PromptSend(t) ==
  /\ pc[t] = "prompt.send"
  /\ \E ok \in BOOLEAN :
       /\ AdapterSendPrompt(t, ad[t], ok)
       /\ Goto(t, IF ok THEN "prompt.persist" ELSE "fail.read")
  /\ UNCHANGED << dbVars, sessions, ctxDone, then, ws, ad, drainVars, bootVars >>

PromptPersist(t) ==
  /\ pc[t] = "prompt.persist"
  /\ first' = [first EXCEPT ![ad[t]] =
                 IF @ = "none" /\ GetWorkspace(t, ws[t]) THEN "user" ELSE @]
  /\ Goto(t, "idle")
  /\ UNCHANGED << dbVars, sessions, ctxDone, then, ws, ad, adapterVars, ev, base,
                  bootVars >>

-----------------------------------------------------------------------------
StopLookup(t) ==
  /\ pc[t] = "stop.lookup"
  /\ ad' = [ad EXCEPT ![t] = sessions[ws[t]]]
  /\ Goto(t, IF sessions[ws[t]] = None THEN "idle" ELSE "stop.cancel")
  /\ UNCHANGED << dbVars, sessions, ctxDone, then, ws, adapterVars, drainVars,
                  bootVars >>

\* Mutant: Stop closes the channel of a session it has not cancelled.
StopCancel_Missing(t) ==
  /\ pc[t] = "stop.cancel"
  /\ Goto(t, "stop.kill")
  /\ UNCHANGED << dbVars, sessions, ctxDone, then, ws, ad, adapterVars, drainVars,
                  bootVars >>

StopCancel(t) ==
  /\ pc[t] = "stop.cancel"
  /\ ctxDone' = ctxDone \cup {ad[t]}
  /\ Goto(t, "stop.kill")
  /\ UNCHANGED << dbVars, sessions, then, ws, ad, adapterVars, drainVars,
                  bootVars >>

StopKill(t) ==
  /\ pc[t] = "stop.kill"
  /\ AdapterStop(ad[t], "stopped")
  /\ Goto(t, "stop.read")
  /\ UNCHANGED << dbVars, sessions, ctxDone, then, ws, ad, drainVars, bootVars >>

StopRead(t) ==
  /\ pc[t] = "stop.read"
  /\ Goto(t, IF /\ GetWorkspace(t, ws[t])
                /\ ~IsTerminal(status[ws[t]])
                /\ CanTransition(status[ws[t]], "cancelled")
             THEN "stop.write" ELSE "clean.delete")
  /\ UNCHANGED << dbVars, sessions, ctxDone, then, ws, ad, adapterVars, drainVars,
                  bootVars >>

StopWrite(t) ==
  /\ pc[t] = "stop.write"
  /\ \E ok \in BOOLEAN : UpdateWorkspace(t, ws[t], "cancelled", CtxOK(t), ok)
  /\ Goto(t, "clean.delete")
  /\ UNCHANGED << tokens, sessions, then, ws, ad, adapterVars, drainVars,
                  bootVars >>

-----------------------------------------------------------------------------
CompleteRead(t) ==
  /\ pc[t] = "complete.read"
  /\ Goto(t, IF /\ GetWorkspace(t, ws[t])
                /\ CanTransition(status[ws[t]], "completed")
             THEN "complete.write" ELSE "idle")
  /\ UNCHANGED << dbVars, sessions, ctxDone, then, ws, ad, adapterVars,
                  drainVars, bootVars >>

CompleteWrite(t) ==
  /\ pc[t] = "complete.write"
  /\ \E ok \in BOOLEAN : UpdateWorkspace(t, ws[t], "completed", CtxOK(t), ok)
  /\ Goto(t, "idle")
  /\ UNCHANGED << tokens, sessions, then, ws, ad, adapterVars, drainVars,
                  bootVars >>

-----------------------------------------------------------------------------
(* markFailed and cleanupSession, called by requests and drain goroutines. *)

\* A drain goroutine passes context.Background(), a handler its own context.
FailCtxOK(t) == t \in Adapters \/ CtxOK(t)

Return(t) ==
  /\ Goto(t, then[t])
  /\ then' = [then EXCEPT ![t] = "idle"]

FailRead(t) ==
  /\ pc[t] = "fail.read"
  /\ IF /\ FailCtxOK(t) /\ status[ws[t]] # "none"
        /\ ~IsTerminal(status[ws[t]])
     THEN Goto(t, "fail.write") /\ UNCHANGED then
     ELSE Return(t)
  /\ UNCHANGED << dbVars, sessions, ctxDone, ws, ad, adapterVars, drainVars,
                  bootVars >>

FailWrite(t) ==
  /\ pc[t] = "fail.write"
  /\ \E ok \in BOOLEAN : UpdateWorkspace(t, ws[t], "failed", FailCtxOK(t), ok)
  /\ Return(t)
  /\ UNCHANGED << tokens, sessions, ws, ad, adapterVars, drainVars,
                  bootVars >>

\* Mutant: cleanupSession leaves the session in the table.
CleanDelete_Missing(t) ==
  /\ pc[t] = "clean.delete"
  /\ ad' = [ad EXCEPT ![t] = sessions[ws[t]]]
  /\ Goto(t, "clean.cancel")
  /\ UNCHANGED << dbVars, sessions, ctxDone, then, ws, adapterVars, drainVars,
                  bootVars >>

\* cleanupSession removes whichever session the workspace has, ...
CleanDelete(t) ==
  /\ pc[t] = "clean.delete"
  /\ ad' = [ad EXCEPT ![t] = sessions[ws[t]]]
  /\ sessions' = [sessions EXCEPT ![ws[t]] = None]
  /\ Goto(t, "clean.cancel")
  /\ UNCHANGED << dbVars, ctxDone, then, ws, adapterVars, drainVars, bootVars >>

\* Mutant: cleanupSession cancels also when there was no session.
CleanCancel_Unchecked(t) ==
  /\ pc[t] = "clean.cancel"
  /\ ctxDone' = ctxDone \cup {ad[t]}
  /\ Return(t)
  /\ UNCHANGED << dbVars, sessions, ws, ad, adapterVars, drainVars, bootVars >>

\* ... and cancels it after the critical section.
CleanCancel(t) ==
  /\ pc[t] = "clean.cancel"
  /\ ctxDone' = ctxDone \cup ({ad[t]} \ {None})
  /\ Return(t)
  /\ UNCHANGED << dbVars, sessions, ws, ad, adapterVars, drainVars, bootVars >>

-----------------------------------------------------------------------------
(* The drain goroutine of adapter a.                                       *)

\* Mutant: the drain returns without its deferred cleanupSession.
DrainSelect_NoCleanup(a) ==
  /\ pc[a] = "drain.select"
  /\ \/ /\ ~CtxOK(a)
        /\ Goto(a, "idle")
        /\ UNCHANGED << chan, ev >>
     \/ /\ chan[a] # << >>
        /\ ev' = [ev EXCEPT ![a] = Head(chan[a])]
        /\ chan' = [chan EXCEPT ![a] = Tail(@)]
        /\ Goto(a, "drain.persist")
     \/ /\ chan[a] = << >> /\ Closed(a)
        /\ Goto(a, "drain.closed")
        /\ UNCHANGED << chan, ev >>
  /\ UNCHANGED << dbVars, sessions, ctxDone, then, ws, ad, life, turn, budget,
                  base, first, bootVars >>

\* Mutant: the select has no case for the end of the session's context.
DrainSelect_NoDone(a) ==
  /\ pc[a] = "drain.select"
  /\ \/ /\ chan[a] # << >>
        /\ ev' = [ev EXCEPT ![a] = Head(chan[a])]
        /\ chan' = [chan EXCEPT ![a] = Tail(@)]
        /\ Goto(a, "drain.persist")
     \/ /\ chan[a] = << >> /\ Closed(a)
        /\ Goto(a, "drain.closed")
        /\ UNCHANGED << chan, ev >>
  /\ UNCHANGED << dbVars, sessions, ctxDone, then, ws, ad, life, turn, budget,
                  base, first, bootVars >>

\* select: when several cases are ready, Go takes any of them.
DrainSelect(a) ==
  /\ pc[a] = "drain.select"
  /\ \/ /\ ~CtxOK(a)
        /\ Goto(a, "clean.delete")
        /\ UNCHANGED << chan, ev >>
     \/ /\ chan[a] # << >>
        /\ ev' = [ev EXCEPT ![a] = Head(chan[a])]
        /\ chan' = [chan EXCEPT ![a] = Tail(@)]
        /\ Goto(a, "drain.persist")
     \/ /\ chan[a] = << >> /\ Closed(a)
        /\ Goto(a, "drain.closed")
        /\ UNCHANGED << chan, ev >>
  /\ UNCHANGED << dbVars, sessions, ctxDone, then, ws, ad, life, turn, budget,
                  base, first, bootVars >>

\* The channel is closed: unless the workspace is terminal, it has failed.
\* markFailed, if called, is followed by the deferred cleanupSession.
DrainClosed(a) ==
  /\ pc[a] = "drain.closed"
  /\ IF GetWorkspace(a, ws[a]) /\ ~IsTerminal(status[ws[a]])
     THEN /\ Goto(a, "fail.read")
          /\ then' = [then EXCEPT ![a] = "clean.delete"]
     ELSE Goto(a, "clean.delete") /\ UNCHANGED then
  /\ UNCHANGED << dbVars, sessions, ctxDone, ws, ad, adapterVars, drainVars,
                  bootVars >>

DrainPersist(a) ==
  /\ pc[a] = "drain.persist"
  /\ first' = [first EXCEPT ![a] =
                 IF @ = "none" /\ GetWorkspace(a, ws[a]) THEN "agent" ELSE @]
  /\ Goto(a, CASE ev[a] = "cost"        -> "drain.costread"
               [] ev[a] \in DoneReasons -> "drain.terminal"
               [] OTHER                 -> "drain.select")
  /\ UNCHANGED << dbVars, sessions, ctxDone, then, ws, ad, adapterVars, ev, base,
                  bootVars >>

DrainCostRead(a) ==
  /\ pc[a] = "drain.costread"
  /\ IF GetWorkspace(a, ws[a])
     THEN /\ base' = [base EXCEPT ![a] = tokens[ws[a]]]
          /\ Goto(a, "drain.costwrite")
     ELSE Goto(a, "drain.select") /\ UNCHANGED base
  /\ UNCHANGED << dbVars, sessions, ctxDone, then, ws, ad, adapterVars, ev,
                  first, bootVars >>

DrainCostWrite(a) ==
  /\ pc[a] = "drain.costwrite"
  /\ tokens' = IF GetWorkspace(a, ws[a])
               THEN [tokens EXCEPT ![ws[a]] = base[a] + 1] ELSE tokens
  /\ Goto(a, "drain.select")
  /\ UNCHANGED << status, sessions, ctxDone, then, ws, ad, adapterVars,
                  drainVars, bootVars >>

\* handleTerminal, with context.Background(): the end of a turn.
DrainTerminal(a) ==
  /\ pc[a] = "drain.terminal"
  /\ \/ /\ ev[a] = "turn_complete"
        /\ UpdateWorkspace(a, ws[a], "awaiting_input", TRUE, status[ws[a]] # "none")
        /\ Goto(a, "drain.select")
        /\ UNCHANGED then
     \/ /\ ev[a] = "stopped"
        /\ Goto(a, "drain.select")
        /\ UNCHANGED << status, ctxDone, then >>
     \/ /\ ev[a] \notin {"turn_complete", "stopped"}
        /\ Goto(a, "fail.read")
        /\ then' = [then EXCEPT ![a] = "drain.select"]
        /\ UNCHANGED << status, ctxDone >>
  /\ UNCHANGED << tokens, sessions, ws, ad, adapterVars, drainVars, bootVars >>

-----------------------------------------------------------------------------
(* The agent subprocess behind an adapter.                                 *)

CanEmit(a) == life[a] = "live" /\ turn[a] > 0 /\ Len(chan[a]) < ChanCap

Emit(a, e) ==
  /\ CanEmit(a)
  /\ chan' = [chan EXCEPT ![a] = Append(@, e)]
  /\ UNCHANGED << dbVars, sessions, ctxDone, pc, then, ws, ad, life, drainVars,
                  bootVars >>

Talk(a) ==
  /\ budget[a] > 0
  /\ budget' = [budget EXCEPT ![a] = @ - 1]
  /\ \E e \in Chatter : Emit(a, e)
  /\ UNCHANGED turn

\* One EventDone per turn.
FinishTurn(a) ==
  /\ \E r \in DoneReasons : Emit(a, r)
  /\ turn' = [turn EXCEPT ![a] = @ - 1]
  /\ UNCHANGED budget

\* The subprocess exits by itself.  readLoop keeps reconnecting: the channel
\* is neither closed nor given an EventDone.
ProcessExit(a) ==
  /\ "exit" \in Faults
  /\ life[a] = "live"
  /\ life' = [life EXCEPT ![a] = "exited"]
  /\ turn' = [turn EXCEPT ![a] = 0]
  /\ UNCHANGED << dbVars, sessions, ctxDone, pc, then, ws, ad, chan, budget,
                  drainVars, bootVars >>

-----------------------------------------------------------------------------
(* The server process.                                                     *)

\* Deleting the project cascades to the row; agents are not stopped.
DeleteRow(w) ==
  /\ "delete" \in Faults
  /\ sweep = {}
  /\ status[w] # "none"
  /\ status' = [status EXCEPT ![w] = "none"]
  /\ UNCHANGED << tokens, sessions, ctxDone, pc, then, ws, ad, adapterVars,
                  drainVars, bootVars >>

\* Mutant: SweepOrphans overlooks the workspaces whose agent was running.
Swept_NotRunning == {"preparing", "awaiting_input", "resolving_conflict",
                     "awaiting_approval"}

Swept == {"running", "preparing", "awaiting_input", "resolving_conflict",
          "awaiting_approval"}

\* The server dies and is started again: nothing but the database survives.
\* run() calls SweepOrphans before it serves requests.
Crash ==
  /\ crashes < MaxCrashes
  /\ crashes' = crashes + 1
  /\ sweep' = {w \in Workspaces : status[w] \in Swept}
  /\ sessions' = [w \in Workspaces |-> None]
  /\ ctxDone' = {}
  /\ pc' = [t \in Threads |-> "idle"]
  /\ then' = [t \in Threads |-> "idle"]
  /\ ws' = [t \in Threads |-> None]
  /\ ad' = [t \in Threads |-> None]
  /\ life' = [a \in Adapters |-> "free"]
  /\ turn' = [a \in Adapters |-> 0]
  /\ chan' = [a \in Adapters |-> << >>]
  /\ budget' = [a \in Adapters |-> MaxEvents]
  /\ ev' = [a \in Adapters |-> "none"]
  /\ base' = [a \in Adapters |-> 0]
  /\ first' = [a \in Adapters |-> "none"]
  /\ UNCHANGED dbVars

SweepRow(w) ==
  /\ w \in sweep
  /\ status' = [status EXCEPT ![w] = "failed"]
  /\ sweep' = sweep \ {w}
  /\ UNCHANGED << tokens, sessions, ctxDone, pc, then, ws, ad, adapterVars,
                  drainVars, crashes >>

-----------------------------------------------------------------------------
Shared(t) ==
  \/ FailRead(t) \/ FailWrite(t) \/ CleanDelete(t) \/ CleanCancel(t)

Handle(t) ==
  \/ StartLoad(t) \/ StartSpawn(t) \/ StartRunning(t) \/ StartRegister(t)
  \/ StartPreempt(t) \/ StartPrompt(t) \/ StartPersist(t)
  \/ PromptLookup(t) \/ PromptCheck(t) \/ PromptRunning(t) \/ PromptSend(t)
  \/ PromptPersist(t)
  \/ StopLookup(t) \/ StopCancel(t) \/ StopKill(t) \/ StopRead(t) \/ StopWrite(t)
  \/ CompleteRead(t) \/ CompleteWrite(t)
  \/ Shared(t)

Drain(a) ==
  \/ DrainSelect(a) \/ DrainClosed(a) \/ DrainPersist(a) \/ DrainCostRead(a)
  \/ DrainCostWrite(a) \/ DrainTerminal(a)
  \/ Shared(a)

Agent(a) == Talk(a) \/ FinishTurn(a) \/ ProcessExit(a)

Next ==
  \/ \E t \in Reqs :
       (\E op \in Ops, w \in Workspaces : Request(t, op, w))
         \/ Disconnect(t) \/ Handle(t)
  \/ \E a \in Adapters : Drain(a) \/ Agent(a)
  \/ \E w \in Workspaces : DeleteRow(w) \/ SweepRow(w)
  \/ Crash

\* The Go scheduler runs every goroutine that can run, a running agent ends its
\* turn, and the server finishes its start-up.
Fairness ==
  /\ \A t \in Reqs : WF_vars(Handle(t))
  /\ \A a \in Adapters : WF_vars(Drain(a)) /\ WF_vars(FinishTurn(a))
  /\ \A w \in Workspaces : WF_vars(SweepRow(w))

Spec == Init /\ [][Next]_vars

FairSpec == Spec /\ Fairness
-----------------------------------------------------------------------------
(* Properties.                                                             *)

\* Adapter a has a session: a Start has registered it, or its drain runs.
HasSession(a) ==
  \/ pc[a] # "idle"
  \/ \E t \in Reqs : ad[t] = a /\ pc[t] \in {"start.prompt", "start.persist"}

\* No session is forgotten: a session that is not cancelled is in the table,
\* where Stop and SendPrompt find it, or the goroutine that took it out of the
\* table is about to cancel it (cleanupSession deletes first, cancels later).
NoForgottenSession ==
  \A a \in Adapters :
    HasSession(a) /\ a \notin ctxDone =>
      \/ sessions[ws[a]] = a
      \/ \E t \in Threads : pc[t] = "clean.cancel" /\ ad[t] = a

\* No dead session blocks a workspace: whatever is in the table belongs to that
\* workspace and has a goroutine that will still run cleanupSession for it, the
\* drain or the handler that is starting or stopping it.
NoDeadSession ==
  \A w \in Workspaces, a \in Adapters : sessions[w] = a =>
    /\ ws[a] = w
    /\ \/ pc[a] \in DrainSteps \cup FailSteps \cup {"clean.delete"}
       \/ \E t \in Reqs :
            /\ ws[t] = w /\ ad[t] = a
            /\ pc[t] \in {"start.prompt", "start.persist", "clean.delete"}

\* A Stop is never taken for a crash: a drain that calls markFailed because its
\* channel was closed belongs to an adapter that Stop did not close, whichever
\* ready case of the select it took (Stop cancels before it closes).
StopIsNotFailure ==
  \A a \in Adapters :
    pc[a] \in FailSteps /\ then[a] = "clean.delete" => life[a] # "stopped"

\* The transcript of a session starts with the prompt: Start persists it
\* before the drain goroutine can persist the agent's first event.
InitialPromptFirst == \A a \in Adapters : first[a] # "agent"

\* applyCost loses no update: the token total that a drain goroutine is about to
\* add to is the one in the database, although it reads, adds and writes back.
CostsAddUp ==
  \A a \in Adapters :
    pc[a] = "drain.costwrite" /\ a \notin ctxDone /\ status[ws[a]] # "none" =>
      base[a] = tokens[ws[a]]

\* A cancelled session's drain goroutine ends.
DrainsEnd ==
  \A a \in Adapters : (pc[a] # "idle" /\ a \in ctxDone) ~> (pc[a] = "idle")

\* A running workspace does not stay running: its turn ends, or it fails, is
\* stopped or is swept after a restart.
RunningResolves ==
  \A w \in Workspaces : status[w] = "running" ~> status[w] # "running"

\* The status column moves along allowedTransitions only.
Lifecycle == INSTANCE WorkspaceLifecycle WITH InitialStatus <- {"idle"}

FollowsLifecycle == Lifecycle!Spec

\* A terminal status is final.
TerminalForever ==
  [][\A w \in Workspaces : IsTerminal(status[w]) => status'[w] = status[w]]_vars

\* The Manager owns every agent that runs: when no request for the workspace is
\* being handled, a live agent has a session.
NoOrphanAgent ==
  \A a \in Adapters : life[a] = "live" =>
    \/ HasSession(a)
    \/ \E t \in Reqs : pc[t] # "idle" /\ ws[t] = ws[a]

\* One prompt in flight per workspace.
SingleTurn == \A a \in Adapters : turn[a] <= 1

-----------------------------------------------------------------------------
(* The inductive invariant behind the safety properties.                   *)

\* Request t is in a Start and holds the adapter it spawned.
Starting(t) ==
  pc[t] \in {"start.running", "start.register", "start.prompt", "start.persist"}

\* Steps of a request that holds an adapter in a local variable.
HoldingSteps ==
  {"start.running", "start.register", "start.preempt", "start.prompt",
   "start.persist", "prompt.check", "prompt.running", "prompt.send",
   "prompt.persist", "stop.cancel", "stop.kill"}

\* A thread runs the code of its kind, on a workspace.
ThreadsInPlace ==
  /\ \A t \in Threads : pc[t] # "idle" => ws[t] \in Workspaces
  /\ \A t \in Reqs : pc[t] \notin DrainSteps /\ then[t] \in {"idle", "fail.read"}
  /\ \A a \in Adapters :
       /\ pc[a] \in DrainSteps \cup FailSteps \cup CleanSteps \cup {"idle"}
       /\ pc[a] \in FailSteps => then[a] \in {"drain.select", "clean.delete"}
       /\ pc[a] \notin FailSteps => then[a] = "idle"

\* The adapter of a local variable exists; the one a Start spawned is its own,
\* for its workspace, and is not drained yet.
AdaptersHeld ==
  /\ \A t \in Reqs : pc[t] \in HoldingSteps => ad[t] \in Adapters
  /\ \A t \in Reqs : Starting(t) => ws[ad[t]] = ws[t] /\ pc[ad[t]] = "idle"
  /\ \A t, u \in Reqs : Starting(t) /\ Starting(u) /\ ad[t] = ad[u] => t = u

\* Nobody knows an adapter the factory has not made.
FreeUnknown ==
  \A a \in Adapters : life[a] = "free" =>
    /\ pc[a] = "idle"
    /\ \A w \in Workspaces : sessions[w] # a
    /\ \A t \in Reqs : Starting(t) => ad[t] # a

\* An adapter that was stopped without its session being cancelled is one that
\* its own Start discarded: it has no drain and will not get one.
StoppedIsCancelled ==
  /\ \A t \in Reqs : pc[t] = "stop.kill" => ad[t] \in ctxDone
  /\ \A a \in Adapters : life[a] = "stopped" /\ a \notin ctxDone =>
       /\ pc[a] = "idle"
       /\ \A t \in Reqs : Starting(t) => ad[t] # a

\* A drain that found its channel closed: only a conflicting Start closes the
\* channel of a session that is not cancelled.
ClosedByPreemption ==
  \A a \in Adapters :
    /\ pc[a] = "drain.closed" => Closed(a)
    /\ pc[a] \in FailSteps /\ then[a] = "clean.delete" => life[a] = "preempted"

\* A drain runs only after its Start has tried to persist the prompt.
PromptBeforeDrain ==
  \A a \in Adapters :
    /\ pc[a] # "idle" => first[a] # "none"
    /\ first[a] # "agent"

\* The sessions and the threads that serve them, whatever the types.
SessionInv ==
  /\ ThreadsInPlace
  /\ AdaptersHeld
  /\ FreeUnknown
  /\ StoppedIsCancelled
  /\ ClosedByPreemption
  /\ PromptBeforeDrain
  /\ NoDeadSession
  /\ NoForgottenSession

IInv == TypeOK /\ SessionInv
=============================================================================
