---------------------------- MODULE EventStream ----------------------------
(***************************************************************************)
(* The transcript of one workspace and its live stream: the messages table *)
(* (internal/db/message.go), the fan-out of agent.Manager (Subscribe and   *)
(* broadcast, internal/agent/manager.go), the WebSocket handler            *)
(* (internal/api/stream.go) and the REST handler (internal/api/messages.go)*)
(*                                                                         *)
(* The drain goroutine handles the agent's events one after the other:     *)
(* each is persisted and then broadcast.  Writers are the requests that    *)
(* persist other messages (prompts, system notes), which are not broadcast.*)
(* A transaction holds the only database connection from its first         *)
(* statement to its commit.                                                *)
(***************************************************************************)
EXTENDS Integers, Sequences, FiniteSets

CONSTANTS
  Clients,      \* clients; each has at most one connection
  Writers,      \* requests that persist a message
  Drain,        \* the drain goroutine of the workspace
  None,
  ResumeFrom,   \* where clients resume: "seen", the last row they got, or
                \* "last_seq", the last_seq of the REST answer
  Faults,       \* what may go wrong
  ReplayLimit,  \* rows in one replay (1000) or REST answer (500)
  LiveCap,      \* capacity of a subscriber's channel (256)
  MaxEvents,    \* bound: events the agent emits
  MaxNotes,     \* bound: messages the writers persist
  MaxRequests   \* bound: requests of one client

ASSUME EventStreamAssumption ==
  /\ ResumeFrom \in {"seen", "last_seq"}
  /\ Faults \subseteq {"persist", "leave"}
  /\ ReplayLimit \in Nat \ {0} /\ LiveCap \in Nat \ {0}
  /\ MaxEvents \in Nat /\ MaxNotes \in Nat /\ MaxRequests \in Nat
  /\ Drain \notin Writers /\ None \notin Writers \cup Clients \cup {Drain}
  /\ Clients \cap (Writers \cup {Drain}) = {}

VARIABLES
  rows,      \* messages of the workspace: seq and event (0: not an event)
  conn,      \* the thread whose transaction holds the connection
  nextSeq,   \* the seq a transaction has computed
  pc,        \* next step of each thread and client handler
  event,     \* the last event the drain goroutine took
  left,      \* subscribers the broadcast has still to visit
  visiting,  \* the subscriber whose channel it sends to next
  subs,      \* Manager.subs of the workspace
  closed,    \* subscribers whose channel is closed
  queue,     \* events in a subscriber's channel
  dropped,   \* events its full channel has not taken
  missed,    \* history: events a full channel of the client ever dropped
  gone,      \* clients that have closed their connection
  batch,     \* rows a handler has loaded and not sent yet
  since,     \* where a client will resume
  got,       \* events a client has received, in the order of first receipt
  requests,  \* requests a client has made
  panicked   \* the server process is dead

tableVars == << rows, conn, nextSeq >>
fanVars == << event, left, visiting >>
chanVars == << subs, closed, queue, dropped, missed >>
clientVars == << batch, since, got, requests >>

vars == << tableVars, pc, fanVars, chanVars, gone, clientVars, panicked >>

Threads == Writers \cup {Drain}

Rows == [seq : Nat, ev : 0..MaxEvents]

StreamSteps == {"ws.subscribe", "ws.list", "ws.replay", "ws.live", "ws.unsub",
                "ws.close"}

ElementsOf(s) == {s[i] : i \in DOMAIN s}

TypeOK ==
  /\ rows \in SUBSET Rows
  /\ conn \in Threads \cup {None}
  /\ nextSeq \in [Threads -> Nat]
  /\ pc \in [Threads \cup Clients ->
              {"idle", "begin", "insert", "range", "pick", "send", "rest.last",
               "rest.rows"}
                \cup StreamSteps]
  /\ event \in 0..MaxEvents
  /\ left \in SUBSET Clients
  /\ visiting \in Clients \cup {None}
  /\ subs \in SUBSET Clients
  /\ closed \in SUBSET Clients
  /\ queue \in [Clients -> Seq(1..MaxEvents)]
  /\ \A c \in Clients : Len(queue[c]) <= LiveCap
  /\ dropped \in [Clients -> SUBSET (1..MaxEvents)]
  /\ missed \in [Clients -> SUBSET (1..MaxEvents)]
  /\ gone \in SUBSET Clients
  /\ batch \in [Clients -> Seq(Rows)]
  /\ since \in [Clients -> Nat \cup {-1}]
  /\ got \in [Clients -> Seq(1..MaxEvents)]
  /\ requests \in [Clients -> 0..MaxRequests]
  /\ panicked \in BOOLEAN

\* since defaults to -1: the first message has seq 0.
Beginning == -1

Init ==
  /\ rows = {}
  /\ conn = None
  /\ nextSeq = [t \in Threads |-> 0]
  /\ pc = [t \in Threads \cup Clients |-> "idle"]
  /\ event = 0
  /\ left = {}
  /\ visiting = None
  /\ subs = {}
  /\ closed = {}
  /\ queue = [c \in Clients |-> << >>]
  /\ dropped = [c \in Clients |-> {}]
  /\ missed = [c \in Clients |-> {}]
  /\ gone = {}
  /\ batch = [c \in Clients |-> << >>]
  /\ since = [c \in Clients |-> Beginning]
  /\ got = [c \in Clients |-> << >>]
  /\ requests = [c \in Clients |-> 0]
  /\ panicked = FALSE

Goto(t, step) == pc' = [pc EXCEPT ![t] = step]

-----------------------------------------------------------------------------
(* The messages table.                                                     *)

LastSeq == IF rows = {} THEN -1
           ELSE CHOOSE n \in {r.seq : r \in rows} : \A r \in rows : r.seq <= n

\* Mutant: the statements of CreateMessage are not one transaction.
TxBegin_NoTx(t) ==
  /\ pc[t] = "begin"
  /\ nextSeq' = [nextSeq EXCEPT ![t] = LastSeq + 1]
  /\ Goto(t, "insert")
  /\ UNCHANGED << rows, conn, fanVars, chanVars, gone, clientVars, panicked >>

\* CreateMessage: begin, and SELECT COALESCE(MAX(seq), -1) + 1.
TxBegin(t) ==
  /\ pc[t] = "begin"
  /\ conn = None
  /\ conn' = t
  /\ nextSeq' = [nextSeq EXCEPT ![t] = LastSeq + 1]
  /\ Goto(t, "insert")
  /\ UNCHANGED << rows, fanVars, chanVars, gone, clientVars, panicked >>

\* INSERT and commit.
TxInsert(t) ==
  /\ pc[t] = "insert"
  /\ rows' = rows \cup {[seq |-> nextSeq[t], ev |-> IF t = Drain THEN event ELSE 0]}
  /\ conn' = None
  /\ Goto(t, IF t = Drain THEN "range" ELSE "idle")
  /\ UNCHANGED << nextSeq, fanVars, chanVars, gone, clientVars, panicked >>

\* A request persists a prompt or a system note.
Write(t) ==
  /\ pc[t] = "idle"
  /\ Cardinality({r \in rows : r.ev = 0})
       + Cardinality({u \in Writers : pc[u] # "idle"}) < MaxNotes
  /\ Goto(t, "begin")
  /\ UNCHANGED << tableVars, fanVars, chanVars, gone, clientVars, panicked >>

\* Mutant: ListMessages without ORDER BY seq, newest first.
Ordered_Newest(rs) ==
  CHOOSE s \in [1..Cardinality(rs) -> rs] :
    \A i, j \in DOMAIN s : i < j => s[i].seq > s[j].seq

\* ORDER BY seq ASC.
Ordered(rs) ==
  CHOOSE s \in [1..Cardinality(rs) -> rs] :
    \A i, j \in DOMAIN s : i < j => s[i].seq < s[j].seq

\* ListMessages: rows with seq > after, ordered by seq, at most ReplayLimit.
ListMessages(after) ==
  LET newer == {r \in rows : r.seq > after}
      page  == {r \in newer :
                  Cardinality({q \in newer : q.seq < r.seq}) < ReplayLimit}
  IN Ordered(page)

-----------------------------------------------------------------------------
(* handleEvent: persistEvent and then broadcast.                           *)

DrainTake ==
  /\ pc[Drain] = "idle"
  /\ event < MaxEvents
  /\ event' = event + 1
  /\ Goto(Drain, "begin")
  /\ UNCHANGED << tableVars, left, visiting, chanVars, gone, clientVars, panicked >>

\* persistEvent fails (the session is cancelled): the event is broadcast only.
DrainNotPersisted ==
  /\ "persist" \in Faults
  /\ pc[Drain] = "begin"
  /\ Goto(Drain, "range")
  /\ UNCHANGED << tableVars, fanVars, chanVars, gone, clientVars, panicked >>

\* broadcast takes the map of subscribers under the lock and ranges over the
\* map itself, not a copy, after unlocking.
BroadcastRange ==
  /\ pc[Drain] = "range"
  /\ left' = subs
  /\ Goto(Drain, IF subs = {} THEN "idle" ELSE "pick")
  /\ UNCHANGED << tableVars, event, visiting, chanVars, gone, clientVars, panicked >>

\* The range yields the next entry, in any order.  An entry that is deleted is
\* not yielded, and one that is added may be skipped.
BroadcastPick ==
  /\ pc[Drain] = "pick"
  /\ IF left = {}
     THEN Goto(Drain, "idle") /\ visiting' = None /\ UNCHANGED left
     ELSE \E c \in left :
            /\ visiting' = c
            /\ left' = left \ {c}
            /\ Goto(Drain, "send")
  /\ UNCHANGED << tableVars, event, chanVars, gone, clientVars, panicked >>

\* Mutant: the select has no default case, so a full channel blocks.
BroadcastSend_Blocks ==
  /\ pc[Drain] = "send"
  /\ Len(queue[visiting]) < LiveCap
  /\ queue' = [queue EXCEPT ![visiting] = Append(@, event)]
  /\ Goto(Drain, "pick")
  /\ UNCHANGED << tableVars, fanVars, subs, closed, dropped, missed, gone, clientVars,
                  panicked >>

\* Mutant: the channel takes whatever is sent.
BroadcastSend_Unbounded ==
  /\ pc[Drain] = "send"
  /\ queue' = [queue EXCEPT ![visiting] = Append(@, event)]
  /\ Goto(Drain, "pick")
  /\ UNCHANGED << tableVars, fanVars, subs, closed, dropped, missed, gone, clientVars,
                  panicked >>

\* select { case ch <- ev: default: }.  A send on a closed channel panics.
BroadcastSend ==
  /\ pc[Drain] = "send"
  /\ \/ /\ visiting \in closed
        /\ panicked' = TRUE
        /\ UNCHANGED << queue, dropped, missed, pc >>
     \/ /\ visiting \notin closed /\ Len(queue[visiting]) < LiveCap
        /\ queue' = [queue EXCEPT ![visiting] = Append(@, event)]
        /\ Goto(Drain, "pick")
        /\ UNCHANGED << dropped, missed, panicked >>
     \/ /\ visiting \notin closed /\ Len(queue[visiting]) >= LiveCap
        /\ dropped' = [dropped EXCEPT ![visiting] = @ \cup {event}]
        /\ missed' = [missed EXCEPT ![visiting] = @ \cup {event}]
        /\ Goto(Drain, "pick")
        /\ UNCHANGED << queue, panicked >>
  /\ UNCHANGED << tableVars, fanVars, subs, closed, gone, clientVars >>

\* A map that is written while broadcast ranges over it: the runtime may detect
\* it and kill the process.
MapRace ==
  \/ UNCHANGED panicked
  \/ pc[Drain] \in {"pick", "send"} /\ panicked' = TRUE

-----------------------------------------------------------------------------
(* handleStreamWorkspace.                                                  *)

Receive(c, e) ==
  got' = IF e = 0 \/ e \in ElementsOf(got[c]) THEN got
         ELSE [got EXCEPT ![c] = Append(@, e)]

\* The client connects, resuming where it is.
Connect(c) ==
  /\ pc[c] = "idle"
  /\ requests[c] < MaxRequests
  /\ requests' = [requests EXCEPT ![c] = @ + 1]
  /\ Goto(c, "ws.subscribe")
  /\ UNCHANGED << tableVars, fanVars, chanVars, gone, batch, since, got, panicked >>

\* The client closes its connection.
Leave(c) ==
  /\ "leave" \in Faults
  /\ pc[c] \in {"ws.subscribe", "ws.list", "ws.replay", "ws.live"}
  /\ gone' = gone \cup {c}
  /\ UNCHANGED << tableVars, pc, fanVars, chanVars, clientVars, panicked >>

\* Subscribe: a new channel, registered under the lock.
Subscribe(c) ==
  /\ pc[c] = "ws.subscribe"
  /\ subs' = subs \cup {c}
  /\ closed' = closed \ {c}
  /\ queue' = [queue EXCEPT ![c] = << >>]
  /\ dropped' = [dropped EXCEPT ![c] = {}]
  /\ Goto(c, "ws.list")
  /\ MapRace
  /\ UNCHANGED << tableVars, fanVars, missed, gone, clientVars >>

\* Mutant: the replay starts one row too late.
ReplayList_Late(c) ==
  /\ pc[c] = "ws.list"
  /\ conn = None
  /\ batch' = [batch EXCEPT ![c] = ListMessages(since[c] + 1)]
  /\ Goto(c, "ws.replay")
  /\ UNCHANGED << tableVars, fanVars, chanVars, gone, since, got, requests, panicked >>

\* replayPersisted: ListMessages, or an error (the client is gone).
ReplayList(c) ==
  /\ pc[c] = "ws.list"
  /\ conn = None
  /\ \/ /\ batch' = [batch EXCEPT ![c] = ListMessages(since[c])]
        /\ Goto(c, "ws.replay")
     \/ /\ c \in gone
        /\ Goto(c, "ws.unsub")
        /\ UNCHANGED batch
  /\ UNCHANGED << tableVars, fanVars, chanVars, gone, since, got, requests, panicked >>

\* One frame per row; the frame carries the row's seq.
ReplaySend(c) ==
  /\ pc[c] = "ws.replay"
  /\ \/ /\ batch[c] = << >>
        /\ Goto(c, "ws.live")
        /\ UNCHANGED << batch, since, got >>
     \/ /\ batch[c] # << >> /\ c \in gone
        /\ Goto(c, "ws.unsub")
        /\ batch' = [batch EXCEPT ![c] = << >>]
        /\ UNCHANGED << since, got >>
     \/ /\ batch[c] # << >> /\ c \notin gone
        /\ Receive(c, Head(batch[c]).ev)
        /\ since' = [since EXCEPT ![c] = Head(batch[c]).seq]
        /\ batch' = [batch EXCEPT ![c] = Tail(@)]
        /\ UNCHANGED pc
  /\ UNCHANGED << tableVars, fanVars, chanVars, gone, requests, panicked >>

\* The live loop.  A live frame carries no seq.
LiveSend(c) ==
  /\ pc[c] = "ws.live"
  /\ queue[c] # << >>
  /\ queue' = [queue EXCEPT ![c] = Tail(@)]
  /\ IF c \in gone
     THEN Goto(c, "ws.unsub") /\ UNCHANGED got
     ELSE Receive(c, Head(queue[c])) /\ UNCHANGED pc
  /\ UNCHANGED << tableVars, fanVars, subs, closed, dropped, missed, gone, batch,
                  since, requests, panicked >>

\* Mutant: the handler does not notice that its client is gone.
LiveDone_Never(c) == FALSE /\ UNCHANGED vars

\* The reader goroutine cancels the handler's context when the client is gone.
LiveDone(c) ==
  /\ pc[c] = "ws.live"
  /\ c \in gone
  /\ Goto(c, "ws.unsub")
  /\ UNCHANGED << tableVars, fanVars, chanVars, gone, clientVars, panicked >>

\* The deferred unsubscribe: delete under the lock, and then close the channel.
Unsubscribe(c) ==
  /\ pc[c] = "ws.unsub"
  /\ subs' = subs \ {c}
  /\ left' = left \ {c}
  /\ Goto(c, "ws.close")
  /\ MapRace
  /\ UNCHANGED << tableVars, event, visiting, closed, queue, dropped, missed, gone,
                  clientVars >>

CloseChannel(c) ==
  /\ pc[c] = "ws.close"
  /\ closed' = closed \cup {c}
  /\ gone' = gone \ {c}
  /\ Goto(c, "idle")
  /\ UNCHANGED << tableVars, fanVars, subs, queue, dropped, missed, clientVars,
                  panicked >>

-----------------------------------------------------------------------------
(* handleListMessages: ListMessages and LastSeq, two statements.           *)

RestList(c) ==
  /\ pc[c] = "idle"
  /\ requests[c] < MaxRequests
  /\ conn = None
  /\ requests' = [requests EXCEPT ![c] = @ + 1]
  /\ batch' = [batch EXCEPT ![c] = ListMessages(since[c])]
  /\ Goto(c, "rest.last")
  /\ UNCHANGED << tableVars, fanVars, chanVars, gone, since, got, panicked >>

\* The client gets the rows and last_seq.
RestLast(c) ==
  /\ pc[c] = "rest.last"
  /\ conn = None
  /\ since' = [since EXCEPT ![c] = IF ResumeFrom = "last_seq" THEN LastSeq ELSE @]
  /\ Goto(c, "rest.rows")
  /\ UNCHANGED << tableVars, fanVars, chanVars, gone, batch, got, requests, panicked >>

\* It takes the rows one after the other.
RestTake(c) ==
  /\ pc[c] = "rest.rows"
  /\ IF batch[c] = << >>
     THEN Goto(c, "idle") /\ UNCHANGED << batch, since, got >>
     ELSE /\ Receive(c, Head(batch[c]).ev)
          /\ since' = [since EXCEPT ![c] =
                         IF ResumeFrom = "last_seq" THEN @ ELSE Head(batch[c]).seq]
          /\ batch' = [batch EXCEPT ![c] = Tail(@)]
          /\ UNCHANGED pc
  /\ UNCHANGED << tableVars, fanVars, chanVars, gone, requests, panicked >>

-----------------------------------------------------------------------------
CreateMessage(t) == TxBegin(t) \/ TxInsert(t)

HandleEvent ==
  \/ CreateMessage(Drain) \/ DrainNotPersisted
  \/ BroadcastRange \/ BroadcastPick \/ BroadcastSend

\* The way out of a handler whose client is gone.
Return(c) ==
  \/ c \in gone /\ (Subscribe(c) \/ ReplayList(c) \/ ReplaySend(c))
  \/ LiveDone(c) \/ Unsubscribe(c) \/ CloseChannel(c)

Stream(c) ==
  \/ Connect(c) \/ Leave(c) \/ Subscribe(c) \/ ReplayList(c) \/ ReplaySend(c)
  \/ LiveSend(c) \/ LiveDone(c) \/ Unsubscribe(c) \/ CloseChannel(c)

Rest(c) == RestList(c) \/ RestLast(c) \/ RestTake(c)

Next ==
  /\ ~panicked
  /\ \/ DrainTake \/ HandleEvent
     \/ \E t \in Writers : Write(t) \/ CreateMessage(t)
     \/ \E c \in Clients : Stream(c) \/ Rest(c)

\* Goroutines that can run do; nothing makes a client read its connection, so
\* LiveSend is not fair, but a write to a closed connection fails at once.
Fairness ==
  /\ WF_vars(~panicked /\ HandleEvent)
  /\ \A t \in Writers : WF_vars(~panicked /\ CreateMessage(t))
  /\ \A c \in Clients : WF_vars(~panicked /\ Return(c))

Spec == Init /\ [][Next]_vars

FairSpec == Spec /\ Fairness

-----------------------------------------------------------------------------
(* Properties.                                                             *)

\* seq is per workspace, distinct and without gaps, although nothing but the
\* transaction of CreateMessage keeps two writers from computing the same one.
SeqGapFree ==
  /\ \A q, r \in rows : q.seq = r.seq => q = r
  /\ {r.seq : r \in rows} = 0..(Cardinality(rows) - 1)

\* The event of the broadcast that is going on has still to reach client c.
OnItsWay(c) ==
  IF pc[Drain] = "range" \/ (pc[Drain] = "pick" /\ c \in left)
       \/ (pc[Drain] = "send" /\ c \in left \cup {visiting})
  THEN {event} ELSE {}

\* A stream has no hole: once its rows are loaded, a client has got, or will
\* get, every persisted event, except those its full channel did not take.
\* (The handler subscribes before it lists, so nothing falls between.)
NoHole ==
  \A c \in Clients, r \in rows :
    pc[c] \in {"ws.replay", "ws.live"} /\ r.ev # 0 =>
      \/ r.ev \in ElementsOf(got[c]) \cup ElementsOf(queue[c]) \cup dropped[c]
                    \cup OnItsWay(c)
      \/ r \in ElementsOf(batch[c])

\* A client first sees the events in the order the agent emitted them, although
\* replay and live overlap and connections follow each other.  An event it sees
\* after a later one was dropped by a full channel, or is in no row.
InOrder ==
  \A c \in Clients : \A i, j \in DOMAIN got[c] :
    i < j /\ got[c][j] < got[c][i] =>
      got[c][j] \in missed[c] \/ \A r \in rows : r.ev # got[c][j]

\* A slow client never blocks the agent: every broadcast comes to an end
\* although nobody need read a channel.
BroadcastEnds == (pc[Drain] = "send") ~> (pc[Drain] = "idle" \/ panicked)

\* A client that leaves does not leave its subscription behind.
Unsubscribed ==
  \A c \in Clients : (c \in gone) ~> (c \notin subs \/ panicked)

\* Subscribers come and go while the drain broadcasts: the server survives.
NoPanic == ~panicked
=============================================================================
