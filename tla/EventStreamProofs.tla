------------------------- MODULE EventStreamProofs -------------------------
(***************************************************************************)
(* The numbering of the messages and the stream of one workspace, for any  *)
(* clients, writers, channel capacity and replay limit.                    *)
(*                                                                         *)
(* IInv is inductive without any assumption.  StreamInv adds what a client *)
(* that resumes where its replay ended can rely on, as long as a           *)
(* transcript fits in one replay.                                          *)
(***************************************************************************)
EXTENDS EventStream, FiniteSetTheorems, SequenceTheorems, TLAPS

(***************************************************************************)
(* Sequences and the sets of their elements.                               *)
(***************************************************************************)
LEMMA NoElements == ElementsOf(<< >>) = {} /\ DOMAIN << >> = {} /\ Len(<< >>) = 0
  BY DEF ElementsOf

LEMMA SeqElements ==
  ASSUME NEW S, NEW s \in Seq(S)
  PROVE  /\ Len(s) \in Nat /\ DOMAIN s = 1..Len(s)
         /\ ElementsOf(s) \subseteq S
         /\ s = << >> <=> ElementsOf(s) = {}
  <1>1. Len(s) \in Nat /\ DOMAIN s = 1..Len(s) /\ \A i \in 1..Len(s) : s[i] \in S
    BY LenProperties, ElementOfSeq
  <1>2. s = << >> => ElementsOf(s) = {}
    BY NoElements
  <1>3. s # << >> => s[1] \in ElementsOf(s)
    <2>1. s # << >> => 1 \in DOMAIN s
      BY <1>1, EmptySeq
    <2> QED BY <2>1 DEF ElementsOf
  <1>4. ElementsOf(s) \subseteq S
    BY <1>1 DEF ElementsOf
  <1> QED BY <1>1, <1>2, <1>3, <1>4

LEMMA HeadAndTail ==
  ASSUME NEW S, NEW s \in Seq(S), s # << >>
  PROVE  /\ Head(s) \in S /\ Tail(s) \in Seq(S) /\ Len(Tail(s)) = Len(s) - 1
         /\ Head(s) = s[1] /\ 1 \in DOMAIN s
         /\ \A i \in DOMAIN Tail(s) : i + 1 \in DOMAIN s /\ Tail(s)[i] = s[i + 1]
         /\ ElementsOf(s) = {Head(s)} \cup ElementsOf(Tail(s))
  <1>1. /\ Head(s) \in S /\ Tail(s) \in Seq(S) /\ Len(Tail(s)) = Len(s) - 1
        /\ \A i \in 1..Len(Tail(s)) : Tail(s)[i] = s[i + 1]
        /\ Len(s) \in Nat \ {0}
    BY HeadTailProperties, EmptySeq
  <1>2. Head(s) = s[1]
    BY <1>1
  <1>3. DOMAIN s = 1..Len(s) /\ DOMAIN Tail(s) = 1..(Len(s) - 1)
    BY <1>1, LenProperties
  <1>4. \A i \in DOMAIN s : i = 1 \/ (i - 1 \in DOMAIN Tail(s) /\ s[i] = Tail(s)[i - 1])
    BY <1>1, <1>3
  <1>5. \A i \in DOMAIN Tail(s) : i + 1 \in DOMAIN s /\ Tail(s)[i] = s[i + 1]
    BY <1>1, <1>3
  <1>6. 1 \in DOMAIN s
    BY <1>1, <1>3
  <1>7. ElementsOf(s) = {Head(s)} \cup ElementsOf(Tail(s))
    <2> DEFINE u == Tail(s)
    <2>1. /\ s[1] \in ElementsOf(s) /\ \A i \in DOMAIN u : u[i] \in ElementsOf(s)
          /\ \A i \in DOMAIN s : s[i] = s[1] \/ s[i] \in ElementsOf(u)
      <3> HIDE DEF u
      <3> QED BY <1>4, <1>5, <1>6 DEF ElementsOf, u
    <2> HIDE DEF u
    <2>2. ElementsOf(s) = {s[1]} \cup ElementsOf(u)
      BY <2>1 DEF ElementsOf
    <2> QED BY <1>2, <2>2 DEF u
  <1> QED BY <1>1, <1>2, <1>5, <1>6, <1>7

LEMMA AppendElements ==
  ASSUME NEW S, NEW s \in Seq(S), NEW e \in S
  PROVE  /\ Append(s, e) \in Seq(S) /\ Len(Append(s, e)) = Len(s) + 1
         /\ DOMAIN Append(s, e) = 1..(Len(s) + 1)
         /\ \A i \in DOMAIN s : Append(s, e)[i] = s[i]
         /\ Append(s, e)[Len(s) + 1] = e
         /\ ElementsOf(Append(s, e)) = ElementsOf(s) \cup {e}
  <1>1. /\ Append(s, e) \in Seq(S) /\ Len(Append(s, e)) = Len(s) + 1
        /\ \A i \in 1..Len(s) : Append(s, e)[i] = s[i]
        /\ Append(s, e)[Len(s) + 1] = e
    BY AppendProperties
  <1>2. Len(s) \in Nat /\ DOMAIN s = 1..Len(s) /\ DOMAIN Append(s, e) = 1..(Len(s) + 1)
    BY <1>1, LenProperties
  <1>3. ElementsOf(Append(s, e)) = ElementsOf(s) \cup {e}
    BY <1>1, <1>2 DEF ElementsOf
  <1> QED BY <1>1, <1>2, <1>3

Increasing(s) == \A i, j \in DOMAIN s : i < j => s[i] < s[j]

LEMMA AppendIncreasing ==
  ASSUME NEW q \in Seq(1..MaxEvents), NEW e \in 1..MaxEvents,
         Increasing(q), \A x \in ElementsOf(q) : x < e
  PROVE  /\ Increasing(Append(q, e))
         /\ ElementsOf(Append(q, e)) = ElementsOf(q) \cup {e}
  <1> DEFINE p == Append(q, e)
  <1>1. /\ Len(q) \in Nat /\ DOMAIN q = 1..Len(q)
        /\ DOMAIN p = 1..(Len(q) + 1) /\ \A i \in DOMAIN q : p[i] = q[i]
        /\ p[Len(q) + 1] = e /\ ElementsOf(p) = ElementsOf(q) \cup {e}
    <2>1. Len(q) \in Nat /\ DOMAIN q = 1..Len(q)
      BY SeqElements
    <2>2. /\ DOMAIN p = 1..(Len(q) + 1) /\ \A i \in DOMAIN q : p[i] = q[i]
          /\ p[Len(q) + 1] = e
      BY AppendElements
    <2>3. ElementsOf(p) = ElementsOf(q) \cup {e}
      BY <2>1, <2>2 DEF ElementsOf
    <2> QED BY <2>1, <2>2, <2>3
  <1>2. \A i \in DOMAIN q : q[i] < e
    BY DEF ElementsOf
  <1> HIDE DEF p
  <1>3. \A i, j \in DOMAIN p : i < j => p[i] < p[j]
    <2> TAKE i, j \in DOMAIN p
    <2>1. CASE j \in DOMAIN q
      BY <1>1, <2>1 DEF Increasing
    <2>2. CASE j = Len(q) + 1
      BY <1>1, <1>2, <2>2
    <2> QED BY <1>1, <2>1, <2>2
  <1> QED BY <1>1, <1>3 DEF Increasing, p

LEMMA TailIncreasing ==
  ASSUME NEW q \in Seq(1..MaxEvents), q # << >>, Increasing(q)
  PROVE  Increasing(Tail(q)) /\ \A e \in ElementsOf(Tail(q)) : Head(q) < e
  <1> DEFINE p == Tail(q)
  <1>1. /\ Head(q) = q[1] /\ 1 \in DOMAIN q
        /\ \A i \in DOMAIN p : i + 1 \in DOMAIN q /\ p[i] = q[i + 1]
    BY HeadAndTail
  <1>2. \A i \in DOMAIN p : i \in Nat /\ 1 < i + 1
    <2>1. DOMAIN p = 1..Len(p) /\ Len(p) \in Nat
      BY HeadAndTail, SeqElements
    <2> HIDE DEF p
    <2> QED BY <2>1
  <1> HIDE DEF p
  <1>3. Increasing(p)
    BY <1>1, <1>2 DEF Increasing
  <1>4. \A i \in DOMAIN p : q[1] < p[i]
    BY <1>1, <1>2 DEF Increasing
  <1> QED BY <1>1, <1>3, <1>4 DEF ElementsOf, p

-----------------------------------------------------------------------------
(***************************************************************************)
(* Rows numbered without a gap.                                            *)
(***************************************************************************)
NumbersFrom(rs, lo, n) ==
  /\ \A r \in rs : r.seq \in lo..(lo + n - 1)
  /\ \A k \in lo..(lo + n - 1) : \E r \in rs : r.seq = k
  /\ \A q, r \in rs : q.seq = r.seq => q = r

Ascending(s) == \A i, j \in DOMAIN s : i < j => s[i].seq < s[j].seq

\* There are as many as there are numbers, and one order by number.
LEMMA Counting ==
  ASSUME NEW rs \in SUBSET Rows, NEW lo \in Nat, NEW n \in Nat, NumbersFrom(rs, lo, n)
  PROVE  /\ IsFiniteSet(rs) /\ Cardinality(rs) = n
         /\ \E s \in [1..n -> rs] : Ascending(s)
  <1> DEFINE at(k) == CHOOSE r \in rs : r.seq = k
             f == [i \in 1..n |-> at(lo + i - 1)]
  <1>1. \A i \in 1..n : lo + i - 1 \in lo..(lo + n - 1)
    OBVIOUS
  <1>2. \A k \in lo..(lo + n - 1) : at(k) \in rs /\ at(k).seq = k
    BY DEF NumbersFrom
  <1>3. f \in [1..n -> rs] /\ \A i \in 1..n : f[i].seq = lo + i - 1
    BY <1>1, <1>2
  <1>4. \A i, j \in 1..n : f[i] = f[j] => i = j
    BY <1>3
  <1>5. \A r \in rs : \E i \in 1..n : f[i] = r
    <2> TAKE r \in rs
    <2>1. r.seq \in lo..(lo + n - 1)
      BY DEF NumbersFrom
    <2>2. r.seq - lo + 1 \in 1..n /\ lo + (r.seq - lo + 1) - 1 = r.seq
      BY <2>1
    <2>3. f[r.seq - lo + 1].seq = r.seq
      BY <1>3, <2>2
    <2>4. f[r.seq - lo + 1] = r
      BY <1>3, <2>2, <2>3 DEF NumbersFrom
    <2> QED BY <2>2, <2>4
  <1> HIDE DEF f
  <1>6. f \in Bijection(1..n, rs)
    BY <1>3, <1>4, <1>5 DEF Bijection, Injection, Surjection, IsInjective
  <1>7. ExistsBijection(1..n, rs)
    BY <1>6 DEF ExistsBijection
  <1>8. IsFiniteSet(rs)
    BY <1>7, FS_NatBijection
  <1>9. Cardinality(rs) = n
    BY <1>7, FS_CountingElements
  <1>10. Ascending(f)
    BY <1>3 DEF Ascending
  <1> QED BY <1>3, <1>8, <1>9, <1>10

\* ORDER BY seq: all the rows, in ascending order.
LEMMA OrderedRows ==
  ASSUME NEW rs \in SUBSET Rows, NEW lo \in Nat, NEW n \in Nat, NumbersFrom(rs, lo, n)
  PROVE  /\ Ordered(rs) \in Seq(rs)
         /\ ElementsOf(Ordered(rs)) = rs
         /\ Ascending(Ordered(rs))
  <1> DEFINE s == Ordered(rs)
  <1>1. IsFiniteSet(rs) /\ Cardinality(rs) = n /\ \E z \in [1..n -> rs] : Ascending(z)
    BY Counting
  <1>2. s \in [1..n -> rs] /\ Ascending(s)
    BY <1>1 DEF Ordered, Ascending
  <1> HIDE DEF s
  <1>3. s \in Seq(rs)
    BY <1>2
  <1>4. \A i \in 1..n : s[i].seq \in Nat
    BY <1>2 DEF Rows
  <1>5. s \in Injection(1..n, rs)
    <2>1. \A i, j \in 1..n : s[i] = s[j] => i = j
      BY <1>2, <1>4 DEF Ascending
    <2> QED BY <1>2, <2>1 DEF Injection, IsInjective
  <1>6. Cardinality(1..n) = n
    BY FS_Interval
  <1>7. s \in Surjection(1..n, rs)
    BY <1>1, <1>5, <1>6, FS_Injection
  <1>8. ElementsOf(s) = rs
    BY <1>2, <1>7 DEF Surjection, ElementsOf
  <1> QED BY <1>2, <1>3, <1>8 DEF s

\* ListMessages: a run of rows without a gap that starts after the given seq,
\* all that there are when the table is no longer than the limit.
LEMMA ListedRows ==
  ASSUME NEW N \in Nat, rows \in SUBSET Rows, NumbersFrom(rows, 0, N),
         NEW after \in Nat \cup {-1}, after < N
  PROVE  /\ ListMessages(after) \in Seq(rows)
         /\ Ascending(ListMessages(after))
         /\ \A b \in ElementsOf(ListMessages(after)) : b \in rows /\ b.seq > after
         /\ \A b \in ElementsOf(ListMessages(after)), r \in rows :
              after < r.seq /\ r.seq < b.seq => r \in ElementsOf(ListMessages(after))
         /\ N <= ReplayLimit =>
              \A r \in rows : r.seq > after => r \in ElementsOf(ListMessages(after))
  <1> DEFINE newer == {r \in rows : r.seq > after}
             lo == after + 1
             page == {r \in newer : Cardinality({q \in newer : q.seq < r.seq}) < ReplayLimit}
  <1>1. lo \in Nat /\ N - lo \in Nat /\ ReplayLimit \in Nat \ {0}
    BY EventStreamAssumption
  <1>2. \A r \in rows : r.seq \in Nat /\ r.seq < N
    BY DEF NumbersFrom
  <1>3. \A k \in lo..(N - 1) : \E r \in newer : r.seq = k
    BY <1>1 DEF NumbersFrom
  <1>4. ASSUME NEW r \in newer
        PROVE  Cardinality({q \in newer : q.seq < r.seq}) = r.seq - lo
    <2> DEFINE below == {q \in newer : q.seq < r.seq}
    <2>1. r.seq - lo \in Nat /\ below \in SUBSET Rows /\ r.seq <= N - 1
      BY <1>1, <1>2
    <2>2. NumbersFrom(below, lo, r.seq - lo)
      <3>1. \A q \in below : q.seq \in lo..(lo + (r.seq - lo) - 1)
        BY <1>1, <1>2, <2>1
      <3>2. \A k \in lo..(lo + (r.seq - lo) - 1) : \E q \in below : q.seq = k
        <4> TAKE k \in lo..(lo + (r.seq - lo) - 1)
        <4>1. k \in lo..(N - 1) /\ k < r.seq
          BY <1>1, <1>2, <2>1
        <4> QED BY <1>3, <4>1
      <3> QED BY <3>1, <3>2 DEF NumbersFrom
    <2> HIDE DEF below
    <2> QED BY <1>1, <2>1, <2>2, Counting DEF below
  <1>5. page = {r \in newer : r.seq - lo < ReplayLimit}
    BY <1>4
  <1> HIDE DEF page
  <1> DEFINE n == IF N - lo <= ReplayLimit THEN N - lo ELSE ReplayLimit
  <1>6. n \in Nat /\ n <= N - lo /\ n <= ReplayLimit
    BY <1>1
  <1>7. NumbersFrom(page, lo, n)
    <2>1. \A r \in page : r.seq \in lo..(lo + n - 1)
      BY <1>1, <1>2, <1>5
    <2>2. \A k \in lo..(lo + n - 1) : \E r \in page : r.seq = k
      <3> TAKE k \in lo..(lo + n - 1)
      <3>1. k \in lo..(N - 1) /\ k - lo < ReplayLimit
        BY <1>1, <1>6
      <3> QED BY <1>3, <1>5, <3>1
    <2> QED BY <1>5, <2>1, <2>2 DEF NumbersFrom
  <1>8. page \in SUBSET Rows /\ page \subseteq rows
    BY <1>5
  <1>9. ListMessages(after) = Ordered(page)
    BY DEF ListMessages, page
  <1> DEFINE s == Ordered(page)
  <1>10. s \in Seq(page) /\ ElementsOf(s) = page /\ Ascending(s)
    BY <1>1, <1>6, <1>7, <1>8, OrderedRows
  <1> HIDE DEF s
  <1>11. s \in Seq(rows)
    BY <1>8, <1>10, SeqMonotonic
  <1>12. \A b \in page, r \in rows : after < r.seq /\ r.seq < b.seq => r \in page
    BY <1>1, <1>2, <1>5
  <1>13. N <= ReplayLimit => \A r \in rows : r.seq > after => r \in page
    BY <1>1, <1>2, <1>5
  <1>14. \A b \in page : b \in rows /\ b.seq > after
    BY <1>5
  <1> QED BY <1>9, <1>10, <1>11, <1>12, <1>13, <1>14 DEF s

\* The last seq is one less than the number of rows.
LEMMA LastNumber ==
  ASSUME rows \in SUBSET Rows, IsFiniteSet(rows), NumbersFrom(rows, 0, Cardinality(rows))
  PROVE  Cardinality(rows) \in Nat /\ LastSeq = Cardinality(rows) - 1
  <1> DEFINE N == Cardinality(rows)
  <1>1. N \in Nat /\ (N = 0 <=> rows = {})
    BY FS_CardinalityType, FS_EmptySet
  <1>2. CASE rows = {}
    BY <1>1, <1>2 DEF LastSeq
  <1>3. CASE rows # {}
    <2> HIDE DEF N
    <2>1. \A r \in rows : r.seq \in 0..(N - 1)
      BY <1>1 DEF NumbersFrom, N
    <2>2. PICK m \in rows : m.seq = N - 1
      BY <1>1, <1>3 DEF NumbersFrom, N
    <2>3. N - 1 \in {r.seq : r \in rows} /\ \A r \in rows : r.seq <= N - 1
      BY <1>1, <2>1, <2>2
    <2>4. \A k \in {r.seq : r \in rows} : (\A r \in rows : r.seq <= k) => k = N - 1
      BY <1>1, <2>1, <2>2
    <2> QED BY <1>1, <1>3, <2>3, <2>4 DEF LastSeq, N
  <1> QED BY <1>2, <1>3

-----------------------------------------------------------------------------
(***************************************************************************)
(* The types, in parts that are proved one by one.                         *)
(***************************************************************************)
AllSteps == {"idle", "begin", "insert", "range", "pick", "send", "rest.last", "rest.rows"}
              \cup StreamSteps

TableTypes ==
  /\ rows \in SUBSET Rows
  /\ conn \in Threads \cup {None}
  /\ nextSeq \in [Threads -> Nat]

FanTypes ==
  /\ event \in 0..MaxEvents
  /\ left \in SUBSET Clients
  /\ visiting \in Clients \cup {None}

ChanTypes ==
  /\ subs \in SUBSET Clients
  /\ closed \in SUBSET Clients
  /\ queue \in [Clients -> Seq(1..MaxEvents)]
  /\ \A c \in Clients : Len(queue[c]) <= LiveCap
  /\ dropped \in [Clients -> SUBSET (1..MaxEvents)]
  /\ missed \in [Clients -> SUBSET (1..MaxEvents)]

ClientTypes ==
  /\ gone \in SUBSET Clients
  /\ batch \in [Clients -> Seq(Rows)]
  /\ since \in [Clients -> Nat \cup {-1}]
  /\ got \in [Clients -> Seq(1..MaxEvents)]
  /\ requests \in [Clients -> 0..MaxRequests]

StepTypes == pc \in [Threads \cup Clients -> AllSteps]

LEMMA Parts ==
  TypeOK <=> /\ TableTypes /\ FanTypes /\ ChanTypes /\ ClientTypes /\ StepTypes
             /\ panicked \in BOOLEAN
  BY DEF TypeOK, TableTypes, FanTypes, ChanTypes, ClientTypes, StepTypes, AllSteps

LEMMA PartsNext ==
  TypeOK' <=> /\ TableTypes' /\ FanTypes' /\ ChanTypes' /\ ClientTypes' /\ StepTypes'
              /\ panicked' \in BOOLEAN
  BY DEF TypeOK, TableTypes, FanTypes, ChanTypes, ClientTypes, StepTypes, AllSteps

-----------------------------------------------------------------------------
(***************************************************************************)
(* The inductive invariant.                                                *)
(***************************************************************************)

\* Where each thread and handler can be, and what a broadcast works on: it has
\* taken the subscriber it sends to off the map's remaining entries.
StepInv ==
  /\ pc[Drain] \in {"idle", "begin", "insert", "range", "pick", "send"}
  /\ \A t \in Writers : pc[t] \in {"idle", "begin", "insert"}
  /\ \A c \in Clients : pc[c] \in {"idle", "rest.last", "rest.rows"} \cup StreamSteps
  /\ pc[Drain] # "idle" => event \in 1..MaxEvents
  /\ pc[Drain] = "send" => visiting \in Clients \ left

\* The rows are numbered without a gap; a transaction that is about to insert
\* has the connection, and the next number; nobody resumes beyond the table.
TableInv ==
  /\ IsFiniteSet(rows)
  /\ NumbersFrom(rows, 0, Cardinality(rows))
  /\ \A t \in Threads : pc[t] = "insert" => conn = t /\ nextSeq[t] = Cardinality(rows)
  /\ \A c \in Clients : since[c] < Cardinality(rows)

Reads == {"ws.replay", "rest.last", "rest.rows"}

\* Handlers hold rows of the table, and only between loading and sending them.
BatchRows ==
  \A c \in Clients :
    /\ ElementsOf(batch[c]) \subseteq rows
    /\ pc[c] \notin Reads => batch[c] = << >>

IInv == TypeOK /\ StepInv /\ TableInv /\ BatchRows

\* The threads and the clients are apart.
LEMMA Apart ==
  /\ Drain \in Threads /\ Drain \notin Clients /\ Threads = Writers \cup {Drain}
  /\ \A t \in Threads : t \notin Clients /\ t # None
  /\ \A c \in Clients : c # None /\ c # Drain
  /\ Drain \notin Writers
  BY EventStreamAssumption DEF Threads

LEMMA InitIInv == Init => IInv
  <1> SUFFICES ASSUME Init PROVE IInv
    OBVIOUS
  <1> USE DEF Init
  <1>0. /\ LiveCap \in Nat \ {0} /\ MaxEvents \in Nat /\ MaxRequests \in Nat
        /\ \A S : << >> \in Seq(S)
    BY EventStreamAssumption
  <1>1. TableTypes
    BY DEF TableTypes
  <1>2. FanTypes
    BY <1>0 DEF FanTypes
  <1>3. ChanTypes
    BY <1>0, NoElements DEF ChanTypes
  <1>4. ClientTypes
    BY <1>0 DEF ClientTypes, Beginning
  <1>5. StepTypes /\ StepInv
    BY Apart DEF StepTypes, AllSteps, StepInv, Threads
  <1>6. TableInv
    <2>1. IsFiniteSet(rows) /\ Cardinality(rows) = 0 /\ rows = {}
      BY FS_EmptySet
    <2>2. NumbersFrom(rows, 0, Cardinality(rows))
      BY <2>1 DEF NumbersFrom
    <2>3. \A t \in Threads : pc[t] = "idle"
      OBVIOUS
    <2> QED BY <2>1, <2>2, <2>3 DEF TableInv, Beginning
  <1>7. BatchRows
    BY NoElements DEF BatchRows
  <1> QED BY <1>1, <1>2, <1>3, <1>4, <1>5, <1>6, <1>7, Parts DEF IInv

-----------------------------------------------------------------------------
(***************************************************************************)
(* The transactions and the broadcast.                                     *)
(***************************************************************************)

\* The number of rows, of which LastSeq is one less.
LEMMA Numbered ==
  ASSUME IInv
  PROVE  /\ Cardinality(rows) \in Nat /\ LastSeq = Cardinality(rows) - 1
         /\ rows \in SUBSET Rows /\ NumbersFrom(rows, 0, Cardinality(rows))
  BY LastNumber DEF IInv, TypeOK, TableInv

\* A step of a thread that leaves the table alone.
LEMMA ThreadMove ==
  ASSUME IInv, UNCHANGED << rows, gone, clientVars >>,
         \A c \in Clients : pc'[c] = pc[c],
         \A t \in Threads : pc'[t] = "insert" => conn' = t /\ nextSeq'[t] = Cardinality(rows)
  PROVE  ClientTypes' /\ TableInv' /\ BatchRows'
  <1>1. ClientTypes'
    BY Parts DEF IInv, ClientTypes, clientVars
  <1>2. TableInv'
    BY DEF IInv, TableInv, clientVars
  <1>3. BatchRows'
    BY DEF IInv, BatchRows, clientVars
  <1> QED BY <1>1, <1>2, <1>3

LEMMA BeginStep ==
  ASSUME IInv, NEW t \in Threads, TxBegin(t) PROVE IInv'
  <1>1. /\ pc[t] = "begin" /\ pc' = [pc EXCEPT ![t] = "insert"]
        /\ conn = None /\ conn' = t /\ nextSeq' = [nextSeq EXCEPT ![t] = Cardinality(rows)]
        /\ UNCHANGED << rows, fanVars, chanVars, gone, clientVars, panicked >>
    <2>1. LastSeq + 1 = Cardinality(rows)
      BY Numbered
    <2> QED BY <2>1 DEF TxBegin, Goto
  <1>2. TableTypes' /\ StepTypes'
    BY <1>1, Numbered, Parts DEF IInv, TableTypes, StepTypes, AllSteps
  <1>3. FanTypes' /\ ChanTypes' /\ panicked' \in BOOLEAN
    BY <1>1, Parts DEF IInv, FanTypes, ChanTypes, fanVars, chanVars
  <1>4. ClientTypes' /\ TableInv' /\ BatchRows'
    <2>1. \A c \in Clients : pc'[c] = pc[c]
      BY <1>1, Apart DEF IInv, TypeOK
    <2>2. \A u \in Threads : pc'[u] = "insert" => u = t
      BY <1>1, Apart DEF IInv, TypeOK, TableInv
    <2>3. nextSeq'[t] = Cardinality(rows)
      BY <1>1 DEF IInv, TypeOK
    <2> QED BY <1>1, <2>1, <2>2, <2>3, ThreadMove
  <1>5. StepInv'
    BY <1>1, Apart DEF IInv, StepInv, TypeOK, fanVars
  <1> QED BY <1>2, <1>3, <1>4, <1>5, PartsNext DEF IInv

LEMMA InsertStep ==
  ASSUME IInv, NEW t \in Threads, TxInsert(t) PROVE IInv'
  <1> DEFINE N == Cardinality(rows)
             new == [seq |-> nextSeq[t], ev |-> IF t = Drain THEN event ELSE 0]
             next == IF t = Drain THEN "range" ELSE "idle"
  <1>1. /\ pc[t] = "insert" /\ pc' = [pc EXCEPT ![t] = next]
        /\ rows' = rows \cup {new} /\ conn' = None
        /\ UNCHANGED << nextSeq, fanVars, chanVars, gone, clientVars, panicked >>
    BY DEF TxInsert, Goto
  <1>2. N \in Nat /\ nextSeq[t] = N /\ new.seq = N /\ new \in Rows
    BY <1>1, Numbered, EventStreamAssumption DEF IInv, TypeOK, TableInv, Rows
  <1> HIDE DEF new
  <1>3. IsFiniteSet(rows') /\ Cardinality(rows') = N + 1
    <2>1. new \notin rows
      BY <1>2, Numbered DEF NumbersFrom
    <2> QED BY <1>1, <2>1, FS_AddElement DEF IInv, TableInv
  <1>4. NumbersFrom(rows', 0, N + 1)
    <2>1. \A r \in rows : r.seq \in 0..(N - 1)
      BY <1>2, Numbered DEF NumbersFrom
    <2>2. \A r \in rows' : r.seq \in 0..(0 + (N + 1) - 1)
      BY <1>1, <1>2, <2>1
    <2>3. \A k \in 0..(0 + (N + 1) - 1) : \E r \in rows' : r.seq = k
      <3>1. \A k \in 0..(N - 1) : \E r \in rows : r.seq = k
        BY <1>2, Numbered DEF NumbersFrom
      <3> QED BY <1>1, <1>2, <3>1
    <2>4. \A q, r \in rows' : q.seq = r.seq => q = r
      BY <1>1, <1>2, <2>1, Numbered DEF NumbersFrom
    <2> QED BY <2>2, <2>3, <2>4 DEF NumbersFrom
  <1>5. TableTypes' /\ StepTypes'
    BY <1>1, <1>2, Parts DEF IInv, TableTypes, StepTypes, AllSteps
  <1>6. FanTypes' /\ ChanTypes' /\ ClientTypes' /\ panicked' \in BOOLEAN
    BY <1>1, Parts DEF IInv, FanTypes, ChanTypes, ClientTypes, fanVars, chanVars, clientVars
  <1>7. \A c \in Clients : pc'[c] = pc[c]
    BY <1>1, Apart DEF IInv, TypeOK
  <1>8. TableInv'
    <2>1. \A u \in Threads : pc'[u] # "insert"
      BY <1>1, Apart DEF IInv, TypeOK, TableInv
    <2>2. \A c \in Clients : since'[c] < N + 1
      <3>1. since' = since /\ \A c \in Clients : since[c] \in Nat \cup {-1}
        BY <1>1 DEF IInv, TypeOK, clientVars
      <3>2. \A c \in Clients : since[c] < N
        BY DEF IInv, TableInv
      <3> HIDE DEF N
      <3> QED BY <1>2, <3>1, <3>2
    <2> QED BY <1>3, <1>4, <2>1, <2>2 DEF TableInv
  <1>9. BatchRows'
    BY <1>1, <1>7 DEF IInv, BatchRows, clientVars
  <1>10. StepInv'
    BY <1>1, Apart DEF IInv, StepInv, TypeOK, fanVars
  <1> QED BY <1>5, <1>6, <1>8, <1>9, <1>10, PartsNext DEF IInv

LEMMA DrainStep ==
  ASSUME IInv,
         \/ DrainTake \/ DrainNotPersisted \/ BroadcastRange \/ BroadcastPick
         \/ \E t \in Writers : Write(t)
  PROVE  IInv'
  <1>1. /\ UNCHANGED << tableVars, chanVars, gone, clientVars, panicked >>
        /\ \A c \in Clients : pc'[c] = pc[c]
        /\ \A t \in Threads : pc'[t] = "insert" => pc[t] = "insert"
    BY Apart DEF DrainTake, DrainNotPersisted, BroadcastRange, BroadcastPick, Write, Goto,
                 IInv, TypeOK
  <1>2. TableTypes' /\ ChanTypes' /\ panicked' \in BOOLEAN
    BY <1>1, Parts DEF IInv, TableTypes, ChanTypes, tableVars, chanVars
  <1>3. ClientTypes' /\ TableInv' /\ BatchRows'
    BY <1>1, ThreadMove DEF tableVars, IInv, TableInv
  <1>4. StepTypes'
    BY Apart, Parts DEF DrainTake, DrainNotPersisted, BroadcastRange, BroadcastPick, Write, Goto,
                        IInv, StepTypes, AllSteps
  <1>5. FanTypes' /\ StepInv'
    <2> USE Apart, Parts DEF IInv, FanTypes, StepInv, StepTypes, Goto, fanVars, chanVars
    <2>1. CASE DrainTake
      BY <2>1, EventStreamAssumption DEF DrainTake
    <2>2. CASE DrainNotPersisted
      BY <2>2 DEF DrainNotPersisted
    <2>3. CASE BroadcastRange
      <3>1. subs \in SUBSET Clients
        BY DEF ChanTypes
      <3> QED BY <2>3, <3>1 DEF BroadcastRange
    <2>4. CASE BroadcastPick
      BY <2>4 DEF BroadcastPick
    <2>5. ASSUME NEW t \in Writers, Write(t) PROVE FanTypes' /\ StepInv'
      BY <2>5 DEF Write
    <2> QED BY <2>1, <2>2, <2>3, <2>4, <2>5
  <1> QED BY <1>2, <1>3, <1>4, <1>5, PartsNext DEF IInv

\* A send to a channel that is open puts the event into it, or drops it.
LEMMA SendStep == ASSUME IInv, BroadcastSend PROVE IInv'
  <1>1. /\ pc[Drain] = "send" /\ visiting \in Clients /\ event \in 1..MaxEvents
        /\ UNCHANGED << tableVars, fanVars, subs, closed, gone, clientVars >>
        /\ pc' = pc \/ pc' = [pc EXCEPT ![Drain] = "pick"]
        /\ panicked' \in BOOLEAN
    BY DEF BroadcastSend, Goto, IInv, StepInv, TypeOK
  <1>2. ChanTypes'
    <2> DEFINE q == queue[visiting]
    <2>1. q \in Seq(1..MaxEvents) /\ Len(q) <= LiveCap /\ LiveCap \in Nat
      BY <1>1, EventStreamAssumption DEF IInv, TypeOK
    <2>2. CASE queue' = queue
      <3>1. /\ dropped' = dropped \/ dropped' = [dropped EXCEPT ![visiting] = @ \cup {event}]
            /\ missed' = missed \/ missed' = [missed EXCEPT ![visiting] = @ \cup {event}]
        BY <2>2 DEF BroadcastSend
      <3>2. dropped' \in [Clients -> SUBSET (1..MaxEvents)]
        <4>1. dropped \in [Clients -> SUBSET (1..MaxEvents)]
          BY DEF IInv, TypeOK
        <4> QED BY <1>1, <3>1, <4>1
      <3>3. missed' \in [Clients -> SUBSET (1..MaxEvents)]
        <4>1. missed \in [Clients -> SUBSET (1..MaxEvents)]
          BY DEF IInv, TypeOK
        <4> QED BY <1>1, <3>1, <4>1
      <3> QED BY <1>1, <2>2, <3>2, <3>3, Parts DEF IInv, ChanTypes
    <2>3. CASE /\ Len(q) < LiveCap /\ queue' = [queue EXCEPT ![visiting] = Append(q, event)]
               /\ UNCHANGED << dropped, missed >>
      <3>1. Append(q, event) \in Seq(1..MaxEvents) /\ Len(Append(q, event)) <= LiveCap
        <4>1. Append(q, event) \in Seq(1..MaxEvents) /\ Len(Append(q, event)) = Len(q) + 1
          BY <1>1, <2>1, AppendElements
        <4>2. Len(q) \in Nat
          BY <2>1, SeqElements
        <4> QED BY <2>1, <2>3, <4>1, <4>2
      <3>2. /\ queue' \in [Clients -> Seq(1..MaxEvents)]
            /\ \A c \in Clients : queue'[c] = IF c = visiting THEN Append(q, event) ELSE queue[c]
        BY <1>1, <2>3, <3>1 DEF IInv, TypeOK
      <3> QED BY <1>1, <2>3, <3>1, <3>2, Parts DEF IInv, ChanTypes
    <2>4. \/ queue' = queue
          \/ /\ Len(q) < LiveCap /\ queue' = [queue EXCEPT ![visiting] = Append(@, event)]
             /\ UNCHANGED << dropped, missed >>
      BY DEF BroadcastSend
    <2> QED BY <2>2, <2>3, <2>4
  <1>3. ClientTypes' /\ TableInv' /\ BatchRows'
    <2>1. /\ \A c \in Clients : pc'[c] = pc[c]
          /\ \A t \in Threads : pc'[t] = "insert" => pc[t] = "insert"
      BY <1>1, Apart DEF IInv, TypeOK
    <2> QED BY <1>1, <2>1, ThreadMove DEF tableVars, IInv, TableInv
  <1>4. TableTypes' /\ FanTypes' /\ StepTypes'
    BY <1>1, Apart, Parts DEF IInv, TableTypes, FanTypes, StepTypes, AllSteps, tableVars, fanVars
  <1>5. StepInv'
    BY <1>1, Apart DEF IInv, StepInv, TypeOK, fanVars
  <1> QED BY <1>1, <1>2, <1>3, <1>4, <1>5, PartsNext DEF IInv

-----------------------------------------------------------------------------
(***************************************************************************)
(* The handlers of a client.                                               *)
(***************************************************************************)

\* A step of a handler: the table is left alone, only the handler moves.
ClientMove(c) ==
  /\ UNCHANGED << tableVars, event, visiting >>
  /\ left' \in {left, left \ {c}}
  /\ pc' = pc \/ \E q \in {"idle", "rest.last", "rest.rows"} \cup StreamSteps :
                   pc' = [pc EXCEPT ![c] = q]
  /\ panicked' \in BOOLEAN

LEMMA ClientFrame ==
  ASSUME IInv, NEW c \in Clients, ClientMove(c), ChanTypes', ClientTypes',
         \A d \in Clients : since'[d] < Cardinality(rows),
         BatchRows'
  PROVE  IInv'
  <1>1. TableTypes' /\ FanTypes' /\ StepTypes'
    <2>1. TableTypes' /\ FanTypes'
      BY Parts DEF IInv, ClientMove, tableVars, TableTypes, FanTypes
    <2>2. pc' \in [Threads \cup Clients -> AllSteps]
      BY Parts DEF IInv, ClientMove, StepTypes, AllSteps
    <2> QED BY <2>1, <2>2 DEF StepTypes
  <1>2. /\ \A t \in Threads : pc'[t] = pc[t]
        /\ \A d \in Clients : d # c => pc'[d] = pc[d]
        /\ pc'[c] \in {"idle", "rest.last", "rest.rows"} \cup StreamSteps
    BY Apart DEF IInv, TypeOK, StepInv, ClientMove
  <1>3. TableInv'
    BY <1>2 DEF IInv, TableInv, ClientMove, tableVars
  <1>4. StepInv'
    <2>1. /\ pc'[Drain] = pc[Drain] /\ \A t \in Writers : pc'[t] = pc[t]
          /\ visiting' = visiting /\ event' = event /\ left' \subseteq left
      BY <1>2, Apart DEF ClientMove
    <2> QED BY <1>2, <2>1 DEF IInv, StepInv
  <1> QED BY <1>1, <1>3, <1>4, PartsNext DEF IInv, ClientMove

\* A step of a handler that neither loads nor sends a row.
LEMMA QuietStep ==
  ASSUME IInv, NEW c \in Clients, ClientMove(c), ChanTypes', ClientTypes',
         UNCHANGED << batch, since >>,
         pc[c] \in Reads => batch[c] = << >> \/ pc'[c] \in Reads
  PROVE  IInv'
  <1>1. \A d \in Clients : since'[d] < Cardinality(rows)
    BY DEF IInv, TableInv
  <1>2. BatchRows'
    <2>1. \A d \in Clients : d # c => pc'[d] = pc[d]
      BY DEF ClientMove, IInv, TypeOK
    <2>2. UNCHANGED rows
      BY DEF ClientMove, tableVars
    <2> QED BY <2>1, <2>2 DEF IInv, BatchRows
  <1> QED BY <1>1, <1>2, ClientFrame

\* Receiving an event appends it, at most.
LEMMA ReceiveEffect ==
  ASSUME IInv, NEW c \in Clients, NEW e \in 0..MaxEvents, Receive(c, e)
  PROVE  /\ got' \in [Clients -> Seq(1..MaxEvents)]
         /\ \A d \in Clients : d # c => got'[d] = got[d]
         /\ \/ got'[c] = got[c] /\ (e = 0 \/ e \in ElementsOf(got[c]))
            \/ e # 0 /\ e \notin ElementsOf(got[c]) /\ got'[c] = Append(got[c], e)
  <1>1. got \in [Clients -> Seq(1..MaxEvents)]
    BY DEF IInv, TypeOK
  <1>2. CASE got' = got /\ (e = 0 \/ e \in ElementsOf(got[c]))
    BY <1>1, <1>2
  <1>3. CASE e # 0 /\ e \notin ElementsOf(got[c]) /\ got' = [got EXCEPT ![c] = Append(@, e)]
    <2>1. e \in 1..MaxEvents
      BY <1>3, EventStreamAssumption
    <2>2. Append(got[c], e) \in Seq(1..MaxEvents)
      BY <1>1, <2>1, AppendElements
    <2> QED BY <1>1, <1>3, <2>2
  <1> QED BY <1>2, <1>3 DEF Receive

\* Loading the rows after the last one the client has.
LEMMA LoadStep ==
  ASSUME IInv, NEW c \in Clients, NEW q \in Reads, ClientMove(c), ChanTypes',
         pc' = [pc EXCEPT ![c] = q],
         batch' = [batch EXCEPT ![c] = ListMessages(since[c])],
         UNCHANGED << gone, since, got >>, requests' \in [Clients -> 0..MaxRequests]
  PROVE  IInv'
  <1>1. ListMessages(since[c]) \in Seq(rows) /\ ElementsOf(ListMessages(since[c])) \subseteq rows
    BY Numbered, ListedRows DEF IInv, TypeOK, TableInv
  <1>2. ListMessages(since[c]) \in Seq(Rows)
    BY <1>1, Numbered, SeqMonotonic
  <1>3. \A d \in Clients : since'[d] < Cardinality(rows)
    BY DEF IInv, TableInv
  <1>4. BatchRows'
    <2>1. \A d \in Clients : d # c => pc'[d] = pc[d] /\ batch'[d] = batch[d]
      BY DEF IInv, TypeOK
    <2>2. pc'[c] \in Reads /\ batch'[c] = ListMessages(since[c]) /\ rows' = rows
      BY DEF IInv, TypeOK, ClientMove, tableVars
    <2> QED BY <1>1, <2>1, <2>2 DEF IInv, BatchRows
  <1>5. ClientTypes'
    BY <1>2, Parts DEF IInv, ClientTypes
  <1> QED BY <1>3, <1>4, <1>5, ClientFrame

\* Sending the first of the rows that are loaded.
LEMMA TakeStep ==
  ASSUME IInv, NEW c \in Clients, ClientMove(c), ChanTypes', batch[c] # << >>, pc' = pc,
         Receive(c, Head(batch[c]).ev), batch' = [batch EXCEPT ![c] = Tail(@)],
         since' \in {since, [since EXCEPT ![c] = Head(batch[c]).seq]},
         UNCHANGED << gone, requests >>
  PROVE  IInv'
  <1>1. batch[c] \in Seq(Rows) /\ ElementsOf(batch[c]) \subseteq rows
    BY DEF IInv, TypeOK, BatchRows
  <1>2. /\ Head(batch[c]) \in rows /\ Head(batch[c]) \in Rows /\ Tail(batch[c]) \in Seq(Rows)
        /\ ElementsOf(Tail(batch[c])) \subseteq rows
    BY <1>1, HeadAndTail
  <1>3. Head(batch[c]).ev \in 0..MaxEvents /\ Head(batch[c]).seq \in Nat
    BY <1>2 DEF Rows
  <1>4. got' \in [Clients -> Seq(1..MaxEvents)]
    BY <1>3, ReceiveEffect
  <1>5. since' \in [Clients -> Nat \cup {-1}]
    BY <1>3 DEF IInv, TypeOK
  <1>6. batch' \in [Clients -> Seq(Rows)]
    BY <1>2 DEF IInv, TypeOK
  <1>7. ClientTypes'
    BY <1>4, <1>5, <1>6, Parts DEF IInv, ClientTypes
  <1>8. \A d \in Clients : since'[d] < Cardinality(rows)
    <2>1. Head(batch[c]).seq < Cardinality(rows)
      BY <1>2, Numbered DEF NumbersFrom
    <2> QED BY <2>1 DEF IInv, TypeOK, TableInv
  <1>9. BatchRows'
    <2>1. /\ batch'[c] = Tail(batch[c]) /\ rows' = rows
          /\ \A d \in Clients : d # c => batch'[d] = batch[d]
      BY DEF IInv, TypeOK, ClientMove, tableVars
    <2>2. pc[c] \in Reads
      BY DEF IInv, BatchRows
    <2> QED BY <1>2, <2>1, <2>2 DEF IInv, BatchRows
  <1> QED BY <1>7, <1>8, <1>9, ClientFrame

LEMMA StreamStep == ASSUME IInv, NEW c \in Clients, Stream(c) PROVE IInv'
  <1> USE DEF Goto
  <1>1. /\ ChanTypes /\ ClientTypes /\ StepTypes /\ panicked \in BOOLEAN
        /\ LiveCap \in Nat
    BY Parts, EventStreamAssumption DEF IInv
  <1>2. ASSUME UNCHANGED chanVars PROVE ChanTypes'
    BY <1>1, <1>2 DEF ChanTypes, chanVars
  <1>3. ASSUME UNCHANGED clientVars, gone' \in SUBSET Clients PROVE ClientTypes'
    BY <1>1, <1>3 DEF ClientTypes, clientVars
  <1>4. CASE Connect(c)
    <2>1. ClientMove(c)
      BY <1>1, <1>4 DEF Connect, ClientMove, fanVars, StreamSteps
    <2>2. ClientTypes'
      <3>1. requests' \in [Clients -> 0..MaxRequests]
        BY <1>1, <1>4, EventStreamAssumption DEF Connect, ClientTypes
      <3> QED BY <1>1, <1>4, <3>1 DEF Connect, ClientTypes
    <2> QED BY <1>2, <1>4, <2>1, <2>2, QuietStep DEF Connect, Reads
  <1>5. CASE Leave(c)
    <2>1. ClientMove(c) /\ gone' \in SUBSET Clients
      BY <1>1, <1>5 DEF Leave, ClientMove, fanVars, ClientTypes
    <2> QED BY <1>2, <1>3, <1>5, <2>1, QuietStep DEF Leave, clientVars
  <1>6. CASE Subscribe(c)
    <2>1. ClientMove(c)
      BY <1>1, <1>6 DEF Subscribe, ClientMove, MapRace, fanVars, StreamSteps
    <2>2. ChanTypes'
      <3>1. /\ queue' = [queue EXCEPT ![c] = << >>] /\ dropped' = [dropped EXCEPT ![c] = {}]
            /\ subs' \in SUBSET Clients /\ closed' \in SUBSET Clients /\ missed' = missed
        BY <1>1, <1>6 DEF Subscribe, ChanTypes
      <3>2. /\ queue' \in [Clients -> Seq(1..MaxEvents)]
            /\ \A d \in Clients : queue'[d] = IF d = c THEN << >> ELSE queue[d]
        BY <1>1, <3>1 DEF ChanTypes
      <3>3. \A d \in Clients : Len(queue'[d]) <= LiveCap
        BY <1>1, <3>2, NoElements DEF ChanTypes
      <3>4. dropped' \in [Clients -> SUBSET (1..MaxEvents)]
        BY <1>1, <3>1 DEF ChanTypes
      <3> QED BY <1>1, <3>1, <3>2, <3>3, <3>4 DEF ChanTypes
    <2>3. ClientTypes'
      BY <1>1, <1>3, <1>6 DEF Subscribe, ClientTypes
    <2> QED BY <1>6, <2>1, <2>2, <2>3, QuietStep DEF Subscribe, clientVars, Reads
  <1>7. CASE ReplayList(c)
    <2>1. ClientMove(c)
      BY <1>1, <1>7 DEF ReplayList, ClientMove, fanVars, StreamSteps
    <2>2. CASE pc' = [pc EXCEPT ![c] = "ws.unsub"] /\ UNCHANGED batch
      <3>1. ClientTypes'
        BY <1>1, <1>3, <1>7, <2>2 DEF ReplayList, ClientTypes, clientVars
      <3> QED BY <1>2, <1>7, <2>1, <2>2, <3>1, QuietStep DEF ReplayList, Reads
    <2>3. CASE /\ batch' = [batch EXCEPT ![c] = ListMessages(since[c])]
               /\ pc' = [pc EXCEPT ![c] = "ws.replay"]
      BY <1>1, <1>2, <1>7, <2>1, <2>3, LoadStep DEF ReplayList, Reads, ClientTypes
    <2> QED BY <1>7, <2>2, <2>3 DEF ReplayList
  <1>8. CASE ReplaySend(c)
    <2>1. ClientMove(c) /\ ChanTypes'
      BY <1>1, <1>2, <1>8 DEF ReplaySend, ClientMove, fanVars, StreamSteps
    <2>2. CASE batch[c] = << >>
      <3>1. ClientTypes' /\ UNCHANGED << batch, since >>
        BY <1>1, <1>3, <1>8, <2>2 DEF ReplaySend, ClientTypes, clientVars
      <3> QED BY <2>1, <2>2, <3>1, QuietStep
    <2>3. CASE batch[c] # << >> /\ c \in gone
      <3>1. /\ batch' = [batch EXCEPT ![c] = << >>] /\ pc' = [pc EXCEPT ![c] = "ws.unsub"]
            /\ UNCHANGED << gone, since, got, requests >>
        BY <1>8, <2>3 DEF ReplaySend
      <3>2. ClientTypes'
        BY <1>1, <3>1 DEF ClientTypes
      <3>3. \A d \in Clients : since'[d] < Cardinality(rows)
        BY <3>1 DEF IInv, TableInv
      <3>4. BatchRows'
        <4>1. /\ batch'[c] = << >> /\ rows' = rows
              /\ \A d \in Clients : d # c => batch'[d] = batch[d] /\ pc'[d] = pc[d]
          BY <1>1, <2>1, <3>1 DEF ClientTypes, StepTypes, ClientMove, tableVars
        <4> QED BY <4>1, NoElements DEF IInv, BatchRows
      <3> QED BY <2>1, <3>2, <3>3, <3>4, ClientFrame
    <2>4. CASE batch[c] # << >> /\ c \notin gone
      BY <1>8, <2>1, <2>4, TakeStep DEF ReplaySend
    <2> QED BY <2>2, <2>3, <2>4
  <1>9. CASE LiveSend(c)
    <2>1. ClientMove(c)
      BY <1>1, <1>9 DEF LiveSend, ClientMove, fanVars, StreamSteps
    <2>2. queue[c] \in Seq(1..MaxEvents) /\ queue[c] # << >>
      BY <1>1, <1>9 DEF LiveSend, ChanTypes
    <2>3. /\ Head(queue[c]) \in 1..MaxEvents /\ Tail(queue[c]) \in Seq(1..MaxEvents)
          /\ Len(Tail(queue[c])) = Len(queue[c]) - 1 /\ Len(queue[c]) \in Nat
      BY <2>2, HeadAndTail, SeqElements
    <2>4. ChanTypes'
      <3>1. queue' = [queue EXCEPT ![c] = Tail(queue[c])]
        BY <1>9 DEF LiveSend
      <3>2. /\ queue' \in [Clients -> Seq(1..MaxEvents)]
            /\ \A d \in Clients : queue'[d] = IF d = c THEN Tail(queue[c]) ELSE queue[d]
        BY <1>1, <2>3, <3>1 DEF ChanTypes
      <3>3. \A d \in Clients : Len(queue'[d]) <= LiveCap
        BY <1>1, <2>3, <3>2 DEF ChanTypes
      <3> QED BY <1>1, <1>9, <3>2, <3>3 DEF LiveSend, ChanTypes
    <2>5. got' \in [Clients -> Seq(1..MaxEvents)]
      <3>1. Head(queue[c]) \in 0..MaxEvents
        BY <2>3
      <3>2. got' = got \/ Receive(c, Head(queue[c]))
        BY <1>9 DEF LiveSend
      <3> QED BY <1>1, <3>1, <3>2, ReceiveEffect DEF ClientTypes
    <2>6. ClientTypes'
      BY <1>1, <1>9, <2>5 DEF LiveSend, ClientTypes
    <2> QED BY <1>9, <2>1, <2>4, <2>6, QuietStep DEF LiveSend, Reads
  <1>10. CASE LiveDone(c)
    <2>1. ClientMove(c)
      BY <1>1, <1>10 DEF LiveDone, ClientMove, fanVars, StreamSteps
    <2>2. ClientTypes'
      BY <1>1, <1>3, <1>10 DEF LiveDone, ClientTypes
    <2> QED BY <1>2, <1>10, <2>1, <2>2, QuietStep DEF LiveDone, clientVars, Reads
  <1>11. CASE Unsubscribe(c)
    <2>1. ClientMove(c)
      BY <1>1, <1>11 DEF Unsubscribe, ClientMove, MapRace, StreamSteps
    <2>2. ClientTypes'
      BY <1>1, <1>3, <1>11 DEF Unsubscribe, ClientTypes
    <2>3. ChanTypes'
      BY <1>1, <1>11 DEF Unsubscribe, ChanTypes
    <2> QED BY <1>11, <2>1, <2>2, <2>3, QuietStep DEF Unsubscribe, clientVars, Reads
  <1>12. CASE CloseChannel(c)
    <2>1. ClientMove(c)
      BY <1>1, <1>12 DEF CloseChannel, ClientMove, fanVars
    <2>2. ClientTypes'
      BY <1>1, <1>3, <1>12 DEF CloseChannel, ClientTypes
    <2>3. ChanTypes'
      BY <1>1, <1>12 DEF CloseChannel, ChanTypes
    <2> QED BY <1>12, <2>1, <2>2, <2>3, QuietStep DEF CloseChannel, clientVars, Reads
  <1> QED BY <1>4, <1>5, <1>6, <1>7, <1>8, <1>9, <1>10, <1>11, <1>12 DEF Stream

LEMMA RestStep == ASSUME IInv, NEW c \in Clients, Rest(c) PROVE IInv'
  <1> USE DEF Goto
  <1>1. ChanTypes /\ ClientTypes /\ StepTypes /\ panicked \in BOOLEAN
    BY Parts DEF IInv
  <1>2. UNCHANGED chanVars /\ ClientMove(c)
    BY <1>1 DEF Rest, RestList, RestLast, RestTake, ClientMove, fanVars
  <1>3. ChanTypes'
    BY <1>1, <1>2 DEF ChanTypes, chanVars
  <1>4. CASE RestList(c)
    <2>1. requests' \in [Clients -> 0..MaxRequests]
      BY <1>1, <1>4, EventStreamAssumption DEF RestList, ClientTypes
    <2> QED BY <1>2, <1>3, <1>4, <2>1, LoadStep DEF RestList, Reads
  <1>5. CASE RestLast(c)
    <2> DEFINE N == Cardinality(rows)
    <2>1. N \in Nat /\ LastSeq = N - 1
      BY Numbered
    <2>2. since' \in [Clients -> Nat \cup {-1}] /\ \A d \in Clients : since'[d] < N
      <3>1. LastSeq \in Nat \cup {-1} /\ LastSeq < N
        BY <2>1
      <3>2. since \in [Clients -> Nat \cup {-1}] /\ \A d \in Clients : since[d] < N
        BY DEF IInv, TypeOK, TableInv
      <3>3. since' = [since EXCEPT ![c] = LastSeq] \/ since' = since
        <4>1. since' = [since EXCEPT ![c] = IF ResumeFrom = "last_seq" THEN LastSeq ELSE since[c]]
          BY <1>5 DEF RestLast
        <4> QED BY <3>2, <4>1
      <3> HIDE DEF N
      <3> QED BY <3>1, <3>2, <3>3
    <2>3. ClientTypes'
      BY <1>1, <1>5, <2>2 DEF RestLast, ClientTypes
    <2>4. BatchRows'
      <3>1. /\ pc[c] = "rest.last" /\ pc'[c] = "rest.rows" /\ UNCHANGED << batch, rows >>
            /\ \A d \in Clients : d # c => pc'[d] = pc[d]
        BY <1>1, <1>5 DEF RestLast, StepTypes, tableVars
      <3> QED BY <3>1 DEF IInv, BatchRows, Reads
    <2> QED BY <1>2, <1>3, <2>2, <2>3, <2>4, ClientFrame
  <1>6. CASE RestTake(c) /\ batch[c] = << >>
    <2>1. UNCHANGED << batch, since, got, gone, requests >>
      BY <1>6 DEF RestTake
    <2> QED BY <1>1, <1>2, <1>3, <1>6, <2>1, QuietStep DEF ClientTypes
  <1>7. CASE RestTake(c) /\ batch[c] # << >>
    <2>1. since' \in {since, [since EXCEPT ![c] = Head(batch[c]).seq]}
      <3>1. since' = [since EXCEPT ![c] = IF ResumeFrom = "last_seq" THEN since[c]
                                          ELSE Head(batch[c]).seq]
        BY <1>7 DEF RestTake
      <3> QED BY <1>1, <3>1 DEF ClientTypes
    <2> QED BY <1>2, <1>3, <1>7, <2>1, TakeStep DEF RestTake
  <1> QED BY <1>4, <1>5, <1>6, <1>7 DEF Rest

LEMMA StutterStep == ASSUME IInv, UNCHANGED vars PROVE IInv'
  <1>1. TableTypes' /\ FanTypes' /\ ChanTypes' /\ ClientTypes' /\ StepTypes' /\ panicked' \in BOOLEAN
    BY Parts DEF IInv, vars, tableVars, fanVars, chanVars, clientVars, TableTypes, FanTypes,
                 ChanTypes, ClientTypes, StepTypes
  <1>2. StepInv' /\ TableInv' /\ BatchRows'
    BY DEF IInv, vars, tableVars, fanVars, clientVars, StepInv, TableInv, BatchRows
  <1> QED BY <1>1, <1>2, PartsNext DEF IInv

LEMMA NextStep == ASSUME IInv, [Next]_vars PROVE IInv'
  BY Apart, BeginStep, InsertStep, DrainStep, SendStep, StreamStep, RestStep, StutterStep
  DEF Next, HandleEvent, CreateMessage

\* Every state of the stream satisfies the invariant, whatever the channels drop
\* and wherever clients resume.
THEOREM StreamInvariance == Spec => []IInv
  BY InitIInv, NextStep, PTL DEF Spec

\* Every variable keeps its type; no channel holds more than its capacity.
THEOREM StreamTypes == Spec => []TypeOK
  <1>1. IInv => TypeOK
    BY DEF IInv
  <1> QED BY <1>1, StreamInvariance, PTL

\* However many writers persist messages while the agent works, each message of
\* a workspace gets a number of its own, and none is left out.
THEOREM NumbersHaveNoGap == Spec => []SeqGapFree
  <1>1. ASSUME IInv PROVE SeqGapFree
    <2> DEFINE N == Cardinality(rows)
    <2>1. N \in Nat /\ NumbersFrom(rows, 0, N)
      BY <1>1, Numbered
    <2>2. {r.seq : r \in rows} = 0..(N - 1)
      <3> HIDE DEF N
      <3> QED BY <2>1 DEF NumbersFrom
    <2> QED BY <2>1, <2>2 DEF NumbersFrom, SeqGapFree
  <1> QED BY <1>1, StreamInvariance, PTL

-----------------------------------------------------------------------------
(***************************************************************************)
(* What a client can rely on when it resumes after the last row it has and *)
(* the transcript fits in one replay.                                      *)
(***************************************************************************)
Fits == Cardinality(rows) <= ReplayLimit

\* The event the drain has taken is still to be written.
Unwritten == pc[Drain] \in {"begin", "insert"}

\* The events are written in the order the agent emits them.
RowsInv ==
  /\ \A r \in rows : r.ev <= event /\ (Unwritten => r.ev < event)
  /\ \A q, r \in rows : q.ev # 0 /\ r.ev # 0 /\ q.seq < r.seq => q.ev < r.ev

\* A client has got no event ahead of its row.
GotInv(c) ==
  \A e \in ElementsOf(got[c]) : e <= event /\ (Unwritten => e < event)

\* A channel holds events in order, the current one only after its send.
QueueInv(c) ==
  /\ \A e \in ElementsOf(queue[c]) :
       e <= event /\ (Unwritten \/ OnItsWay(c) # {} => e < event)
  /\ \A i, j \in DOMAIN queue[c] : i < j => queue[c][i] < queue[c][j]

\* A handler lists after it has subscribed; the rows it holds follow the last
\* one its client has without a gap.
BatchInv(c) ==
  /\ pc[c] \in {"ws.list", "ws.replay", "ws.live"} => c \in subs
  /\ Ascending(batch[c])
  /\ \A b \in ElementsOf(batch[c]) : b.seq > since[c]
  /\ \A b \in ElementsOf(batch[c]), r \in rows :
       since[c] < r.seq /\ r.seq < b.seq => r \in ElementsOf(batch[c])

\* A client has what is in the rows before the place it resumes from.
SeenInv(c) ==
  \A r \in rows : r.ev # 0 /\ r.seq <= since[c] => r.ev \in ElementsOf(got[c])

\* NoHole, of one client.
HoleInv(c) ==
  pc[c] \in {"ws.replay", "ws.live"} =>
    \A r \in rows : r.ev # 0 =>
      \/ r.ev \in ElementsOf(got[c]) \cup ElementsOf(queue[c]) \cup dropped[c]
                    \cup OnItsWay(c)
      \/ r \in ElementsOf(batch[c])

\* What a client has got is complete up to its latest event, but for what its
\* channel has dropped; so it has got everything else in order.
OrderInv(c) ==
  /\ dropped[c] \subseteq missed[c]
  /\ \A r \in rows, e \in ElementsOf(got[c]) :
       r.ev # 0 /\ r.ev < e => r.ev \in ElementsOf(got[c]) \cup missed[c]
  /\ \A i, j \in DOMAIN got[c] :
       i < j /\ got[c][j] < got[c][i] =>
         got[c][j] \in missed[c] \/ \A r \in rows : r.ev # got[c][j]

ClientInv(c) ==
  /\ GotInv(c) /\ QueueInv(c) /\ BatchInv(c) /\ SeenInv(c) /\ HoleInv(c) /\ OrderInv(c)

StreamInv == RowsInv /\ \A c \in Clients : ClientInv(c)

LEMMA InitStream == Init => StreamInv
  <1> SUFFICES ASSUME Init PROVE StreamInv
    OBVIOUS
  <1>1. RowsInv
    BY DEF Init, RowsInv
  <1>2. ASSUME NEW c \in Clients PROVE ClientInv(c)
    <2>1. pc[c] = "idle" /\ rows = {} /\ queue[c] = << >> /\ batch[c] = << >> /\ got[c] = << >>
          /\ dropped[c] = {}
      BY <1>2 DEF Init
    <2>2. GotInv(c) /\ QueueInv(c) /\ BatchInv(c)
      BY <2>1, NoElements DEF GotInv, QueueInv, BatchInv, Ascending
    <2>3. SeenInv(c) /\ HoleInv(c) /\ OrderInv(c)
      BY <2>1, NoElements DEF SeenInv, HoleInv, OrderInv
    <2> QED BY <2>2, <2>3 DEF ClientInv
  <1> QED BY <1>1, <1>2 DEF StreamInv

-----------------------------------------------------------------------------
(***************************************************************************)
(* Steps in which a client takes no part.                                  *)
(***************************************************************************)

\* Nothing the client has changes.
Still(c) ==
  /\ pc'[c] = pc[c] /\ queue'[c] = queue[c] /\ dropped'[c] = dropped[c]
  /\ missed'[c] = missed[c] /\ batch'[c] = batch[c] /\ since'[c] = since[c]
  /\ got'[c] = got[c]
  /\ c \in subs => c \in subs'

LEMMA StillClient ==
  ASSUME NEW c \in Clients, ClientInv(c), Still(c), UNCHANGED << rows, event >>,
         Unwritten' => Unwritten,
         OnItsWay(c)' # {} => Unwritten \/ OnItsWay(c) # {},
         pc[c] \in {"ws.replay", "ws.live"} => OnItsWay(c) \subseteq OnItsWay(c)'
  PROVE  ClientInv(c)'
  <1>1. GotInv(c)'
    BY DEF ClientInv, GotInv, Still
  <1>2. QueueInv(c)'
    BY DEF ClientInv, QueueInv, Still
  <1>3. BatchInv(c)'
    BY DEF ClientInv, BatchInv, Still, Ascending
  <1>4. SeenInv(c)'
    BY DEF ClientInv, SeenInv, Still
  <1>5. HoleInv(c)'
    BY DEF ClientInv, HoleInv, Still
  <1>6. OrderInv(c)'
    BY DEF ClientInv, OrderInv, Still
  <1> QED BY <1>1, <1>2, <1>3, <1>4, <1>5, <1>6 DEF ClientInv

LEMMA StillRows ==
  ASSUME RowsInv, UNCHANGED << rows, event >>, Unwritten' => Unwritten PROVE RowsInv'
  BY DEF RowsInv

\* A transaction begins, or a writer starts.
LEMMA ThreadStream ==
  ASSUME IInv, StreamInv,
         (\E t \in Threads : TxBegin(t)) \/ (\E t \in Writers : Write(t))
  PROVE  StreamInv'
  <1>1. /\ UNCHANGED << rows, fanVars, chanVars, gone, clientVars >>
        /\ \A c \in Clients : pc'[c] = pc[c]
        /\ \/ pc'[Drain] = pc[Drain]
           \/ pc[Drain] = "begin" /\ pc'[Drain] = "insert"
    BY Apart DEF TxBegin, Write, Goto, tableVars, IInv, TypeOK
  <1>2. Unwritten' <=> Unwritten
    BY <1>1 DEF Unwritten
  <1>3. \A c \in Clients : Still(c) /\ OnItsWay(c)' = OnItsWay(c)
    BY <1>1 DEF Still, OnItsWay, chanVars, clientVars, fanVars
  <1> QED BY <1>1, <1>2, <1>3, StillRows, StillClient DEF StreamInv, fanVars

\* The drain goes on to the broadcast, or from one subscriber to the next.
LEMMA DrainStream ==
  ASSUME IInv, StreamInv, DrainNotPersisted \/ BroadcastRange \/ BroadcastPick
  PROVE  StreamInv'
  <1>1. /\ UNCHANGED << tableVars, event, chanVars, gone, clientVars >>
        /\ \A c \in Clients : pc'[c] = pc[c]
        /\ pc'[Drain] \in {"range", "idle", "pick", "send"}
    BY Apart DEF DrainNotPersisted, BroadcastRange, BroadcastPick, Goto, fanVars, IInv, TypeOK
  <1>2. ~Unwritten'
    BY <1>1 DEF Unwritten
  <1>3. \A c \in Clients : Still(c)
    BY <1>1 DEF Still, chanVars, clientVars
  <1>4. ASSUME NEW c \in Clients
        PROVE  /\ OnItsWay(c)' # {} => Unwritten \/ OnItsWay(c) # {}
               /\ pc[c] \in {"ws.replay", "ws.live"} => OnItsWay(c) \subseteq OnItsWay(c)'
    <2>1. pc[c] \in {"ws.replay", "ws.live"} => c \in subs
      BY DEF StreamInv, ClientInv, BatchInv
    <2>2. CASE DrainNotPersisted
      BY <2>2, Apart DEF DrainNotPersisted, Goto, OnItsWay, Unwritten, IInv, TypeOK
    <2>3. CASE BroadcastRange
      BY <2>1, <2>3, Apart DEF BroadcastRange, Goto, OnItsWay, IInv, TypeOK
    <2>4. CASE BroadcastPick
      BY <2>4, Apart DEF BroadcastPick, Goto, OnItsWay, IInv, TypeOK
    <2> QED BY <2>2, <2>3, <2>4
  <1> QED BY <1>1, <1>2, <1>3, <1>4, StillRows, StillClient DEF StreamInv, tableVars

\* The agent's next event comes after everything there is.
LEMMA TakeStream == ASSUME IInv, StreamInv, DrainTake PROVE StreamInv'
  <1>1. /\ pc[Drain] = "idle" /\ pc'[Drain] = "begin" /\ event' = event + 1 /\ event \in Nat
        /\ \A c \in Clients : pc'[c] = pc[c]
        /\ UNCHANGED << tableVars, left, visiting, chanVars, gone, clientVars >>
    BY Apart, EventStreamAssumption DEF DrainTake, Goto, IInv, TypeOK
  <1>2. RowsInv'
    <2>1. \A r \in rows : r.ev \in Nat /\ r.ev <= event
      BY Numbered, EventStreamAssumption DEF StreamInv, RowsInv, Rows
    <2> QED BY <1>1, <2>1 DEF StreamInv, RowsInv, tableVars
  <1>3. ASSUME NEW c \in Clients PROVE ClientInv(c)'
    <2>1. Still(c) /\ OnItsWay(c)' = {} /\ OnItsWay(c) = {} /\ rows' = rows
      BY <1>1 DEF Still, OnItsWay, chanVars, clientVars, tableVars
    <2>2. /\ ElementsOf(got[c]) \subseteq 1..MaxEvents /\ ElementsOf(queue[c]) \subseteq 1..MaxEvents
          /\ ClientInv(c)
      BY SeqElements DEF IInv, TypeOK, StreamInv
    <2>3. GotInv(c)'
      BY <1>1, <2>1, <2>2 DEF ClientInv, GotInv, Still
    <2>4. QueueInv(c)'
      BY <1>1, <2>1, <2>2 DEF ClientInv, QueueInv, Still
    <2>5. BatchInv(c)' /\ SeenInv(c)'
      BY <2>1, <2>2 DEF ClientInv, BatchInv, SeenInv, Still, Ascending
    <2>6. HoleInv(c)' /\ OrderInv(c)'
      BY <2>1, <2>2 DEF ClientInv, HoleInv, OrderInv, Still
    <2> QED BY <2>3, <2>4, <2>5, <2>6 DEF ClientInv
  <1> QED BY <1>2, <1>3 DEF StreamInv

\* A new row has the last number and, if it is of an event, the last event.
LEMMA InsertStream ==
  ASSUME IInv, StreamInv, NEW t \in Threads, TxInsert(t) PROVE StreamInv'
  <1> DEFINE N == Cardinality(rows)
             new == [seq |-> N, ev |-> IF t = Drain THEN event ELSE 0]
  <1>1. /\ pc[t] = "insert" /\ rows' = rows \cup {new} /\ event' = event
        /\ UNCHANGED << fanVars, chanVars, gone, clientVars >>
        /\ \A c \in Clients : pc'[c] = pc[c]
        /\ t = Drain => pc'[Drain] = "range"
        /\ t # Drain => pc'[Drain] = pc[Drain]
    BY Apart DEF TxInsert, Goto, IInv, TypeOK, TableInv, fanVars
  <1>2. /\ N \in Nat /\ event \in Nat /\ \A r \in rows : r.seq < N /\ r.seq \in Nat /\ r.ev \in Nat
        /\ new.seq = N /\ (t = Drain => new.ev = event) /\ (t # Drain => new.ev = 0)
    <2>1. N \in Nat /\ event \in Nat
      BY Numbered, EventStreamAssumption DEF IInv, TypeOK
    <2>2. \A r \in rows : r.seq \in 0..(0 + N - 1) /\ r.seq \in Nat /\ r.ev \in Nat
      BY Numbered, EventStreamAssumption DEF NumbersFrom, Rows
    <2> HIDE DEF N
    <2>3. \A r \in rows : r.seq < N
      BY <2>1, <2>2
    <2> QED BY <2>1, <2>2, <2>3
  <1> HIDE DEF N, new
  <1>3. (t = Drain => Unwritten /\ ~Unwritten') /\ (t # Drain => (Unwritten' <=> Unwritten))
    BY <1>1 DEF Unwritten
  <1>4. t = Drain => event >= 1
    BY <1>1 DEF IInv, StepInv
  <1>5. RowsInv'
    <2>1. \A r \in rows' : r.ev <= event' /\ (Unwritten' => r.ev < event')
      <3>1. Unwritten => event >= 1
        BY DEF Unwritten, IInv, StepInv
      <3> QED BY <1>1, <1>2, <1>3, <3>1 DEF StreamInv, RowsInv
    <2>2. \A q, r \in rows' : q.ev # 0 /\ r.ev # 0 /\ q.seq < r.seq => q.ev < r.ev
      <3> TAKE q, r \in rows'
      <3>1. CASE q \in rows /\ r \in rows
        BY <3>1 DEF StreamInv, RowsInv
      <3>2. CASE q \in rows /\ r = new
        BY <1>2, <1>3, <3>2 DEF StreamInv, RowsInv
      <3>3. CASE q = new
        BY <1>1, <1>2, <3>3
      <3> QED BY <1>1, <3>1, <3>2, <3>3
    <2> QED BY <2>1, <2>2 DEF RowsInv
  <1>6. ASSUME NEW c \in Clients PROVE ClientInv(c)'
    <2>1. /\ ClientInv(c) /\ Still(c)
          /\ since[c] < N /\ since[c] \in Int
          /\ ElementsOf(batch[c]) \subseteq rows
          /\ ElementsOf(got[c]) \subseteq 1..MaxEvents
      <3>1. ClientInv(c) /\ Still(c)
        BY <1>1 DEF StreamInv, Still, chanVars, clientVars
      <3>2. since[c] < N /\ since[c] \in Int
        BY DEF IInv, TableInv, TypeOK, N
      <3>3. ElementsOf(batch[c]) \subseteq rows /\ got[c] \in Seq(1..MaxEvents)
        BY DEF IInv, BatchRows, TypeOK
      <3> QED BY <3>1, <3>2, <3>3, SeqElements
    <2>2. /\ t = Drain => OnItsWay(c)' = {event}
          /\ t # Drain => OnItsWay(c)' = OnItsWay(c)
          /\ t = Drain => OnItsWay(c) = {}
      BY <1>1 DEF OnItsWay, fanVars
    <2>3. GotInv(c)'
      BY <1>1, <1>3, <2>1 DEF ClientInv, GotInv, Still
    <2>4. QueueInv(c)'
      BY <1>1, <1>3, <2>1, <2>2 DEF ClientInv, QueueInv, Still
    <2>5. BatchInv(c)'
      <3>1. \A b \in ElementsOf(batch[c]) : b.seq < N
        BY <1>2, <2>1
      <3> QED BY <1>1, <1>2, <2>1, <3>1 DEF ClientInv, BatchInv, Still, Ascending
    <2>6. SeenInv(c)'
      BY <1>1, <1>2, <2>1 DEF ClientInv, SeenInv, Still
    <2>7. HoleInv(c)'
      BY <1>1, <1>2, <2>1, <2>2 DEF ClientInv, HoleInv, Still
    <2>8. OrderInv(c)'
      <3>1. \A e \in ElementsOf(got[c]) : new.ev # e /\ (new.ev # 0 => ~(new.ev < e))
        BY <1>2, <1>3, <2>1, EventStreamAssumption DEF ClientInv, GotInv
      <3>2. \A i \in DOMAIN got[c] : got[c][i] \in ElementsOf(got[c])
        BY DEF ElementsOf
      <3> QED BY <1>1, <2>1, <3>1, <3>2 DEF ClientInv, OrderInv, Still
    <2> QED BY <2>3, <2>4, <2>5, <2>6, <2>7, <2>8 DEF ClientInv
  <1> QED BY <1>5, <1>6 DEF StreamInv

\* An event that has been sent is in the channel or has been dropped.
LEMMA SendStream == ASSUME IInv, StreamInv, BroadcastSend PROVE StreamInv'
  <1>0. PICK v \in Clients : v = visiting
    BY DEF BroadcastSend, IInv, StepInv
  <1>1. /\ pc[Drain] = "send" /\ v \notin left /\ event \in 1..MaxEvents
        /\ UNCHANGED << tableVars, fanVars, subs, closed, gone, clientVars >>
        /\ pc' = pc \/ pc'[Drain] = "pick"
        /\ \A c \in Clients : pc'[c] = pc[c]
    BY <1>0, Apart DEF BroadcastSend, Goto, IInv, StepInv, TypeOK
  <1>2. ~Unwritten /\ ~Unwritten' /\ rows' = rows /\ event' = event
    BY <1>1 DEF Unwritten, tableVars, fanVars
  <1>3. CASE pc' = pc /\ UNCHANGED << queue, dropped, missed >>
    <2>1. \A c \in Clients : Still(c) /\ OnItsWay(c)' = OnItsWay(c)
      BY <1>1, <1>3 DEF Still, OnItsWay, fanVars, clientVars
    <2> QED BY <1>2, <2>1, StillRows, StillClient DEF StreamInv
  <1>4. CASE /\ pc' = [pc EXCEPT ![Drain] = "pick"]
             /\ \/ /\ queue' = [queue EXCEPT ![v] = Append(@, event)]
                   /\ UNCHANGED << dropped, missed >>
                \/ /\ dropped' = [dropped EXCEPT ![v] = @ \cup {event}]
                   /\ missed' = [missed EXCEPT ![v] = @ \cup {event}]
                   /\ UNCHANGED queue
    <2>1. ASSUME NEW c \in Clients, c # v PROVE ClientInv(c)'
      <3>1. Still(c)
        BY <1>1, <1>4, <2>1 DEF Still, clientVars, IInv, TypeOK
      <3>2. OnItsWay(c)' = OnItsWay(c)
        BY <1>0, <1>1, <1>4, <2>1, Apart DEF OnItsWay, fanVars, IInv, TypeOK
      <3> QED BY <1>2, <3>1, <3>2, StillClient DEF StreamInv
    <2>2. /\ OnItsWay(v) = {event} /\ OnItsWay(v)' = {}
          /\ ClientInv(v) /\ queue[v] \in Seq(1..MaxEvents)
          /\ UNCHANGED << pc[v], batch[v], since[v], got[v], subs >>
      BY <1>0, <1>1, <1>4, Apart DEF OnItsWay, fanVars, clientVars, IInv, TypeOK, StreamInv
    <2>3. \/ /\ queue'[v] = Append(queue[v], event)
             /\ UNCHANGED << dropped[v], missed[v] >>
          \/ /\ dropped'[v] = dropped[v] \cup {event} /\ missed'[v] = missed[v] \cup {event}
             /\ UNCHANGED queue[v]
      BY <1>1, <1>4 DEF IInv, TypeOK
    <2>4. ClientInv(v)'
      <3>1. /\ \A i \in DOMAIN queue[v] : queue[v][i] \in ElementsOf(queue[v])
            /\ \A e \in ElementsOf(queue[v]) : e < event
            /\ ElementsOf(queue[v]) \subseteq 1..MaxEvents
        <4>1. ElementsOf(queue[v]) \subseteq 1..MaxEvents
          BY <2>2, SeqElements
        <4>2. \A i \in DOMAIN queue[v] : queue[v][i] \in ElementsOf(queue[v])
          BY DEF ElementsOf
        <4> QED BY <2>2, <4>1, <4>2 DEF ClientInv, QueueInv
      <3>2. ASSUME queue'[v] = Append(queue[v], event)
            PROVE  /\ ElementsOf(queue[v])' = ElementsOf(queue[v]) \cup {event}
                   /\ \A i, j \in DOMAIN queue'[v] : i < j => queue'[v][i] < queue'[v][j]
        <4>1. Increasing(queue[v]) /\ \A e \in ElementsOf(queue[v]) : e < event
          BY <2>2, <3>1 DEF ClientInv, QueueInv, Increasing
        <4>2. /\ Increasing(Append(queue[v], event))
              /\ ElementsOf(Append(queue[v], event)) = ElementsOf(queue[v]) \cup {event}
          BY <1>1, <2>2, <4>1, AppendIncreasing
        <4>4. ElementsOf(queue[v])' = ElementsOf(queue'[v])
          BY DEF ElementsOf
        <4>5. Increasing(queue'[v])
          BY <3>2, <4>2
        <4>6. \A i, j \in DOMAIN queue'[v] : i < j => queue'[v][i] < queue'[v][j]
          BY <4>5 DEF Increasing
        <4> QED BY <3>2, <4>2, <4>4, <4>6
      <3>3. QueueInv(v)'
        <4>1. CASE queue'[v] = Append(queue[v], event)
          <5>1. \A e \in ElementsOf(queue[v]) \cup {event} : e <= event
            BY <1>1, <3>1
          <5> QED BY <1>2, <2>2, <3>2, <4>1, <5>1 DEF QueueInv
        <4>2. CASE UNCHANGED queue[v]
          BY <1>2, <2>2, <4>2 DEF ClientInv, QueueInv
        <4> QED BY <2>3, <4>1, <4>2
      <3>4. GotInv(v)' /\ BatchInv(v)' /\ SeenInv(v)'
        BY <1>2, <2>2 DEF ClientInv, GotInv, BatchInv, SeenInv, Ascending
      <3>5. HoleInv(v)'
        BY <1>2, <2>2, <2>3, <3>2 DEF ClientInv, HoleInv
      <3>6. OrderInv(v)'
        BY <1>2, <2>2, <2>3 DEF ClientInv, OrderInv
      <3> QED BY <3>3, <3>4, <3>5, <3>6 DEF ClientInv
    <2>5. RowsInv'
      BY <1>2, StillRows DEF StreamInv
    <2> QED BY <2>1, <2>4, <2>5 DEF StreamInv
  <1> QED BY <1>0, <1>3, <1>4 DEF BroadcastSend, Goto

-----------------------------------------------------------------------------
(***************************************************************************)
(* The steps of a client.                                                  *)
(***************************************************************************)

\* What a client's step leaves alone: the table, the drain, the other clients.
LEMMA StepOf ==
  ASSUME IInv, NEW c \in Clients, ClientMove(c)
  PROVE  /\ rows' = rows /\ event' = event /\ (Unwritten' <=> Unwritten)
         /\ \A d \in Clients \ {c} : pc'[d] = pc[d] /\ OnItsWay(d)' = OnItsWay(d)
         /\ OnItsWay(c)' \subseteq OnItsWay(c)
         /\ left' = left => OnItsWay(c)' = OnItsWay(c)
  <1>1. /\ rows' = rows /\ event' = event /\ visiting' = visiting
        /\ left' \in {left, left \ {c}}
        /\ pc'[Drain] = pc[Drain] /\ \A d \in Clients \ {c} : pc'[d] = pc[d]
    BY Apart DEF ClientMove, tableVars, IInv, TypeOK
  <1>2. Unwritten' <=> Unwritten
    BY <1>1 DEF Unwritten
  <1>3. \A d \in Clients \ {c} : OnItsWay(d)' = OnItsWay(d)
    BY <1>1 DEF OnItsWay
  <1>4. OnItsWay(c)' \subseteq OnItsWay(c)
    BY <1>1 DEF OnItsWay
  <1>5. left' = left => OnItsWay(c)' = OnItsWay(c)
    BY <1>1 DEF OnItsWay
  <1> QED BY <1>1, <1>2, <1>3, <1>4, <1>5

\* Only c's part of the per-client state changes.
OnlyOf(c) ==
  \A d \in Clients \ {c} :
    /\ queue'[d] = queue[d] /\ dropped'[d] = dropped[d] /\ missed'[d] = missed[d]
    /\ batch'[d] = batch[d] /\ since'[d] = since[d] /\ got'[d] = got[d]
    /\ d \in subs => d \in subs'

LEMMA ClientStream ==
  ASSUME IInv, StreamInv, NEW c \in Clients, ClientMove(c), OnlyOf(c), ClientInv(c)'
  PROVE  StreamInv'
  <1>1. RowsInv'
    BY StepOf, StillRows DEF StreamInv
  <1>2. ASSUME NEW d \in Clients, d # c PROVE ClientInv(d)'
    <2>1. Still(d) /\ UNCHANGED << rows, event >> /\ (Unwritten' <=> Unwritten)
          /\ OnItsWay(d)' = OnItsWay(d)
      BY <1>2, StepOf DEF Still, OnlyOf
    <2> QED BY <2>1, StillClient DEF StreamInv
  <1> QED BY <1>1, <1>2 DEF StreamInv

\* The client receives nothing, and its handler does not start to replay.
LEMMA QuietClient ==
  ASSUME IInv, NEW c \in Clients, ClientMove(c), ClientInv(c), QueueInv(c)',
         UNCHANGED << got[c], since[c], missed[c] >>, dropped'[c] \subseteq dropped[c],
         batch'[c] \in {batch[c], << >>},
         pc'[c] \in {"ws.list", "ws.replay", "ws.live"} => c \in subs',
         pc'[c] \in {"ws.replay", "ws.live"} =>
           /\ pc[c] \in {"ws.replay", "ws.live"} /\ left' = left
           /\ UNCHANGED << batch[c], queue[c], dropped[c] >>
  PROVE  ClientInv(c)'
  <1>1. /\ rows' = rows /\ event' = event /\ (Unwritten' <=> Unwritten)
        /\ left' = left => OnItsWay(c)' = OnItsWay(c)
    BY StepOf
  <1>2. GotInv(c)'
    BY <1>1 DEF ClientInv, GotInv
  <1>3. BatchInv(c)'
    BY <1>1, NoElements DEF ClientInv, BatchInv, Ascending
  <1>4. SeenInv(c)'
    BY <1>1 DEF ClientInv, SeenInv
  <1>5. HoleInv(c)'
    BY <1>1 DEF ClientInv, HoleInv
  <1>6. OrderInv(c)'
    BY <1>1 DEF ClientInv, OrderInv
  <1> QED BY <1>2, <1>3, <1>4, <1>5, <1>6 DEF ClientInv

\* ... nor does its channel change.
LEMMA SameQueue ==
  ASSUME IInv, NEW c \in Clients, ClientMove(c), ClientInv(c), UNCHANGED queue[c]
  PROVE  QueueInv(c)'
  BY StepOf DEF ClientInv, QueueInv

\* A client that has what came before an event receives the event.
LEMMA Receipt ==
  ASSUME IInv, StreamInv, NEW c \in Clients, ClientMove(c), NEW e \in 0..MaxEvents, Receive(c, e),
         UNCHANGED << missed[c], dropped[c] >>,
         e # 0 => e <= event /\ (Unwritten => e < event),
         \A r \in rows : r.ev # 0 /\ r.ev < e => r.ev \in ElementsOf(got[c]) \cup missed[c]
  PROVE  /\ GotInv(c)' /\ OrderInv(c)'
         /\ ElementsOf(got[c]) \subseteq ElementsOf(got[c])'
         /\ e # 0 => e \in ElementsOf(got[c])'
  <1>1. rows' = rows /\ event' = event /\ (Unwritten' <=> Unwritten) /\ ClientInv(c)
    BY StepOf DEF StreamInv
  <1>2. CASE got'[c] = got[c] /\ (e = 0 \/ e \in ElementsOf(got[c]))
    <2>1. GotInv(c)'
      BY <1>1, <1>2 DEF ClientInv, GotInv
    <2>2. OrderInv(c)'
      BY <1>1, <1>2 DEF ClientInv, OrderInv
    <2> QED BY <1>2, <2>1, <2>2 DEF ElementsOf
  <1>3. CASE e # 0 /\ e \notin ElementsOf(got[c]) /\ got'[c] = Append(got[c], e)
    <2>1. PICK g \in Seq(1..MaxEvents) : g = got[c]
      BY DEF IInv, TypeOK
    <2>2. e \in 1..MaxEvents /\ e \in Int
      BY <1>3
    <2>3. PICK p : p = Append(g, e)
      OBVIOUS
    <2>4. p = got'[c]
      BY <1>3, <2>1, <2>3
    <2>5. /\ Len(g) \in Nat /\ DOMAIN g = 1..Len(g) /\ DOMAIN p = 1..(Len(g) + 1)
          /\ \A i \in DOMAIN g : p[i] = g[i]
          /\ p[Len(g) + 1] = e
      <3>1. Len(g) \in Nat /\ DOMAIN g = 1..Len(g)
        BY SeqElements
      <3> QED BY <2>2, <2>3, <3>1, AppendElements
    <2>6. ElementsOf(p) = ElementsOf(g) \cup {e}
      BY <2>5 DEF ElementsOf
    <2>7. ElementsOf(got[c])' = ElementsOf(g) \cup {e} /\ ElementsOf(got[c]) = ElementsOf(g)
      BY <2>1, <2>4, <2>6 DEF ElementsOf
    <2>8. GotInv(c)'
      BY <1>1, <1>3, <2>7 DEF ClientInv, GotInv
    <2>9. \A i, j \in DOMAIN p : i < j /\ p[j] < p[i] =>
            p[j] \in missed[c] \/ \A r \in rows : r.ev # p[j]
      <3> TAKE i, j \in DOMAIN p
      <3> HAVE i < j /\ p[j] < p[i]
      <3>1. CASE j \in DOMAIN g
        <4>1. i \in DOMAIN g /\ p[i] = g[i] /\ p[j] = g[j]
          BY <2>5, <3>1
        <4> QED BY <2>1, <3>1, <4>1, <1>1 DEF ClientInv, OrderInv
      <3>2. CASE j = Len(g) + 1
        <4>1. i \in DOMAIN g /\ p[i] = g[i] /\ p[j] = e /\ e < g[i]
          BY <2>5, <3>2
        <4>2. g[i] \in ElementsOf(got[c])
          BY <2>1, <4>1 DEF ElementsOf
        <4>3. \A r \in rows : r.ev = e => r.ev \in ElementsOf(got[c]) \cup missed[c]
          BY <1>1, <1>3, <4>1, <4>2 DEF ClientInv, OrderInv
        <4> QED BY <1>3, <4>1, <4>3
      <3> QED BY <2>5, <3>1, <3>2
    <2>10. OrderInv(c)'
      <3>1. \A i, j \in DOMAIN got'[c] : i < j /\ got'[c][j] < got'[c][i] =>
              got'[c][j] \in missed[c] \/ \A r \in rows : r.ev # got'[c][j]
        BY <2>4, <2>9
      <3>2. \A r \in rows, x \in ElementsOf(g) \cup {e} :
              r.ev # 0 /\ r.ev < x => r.ev \in ElementsOf(g) \cup missed[c]
        BY <1>1, <2>7 DEF ClientInv, OrderInv
      <3>3. dropped[c] \subseteq missed[c]
        BY <1>1 DEF ClientInv, OrderInv
      <3> QED BY <1>1, <2>7, <3>1, <3>2, <3>3 DEF OrderInv
    <2> QED BY <2>7, <2>8, <2>10
  <1> QED BY <1>2, <1>3, ReceiveEffect

\* The first of some rows in order is before the others.
LEMMA TailAscending ==
  ASSUME NEW s \in Seq(Rows), s # << >>, Ascending(s)
  PROVE  Ascending(Tail(s)) /\ \A b \in ElementsOf(Tail(s)) : Head(s).seq < b.seq
  <1> DEFINE u == Tail(s)
  <1>1. /\ Head(s) = s[1] /\ 1 \in DOMAIN s
        /\ \A i \in DOMAIN u : i + 1 \in DOMAIN s /\ u[i] = s[i + 1]
    BY HeadAndTail
  <1>2. \A i \in DOMAIN u : i \in Nat /\ 1 < i + 1
    <2>1. DOMAIN u = 1..Len(u) /\ Len(u) \in Nat
      BY HeadAndTail, SeqElements
    <2> HIDE DEF u
    <2> QED BY <2>1
  <1> HIDE DEF u
  <1>3. Ascending(u)
    BY <1>1, <1>2 DEF Ascending
  <1>4. \A i \in DOMAIN u : s[1].seq < u[i].seq
    BY <1>1, <1>2 DEF Ascending
  <1> QED BY <1>1, <1>3, <1>4 DEF ElementsOf, u

\* The client takes the first row its handler holds, and resumes after it.
LEMMA TakeClient ==
  ASSUME IInv, StreamInv, NEW c \in Clients, ClientMove(c), batch[c] # << >>, pc'[c] = pc[c],
         left' = left, subs' = subs,
         Receive(c, Head(batch[c]).ev), batch'[c] = Tail(batch[c]),
         since'[c] = Head(batch[c]).seq,
         UNCHANGED << queue[c], dropped[c], missed[c] >>
  PROVE  ClientInv(c)'
  <1>1. /\ rows' = rows /\ event' = event /\ (Unwritten' <=> Unwritten) /\ ClientInv(c)
        /\ OnItsWay(c)' = OnItsWay(c)
    BY StepOf DEF StreamInv
  <1>2. PICK s \in Seq(Rows) : s = batch[c]
    BY DEF IInv, TypeOK
  <1>3. s # << >> /\ Ascending(s) /\ ElementsOf(s) \subseteq rows
    BY <1>1, <1>2 DEF ClientInv, BatchInv, IInv, BatchRows, ElementsOf
  <1>4. PICK h \in rows : h = Head(s) /\ ElementsOf(s) = {h} \cup ElementsOf(Tail(s))
    BY <1>3, HeadAndTail
  <1>5. Ascending(Tail(s)) /\ \A b \in ElementsOf(Tail(s)) : h.seq < b.seq
    BY <1>3, <1>4, TailAscending
  <1>6. ElementsOf(batch[c]) = ElementsOf(s) /\ ElementsOf(batch[c])' = ElementsOf(Tail(s))
    BY <1>2 DEF ElementsOf
  <1>7. /\ \A r \in rows : r.seq \in Nat /\ r.ev \in Nat
        /\ \A q, r \in rows : q.seq = r.seq => q = r
        /\ since[c] \in Int
    <2>1. \A r \in rows : r.seq \in Nat /\ r.ev \in Nat
      BY Numbered, EventStreamAssumption DEF Rows
    <2>2. \A q, r \in rows : q.seq = r.seq => q = r
      BY Numbered DEF NumbersFrom
    <2>3. since[c] \in Int
      BY DEF IInv, TypeOK
    <2> QED BY <2>1, <2>2, <2>3
  <1>8. h.seq > since[c] /\ h \in ElementsOf(s)
    BY <1>1, <1>4, <1>6 DEF ClientInv, BatchInv
  <1>9. \A r \in rows : r.seq < h.seq => r.seq <= since[c]
    <2> SUFFICES ASSUME NEW r \in rows, r.seq < h.seq, since[c] < r.seq PROVE FALSE
      BY <1>7
    <2>1. r \in ElementsOf(s)
      BY <1>1, <1>6, <1>8 DEF ClientInv, BatchInv
    <2> QED BY <1>4, <1>5, <1>7, <2>1
  <1>10. \A r \in rows : r.ev # 0 /\ r.seq < h.seq => r.ev \in ElementsOf(got[c])
    BY <1>1, <1>9 DEF ClientInv, SeenInv
  <1>11. \A r \in rows : r.ev # 0 /\ r.ev < h.ev => r.ev \in ElementsOf(got[c])
    <2> SUFFICES ASSUME NEW r \in rows, r.ev # 0, r.ev < h.ev PROVE r.seq < h.seq
      BY <1>10
    <2>1. ~(h.seq < r.seq)
      BY <1>4, <1>7 DEF StreamInv, RowsInv
    <2>2. r.seq # h.seq
      BY <1>4, <1>7
    <2> QED BY <1>7, <2>1, <2>2
  <1>12. /\ GotInv(c)' /\ OrderInv(c)'
         /\ ElementsOf(got[c]) \subseteq ElementsOf(got[c])'
         /\ h.ev # 0 => h.ev \in ElementsOf(got[c])'
    <2>1. h.ev \in 0..MaxEvents /\ Receive(c, h.ev)
      BY <1>2, <1>4, Numbered DEF Rows
    <2>2. h.ev <= event /\ (Unwritten => h.ev < event)
      BY <1>4 DEF StreamInv, RowsInv
    <2> QED BY <1>11, <2>1, <2>2, Receipt
  <1>13. QueueInv(c)'
    BY <1>1 DEF ClientInv, QueueInv
  <1>14. BatchInv(c)'
    <2>1. pc'[c] \in {"ws.list", "ws.replay", "ws.live"} => c \in subs'
      BY <1>1 DEF ClientInv, BatchInv
    <2>2. Ascending(batch[c])'
      BY <1>2, <1>5 DEF Ascending
    <2>3. since'[c] = h.seq
      BY <1>2, <1>4
    <2>4. \A b \in ElementsOf(Tail(s)) : b.seq > h.seq /\ b \in rows
      BY <1>3, <1>4, <1>5, <1>7
    <2>5. \A b \in ElementsOf(Tail(s)), r \in rows :
            h.seq < r.seq /\ r.seq < b.seq => r \in ElementsOf(Tail(s))
      <3> SUFFICES ASSUME NEW b \in ElementsOf(Tail(s)), NEW r \in rows,
                          h.seq < r.seq, r.seq < b.seq
                   PROVE  r \in ElementsOf(s) /\ r # h
        BY <1>4
      <3>1. since[c] < r.seq
        BY <1>7, <1>8
      <3>2. b \in ElementsOf(batch[c])
        BY <1>4, <1>6
      <3> QED BY <1>1, <1>6, <1>7, <3>1, <3>2 DEF ClientInv, BatchInv
    <2> QED BY <1>1, <1>6, <2>1, <2>2, <2>3, <2>4, <2>5 DEF BatchInv
  <1>15. SeenInv(c)'
    <2>1. \A r \in rows : r.seq <= h.seq => r.seq < h.seq \/ r = h
      BY <1>4, <1>7
    <2> QED BY <1>1, <1>2, <1>4, <1>10, <1>12, <2>1 DEF SeenInv
  <1>16. HoleInv(c)'
    <2>1. \A r \in ElementsOf(s) : r = h \/ r \in ElementsOf(Tail(s))
      BY <1>4
    <2>2. ElementsOf(queue[c])' = ElementsOf(queue[c])
      BY DEF ElementsOf
    <2> QED BY <1>1, <1>6, <1>12, <2>1, <2>2 DEF ClientInv, HoleInv
  <1> QED BY <1>12, <1>13, <1>14, <1>15, <1>16 DEF ClientInv

\* The client takes the first event of its channel.
LEMMA LiveClient ==
  ASSUME IInv, StreamInv, NEW c \in Clients, ClientMove(c), pc[c] = "ws.live", pc'[c] = pc[c],
         left' = left, subs' = subs, queue[c] # << >>,
         Receive(c, Head(queue[c])), queue'[c] = Tail(queue[c]),
         UNCHANGED << batch[c], since[c], dropped[c], missed[c] >>
  PROVE  ClientInv(c)'
  <1>1. /\ rows' = rows /\ event' = event /\ (Unwritten' <=> Unwritten) /\ ClientInv(c)
        /\ OnItsWay(c)' = OnItsWay(c)
    BY StepOf DEF StreamInv
  <1>2. PICK q \in Seq(1..MaxEvents) : q = queue[c]
    BY DEF IInv, TypeOK
  <1>3. /\ Increasing(q) /\ q # << >>
        /\ ElementsOf(queue[c]) = ElementsOf(q) /\ ElementsOf(queue[c])' = ElementsOf(Tail(q))
    BY <1>1, <1>2 DEF ClientInv, QueueInv, Increasing, ElementsOf
  <1>4. PICK e \in 1..MaxEvents : e = Head(q) /\ ElementsOf(q) = {e} \cup ElementsOf(Tail(q))
    BY <1>3, HeadAndTail
  <1>5. Increasing(Tail(q)) /\ \A x \in ElementsOf(Tail(q)) : e < x
    BY <1>3, <1>4, TailIncreasing
  <1>6. /\ e <= event /\ (Unwritten => e < event) /\ (OnItsWay(c) # {} => e < event)
        /\ event \in Int /\ e \in Int
    BY <1>1, <1>3, <1>4 DEF ClientInv, QueueInv, IInv, TypeOK
  <1>7. \A r \in rows : r.ev \in Int
    BY Numbered, EventStreamAssumption DEF Rows
  <1>8. /\ ElementsOf(batch[c]) = {}
        /\ \A x \in OnItsWay(c) : x = event
        /\ dropped[c] \subseteq missed[c]
    <2>1. batch[c] = << >>
      BY DEF IInv, BatchRows, Reads
    <2> QED BY <1>1, <2>1, NoElements DEF OnItsWay, ClientInv, OrderInv
  <1>9. \A r \in rows : r.ev # 0 /\ r.ev < e => r.ev \in ElementsOf(got[c]) \cup missed[c]
    <2> SUFFICES ASSUME NEW r \in rows, r.ev # 0, r.ev < e
                 PROVE  r.ev \in ElementsOf(got[c]) \cup missed[c]
      OBVIOUS
    <2>1. r.ev \in ElementsOf(got[c]) \cup ElementsOf(q) \cup dropped[c] \cup OnItsWay(c)
      BY <1>1, <1>3, <1>8 DEF ClientInv, HoleInv
    <2>2. r.ev \notin ElementsOf(q)
      BY <1>4, <1>5, <1>6, <1>7
    <2>3. r.ev \notin OnItsWay(c)
      BY <1>6, <1>7, <1>8
    <2> QED BY <1>8, <2>1, <2>2, <2>3
  <1>10. /\ GotInv(c)' /\ OrderInv(c)'
         /\ ElementsOf(got[c]) \subseteq ElementsOf(got[c])'
         /\ e \in ElementsOf(got[c])'
    <2>1. e \in 0..MaxEvents /\ e # 0 /\ Receive(c, e)
      BY <1>2, <1>4
    <2> QED BY <1>6, <1>9, <2>1, Receipt
  <1>11. QueueInv(c)'
    <2>1. \A x \in ElementsOf(Tail(q)) :
            x <= event /\ (Unwritten \/ OnItsWay(c) # {} => x < event)
      BY <1>1, <1>3, <1>4 DEF ClientInv, QueueInv
    <2>2. \A i, j \in DOMAIN queue'[c] : i < j => queue'[c][i] < queue'[c][j]
      BY <1>2, <1>5 DEF Increasing
    <2> QED BY <1>1, <1>3, <2>1, <2>2 DEF QueueInv
  <1>12. BatchInv(c)' /\ SeenInv(c)'
    <2>1. BatchInv(c)'
      BY <1>1 DEF ClientInv, BatchInv, Ascending
    <2>2. SeenInv(c)'
      BY <1>1, <1>10 DEF ClientInv, SeenInv
    <2> QED BY <2>1, <2>2
  <1>13. HoleInv(c)'
    <2>1. \A x \in ElementsOf(q) : x = e \/ x \in ElementsOf(Tail(q))
      BY <1>4
    <2>2. ElementsOf(batch[c])' = {}
      BY <1>8 DEF ElementsOf
    <2> QED BY <1>1, <1>3, <1>8, <1>10, <2>1, <2>2 DEF ClientInv, HoleInv
  <1> QED BY <1>10, <1>11, <1>12, <1>13 DEF ClientInv

\* A handler loads the rows after the last one its client has: all of them.
LEMMA LoadClient ==
  ASSUME IInv, StreamInv, Fits, NEW c \in Clients, ClientMove(c),
         left' = left, subs' = subs,
         \/ pc[c] = "ws.list" /\ pc'[c] = "ws.replay"
         \/ pc'[c] = "rest.last",
         batch'[c] = ListMessages(since[c]),
         UNCHANGED << queue[c], dropped[c], missed[c], since[c], got[c] >>
  PROVE  ClientInv(c)'
  <1>1. /\ rows' = rows /\ event' = event /\ (Unwritten' <=> Unwritten) /\ ClientInv(c)
        /\ OnItsWay(c)' = OnItsWay(c)
    BY StepOf DEF StreamInv
  <1>2. PICK N \in Nat : N = Cardinality(rows) /\ NumbersFrom(rows, 0, N) /\ N <= ReplayLimit
    BY Numbered DEF Fits
  <1>3. rows \in SUBSET Rows /\ since[c] \in Nat \cup {-1} /\ since[c] < N
    BY <1>2, Numbered DEF IInv, TypeOK, TableInv
  <1>4. PICK s : s = ListMessages(since[c])
    OBVIOUS
  <1>5. /\ Ascending(s)
        /\ \A b \in ElementsOf(s) : b \in rows /\ b.seq > since[c]
        /\ \A b \in ElementsOf(s), r \in rows :
             since[c] < r.seq /\ r.seq < b.seq => r \in ElementsOf(s)
        /\ \A r \in rows : r.seq > since[c] => r \in ElementsOf(s)
    BY <1>2, <1>3, <1>4, ListedRows
  <1>6. batch'[c] = s /\ ElementsOf(batch[c])' = ElementsOf(s) /\ Ascending(batch[c])'
    BY <1>4, <1>5 DEF ElementsOf, Ascending
  <1>7. GotInv(c)' /\ QueueInv(c)' /\ SeenInv(c)' /\ OrderInv(c)'
    <2>1. GotInv(c)' /\ QueueInv(c)'
      BY <1>1 DEF ClientInv, GotInv, QueueInv
    <2>2. SeenInv(c)' /\ OrderInv(c)'
      BY <1>1 DEF ClientInv, SeenInv, OrderInv
    <2> QED BY <2>1, <2>2
  <1>8. BatchInv(c)'
    BY <1>1, <1>5, <1>6 DEF ClientInv, BatchInv
  <1>9. HoleInv(c)'
    <2>1. \A r \in rows : r.ev # 0 => r.ev \in ElementsOf(got[c]) \/ r \in ElementsOf(s)
      <3> SUFFICES ASSUME NEW r \in rows, r.ev # 0, r \notin ElementsOf(s)
                   PROVE  r.ev \in ElementsOf(got[c])
        OBVIOUS
      <3>1. r.seq <= since[c]
        BY <1>3, <1>5 DEF Rows
      <3> QED BY <1>1, <3>1 DEF ClientInv, SeenInv
    <2>2. ElementsOf(got[c])' = ElementsOf(got[c])
      BY DEF ElementsOf
    <2> QED BY <1>1, <1>6, <2>1, <2>2 DEF HoleInv
  <1> QED BY <1>7, <1>8, <1>9 DEF ClientInv

\* The stream handler.
LEMMA ConnectStream ==
  ASSUME IInv, StreamInv, NEW c \in Clients,
         Connect(c) \/ Leave(c) \/ Subscribe(c) \/ LiveDone(c) \/ Unsubscribe(c)
           \/ CloseChannel(c)
  PROVE  StreamInv'
  <1> USE DEF Goto
  <1>1. ChanTypes /\ ClientTypes /\ StepTypes /\ panicked \in BOOLEAN /\ ClientInv(c)
    BY Parts DEF IInv, StreamInv
  <1>2. ClientMove(c)
    BY <1>1 DEF Connect, Leave, Subscribe, LiveDone, Unsubscribe, CloseChannel, MapRace,
                ClientMove, fanVars, StreamSteps
  <1>3. OnlyOf(c)
    BY <1>1 DEF Connect, Leave, Subscribe, LiveDone, Unsubscribe, CloseChannel, OnlyOf,
                chanVars, clientVars, ChanTypes
  <1>4. QueueInv(c)'
    <2>1. CASE UNCHANGED queue[c]
      BY <1>1, <1>2, <2>1, SameQueue
    <2>2. CASE queue'[c] = << >>
      <3>1. ElementsOf(queue[c])' = {} /\ DOMAIN queue'[c] = {}
        BY <2>2, NoElements DEF ElementsOf
      <3> QED BY <3>1 DEF QueueInv
    <2> QED BY <1>1, <2>1, <2>2 DEF Connect, Leave, Subscribe, LiveDone, Unsubscribe,
                                    CloseChannel, chanVars, ChanTypes
  <1>5. /\ UNCHANGED << got[c], since[c], missed[c] >> /\ dropped'[c] \subseteq dropped[c]
        /\ batch'[c] = batch[c]
    BY <1>1 DEF Connect, Leave, Subscribe, LiveDone, Unsubscribe, CloseChannel, chanVars,
                clientVars, ChanTypes
  <1>6. \/ Leave(c)
        \/ pc'[c] = "ws.list" /\ c \in subs'
        \/ pc'[c] \in {"ws.subscribe", "ws.unsub", "ws.close", "idle"}
    BY <1>1 DEF Connect, Subscribe, LiveDone, Unsubscribe, CloseChannel, StepTypes
  <1>7. Leave(c) => UNCHANGED << pc, left, batch, queue, dropped, subs >>
    BY DEF Leave, fanVars, chanVars, clientVars
  <1>8. /\ pc'[c] \in {"ws.list", "ws.replay", "ws.live"} => c \in subs'
        /\ pc'[c] \in {"ws.replay", "ws.live"} =>
             /\ pc[c] \in {"ws.replay", "ws.live"} /\ left' = left
             /\ UNCHANGED << batch[c], queue[c], dropped[c] >>
    BY <1>1, <1>6, <1>7 DEF ClientInv, BatchInv
  <1>9. ClientInv(c)'
    BY <1>1, <1>2, <1>4, <1>5, <1>8, QuietClient
  <1> QED BY <1>2, <1>3, <1>9, ClientStream

LEMMA ListStream ==
  ASSUME IInv, StreamInv, Fits, NEW c \in Clients, ReplayList(c) \/ RestList(c)
  PROVE  StreamInv'
  <1> USE DEF Goto
  <1>1. ClientTypes /\ StepTypes /\ panicked \in BOOLEAN /\ ClientInv(c)
    BY Parts DEF IInv, StreamInv
  <1>2. ClientMove(c)
    BY <1>1 DEF ReplayList, RestList, ClientMove, fanVars, StreamSteps
  <1>3. OnlyOf(c)
    BY <1>1 DEF ReplayList, RestList, OnlyOf, chanVars, ClientTypes
  <1>4. /\ UNCHANGED << queue[c], dropped[c], missed[c], since[c], got[c] >>
        /\ left' = left /\ subs' = subs
    BY DEF ReplayList, RestList, chanVars, fanVars
  <1>5. \/ /\ (pc[c] = "ws.list" /\ pc'[c] = "ws.replay") \/ pc'[c] = "rest.last"
           /\ batch'[c] = ListMessages(since[c])
        \/ pc'[c] = "ws.unsub" /\ batch'[c] = batch[c]
    BY <1>1 DEF ReplayList, RestList, ClientTypes, StepTypes
  <1>6. CASE /\ (pc[c] = "ws.list" /\ pc'[c] = "ws.replay") \/ pc'[c] = "rest.last"
             /\ batch'[c] = ListMessages(since[c])
    BY <1>2, <1>3, <1>4, <1>6, LoadClient, ClientStream
  <1>7. CASE pc'[c] = "ws.unsub" /\ batch'[c] = batch[c]
    <2>1. QueueInv(c)'
      BY <1>1, <1>2, <1>4, SameQueue
    <2> QED BY <1>1, <1>2, <1>3, <1>4, <1>7, <2>1, QuietClient, ClientStream
  <1> QED BY <1>5, <1>6, <1>7

LEMMA ReplayStream ==
  ASSUME IInv, StreamInv, NEW c \in Clients, ReplaySend(c) PROVE StreamInv'
  <1> USE DEF Goto
  <1>1. ClientTypes /\ StepTypes /\ panicked \in BOOLEAN /\ ClientInv(c)
    BY Parts DEF IInv, StreamInv
  <1>2. ClientMove(c)
    BY <1>1 DEF ReplaySend, ClientMove, fanVars, StreamSteps
  <1>3. /\ UNCHANGED << queue[c], dropped[c], missed[c] >> /\ left' = left /\ subs' = subs
        /\ UNCHANGED chanVars /\ pc[c] = "ws.replay"
    BY DEF ReplaySend, chanVars, fanVars
  <1>4. QueueInv(c)'
    BY <1>1, <1>2, <1>3, SameQueue
  <1>5. CASE batch[c] = << >> \/ (batch[c] # << >> /\ c \in gone)
    <2>1. /\ UNCHANGED << since, got >>
          /\ \A d \in Clients \ {c} : batch'[d] = batch[d]
          /\ \/ pc'[c] = "ws.live" /\ UNCHANGED batch[c]
             \/ pc'[c] = "ws.unsub" /\ batch'[c] = << >>
      BY <1>1, <1>5 DEF ReplaySend, ClientTypes, StepTypes
    <2>2. OnlyOf(c)
      BY <1>3, <2>1 DEF OnlyOf, chanVars
    <2>3. c \in subs'
      BY <1>1, <1>3 DEF ClientInv, BatchInv
    <2>4. ClientInv(c)'
      BY <1>1, <1>2, <1>3, <1>4, <2>1, <2>3, QuietClient
    <2> QED BY <1>2, <2>2, <2>4, ClientStream
  <1>6. CASE batch[c] # << >> /\ c \notin gone
    <2>1. /\ Receive(c, Head(batch[c]).ev) /\ pc' = pc
          /\ batch'[c] = Tail(batch[c]) /\ since'[c] = Head(batch[c]).seq
          /\ \A d \in Clients \ {c} : batch'[d] = batch[d] /\ since'[d] = since[d]
      BY <1>1, <1>6 DEF ReplaySend, ClientTypes
    <2>2. \A d \in Clients \ {c} : got'[d] = got[d]
      BY <1>1, <2>1 DEF Receive, ClientTypes
    <2>3. OnlyOf(c)
      BY <1>3, <2>1, <2>2 DEF OnlyOf, chanVars
    <2>4. ClientInv(c)'
      BY <1>2, <1>3, <1>6, <2>1, TakeClient
    <2> QED BY <1>2, <2>3, <2>4, ClientStream
  <1> QED BY <1>5, <1>6

LEMMA LiveStream ==
  ASSUME IInv, StreamInv, NEW c \in Clients, LiveSend(c) PROVE StreamInv'
  <1> USE DEF Goto
  <1>1. ChanTypes /\ ClientTypes /\ StepTypes /\ panicked \in BOOLEAN /\ ClientInv(c)
    BY Parts DEF IInv, StreamInv
  <1>2. ClientMove(c)
    BY <1>1 DEF LiveSend, ClientMove, fanVars, StreamSteps
  <1>3. /\ UNCHANGED << batch[c], since[c], dropped[c], missed[c] >> /\ left' = left
        /\ subs' = subs /\ pc[c] = "ws.live" /\ queue[c] # << >>
        /\ queue'[c] = Tail(queue[c])
    BY <1>1 DEF LiveSend, fanVars, ChanTypes
  <1>4. got' = got \/ Receive(c, Head(queue[c]))
    BY DEF LiveSend
  <1>5. OnlyOf(c)
    <2>1. \A d \in Clients \ {c} : got'[d] = got[d]
      BY <1>1, <1>4 DEF Receive, ClientTypes
    <2> QED BY <1>1, <2>1 DEF LiveSend, OnlyOf, ChanTypes
  <1>6. CASE c \in gone
    <2>1. pc'[c] = "ws.unsub" /\ UNCHANGED got[c]
      BY <1>1, <1>6 DEF LiveSend, StepTypes
    <2>2. QueueInv(c)'
      <3>1. PICK q \in Seq(1..MaxEvents) : q = queue[c]
        BY <1>1 DEF ChanTypes
      <3>2. /\ Increasing(q) /\ q # << >> /\ queue'[c] = Tail(q)
            /\ ElementsOf(queue[c]) = ElementsOf(q)
            /\ ElementsOf(queue[c])' = ElementsOf(Tail(q))
        BY <1>1, <1>3, <3>1 DEF ClientInv, QueueInv, Increasing, ElementsOf
      <3>3. Increasing(Tail(q)) /\ ElementsOf(Tail(q)) \subseteq ElementsOf(q)
        BY <3>2, TailIncreasing, HeadAndTail
      <3>4. \A e \in ElementsOf(q) :
              e <= event /\ (Unwritten \/ OnItsWay(c) # {} => e < event)
        BY <1>1, <3>2 DEF ClientInv, QueueInv
      <3>5. \A i, j \in DOMAIN queue'[c] : i < j => queue'[c][i] < queue'[c][j]
        BY <3>2, <3>3 DEF Increasing
      <3>6. event' = event /\ (Unwritten' <=> Unwritten) /\ OnItsWay(c)' = OnItsWay(c)
        BY <1>2, <1>3, StepOf
      <3> QED BY <3>2, <3>3, <3>4, <3>5, <3>6 DEF QueueInv
    <2>3. ClientInv(c)'
      BY <1>1, <1>2, <1>3, <2>1, <2>2, QuietClient
    <2> QED BY <1>2, <1>5, <2>3, ClientStream
  <1>7. CASE c \notin gone
    <2>1. pc'[c] = pc[c] /\ Receive(c, Head(queue[c]))
      BY <1>7 DEF LiveSend
    <2>2. ClientInv(c)'
      BY <1>2, <1>3, <2>1, LiveClient
    <2> QED BY <1>2, <1>5, <2>2, ClientStream
  <1> QED BY <1>6, <1>7

\* The REST handler, and a client that resumes after the last row it got.
LEMMA RestStream ==
  ASSUME IInv, StreamInv, ResumeFrom = "seen", NEW c \in Clients, RestLast(c) \/ RestTake(c)
  PROVE  StreamInv'
  <1> USE DEF Goto
  <1>1. ClientTypes /\ StepTypes /\ panicked \in BOOLEAN /\ ClientInv(c)
    BY Parts DEF IInv, StreamInv
  <1>2. ClientMove(c)
    BY <1>1 DEF RestLast, RestTake, ClientMove, fanVars
  <1>3. /\ UNCHANGED << queue[c], dropped[c], missed[c] >> /\ left' = left /\ subs' = subs
        /\ UNCHANGED chanVars
    BY DEF RestLast, RestTake, chanVars, fanVars
  <1>4. CASE RestLast(c) \/ (RestTake(c) /\ batch[c] = << >>)
    <2>1. pc'[c] \in {"rest.rows", "idle"} /\ UNCHANGED << batch, since, got >>
      BY <1>1, <1>4 DEF RestLast, RestTake, ClientTypes, StepTypes
    <2>2. OnlyOf(c)
      BY <1>3, <2>1 DEF OnlyOf, chanVars
    <2>3. QueueInv(c)'
      BY <1>1, <1>2, <1>3, SameQueue
    <2>4. ClientInv(c)'
      BY <1>1, <1>2, <1>3, <2>1, <2>3, QuietClient
    <2> QED BY <1>2, <2>2, <2>4, ClientStream
  <1>5. CASE RestTake(c) /\ batch[c] # << >>
    <2>1. /\ Receive(c, Head(batch[c]).ev) /\ pc' = pc
          /\ batch'[c] = Tail(batch[c]) /\ since'[c] = Head(batch[c]).seq
          /\ \A d \in Clients \ {c} : batch'[d] = batch[d] /\ since'[d] = since[d]
      BY <1>1, <1>5 DEF RestTake, ClientTypes
    <2>2. \A d \in Clients \ {c} : got'[d] = got[d]
      BY <1>1, <2>1 DEF Receive, ClientTypes
    <2>3. OnlyOf(c)
      BY <1>3, <2>1, <2>2 DEF OnlyOf, chanVars
    <2>4. ClientInv(c)'
      BY <1>2, <1>3, <1>5, <2>1, TakeClient
    <2> QED BY <1>2, <2>3, <2>4, ClientStream
  <1> QED BY <1>4, <1>5

LEMMA StutterStream == ASSUME IInv, StreamInv, UNCHANGED vars PROVE StreamInv'
  <1>1. UNCHANGED << rows, event >> /\ Unwritten' = Unwritten
    BY DEF vars, tableVars, fanVars, Unwritten
  <1>2. \A c \in Clients : Still(c) /\ OnItsWay(c)' = OnItsWay(c)
    BY DEF vars, fanVars, chanVars, clientVars, Still, OnItsWay
  <1> QED BY <1>1, <1>2, StillRows, StillClient DEF StreamInv

LEMMA NextStream ==
  ASSUME ResumeFrom = "seen", IInv, StreamInv, Fits, [Next]_vars PROVE StreamInv'
  <1>1. ASSUME NEW c \in Clients, Stream(c) PROVE StreamInv'
    BY <1>1, ConnectStream, ListStream, ReplayStream, LiveStream DEF Stream
  <1>2. ASSUME NEW c \in Clients, Rest(c) PROVE StreamInv'
    BY <1>2, ListStream, RestStream DEF Rest
  <1>3. ASSUME HandleEvent PROVE StreamInv'
    BY <1>3, Apart, ThreadStream, InsertStream, DrainStream, SendStream
    DEF HandleEvent, CreateMessage
  <1>4. ASSUME NEW t \in Writers, Write(t) \/ CreateMessage(t) PROVE StreamInv'
    BY <1>4, Apart, ThreadStream, InsertStream DEF CreateMessage
  <1> QED BY <1>1, <1>2, <1>3, <1>4, TakeStream, StutterStream DEF Next

\* While the transcript fits in one replay, every state of a stream whose
\* clients resume after the last row they got satisfies StreamInv.
THEOREM StreamIsComplete ==
  ASSUME ResumeFrom = "seen" PROVE Spec /\ []Fits => []StreamInv
  <1>1. IInv /\ StreamInv /\ Fits /\ [Next]_vars => StreamInv'
    BY NextStream
  <1> QED BY <1>1, InitStream, StreamInvariance, PTL DEF Spec

\* handleStreamWorkspace subscribes before it lists, so a client whose rows are
\* loaded has got, or will get, each persisted event, but for those its full
\* channel has dropped: whatever the interleaving, the capacity and the number
\* of connections, as long as replayPersisted's one page holds the transcript.
THEOREM StreamHasNoHole ==
  ASSUME ResumeFrom = "seen" PROVE Spec /\ []Fits => []NoHole
  <1>1. StreamInv => NoHole
    BY DEF StreamInv, ClientInv, HoleInv, NoHole
  <1> QED BY <1>1, StreamIsComplete, PTL

\* Under the same assumptions a client sees the events in the agent's order,
\* except those that a full channel dropped or that are in no row.
THEOREM EventsComeInOrder ==
  ASSUME ResumeFrom = "seen" PROVE Spec /\ []Fits => []InOrder
  <1>1. StreamInv => InOrder
    BY DEF StreamInv, ClientInv, OrderInv, InOrder
  <1> QED BY <1>1, StreamIsComplete, PTL
=============================================================================
