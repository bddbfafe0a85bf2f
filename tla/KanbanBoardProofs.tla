------------------------- MODULE KanbanBoardProofs -------------------------
(***************************************************************************)
(* The order of the issues of a project, for any issues, columns and       *)
(* crashes.                                                                *)
(*                                                                         *)
(* IInv is inductive for any requests.  OrderInv is inductive for one      *)
(* creator and one editor: two creations at once can tie, and so can a     *)
(* list that was made from another one than the last.                      *)
(***************************************************************************)
EXTENDS KanbanBoard, FiniteSetTheorems, SequenceTheorems, WellFoundedInduction, TLAPS

\* What TypeOK says of the locals of a request.
Locals == [it : Issues \cup {None}, column : Columns \cup {None}, ids : Lists, n : Nat]

CreateSteps == {"create.project", "create.max", "create.insert", "create.get"}

TxSteps == {"reorder.update", "reorder.commit"}

ReorderSteps == {"reorder.project", "reorder.begin"} \cup TxSteps

\* The connection belongs to the reorder that is between BeginTx and Commit.
TxInv ==
  /\ \A t \in Reqs : conn = t <=> pc[t] \in TxSteps
  /\ conn = None => saved = NoRows
  /\ ~project => sort_order = NoRows /\ saved = NoRows

\* A request is of the kind that its steps are of.
RoleInv ==
  \A t \in Reqs :
    /\ pc[t] \in CreateSteps => t \in Creators
    /\ pc[t] \in Steps \ (CreateSteps \cup {"idle"}) => t \in Editors

\* In its transaction the issues of the list have their new places as far as it
\* has got, and the others their old ones.
Moved(t) ==
  LET l == loc[t] IN
  /\ l.n <= Len(l.ids)
  /\ pc[t] = "reorder.commit" => l.n = Len(l.ids)
  /\ \A i \in Issues : sort_order[i] = None <=> saved[i] = None
  /\ \A k \in 1..l.n : l.ids[k] \in Rows => sort_order[l.ids[k]] = k - 1
  /\ \A i \in Rows : (\A k \in 1..l.n : l.ids[k] # i) => sort_order[i] = saved[i]

MoveInv ==
  \A t \in Reqs :
    /\ conn = t => Moved(t)
    /\ pc[t] \in {"reorder.project", "reorder.begin"} => loc[t].n = 0

\* A client that is gone sees nothing, and one that is there reorders what it sees.
ScreenInv ==
  \A t \in Reqs :
    /\ t \in gone => view[t] = << >>
    /\ pc[t] \in ReorderSteps /\ t \notin gone => loc[t].ids \in SetToSeqs(ToSet(view[t]))

IInv == TypeOK /\ RoleInv /\ TxInv /\ MoveInv /\ ScreenInv

\* What the editor does not see comes after all it sees.
UnseenInv ==
  \A e \in Editors : project =>
    /\ ToSet(view[e]) \subseteq Rows
    /\ \A i \in Rows \ ToSet(view[e]) : Committed[i] >= Len(view[e])

\* An issue that is about to be inserted will be the last one.
LastInv ==
  \A c \in Creators : pc[c] = "create.insert" /\ project =>
    /\ \A i \in Rows : Committed[i] < loc[c].n
    /\ \A e \in Editors : Len(view[e]) <= loc[c].n

OrderInv == DistinctOrders /\ UnseenInv /\ LastInv

-----------------------------------------------------------------------------
(* Lists: each issue at most once.                                         *)

\* A list of a finite set, as SetToSeqs makes them, has each of its elements once.
LEMMA ListOfSet ==
  ASSUME NEW S, IsFiniteSet(S), NEW s \in SetToSeqs(S)
  PROVE  /\ Cardinality(S) \in Nat /\ Len(s) = Cardinality(S)
         /\ s \in [1..Len(s) -> S]
         /\ \A i, j \in 1..Len(s) : s[i] = s[j] => i = j
         /\ ToSet(s) = S
<1> DEFINE n == Cardinality(S)
<1>1. n \in Nat
  BY FS_CardinalityType
<1>2. s \in [1..n -> S] /\ \A i, j \in 1..n : i # j => s[i] # s[j]
  BY DEF SetToSeqs
<1>3. Len(s) = n /\ DOMAIN s = 1..n
  <2>1. s \in Seq(S)
    BY <1>1, <1>2, IsASeq
  <2> QED
    BY <1>1, <1>2, <2>1, LenProperties
<1>4. s \in Injection(1..n, S)
  BY <1>2 DEF Injection, IsInjective
<1>5. Cardinality(1..n) = n
  BY <1>1, FS_Interval
<1>6. s \in Surjection(1..n, S)
  BY <1>4, <1>5, FS_Injection
<1>7. \A x \in S : \E k \in 1..n : s[k] = x
  BY <1>6 DEF Surjection
<1>8. ToSet(s) = S
  BY <1>2, <1>3, <1>7 DEF ToSet
<1> QED
  BY <1>1, <1>2, <1>3, <1>8

\* Such a sequence is one of the lists of its elements.
LEMMA ListOfSeq ==
  ASSUME NEW n \in Nat, NEW s \in [1..n -> Issues],
         \A i, j \in 1..n : s[i] = s[j] => i = j
  PROVE  s \in SetToSeqs(ToSet(s)) /\ s \in Lists
<1> DEFINE T == ToSet(s)
<1>1. T = {s[k] : k \in 1..n} /\ T \subseteq Issues
  BY DEF ToSet
<1>2. IsFiniteSet(T)
  BY <1>1, FS_Subset, KanbanBoardAssumption
<1>3. s \in [1..n -> T]
  BY <1>1
<1>4. s \in Injection(1..n, T) /\ s \in Surjection(1..n, T)
  BY <1>1, <1>3 DEF Injection, Surjection, IsInjective
<1>5. IsFiniteSet(1..n) /\ Cardinality(1..n) = n
  BY FS_Interval
<1>6. Cardinality(T) = n
  BY <1>2, <1>4, <1>5, FS_Injection
<1>7. s \in SetToSeqs(T)
  BY <1>3, <1>6 DEF SetToSeqs
<1> QED
  BY <1>1, <1>7 DEF Lists

\* What holds of a member of Lists.
LEMMA ListFacts ==
  ASSUME NEW s \in Lists
  PROVE  /\ Len(s) \in Nat /\ Len(s) = Cardinality(ToSet(s))
         /\ s \in [1..Len(s) -> Issues]
         /\ \A i, j \in 1..Len(s) : s[i] = s[j] => i = j
         /\ ToSet(s) \subseteq Issues /\ IsFiniteSet(ToSet(s))
         /\ s \in SetToSeqs(ToSet(s))
<1>1. PICK S \in SUBSET Issues : s \in SetToSeqs(S)
  BY DEF Lists
<1>2. IsFiniteSet(S)
  BY FS_Subset, KanbanBoardAssumption
<1>3. /\ Cardinality(S) \in Nat /\ Len(s) = Cardinality(S)
      /\ s \in [1..Len(s) -> S]
      /\ \A i, j \in 1..Len(s) : s[i] = s[j] => i = j
      /\ ToSet(s) = S
  BY <1>1, <1>2, ListOfSet
<1> QED
  BY <1>1, <1>2, <1>3

\* Lists has the lists of every set of issues.
LEMMA ListsOfSubsets ==
  ASSUME NEW S \in SUBSET Issues, NEW s \in SetToSeqs(S)
  PROVE  s \in Lists
BY DEF Lists

\* The list of no issues.
LEMMA EmptyList == << >> \in Lists /\ ToSet(<< >>) = {} /\ Len(<< >>) = 0
<1>1. << >> \in [1..0 -> Issues] /\ \A i, j \in 1..0 : << >>[i] = << >>[j] => i = j
  OBVIOUS
<1>2. ToSet(<< >>) = {}
  BY DEF ToSet
<1> QED
  BY <1>1, <1>2, ListOfSeq

\* What SubSeq returns within a sequence of issues.
LEMMA SubSeqFacts ==
  ASSUME NEW s \in Seq(Issues), NEW m \in Int, NEW n \in Int, 1 <= m, n <= Len(s)
  PROVE  /\ SubSeq(s, m, n) \in Seq(Issues)
         /\ Len(SubSeq(s, m, n)) = IF m <= n THEN n - m + 1 ELSE 0
         /\ \A i \in 1..(n - m + 1) : SubSeq(s, m, n)[i] = s[m + i - 1]
<1>1. \A i \in m..n : s[i] \in Issues
  BY ElementOfSeq, LenProperties
<1> QED
  BY <1>1, SubSeqProperties

\* RemoveAt moves what is behind the place one place forward.
LEMMA RemoveAtList ==
  ASSUME NEW n \in Nat, NEW s \in [1..n -> Issues], NEW k \in 1..n
  PROVE  RemoveAt(s, k) = [j \in 1..(n - 1) |-> IF j < k THEN s[j] ELSE s[j + 1]]
<1>1. s \in Seq(Issues) /\ Len(s) = n
  BY IsASeq, LenProperties
<1>2. PICK m \in Nat, d \in Nat, p \in Nat : m = k + 1 /\ d = n - k /\ p = k - 1
  OBVIOUS
<1>3. k \in Nat /\ n = d + p + 1 /\ k = p + 1 /\ m = p + 2
  BY <1>2
<1> DEFINE a == SubSeq(s, 1, p)
           b == SubSeq(s, m, n)
           r == [j \in 1..(n - 1) |-> IF j < k THEN s[j] ELSE s[j + 1]]
<1>4. /\ a \in Seq(Issues) /\ Len(a) = p
      /\ \A i \in 1..p : a[i] = s[i]
  <2>1. /\ a \in Seq(Issues) /\ Len(a) = IF 1 <= p THEN p - 1 + 1 ELSE 0
        /\ \A i \in 1..(p - 1 + 1) : a[i] = s[1 + i - 1]
    BY <1>1, <1>3, SubSeqFacts
  <2> HIDE DEF a
  <2> QED
    BY <2>1
<1>5. /\ b \in Seq(Issues) /\ Len(b) = d
      /\ \A i \in 1..d : b[i] = s[p + 1 + i]
  <2>1. /\ b \in Seq(Issues) /\ Len(b) = IF m <= n THEN n - m + 1 ELSE 0
        /\ \A i \in 1..(n - m + 1) : b[i] = s[m + i - 1]
    BY <1>1, <1>3, SubSeqFacts
  <2> HIDE DEF b
  <2>2. n - m + 1 = d /\ (m > n => d = 0)
    BY <1>3
  <2>3. \A i \in 1..d : m + i - 1 = p + 1 + i
    BY <1>3
  <2>4. Len(b) = d
    BY <2>1, <2>2, <1>3
  <2> QED
    BY <2>1, <2>2, <2>3, <2>4
<1> HIDE DEF a, b
<1>6. /\ a \o b \in Seq(Issues) /\ Len(a \o b) = p + d
      /\ \A i \in 1..(p + d) : (a \o b)[i] = IF i <= p THEN a[i] ELSE b[i - p]
  <2>1. /\ a \o b \in Seq(Issues)
        /\ Len(a \o b) = Len(a) + Len(b)
        /\ \A i \in 1..(Len(a) + Len(b)) :
             (a \o b)[i] = IF i <= Len(a) THEN a[i] ELSE b[i - Len(a)]
    BY <1>4, <1>5, ConcatProperties, Zenon
  <2> QED
    BY <1>4, <1>5, <2>1
<1>7. n - 1 = p + d
  BY <1>3
<1>8. r \in [1..(p + d) -> Issues] /\ r \in Seq(Issues) /\ Len(r) = p + d
  <2>1. r \in [1..(p + d) -> Issues]
    BY <1>3, <1>7
  <2> QED
    BY <2>1, IsASeq, LenProperties
<1>9. ASSUME NEW i \in 1..(p + d) PROVE (a \o b)[i] = r[i]
  <2>1. i \in Nat /\ (i <= p \/ i > p) /\ (i < k <=> i <= p)
    BY <1>3
  <2>2. r[i] = IF i < k THEN s[i] ELSE s[i + 1]
    BY <1>7
  <2>3. CASE i <= p
    BY <2>1, <2>2, <2>3, <1>4, <1>6
  <2>4. CASE i > p
    <3>1. i - p \in 1..d /\ p + 1 + (i - p) = i + 1
      BY <2>1, <2>4
    <3>2. b[i - p] = s[i + 1]
      BY <3>1, <1>5
    <3> QED
      BY <2>1, <2>2, <2>4, <3>2, <1>6
  <2> QED
    BY <2>1, <2>3, <2>4
<1>10. a \o b = r
  <2> HIDE DEF r
  <2> QED
    BY <1>6, <1>8, <1>9, SeqEqual
<1> QED
  BY <1>1, <1>2, <1>10 DEF a, b, RemoveAt

\* RemoveFirst takes the issue out of the list.
LEMMA RemoveFromList ==
  ASSUME NEW s \in Lists, NEW e
  PROVE  RemoveFirst(s, e) \in Lists /\ ToSet(RemoveFirst(s, e)) = ToSet(s) \ {e}
<1> DEFINE n == Len(s)
<1>1. /\ n \in Nat /\ s \in [1..n -> Issues] /\ s \in Seq(Issues)
      /\ \A i, j \in 1..n : s[i] = s[j] => i = j
  BY ListFacts, IsASeq
<1>2. ToSet(s) = {s[k] : k \in 1..n}
  BY <1>1 DEF ToSet
<1>3. CASE ~ \E k \in 1..n : s[k] = e
  <2>1. RemoveFirst(s, e) = s
    BY <1>3 DEF RemoveFirst
  <2> QED
    BY <1>2, <1>3, <2>1
<1>4. ASSUME NEW k \in 1..n, s[k] = e
      PROVE  RemoveFirst(s, e) \in Lists /\ ToSet(RemoveFirst(s, e)) = ToSet(s) \ {e}
  <2> DEFINE I == {j \in 1..n : s[j] = e}
             r == [j \in 1..(n - 1) |-> IF j < k THEN s[j] ELSE s[j + 1]]
  <2>1. I = {k}
    BY <1>1, <1>4
  <2>2. Min(I) = k
    BY <2>1, <1>1 DEF Min
  <2>3. SelectInSeq(s, LAMBDA v : v = e) = k
    BY <2>1, <2>2 DEF SelectInSeq
  <2>4. RemoveFirst(s, e) = RemoveAt(s, k)
    BY <1>4, <2>3 DEF RemoveFirst
  <2>5. RemoveFirst(s, e) = r
    BY <1>1, <2>4, RemoveAtList
  <2>6. n - 1 \in Nat /\ r \in [1..(n - 1) -> Issues]
    BY <1>1
  <2>7. \A i, j \in 1..(n - 1) : r[i] = r[j] => i = j
    BY <1>1
  <2>8. r \in Lists
    BY <2>6, <2>7, ListOfSeq
  <2>9. ToSet(r) = {r[j] : j \in 1..(n - 1)}
    BY <2>6 DEF ToSet
  <2>10. ASSUME NEW x \in ToSet(s), x # e PROVE x \in ToSet(r)
    <3>1. PICK j \in 1..n : s[j] = x
      BY <1>2, <2>10
    <3>2. CASE j < k
      BY <3>1, <3>2, <2>9, <1>1
    <3>3. CASE j > k
      <4>1. j - 1 \in 1..(n - 1) /\ r[j - 1] = x
        BY <3>1, <3>3, <1>1
      <4> QED
        BY <4>1, <2>9
    <3> QED
      BY <3>1, <3>2, <3>3, <1>4, <2>10
  <2>11. ASSUME NEW x \in ToSet(r) PROVE x \in ToSet(s) /\ x # e
    BY <2>9, <1>1, <1>2, <1>4
  <2> QED
    BY <2>5, <2>8, <2>10, <2>11
<1> QED
  BY <1>3, <1>4

-----------------------------------------------------------------------------
(* MAX(sort_order).                                                        *)

\* A set of numbers that has elements has a least one.
LEMMA LeastNumber ==
  ASSUME NEW T, T \subseteq Nat, T # {}
  PROVE  \E n \in T : \A m \in T : n <= m
<1>1. PICK n \in T : \A m \in T : ~ (<< m, n >> \in OpToRel(<, Nat))
  BY NatLessThanWellFounded, WFMin
<1>2. ASSUME NEW m \in T PROVE n <= m
  <2>1. ~ (m < n)
    BY <1>1 DEF OpToRel
  <2> QED
    BY <2>1
<1> QED
  BY <1>2

\* A finite set of numbers that has elements has a greatest one.
LEMMA GreatestNumber ==
  ASSUME NEW U, U \subseteq Nat, IsFiniteSet(U), U # {}
  PROVE  \E m \in U : \A n \in U : m >= n
<1> DEFINE Unbounded(V) == V \subseteq Nat /\ IsFiniteSet(V) /\ V # {} /\ ~ \E m \in V : \A n \in V : m >= n
           T == {n \in Nat : \E V \in SUBSET Nat : Unbounded(V) /\ Cardinality(V) = n}
<1> SUFFICES ASSUME T # {} PROVE FALSE
  BY FS_CardinalityType
<1>1. PICK n \in T : \A m \in T : n <= m
  <2> HIDE DEF T
  <2>1. T \subseteq Nat
    BY DEF T
  <2> QED
    BY <2>1, LeastNumber
<1>2. PICK V \in SUBSET Nat : Unbounded(V) /\ Cardinality(V) = n
  OBVIOUS
<1>3. PICK x \in V : TRUE
  BY <1>2
<1> DEFINE W == V \ {x}
<1>4. W \subseteq Nat /\ IsFiniteSet(W) /\ Cardinality(W) = n - 1 /\ n \in Nat
  BY <1>2, <1>3, FS_RemoveElement
<1>5. W # {}
  <2> SUFFICES ASSUME W = {} PROVE FALSE
    OBVIOUS
  <2>1. V = {x}
    BY <1>3
  <2> QED
    BY <1>2, <2>1
<1>6. n - 1 \in Nat
  BY <1>4, FS_CardinalityType
<1>7. PICK m \in W : \A y \in W : m >= y
  <2>1. n - 1 \notin T
    BY <1>1, <1>4
  <2>2. ~ Unbounded(W)
    BY <2>1, <1>4, <1>6
  <2> QED
    BY <2>2, <1>4, <1>5
<1>8. m \in V /\ x \in V /\ m \in Nat /\ x \in Nat /\ \A y \in V : y = x \/ m >= y
  BY <1>2, <1>3, <1>7
<1>9. CASE m >= x
  BY <1>2, <1>8, <1>9
<1>10. CASE x >= m
  <2>1. \A y \in V : x >= y
    BY <1>2, <1>8, <1>10
  <2> QED
    BY <1>2, <1>3, <2>1
<1> QED
  BY <1>8, <1>9, <1>10

\* None is nothing else.
LEMMA NoneFacts == None \notin Reqs /\ None \notin Issues /\ None \notin Nat
BY KanbanBoardAssumption

\* The place of a new issue is behind those of all issues.
NextPlace == IF Rows = {} THEN 0 ELSE Max({sort_order[i] : i \in Rows}) + 1

LEMMA NextPlaceIsLast ==
  ASSUME sort_order \in [Issues -> Nat \cup {None}]
  PROVE  NextPlace \in Nat /\ \A i \in Rows : sort_order[i] < NextPlace
<1> DEFINE U == {sort_order[i] : i \in Rows}
<1>1. CASE Rows = {}
  BY <1>1 DEF NextPlace
<1>2. CASE Rows # {}
  <2>1. U \subseteq Nat /\ U # {}
    BY <1>2 DEF Rows
  <2>2. IsFiniteSet(Rows)
    BY FS_Subset, KanbanBoardAssumption DEF Rows
  <2>3. IsFiniteSet(U)
    <3> DEFINE f == [i \in Rows |-> sort_order[i]]
    <3>1. f \in Surjection(Rows, U)
      BY DEF Surjection
    <3> QED
      BY <2>2, <3>1, FS_Surjection
  <2> HIDE DEF U
  <2>4. Max(U) \in U /\ \A n \in U : Max(U) >= n
    BY <2>1, <2>3, GreatestNumber DEF Max
  <2>5. \A i \in Rows : sort_order[i] \in U
    BY DEF U
  <2>6. NextPlace = Max(U) + 1
    BY <1>2 DEF NextPlace, U
  <2>7. PICK m \in Nat : m = Max(U) /\ \A n \in U : m >= n
    BY <2>1, <2>4
  <2>8. ASSUME NEW i \in Rows PROVE sort_order[i] < m + 1
    <3>1. PICK x \in U : x = sort_order[i]
      BY <2>5
    <3>2. x \in Nat /\ m >= x
      BY <2>1, <2>7, <3>1
    <3> QED
      BY <3>1, <3>2
  <2> QED
    BY <2>6, <2>7, <2>8
<1> QED
  BY <1>1, <1>2
-----------------------------------------------------------------------------
(* IInv is inductive.                                                     *)

\* What the first statement of a handler leads to.
LEMMA GetProjectMoves ==
  ASSUME TypeOK, NEW t \in Reqs, GetProject(t)
  PROVE  /\ UNCHANGED << rowVars, txVars, view, crashes >> /\ CanRun(t)
         /\ pc[t] \in {"create.project", "list.project", "reorder.project"}
         /\ \/ Return(t)
            \/ pc[t] = "create.project" /\ Goto(t, "create.max")
            \/ pc[t] = "list.project" /\ Goto(t, "list.rows")
            \/ pc[t] = "reorder.project" /\ Goto(t, "reorder.begin")
<1> DEFINE P == { << "create.project", "create.max" >>, << "list.project", "list.rows" >>,
                  << "reorder.project", "reorder.begin" >> }
<1>1. PICK p \in P : pc[t] = p[1] /\ (Goto(t, p[2]) \/ Return(t))
  BY DEF GetProject
<1>2. UNCHANGED << rowVars, txVars, view, crashes >> /\ CanRun(t)
  BY DEF GetProject
<1>3. \/ p[1] = "create.project" /\ p[2] = "create.max"
      \/ p[1] = "list.project" /\ p[2] = "list.rows"
      \/ p[1] = "reorder.project" /\ p[2] = "reorder.begin"
  OBVIOUS
<1> QED
  BY <1>1, <1>2, <1>3

\* The steps an editor may begin with.
LEMMA EditForms ==
  ASSUME TypeOK, NEW t \in Reqs, EditRequest(t)
  PROVE  /\ t \in Editors
         /\ \E step \in {"list.project", "reorder.project", "delete.write", "update.write", "drop.write"},
               l \in Locals :
              /\ Request(t, step, l)
              /\ l.n = 0
              /\ step = "reorder.project" => l.ids \in SetToSeqs(ToSet(view[t]))
<1> USE DEF NoLocals, Locals
<1>1. t \in Editors /\ FirstColumn \in Columns
  BY KanbanBoardAssumption DEF EditRequest
<1>2. NoLocals \in Locals
  BY <1>1, EmptyList
<1>3. view[t] \in Lists /\ ToSet(view[t]) \subseteq Issues
  BY ListFacts DEF TypeOK
<1>4. CASE Request(t, "list.project", NoLocals) \/ Request(t, "drop.write", NoLocals)
  BY <1>1, <1>2, <1>4
<1>5. ASSUME NEW list \in SetToSeqs(ToSet(view[t])),
             Request(t, "reorder.project", [NoLocals EXCEPT !.ids = list])
      PROVE  \E l \in Locals : Request(t, "reorder.project", l) /\ l.n = 0 /\ l.ids = list
  <2>1. list \in Lists
    BY <1>3, ListsOfSubsets
  <2> QED
    BY <1>1, <1>5, <2>1
<1>6. ASSUME NEW i \in ToSet(view[t]), NEW c \in Columns \cup {None},
             NEW step \in {"delete.write", "update.write"},
             \/ Request(t, step, [NoLocals EXCEPT !.it = i])
             \/ Request(t, step, [NoLocals EXCEPT !.it = i, !.column = c])
      PROVE  \E l \in Locals : Request(t, step, l) /\ l.n = 0
  <2>1. [NoLocals EXCEPT !.it = i] \in Locals /\ [NoLocals EXCEPT !.it = i].n = 0
    BY <1>1, <1>3, EmptyList
  <2>2. [NoLocals EXCEPT !.it = i, !.column = c] \in Locals /\ [NoLocals EXCEPT !.it = i, !.column = c].n = 0
    BY <1>1, <1>3, EmptyList
  <2> QED
    BY <1>6, <2>1, <2>2
<1> HIDE DEF NoLocals, Locals
<1>7. CASE \E list \in SetToSeqs(ToSet(view[t])) :
             Request(t, "reorder.project", [NoLocals EXCEPT !.ids = list])
  BY <1>1, <1>5, <1>7
<1>8. CASE \E i \in ToSet(view[t]) : Request(t, "delete.write", [NoLocals EXCEPT !.it = i])
  BY <1>1, <1>6, <1>8
<1>9. CASE \E i \in ToSet(view[t]), c \in Columns \cup {None} :
             Request(t, "update.write", [NoLocals EXCEPT !.it = i, !.column = c])
  BY <1>1, <1>6, <1>9
<1> QED
  BY <1>4, <1>7, <1>8, <1>9 DEF EditRequest

\* Steps that leave the transaction and its request alone.
LEMMA MovedFrame ==
  ASSUME NEW u, Moved(u), UNCHANGED << sort_order, saved >>, loc'[u] = loc[u], pc'[u] = pc[u]
  PROVE  Moved(u)'
BY DEF Moved, Rows

\* One UPDATE of the transaction puts the next issue of the list into its place.
LEMMA UpdateMoves ==
  ASSUME IInv, NEW t \in Reqs, ReorderUpdate(t)
  PROVE  /\ conn = t /\ Moved(t)' /\ Rows' = Rows
         /\ pc'[t] \in TxSteps /\ UNCHANGED << project, column, txVars, gone, view, crashes >>
         /\ \A u \in Reqs \ {t} : loc'[u] = loc[u] /\ pc'[u] = pc[u]
<1> USE NoneFacts
<1>1. conn = t /\ pc[t] = "reorder.update"
  BY DEF IInv, TxInv, TxSteps, ReorderUpdate
<1>2. Moved(t)
  BY <1>1 DEF IInv, MoveInv
<1> DEFINE l == loc[t]
<1>3. /\ l \in Locals /\ l.n \in Nat /\ l.ids \in Lists
      /\ sort_order \in [Issues -> Nat \cup {None}] /\ pc \in [Reqs -> Steps]
      /\ loc \in [Reqs -> Locals]
  BY DEF IInv, TypeOK, Locals
<1>4. /\ Len(l.ids) \in Nat
      /\ \A i, j \in 1..Len(l.ids) : l.ids[i] = l.ids[j] => i = j
      /\ \A i \in 1..Len(l.ids) : l.ids[i] \in Issues
  BY <1>3, ListFacts
<1>5. UNCHANGED << project, column, txVars, gone, view, crashes >>
  BY DEF ReorderUpdate, Goto
<1>6. CASE l.n < Len(l.ids)
  <2> DEFINE x == l.ids[l.n + 1]
  <2>1. /\ sort_order' = [i \in Issues |-> IF i = x /\ i \in Rows THEN l.n ELSE sort_order[i]]
        /\ loc' = [loc EXCEPT ![t].n = @ + 1] /\ pc' = pc
    BY <1>6 DEF ReorderUpdate
  <2>2. \A i \in Issues : sort_order'[i] = None <=> sort_order[i] = None
    BY <2>1, <1>3 DEF Rows
  <2>3. Rows' = Rows
    BY <2>2 DEF Rows
  <2>4. loc'[t].n = l.n + 1 /\ loc'[t].ids = l.ids
    BY <2>1, <1>3 DEF Locals
  <2>5. PICK m \in Nat : m = l.n + 1 /\ m <= Len(l.ids)
    BY <1>3, <1>4, <1>6
  <2>6. ASSUME NEW k \in 1..m, l.ids[k] \in Rows PROVE sort_order'[l.ids[k]] = k - 1
    <3>1. CASE k = m
      BY <3>1, <2>1, <2>5, <2>6, <1>3 DEF Rows
    <3>2. CASE k # m
      <4>1. k \in 1..l.n /\ k \in 1..Len(l.ids) /\ m \in 1..Len(l.ids)
        BY <3>2, <2>5, <1>3, <1>4
      <4>2. l.ids[k] # x
        BY <4>1, <3>2, <2>5, <1>4
      <4> QED
        BY <4>1, <4>2, <2>1, <2>6, <1>2, <1>3 DEF Rows, Moved
    <3> QED
      BY <3>1, <3>2
  <2>7. ASSUME NEW i \in Rows, \A k \in 1..m : l.ids[k] # i PROVE sort_order'[i] = saved[i]
    <3>1. m \in 1..m /\ \A k \in 1..l.n : k \in 1..m
      BY <2>5, <1>3
    <3>2. i # x /\ \A k \in 1..l.n : l.ids[k] # i
      BY <3>1, <2>5, <2>7
    <3> QED
      BY <3>2, <2>1, <1>2 DEF Rows, Moved
  <2>8. Moved(t)'
    <3> HIDE DEF l
    <3>1. \A i \in Issues : sort_order'[i] = None <=> saved'[i] = None
      BY <2>2, <1>2, <1>5 DEF Moved, txVars
    <3>2. pc'[t] # "reorder.commit"
      BY <2>1, <1>1
    <3> QED
      BY <3>1, <3>2, <2>3, <2>4, <2>5, <2>6, <2>7, <1>5 DEF Moved, txVars
  <2>9. \A u \in Reqs \ {t} : loc'[u] = loc[u] /\ pc'[u] = pc[u]
    BY <2>1, <1>3
  <2> QED
    BY <1>1, <1>5, <2>1, <2>3, <2>8, <2>9 DEF TxSteps
<1>7. CASE ~ (l.n < Len(l.ids))
  <2>1. UNCHANGED << sort_order, loc >> /\ pc' = [pc EXCEPT ![t] = "reorder.commit"]
    BY <1>7 DEF ReorderUpdate, Goto
  <2>2. Rows' = Rows
    BY <2>1 DEF Rows
  <2>3. l.n = Len(l.ids)
    BY <1>2, <1>3, <1>4, <1>7 DEF Moved
  <2>4. Moved(t)'
    BY <2>1, <2>2, <2>3, <1>2, <1>5 DEF Moved, txVars
  <2> QED
    BY <1>1, <1>3, <1>5, <2>1, <2>2, <2>4 DEF TxSteps
<1> QED
  BY <1>6, <1>7

\* Handlers go on with their own steps.
LEMMA RoleStep ==
  ASSUME IInv, [Next]_vars, TypeOK'
  PROVE  RoleInv'
<1> USE NoneFacts DEF IInv, TypeOK, Reqs, RoleInv, CreateSteps, Steps, NoLocals, rowVars, txVars
<1>1. ASSUME NEW t \in Reqs, CreateRequest(t) PROVE RoleInv'
  BY <1>1 DEF CreateRequest, Request
<1>2. ASSUME NEW t \in Reqs, EditRequest(t) PROVE RoleInv'
  BY <1>2, EditForms DEF Request
<1>3. ASSUME NEW t \in Reqs, Disconnect(t) PROVE RoleInv'
  BY <1>3 DEF Disconnect
<1>4. ASSUME NEW t \in Reqs, GetProject(t) PROVE RoleInv'
  BY <1>4, GetProjectMoves DEF CanRun, Goto, Return
<1>5. ASSUME NEW t \in Reqs, Abort(t) PROVE RoleInv'
  BY <1>5 DEF Abort, Return
<1>6. ASSUME NEW t \in Reqs, CreateMax(t) PROVE RoleInv'
  BY <1>6 DEF CreateMax, CanRun
<1>7. ASSUME NEW t \in Reqs, CreateInsert(t) PROVE RoleInv'
  BY <1>7 DEF CreateInsert, CanRun, Goto, Return
<1>8. ASSUME NEW t \in Reqs, GetIssue(t) PROVE RoleInv'
  BY <1>8 DEF GetIssue, CanRun, Return
<1>9. ASSUME NEW t \in Reqs, List(t) PROVE RoleInv'
  BY <1>9 DEF List, CanRun, Return
<1>10. ASSUME NEW t \in Reqs, ReorderBegin(t) PROVE RoleInv'
  BY <1>10 DEF ReorderBegin, CanRun, Goto
<1>11. ASSUME NEW t \in Reqs, ReorderUpdate(t) PROVE RoleInv'
  BY <1>11 DEF ReorderUpdate, CanRun, Goto
<1>12. ASSUME NEW t \in Reqs, ReorderCommit(t) PROVE RoleInv'
  BY <1>12 DEF ReorderCommit, CanRun, Goto
<1>13. ASSUME NEW t \in Reqs, UpdateIssue(t) PROVE RoleInv'
  BY <1>13 DEF UpdateIssue, CanRun, Goto, Return
<1>14. ASSUME NEW t \in Reqs, DeleteIssue(t) PROVE RoleInv'
  BY <1>14 DEF DeleteIssue, CanRun, Return
<1>15. ASSUME NEW t \in Reqs, DeleteProject(t) PROVE RoleInv'
  BY <1>15 DEF DeleteProject, CanRun, Return
<1>16. CASE Crash
  BY <1>16 DEF Crash
<1>17. CASE UNCHANGED vars
  BY <1>17 DEF vars
<1> QED
  BY <1>1, <1>2, <1>3, <1>4, <1>5, <1>6, <1>7, <1>8, <1>9, <1>10, <1>11, <1>12,
     <1>13, <1>14, <1>15, <1>16, <1>17 DEF Next, Handle

\* Only BeginTx takes the connection, and every end of the transaction gives it back.
LEMMA TxStep ==
  ASSUME IInv, [Next]_vars, TypeOK'
  PROVE  TxInv'
<1> USE NoneFacts DEF IInv, TypeOK, Reqs, TxInv, TxSteps, NoRows, NoLocals, rowVars, txVars
<1>1. ASSUME NEW t \in Reqs, CreateRequest(t) PROVE TxInv'
  BY <1>1 DEF CreateRequest, Request
<1>2. ASSUME NEW t \in Reqs, EditRequest(t) PROVE TxInv'
  BY <1>2, EditForms DEF Request
<1>3. ASSUME NEW t \in Reqs, Disconnect(t) PROVE TxInv'
  BY <1>3 DEF Disconnect
<1>4. ASSUME NEW t \in Reqs, GetProject(t) PROVE TxInv'
  <2>1. /\ UNCHANGED << project, sort_order, conn, saved >>
        /\ pc[t] \notin TxSteps /\ pc'[t] \notin TxSteps
        /\ \A u \in Reqs \ {t} : pc'[u] = pc[u]
    <3>1. UNCHANGED << project, sort_order, conn, saved >> /\ pc[t] \notin TxSteps
      BY <1>4, GetProjectMoves
    <3>2. PICK step \in {"idle", "create.max", "list.rows", "reorder.begin"} : pc' = [pc EXCEPT ![t] = step]
      BY <1>4, GetProjectMoves DEF Goto, Return
    <3> QED
      BY <3>1, <3>2
  <2> QED
    BY <2>1
<1>5. ASSUME NEW t \in Reqs, Abort(t) PROVE TxInv'
  BY <1>5 DEF Abort, Return
<1>6. ASSUME NEW t \in Reqs, CreateMax(t) PROVE TxInv'
  BY <1>6 DEF CreateMax, CanRun
<1>7. ASSUME NEW t \in Reqs, CreateInsert(t) PROVE TxInv'
  BY <1>7 DEF CreateInsert, CanRun, Goto, Return
<1>8. ASSUME NEW t \in Reqs, GetIssue(t) PROVE TxInv'
  BY <1>8 DEF GetIssue, CanRun, Return
<1>9. ASSUME NEW t \in Reqs, List(t) PROVE TxInv'
  BY <1>9 DEF List, CanRun, Return
<1>10. ASSUME NEW t \in Reqs, ReorderBegin(t) PROVE TxInv'
  BY <1>10 DEF ReorderBegin, CanRun, Goto
<1>11. ASSUME NEW t \in Reqs, ReorderUpdate(t) PROVE TxInv'
  <2>1. /\ conn = t /\ Rows' = Rows /\ pc'[t] \in TxSteps
        /\ UNCHANGED << project, conn, saved >> /\ \A u \in Reqs \ {t} : pc'[u] = pc[u]
    BY <1>11, UpdateMoves
  <2>2. \A u \in Reqs : conn' = u <=> pc'[u] \in TxSteps
    BY <2>1
  <2>3. ASSUME ~project PROVE sort_order' = NoRows
    <3>1. Rows = {}
      BY <2>3 DEF Rows
    <3>2. \A i \in Issues : sort_order'[i] = None
      BY <2>1, <3>1 DEF Rows
    <3> QED
      BY <3>2
  <2> QED
    BY <2>1, <2>2, <2>3
<1>12. ASSUME NEW t \in Reqs, ReorderCommit(t) PROVE TxInv'
  BY <1>12 DEF ReorderCommit, CanRun, Goto
<1>13. ASSUME NEW t \in Reqs, UpdateIssue(t) PROVE TxInv'
  BY <1>13 DEF UpdateIssue, CanRun, Goto, Return
<1>14. ASSUME NEW t \in Reqs, DeleteIssue(t) PROVE TxInv'
  BY <1>14 DEF DeleteIssue, CanRun, Return
<1>15. ASSUME NEW t \in Reqs, DeleteProject(t) PROVE TxInv'
  BY <1>15 DEF DeleteProject, CanRun, Return
<1>16. CASE Crash
  BY <1>16 DEF Crash
<1>17. CASE UNCHANGED vars
  BY <1>17 DEF vars
<1> QED
  BY <1>1, <1>2, <1>3, <1>4, <1>5, <1>6, <1>7, <1>8, <1>9, <1>10, <1>11, <1>12,
     <1>13, <1>14, <1>15, <1>16, <1>17 DEF Next, Handle

\* A transaction moves the issues of its list one by one and nobody else moves any.
LEMMA MoveStep ==
  ASSUME IInv, [Next]_vars, TypeOK'
  PROVE  MoveInv'
<1> USE NoneFacts DEF IInv, TypeOK, Reqs, MoveInv, TxInv, TxSteps, NoLocals, rowVars, txVars
<1>1. ASSUME NEW t \in Reqs, CreateRequest(t) PROVE MoveInv'
  <2>1. ASSUME NEW u \in Reqs, conn' = u PROVE conn = u /\ Moved(u)'
    BY <1>1, <2>1, MovedFrame DEF CreateRequest, Request
  <2>2. ASSUME NEW u \in Reqs, pc'[u] \in {"reorder.project", "reorder.begin"} PROVE loc'[u].n = 0
    BY <1>1, <2>2 DEF CreateRequest, Request
  <2> QED
    BY <2>1, <2>2
<1>2. ASSUME NEW t \in Reqs, EditRequest(t) PROVE MoveInv'
  <2>1. ASSUME NEW u \in Reqs, conn' = u PROVE conn = u /\ Moved(u)'
    BY <1>2, <2>1, MovedFrame, EditForms DEF Request
  <2>2. ASSUME NEW u \in Reqs, pc'[u] \in {"reorder.project", "reorder.begin"} PROVE loc'[u].n = 0
    BY <1>2, <2>2, EditForms DEF Request
  <2> QED
    BY <2>1, <2>2
<1>3. ASSUME NEW t \in Reqs, Disconnect(t) PROVE MoveInv'
  <2>1. ASSUME NEW u \in Reqs, conn' = u PROVE conn = u /\ Moved(u)'
    BY <1>3, <2>1, MovedFrame DEF Disconnect
  <2>2. ASSUME NEW u \in Reqs, pc'[u] \in {"reorder.project", "reorder.begin"} PROVE loc'[u].n = 0
    BY <1>3, <2>2 DEF Disconnect
  <2> QED
    BY <2>1, <2>2
<1>4. ASSUME NEW t \in Reqs, GetProject(t) PROVE MoveInv'
  BY <1>4, GetProjectMoves DEF CanRun, Goto, Return
<1>5. ASSUME NEW t \in Reqs, Abort(t) PROVE MoveInv'
  <2>1. ASSUME NEW u \in Reqs, conn' = u PROVE conn = u /\ Moved(u)'
    BY <1>5, <2>1, MovedFrame DEF Abort, Return
  <2>2. ASSUME NEW u \in Reqs, pc'[u] \in {"reorder.project", "reorder.begin"} PROVE loc'[u].n = 0
    BY <1>5, <2>2 DEF Abort, Return
  <2> QED
    BY <2>1, <2>2
<1>6. ASSUME NEW t \in Reqs, CreateMax(t) PROVE MoveInv'
  BY <1>6 DEF CreateMax, CanRun
<1>7. ASSUME NEW t \in Reqs, CreateInsert(t) PROVE MoveInv'
  BY <1>7 DEF CreateInsert, CanRun, Goto, Return
<1>8. ASSUME NEW t \in Reqs, GetIssue(t) PROVE MoveInv'
  BY <1>8 DEF GetIssue, CanRun, Return
<1>9. ASSUME NEW t \in Reqs, List(t) PROVE MoveInv'
  BY <1>9 DEF List, CanRun, Return
<1>10. ASSUME NEW t \in Reqs, ReorderBegin(t) PROVE MoveInv'
  <2>1. /\ pc[t] = "reorder.begin" /\ conn' = t /\ saved' = sort_order
        /\ UNCHANGED << sort_order, loc >> /\ pc' = [pc EXCEPT ![t] = "reorder.update"]
    BY <1>10 DEF ReorderBegin, Goto
  <2>2. loc[t].n = 0 /\ Len(loc[t].ids) \in Nat
    BY <2>1, ListFacts
  <2>3. Moved(t)'
    BY <2>1, <2>2 DEF Moved
  <2> QED
    BY <2>1, <2>3
<1>11. ASSUME NEW t \in Reqs, ReorderUpdate(t) PROVE MoveInv'
  <2>1. conn = t /\ conn' = conn /\ Moved(t)' /\ pc'[t] \in TxSteps
        /\ \A u \in Reqs \ {t} : loc'[u] = loc[u] /\ pc'[u] = pc[u]
    BY <1>11, UpdateMoves
  <2> QED
    BY <2>1
<1>12. ASSUME NEW t \in Reqs, ReorderCommit(t) PROVE MoveInv'
  BY <1>12 DEF ReorderCommit, CanRun, Goto
<1>13. ASSUME NEW t \in Reqs, UpdateIssue(t) PROVE MoveInv'
  BY <1>13 DEF UpdateIssue, CanRun, Goto, Return
<1>14. ASSUME NEW t \in Reqs, DeleteIssue(t) PROVE MoveInv'
  BY <1>14 DEF DeleteIssue, CanRun, Return
<1>15. ASSUME NEW t \in Reqs, DeleteProject(t) PROVE MoveInv'
  BY <1>15 DEF DeleteProject, CanRun, Return
<1>16. CASE Crash
  BY <1>16 DEF Crash
<1>17. CASE UNCHANGED vars
  <2>1. \A u \in Reqs : Moved(u) => Moved(u)'
    BY <1>17, MovedFrame DEF vars
  <2> QED
    BY <1>17, <2>1 DEF vars
<1> QED
  BY <1>1, <1>2, <1>3, <1>4, <1>5, <1>6, <1>7, <1>8, <1>9, <1>10, <1>11, <1>12,
     <1>13, <1>14, <1>15, <1>16, <1>17 DEF Next, Handle

\* No screen changes while its client waits for an answer.
LEMMA ScreenStep ==
  ASSUME IInv, [Next]_vars, TypeOK'
  PROVE  ScreenInv'
<1> USE NoneFacts DEF IInv, TypeOK, Reqs, ScreenInv, ReorderSteps, TxSteps, NoLocals, rowVars, txVars
<1>1. ASSUME NEW t \in Reqs, CreateRequest(t) PROVE ScreenInv'
  BY <1>1 DEF CreateRequest, Request
<1>2. ASSUME NEW t \in Reqs, EditRequest(t) PROVE ScreenInv'
  BY <1>2, EditForms DEF Request
<1>3. ASSUME NEW t \in Reqs, Disconnect(t) PROVE ScreenInv'
  BY <1>3 DEF Disconnect
<1>4. ASSUME NEW t \in Reqs, GetProject(t) PROVE ScreenInv'
  <2>1. view' = view /\ pc[t] \in {"create.project", "list.project", "reorder.project"}
    BY <1>4, GetProjectMoves
  <2>2. CASE Return(t)
    BY <2>1, <2>2 DEF Return
  <2>3. CASE pc[t] = "create.project" /\ Goto(t, "create.max")
    BY <2>1, <2>3 DEF Goto
  <2>4. CASE pc[t] = "list.project" /\ Goto(t, "list.rows")
    BY <2>1, <2>4 DEF Goto
  <2>5. CASE pc[t] = "reorder.project" /\ Goto(t, "reorder.begin")
    BY <2>1, <2>5 DEF Goto
  <2> QED
    BY <1>4, GetProjectMoves, <2>2, <2>3, <2>4, <2>5
<1>5. ASSUME NEW t \in Reqs, Abort(t) PROVE ScreenInv'
  BY <1>5 DEF Abort, Return
<1>6. ASSUME NEW t \in Reqs, CreateMax(t) PROVE ScreenInv'
  BY <1>6 DEF CreateMax, CanRun
<1>7. ASSUME NEW t \in Reqs, CreateInsert(t) PROVE ScreenInv'
  BY <1>7 DEF CreateInsert, CanRun, Goto, Return
<1>8. ASSUME NEW t \in Reqs, GetIssue(t) PROVE ScreenInv'
  BY <1>8 DEF GetIssue, CanRun, Return
<1>9. ASSUME NEW t \in Reqs, List(t) PROVE ScreenInv'
  BY <1>9 DEF List, CanRun, Return
<1>10. ASSUME NEW t \in Reqs, ReorderBegin(t) PROVE ScreenInv'
  BY <1>10 DEF ReorderBegin, CanRun, Goto
<1>11. ASSUME NEW t \in Reqs, ReorderUpdate(t) PROVE ScreenInv'
  BY <1>11 DEF ReorderUpdate, CanRun, Goto
<1>12. ASSUME NEW t \in Reqs, ReorderCommit(t) PROVE ScreenInv'
  BY <1>12 DEF ReorderCommit, CanRun, Goto
<1>13. ASSUME NEW t \in Reqs, UpdateIssue(t) PROVE ScreenInv'
  BY <1>13 DEF UpdateIssue, CanRun, Goto, Return
<1>14. ASSUME NEW t \in Reqs, DeleteIssue(t) PROVE ScreenInv'
  BY <1>14 DEF DeleteIssue, CanRun, Return
<1>15. ASSUME NEW t \in Reqs, DeleteProject(t) PROVE ScreenInv'
  BY <1>15 DEF DeleteProject, CanRun, Return
<1>16. CASE Crash
  BY <1>16 DEF Crash
<1>17. CASE UNCHANGED vars
  BY <1>17 DEF vars
<1> QED
  BY <1>1, <1>2, <1>3, <1>4, <1>5, <1>6, <1>7, <1>8, <1>9, <1>10, <1>11, <1>12,
     <1>13, <1>14, <1>15, <1>16, <1>17 DEF Next, Handle

\* The types that the ends of the steps leave.
LEMMA ReturnTypes ==
  ASSUME TypeOK, NEW t \in Reqs, Return(t)
  PROVE  pc' \in [Reqs -> Steps] /\ loc' \in [Reqs -> Locals] /\ gone' \in SUBSET Reqs
<1>1. NoLocals \in Locals
  BY KanbanBoardAssumption, EmptyList DEF NoLocals, Locals
<1> HIDE DEF NoLocals, Locals
<1>2. pc \in [Reqs -> Steps] /\ loc \in [Reqs -> Locals] /\ gone \in SUBSET Reqs
  BY DEF TypeOK, Locals
<1> QED
  BY <1>1, <1>2 DEF Return, Steps

LEMMA GotoTypes ==
  ASSUME TypeOK, NEW t \in Reqs, NEW step \in Steps, Goto(t, step)
  PROVE  pc' \in [Reqs -> Steps] /\ loc' \in [Reqs -> Locals] /\ gone' \in SUBSET Reqs
BY DEF Goto, TypeOK, Locals

LEMMA RequestTypes ==
  ASSUME TypeOK, NEW t \in Reqs, NEW step \in Steps, NEW l \in Locals, Request(t, step, l)
  PROVE  TypeOK'
<1>1. loc \in [Reqs -> Locals]
  BY DEF TypeOK, Locals
<1>2. loc' \in [Reqs -> Locals]
  BY <1>1 DEF Request
<1> QED
  BY <1>2 DEF Request, TypeOK, Locals, rowVars, txVars

LEMMA FreshLocals ==
  ASSUME NEW i \in Issues
  PROVE  [NoLocals EXCEPT !.it = i] \in Locals
BY KanbanBoardAssumption, EmptyList DEF NoLocals, Locals

\* Every step leaves the variables of their types.
LEMMA TypesStep ==
  ASSUME IInv, [Next]_vars
  PROVE  TypeOK'
<1> USE NoneFacts DEF IInv, TypeOK, rowVars, txVars, Locals
<1>0. NoLocals \in Locals /\ NoRows \in [Issues -> Nat \cup {None}] /\ FirstColumn \in Columns
  BY KanbanBoardAssumption, EmptyList DEF NoLocals, NoRows
<1>1. ASSUME NEW t \in Reqs, CreateRequest(t) PROVE TypeOK'
  <2>1. PICK i \in Issues : Request(t, "create.project", [NoLocals EXCEPT !.it = i])
    BY <1>1 DEF CreateRequest
  <2> QED
    BY <2>1, FreshLocals, RequestTypes DEF Steps
<1>2. ASSUME NEW t \in Reqs, EditRequest(t) PROVE TypeOK'
  <2>1. PICK step \in {"list.project", "reorder.project", "delete.write", "update.write", "drop.write"},
             l \in Locals : Request(t, step, l)
    BY <1>2, EditForms
  <2>2. step \in Steps
    BY DEF Steps
  <2> QED
    BY <2>1, <2>2, RequestTypes
<1>3. ASSUME NEW t \in Reqs, Disconnect(t) PROVE TypeOK'
  BY <1>3, EmptyList DEF Disconnect
<1>4. ASSUME NEW t \in Reqs, GetProject(t) PROVE TypeOK'
  <2>1. pc' \in [Reqs -> Steps] /\ loc' \in [Reqs -> Locals] /\ gone' \in SUBSET Reqs
    BY <1>4, GetProjectMoves, ReturnTypes, GotoTypes DEF Steps
  <2> QED
    BY <1>4, <2>1, GetProjectMoves
<1>5. ASSUME NEW t \in Reqs, Abort(t) PROVE TypeOK'
  BY <1>0, <1>5 DEF Abort, Return, Steps
<1>6. ASSUME NEW t \in Reqs, CreateMax(t) PROVE TypeOK'
  <2>1. loc' = [loc EXCEPT ![t].n = NextPlace] /\ NextPlace \in Nat
    BY <1>6, NextPlaceIsLast DEF CreateMax, NextPlace
  <2>2. loc' \in [Reqs -> Locals]
    BY <2>1
  <2> QED
    BY <1>6, <2>2 DEF CreateMax, Steps
<1>7. ASSUME NEW t \in Reqs, CreateInsert(t) PROVE TypeOK'
  <2>1. pc' \in [Reqs -> Steps] /\ loc' \in [Reqs -> Locals] /\ gone' \in SUBSET Reqs
    BY <1>7, ReturnTypes, GotoTypes DEF CreateInsert, Steps
  <2>2. sort_order' \in [Issues -> Nat \cup {None}]
    <3>1. loc[t].n \in Nat
      OBVIOUS
    <3> QED
      BY <1>7, <3>1 DEF CreateInsert
  <2> QED
    BY <1>7, <2>1, <2>2 DEF CreateInsert
<1>8. ASSUME NEW t \in Reqs, GetIssue(t) PROVE TypeOK'
  BY <1>0, <1>8 DEF GetIssue, CanRun, Return, Steps
<1>9. ASSUME NEW t \in Reqs, List(t) PROVE TypeOK'
  <2>1. pc' \in [Reqs -> Steps] /\ loc' \in [Reqs -> Locals] /\ gone' \in SUBSET Reqs
    BY <1>9, ReturnTypes DEF List
  <2>2. PICK s \in Ordered(sort_order) : view' = [view EXCEPT ![t] = s]
    BY <1>9 DEF List
  <2>3. s \in Lists
    BY ListsOfSubsets DEF Ordered
  <2>4. view' \in [Reqs -> Lists]
    BY <2>2, <2>3
  <2> QED
    BY <1>9, <2>1, <2>4 DEF List
<1>10. ASSUME NEW t \in Reqs, ReorderBegin(t) PROVE TypeOK'
  BY <1>0, <1>10 DEF ReorderBegin, CanRun, Goto, Steps
<1>11. ASSUME NEW t \in Reqs, ReorderUpdate(t) PROVE TypeOK'
  <2>1. /\ pc' \in [Reqs -> Steps] /\ loc' \in [Reqs -> Locals]
        /\ sort_order' \in [Issues -> Nat \cup {None}]
    <3>1. loc[t].n \in Nat /\ loc[t].n + 1 \in Nat
      OBVIOUS
    <3>2. CASE loc[t].n < Len(loc[t].ids)
      <4>1. /\ sort_order' = [i \in Issues |-> IF i = loc[t].ids[loc[t].n + 1] /\ i \in Rows
                                            THEN loc[t].n ELSE sort_order[i]]
            /\ loc' = [loc EXCEPT ![t].n = loc[t].n + 1] /\ pc' = pc
        BY <1>11, <3>2 DEF ReorderUpdate
      <4>2. loc' \in [Reqs -> Locals]
        BY <4>1, <3>1
      <4>3. sort_order' \in [Issues -> Nat \cup {None}]
        BY <4>1, <3>1
      <4> QED
        BY <4>1, <4>2, <4>3
    <3>3. CASE ~ (loc[t].n < Len(loc[t].ids))
      BY <1>11, <3>3 DEF ReorderUpdate, Goto, Steps
    <3> QED
      BY <3>2, <3>3
  <2> QED
    BY <1>11, <2>1, UpdateMoves
<1>12. ASSUME NEW t \in Reqs, ReorderCommit(t) PROVE TypeOK'
  BY <1>0, <1>12 DEF ReorderCommit, CanRun, Goto, Steps
<1>13. ASSUME NEW t \in Reqs, UpdateIssue(t) PROVE TypeOK'
  <2>1. pc' \in [Reqs -> Steps] /\ loc' \in [Reqs -> Locals] /\ gone' \in SUBSET Reqs
    BY <1>13, ReturnTypes, GotoTypes DEF UpdateIssue, Steps
  <2> QED
    BY <1>13, <2>1 DEF UpdateIssue
<1>14. ASSUME NEW t \in Reqs, DeleteIssue(t) PROVE TypeOK'
  <2>1. pc' \in [Reqs -> Steps] /\ loc' \in [Reqs -> Locals] /\ gone' \in SUBSET Reqs
    BY <1>14, ReturnTypes DEF DeleteIssue
  <2>2. view' = [view EXCEPT ![t] = RemoveFirst(view[t], loc[t].it)]
    BY <1>14 DEF DeleteIssue
  <2>3. view[t] \in Lists
    OBVIOUS
  <2>4. view' \in [Reqs -> Lists]
    BY <2>2, <2>3, RemoveFromList
  <2> QED
    BY <1>0, <1>14, <2>1, <2>4 DEF DeleteIssue
<1>15. ASSUME NEW t \in Reqs, DeleteProject(t) PROVE TypeOK'
  BY <1>0, <1>15 DEF DeleteProject, CanRun, Return, Steps
<1>16. CASE Crash
  BY <1>0, <1>16, EmptyList, KanbanBoardAssumption DEF Crash, Steps
<1>17. CASE UNCHANGED vars
  BY <1>17 DEF vars
<1> QED
  BY <1>1, <1>2, <1>3, <1>4, <1>5, <1>6, <1>7, <1>8, <1>9, <1>10, <1>11, <1>12,
     <1>13, <1>14, <1>15, <1>16, <1>17 DEF Next, Handle

\* The initial states and the steps.
LEMMA InitIInv == Init => IInv
<1> SUFFICES ASSUME Init PROVE IInv
  OBVIOUS
<1> USE NoneFacts, EmptyList DEF Init
<1>1. TypeOK
  <2>1. NoLocals \in Locals /\ NoRows \in [Issues -> Nat \cup {None}]
    BY KanbanBoardAssumption DEF NoLocals, NoRows, Locals
  <2> QED
    BY <2>1, KanbanBoardAssumption DEF TypeOK, Locals, Steps
<1>2. RoleInv /\ TxInv
  BY DEF RoleInv, CreateSteps, TxInv, TxSteps
<1>3. MoveInv /\ ScreenInv
  BY DEF MoveInv, ScreenInv, ReorderSteps, TxSteps
<1> QED
  BY <1>1, <1>2, <1>3 DEF IInv

LEMMA NextIInv == IInv /\ [Next]_vars => IInv'
BY TypesStep, RoleStep, TxStep, MoveStep, ScreenStep DEF IInv

\* The inductive invariant holds, for any requests.
THEOREM BoardInvariance == Spec => []IInv
BY InitIInv, NextIInv, PTL DEF Spec

\* The variables have their types in every state: what a statement of one request
\* reads is what the statements of the others may have left.
THEOREM BoardTypes == Spec => []TypeOK
<1>1. IInv => TypeOK
  BY DEF IInv
<1> QED
  BY <1>1, BoardInvariance, PTL

-----------------------------------------------------------------------------
(* OrderInv is inductive for one creator and one editor.                   *)

OneOfEach ==
  /\ \A t, u \in Creators : t = u
  /\ \A t, u \in Editors : t = u

\* What is committed has the same issues as what the transaction sees.
LEMMA CommittedFacts ==
  ASSUME IInv
  PROVE  /\ Committed \in [Issues -> Nat \cup {None}]
         /\ Rows = {i \in Issues : Committed[i] # None}
         /\ Rows \subseteq Issues /\ \A i \in Rows : Committed[i] \in Nat
         /\ ~project => Rows = {}
<1>1. Committed \in [Issues -> Nat \cup {None}]
  BY DEF IInv, TypeOK, Committed
<1>2. CASE conn = None
  BY <1>1, <1>2 DEF Committed, Rows, IInv, TxInv, NoRows
<1>3. CASE conn # None
  <2>1. conn \in Reqs
    BY <1>3 DEF IInv, TypeOK
  <2>2. \A i \in Issues : sort_order[i] = None <=> saved[i] = None
    BY <2>1 DEF IInv, MoveInv, Moved
  <2> QED
    BY <1>1, <1>3, <2>2 DEF Committed, Rows, IInv, TxInv, NoRows
<1> QED
  BY <1>2, <1>3

LEMMA CommittedRows == IInv => Rows = {i \in Issues : Committed[i] # None}
BY CommittedFacts

\* A request that is not in its transaction and can run runs when there is none.
LEMMA OutsideTx ==
  ASSUME IInv, NEW t \in Reqs, CanRun(t), pc[t] \notin TxSteps
  PROVE  conn = None /\ Committed = sort_order
BY DEF IInv, TxInv, CanRun, Committed

\* A list of issues with different places below n has at most n of them.
LEMMA PlacesBelow ==
  ASSUME NEW s \in Lists, NEW n \in Nat, NEW f,
         \A i \in ToSet(s) : f[i] \in Nat /\ f[i] < n,
         \A i, j \in ToSet(s) : f[i] = f[j] => i = j
  PROVE  Len(s) <= n
<1>1. /\ Len(s) \in Nat /\ s \in [1..Len(s) -> Issues]
      /\ \A i, j \in 1..Len(s) : s[i] = s[j] => i = j
  BY ListFacts
<1>2. \A k \in 1..Len(s) : s[k] \in ToSet(s)
  BY <1>1 DEF ToSet
<1> DEFINE g == [k \in 1..Len(s) |-> f[s[k]] + 1]
<1>3. ASSUME NEW k \in 1..Len(s) PROVE f[s[k]] \in Nat /\ f[s[k]] + 1 \in 1..n
  <2>1. f[s[k]] \in Nat /\ f[s[k]] < n
    BY <1>2
  <2> QED
    BY <2>1
<1>4. ASSUME NEW k \in 1..Len(s), NEW l \in 1..Len(s), g[k] = g[l] PROVE k = l
  <2>1. f[s[k]] = f[s[l]]
    BY <1>3, <1>4
  <2> QED
    BY <2>1, <1>1, <1>2
<1>5. g \in Injection(1..Len(s), 1..n)
  BY <1>3, <1>4 DEF Injection, IsInjective
<1>6. /\ IsFiniteSet(1..n) /\ Cardinality(1..n) = n
      /\ Cardinality(1..Len(s)) = Len(s)
  <2>1. PICK m \in Nat : m = Len(s)
    BY <1>1
  <2>2. Cardinality(1..m) = m
    BY FS_Interval
  <2>3. IsFiniteSet(1..n) /\ Cardinality(1..n) = n
    BY FS_Interval
  <2> QED
    BY <2>1, <2>2, <2>3
<1> HIDE DEF g
<1> QED
  BY <1>5, <1>6, FS_Injection

\* Steps that leave what is committed alone, and no screen with more on it.
LEMMA OrderFrame ==
  ASSUME IInv, OrderInv, project' = project, Committed' = Committed, Rows' = Rows,
         \A e \in Editors : view'[e] \in {view[e], << >>},
         \A c \in Creators : pc'[c] = "create.insert" =>
           pc[c] = "create.insert" /\ loc'[c].n = loc[c].n
  PROVE  OrderInv'
<1>1. /\ Committed \in [Issues -> Nat \cup {None}]
      /\ Rows \subseteq Issues /\ \A i \in Rows : Committed[i] \in Nat
  BY CommittedFacts
<1>2. DistinctOrders'
  BY DEF OrderInv, DistinctOrders
<1>3. UnseenInv'
  <2> SUFFICES ASSUME NEW e \in Editors, project
               PROVE  /\ ToSet(view'[e]) \subseteq Rows
                      /\ \A i \in Rows \ ToSet(view'[e]) : Committed[i] >= Len(view'[e])
    BY DEF UnseenInv
  <2>1. CASE view'[e] = view[e]
    BY <2>1 DEF OrderInv, UnseenInv
  <2>2. CASE view'[e] = << >>
    BY <2>2, <1>1, EmptyList
  <2> QED
    BY <2>1, <2>2
<1>4. LastInv'
  <2> SUFFICES ASSUME NEW c \in Creators, pc'[c] = "create.insert", project
               PROVE  /\ \A i \in Rows : Committed[i] < loc'[c].n
                      /\ \A e \in Editors : Len(view'[e]) <= loc'[c].n
    BY DEF LastInv
  <2>1. /\ loc'[c].n = loc[c].n
        /\ \A i \in Rows : Committed[i] < loc[c].n
        /\ \A e \in Editors : Len(view[e]) <= loc[c].n
    BY DEF OrderInv, LastInv
  <2>2. loc[c].n \in Nat
    BY DEF IInv, TypeOK, Reqs
  <2>3. ASSUME NEW e \in Editors PROVE Len(view'[e]) <= loc[c].n
    <3>1. CASE view'[e] = view[e]
      BY <2>1, <3>1
    <3>2. CASE view'[e] = << >>
      BY <2>2, <3>2, EmptyList
    <3> QED
      BY <3>1, <3>2
  <2> QED
    BY <2>1, <2>3
<1> QED
  BY <1>2, <1>3, <1>4 DEF OrderInv

\* The place of a new issue is behind all there are, and all that is on the screen.
LEMMA CreateMaxOrder ==
  ASSUME IInv, OrderInv, OneOfEach, NEW t \in Reqs, CreateMax(t)
  PROVE  OrderInv'
<1>1. conn = None /\ Committed = sort_order
  BY OutsideTx DEF CreateMax, TxSteps
<1>2. /\ UNCHANGED << project, sort_order, conn, saved, view >>
      /\ loc' = [loc EXCEPT ![t].n = NextPlace] /\ pc' = [pc EXCEPT ![t] = "create.insert"]
  BY DEF CreateMax, NextPlace, rowVars, txVars
<1>3. Committed' = sort_order /\ Rows' = Rows
  BY <1>1, <1>2 DEF Committed, Rows
<1>4. t \in Creators /\ loc'[t].n = NextPlace
  BY <1>2 DEF IInv, RoleInv, CreateSteps, CreateMax, TypeOK
<1>5. NextPlace \in Nat /\ \A i \in Rows : sort_order[i] < NextPlace
  BY NextPlaceIsLast DEF IInv, TypeOK
<1>6. DistinctOrders' /\ UnseenInv'
  BY <1>1, <1>2, <1>3 DEF OrderInv, DistinctOrders, UnseenInv
<1>7. ASSUME project, NEW e \in Editors PROVE Len(view[e]) <= NextPlace
  <2>1. view[e] \in Lists
    BY DEF IInv, TypeOK, Reqs
  <2>2. ToSet(view[e]) \subseteq Rows
    BY <1>7 DEF OrderInv, UnseenInv
  <2>3. \A i \in ToSet(view[e]) : sort_order[i] \in Nat /\ sort_order[i] < NextPlace
    BY <2>2, <1>1, <1>5, CommittedFacts
  <2>4. \A i, j \in ToSet(view[e]) : sort_order[i] = sort_order[j] => i = j
    BY <2>2, <1>1 DEF Rows, OrderInv, DistinctOrders
  <2> QED
    BY <2>1, <2>3, <2>4, <1>5, PlacesBelow
<1>8. LastInv'
  <2> SUFFICES ASSUME NEW c \in Creators, project
               PROVE  /\ \A i \in Rows : sort_order[i] < loc'[c].n
                      /\ \A e \in Editors : Len(view[e]) <= loc'[c].n
    BY <1>2, <1>3 DEF LastInv
  <2>1. c = t
    BY <1>4 DEF OneOfEach
  <2> QED
    BY <2>1, <1>4, <1>5, <1>7
<1> QED
  BY <1>6, <1>8 DEF OrderInv

\* A new issue comes last.
LEMMA CreateInsertOrder ==
  ASSUME IInv, OrderInv, OneOfEach, NEW t \in Reqs, CreateInsert(t)
  PROVE  OrderInv'
<1>1. conn = None /\ Committed = sort_order
  BY OutsideTx DEF CreateInsert, TxSteps
<1>2. t \in Creators
  BY DEF IInv, RoleInv, CreateSteps, CreateInsert
<1>3. UNCHANGED << project, conn, saved, view >>
  BY DEF CreateInsert, txVars
<1>4. \A c \in Creators : pc'[c] # "create.insert"
  BY <1>2 DEF CreateInsert, Goto, Return, OneOfEach, IInv, TypeOK
<1>5. CASE ~project
  <2>1. UNCHANGED sort_order
    BY <1>5 DEF CreateInsert
  <2> QED
    BY <1>3, <1>4, <1>5, <2>1, OrderFrame DEF Committed, Rows
<1>6. CASE project
  <2> DEFINE x == loc[t].it
             n == loc[t].n
  <2>1. sort_order' = [sort_order EXCEPT ![x] = n] /\ pc[t] = "create.insert"
    BY <1>6 DEF CreateInsert
  <2>2. /\ sort_order \in [Issues -> Nat \cup {None}] /\ n \in Nat
        /\ x \in Issues \cup {None} /\ None \notin Nat /\ None \notin Issues
    BY NoneFacts DEF IInv, TypeOK
  <2>3. /\ \A i \in Rows : sort_order[i] < n
        /\ \A e \in Editors : Len(view[e]) <= n
    BY <1>1, <1>2, <1>6, <2>1 DEF OrderInv, LastInv
  <2> HIDE DEF x, n
  <2>4. CASE x = None
    <3>1. sort_order' = sort_order
      BY <2>1, <2>2, <2>4
    <3> QED
      BY <1>3, <1>4, <3>1, OrderFrame DEF Committed, Rows
  <2>5. CASE x \in Issues
    <3>1. /\ Committed' = sort_order' /\ Rows' = Rows \cup {x}
          /\ sort_order'[x] = n /\ \A i \in Issues \ {x} : sort_order'[i] = sort_order[i]
      BY <1>1, <1>3, <2>1, <2>2, <2>5 DEF Committed, Rows
    <3>2. \A i \in Rows : sort_order[i] \in Nat /\ sort_order[i] # n
      BY <2>2, <2>3 DEF Rows
    <3>3. DistinctOrders'
      <4> SUFFICES ASSUME NEW i \in Issues, NEW j \in Issues,
                          sort_order'[i] = sort_order'[j], sort_order'[i] # None
                   PROVE  i = j
        BY <3>1 DEF DistinctOrders
      <4>1. CASE i # x /\ j # x
        BY <4>1, <1>1, <3>1 DEF OrderInv, DistinctOrders
      <4>2. CASE i = x
        BY <4>2, <2>2, <3>1, <3>2 DEF Rows
      <4>3. CASE j = x
        BY <4>3, <2>2, <3>1, <3>2 DEF Rows
      <4> QED
        BY <4>1, <4>2, <4>3
    <3>4. UnseenInv'
      <4> SUFFICES ASSUME NEW e \in Editors
                   PROVE  /\ ToSet(view[e]) \subseteq Rows \cup {x}
                          /\ \A i \in (Rows \cup {x}) \ ToSet(view[e]) : sort_order'[i] >= Len(view[e])
        BY <1>3, <3>1 DEF UnseenInv
      <4>1. /\ ToSet(view[e]) \subseteq Rows
            /\ \A i \in Rows \ ToSet(view[e]) : sort_order[i] >= Len(view[e])
        BY <1>1, <1>6 DEF OrderInv, UnseenInv
      <4>2. Len(view[e]) \in Nat /\ Len(view[e]) <= n
        BY <2>3, ListFacts DEF IInv, TypeOK, Reqs
      <4>3. sort_order'[x] >= Len(view[e])
        BY <4>2, <2>2, <3>1
      <4>4. \A i \in Rows \ {x} : sort_order'[i] = sort_order[i]
        BY <3>1 DEF Rows
      <4> QED
        BY <4>1, <4>3, <4>4
    <3> QED
      BY <3>3, <3>4, <1>4 DEF OrderInv, LastInv
  <2> QED
    BY <2>2, <2>4, <2>5
<1> QED
  BY <1>5, <1>6 DEF IInv, TypeOK

\* After a list the editor sees everything.
LEMMA ListOrder ==
  ASSUME IInv, OrderInv, OneOfEach, NEW t \in Reqs, List(t)
  PROVE  OrderInv'
<1>1. conn = None /\ Committed = sort_order
  BY OutsideTx DEF List, TxSteps
<1>2. t \in Editors
  BY DEF IInv, RoleInv, CreateSteps, List, Steps
<1>3. UNCHANGED << project, sort_order, conn, saved >>
  BY DEF List, rowVars, txVars
<1>4. PICK s \in Ordered(sort_order) : view' = [view EXCEPT ![t] = s]
  BY DEF List
<1>5. s \in SetToSeqs(Rows)
  BY DEF Ordered, Rows
<1>6. IsFiniteSet(Rows) /\ Rows \subseteq Issues
  BY FS_Subset, KanbanBoardAssumption DEF Rows
<1>7. s \in Lists /\ ToSet(s) = Rows
  BY <1>5, <1>6, ListOfSet, ListsOfSubsets
<1>8. Committed' = sort_order /\ Rows' = Rows
  BY <1>1, <1>3 DEF Committed, Rows
<1>9. \A e \in Editors : view'[e] = s
  BY <1>2, <1>4 DEF OneOfEach, IInv, TypeOK
<1>10. DistinctOrders' /\ UnseenInv'
  BY <1>1, <1>7, <1>8, <1>9 DEF OrderInv, DistinctOrders, UnseenInv
<1>11. LastInv'
  <2> SUFFICES ASSUME NEW c \in Creators, pc'[c] = "create.insert", project
               PROVE  /\ \A i \in Rows : sort_order[i] < loc'[c].n
                      /\ Len(s) <= loc'[c].n
    BY <1>3, <1>8, <1>9 DEF LastInv
  <2>1. pc[c] = "create.insert" /\ loc'[c] = loc[c]
    BY DEF List, Return, IInv, TypeOK, Reqs
  <2>2. loc[c].n \in Nat /\ \A i \in Rows : sort_order[i] < loc[c].n
    BY <1>1, <2>1 DEF OrderInv, LastInv, IInv, TypeOK, Reqs
  <2>3. \A i \in ToSet(s) : sort_order[i] \in Nat /\ sort_order[i] < loc[c].n
    BY <1>1, <1>7, <2>2, CommittedFacts
  <2>4. \A i, j \in ToSet(s) : sort_order[i] = sort_order[j] => i = j
    BY <1>1, <1>7 DEF Rows, OrderInv, DistinctOrders
  <2>5. Len(s) <= loc[c].n
    BY <1>7, <2>2, <2>3, <2>4, PlacesBelow
  <2> QED
    BY <2>1, <2>2, <2>5
<1> QED
  BY <1>10, <1>11 DEF OrderInv

\* The list gets the first places, and what is not on it has none of them.
LEMMA ReorderCommitOrder ==
  ASSUME IInv, OrderInv, OneOfEach, NEW t \in Reqs, ReorderCommit(t)
  PROVE  OrderInv'
<1>1. /\ UNCHANGED << project, sort_order, loc, view >> /\ conn' = None
      /\ pc[t] = "reorder.commit" /\ t \notin gone /\ pc' = [pc EXCEPT ![t] = "reorder.list"]
  BY DEF ReorderCommit, Goto, CanRun, rowVars
<1>2. conn = t /\ Moved(t) /\ conn # None
  BY <1>1, NoneFacts DEF IInv, TxInv, TxSteps, MoveInv
<1>3. Committed = saved /\ Committed' = sort_order /\ Rows' = Rows
  BY <1>1, <1>2 DEF Committed, Rows
<1>4. t \in Editors
  BY <1>1 DEF IInv, RoleInv, CreateSteps, Steps
<1>5. CASE ~project
  <2>1. \A i \in Issues : sort_order[i] = None
    BY <1>5 DEF IInv, TxInv, NoRows
  <2> QED
    BY <1>1, <1>3, <1>5, <2>1 DEF OrderInv, DistinctOrders, UnseenInv, LastInv
<1>6. CASE project
  <2> DEFINE ids == loc[t].ids
             len == Len(view[t])
  <2>1. /\ view[t] \in Lists /\ ids \in Lists /\ loc[t].n \in Nat
        /\ ids \in SetToSeqs(ToSet(view[t]))
    BY <1>1 DEF IInv, TypeOK, ScreenInv, ReorderSteps, TxSteps
  <2>2. len \in Nat /\ len = Cardinality(ToSet(view[t])) /\ IsFiniteSet(ToSet(view[t]))
    BY <2>1, ListFacts
  <2>3. Len(ids) = len /\ ToSet(ids) = ToSet(view[t]) /\ ids \in [1..len -> ToSet(view[t])]
    BY <2>1, <2>2, ListOfSet
  <2>4. ToSet(ids) = {ids[k] : k \in 1..len} /\ loc[t].n = len
    BY <2>3, <1>1, <1>2 DEF ToSet, Moved
  <2>5. /\ ToSet(view[t]) \subseteq Rows
        /\ \A i \in Rows \ ToSet(view[t]) : saved[i] >= len
    BY <1>3, <1>4, <1>6 DEF OrderInv, UnseenInv
  <2>6. \A k \in 1..len : ids[k] \in Rows /\ sort_order[ids[k]] = k - 1
    BY <2>3, <2>4, <2>5, <1>2 DEF Moved
  <2>7. \A i \in Rows \ ToSet(view[t]) : sort_order[i] = saved[i]
    <3>1. ASSUME NEW i \in Rows \ ToSet(view[t]), NEW k \in 1..loc[t].n PROVE ids[k] # i
      BY <2>3, <2>4
    <3> QED
      BY <3>1, <1>2 DEF Moved
  <2> HIDE DEF ids, len
  <2>8. ASSUME NEW i \in ToSet(view[t])
        PROVE  sort_order[i] \in Nat /\ sort_order[i] < len /\ ids[sort_order[i] + 1] = i
    <3>1. PICK k \in 1..len : ids[k] = i
      BY <2>3, <2>4
    <3>2. sort_order[i] = k - 1
      BY <3>1, <2>6
    <3> QED
      BY <3>1, <3>2, <2>2
  <2>9. ASSUME NEW i \in Rows \ ToSet(view[t])
        PROVE  sort_order[i] \in Nat /\ sort_order[i] >= len /\ sort_order[i] = saved[i]
    BY <2>5, <2>7, <1>3, CommittedFacts
  <2>10. DistinctOrders'
    <3> SUFFICES ASSUME NEW i \in Rows, NEW j \in Rows, sort_order[i] = sort_order[j]
                 PROVE  i = j
      BY <1>3 DEF DistinctOrders, Rows
    <3>1. CASE i \in ToSet(view[t]) /\ j \in ToSet(view[t])
      BY <3>1, <2>8
    <3>2. CASE i \in ToSet(view[t]) /\ j \notin ToSet(view[t])
      <4>1. sort_order[i] < len /\ sort_order[i] \in Nat /\ sort_order[j] >= len
        BY <3>2, <2>8, <2>9
      <4> QED
        BY <4>1, <2>2
    <3>3. CASE i \notin ToSet(view[t]) /\ j \in ToSet(view[t])
      <4>1. sort_order[j] < len /\ sort_order[j] \in Nat /\ sort_order[i] >= len
        BY <3>3, <2>8, <2>9
      <4> QED
        BY <4>1, <2>2
    <3>4. CASE i \notin ToSet(view[t]) /\ j \notin ToSet(view[t])
      <4>1. saved[i] = saved[j] /\ saved[i] # None
        BY <3>4, <2>9, NoneFacts
      <4> QED
        BY <4>1, <1>3, CommittedFacts DEF OrderInv, DistinctOrders
    <3> QED
      BY <3>1, <3>2, <3>3, <3>4
  <2>11. UnseenInv'
    <3>1. \A e \in Editors : e = t
      BY <1>4 DEF OneOfEach
    <3> QED
      BY <3>1, <1>1, <1>3, <2>5, <2>9 DEF UnseenInv, len
  <2>12. LastInv'
    <3> SUFFICES ASSUME NEW c \in Creators, pc'[c] = "create.insert"
                 PROVE  /\ \A i \in Rows : sort_order[i] < loc[c].n
                        /\ \A e \in Editors : Len(view[e]) <= loc[c].n
      BY <1>1, <1>3 DEF LastInv
    <3>1. pc[c] = "create.insert"
      BY <1>1 DEF IInv, TypeOK, Reqs
    <3>2. /\ \A i \in Rows : saved[i] < loc[c].n
          /\ \A e \in Editors : Len(view[e]) <= loc[c].n
      BY <3>1, <1>3, <1>6 DEF OrderInv, LastInv
    <3>3. len <= loc[c].n /\ loc[c].n \in Nat
      BY <3>2, <1>4 DEF len, IInv, TypeOK, Reqs
    <3>4. ASSUME NEW i \in Rows PROVE sort_order[i] < loc[c].n
      <4>1. CASE i \in ToSet(view[t])
        <5>1. sort_order[i] \in Nat /\ sort_order[i] < len
          BY <4>1, <2>8
        <5> QED
          BY <5>1, <3>3, <2>2
      <4>2. CASE i \notin ToSet(view[t])
        BY <4>2, <2>9, <3>2
      <4> QED
        BY <4>1, <4>2
    <3> QED
      BY <3>2, <3>4
  <2> QED
    BY <2>10, <2>11, <2>12 DEF OrderInv
<1> QED
  BY <1>5, <1>6

\* A deleted issue leaves its row and the screen together.
LEMMA DeleteIssueOrder ==
  ASSUME IInv, OrderInv, OneOfEach, NEW t \in Reqs, DeleteIssue(t)
  PROVE  OrderInv'
<1>1. conn = None /\ Committed = sort_order
  BY OutsideTx DEF DeleteIssue, TxSteps
<1>2. t \in Editors
  BY DEF IInv, RoleInv, CreateSteps, DeleteIssue, Steps
<1> DEFINE x == loc[t].it
           s == RemoveFirst(view[t], x)
<1>3. /\ UNCHANGED << project, conn, saved >> /\ sort_order' = [sort_order EXCEPT ![x] = None]
      /\ view' = [view EXCEPT ![t] = s]
  BY DEF DeleteIssue, txVars
<1>4. /\ s \in Lists /\ ToSet(s) = ToSet(view[t]) \ {x} /\ view[t] \in Lists
  BY RemoveFromList DEF IInv, TypeOK
<1>5. Len(s) \in Nat /\ Len(view[t]) \in Nat /\ Len(s) <= Len(view[t])
  <2>1. IsFiniteSet(ToSet(view[t])) /\ ToSet(s) \subseteq ToSet(view[t])
    BY <1>4, ListFacts
  <2>2. Cardinality(ToSet(s)) <= Cardinality(ToSet(view[t]))
    BY <2>1, FS_Subset
  <2> QED
    BY <1>4, <2>2, ListFacts
<1> HIDE DEF s
<1>6. /\ Committed' = sort_order' /\ Rows' = Rows \ {x}
      /\ \A i \in Rows \ {x} : sort_order'[i] = sort_order[i]
      /\ sort_order \in [Issues -> Nat \cup {None}] /\ sort_order' \in [Issues -> Nat \cup {None}]
  BY <1>1, <1>3 DEF Committed, Rows, IInv, TypeOK
<1>7. \A e \in Editors : e = t /\ view'[e] = s
  BY <1>2, <1>3 DEF OneOfEach, IInv, TypeOK
<1>8. DistinctOrders'
  BY <1>1, <1>6 DEF OrderInv, DistinctOrders, Rows
<1>9. UnseenInv'
  <2> SUFFICES ASSUME project
               PROVE  /\ ToSet(s) \subseteq Rows \ {x}
                      /\ \A i \in (Rows \ {x}) \ ToSet(s) : sort_order'[i] >= Len(s)
    BY <1>3, <1>6, <1>7 DEF UnseenInv
  <2>1. /\ ToSet(view[t]) \subseteq Rows
        /\ \A i \in Rows \ ToSet(view[t]) : sort_order[i] >= Len(view[t])
    BY <1>1, <1>2 DEF OrderInv, UnseenInv
  <2>2. ASSUME NEW i \in (Rows \ {x}) \ ToSet(s) PROVE sort_order'[i] >= Len(s)
    <3>1. i \in Rows \ ToSet(view[t]) /\ sort_order'[i] = sort_order[i]
      BY <1>4, <1>6
    <3>2. sort_order[i] \in Nat /\ sort_order[i] >= Len(view[t])
      BY <2>1, <3>1, <1>6 DEF Rows
    <3> QED
      BY <3>1, <3>2, <1>5
  <2> QED
    BY <1>4, <2>1, <2>2
<1>10. LastInv'
  <2> SUFFICES ASSUME NEW c \in Creators, pc'[c] = "create.insert", project
               PROVE  /\ \A i \in Rows \ {x} : sort_order[i] < loc'[c].n
                      /\ Len(s) <= loc'[c].n
    BY <1>3, <1>6, <1>7 DEF LastInv
  <2>1. pc[c] = "create.insert" /\ loc'[c] = loc[c]
    BY DEF DeleteIssue, Return, IInv, TypeOK, Reqs
  <2>2. /\ \A i \in Rows : sort_order[i] < loc[c].n
        /\ Len(view[t]) <= loc[c].n /\ loc[c].n \in Nat
    BY <1>1, <1>2, <2>1 DEF OrderInv, LastInv, IInv, TypeOK, Reqs
  <2> QED
    BY <2>1, <2>2, <1>5
<1> QED
  BY <1>8, <1>9, <1>10 DEF OrderInv

\* Without the project there are no issues.
LEMMA DeleteProjectOrder ==
  ASSUME IInv, NEW t \in Reqs, DeleteProject(t)
  PROVE  OrderInv'
<1>1. conn = None
  BY OutsideTx DEF DeleteProject, TxSteps
<1>2. project' = FALSE /\ Committed' = NoRows
  BY <1>1 DEF DeleteProject, Committed, txVars
<1> QED
  BY <1>2 DEF OrderInv, DistinctOrders, UnseenInv, LastInv, NoRows

\* Every step: the others are frames.
LEMMA NextOrder ==
  ASSUME IInv, IInv', OrderInv, OneOfEach, [Next]_vars
  PROVE  OrderInv'
<1> DEFINE Quiet == /\ project' = project /\ Committed' = Committed /\ Rows' = Rows
                    /\ \A e \in Editors : view'[e] \in {view[e], << >>}
                    /\ \A c \in Creators : pc'[c] = "create.insert" =>
                         pc[c] = "create.insert" /\ loc'[c].n = loc[c].n
<1>0. Quiet => OrderInv'
  BY OrderFrame
<1>a. \A c \in Creators : c \in Reqs
  BY DEF Reqs
<1>b. pc \in [Reqs -> Steps] /\ loc \in [Reqs -> Locals] /\ view \in [Reqs -> Lists]
  BY DEF IInv, TypeOK, Locals
<1>c. ASSUME Committed' = Committed PROVE Rows' = Rows
  <2>1. Rows = {i \in Issues : Committed[i] # None}
    BY CommittedRows
  <2>2. (Rows = {i \in Issues : Committed[i] # None})'
    BY CommittedRows, PTL
  <2> QED
    BY <1>c, <2>1, <2>2
<1> USE DEF Committed, Rows, rowVars, txVars
<1>1. ASSUME NEW t \in Reqs, CreateRequest(t) PROVE Quiet
  BY <1>1, <1>a, <1>b DEF CreateRequest, Request
<1>2. ASSUME NEW t \in Reqs, EditRequest(t) PROVE Quiet
  <2>1. PICK step \in {"list.project", "reorder.project", "delete.write", "update.write", "drop.write"},
             l \in Locals : Request(t, step, l)
    BY <1>2, EditForms DEF IInv
  <2> QED
    BY <2>1, <1>a, <1>b DEF Request
<1>3. ASSUME NEW t \in Reqs, Disconnect(t) PROVE Quiet
  BY <1>3, <1>a, <1>b DEF Disconnect
<1>4. ASSUME NEW t \in Reqs, GetProject(t) PROVE Quiet
  <2>1. PICK step \in {"idle", "create.max", "list.rows", "reorder.begin"} :
          pc' = [pc EXCEPT ![t] = step] /\ \A u \in Reqs \ {t} : loc'[u] = loc[u]
    BY <1>4, <1>b, GetProjectMoves DEF Goto, Return, IInv
  <2>2. UNCHANGED << rowVars, txVars, view >>
    BY <1>4 DEF GetProject
  <2> QED
    BY <2>1, <2>2, <1>a, <1>b
<1>5. ASSUME NEW t \in Reqs, Abort(t) PROVE Quiet
  <2>1. /\ view' = view /\ project' = project
        /\ \A c \in Creators : pc'[c] = "create.insert" =>
             pc[c] = "create.insert" /\ loc'[c].n = loc[c].n
    BY <1>5, <1>a, <1>b DEF Abort, Return
  <2>2. Committed' = Committed
    BY <1>5, NoneFacts DEF Abort
  <2>3. Rows' = Rows
    BY <2>2, <1>c
  <2> HIDE DEF Rows, Committed
  <2> QED
    BY <2>1, <2>2, <2>3
<1>6. ASSUME NEW t \in Reqs, CreateMax(t) PROVE OrderInv'
  BY <1>6, CreateMaxOrder
<1>7. ASSUME NEW t \in Reqs, CreateInsert(t) PROVE OrderInv'
  BY <1>7, CreateInsertOrder
<1>8. ASSUME NEW t \in Reqs, GetIssue(t) PROVE Quiet
  BY <1>8, <1>a, <1>b DEF GetIssue, Return
<1>9. ASSUME NEW t \in Reqs, List(t) PROVE OrderInv'
  BY <1>9, ListOrder
<1>10. ASSUME NEW t \in Reqs, ReorderBegin(t) PROVE Quiet
  <2>1. conn = None
    BY <1>10, OutsideTx DEF ReorderBegin, TxSteps
  <2> QED
    BY <1>10, <2>1, <1>a, <1>b, NoneFacts DEF ReorderBegin, Goto
<1>11. ASSUME NEW t \in Reqs, ReorderUpdate(t) PROVE Quiet
  <2>1. /\ conn = t /\ conn' = conn /\ saved' = saved /\ Rows' = Rows /\ UNCHANGED << project, view >>
        /\ pc'[t] \in TxSteps /\ \A u \in Reqs \ {t} : loc'[u] = loc[u] /\ pc'[u] = pc[u]
    BY <1>11, UpdateMoves
  <2>2. Committed' = Committed
    BY <2>1, NoneFacts
  <2> HIDE DEF Committed, Rows
  <2> QED
    BY <2>1, <2>2, <1>a DEF TxSteps
<1>12. ASSUME NEW t \in Reqs, ReorderCommit(t) PROVE OrderInv'
  BY <1>12, ReorderCommitOrder
<1>13. ASSUME NEW t \in Reqs, UpdateIssue(t) PROVE Quiet
  BY <1>13, <1>a, <1>b DEF UpdateIssue, Goto, Return
<1>14. ASSUME NEW t \in Reqs, DeleteIssue(t) PROVE OrderInv'
  BY <1>14, DeleteIssueOrder
<1>15. ASSUME NEW t \in Reqs, DeleteProject(t) PROVE OrderInv'
  BY <1>15, DeleteProjectOrder
<1>16. CASE Crash
  <2>1. /\ project' = project /\ Committed' = Committed
        /\ \A e \in Editors : view'[e] = << >>
        /\ \A c \in Creators : pc'[c] # "create.insert"
    BY <1>16, <1>a DEF Crash, Reqs
  <2>2. Rows' = Rows
    BY <2>1, <1>c
  <2> HIDE DEF Rows, Committed
  <2> QED
    BY <2>1, <2>2, <1>0
<1>17. CASE UNCHANGED vars
  <2>1. /\ UNCHANGED << project, sort_order, conn, saved >>
        /\ view' = view /\ pc' = pc /\ loc' = loc
    BY <1>17 DEF vars
  <2> QED
    BY <2>1, <1>0
<1> HIDE DEF Quiet, Committed, Rows, rowVars, txVars
<1> QED
  BY <1>0, <1>1, <1>2, <1>3, <1>4, <1>5, <1>6, <1>7, <1>8, <1>9, <1>10, <1>11, <1>12, <1>13,
     <1>14, <1>15, <1>16, <1>17 DEF Next, Handle

LEMMA InitOrder == Init => OrderInv
<1> SUFFICES ASSUME Init PROVE OrderInv
  OBVIOUS
<1>1. Rows = {} /\ Committed = NoRows
  BY DEF Init, NoRows, Rows, Committed
<1>2. DistinctOrders
  BY <1>1 DEF DistinctOrders, NoRows
<1>3. UnseenInv /\ LastInv
  BY <1>1, EmptyList DEF UnseenInv, LastInv, Init, Reqs
<1> QED
  BY <1>2, <1>3 DEF OrderInv

\* With one client that creates issues and one that does the rest, whatever is
\* lost or crashes between the statements of CreateIssue and of ReorderIssues, no
\* two issues share a place, for any issues, columns and crashes.
THEOREM OrdersAreDistinct ==
  ASSUME OneOfEach
  PROVE  Spec => []DistinctOrders
<1>1. Init => IInv /\ OrderInv
  BY InitIInv, InitOrder
<1>2. (IInv /\ OrderInv) /\ [Next]_vars => (IInv /\ OrderInv)'
  BY NextIInv, NextOrder
<1>3. IInv /\ OrderInv => DistinctOrders
  BY DEF OrderInv
<1> QED
  BY <1>1, <1>2, <1>3, PTL DEF Spec
=============================================================================

