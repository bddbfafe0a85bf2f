---------------------------- MODULE AccessProofs ----------------------------
(***************************************************************************)
(* The boot and the sessions of Access, for any number of migrations,      *)
(* usernames, requests and tokens, and any number of crashes.  IInv is     *)
(* inductive: a step of the boot leaves the sessions alone and a step of a *)
(* request the boot, so each half has a lemma for its own steps.           *)
(***************************************************************************)
EXTENDS Access, FiniteSetTheorems, TLAPS

\* The next migration of those that are left is the first of them.
LEMMA FirstOfInterval ==
  ASSUME NEW a \in Nat, NEW b \in Nat, a <= b
  PROVE  Min(a..b) = a
  BY DEF Min

\* The first migration creates the table users, so it is there in the end.
LEMMA AuthIsFirst == AuthVersion \in Versions
  BY AccessAssumption DEF AuthVersion, Versions

LEMMA InitBoot == Init => BootInv
  <1> SUFFICES ASSUME Init PROVE BootInv
    OBVIOUS
  <1>1. BootTypeOK
    BY AccessAssumption DEF Init, BootTypeOK, BootSteps
  <1>2. AtVersion(0)
    BY AccessAssumption DEF Init, AtVersion, InTx
  <1>3. UserInv
    BY DEF Init, UserInv
  <1> QED BY <1>1, <1>2, <1>3, AccessAssumption DEF BootInv, SchemaInv

\* A rollback goes back to the migrations that were committed.
LEMMA RollsBack ==
  ASSUME BootTypeOK, NEW k \in 0..MaxVersion, AtVersion(k)
  PROVE  RolledBack = [tables |-> 1..k, recorded |-> 1..k]
  <1>1. [tables |-> 1..k, recorded |-> 1..k] # None
    BY AccessAssumption DEF Versions
  <1>2. CASE InTx
    BY <1>1, <1>2 DEF AtVersion, RolledBack
  <1>3. CASE ~InTx
    BY <1>3 DEF AtVersion, RolledBack, InTx
  <1> QED BY <1>2, <1>3

\* A process that ends, at any step of its boot or later, leaves the committed
\* migrations and the users.
LEMMA ExitBoot ==
  ASSUME BootInv, Exit, crashes' \in 0..MaxCrashes
  PROVE  BootInv'
  <1>1. PICK k \in 0..MaxVersion : AtVersion(k)
    BY DEF BootInv, SchemaInv
  <1>2. RolledBack = [tables |-> 1..k, recorded |-> 1..k]
    BY <1>1, RollsBack DEF BootInv
  <1>3. /\ phase' = "down" /\ pending' = {} /\ saved' = None
        /\ tables' = 1..k /\ recorded' = 1..k
        /\ name' = name /\ users' = users
    BY <1>2 DEF Exit
  <1>4. BootTypeOK'
    BY <1>3, AccessAssumption DEF BootInv, BootTypeOK, BootSteps, Versions
  <1>5. AtVersion(k)'
    BY <1>3 DEF AtVersion, InTx
  <1>6. UserInv'
    BY <1>3 DEF BootInv, UserInv
  <1> QED BY <1>4, <1>5, <1>6 DEF BootInv, SchemaInv

LEMMA StartBoot == ASSUME BootInv, Start PROVE BootInv'
  <1>1. PICK k \in 0..MaxVersion : AtVersion(k)
    BY DEF BootInv, SchemaInv
  <1>2. AtVersion(k)'
    BY <1>1 DEF Start, AtVersion, InTx
  <1>3. BootTypeOK' /\ UserInv'
    BY DEF Start, BootInv, BootTypeOK, BootSteps, UserInv
  <1> QED BY <1>2, <1>3 DEF BootInv, SchemaInv

LEMMA LoadBoot == ASSUME BootInv, Load PROVE BootInv'
  <1>1. PICK k \in 0..MaxVersion : AtVersion(k)
    BY DEF BootInv, SchemaInv
  <1>2. recorded = 1..k
    BY <1>1 DEF Load, AtVersion
  <1>3. pending' = (k + 1)..MaxVersion
    BY <1>2, AccessAssumption DEF Load, Versions
  <1>4. AtVersion(k)'
    BY <1>1, <1>3 DEF Load, AtVersion, InTx
  <1>5. BootTypeOK' /\ UserInv'
    BY DEF Load, BootInv, BootTypeOK, BootSteps, UserInv
  <1> QED BY <1>4, <1>5 DEF BootInv, SchemaInv

LEMMA BeginBoot == ASSUME BootInv, BeginTx PROVE BootInv'
  <1>1. PICK k \in 0..MaxVersion : AtVersion(k)
    BY DEF BootInv, SchemaInv
  <1>2. pending = (k + 1)..MaxVersion /\ k < MaxVersion
    BY <1>1, AccessAssumption DEF BeginTx, AtVersion
  <1>3. AtVersion(k)'
    BY <1>1, <1>2 DEF BeginTx, AtVersion, InTx
  <1>4. BootTypeOK' /\ UserInv'
    BY DEF BeginTx, BootInv, BootTypeOK, BootSteps, UserInv
  <1> QED BY <1>3, <1>4 DEF BootInv, SchemaInv

\* Inside of a transaction the migration at work is the one after the k that are
\* committed.
LEMMA NextIsNext ==
  ASSUME NEW k \in 0..MaxVersion, AtVersion(k), InTx
  PROVE  NextPending = k + 1 /\ k + 1 \in Versions /\ 1..(k + 1) \subseteq Versions
  <1>1. pending = (k + 1)..MaxVersion /\ k < MaxVersion
    BY DEF AtVersion
  <1>2. Min((k + 1)..MaxVersion) = k + 1
    BY <1>1, FirstOfInterval, AccessAssumption
  <1> QED BY <1>1, <1>2, AccessAssumption DEF NextPending, Versions

LEMMA ExecBoot == ASSUME BootInv, ExecBody PROVE BootInv'
  <1>1. PICK k \in 0..MaxVersion : AtVersion(k)
    BY DEF BootInv, SchemaInv
  <1>2. NextPending = k + 1 /\ 1..(k + 1) \subseteq Versions
    BY <1>1, NextIsNext DEF ExecBody, InTx
  <1>3. tables = 1..k
    BY <1>1 DEF ExecBody, AtVersion
  <1>4. k + 1 \notin tables /\ tables \cup {k + 1} = 1..(k + 1)
    BY <1>3
  <1>5. /\ phase = "exec" /\ phase' = "record" /\ tables' = 1..(k + 1)
        /\ UNCHANGED << recorded, saved, pending, name, users, crashes >>
    BY <1>2, <1>4 DEF ExecBody
  <1>6. AtVersion(k)'
    BY <1>1, <1>5 DEF AtVersion, InTx
  <1>7. BootTypeOK' /\ UserInv'
    BY <1>2, <1>5 DEF BootInv, BootTypeOK, BootSteps, UserInv
  <1> QED BY <1>6, <1>7 DEF BootInv, SchemaInv

LEMMA RecordBoot == ASSUME BootInv, RecordVersion PROVE BootInv'
  <1>1. PICK k \in 0..MaxVersion : AtVersion(k)
    BY DEF BootInv, SchemaInv
  <1>2. NextPending = k + 1 /\ 1..(k + 1) \subseteq Versions
    BY <1>1, NextIsNext DEF RecordVersion, InTx
  <1>3. recorded = 1..k
    BY <1>1 DEF RecordVersion, AtVersion
  <1>4. recorded' = 1..(k + 1)
    BY <1>2, <1>3 DEF RecordVersion
  <1>5. AtVersion(k)'
    BY <1>1, <1>4 DEF RecordVersion, AtVersion, InTx
  <1>6. BootTypeOK' /\ UserInv'
    BY <1>2, <1>4 DEF RecordVersion, BootInv, BootTypeOK, BootSteps, UserInv
  <1> QED BY <1>5, <1>6 DEF BootInv, SchemaInv

LEMMA CommitBoot == ASSUME BootInv, Commit PROVE BootInv'
  <1>1. PICK k \in 0..MaxVersion : AtVersion(k)
    BY DEF BootInv, SchemaInv
  <1>2. NextPending = k + 1 /\ 1..(k + 1) \subseteq Versions
    BY <1>1, NextIsNext DEF Commit, InTx
  <1>3. /\ tables = 1..(k + 1) /\ recorded = 1..(k + 1)
        /\ pending = (k + 1)..MaxVersion /\ k < MaxVersion
    BY <1>1 DEF Commit, AtVersion, InTx
  <1>4. pending' = (k + 2)..MaxVersion /\ k + 1 \in 0..MaxVersion
    BY <1>2, <1>3, AccessAssumption DEF Commit
  <1>5. AtVersion(k + 1)'
    BY <1>3, <1>4 DEF Commit, AtVersion, InTx
  <1>6. BootTypeOK' /\ UserInv'
    BY DEF Commit, BootInv, BootTypeOK, BootSteps, UserInv
  <1> QED BY <1>4, <1>5, <1>6 DEF BootInv, SchemaInv

LEMMA AppliedBoot == ASSUME BootInv, Applied PROVE BootInv'
  <1>1. PICK k \in 0..MaxVersion : AtVersion(k)
    BY DEF BootInv, SchemaInv
  <1>2. k = MaxVersion
    <2>1. (k + 1)..MaxVersion = {}
      BY <1>1 DEF Applied, AtVersion
    <2>2. k < MaxVersion => k + 1 \in (k + 1)..MaxVersion
      BY AccessAssumption
    <2> QED BY <2>1, <2>2, AccessAssumption
  <1>3. AtVersion(k)'
    BY <1>1, <1>2 DEF Applied, AtVersion, InTx
  <1>4. BootTypeOK' /\ UserInv'
    BY DEF Applied, BootInv, BootTypeOK, BootSteps, UserInv
  <1> QED BY <1>3, <1>4 DEF BootInv, SchemaInv

\* The steps after the migrations, which leave the schema alone.
LEMMA SeedBoot ==
  ASSUME BootInv, CountUsers \/ CreateUser \/ Listen \/ Signal
  PROVE  BootInv'
  <1>1. PICK k \in 0..MaxVersion : AtVersion(k)
    BY DEF BootInv, SchemaInv
  <1>2. /\ phase \in {"count", "insert", "sweep", "serve"}
        /\ phase' \in {"insert", "sweep", "serve", "drain"}
        /\ UNCHANGED << pending, tables, recorded, saved, name >>
    BY DEF CountUsers, CreateUser, Listen, Signal
  <1>3. AtVersion(k)'
    BY <1>1, <1>2 DEF AtVersion, InTx
  <1>4. UserInv'
    BY DEF CountUsers, CreateUser, Listen, Signal, BootInv, UserInv, BootTypeOK
  <1>5. BootTypeOK'
    BY <1>2, AccessAssumption
    DEF CountUsers, CreateUser, Listen, Signal, BootInv, BootTypeOK, BootSteps
  <1> QED BY <1>3, <1>4, <1>5 DEF BootInv, SchemaInv

\* Requests and the environment leave the boot alone.
LEMMA QuietBoot ==
  ASSUME BootInv, UNCHANGED << bootVars, users, crashes >>
  PROVE  BootInv'
  <1>1. PICK k \in 0..MaxVersion : AtVersion(k)
    BY DEF BootInv, SchemaInv
  <1>2. AtVersion(k)'
    BY <1>1 DEF AtVersion, InTx, bootVars
  <1>3. BootTypeOK' /\ UserInv'
    BY DEF BootInv, BootTypeOK, UserInv, bootVars
  <1> QED BY <1>2, <1>3 DEF BootInv, SchemaInv

-----------------------------------------------------------------------------
(* Sessions.                                                               *)

LEMMA InitRequests == Init => RequestInv
  BY AccessAssumption
  DEF Init, RequestInv, RequestTypeOK, LocalsInv, LogoutInv, NoLocals, Steps, AuthSteps

\* The boot does nothing to sessions.
LEMMA QuietRequests ==
  ASSUME RequestInv, UNCHANGED << tokenVars, reqVars >>
  PROVE  RequestInv'
  BY DEF RequestInv, RequestTypeOK, LocalsInv, LogoutInv, tokenVars, reqVars

\* A process that ends takes its requests with it.
LEMMA ExitRequests == ASSUME RequestInv, Exit PROVE RequestInv'
  <1>1. /\ UNCHANGED tokenVars
        /\ pc' = [r \in Reqs |-> "idle"] /\ loc' = [r \in Reqs |-> NoLocals] /\ gone' = {}
    BY DEF Exit
  <1> QED
    BY <1>1 DEF RequestInv, RequestTypeOK, LocalsInv, LogoutInv, NoLocals, Steps,
                AuthSteps, tokenVars

\* What a request that has returned holds is what there is to know of it.
LEMMA ReturnRequests ==
  ASSUME RequestInv, NEW r \in Reqs, Return(r), UNCHANGED tokenVars
  PROVE  RequestInv'
  <1>1. RequestTypeOK'
    BY DEF Return, RequestInv, RequestTypeOK, NoLocals, Steps, tokenVars
  <1>2. LocalsInv'
    BY DEF Return, RequestInv, RequestTypeOK, LocalsInv, NoLocals, AuthSteps, tokenVars
  <1>3. LogoutInv'
    BY DEF Return, RequestInv, RequestTypeOK, LogoutInv, tokenVars
  <1> QED BY <1>1, <1>2, <1>3 DEF RequestInv

LEMMA LoginRequests ==
  ASSUME RequestInv, NEW r \in Reqs,
         LoginRequest(r) \/ LoginUser(r) \/ LoginFetch(r) \/ GiveUp(r, "login.insert")
  PROVE  RequestInv'
  <1>1. CASE Return(r)
    <2>1. UNCHANGED tokenVars
      BY DEF LoginRequest, LoginUser, LoginFetch, GiveUp, tokenVars
    <2> QED BY <1>1, <2>1, ReturnRequests
  <1>2. CASE ~Return(r)
    <2>1. /\ UNCHANGED << tokenVars, loc, gone >>
          /\ \/ pc[r] = "idle" /\ pc' = [pc EXCEPT ![r] = "login.user"]
             \/ pc[r] = "login.user" /\ pc' = [pc EXCEPT ![r] = "login.insert"]
             \/ pc[r] = "login.fetch" /\ pc' = [pc EXCEPT ![r] = "login.answer"]
      BY <1>2 DEF LoginRequest, LoginUser, LoginFetch, GiveUp, Goto, Idle
    <2>2. RequestTypeOK'
      BY <2>1 DEF RequestInv, RequestTypeOK, Steps, tokenVars
    <2>3. LocalsInv'
      BY <2>1 DEF RequestInv, RequestTypeOK, LocalsInv, AuthSteps, tokenVars
    <2>4. LogoutInv'
      BY <2>1 DEF RequestInv, RequestTypeOK, LogoutInv, tokenVars
    <2> QED BY <2>2, <2>3, <2>4 DEF RequestInv
  <1> QED BY <1>1, <1>2

\* A new session has a token nobody has been given or has logged out.
LEMMA InsertRequests ==
  ASSUME RequestInv, NEW r \in Reqs, LoginInsert(r)
  PROVE  RequestInv'
  <1>1. PICK k \in Tokens \ used :
          /\ used' = used \cup {k}
          /\ sessions' = sessions \cup {k}
          /\ \/ /\ pc' = [pc EXCEPT ![r] = "login.fetch"]
                /\ loc' = [loc EXCEPT ![r].tok = k]
                /\ UNCHANGED gone
             \/ Return(r)
    BY DEF LoginInsert
  <1>2. pc[r] = "login.insert" /\ UNCHANGED << expired, known, over >>
    BY DEF LoginInsert
  <1>3. RequestTypeOK'
    <2>1. /\ used' \in SUBSET Tokens /\ sessions' \in SUBSET used'
          /\ expired' \in SUBSET used' /\ known' \in SUBSET used' /\ over' \in SUBSET known'
      BY <1>1, <1>2 DEF RequestInv, RequestTypeOK
    <2>2. CASE loc' = [loc EXCEPT ![r].tok = k] /\ pc' = [pc EXCEPT ![r] = "login.fetch"]
               /\ UNCHANGED gone
      BY <2>1, <2>2 DEF RequestInv, RequestTypeOK, Steps
    <2>3. CASE Return(r)
      BY <2>1, <2>3 DEF RequestInv, RequestTypeOK, Steps, Return, NoLocals
    <2> QED BY <1>1, <2>2, <2>3
  <1>4. LocalsInv'
    BY <1>1, <1>2
    DEF RequestInv, RequestTypeOK, LocalsInv, AuthSteps, Return, NoLocals
  <1>5. LogoutInv'
    BY <1>1, <1>2, AccessAssumption
    DEF RequestInv, RequestTypeOK, LocalsInv, LogoutInv, AuthSteps, Return, NoLocals
  <1> QED BY <1>3, <1>4, <1>5 DEF RequestInv

LEMMA AnswerRequests ==
  ASSUME RequestInv, NEW r \in Reqs, LoginAnswer(r)
  PROVE  RequestInv'
  <1>1. loc[r].tok \in used
    BY DEF LoginAnswer, RequestInv, LocalsInv
  <1>2. RequestTypeOK'
    BY <1>1 DEF LoginAnswer, Return, RequestInv, RequestTypeOK, NoLocals, Steps
  <1>3. LocalsInv'
    BY <1>1 DEF LoginAnswer, Return, RequestInv, RequestTypeOK, LocalsInv, NoLocals, AuthSteps
  <1>4. LogoutInv'
    BY DEF LoginAnswer, Return, RequestInv, RequestTypeOK, LogoutInv
  <1> QED BY <1>2, <1>3, <1>4 DEF RequestInv

LEMMA ArriveRequests ==
  ASSUME RequestInv, NEW r \in Reqs, AuthedRequest(r)
  PROVE  RequestInv'
  <1>1. PICK k \in known \cup {None}, logout \in BOOLEAN :
          loc' = [loc EXCEPT ![r] =
                    [logout |-> logout, tok |-> k, dead |-> k \in expired \cup over]]
    BY DEF AuthedRequest
  <1>2. /\ UNCHANGED << tokenVars, gone >>
        /\ pc' = [pc EXCEPT ![r] = "auth.session"]
    BY DEF AuthedRequest
  <1>3. RequestTypeOK'
    BY <1>1, <1>2 DEF RequestInv, RequestTypeOK, Steps, tokenVars
  <1>4. LocalsInv'
    BY <1>1, <1>2 DEF RequestInv, RequestTypeOK, LocalsInv, AuthSteps, tokenVars
  <1>5. LogoutInv'
    BY <1>1, <1>2 DEF RequestInv, RequestTypeOK, LogoutInv, tokenVars
  <1> QED BY <1>3, <1>4, <1>5 DEF RequestInv

\* A session that is found and has not expired is of a token that was alive when
\* the request arrived: tokens stay expired, and those logged out have no row.
LEMMA LookupRequests ==
  ASSUME RequestInv, NEW r \in Reqs, LookupSession(r)
  PROVE  RequestInv'
  <1>1. CASE Return(r)
    BY <1>1, ReturnRequests DEF LookupSession
  <1>2. CASE ~Return(r)
    <2>1. /\ UNCHANGED << tokenVars, loc, gone >> /\ pc[r] = "auth.session"
          /\ \/ loc[r].tok \in sessions \ expired /\ pc' = [pc EXCEPT ![r] = "auth.user"]
             \/ pc' = [pc EXCEPT ![r] = "auth.expire"]
      BY <1>2 DEF LookupSession, Goto
    <2>2. loc[r].tok \in sessions \ expired =>
            loc[r].tok \in known /\ ("io" \notin Faults => ~loc[r].dead)
      BY <2>1, AccessAssumption
      DEF RequestInv, RequestTypeOK, LocalsInv, LogoutInv, AuthSteps
    <2>3. RequestTypeOK'
      BY <2>1 DEF RequestInv, RequestTypeOK, Steps, tokenVars
    <2>4. LocalsInv'
      BY <2>1, <2>2 DEF RequestInv, RequestTypeOK, LocalsInv, AuthSteps, tokenVars
    <2>5. LogoutInv'
      BY <2>1, <2>2 DEF RequestInv, RequestTypeOK, LogoutInv, tokenVars
    <2> QED BY <2>3, <2>4, <2>5 DEF RequestInv
  <1> QED BY <1>1, <1>2

LEMMA ExpiredRequests ==
  ASSUME RequestInv, NEW r \in Reqs, DeleteExpired(r)
  PROVE  RequestInv'
  <1>1. RequestTypeOK'
    BY DEF DeleteExpired, Return, RequestInv, RequestTypeOK, NoLocals, Steps
  <1>2. LocalsInv'
    BY DEF DeleteExpired, Return, RequestInv, RequestTypeOK, LocalsInv, NoLocals, AuthSteps
  <1>3. LogoutInv'
    BY DEF DeleteExpired, Return, RequestInv, RequestTypeOK, LogoutInv
  <1> QED BY <1>1, <1>2, <1>3 DEF RequestInv

LEMMA HandlerRequests ==
  ASSUME RequestInv, NEW r \in Reqs, GetUser(r) \/ Handler(r)
  PROVE  RequestInv'
  <1>1. CASE Return(r)
    BY <1>1, ReturnRequests DEF GetUser, Handler
  <1>2. CASE ~Return(r)
    <2>1. /\ UNCHANGED << tokenVars, loc, gone >>
          /\ pc[r] = "auth.user" /\ pc' = [pc EXCEPT ![r] = "handler"]
      BY <1>2 DEF GetUser, Handler, Goto
    <2>2. RequestTypeOK'
      BY <2>1 DEF RequestInv, RequestTypeOK, Steps, tokenVars
    <2>3. LocalsInv'
      BY <2>1 DEF RequestInv, RequestTypeOK, LocalsInv, AuthSteps, tokenVars
    <2>4. LogoutInv'
      BY <2>1 DEF RequestInv, RequestTypeOK, LogoutInv, tokenVars
    <2> QED BY <2>2, <2>3, <2>4 DEF RequestInv
  <1> QED BY <1>1, <1>2

\* With a database that does not fail, a DELETE that was not done means that the
\* client is gone.
LEMMA LogoutRequests ==
  ASSUME RequestInv, NEW r \in Reqs, LogoutDelete(r)
  PROVE  RequestInv'
  <1>1. /\ UNCHANGED << used, expired, known, over, loc, gone >>
        /\ pc[r] = "handler" /\ pc' = [pc EXCEPT ![r] = "logout.answer"]
        /\ \/ sessions' = sessions \ {loc[r].tok}
           \/ CanFail(r) /\ sessions' = sessions
    BY DEF LogoutDelete, Goto
  <1>2. RequestTypeOK'
    BY <1>1 DEF RequestInv, RequestTypeOK, Steps
  <1>3. LocalsInv'
    BY <1>1 DEF RequestInv, RequestTypeOK, LocalsInv, AuthSteps
  <1>4. LogoutInv'
    BY <1>1 DEF RequestInv, RequestTypeOK, LogoutInv, CanFail
  <1> QED BY <1>2, <1>3, <1>4 DEF RequestInv

LEMMA LoggedOutRequests ==
  ASSUME RequestInv, NEW r \in Reqs, LogoutAnswer(r)
  PROVE  RequestInv'
  <1>1. loc[r].tok \in known
    BY DEF LogoutAnswer, RequestInv, LocalsInv
  <1>2. RequestTypeOK'
    BY <1>1 DEF LogoutAnswer, Return, RequestInv, RequestTypeOK, NoLocals, Steps
  <1>3. LocalsInv'
    BY DEF LogoutAnswer, Return, RequestInv, RequestTypeOK, LocalsInv, NoLocals, AuthSteps
  <1>4. LogoutInv'
    BY DEF LogoutAnswer, Return, RequestInv, RequestTypeOK, LogoutInv
  <1> QED BY <1>2, <1>3, <1>4 DEF RequestInv

LEMMA WorldRequests ==
  ASSUME RequestInv,
         (\E r \in Reqs : Disconnect(r)) \/ (\E k \in Tokens : Expire(k))
  PROVE  RequestInv'
  <1>1. /\ UNCHANGED << used, sessions, known, over, pc, loc >>
        /\ gone' \in SUBSET Reqs /\ gone \subseteq gone'
        /\ expired' \in SUBSET used /\ expired \subseteq expired'
    <2>1. CASE \E r \in Reqs : Disconnect(r)
      BY <2>1 DEF Disconnect, RequestInv, RequestTypeOK, tokenVars
    <2>2. CASE \E k \in Tokens : Expire(k)
      BY <2>2 DEF Expire, RequestInv, RequestTypeOK, reqVars
    <2> QED BY <2>1, <2>2
  <1>2. RequestTypeOK' /\ LocalsInv' /\ LogoutInv'
    BY <1>1 DEF RequestInv, RequestTypeOK, LocalsInv, LogoutInv
  <1> QED BY <1>2 DEF RequestInv

-----------------------------------------------------------------------------
(* The theorems.                                                           *)

LEMMA NextIInv == IInv /\ [Next]_vars => IInv'
  <1> SUFFICES ASSUME IInv, [Next]_vars PROVE BootInv' /\ RequestInv'
    BY DEF IInv
  <1>0. BootInv /\ RequestInv
    BY DEF IInv
  <1>1. CASE BootStep
    <2>1. UNCHANGED << tokenVars, reqVars >>
      BY <1>1 DEF BootStep, Start, Load, BeginTx, ExecBody, RecordVersion, Commit,
                  Applied, CountUsers, CreateUser, Listen
    <2>2. BootInv'
      BY <1>0, <1>1, StartBoot, LoadBoot, BeginBoot, ExecBoot, RecordBoot, CommitBoot,
         AppliedBoot, SeedBoot DEF BootStep
    <2> QED BY <1>0, <2>1, <2>2, QuietRequests
  <1>2. CASE Crash \/ Shutdown
    <2>1. Exit /\ crashes' \in 0..MaxCrashes
      BY <1>0, <1>2, AccessAssumption DEF Crash, Shutdown, BootInv, BootTypeOK
    <2> QED BY <1>0, <2>1, ExitBoot, ExitRequests
  <1>3. CASE Signal
    <2>1. UNCHANGED << tokenVars, reqVars >>
      BY <1>3 DEF Signal
    <2> QED BY <1>0, <1>3, <2>1, SeedBoot, QuietRequests
  <1>4. ASSUME NEW r \in Reqs, Request(r)
        PROVE  BootInv' /\ RequestInv'
    <2>1. UNCHANGED << bootVars, users, crashes >>
      BY <1>4 DEF Request, LoginRequest, LoginUser, LoginInsert, LoginFetch, LoginAnswer,
                  AuthedRequest, LookupSession, DeleteExpired, GetUser, Handler,
                  LogoutDelete, LogoutAnswer, GiveUp
    <2>2. RequestInv'
      BY <1>0, <1>4, LoginRequests, InsertRequests, AnswerRequests, ArriveRequests,
         LookupRequests, ExpiredRequests, HandlerRequests, LogoutRequests,
         LoggedOutRequests DEF Request
    <2> QED BY <1>0, <2>1, <2>2, QuietBoot
  <1>5. CASE (\E r \in Reqs : Disconnect(r)) \/ (\E k \in Tokens : Expire(k))
    <2>1. UNCHANGED << bootVars, users, crashes >>
      BY <1>5 DEF Disconnect, Expire
    <2> QED BY <1>0, <1>5, <2>1, QuietBoot, WorldRequests
  <1>6. CASE UNCHANGED vars
    <2>1. UNCHANGED << bootVars, users, crashes, tokenVars, reqVars >>
      BY <1>6 DEF vars
    <2> QED BY <1>0, <2>1, QuietBoot, QuietRequests
  <1> QED BY <1>1, <1>2, <1>3, <1>4, <1>5, <1>6 DEF Next

\* The inductive invariant holds throughout.
THEOREM AccessInvariance == Spec => []IInv
  <1>1. Init => IInv
    BY InitBoot, InitRequests DEF IInv
  <1> QED BY <1>1, NextIInv, PTL DEF Spec

\* Type correctness, for any constants.
THEOREM AccessTypes == Spec => []TypeOK
  <1>1. IInv => TypeOK
    BY DEF IInv, BootInv, RequestInv, TypeOK
  <1> QED BY <1>1, AccessInvariance, PTL

\* Wherever boots are cut short, the schema that is left is whole: any number of
\* migrations and of crashes, in the middle of a transaction or between two.
THEOREM SchemaStaysWhole == Spec => []SchemaWhole
  <1>1. IInv => SchemaWhole
    <2> SUFFICES ASSUME IInv, saved = None
                 PROVE  tables = recorded /\ \A v \in recorded : 1..v \subseteq recorded
      BY DEF SchemaWhole
    <2>1. PICK k \in 0..MaxVersion : AtVersion(k)
      BY DEF IInv, BootInv, SchemaInv
    <2>2. ~InTx
      BY <2>1, AccessAssumption DEF AtVersion, InTx, Versions
    <2>3. tables = 1..k /\ recorded = 1..k
      BY <2>1, <2>2 DEF AtVersion, InTx
    <2> QED BY <2>3
  <1> QED BY <1>1, AccessInvariance, PTL

\* The server serves with the whole schema and one user only, whatever usernames
\* its boots were given.
THEOREM ServesWhenReady == Spec => []ServesReady
  <1>1. IInv => ServesReady
    <2> SUFFICES ASSUME IInv, phase \in {"serve", "drain"}
                 PROVE  tables = Versions /\ Cardinality(users) = 1
      BY DEF ServesReady
    <2>1. PICK k \in 0..MaxVersion : AtVersion(k)
      BY DEF IInv, BootInv, SchemaInv
    <2>2. tables = Versions
      BY <2>1 DEF AtVersion, InTx, Versions
    <2>3. \E n \in Names : users = {n}
      BY DEF IInv, BootInv, UserInv
    <2> QED BY <2>2, <2>3, FS_Singleton
  <1> QED BY <1>1, AccessInvariance, PTL

\* With a database that does not fail, nobody is let in with a token that had
\* expired or been logged out when the request arrived, however many requests,
\* lost clients and restarts there are.
THEOREM OnlyAliveAreLetIn ==
  ASSUME "io" \notin Faults
  PROVE  Spec => []LetInAlive
  <1>1. IInv => LetInAlive
    BY DEF IInv, RequestInv, LocalsInv, LogoutInv, LetInAlive
  <1> QED BY <1>1, AccessInvariance, PTL
=============================================================================
