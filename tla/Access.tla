------------------------------- MODULE Access -------------------------------
(***************************************************************************)
(* The way into the server: its boot (cmd/server/main.go), which migrates  *)
(* the database (internal/db/migrate.go), seeds the admin and only then    *)
(* serves, and the sessions by which a request is let in (internal/auth,   *)
(* internal/db/session.go, internal/api/auth.go and middleware.go).        *)
(*                                                                         *)
(* A statement is one step.  The transaction of applyOne is three, and     *)
(* nothing else uses the database while the server boots.                  *)
(***************************************************************************)
EXTENDS Naturals, FiniteSetsExt

CONSTANTS
  MaxVersion, \* number of migration files; they are applied in lexical order
  Names,      \* usernames the environment variable may hold, from boot to boot
  Reqs,       \* requests, one at a time each
  Tokens,     \* session tokens, random and never drawn twice
  None,
  Faults,     \* what the environment may do to a request
  MaxCrashes  \* bound: crashes, failed boots and shutdowns of the server

Versions == 1..MaxVersion

\* The migration that creates the table users.
AuthVersion == 1

ASSUME AccessAssumption ==
  /\ MaxVersion \in Nat \ {0}
  /\ Names # {}
  /\ None \notin Tokens \cup [tables : SUBSET Versions, recorded : SUBSET Versions]
  /\ Faults \subseteq {"disconnect", "io"}
  /\ MaxCrashes \in Nat

VARIABLES
  phase,    \* where run() is
  pending,  \* Apply: the versions still to apply
  tables,   \* versions whose tables the database has
  recorded, \* rows of schema_migrations
  saved,    \* tables and recorded when the transaction began, None outside of it
  name,     \* CTRLROOM_USERNAME of this boot
  users,    \* rows of users
  sessions, \* rows of sessions
  used,     \* tokens drawn so far
  expired,  \* tokens whose expires_at has passed
  known,    \* tokens that have reached a client in a cookie
  over,     \* tokens whose logout a client has been answered
  pc,       \* next step of each request
  loc,      \* its locals; dead: on arrival its token was expired or logged out
  gone,     \* requests whose client is gone
  crashes

bootVars == << phase, pending, tables, recorded, saved, name >>
tokenVars == << sessions, used, expired, known, over >>
reqVars == << pc, loc, gone >>

vars == << bootVars, users, tokenVars, reqVars, crashes >>

BootSteps ==
  {"down", "load", "apply", "exec", "record", "commit", "count", "insert", "sweep"}

Steps ==
  {"idle", "login.user", "login.insert", "login.fetch", "login.answer",
   "auth.session", "auth.expire", "auth.user", "handler", "logout.answer"}

BootTypeOK ==
  /\ phase \in BootSteps \cup {"serve", "drain"}
  /\ pending \in SUBSET Versions
  /\ tables \in SUBSET Versions
  /\ recorded \in SUBSET Versions
  /\ saved \in [tables : SUBSET Versions, recorded : SUBSET Versions] \cup {None}
  /\ name \in Names
  /\ users \in SUBSET Names
  /\ crashes \in 0..MaxCrashes

RequestTypeOK ==
  /\ used \in SUBSET Tokens
  /\ sessions \in SUBSET used
  /\ expired \in SUBSET used
  /\ known \in SUBSET used
  /\ over \in SUBSET known
  /\ pc \in [Reqs -> Steps]
  /\ loc \in [Reqs -> [logout : BOOLEAN, tok : Tokens \cup {None}, dead : BOOLEAN]]
  /\ gone \in SUBSET Reqs

TypeOK == BootTypeOK /\ RequestTypeOK

NoLocals == [logout |-> FALSE, tok |-> None, dead |-> FALSE]

Init ==
  /\ phase = "down"
  /\ pending = {} /\ tables = {} /\ recorded = {} /\ saved = None
  /\ name \in Names
  /\ users = {}
  /\ sessions = {} /\ used = {} /\ expired = {} /\ known = {} /\ over = {}
  /\ pc = [r \in Reqs |-> "idle"]
  /\ loc = [r \in Reqs |-> NoLocals]
  /\ gone = {}
  /\ crashes = 0

-----------------------------------------------------------------------------
(* Boot.  No step of it depends on a client: a statement that fails makes  *)
(* run() return and the process exit, which is Crash.                      *)

\* The process starts, with the environment of the day: db.Open, and the
\* CREATE TABLE IF NOT EXISTS of schema_migrations.
Start ==
  /\ phase = "down"
  /\ phase' = "load"
  /\ name' \in Names
  /\ UNCHANGED << pending, tables, recorded, saved, users, tokenVars, reqVars, crashes >>

\* loadApplied, and the list of the migrations it does not hold.
Load ==
  /\ phase = "load"
  /\ phase' = "apply"
  /\ pending' = Versions \ recorded
  /\ UNCHANGED << tables, recorded, saved, name, users, tokenVars, reqVars, crashes >>

\* Mutant: the order of the directory is taken as it comes.
NextPending_Unsorted == Max(pending)

\* sort.Strings: the next file to apply.
NextPending == Min(pending)

\* Mutant: the statements run outside of a transaction.
BeginTx_NoTx ==
  /\ phase = "apply" /\ pending # {}
  /\ phase' = "exec"
  /\ UNCHANGED << pending, tables, recorded, saved, name, users, tokenVars, reqVars, crashes >>

\* applyOne: BeginTx.
BeginTx ==
  /\ phase = "apply" /\ pending # {}
  /\ phase' = "exec"
  /\ saved' = [tables |-> tables, recorded |-> recorded]
  /\ UNCHANGED << pending, tables, recorded, name, users, tokenVars, reqVars, crashes >>

\* What a rollback leaves.
RolledBack == IF saved = None THEN [tables |-> tables, recorded |-> recorded] ELSE saved

\* The body of the file: its CREATE TABLE has no IF NOT EXISTS.
ExecBody ==
  /\ phase = "exec"
  /\ LET v == NextPending IN
     IF v \in tables
       THEN /\ phase' = "down"
            /\ tables' = RolledBack.tables /\ recorded' = RolledBack.recorded
            /\ saved' = None /\ pending' = {}
       ELSE /\ phase' = "record"
            /\ tables' = tables \cup {v}
            /\ UNCHANGED << recorded, saved, pending >>
  /\ UNCHANGED << name, users, tokenVars, reqVars, crashes >>

RecordVersion ==
  /\ phase = "record"
  /\ phase' = "commit"
  /\ recorded' = recorded \cup {NextPending}
  /\ UNCHANGED << pending, tables, saved, name, users, tokenVars, reqVars, crashes >>

Commit ==
  /\ phase = "commit"
  /\ phase' = "apply"
  /\ pending' = pending \ {NextPending}
  /\ saved' = None
  /\ UNCHANGED << tables, recorded, name, users, tokenVars, reqVars, crashes >>

Applied ==
  /\ phase = "apply" /\ pending = {}
  /\ phase' = "count"
  /\ UNCHANGED << pending, tables, recorded, saved, name, users, tokenVars, reqVars, crashes >>

\* Mutant: the user of this boot's name is looked for.
CountUsers_ByName ==
  /\ phase = "count"
  /\ AuthVersion \in tables
  /\ phase' = IF name \in users THEN "sweep" ELSE "insert"
  /\ UNCHANGED << pending, tables, recorded, saved, name, users, tokenVars, reqVars, crashes >>

\* bootstrapAdmin: CountUsers; with a user there is nothing to do.
CountUsers ==
  /\ phase = "count"
  /\ AuthVersion \in tables
  /\ phase' = IF users # {} THEN "sweep" ELSE "insert"
  /\ UNCHANGED << pending, tables, recorded, saved, name, users, tokenVars, reqVars, crashes >>

\* CreateUser; what it reads back is only logged.
CreateUser ==
  /\ phase = "insert"
  /\ users' = users \cup {name}
  /\ phase' = "sweep"
  /\ UNCHANGED << pending, tables, recorded, saved, name, tokenVars, reqVars, crashes >>

\* git.New, the worktree directory, agent.SweepOrphans (AgentManager: Sweep),
\* and ListenAndServe.
Listen ==
  /\ phase = "sweep"
  /\ phase' = "serve"
  /\ UNCHANGED << pending, tables, recorded, saved, name, users, tokenVars, reqVars, crashes >>

BootStep ==
  \/ Start \/ Load \/ BeginTx \/ ExecBody \/ RecordVersion \/ Commit
  \/ Applied \/ CountUsers \/ CreateUser \/ Listen

\* The process is over: SQLite rolls back what was not committed.
Exit ==
  /\ phase' = "down"
  /\ pending' = {}
  /\ tables' = RolledBack.tables
  /\ recorded' = RolledBack.recorded
  /\ saved' = None
  /\ pc' = [r \in Reqs |-> "idle"]
  /\ loc' = [r \in Reqs |-> NoLocals]
  /\ gone' = {}
  /\ UNCHANGED << name, users, tokenVars >>

Crash ==
  /\ phase # "down" /\ crashes < MaxCrashes
  /\ crashes' = crashes + 1
  /\ Exit

\* SIGINT or SIGTERM: Shutdown takes no more requests and lets the ones that
\* have begun finish, for ten seconds.
Signal ==
  /\ phase = "serve" /\ crashes < MaxCrashes
  /\ crashes' = crashes + 1
  /\ phase' = "drain"
  /\ UNCHANGED << pending, tables, recorded, saved, name, users, tokenVars, reqVars >>

\* All have finished, or the ten seconds are over.
Shutdown ==
  /\ phase = "drain"
  /\ Exit
  /\ UNCHANGED crashes

-----------------------------------------------------------------------------
(* Requests.                                                               *)

Goto(r, step) ==
  /\ pc' = [pc EXCEPT ![r] = step]
  /\ UNCHANGED << loc, gone >>

Return(r) ==
  /\ pc' = [pc EXCEPT ![r] = "idle"]
  /\ loc' = [loc EXCEPT ![r] = NoLocals]
  /\ gone' = gone \ {r}

\* A statement of r can end in an error: its context is cancelled, or the
\* database fails.
CanFail(r) == r \in gone \/ "io" \in Faults

\* A statement of r fails and the handler gives up.
GiveUp(r, step) ==
  /\ pc[r] = step /\ CanFail(r)
  /\ Return(r)
  /\ UNCHANGED << bootVars, users, tokenVars, crashes >>

Idle(r) == phase = "serve" /\ pc[r] = "idle"

LoginRequest(r) ==
  /\ Idle(r)
  /\ pc' = [pc EXCEPT ![r] = "login.user"]
  /\ UNCHANGED << bootVars, users, tokenVars, loc, gone, crashes >>

\* GetUserByUsername and Verify, with the right name and password or not.
LoginUser(r) ==
  /\ pc[r] = "login.user"
  /\ \/ r \notin gone /\ users # {} /\ Goto(r, "login.insert")
     \/ Return(r)
  /\ UNCHANGED << bootVars, users, tokenVars, crashes >>

\* Issue, CreateSession: the row is inserted, whether r hears of it or not.
LoginInsert(r) ==
  /\ pc[r] = "login.insert"
  /\ \E k \in Tokens \ used :
       /\ used' = used \cup {k}
       /\ sessions' = sessions \cup {k}
       /\ \/ /\ pc' = [pc EXCEPT ![r] = "login.fetch"]
             /\ loc' = [loc EXCEPT ![r].tok = k]
             /\ UNCHANGED gone
          \/ CanFail(r) /\ Return(r)
  /\ UNCHANGED << bootVars, users, expired, known, over, crashes >>

\* CreateSession reads created_at back: without it there is no cookie.
LoginFetch(r) ==
  /\ pc[r] = "login.fetch"
  /\ \/ r \notin gone /\ Goto(r, "login.answer")
     \/ CanFail(r) /\ Return(r)
  /\ UNCHANGED << bootVars, users, tokenVars, crashes >>

LoginAnswer(r) ==
  /\ pc[r] = "login.answer"
  /\ known' = IF r \in gone THEN known ELSE known \cup {loc[r].tok}
  /\ Return(r)
  /\ UNCHANGED << bootVars, users, sessions, used, expired, over, crashes >>

\* A request behind Authed, with the cookie of any login so far, or without
\* one: a bearer token is as good as none, as nothing writes api_tokens.
AuthedRequest(r) ==
  /\ Idle(r)
  /\ pc' = [pc EXCEPT ![r] = "auth.session"]
  /\ \E k \in known \cup {None}, logout \in BOOLEAN :
       loc' = [loc EXCEPT ![r] =
                 [logout |-> logout, tok |-> k, dead |-> k \in expired \cup over]]
  /\ UNCHANGED << bootVars, users, tokenVars, gone, crashes >>

\* LookupSession: SELECT, and the comparison of expires_at with the clock.
LookupSession(r) ==
  /\ pc[r] = "auth.session"
  /\ \/ r \notin gone /\ loc[r].tok \in sessions \ expired /\ Goto(r, "auth.user")
     \/ loc[r].tok \in sessions \cap expired /\ Goto(r, "auth.expire")
     \/ (loc[r].tok \notin sessions \/ CanFail(r)) /\ Return(r)
  /\ UNCHANGED << bootVars, users, tokenVars, crashes >>

\* LookupSession deletes the expired row, if it can; the request is refused.
DeleteExpired(r) ==
  /\ pc[r] = "auth.expire"
  /\ \/ sessions' = sessions \ {loc[r].tok}
     \/ CanFail(r) /\ UNCHANGED sessions
  /\ Return(r)
  /\ UNCHANGED << bootVars, users, used, expired, known, over, crashes >>

\* GetUserByID: the request is let in.
GetUser(r) ==
  /\ pc[r] = "auth.user"
  /\ \/ r \notin gone /\ users # {} /\ Goto(r, "handler")
     \/ CanFail(r) /\ Return(r)
  /\ UNCHANGED << bootVars, users, tokenVars, crashes >>

\* Any handler but handleLogout: the other modules say what it does.
Handler(r) ==
  /\ pc[r] = "handler" /\ ~loc[r].logout
  /\ Return(r)
  /\ UNCHANGED << bootVars, users, tokenVars, crashes >>

\* Mutant: only the cookie is cleared.
LogoutDelete_CookieOnly(r) ==
  /\ pc[r] = "handler" /\ loc[r].logout
  /\ Goto(r, "logout.answer")
  /\ UNCHANGED << bootVars, users, tokenVars, crashes >>

\* handleLogout, Clear: an error of DeleteSession is dropped.
LogoutDelete(r) ==
  /\ pc[r] = "handler" /\ loc[r].logout
  /\ \/ sessions' = sessions \ {loc[r].tok}
     \/ CanFail(r) /\ UNCHANGED sessions
  /\ Goto(r, "logout.answer")
  /\ UNCHANGED << bootVars, users, used, expired, known, over, crashes >>

\* 204, and a cookie that replaces the client's.
LogoutAnswer(r) ==
  /\ pc[r] = "logout.answer"
  /\ over' = IF r \in gone THEN over ELSE over \cup {loc[r].tok}
  /\ Return(r)
  /\ UNCHANGED << bootVars, users, sessions, used, expired, known, crashes >>

Request(r) ==
  \/ LoginRequest(r) \/ LoginUser(r) \/ LoginInsert(r) \/ LoginFetch(r) \/ LoginAnswer(r)
  \/ AuthedRequest(r) \/ LookupSession(r) \/ DeleteExpired(r) \/ GetUser(r)
  \/ Handler(r) \/ LogoutDelete(r) \/ LogoutAnswer(r)
  \/ GiveUp(r, "login.insert")

-----------------------------------------------------------------------------
(* The environment.                                                        *)

Disconnect(r) ==
  /\ "disconnect" \in Faults
  /\ pc[r] # "idle" /\ r \notin gone
  /\ gone' = gone \cup {r}
  /\ UNCHANGED << bootVars, users, tokenVars, pc, loc, crashes >>

\* SessionTTL after a login.
Expire(k) ==
  /\ k \in used \ expired
  /\ expired' = expired \cup {k}
  /\ UNCHANGED << bootVars, users, sessions, used, known, over, reqVars, crashes >>

Next ==
  \/ BootStep
  \/ Crash \/ Signal \/ Shutdown
  \/ \E r \in Reqs : Request(r) \/ Disconnect(r)
  \/ \E k \in Tokens : Expire(k)

\* Somebody starts the server again whenever it is down, and its boot waits
\* for nobody; Shutdown ends by its timeout.
Spec == Init /\ [][Next]_vars /\ WF_vars(BootStep) /\ WF_vars(Shutdown)
-----------------------------------------------------------------------------
\* Outside of a transaction the tables are those of the recorded migrations,
\* and no migration is there without all the ones before it, wherever an
\* earlier boot stopped (migrate.go:16-18: "no partial state is left").
SchemaWhole ==
  saved = None =>
    /\ tables = recorded
    /\ \A v \in recorded : 1..v \subseteq recorded

\* Requests are served only with the whole schema and exactly one user,
\* however many boots it took and whatever name each of them was given
\* (DESIGN.md D12: "First-boot seed of one admin from env").
ServesReady ==
  phase \in {"serve", "drain"} => tables = Versions /\ Cardinality(users) = 1

\* A request is let in only with a token that had reached a client and, when
\* the request arrived, had neither expired nor been logged out by a logout
\* that was answered (session.go:42; api/auth_test.go: me is 401 after logout).
LetInAlive ==
  \A r \in Reqs : pc[r] = "handler" => loc[r].tok \in known /\ ~loc[r].dead

\* Unless the server is stopped again and again, it serves in the end: no
\* boot that was cut short leaves a database the next one fails on.
ServesInTheEnd == <>[](phase = "serve")
-----------------------------------------------------------------------------
(* Inductive strengthening.                                                *)

InTx == phase \in {"exec", "record", "commit"}

\* The migrations committed so far are the first k.
AtVersion(k) ==
  /\ saved = IF InTx THEN [tables |-> 1..k, recorded |-> 1..k] ELSE None
  /\ tables = IF phase \in {"record", "commit"} THEN 1..(k + 1) ELSE 1..k
  /\ recorded = IF phase = "commit" THEN 1..(k + 1) ELSE 1..k
  /\ phase = "apply" \/ InTx => pending = (k + 1)..MaxVersion
  /\ InTx => k < MaxVersion
  /\ phase \in {"count", "insert", "sweep", "serve", "drain"} => k = MaxVersion

SchemaInv == \E k \in 0..MaxVersion : AtVersion(k)

UserInv ==
  /\ users = {} \/ \E n \in Names : users = {n}
  /\ phase = "insert" => users = {}
  /\ phase \in {"sweep", "serve", "drain"} => users # {}

BootInv == BootTypeOK /\ SchemaInv /\ UserInv

AuthSteps == {"auth.session", "auth.expire", "auth.user", "handler", "logout.answer"}

\* What the locals of a request hold at each of its steps.
LocalsInv ==
  \A r \in Reqs :
    /\ pc[r] \notin AuthSteps => ~loc[r].dead
    /\ pc[r] \in {"login.fetch", "login.answer"} => loc[r].tok \in used
    /\ pc[r] \in AuthSteps => loc[r].tok \in known \cup {None}
    /\ loc[r].dead => loc[r].tok \in expired \cup over
    /\ pc[r] \in {"auth.user", "handler", "logout.answer"} => loc[r].tok \in known

\* With a database that does not fail, a logout that is answered is one whose
\* DELETE was done: its client was there all the time.
LogoutInv ==
  "io" \notin Faults =>
    /\ over \cap sessions = {}
    /\ \A r \in Reqs :
         /\ pc[r] = "logout.answer" => r \in gone \/ loc[r].tok \notin sessions
         /\ pc[r] \in {"auth.user", "handler"} => ~loc[r].dead

RequestInv == RequestTypeOK /\ LocalsInv /\ LogoutInv

IInv == BootInv /\ RequestInv
=============================================================================
