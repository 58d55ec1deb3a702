--------------------------- MODULE AppLifecycle ---------------------------
(***************************************************************************)
(* Processes of the server, one after the other, over one database: the    *)
(* features that mainModule() installs, the warm up, the fixture loader,   *)
(* logins of the user the fixtures contain, the shutdown and a kill at any *)
(* point.                                                                  *)
(*                                                                         *)
(* The two transactions of a login (authentication, action) are one here:  *)
(* neither leaves anything behind for the other.  Features without an      *)
(* effect on pool, database or requests are left out.                      *)
(***************************************************************************)
EXTENDS Naturals, Sequences, FiniteSets

CONSTANTS
    Requests,           \* the logins that one process may be sent
    PoolSizes,          \* the values database.poolMaxSize may have
    WarmUpSize,         \* the connections of the warm up (10 in the code)
    OtherUsers,         \* the random users of a fixture run (10 in the code)
    MaxRuns,            \* bound: processes
    MaxOutages          \* bound: outages of the database

ASSUME LifecycleAssumption ==
    /\ IsFiniteSet(Requests)
    /\ PoolSizes \subseteq Nat \ {0}
    /\ WarmUpSize \in Nat \ {0}
    /\ OtherUsers \in Nat
    /\ MaxRuns \in Nat
    /\ MaxOutages \in Nat

VARIABLES
    runs,               \* processes started so far
    environment,        \* ktor.environment of the current or last process
    poolMaxSize,        \* its database.poolMaxSize
    process,            \* where it is between its start and its end
    installed,          \* features installed
    at,                 \* where the install() of the next feature is
    koin,               \* the types that eager() finds
    pool,               \* the HikariPool in Koin
    held,               \* connections that install() holds
    hook,               \* the shutdown hook is registered
    request,            \* how far each login is handled, or its answer
    up,                 \* the database answers
    outages,            \* outages so far
    outage,             \* history: one touched the current process
    migrated,           \* the schema exists
    stored,             \* the committed rows that fixtures inserted
    batch               \* those of the open transaction

code     == <<environment, poolMaxSize, process, installed, at, koin>>
database == <<up, outages, outage, migrated>>
rows     == <<stored, batch>>
vars     == <<runs, code, pool, held, hook, request, database, rows>>

Environments == {"dev", "test", "load-fixtures", "prod"}
Gone         == {"none", "stopped", "exited", "killed"}
Singles      == {"AppConfig", "SwaggerConfiguration", "DatabaseService",
                 "Repositories", "SessionActions", "UserActions"}

Counts  == [test : Nat, others : Nat]
NoUsers == [test |-> 0, others |-> 0]

TypeOK ==
    /\ runs \in 0 .. MaxRuns
    /\ environment \in Environments
    /\ poolMaxSize \in PoolSizes
    /\ process \in Gone \cup {"installing", "serving", "stopping", "disconnected", "failed"}
    /\ installed \in Nat
    /\ at \in {"begin", "connect", "drop", "migrate", "transaction", "insert",
               "commit", "broken", "exit", "evict"}
    /\ koin \subseteq Singles \cup {"HikariPool"}
    /\ pool \in {"none", "open", "closed"}
    /\ held \in Nat
    /\ hook \in BOOLEAN
    /\ request \in [Requests -> {"idle", "accepted", "working", "broken",
                                 "created", "unauthorized", "error", "lost"}]
    /\ up \in BOOLEAN
    /\ outages \in 0 .. MaxOutages
    /\ outage \in BOOLEAN
    /\ migrated \in BOOLEAN
    /\ stored \in Counts
    /\ batch \in Counts

Init ==
    /\ runs = 0
    /\ environment \in Environments
    /\ poolMaxSize \in PoolSizes
    /\ process = "none"
    /\ installed = 0
    /\ at = "begin"
    /\ koin = {}
    /\ pool = "none"
    /\ held = 0
    /\ hook = FALSE
    /\ request = [r \in Requests |-> "idle"]
    /\ up = TRUE
    /\ outages = 0
    /\ outage = FALSE
    /\ migrated \in BOOLEAN
    /\ stored = NoUsers
    /\ batch = NoUsers

-----------------------------------------------------------------------------
(* mainModule()                                                            *)

IsProd == environment \notin {"dev", "test", "load-fixtures"}

LoadsFixtures == ~IsProd /\ environment = "load-fixtures"

When(condition, feature) == IF condition THEN <<feature>> ELSE <<>>

(* Mutant: the warm up comes before the pool it warms up. *)
FeaturesWarmUpFirst ==
    <<"KoinFeature">>
        \o When(IsProd, "ApplicationWarmup")
        \o <<"HikariCPFeature", "WebRoutingFeature">>
        \o When(LoadsFixtures, "LoadFixturesFeature")
        \o <<"StartupLog">>

(* The features in the order in which they are installed. *)
Features ==
    <<"KoinFeature", "HikariCPFeature", "WebRoutingFeature">>
        \o When(LoadsFixtures, "LoadFixturesFeature")
        \o When(IsProd, "ApplicationWarmup")
        \o <<"StartupLog">>

Installing(feature) == process = "installing" /\ Features[installed + 1] = feature

(* What the install() of a feature takes out of Koin. *)
Needs(feature) ==
    CASE feature = "WebRoutingFeature"   -> {"SwaggerConfiguration"}
      [] feature = "LoadFixturesFeature" -> {"DatabaseService", "AppConfig", "HikariPool", "Repositories"}
      [] feature = "ApplicationWarmup"   -> {"HikariPool", "Repositories", "UserActions"}
      [] feature = "StartupLog"          -> {"AppConfig"}
      [] OTHER                           -> {}

Busy  == {r \in Requests : request[r] \in {"working", "broken"}}
Taken == held + Cardinality(Busy)

(* The pool gives a connection out; a new one connects when it is created. *)
Connects == up /\ Taken < poolMaxSize

(* install() goes on, or throws. *)
CanGoOn ==
    /\ Needs(Features[installed + 1]) \subseteq koin
    /\ at = "begin" /\ "HikariPool" \in Needs(Features[installed + 1]) => up
    /\ at \in {"connect", "transaction"} => Connects
    /\ at \in {"migrate", "insert", "commit"} => up
    /\ at # "broken"

Steps(feature, from) ==
    /\ Installing(feature)
    /\ at = from
    /\ CanGoOn

Goes(to) ==
    /\ at' = to
    /\ UNCHANGED <<environment, poolMaxSize, process, installed, koin>>

Moves(to) ==
    /\ process' = to
    /\ UNCHANGED <<environment, poolMaxSize, installed, at, koin>>

Installed ==
    /\ installed' = installed + 1
    /\ at' = "begin"
    /\ UNCHANGED <<environment, poolMaxSize, process>>

(* PROFILE and the variables of the environment are read by every process. *)
ReadsConfiguration ==
    /\ environment' \in Environments
    /\ poolMaxSize' \in PoolSizes

Start ==
    /\ process \in Gone
    /\ runs < MaxRuns
    /\ runs' = runs + 1
    /\ ReadsConfiguration
    /\ process' = "installing"
    /\ installed' = 0
    /\ at' = "begin"
    /\ koin' = {}
    /\ pool' = "none"
    /\ held' = 0
    /\ hook' = FALSE
    /\ request' = [r \in Requests |-> "idle"]
    /\ outage' = ~up
    /\ UNCHANGED <<up, outages, migrated, rows>>

InstallKoin ==
    /\ Steps("KoinFeature", "begin")
    /\ Installed
    /\ koin' = Singles
    /\ UNCHANGED <<runs, pool, held, hook, request, database, rows>>

(* The pool is declared; the first eager<HikariPool>() creates it. *)
InstallHikariCP ==
    /\ Steps("HikariCPFeature", "begin")
    /\ Installed
    /\ koin' = koin \cup {"HikariPool"}
    /\ UNCHANGED <<runs, pool, held, hook, request, database, rows>>

InstallWebRouting ==
    /\ Steps("WebRoutingFeature", "begin")
    /\ Installed
    /\ UNCHANGED <<runs, koin, pool, held, hook, request, database, rows>>

(* eager<HikariPool>(): the constructor of the pool fails without database. *)
CreatePool ==
    /\ \/ Steps("LoadFixturesFeature", "begin")
       \/ Steps("ApplicationWarmup", "begin")
    /\ Goes("connect")
    /\ pool' = "open"
    /\ UNCHANGED <<runs, held, hook, request, database, rows>>

-----------------------------------------------------------------------------
(* LoadFixturesFeature                                                     *)

TakeDropConnection ==
    /\ Steps("LoadFixturesFeature", "connect")
    /\ Goes("drop")
    /\ held' = held + 1
    /\ UNCHANGED <<runs, pool, hook, request, database, rows>>

(* The statement that drops the schema is prepared, and never executed. *)
PrepareDrop ==
    /\ Steps("LoadFixturesFeature", "drop")
    /\ Goes("migrate")
    /\ held' = held - 1
    /\ UNCHANGED <<runs, pool, hook, request, database, rows>>

(* Over connections of its own; what is migrated already stays as it is. *)
Migrate ==
    /\ Steps("LoadFixturesFeature", "migrate")
    /\ Goes("transaction")
    /\ migrated' = TRUE
    /\ UNCHANGED <<runs, pool, held, hook, request, up, outages, outage, rows>>

BeginLoad ==
    /\ Steps("LoadFixturesFeature", "transaction")
    /\ Goes("insert")
    /\ held' = held + 1
    /\ UNCHANGED <<runs, pool, hook, request, database, rows>>

(* test@test.com first, then the random users. *)
WithNext(users) ==
    IF users.test = 0 THEN [users EXCEPT !.test = 1] ELSE [users EXCEPT !.others = @ + 1]

Plus(a, b) == [test |-> a.test + b.test, others |-> a.others + b.others]

(* Mutant: the fixtures are inserted without a transaction. *)
InsertUserAutocommit ==
    /\ Steps("LoadFixturesFeature", "insert")
    /\ Goes(IF WithNext(batch).others = OtherUsers THEN "commit" ELSE "insert")
    /\ stored' = Plus(stored, WithNext(NoUsers))
    /\ UNCHANGED <<runs, pool, held, hook, request, database, batch>>

InsertUser ==
    /\ Steps("LoadFixturesFeature", "insert")
    /\ batch' = WithNext(batch)
    /\ Goes(IF batch'.others = OtherUsers THEN "commit" ELSE "insert")
    /\ UNCHANGED <<runs, pool, held, hook, request, database, stored>>

CommitLoad ==
    /\ Steps("LoadFixturesFeature", "commit")
    /\ Goes("exit")
    /\ stored' = Plus(stored, batch)
    /\ batch' = NoUsers
    /\ held' = held - 1
    /\ UNCHANGED <<runs, pool, hook, request, database>>

(* Mutant: the fixture run does not end with System.exit(). *)
ExitForgotten ==
    /\ Steps("LoadFixturesFeature", "exit")
    /\ Installed
    /\ UNCHANGED <<runs, koin, pool, held, hook, request, database, rows>>

(* System.exit(0), before a shutdown hook is registered. *)
Exit ==
    /\ Steps("LoadFixturesFeature", "exit")
    /\ Moves("exited")
    /\ UNCHANGED <<runs, pool, held, hook, request, database, rows>>

-----------------------------------------------------------------------------
(* ApplicationWarmup                                                       *)

(* All connections are taken before the first one is given back. *)
TakeWarmUpConnection ==
    /\ Steps("ApplicationWarmup", "connect")
    /\ held' = held + 1
    /\ Goes(IF held' = WarmUpSize THEN "evict" ELSE "connect")
    /\ UNCHANGED <<runs, pool, hook, request, database, rows>>

EvictUnless(left) ==
    /\ Steps("ApplicationWarmup", "evict")
    /\ held' = held - 1
    /\ IF held' = left
       THEN Installed /\ UNCHANGED koin
       ELSE Goes("evict")
    /\ UNCHANGED <<runs, pool, hook, request, database, rows>>

(* Mutant: one connection is not given back. *)
EvictAllButOne == EvictUnless(1)

EvictWarmUpConnection == EvictUnless(0)

-----------------------------------------------------------------------------
(* install() throws, and with it the start of the server.  What it held    *)
(* stays with the process; its transaction is rolled back.                 *)
FailStart ==
    /\ process = "installing"
    /\ ~CanGoOn
    /\ Moves("failed")
    /\ batch' = NoUsers
    /\ UNCHANGED <<runs, pool, held, hook, request, database, stored>>

(* start(wait = false) returns: the port is open. *)
Serve ==
    /\ Steps("StartupLog", "begin")
    /\ Moves("serving")
    /\ UNCHANGED <<runs, pool, held, hook, request, database, rows>>

AddShutdownHook ==
    /\ process = "serving"
    /\ ~hook
    /\ hook' = TRUE
    /\ UNCHANGED <<runs, code, pool, held, request, database, rows>>

-----------------------------------------------------------------------------
(* A login of test@test.com                                                *)

Alive == process \in {"serving", "stopping", "disconnected"}

Becomes(r, state) == request' = [request EXCEPT ![r] = state]

(* Once the engine has stopped there is nobody to send an answer to. *)
Answer(r, status) == Becomes(r, IF process = "disconnected" THEN "lost" ELSE status)

Accept(r) ==
    /\ process = "serving"
    /\ request[r] = "idle"
    /\ Becomes(r, "accepted")
    /\ UNCHANGED <<runs, code, pool, held, hook, database, rows>>

(* The first request creates the pool when nothing has before. *)
Connect(r) ==
    /\ Alive
    /\ request[r] = "accepted"
    /\ Connects
    /\ pool' = "open"
    /\ Becomes(r, "working")
    /\ UNCHANGED <<runs, code, held, hook, database, rows>>

(* Mutant: the look-up takes the first of several users. *)
OutcomeOfAny ==
    IF ~migrated THEN "error"
    ELSE IF stored.test = 0 THEN "unauthorized" ELSE "created"

(* No table; no user; the user; more than one user. *)
Outcome ==
    IF ~migrated \/ stored.test > 1 THEN "error"
    ELSE IF stored.test = 0 THEN "unauthorized" ELSE "created"

LogIn(r) ==
    /\ Alive
    /\ request[r] = "working"
    /\ Answer(r, Outcome)
    /\ UNCHANGED <<runs, code, pool, held, hook, database, rows>>

(* No database, no free connection within the timeout, a broken connection. *)
FailLogIn(r) ==
    /\ Alive
    /\ request[r] = "broken" \/ (request[r] = "accepted" /\ ~Connects)
    /\ Answer(r, "error")
    /\ UNCHANGED <<runs, code, pool, held, hook, database, rows>>

-----------------------------------------------------------------------------
(* The end of a process                                                    *)

DropRequests ==
    request' = [r \in Requests |->
                   IF request[r] \in {"accepted", "working", "broken"} THEN "lost" ELSE request[r]]

(* A signal, with the shutdown hook registered. *)
Signal ==
    /\ process = "serving"
    /\ hook
    /\ Moves("stopping")
    /\ UNCHANGED <<runs, pool, held, hook, request, database, rows>>

(* After the grace period or the timeout, whatever is still handled. *)
StopEngine ==
    /\ process = "stopping"
    /\ Moves("disconnected")
    /\ UNCHANGED <<runs, pool, held, hook, request, database, rows>>

(* Mutant: the pool is declared without onClose. *)
CloseKoinOnly ==
    /\ process = "disconnected"
    /\ process' = "stopped"
    /\ koin' = {}
    /\ DropRequests
    /\ UNCHANGED <<runs, environment, poolMaxSize, installed, at, pool, held,
                   hook, database, rows>>

(* ApplicationStopped: koin.close() shuts the pool down, if there is one. *)
CloseKoin ==
    /\ process = "disconnected"
    /\ process' = "stopped"
    /\ koin' = {}
    /\ pool' = IF pool = "open" THEN "closed" ELSE pool
    /\ DropRequests
    /\ UNCHANGED <<runs, environment, poolMaxSize, installed, at, held, hook,
                   database, rows>>

(* A kill at any time, or a signal before the shutdown hook is registered. *)
Kill ==
    /\ process \notin Gone
    /\ Moves("killed")
    /\ batch' = NoUsers
    /\ DropRequests
    /\ UNCHANGED <<runs, pool, held, hook, database, stored>>

-----------------------------------------------------------------------------
(* The database                                                            *)

(* Open connections break, and their transactions are rolled back. *)
GoDown ==
    /\ up
    /\ outages < MaxOutages
    /\ up' = FALSE
    /\ outages' = outages + 1
    /\ outage' = TRUE
    /\ at' = IF at \in {"insert", "commit"} THEN "broken" ELSE at
    /\ batch' = NoUsers
    /\ request' = [r \in Requests |-> IF request[r] = "working" THEN "broken" ELSE request[r]]
    /\ UNCHANGED <<runs, environment, poolMaxSize, process, installed, koin,
                   pool, held, hook, migrated, stored>>

(* It commits the fixtures and goes down before it says so. *)
GoDownAfterCommit ==
    /\ Steps("LoadFixturesFeature", "commit")
    /\ outages < MaxOutages
    /\ up' = FALSE
    /\ outages' = outages + 1
    /\ outage' = TRUE
    /\ Goes("broken")
    /\ stored' = Plus(stored, batch)
    /\ batch' = NoUsers
    /\ UNCHANGED <<runs, pool, held, hook, request, migrated>>

ComeUp ==
    /\ ~up
    /\ up' = TRUE
    /\ UNCHANGED <<runs, code, pool, held, hook, request, outages, outage,
                   migrated, rows>>

-----------------------------------------------------------------------------
Terminated ==
    /\ process \in Gone
    /\ runs = MaxRuns
    /\ UNCHANGED vars

Install ==
    \/ InstallKoin
    \/ InstallHikariCP
    \/ InstallWebRouting
    \/ CreatePool
    \/ TakeDropConnection
    \/ PrepareDrop
    \/ Migrate
    \/ BeginLoad
    \/ InsertUser
    \/ CommitLoad
    \/ Exit
    \/ TakeWarmUpConnection
    \/ EvictWarmUpConnection
    \/ FailStart
    \/ Serve

Stop == StopEngine \/ CloseKoin

Next ==
    \/ Start
    \/ Install
    \/ AddShutdownHook
    \/ \E r \in Requests : Accept(r) \/ Connect(r) \/ LogIn(r) \/ FailLogIn(r)
    \/ Signal
    \/ Stop
    \/ Kill
    \/ GoDown
    \/ GoDownAfterCommit
    \/ ComeUp
    \/ Terminated

Spec == Init /\ [][Next]_vars

(* The main thread and the shutdown hook run on; the pool's timeout ends   *)
(* every wait for a connection.                                            *)
FairSpec == Spec /\ WF_vars(Install) /\ WF_vars(Stop)

-----------------------------------------------------------------------------
(* Properties                                                              *)

(* Kills, outages and lost answers notwithstanding, a fixture run leaves   *)
(* all its users or none (loadFixtures(), one transaction).                *)
FixturesAreAtomic == stored.others = OtherUsers * stored.test

(* The same with what makes it inductive: the open transaction holds rows  *)
(* only while they are inserted, and all of them when it is committed.     *)
LoadInv ==
    /\ FixturesAreAtomic
    /\ batch.test \in 0 .. 1
    /\ process # "installing" \/ at \notin {"insert", "commit"} => batch = NoUsers
    /\ process = "installing" /\ at = "commit" =>
           batch = [test |-> 1, others |-> OtherUsers]

(* A server starts unless the database was away or, in production, the     *)
(* pool is smaller than the warm up; with such a pool it never does: the   *)
(* features find what they need in the order of mainModule().              *)
StartFailsForAReason ==
    LET small == IsProd /\ poolMaxSize < WarmUpSize
    IN  /\ process = "failed" => outage \/ small
        /\ Alive => ~small

(* Connections are taken within the bound of the pool, none outlives the   *)
(* start, and none is left open by a shutdown (HikariCPFeature, onClose);  *)
(* what is killed, or signalled before it has the hook, closes nothing.    *)
ConnectionsAreGivenBack ==
    /\ Taken <= poolMaxSize
    /\ Alive => held = 0
    /\ pool = "none" => Taken = 0
    /\ process = "stopped" => pool # "open"

(* The same with what makes it inductive: what install() holds at each of  *)
(* its steps, and that requests hold something only while they are served. *)
PoolInv ==
    /\ ConnectionsAreGivenBack
    /\ ~Alive => Busy = {}
    /\ process = "installing" =>
           /\ at # "begin" => pool = "open"
           /\ at \in {"begin", "migrate", "transaction", "exit"} => held = 0
           /\ at \in {"drop", "insert", "commit"} => held = 1
           /\ at = "evict" => held > 0
           /\ at = "connect" /\ Installing("LoadFixturesFeature") => held = 0


(* The same with what makes it inductive: features that are installed left  *)
(* in Koin what the next ones need, a wait for the database is excused by   *)
(* an outage, and a warm up that got past its last connection had a pool    *)
(* that is large enough.                                                    *)
StartInv ==
    /\ StartFailsForAReason
    /\ ~up => outage
    /\ process = "installing" =>
           /\ installed < Len(Features)
           /\ installed > 0 => Singles \subseteq koin
           /\ installed > 1 => "HikariPool" \in koin
           /\ at = "broken" => outage
           /\ at \notin {"begin", "connect", "evict"} => Installing("LoadFixturesFeature")
           /\ at = "connect" => \/ Installing("LoadFixturesFeature")
                                \/ Installing("ApplicationWarmup") /\ held < WarmUpSize
           /\ at = "evict" => Installing("ApplicationWarmup") /\ WarmUpSize <= poolMaxSize
           /\ Installing("StartupLog") /\ IsProd => WarmUpSize <= poolMaxSize

(* A login succeeds only as the one user of its address, and fails with an *)
(* internal error only after an outage, without a schema, with fixtures    *)
(* loaded twice, or when the pool is smaller than the load.                *)
AnswersHaveACause ==
    \A r \in Requests :
        /\ request[r] = "created" => migrated /\ stored.test = 1
        /\ request[r] = "unauthorized" => stored.test = 0
        /\ request[r] = "error" =>
               \/ outage
               \/ ~migrated
               \/ stored.test > 1
               \/ poolMaxSize < Cardinality(Requests)

(* The same with what makes it inductive: nobody is answered while          *)
(* fixtures are loaded, and a connection breaks only in an outage.          *)
AnswerInv ==
    /\ AnswersHaveACause
    /\ process = "installing" => \A r \in Requests : request[r] = "idle"
    /\ \A r \in Requests : request[r] = "broken" => outage

(* In the first process nothing is stored until the fixtures are committed, *)
(* and every one of them once.                                              *)
FirstRunInv ==
    /\ runs = 0 => process = "none"
    /\ runs <= 1 =>
           /\ process = "none" \/ (process = "installing" /\ at \notin {"exit", "broken"}) =>
                  stored = NoUsers
           /\ process = "exited" \/ (process = "installing" /\ at = "exit") =>
                  stored = [test |-> 1, others |-> OtherUsers]

LifecycleInv == TypeOK /\ LoadInv /\ PoolInv /\ StartInv /\ AnswerInv /\ FirstRunInv

(* Every start ends: a server serves, a fixture run exits, or the start    *)
(* fails; and a shutdown comes to its end.                                 *)
EveryRunSettles ==
    process \in {"installing", "stopping", "disconnected"} ~>
        \/ process \in Gone \cup {"failed"}
        \/ process = "serving" /\ environment # "load-fixtures"

(* README: "the fixture loader that drops the schema before inserting".    *)
FixturesStartFresh ==
    process = "exited" => stored = [test |-> 1, others |-> OtherUsers]
=============================================================================
