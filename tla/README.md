# kmore: a TLA+ development

This directory specifies the core of kmore, a Ktor server application over
PostgreSQL (Kotlin, `src/src/main/kotlin/my/company/app`, paths below are
relative to it), checks the specifications with TLC and proves what matters
most with TLAPS. Each module is translated from the source; `PROJECT.json`
names, for every definition, the lines it stands for.

## 1. Inventory

| Component | State | Operations | Interacts with |
|---|---|---|---|
| `lib/TransactionContext.kt` | status (PENDING, IN_TRANSACTION, COMMITTED, ROLLED_BACK), four lists of hooks, one JDBC connection and its monitor | `transaction`, `beginTransaction`, `commit`, `rollback`, `execute`, registration of hooks | PostgreSQL session, Dispatchers.IO, every repository through the coroutine context |
| `lib/DatabaseService.kt`, `business_logic/BusinessLogicAction.kt` | the Hikari pool; the TransactionContext in the coroutine context | `withConnection`, `transaction` (new or inherited), `execute` of an action | pool, Dispatchers.IO, TransactionContext |
| Actions: `business_logic/user`, `business_logic/session`, `AuthorizationService`, `PasswordHelper` | none; the tables `user` and `session` | CreateUser, Login, GetUsers | repositories, principal in the coroutine context |
| Repositories: `lib/repository`, `db/repo`, `db/query` | values and change flags of records; the cached jOOQ query of a custom query | query, find, insert, update, delete | TransactionContext, rows and row locks of PostgreSQL |
| Web pipeline: `web`, `lib/validation`, `lib/koin` | the Koin scope of a call (a ThreadLocal that follows its coroutine), attributes and principal of a call | CORS, authentication, validation, routing, conversion, the mapping of exceptions to statuses | threads, actions, DatabaseService |
| Start and stop: `KtorMain.kt`, `lib/ktor`, `lib/koin` | Koin application (a ThreadLocal), pool, installed features | install, warm up, serve, stop | everything |
| Fixtures: `dev/fixtures` | schema and tables | drop, migrate, insert, exit | pool, Flyway, repositories |
| Configuration: `conf` | cache of profiles | `loadProfile`, includes, log levels | files |
| Query parameters: `lib/ktor/ParameterParser.kt` | none | `parse`, `toQuery` | error handler |
| API documentation: `lib/swagger`, `web/SwaggerExtensions.kt`, `SwaggerController` | registered operations and models; the document, rendered once; cache of resources | register, render, serve | routing |
| Swagger UI: `src/src/main/resources/swagger/*.js` | vendored, minified | served as resources | SwaggerController |

How they work together: a request passes the auth interceptor, which looks
its token up in a read-only transaction of its own and leaves a principal; the
handler converts and validates the body and executes one action; the action
opens a transaction (`DatabaseService.transaction`), which takes a connection
out of the pool and runs the block in a `TransactionContext`; repositories find
that context in the coroutine context and send statements through its
`execute`; when the block ends the transaction is committed or rolled back and
the connection is evicted; what was thrown becomes a status.

What is hard here:

* **Threads and coroutines.** Commands are sent under the monitor of the
  connection on IO threads, while the status is assigned outside of it by the
  coroutine that owns the transaction. Blocks may launch coroutines that share
  the connection. Waiting for the pool blocks threads others need.
* **Failure.** Statements fail, connections break before or after COMMIT is
  executed, hooks throw, and PostgreSQL answers COMMIT of an aborted transaction
  without an error.
* **Cancellation.** A Job that is cancelled can send nothing more, not even
  ROLLBACK, and results on their way to it are dropped.
* **Concurrency of requests.** Actions look up and then write, in separate
  statements, under READ COMMITTED and without unique indexes; updates meet the
  row locks of others, and wait in circles.
* **Objects that outlive what they stand for.** A record keeps its values and
  flags when its transaction is rolled back, and a thread keeps the Koin of
  whoever used it last.
* **Retries.** Answers are lost and clients send their requests again.

What makes each part correct is stated as the properties of section 3; where a
hazard has no property yet, `hazards` in `PROJECT.json` says why.

## 2. Modules and plan

| Order | Module | Models | State |
|---|---|---|---|
| 1 | `UnitOfWork` | abstract: what `transaction` promises its caller | done |
| 1 | `UnitOfWorkProofs` | what a caller may conclude from that promise alone: two theorems | done |
| 1 | `TransactionContext` | one call of `transaction` with siblings, hooks, faults; implements `UnitOfWork` | done |
| 1 | `TransactionContextProofs` | its inductive invariant, seven further theorems that follow from it, and four that say when the promises of its documentation hold, among them the refinement of `UnitOfWork` by sequential blocks | done |
| 2 | `DatabaseService` | nested scopes of several requests over a pool; every transaction implements `UnitOfWork` | done |
| 2 | `DatabaseServiceProofs` | its inductive invariant and eight further theorems, among them the refinement of `UnitOfWork` by every transaction | done |
| 3 | `AccountDirectory` | abstract: what the clients of `/web` may rely on, each answer one operation | done |
| 3 | `UserAccounts` | the three actions behind the web interface, over shared tables; implements `AccountDirectory` | done |
| 3 | `UserAccountsProofs` | its inductive invariant and seven further theorems, among them the refinement | done |
| 4 | `AppLifecycle` | processes over one database: features in their order, warm up, fixtures, logins, shutdown, kill, outages | done |
| 4 | `AppLifecycleProofs` | its inductive invariant and five further theorems | done |
| 5 | `Records` | records with change flags over rows with locks: insert, find, update, delete of concurrent transactions | done |
| 5 | `RecordsProofs` | its inductive invariant and three further theorems | done |
| 5 | `RecordsUpdatesProofs` | a second invariant, and why concurrent updates survive | done |
| 6 | `WebPipeline` | calls of several applications over shared threads: Koin scopes, interceptors, handlers, the error handler, the documentation | done |
| 6 | `WebPipelineProofs` | its inductive invariant and four further theorems | done |

The two `MC*` modules add only a symmetry set; the other modules are
configured directly. A `.cfg` gives the constants their values. Operators that
are commented *Mutant* are not part of a specification: each one is a plausible
mistake in the definition that follows it, and replaces that definition to show
that a property would notice.

### TransactionContext

One coroutine, `Owner`, calls `transaction()`; its block may launch `Children`,
which use the same connection. `pc` says where each coroutine is in the code.
One call of `execute()` is several steps, because other coroutines run in
between:

| Step | Code |
|---|---|
| `Call`, `EnterMonitor`, `AbandonWait`: `withContext(IO)`, `synchronized(connection)`; a cancelled Job does not start | private `execute` 131-143 |
| `RefuseInMonitor`, `BeforeOp`: the status is checked, once, with the monitor held | `execute` 115-129, called at 139 |
| `Answer*`: the server executes the command | external: PostgreSQL and its driver |
| `LeaveMonitor`: the result or the exception travels back, or is dropped when the Job is cancelled | 134-147 |
| `SetCommitted`, `SetRolledBack`: the status is assigned, without the monitor | 86, 98 |

That the last two rows are separate steps is what the module is about. Kotlin's
overload resolution makes `commit()` and `rollback()` call the public
`execute`, so both are refused once the transaction has ended: an `afterCommit`
hook that throws leads to `rollback()`, which is refused, and the caller sees
that refusal. Hooks are lists that run completely or up to the first that
throws; the model keeps how often each list was started and lets any list in
`FailingHooks` throw. `caught` is a history variable: whether a coroutine has
swallowed an exception, which is what a normal return cannot be trusted after.
`Terminated` lets a finished call stutter, so deadlock
stays checked.

### DatabaseService

`stack[r]` holds the scopes a request has open. A scope knows the transaction
it runs in (`tx`), its connection and its options. A new scope waits for a
connection in three steps (queued, waiting on a thread, granted); `Evict`
empties the slot and drops what was not committed. A request nests scopes in
any order within the bounds, catches exceptions or lets them through, and may
be cancelled at any point. The body of `TransactionContext` is abstracted to
what `UnitOfWork` says of it. When the block of a new scope has returned, COMMIT
takes effect in the server (`ExecuteCommit`), and what the caller hears of it is
a step of its own: `CommitReturns`, or `CommitThrows` when the Job is cancelled
meanwhile, the answer is lost, or a hook throws after COMMIT. The exception then
leaves the scope like any other (`UnwindNew`), but ROLLBACK finds nothing left
to drop (`RollsBack`): an exception says nothing about the outcome. A block that
throws, a hook that throws before COMMIT, and a COMMIT that fails are
`BlockThrows`. That a sequential block which swallows nothing keeps the promise
of `UnitOfWork` is proved (`SequentialBlocksAreUnits`); what siblings and
swallowed failures of statements do to it is the subject of `TransactionContext`.

The pool, the nesting and the other requests must not spoil that promise, and
`TransactionsAreUnits` says that they do not: `Unit(r, n)` is one instance of
`UnitOfWork` per request and number of a scope. Its work is what has been
written in the transaction of that scope, by whatever inherited scope; its store
the part of it that is durable; its verdict `verdict[r][n]`, what the server
made of the transaction; its reply `answer[r][n]`, a history variable: what
`newTransaction()` has told its caller, `ok` or `error`. A scope that never gets
a connection is a unit that answers `error` and has no work.

### UserAccounts

Requests are sent in any order and handled concurrently, one statement at a
time. `Authenticate` is the interceptor; `FindNoUser`, `RefuseDuplicate`,
`FindUser`, `RefuseLogin`, `FindTooManyUsers`, `Forbid` and `List` are the first
statement of the action with what the code concludes from its result; `Insert`
is the second; `Commit` makes the row visible and answers. `Fail` stands for
any failure of the database, or of rendering a refusal; `CommitAnswerLost` for
one after COMMIT was executed: of the connection, of the Job, or of rendering
the answer (`Breaks`). `Answers` is the error handler or the success status, as
far as the client accepts JSON: every answer is an object that is converted
after the transaction has ended, and a request in `Picky` gets 406 instead,
whatever it did. `RefuseInvalid` answers 400 to what `handleError` knows, the
exceptions of Jackson and of the validators; `RefuseUnreadable` answers 500 to
the rest, an unsupported content type, a null body or a parameter that cannot be
parsed (`GlobalWebErrorHandler.kt` 86).

An email is an address and a spelling. Queries compare addresses: the look-up
trims what it looks for and ignores case. Creation stores the email as it was
sent, and validates it. A spelling in `Padded` has blanks that the validator
refuses; one in `Hidden` has blanks that it accepts, as it does U+00A0 in the
part before the @. A user who is stored with a hidden spelling is never found
again (`Selected`). Login does not validate emails. Passwords are compared by
equality, which is what BCrypt decides. `earlier` is a history variable.

`AccountDirectory` is the same interface without interceptors, statements and
transactions: one step per answer. `Directory` maps the tables to it: an open
session is a row of `sessions` with the user it stands for (`Opened`), and what
a client was shown is what a request has read and answered with 200 (`Shown`).

| Step of the directory | Steps of `UserAccounts` that show it |
|---|---|
| `Ask` | `Send` |
| `Reject`, `RefuseAddress`, `RefuseCredentials`, `Forbid` | `RefuseInvalid`, `RefuseDuplicate`, `RefuseLogin`, `Forbid` |
| `Register`, `LogIn` | `Commit`, and `CommitAnswerLost`, which hides it behind a 500 |
| `ShowUsers` | `Commit` of a list |
| `GiveUp` | `Fail`, `FindTooManyUsers`, `RefuseUnreadable`; of a list, `CommitAnswerLost` and a `Commit` that the client does not accept |

The directory gives way to the code at two points. An operation may look users
up in a table that is older than its answer, though not older than its request
(`Tables`): that is READ COMMITTED without a unique index. And a user with a
hidden spelling is listed but not found (`Named`). These are the two ways in
which two users with one address come about.

### AppLifecycle

Processes run one after the other over one database. `process` says where one is
between its start and its end; while it installs features, `installed` counts
those that are done and `at` is the place inside the `install()` of the next.

| Steps | Code |
|---|---|
| `Start`, `Features` | `KtorMain.main`, `mainModule`: the environment decides which features there are, in which order |
| `InstallKoin`, `InstallHikariCP`, `InstallWebRouting`, `CreatePool` | the features every process installs; the pool is declared by one and created by the first `eager<HikariPool>()` of another, so a request can be the first to connect |
| `TakeDropConnection`, `PrepareDrop`, `Migrate`, `BeginLoad`, `InsertUser`, `CommitLoad`, `Exit` | `LoadFixturesFeature`: connection, statement that is prepared only, Flyway, one transaction, `System.exit(0)` |
| `TakeWarmUpConnection`, `EvictWarmUpConnection` | `ApplicationWarmup`: all connections are taken before one is given back |
| `FailStart` | an `install()` that throws: something missing in Koin, no database, no free connection |
| `Serve`, `AddShutdownHook` | `start(wait = false)`, then the hook: a signal in between ends the process as a kill does |
| `Accept`, `Connect`, `LogIn`, `FailLogIn` | a login of the fixtures' user |
| `Signal`, `StopEngine`, `CloseKoin` | the hook: engine with its grace period, then `ApplicationStopped` and `koin.close()` |
| `Kill`, `GoDown`, `GoDownAfterCommit`, `ComeUp` | the surroundings |

`outage` is a history variable: whether the database was away while the current
process lived. A fixture run that is killed or loses its connection leaves its
transaction to PostgreSQL, which rolls it back unless COMMIT was executed.

### Records

A record is the object a request holds: its values, and the flags of the fields
that were set since it was last written. `CallInsert`, `CallUpdate` and
`CallDelete` are what `AbstractRepository` does before its statement, the stamps
of `beforeInsert()` and `beforeUpdate()` included; `Insert`, `Update`, `Delete`
and `NoRow` are the statement with what follows its answer: the flagged fields
are written and the flags cleared, or no row was there and an exception is
thrown. `Waits`, `Deadlocked` and `BreakDeadlock` are PostgreSQL's row locks. A
transaction begins, commits and rolls back in one step each. Requests keep their
record when a transaction ends, and may use it again in the next one. A value is
who set it in which transaction, which is enough to tell whose updates survive.
A foreign key that is violated is one reason for `StatementFails`. `stored` and
`excused` are history variables.

### WebPipeline

A call runs on a thread, or on none while it is suspended. `EntersScope`,
`LeavesScope`, `Suspends` and `Resume` are what `withContext` and the
`ThreadContextElement` of `KoinContext` do to the thread; every step of a call is
one of these or stays in its scope.

| Steps | Code |
|---|---|
| `Start`, `InitControllers`, `FinishStart` | `KoinFeature.install`, `WebRoutingFeature.install`: routes and documentation |
| `EnterKoin` | the interceptor of `KoinFeature` |
| `Authenticate`, `CheckCredentials` | `AuthInterceptor` under `/web` and `/swagger` |
| `Refuse`, `Act` | `documentedPost`, `documentedGet`: receive or parse, validate, act |
| `Ping`, `ShowDocument`, `ShowResource` | the other controllers |
| `EnterHandler`, `HandleError` | `StatusPages` with its own scope, `GlobalWebErrorHandler` |
| `NoRoute`, `NotAcceptable`, `Deliver` | ktor: no route, content negotiation, the answer |

Several applications in one process are what the tests run, in parallel
(`src/src/test/resources/junit-platform.properties`): there a thread that started
one application serves calls of another. `home`, the application that a thread
has started last, is a history variable.

## 3. Runs

| Run | Question | Bounds |
|---|---|---|
| `tx_siblings` | What may the context, its hooks and its caller conclude about the database, and does every call end and give its connection up? `IInv`, `SuccessIsDurable`, `RollbackHooksOnlyAfterRollback`, `CommitHooksOnlyAfterCommit`, `EndIsRecorded`, `EscapeOnlyInWindow`, `QuietAfterReturn`, `ConnectionIsEvicted` | 2 siblings that may swallow exceptions, 2 rows, all faults and hooks |
| `tx_sequential` | Does a sequential block implement `UnitOfWork`, safety and liveness? `ImplementsUnitOfWork` | 3 rows, all faults and hooks |
| `tx_escape` | violated: "The transaction will be rolled back if [block] throws" | 1 sibling, no fault |
| `tx_silent_rollback` | violated: "The transaction will be committed if [block] returns normally" | no sibling, a failing statement |
| `db_scopes` | Are connections neither shared nor lost, options honoured, commits those of the outermost scope, every transaction a unit of work? `DatabaseInv`, `ConnectionsAccountedFor`, `OptionsAreHonoured`, `CommittedByTheOutermostScope`, `TransactionsAreUnits` | 2 requests, 2 connections, 1 thread; 3 scopes for the one that may be cancelled, 2 for the other |
| `db_progress` | Does the pool recover from requests that wait for one another? `PoolRecovers` | 2 requests, 2 connections, 1 thread, 2 scopes each |
| `db_leak` | violated: "The connection will be evicted once [block] returns or throws an error" | 1 request |
| `records` | What do flags remember over rollbacks, what do concurrent updates leave of one another, do row locks resolve? `RecordsInv`, `NothingForgotten`, `NobodyIsStuck`, `UpdatesKeepTheRest`, `DeletedStaysDeleted`, `TransactionsEnd` | 2 requests, 2 rows, 2 columns, 2 transactions of 2 calls |
| `web_accounts` | Is what a status says true when the database fails and answers are lost? Who sees the list? Where do duplicates come from? Is each answer that of one operation on a directory? `AccountsInv`, `AnswersAreTrue`, `InternalErrorsHaveACause`, `OnlyUsersList`, `DuplicatesNeedOverlap`, `DuplicatesLockOut`, `ImplementsDirectory` | 3 requests, one of which does not accept JSON, 1 address in 4 spellings (2 plain ones, one that is refused, one that hides it), 2 passwords, 1 fault |
| `web_calls` | Does every call find its own Koin, are threads restored, do statuses and documentation tell the truth, is every call answered? `PipelineInv`, `ResolvesOwnKoin`, `ThreadsAreRestored`, `StatusTellsTheEffect`, `DocumentationIsTrue`, `CallsEnd` | 2 applications, 2 threads, 2 calls |
| `app_lifecycle` | Does every start end, and for a reason? Are fixtures loaded completely and connections given back? When does a login fail? `LifecycleInv`, `FixturesAreAtomic`, `StartFailsForAReason`, `ConnectionsAreGivenBack`, `AnswersHaveACause`, `EveryRunSettles` | 3 processes, pools of 1 and 3, warm up of 2, 3 fixture users, 2 logins per process, 1 outage |
| `app_fixtures` | violated: the fixture loader "drops the schema before inserting it's data" | 2 processes |

Why the bounds are enough. Two siblings and the owner are all pairs of
coroutines around the monitor plus a bystander; with two rows two of them write,
and the sequential block has three. Three scopes are the smallest nesting in
which an inherited scope has both an outer and a nested new transaction, and two
requests over two connections the smallest in which each holds what the other
waits for; one thread is the tightest case of starvation; one of the requests
may be cancelled while the other contends with it, and it is the one that opens
three scopes. Three requests are a create, a login and a list, the longest chain
of requests that depend on one another, or two creates of one address and a
login that suffers from them; any of these may be the one that is answered 406.
Addresses do not interact: a statement reads the rows of one, save that of the
list, whose filter lets an address through or not. So one is enough, in
spellings of every kind: two that differ in case, and both kinds of blanks. Three processes
are two fixture runs and a server, which is what it takes for a second set of
fixtures to reach a login; a pool of 1 is smaller than the warm up and than the
load, a pool of 3 is neither; the warm up of 10 connections and the 10 random
users are scaled to 2, which keeps a state before, between and after. Two
transactions with two calls each over two rows are what it takes for a circle of
waiting updates, for an update of a row that the other one has deleted, and for
a record that is written again after a rollback; of two columns one can be set
while the other is to survive. Two calls on two threads let a call suspend on
one and resume on the other while the second call, of another application, takes
its place. The proofs of section 5 remove the bounds for everything the
invariants of these runs say.

Fairness. `TransactionContext`: weak fairness of each coroutine and of the
server's answer; a monitor that is released infinitely often is entered in the
end because a block makes a bounded number of calls. It is what the dispatcher,
the driver and `synchronized` give threads that are ready. `DatabaseService`:
weak fairness of each request's own steps and of the pool's `connectionTimeout`,
on which the resolution of mutual waiting depends: the pool throws after its 30
seconds. Nothing is assumed about a block calling further functions, about
catching, cancelling or failing. `AppLifecycle`: weak fairness of `Install` and
`Stop`: the main thread and the shutdown hook run on, and the pool's timeout or
the engine's ends what they wait for. Nothing is assumed about requests,
signals, kills, or the database coming back. `Records`: weak fairness of
`Execute`, `BreakDeadlock` and `Ends`: the server executes a statement that need
not wait and its deadlock detection runs, and a block that is not in a call
ends. Nothing is assumed about beginning a transaction or calling further
methods; of a call that fails only that it may. `WebPipeline`: weak fairness of
`StartUp`, `Handle` and the resumption of each call: dispatchers run what is
ready, and a thread that is free takes what waits for one. `UserAccounts` has no
fairness and no liveness property.

## 4. Findings

* **A statement can outlive a rollback** (`tx_escape`). `ROLLBACK` is sent under
  the monitor, `ROLLED_BACK` is assigned after it (`TransactionContext.kt`
  94-98). A sibling that gets the monitor in between passes the status check,
  and the server executes its statement in autocommit mode. The run shows that
  this is the only window (`EscapeOnlyInWindow`), and sequential blocks are not
  affected (proved: `SequentialRollback`). The same window exists around COMMIT.
* **A silent rollback counts as a commit** (`tx_silent_rollback`). A block that
  catches the exception of a statement and returns is reported as committed, and
  `afterCommit` hooks run, although PostgreSQL rolled the transaction back. It
  takes such a block, or one of its siblings: without one a normal return means
  committed (proved: `OnlyCatchingHidesRollback`).
* **A cancelled request can take a connection with it** (`db_leak`): the
  connection is taken outside of the `try` whose `finally` evicts it
  (`DatabaseService.kt` 23-28). At most one per cancelled request
  (`ConnectionsAccountedFor`), and none while nobody is cancelled (proved:
  `OnlyCancellationLeaks`).
* **Two users with one address.** Two overlapping requests pass the look-up of
  `CreateUserAction`, and nothing in the schema refuses the second row; no
  document says otherwise, so no run is expected to fail. Afterwards `fetchOne()`
  throws for every login and create with that address (`DuplicatesLockOut`,
  `InternalErrorsHaveACause`). Requests that do not overlap can do it too, but
  only when the first user's email is stored with blanks that the validator
  lets through, such as U+00A0 (`DuplicatesNeedOverlap`): `UserRepository.kt` 36
  trims what it looks for, and `CreateUserAction` stores what it was sent. Such
  a user can never log in.
* **Fixtures pile up** (`app_fixtures`): `src/README.md:19` promises "the
  fixture loader that drops the schema before inserting it's data". The
  statement that drops it is prepared and never executed
  (`dev/fixtures/LoadFixturesFeature.kt` 36), so a second run adds a second
  test@test.com, and every login of that user fails from then on
  (`AnswersHaveACause`). The first run starts fresh, whatever fails (proved:
  `FirstFixturesAreFresh`), which is why nobody notices.

Observations that contradict no document:

* `insert()` and `update()` clear the flags of a record before its transaction
  ends (`AbstractRepository.kt` 45, 56). After a rollback, the same record
  updated again writes nothing but `updated_at`, and inserted again fails for
  the columns it leaves out. `NothingForgotten` excuses exactly such records; no
  action under `src/` keeps one.
* An `update()` has no version to check: the last of two requests that set the
  same field wins. Fields it did not set survive (`UpdatesKeepTheRest`).
* Outside of `/web` an exception is logged and the call left unanswered, so the
  engine answers 404; under `/web` a 406 or a 500 may follow a change that is
  committed (`StatusTellsTheEffect`).

## 5. Proofs

`TransactionContextProofs`: `Spec => []IInv` for any set of siblings, rows,
swallowing coroutines, failing hooks and faults, from `TransactionAssumption`
(the owner is no child, `Nobody` no coroutine, a row no command). `IInv` is a
conjunction of parts, each preserved by a lemma of its own with one step per
action:

* `MonitorInv`: at most one coroutine talks to the server, and where each
  coroutine is decides what it may be executing;
* `StatusInv`: how the status follows the owner;
* `DatabaseInv`: what the rows and the verdict are at each place of the owner;
* `WindowInv`: IN_TRANSACTION without an open transaction only while COMMIT or
  ROLLBACK has been answered and the status not yet assigned;
* `SuccessInv`: why a normal return can be trusted when nobody has swallowed an
  exception: a failed statement leaves an error on its way to the owner;
* `HookInv`: what is known when COMMIT has been answered and the hooks run: the
  server committed, or a sibling's statement has failed and its exception is
  still on its way.

`SuccessIsDurable` and `EndIsRecorded` are not inductive: that a normal return
means durable rows depends on where failed siblings are, which only the whole
of `IInv` says. The theorems: `TypeCorrect`, `ReturnIsTrustworthy`,
`RollbackHooksAreTruthful`, `CommitHooksAreTruthful`, `EndIsAlwaysRecorded`,
`EscapesAreConfined` and `ReturnedMeansQuiet` (the last two are about steps:
`[][...]_vars`), and `SequentialRollback`: without siblings what was rolled back
has left nothing. That one has an invariant of its own, `SequentialInv`, since it
is false with siblings. `OnlyCatchingHidesRollback` needs none: as long as
nothing was caught, `IInv` excludes what `tx_silent_rollback` finds.

`SequentialBlocksAreUnits`: without siblings, and when nothing is swallowed,
`TransactionContext` implements `UnitOfWork`: the initial states map to initial
states, and under `IInv`, `SequentialInv` and the fact that nothing was caught
(`NothingCaught`) every step maps to one of `UnitOfWork` or to a stutter
(`UnitStep`, one case per action). What counts are the server's answers to
statements, COMMIT and ROLLBACK, and a connection that breaks or is evicted;
that the caller is told *ok* only for what the server has committed is where
`SuccessInv` is needed. `tx_sequential` checks the same refinement together with
its liveness.

`UnitOfWorkProofs`: what implements `UnitOfWork` inherits `WorkIsAtomic` (a
reader sees all of the work or none, and all after a normal return) and
`AnswersAreFinal` (once the caller has an answer, neither it nor what the server
has decided changes), for any set of writes. The invariant is `UnitInv`: the store is the work of a unit that is
committed, and empty otherwise. `SequentialBlocksAreAtomic` inherits both for
sequential blocks, by instantiating this module and citing its theorems.

`DatabaseServiceProofs`: `Spec => []DatabaseInv` for any requests, connections,
threads, options and depth, from `DatabaseAssumption`. A step of a request
leaves its scopes alone, enters one, or leaves the innermost. `StackInv` says
how scopes are numbered and which transaction each is in, `PhaseInv` where a
request is between two scopes, `ConnectionInv` and `LossInv` who holds which
connection and which one a cancelled request has lost, `RowsInv` where rows come
from, and that only scopes that are gone for good (`Gone`) have been answered.
`SettledInv` is about the time between COMMIT and its answer: who has decided
verdicts, that nothing is pending in a transaction that is decided, and that
*ok* is said only of a committed one; not the converse, which the code does not
give. The numbers of scopes only grow, so that a transaction that has ended cannot be
one that is open (`Passed`); that is what the refinement rests on. `CommittedByTheOutermostScope` excepts the
scope whose COMMIT has been executed and that has not returned yet
(`Settling`), and no other. `Invariance`, `NothingIsLost`, `OptionsHonoured` and
`OutermostCommits` follow from `DatabaseInv`, and so does
`OnlyCancellationLeaks`: what a request holds after its end it has lost, and
`LossInv` says who can have lost something.

`EveryTransactionIsAUnit`: for every request and every number of a scope, `Spec`
implements the safety of `Unit(r, n)`. A step of the unit is a `Write` in its
transaction (`Perform`), the `ExecuteCommit` of its scope (`Commit`), its
`CommitReturns` (`Reply`), its `UnwindNew` (`Discard` with the answer `error`, or
a `Reply` alone when COMMIT had taken effect), or a wait for a connection that
ends without one. Every other step is a stutter for this unit,
which is the larger part of the proof: other transactions of the same request
may be open around the unit and within it, on connections of their own, and
`ConnectionInv` is what keeps their rows apart when a connection is evicted.
`AllTransactionsAreUnits` says it of all units at once. `TransactionsAreAtomic`
and `TransactionsAreFinal` are what the theorems of `UnitOfWorkProofs` say, for
each of these units; the prover cannot cite theorems of a module that is
instantiated with parameters, so the first follows from `DatabaseInv` and the
second repeats the argument.

`UserAccountsProofs`: `Spec => []AccountsInv` for any requests, addresses,
spellings, passwords, requests that do not accept JSON and number of faults,
from `AccountsAssumption` (`Nobody` is no request, and no spelling is both
refused and hidden). Its parts: `PhaseInv` (message, status and phase agree),
`RowsInv` (rows stem from answered requests, sessions from logins that knew the
password), `ActorInv` (a list acts for the user of its token), `LookUpInv` (what
a look-up excluded among the users of before the request stays excluded; hidden
ones are none it could have found), and the two properties that are inductive with them. From it follow
`AnswersAreTruthful`, `ErrorsAreExplained`, `OnlyLoggedInUsersList`,
`ListsAreCurrent`, `DuplicatesOverlap` and `DuplicatesAreLockedOut`.

`ServerIsADirectory`: `UserAccounts` implements `AccountDirectory`, from the
same assumption. What matters is which table an operation of the directory has
seen. A refusal has seen the present one. A registration that commits looked up
`earlier[r]`: its own look-up is outdated by then, but `LookUpInv` has kept what
it excluded for the users of before the request. A login saw these and the user
it found; `LookUpInv` says that no other of them has the address. A list saw
these and what it read. That an action that is refused for want of a token has
presented none is the third conjunct of `ActorInv`: a token is a committed
session, and sessions are not deleted. A list that is read and then answered 406
has shown nothing (`PickyLists`): to the directory it is given up.

`AppLifecycleProofs`: `Spec => []LifecycleInv` for any requests, sizes of pools,
warm up and fixtures, number of processes and outages, from
`LifecycleAssumption` (finitely many requests, pools and warm up not empty).
`FixturesAreAtomic` and `ConnectionsAreGivenBack` are not inductive: the first
needs to know that the open transaction holds rows only between its first insert
and its end, and all of them at COMMIT (`LoadInv`); the second what `install()`
holds at each of its places, and that requests hold connections only in a process
that serves (`PoolInv`). A lemma shows that a set of busy requests grows by at
most one with a step of one request. `StartInv` follows the features through
their order: what is installed has left in Koin what the next feature takes out
of it, so that only the database and the pool remain to fail for
(`StartFailsForAReason`). `AnswerInv` adds that nobody is answered while fixtures
are loaded; that a login finds no free connection means that a proper subset of
the requests fills the pool (`AnswersHaveACause`). The theorems: `Invariance`,
`FixturesAtomic`, `ConnectionsReturn`, `StartsAreExplained`,
`AnswersAreExplained`, and `FirstFixturesAreFresh`: as long as there was only one
process, the fixtures it loads are the only ones (`FirstRunInv`: nothing is
stored before its COMMIT, and it does not load twice).

`RecordsProofs`: `Spec => []RecordsInv` for any requests, rows, columns,
transactions and calls, from `RecordsAssumption`. Its parts: `LockInv` (whose a
lock is, and what is pending without one), `CallInv` (what a request that waits
has), `StoredInv` (what a table shows was committed), `FreshInv` (a record that
was never inserted is the only one of its id, and a row comes only where there
never was one), and `NothingForgotten`, which is inductive with them. The
theorems: `Invariance`, `FlagsAreKept`, `DeletedRowsStayDeleted`, and, for finitely
many requests, `DeadlockDetectionSuffices`: whoever waits for a row lock waits,
in the end, for a transaction that is open and need not wait, or for a circle
that is broken. By `LockInv` the holder of a lock is in a transaction; if all
requests in a set that is closed under waiting wait themselves, the smallest
such set is a circle. It is the safety half of `TransactionsEnd`.

`RecordsUpdatesProofs`: `ConcurrentUpdatesSurvive`, that is
`Spec => UpdatesKeepTheRest`, on top of `RecordsInv`. Its invariant, `UpdateInv`,
has three parts: `NumberInv` (every value stems from a transaction that has
begun, so what a request sets in its open one was never stored), `FlagInv` (a
flag stands for such a value, and nothing is flagged in a record whose row the
transaction has written), and `PendingInv` (what a transaction has written
differs from the committed row in what its request has set, and in the stamp). A
commit by another request keeps `FlagInv` and `PendingInv` because the row locks
keep the rows of two transactions apart.

`WebPipelineProofs`: `Spec => []PipelineInv` for any applications, threads and
calls, from `PipelineAssumption`. Instead of one case per action and conjunct, a
step of a call has one of five shapes: it stays in its scope, suspends, enters a
scope, leaves one, or ends. Lemmas show what each shape keeps of `ThreadInv`,
`ScopeInv` and `LocalInv`; what is left for an action is its shape and what it
tells (`EffectInv`, `RegistryInv`). The theorems: `Invariance`, `OwnKoin`,
`Restored`, `TrueStatus`, `TrueDocumentation`.

Only model-checked: liveness (`ConnectionIsEvicted`, `PoolRecovers`,
`TransactionsEnd`, `CallsEnd`, `EveryRunSettles`, the liveness of
`ImplementsUnitOfWork`), which is out of the prover's reach. Every safety
property of the passing runs is a theorem, the refinement of `UnitOfWork` by
`TransactionContext` for the blocks its run checks: without siblings and without
swallowed exceptions. The properties that a run finds violated are theorems
under the condition that separates the two: no sibling, nothing caught, nobody
cancelled, one process.

## 6. Abstractions and limits

* The PostgreSQL session, the driver, the pool and the coroutine machinery are
  modelled from how the code uses them and marked external: a statement that
  fails aborts the transaction, COMMIT of an aborted one is answered like any
  other, a statement without a transaction is autocommitted, `withContext`
  refuses to start and drops its result in a cancelled Job.
* `TransactionContext` writes each row at most once. Updates and deletes, which
  no action performs, are in `Records`.
* `DatabaseService` does not look into a transaction: siblings, hooks and failed
  statements whose exception is swallowed are the business of
  `TransactionContext`. That an inner failure which is caught leaves the writes
  of its inherited scope to be committed is how inheritance works; no property
  demands anything else.
* Eviction frees the slot of a connection at once. Its socket is closed later,
  on a thread of Hikari's.
* Hooks are registered before the block ends by the coroutine that owns it. The
  lists are not synchronised, and a context is used once.
* `UserAccounts`: a filter is the set of addresses it lets through; ids are
  fresh, and clients present only tokens they were given. Whether a request
  accepts JSON is fixed; an Accept header that ktor cannot parse counts as an
  answer that cannot be rendered. A body is read before the action begins its
  transaction, so a request that is unreadable has changed nothing.
* `AppLifecycle`: a process that is killed, or signalled before it has its
  shutdown hook, closes nothing; PostgreSQL notices, and no property demands more
  (`ConnectionsAreGivenBack` is about processes that reach the hook). It has one
  process at a time, merges the two transactions of a
  login (neither leaves anything for the other), and leaves the lengths of grace
  periods and timeouts open. `FlywayFeature` is installed by nothing; its
  `flyway()` is what the fixtures call. Features without an effect on pool,
  database or requests are left out.
* `WebPipeline`: CORS, which only sets headers, is left out, and so are
  `WebContentConverter` and its Jackson set up, which `mainModule` does not use.
  What an action does to the tables is a single *effect*.

**Not modelled**, see also the components with status `not_modelled` and `partly`
in `PROJECT.json`:

* the conversions of `ParameterParser` and the includes of `AppConfigLoader`:
  pure functions of the text of a parameter or of the files of a profile,
  without state and without a choice an interleaving could change. That a
  parameter is refused, and what becomes of the call, is in `WebPipeline`;
* the mapping of Kotlin types to models (`SwaggerHelper`) and the rendering by
  springfox, logging, field mappings, data conversion, generated code;
* the cache of resources in `SwaggerController`, a plain map that concurrent
  calls share: what the JVM makes of it is below what a model of the program can
  tell apart;
* the three JavaScript files under `src/src/main/resources/swagger`: they are
  Swagger UI, vendored and minified, which the server hands out as resources.
  The program itself is Kotlin.
