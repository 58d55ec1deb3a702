-------------------------- MODULE DatabaseService --------------------------
(***************************************************************************)
(* DatabaseService.transaction: requests open transactions, nested in one  *)
(* another, over the connections of one HikariPool.                        *)
(*                                                                         *)
(* A scope is one call of transaction() on the stack of a request.  A new  *)
(* scope has a connection and a TransactionContext of its own; an          *)
(* inherited scope runs in the transaction of the scope around it.  The    *)
(* transaction of a new scope is the unit of work of UnitOfWork: the       *)
(* server commits it as the block returns, or drops it.  What the caller   *)
(* hears may differ: a COMMIT that has taken effect can still be followed  *)
(* by an exception.  Statements fail by leaving their block; what becomes  *)
(* of those whose exception is swallowed is the matter of                  *)
(* TransactionContext.                                                     *)
(*                                                                         *)
(* Waiting for a connection blocks a thread of Dispatchers.IO, and BEGIN,  *)
(* statements, COMMIT and ROLLBACK need such a thread too: requests that   *)
(* wait for connections can keep those that hold them from going on, until *)
(* the pool gives the wait up.                                             *)
(***************************************************************************)
EXTENDS Naturals, FiniteSets, Sequences, SequencesExt

CONSTANTS
    Requests,           \* the coroutines that handle requests
    Connections,        \* the slots of the pool (poolMaxSize of them)
    Nobody,             \* the holder of a free connection
    Options,            \* pairs of isolation level and readOnly
    IOThreads,          \* the threads of Dispatchers.IO
    MaxScopes,          \* bound: scopes a request opens in all, ...
    Budget,             \* ... and how many of them each does
    MaxDepth,           \* bound: scopes a request has open at a time
    Cancellable         \* the requests that may be cancelled

ASSUME DatabaseAssumption ==
    /\ Nobody \notin Requests \cup Connections
    /\ IOThreads \in Nat \ {0}
    /\ MaxScopes \in Nat
    /\ Budget \in [Requests -> 0..MaxScopes]
    /\ MaxDepth \in Nat
    /\ Cancellable \subseteq Requests

VARIABLES
    stack,              \* the open scopes of each request, the innermost last
    phase,              \* what each request is doing
    granted,            \* the connection it was given and does not use yet
    opened,             \* how many scopes it has opened
    cancelled,          \* whether its Job is cancelled
    holder,             \* who has taken each connection out of the pool
    pending,            \* the rows of the open transaction of each connection
    durable,            \* the rows that are committed
    verdict,            \* what the server made of the transaction of each scope
    answer              \* what newTransaction() told its caller, for each scope

vars == <<stack, phase, granted, opened, cancelled, holder, pending,
          durable, verdict, answer>>

(* A scope is named by its place among those its request opens, and tx is   *)
(* the scope in whose transaction it runs.  It writes at most one row.      *)
ScopeIds == 1..MaxScopes

Scopes == [id : ScopeIds, tx : ScopeIds, conn : Connections, options : Options]

Rows == [request : Requests, scope : ScopeIds, tx : ScopeIds]

Replies == {"none", "ok", "error"}

Verdicts == {"none", "committed", "rolledback"}

Phases == {"running", "queued", "waiting", "granted", "committing", "thrown",
           "leaving", "done"}

TypeOK ==
    /\ stack \in [Requests -> Seq(Scopes)]
    /\ phase \in [Requests -> Phases]
    /\ granted \in [Requests -> Connections \cup {Nobody}]
    /\ opened \in [Requests -> 0..MaxScopes]
    /\ cancelled \in [Requests -> BOOLEAN]
    /\ holder \in [Connections -> Requests \cup {Nobody}]
    /\ pending \in [Connections -> SUBSET Rows]
    /\ durable \in SUBSET Rows
    /\ verdict \in [Requests -> [ScopeIds -> Verdicts]]
    /\ answer \in [Requests -> [ScopeIds -> Replies]]

Init ==
    /\ stack = [r \in Requests |-> <<>>]
    /\ phase = [r \in Requests |-> "running"]
    /\ granted = [r \in Requests |-> Nobody]
    /\ opened = [r \in Requests |-> 0]
    /\ cancelled = [r \in Requests |-> FALSE]
    /\ holder = [c \in Connections |-> Nobody]
    /\ pending = [c \in Connections |-> {}]
    /\ durable = {}
    /\ verdict = [r \in Requests |-> [n \in ScopeIds |-> "none"]]
    /\ answer = [r \in Requests |-> [n \in ScopeIds |-> "none"]]

-----------------------------------------------------------------------------
Enters(r, p) == phase' = [phase EXCEPT ![r] = p]

(* newTransaction() returns to its caller, or throws. *)
Answers(r, n, a) == answer' = [answer EXCEPT ![r][n] = a]

Throws(r, n) == Enters(r, "thrown") /\ Answers(r, n, "error")

(* The scope whose block the request is executing. *)
Current(r) == Last(stack[r])

IsNew(scope) == scope.tx = scope.id

(* coroutineContext[TransactionContext]: scopes around the current one that *)
(* are inherited share its connection.                                      *)
InTransaction(r) == stack[r] # <<>>

(* A thread of Dispatchers.IO that no request keeps waiting for the pool. *)
Blocked == {r \in Requests : phase[r] = "waiting"}

ThreadFree == Cardinality(Blocked) < IOThreads

CanOpen(r) ==
    /\ phase[r] = "running"
    /\ opened[r] < Budget[r]
    /\ Len(stack[r]) < MaxDepth

Opens(r) == opened' = [opened EXCEPT ![r] = @ + 1]

Push(r, scope) == stack' = [stack EXCEPT ![r] = Append(@, scope)]

(* Mutant: only a surrounding transaction is asked for, not its options. *)
InheritAnyTransaction(r, options) ==
    /\ CanOpen(r)
    /\ InTransaction(r)
    /\ ~cancelled[r]
    /\ Opens(r)
    /\ Push(r, [Current(r) EXCEPT !.id = opened[r] + 1, !.options = options])
    /\ UNCHANGED <<phase, granted, cancelled, holder, pending,
                   durable, verdict, answer>>

(* inheritTransaction(): the block runs in the surrounding transaction. *)
InheritTransaction(r, options) ==
    /\ CanOpen(r)
    /\ InTransaction(r)
    /\ ~cancelled[r]
    /\ options = Current(r).options
    /\ Opens(r)
    /\ Push(r, [Current(r) EXCEPT !.id = opened[r] + 1])
    /\ UNCHANGED <<phase, granted, cancelled, holder, pending,
                   durable, verdict, answer>>

(* ... and fails when isolation level or readOnly differ. *)
RefuseInheritance(r, options) ==
    /\ CanOpen(r)
    /\ InTransaction(r)
    /\ options # Current(r).options
    /\ Enters(r, "thrown")
    /\ Opens(r)
    /\ UNCHANGED <<stack, granted, cancelled, holder, pending,
                   durable, verdict, answer>>

(* newTransaction(): withConnection() first has to get a thread for the wait. *)
NewTransaction(r) ==
    /\ CanOpen(r)
    /\ Opens(r)
    /\ \/ ~cancelled[r] /\ Enters(r, "queued") /\ UNCHANGED answer
       \/ cancelled[r] /\ Throws(r, opened[r] + 1)
    /\ UNCHANGED <<stack, granted, cancelled, holder, pending, durable, verdict>>

(* withContext(Dispatchers.IO) { pool.connection } starts on a thread. *)
StartWaiting(r) ==
    /\ phase[r] = "queued"
    /\ \/ ~cancelled[r] /\ ThreadFree /\ Enters(r, "waiting") /\ UNCHANGED answer
       \/ cancelled[r] /\ Throws(r, opened[r])
    /\ UNCHANGED <<stack, granted, opened, cancelled, holder, pending,
                   durable, verdict>>

(* The pool has a connection: it is the request's from now on. *)
GetConnection(r, c) ==
    /\ phase[r] = "waiting"
    /\ holder[c] = Nobody
    /\ holder' = [holder EXCEPT ![c] = r]
    /\ granted' = [granted EXCEPT ![r] = c]
    /\ Enters(r, "granted")
    /\ UNCHANGED <<stack, opened, cancelled, pending, durable, verdict, answer>>

(* connectionTimeout: the pool throws, and the thread is free again. *)
ConnectionTimeout(r) ==
    /\ phase[r] = "waiting"
    /\ \A c \in Connections : holder[c] # Nobody
    /\ Throws(r, opened[r])
    /\ UNCHANGED <<stack, granted, opened, cancelled, holder, pending,
                   durable, verdict>>

(* Mutant: a nested new transaction is begun on the connection of the one   *)
(* around it.                                                               *)
EnterBlockShared(r, options) ==
    /\ phase[r] = "granted"
    /\ ~cancelled[r]
    /\ ThreadFree
    /\ Push(r, [id |-> opened[r], tx |-> opened[r],
                conn |-> IF InTransaction(r) THEN Current(r).conn ELSE granted[r],
                options |-> options])
    /\ Enters(r, "running")
    /\ granted' = [granted EXCEPT ![r] = Nobody]
    /\ UNCHANGED <<opened, cancelled, holder, pending, durable, verdict, answer>>

(* The connection reaches withConnection(), and a TransactionContext begins *)
(* a transaction on it.                                                     *)
EnterBlock(r, options) ==
    /\ phase[r] = "granted"
    /\ ~cancelled[r]
    /\ ThreadFree
    /\ Push(r, [id |-> opened[r], tx |-> opened[r],
                conn |-> granted[r], options |-> options])
    /\ Enters(r, "running")
    /\ granted' = [granted EXCEPT ![r] = Nobody]
    /\ UNCHANGED <<opened, cancelled, holder, pending, durable, verdict, answer>>

(* Cancelled while the connection was on its way: it reaches nobody, since  *)
(* the try whose finally evicts it is not entered yet.                      *)
LoseConnection(r) ==
    /\ phase[r] = "granted"
    /\ cancelled[r]
    /\ Throws(r, opened[r])
    /\ granted' = [granted EXCEPT ![r] = Nobody]
    /\ UNCHANGED <<stack, opened, cancelled, holder, pending, durable, verdict>>

Row(r) == [request |-> r, scope |-> Current(r).id, tx |-> Current(r).tx]

(* A statement of the current scope in the transaction of its connection. *)
Write(r) ==
    /\ phase[r] = "running"
    /\ InTransaction(r)
    /\ ~cancelled[r]
    /\ ThreadFree
    /\ Row(r) \notin pending[Current(r).conn]
    /\ pending' = [pending EXCEPT ![Current(r).conn] = @ \cup {Row(r)}]
    /\ UNCHANGED <<stack, phase, granted, opened, cancelled, holder,
                   durable, verdict, answer>>

Pop(r) == stack' = [stack EXCEPT ![r] = Front(@)]

(* The finally of withConnection(): the connection leaves its holder; what  *)
(* it had not committed is gone, and a fresh one takes its slot.            *)
Evict(c) ==
    /\ holder' = [holder EXCEPT ![c] = Nobody]
    /\ pending' = [pending EXCEPT ![c] = {}]

(* Mutant: every scope commits when its block returns. *)
InheritedCommits(r) ==
    /\ phase[r] = "running"
    /\ InTransaction(r)
    /\ ~IsNew(Current(r))
    /\ durable' = durable \cup pending[Current(r).conn]
    /\ Pop(r)
    /\ UNCHANGED <<phase, granted, opened, cancelled, holder, pending,
                   verdict, answer>>

(* Mutant: an inherited scope, too, evicts the connection when it returns. *)
InheritedEvicts(r) ==
    /\ phase[r] = "running"
    /\ InTransaction(r)
    /\ ~IsNew(Current(r))
    /\ Evict(Current(r).conn)
    /\ Pop(r)
    /\ UNCHANGED <<phase, granted, opened, cancelled, durable, verdict, answer>>

(* The block of an inherited scope returns: nothing is committed yet. *)
InheritedReturns(r) ==
    /\ phase[r] = "running"
    /\ InTransaction(r)
    /\ ~IsNew(Current(r))
    /\ Pop(r)
    /\ UNCHANGED <<phase, granted, opened, cancelled, holder, pending,
                   durable, verdict, answer>>

Decides(r, n, v) == verdict' = [verdict EXCEPT ![r][n] = v]

(* The block of a new scope returns, and COMMIT takes effect in the server. *)
ExecuteCommit(r) ==
    /\ phase[r] = "running"
    /\ InTransaction(r)
    /\ IsNew(Current(r))
    /\ ~cancelled[r]
    /\ ThreadFree
    /\ durable' = durable \cup pending[Current(r).conn]
    /\ pending' = [pending EXCEPT ![Current(r).conn] = {}]
    /\ Decides(r, Current(r).id, "committed")
    /\ Enters(r, "committing")
    /\ UNCHANGED <<stack, granted, opened, cancelled, holder, answer>>

(* COMMIT is answered and no hook throws: the connection is evicted. *)
CommitReturns(r) ==
    /\ phase[r] = "committing"
    /\ ~cancelled[r]
    /\ Enters(r, "running")
    /\ Answers(r, Current(r).id, "ok")
    /\ Evict(Current(r).conn)
    /\ Pop(r)
    /\ UNCHANGED <<granted, opened, cancelled, durable, verdict>>

(* The Job is cancelled while a thread executes COMMIT, the answer of       *)
(* COMMIT is lost, or a hook throws after it: rollback() comes too late.    *)
CommitThrows(r) ==
    /\ phase[r] = "committing"
    /\ Enters(r, "leaving")
    /\ UNCHANGED <<stack, granted, opened, cancelled, holder, pending,
                   durable, verdict, answer>>

(* The block throws, lets an exception through, or returns when the Job is  *)
(* cancelled, a hook throws or COMMIT fails: nothing is committed.          *)
BlockThrows(r) ==
    /\ phase[r] \in {"running", "thrown"}
    /\ InTransaction(r)
    /\ Enters(r, "leaving")
    /\ UNCHANGED <<stack, granted, opened, cancelled, holder, pending,
                   durable, verdict, answer>>

(* The exception leaves the innermost scope. *)
UnwindInherited(r) ==
    /\ phase[r] = "leaving"
    /\ ~IsNew(Current(r))
    /\ Enters(r, "thrown")
    /\ Pop(r)
    /\ UNCHANGED <<granted, opened, cancelled, holder, pending,
                   durable, verdict, answer>>

(* ROLLBACK, or, in a cancelled Job, the end of the connection only; it     *)
(* finds nothing to drop where COMMIT has taken effect.                     *)
RollsBack(r, n) ==
    Decides(r, n, IF verdict[r][n] = "committed" THEN "committed" ELSE "rolledback")

(* Mutant: the connection is not evicted when the block throws. *)
UnwindNewKeeps(r) ==
    /\ phase[r] = "leaving"
    /\ IsNew(Current(r))
    /\ cancelled[r] \/ ThreadFree
    /\ Throws(r, Current(r).id)
    /\ RollsBack(r, Current(r).id)
    /\ pending' = [pending EXCEPT ![Current(r).conn] = {}]
    /\ Pop(r)
    /\ UNCHANGED <<granted, opened, cancelled, holder, durable>>

(* Mutant: what was written before the exception is committed. *)
UnwindNewCommits(r) ==
    /\ phase[r] = "leaving"
    /\ IsNew(Current(r))
    /\ cancelled[r] \/ ThreadFree
    /\ Throws(r, Current(r).id)
    /\ RollsBack(r, Current(r).id)
    /\ durable' = durable \cup pending[Current(r).conn]
    /\ Evict(Current(r).conn)
    /\ Pop(r)
    /\ UNCHANGED <<granted, opened, cancelled>>

(* The exception leaves a new scope: rollback(), and the connection is      *)
(* evicted.                                                                 *)
UnwindNew(r) ==
    /\ phase[r] = "leaving"
    /\ IsNew(Current(r))
    /\ cancelled[r] \/ ThreadFree
    /\ Throws(r, Current(r).id)
    /\ RollsBack(r, Current(r).id)
    /\ Evict(Current(r).conn)
    /\ Pop(r)
    /\ UNCHANGED <<granted, opened, cancelled, durable>>

(* A block around the failed scope catches the exception and goes on. *)
CatchInBlock(r) ==
    /\ phase[r] = "thrown"
    /\ InTransaction(r)
    /\ ~cancelled[r]
    /\ Enters(r, "running")
    /\ UNCHANGED <<stack, granted, opened, cancelled, holder, pending,
                   durable, verdict, answer>>

(* The request ends: answered, or by the exception that left every scope. *)
Finish(r) ==
    /\ phase[r] \in {"running", "thrown"}
    /\ ~InTransaction(r)
    /\ Enters(r, "done")
    /\ UNCHANGED <<stack, granted, opened, cancelled, holder, pending,
                   durable, verdict, answer>>

Cancel(r) ==
    /\ r \in Cancellable
    /\ phase[r] # "done"
    /\ ~cancelled[r]
    /\ cancelled' = [cancelled EXCEPT ![r] = TRUE]
    /\ UNCHANGED <<stack, phase, granted, opened, holder, pending,
                   durable, verdict, answer>>

Terminated ==
    /\ \A r \in Requests : phase[r] = "done"
    /\ UNCHANGED vars

-----------------------------------------------------------------------------
(* transaction(options, inherit) { ... } *)
CallTransaction(r) ==
    \/ NewTransaction(r)
    \/ \E options \in Options :
        InheritTransaction(r, options) \/ RefuseInheritance(r, options)

(* What the request, its threads and the pool are bound to go on with. *)
Proceed(r) ==
    \/ StartWaiting(r) \/ LoseConnection(r)
    \/ \E options \in Options : EnterBlock(r, options)
    \/ \E c \in Connections : GetConnection(r, c)
    \/ InheritedReturns(r) \/ BlockThrows(r)
    \/ ExecuteCommit(r) \/ CommitReturns(r) \/ CommitThrows(r)
    \/ UnwindInherited(r) \/ UnwindNew(r) \/ Finish(r)

Next ==
    \/ \E r \in Requests :
        \/ CallTransaction(r) \/ Proceed(r) \/ Write(r) \/ CatchInBlock(r)
        \/ ConnectionTimeout(r) \/ Cancel(r)
    \/ Terminated

(* Threads and coroutines that can go on do; a wait that is never served    *)
(* times out.                                                               *)
Fairness ==
    \A r \in Requests : WF_vars(Proceed(r)) /\ WF_vars(ConnectionTimeout(r))

Spec == Init /\ [][Next]_vars

FairSpec == Spec /\ Fairness

-----------------------------------------------------------------------------
(* Properties *)

(* How often r has c in use: as the connection of a new scope, or as the    *)
(* one that it was granted for the next.                                    *)
Uses(r, c) ==
    Cardinality({i \in DOMAIN stack[r] : IsNew(stack[r][i]) /\ stack[r][i].conn = c})
        + (IF granted[r] = c THEN 1 ELSE 0)

(* Every connection out of the pool is in the hands of one request, which   *)
(* has it in one new scope or is about to: none is shared by two            *)
(* transactions, not even by nested ones of one request.  None is leaked,   *)
(* except that a request that is cancelled can take the one with it that    *)
(* was on its way (DatabaseService.withConnection).                         *)
ConnectionsAccountedFor ==
    \A r \in Requests :
        /\ \A c \in Connections : Uses(r, c) <= (IF holder[c] = r THEN 1 ELSE 0)
        /\ Cardinality({c \in Connections : holder[c] = r /\ Uses(r, c) = 0})
               <= (IF cancelled[r] THEN 1 ELSE 0)

(* However deep it is nested, a scope runs in a transaction with the        *)
(* isolation level and the readOnly flag it has asked for.                  *)
OptionsAreHonoured ==
    \A r \in Requests : \A i \in DOMAIN stack[r] :
        \E j \in 1..i :
            /\ IsNew(stack[r][j])
            /\ stack[r][j].id = stack[r][i].tx
            /\ stack[r][j].conn = stack[r][i].conn
            /\ stack[r][j].options = stack[r][i].options

(* The block of the new scope n is over, and its COMMIT was executed. *)
Settling(r, n) ==
    /\ phase[r] \in {"committing", "leaving"}
    /\ InTransaction(r)
    /\ IsNew(Current(r))
    /\ n = Current(r).id

(* DatabaseService.kt:38, "When the transaction is inherited from the       *)
(* surrounding scope, it will not be committed when this function returns": *)
(* when a row is durable, every block in its transaction has ended, and of  *)
(* its scopes at most the one that opened the transaction is still open.    *)
CommittedByTheOutermostScope ==
    \A row \in durable : \A i \in DOMAIN stack[row.request] :
        stack[row.request][i].tx = row.tx =>
            i = Len(stack[row.request]) /\ Settling(row.request, row.tx)

(* The rows that the transaction of scope n has written, in whatever scope, *)
(* and those of them that are durable.                                      *)
OfUnit(row, r, n) == row.tx = n /\ row.request = r

Store(r, n) == {row \in durable : OfUnit(row, r, n)}

Work(r, n) ==
    {row \in durable \cup UNION {pending[c] : c \in Connections} : OfUnit(row, r, n)}

Unit(r, n) == INSTANCE UnitOfWork WITH
    Writes <- Rows, verdict <- verdict[r][n], work <- Work(r, n),
    store <- Store(r, n), reply <- answer[r][n]

(* Every transaction is a unit of work to the caller of newTransaction(),   *)
(* whatever scopes inherit it, whatever transactions are nested in it and   *)
(* in whatever order their requests go on: what all its scopes wrote is     *)
(* durable at once, it is durable when newTransaction() returns, and if it  *)
(* throws, what the server has decided by then stays.                       *)
TransactionsAreUnits ==
    /\ \A r \in Requests, n \in ScopeIds : Unit(r, n)!UnitInit
    /\ [][<<pending, durable, verdict, answer>>' # <<pending, durable, verdict, answer>> =>
             \A r \in Requests, n \in ScopeIds :
                 [Unit(r, n)!UnitNext]_(Unit(r, n)!unitVars)]_vars

(* DatabaseService.kt:20, "The connection will be evicted once [block]      *)
(* returns or throws an error": a request that has ended holds none.        *)
EndedRequestsHoldNothing ==
    \A r \in Requests : phase[r] = "done" => \A c \in Connections : holder[c] # r

(* Requests that wait for each other's connections, or for the threads that *)
(* other waiting requests block, all end, and the pool is whole again.      *)
PoolRecovers ==
    /\ <>[](\A r \in Requests : phase[r] = "done")
    /\ <>[](\A c \in Connections : holder[c] = Nobody)

-----------------------------------------------------------------------------
(* The inductive invariant                                                 *)

(* The request opens a scope that it has not entered yet. *)
Entering(r) == phase[r] \in {"queued", "waiting", "granted"}

(* r has entered its scope n, or failed to, for good. *)
Passed(r, n) == n <= opened[r] /\ (Entering(r) => n # opened[r])

NewScopes(r) == {i \in DOMAIN stack[r] : IsNew(stack[r][i])}

Conn(r, i) == stack[r][i].conn

(* Scopes are numbered as they are opened. *)
StackInv ==
    \A r \in Requests : \A i \in DOMAIN stack[r] :
        /\ Passed(r, stack[r][i].id)
        /\ \A j \in 1 .. (i - 1) : stack[r][j].id < stack[r][i].id

(* What the place of a request says of its scopes. *)
PhaseInv ==
    \A r \in Requests :
        /\ phase[r] = "done" => ~InTransaction(r)
        /\ phase[r] = "leaving" => InTransaction(r)
        /\ Entering(r) => opened[r] # 0

(* What a request uses is its own, and in use once. *)
ConnectionInv ==
    \A r \in Requests :
        /\ granted[r] # Nobody <=> phase[r] = "granted"
        /\ granted[r] # Nobody => holder[granted[r]] = r
        /\ \A i \in NewScopes(r) : holder[Conn(r, i)] = r /\ Conn(r, i) # granted[r]
        /\ \A i, j \in NewScopes(r) : Conn(r, i) = Conn(r, j) => i = j

Lost(r) ==
    {c \in Connections : /\ holder[c] = r
                         /\ granted[r] # c
                         /\ \A i \in NewScopes(r) : Conn(r, i) # c}

(* A request that has lost a connection will not be granted another. *)
LossInv ==
    \A r \in Requests :
        /\ Lost(r) # {} => cancelled[r] /\ ~Entering(r)
        /\ \A c, d \in Lost(r) : c = d

(* r has left its scope n, or failed to enter it. *)
Gone(r, n) == Passed(r, n) /\ \A i \in DOMAIN stack[r] : stack[r][i].id # n

(* Uncommitted rows belong to an open new scope, durable ones to a          *)
(* transaction that was committed.  What has been answered is over.         *)
RowsInv ==
    /\ \A c \in Connections : \A row \in pending[c] :
           \E i \in NewScopes(row.request) :
               Conn(row.request, i) = c /\ stack[row.request][i].id = row.tx
    /\ \A row \in durable : verdict[row.request][row.tx] = "committed"
    /\ \A r \in Requests, n \in ScopeIds : answer[r][n] # "none" => Gone(r, n)

(* A transaction is decided once its block is over, with nothing pending;   *)
(* who is told "ok" is told so of a committed one.                          *)
SettledInv ==
    /\ \A r \in Requests, n \in ScopeIds :
           /\ verdict[r][n] # "none" =>
                  Gone(r, n) \/ (Settling(r, n) /\ verdict[r][n] = "committed")
           /\ answer[r][n] = "ok" => verdict[r][n] = "committed"
    /\ \A c \in Connections : \A row \in pending[c] :
           verdict[row.request][row.tx] = "none"
    /\ \A r \in Requests : phase[r] = "committing" =>
           /\ Settling(r, Current(r).id)
           /\ verdict[r][Current(r).id] = "committed"

DatabaseInv ==
    /\ TypeOK
    /\ StackInv
    /\ PhaseInv
    /\ ConnectionInv
    /\ LossInv
    /\ RowsInv
    /\ SettledInv
    /\ OptionsAreHonoured
=============================================================================
