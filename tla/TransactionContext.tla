------------------------- MODULE TransactionContext -------------------------
(***************************************************************************)
(* One call of TransactionContext.transaction on one JDBC connection, from *)
(* DatabaseService.newTransaction to the eviction of the connection.       *)
(*                                                                         *)
(* The coroutine that calls transaction() is Owner.  Its block runs with a *)
(* CoroutineScope as receiver, so it may launch siblings (Children) that   *)
(* send statements over the same connection through the public execute().  *)
(* Every command to the server is sent by execute() from an IO thread that *)
(* holds the monitor of the connection; the status of the context, on the  *)
(* other hand, is assigned by Owner after the monitor has been released.   *)
(*                                                                         *)
(* The PostgreSQL session is external: in autocommit until START           *)
(* TRANSACTION, aborted by the first statement that fails, and a COMMIT of *)
(* an aborted transaction is answered without an error.                    *)
(***************************************************************************)
EXTENDS Naturals, FiniteSets

CONSTANTS
    Owner,              \* the coroutine that calls transaction()
    Children,           \* the coroutines its block may launch
    Nobody,             \* the holder of a monitor that is free
    Writes,             \* the rows the block may write, each at most once
    Swallows,           \* coroutines that catch the exceptions of execute()
    FailingHooks,       \* the kinds of hooks that may throw
    Faults              \* what may go wrong outside the program

Workers   == {Owner} \cup Children
Commands  == {"START", "COMMIT", "ROLLBACK"}
HookKinds == {"beforeCommit", "afterCommit", "afterRollback", "afterCompletion"}

ASSUME TransactionAssumption ==
    /\ Owner \notin Children
    /\ Nobody \notin Workers
    /\ Writes \cap Commands = {}
    /\ Swallows \subseteq Workers
    /\ FailingHooks \subseteq HookKinds
    /\ Faults \subseteq {"sql", "link", "cancel"}

VARIABLES
    \* the TransactionContext
    status,             \* TransactionContext.status
    options,            \* isolationLevel and readOnly: "none" or "requested"
    fired,              \* how often each list of hooks has been run
    caught,             \* history: some coroutine caught what execute() threw
    \* the coroutines
    pc,                 \* where each coroutine is
    op,                 \* the command of its latest execute()
    io,                 \* how far that execute() has got, or how it ended
    lock,               \* who is in synchronized(connection)
    cancelled,          \* the Job of the scope has been cancelled
    outcome,            \* how transaction() ends for its caller
    \* the PostgreSQL session behind the connection, and its history
    dbTx,               \* the state of the session's transaction
    link,               \* whether the connection still works
    pending,            \* rows written in the open transaction
    durable,            \* rows every later transaction will see
    issued,             \* rows some coroutine has asked to write
    written,            \* rows the server has accepted
    stray,              \* rows accepted while no transaction was open
    verdict             \* what became of the transaction

contextVars == <<status, options, fired, caught>>
workerVars  == <<pc, op, io, lock, cancelled, outcome>>
dbVars      == <<dbTx, link, pending, durable, issued, written, stray, verdict>>
vars        == <<contextVars, workerVars, dbVars>>

Status   == {"PENDING", "IN_TRANSACTION", "COMMITTED", "ROLLED_BACK"}
OwnerPC  == {"called", "begin", "block", "statement", "beforeCommit", "commit",
             "afterCommit", "commitCompletion", "rollback", "afterRollback",
             "rollbackCompletion", "joining", "returned", "evicted"}
ChildPC  == {"unstarted", "running", "statement", "finished"}
IO       == {"idle", "waiting", "inside", "ok", "error", "cancelled"}
Answers  == {"ok", "error", "cancelled"}

TypeOK ==
    /\ status \in Status
    /\ options \in {"none", "requested"}
    /\ fired \in [HookKinds -> Nat]
    /\ caught \in BOOLEAN
    /\ pc \in [Workers -> OwnerPC \cup ChildPC]
    /\ pc[Owner] \in OwnerPC
    /\ \A c \in Children : pc[c] \in ChildPC
    /\ op \in [Workers -> Commands \cup Writes \cup {"none"}]
    /\ io \in [Workers -> IO]
    /\ lock \in Workers \cup {Nobody}
    /\ cancelled \in BOOLEAN
    /\ outcome \in {"none", "ok", "error"}
    /\ dbTx \in {"none", "open", "aborted"}
    /\ link \in {"up", "down"}
    /\ pending \in SUBSET Writes
    /\ durable \in SUBSET Writes
    /\ issued \in SUBSET Writes
    /\ written \in SUBSET Writes
    /\ stray \in SUBSET Writes
    /\ verdict \in {"none", "committed", "rolledback"}

Init ==
    /\ status = "PENDING"
    /\ options = "none"
    /\ fired = [h \in HookKinds |-> 0]
    /\ caught = FALSE
    /\ pc = [w \in Workers |-> IF w = Owner THEN "called" ELSE "unstarted"]
    /\ op = [w \in Workers |-> "none"]
    /\ io = [w \in Workers |-> "idle"]
    /\ lock = Nobody
    /\ cancelled = FALSE
    /\ outcome = "none"
    /\ dbTx = "none"
    /\ link = "up"
    /\ pending = {}
    /\ durable = {}
    /\ issued = {}
    /\ written = {}
    /\ stray = {}
    /\ verdict = "none"

-----------------------------------------------------------------------------
(* The private execute(): withContext(IO) { synchronized(connection) {...} } *)

Goto(w, there) == pc' = [pc EXCEPT ![w] = there]

(* A coroutine calls execute() with the command o.  withContext() refuses   *)
(* to start in a Job that is cancelled.                                     *)
Call(w, o) ==
    /\ op' = [op EXCEPT ![w] = o]
    /\ io' = [io EXCEPT ![w] = IF cancelled THEN "cancelled" ELSE "waiting"]

(* Mutant: commit() and rollback() use the overload that checks nothing. *)
BeforeOpUnchecked(o) == o = "START" => status # "IN_TRANSACTION"

(* The check execute() makes inside the monitor.  commit() and rollback()   *)
(* call the public overload, so they too are refused once the transaction   *)
(* is completed; only beginTransaction() brings a check of its own.         *)
BeforeOp(o) ==
    IF o = "START" THEN status # "IN_TRANSACTION" ELSE status = "IN_TRANSACTION"

(* Mutant: no synchronized(connection). *)
EnterMonitorTaken(w) ==
    /\ io[w] = "waiting"
    /\ ~cancelled
    /\ BeforeOp(op[w])
    /\ lock' = w
    /\ io' = [io EXCEPT ![w] = "inside"]
    /\ UNCHANGED <<contextVars, pc, op, cancelled, outcome, dbVars>>

(* The IO thread gets the monitor, the Job is active and the check passes. *)
EnterMonitor(w) ==
    /\ io[w] = "waiting"
    /\ lock = Nobody
    /\ ~cancelled
    /\ BeforeOp(op[w])
    /\ lock' = w
    /\ io' = [io EXCEPT ![w] = "inside"]
    /\ UNCHANGED <<contextVars, pc, op, cancelled, outcome, dbVars>>

(* The check fails: the exception leaves the monitor at once. *)
RefuseInMonitor(w) ==
    /\ io[w] = "waiting"
    /\ lock = Nobody
    /\ ~cancelled
    /\ ~BeforeOp(op[w])
    /\ io' = [io EXCEPT ![w] = "error"]
    /\ UNCHANGED <<contextVars, pc, op, lock, cancelled, outcome, dbVars>>

(* Cancelled before it was dispatched, or by ensureActive() once it had the *)
(* monitor.                                                                 *)
AbandonWait(w) ==
    /\ io[w] = "waiting"
    /\ cancelled
    /\ io' = [io EXCEPT ![w] = "cancelled"]
    /\ UNCHANGED <<contextVars, pc, op, lock, cancelled, outcome, dbVars>>

(* Mutant: the monitor is not released. *)
LeaveMonitorHeld(w, answer) ==
    /\ io' = [io EXCEPT ![w] = answer]
    /\ UNCHANGED <<contextVars, pc, op, lock, cancelled, outcome>>

(* The IO thread leaves the monitor with the answer of the server; the      *)
(* value of a block that ends in a cancelled Job is dropped.                *)
LeaveMonitor(w, answer) ==
    /\ lock' = Nobody
    /\ io' = [io EXCEPT ![w] = IF answer = "ok" /\ cancelled
                               THEN "cancelled" ELSE answer]
    /\ UNCHANGED <<contextVars, pc, op, cancelled, outcome>>

(* How an execute() that has ended looks to its coroutine: a Job cancelled  *)
(* before the coroutine was dispatched again hides the answer.              *)
Resumes(w, answer) ==
    \/ io[w] = answer
    \/ answer = "cancelled" /\ cancelled /\ io[w] \in {"ok", "error"}

-----------------------------------------------------------------------------
(* The server's answers to the command of the coroutine in the monitor.     *)

Inside(w) == io[w] = "inside" /\ link = "up"

AnswerStart(w) ==
    /\ Inside(w)
    /\ op[w] = "START"
    /\ \/ dbTx' = "open" /\ LeaveMonitor(w, "ok")
       \/ "sql" \in Faults /\ dbTx' = dbTx /\ LeaveMonitor(w, "error")
    /\ UNCHANGED <<link, pending, durable, issued, written, stray, verdict>>

(* A statement in the open transaction; a failure aborts the transaction. *)
AnswerWrite(w) ==
    /\ Inside(w)
    /\ op[w] \in Writes
    /\ dbTx = "open"
    /\ \/ /\ pending' = pending \cup {op[w]}
          /\ written' = written \cup {op[w]}
          /\ dbTx' = dbTx
          /\ LeaveMonitor(w, "ok")
       \/ /\ "sql" \in Faults
          /\ dbTx' = "aborted"
          /\ UNCHANGED <<pending, written>>
          /\ LeaveMonitor(w, "error")
    /\ UNCHANGED <<link, durable, issued, stray, verdict>>

AnswerWriteAborted(w) ==
    /\ Inside(w)
    /\ op[w] \in Writes
    /\ dbTx = "aborted"
    /\ LeaveMonitor(w, "error")
    /\ UNCHANGED dbVars

(* No transaction is open: the session is in autocommit mode. *)
AnswerWriteAutocommit(w) ==
    /\ Inside(w)
    /\ op[w] \in Writes
    /\ dbTx = "none"
    /\ \/ /\ durable' = durable \cup {op[w]}
          /\ written' = written \cup {op[w]}
          /\ stray' = stray \cup {op[w]}
          /\ LeaveMonitor(w, "ok")
       \/ /\ "sql" \in Faults
          /\ UNCHANGED <<durable, written, stray>>
          /\ LeaveMonitor(w, "error")
    /\ UNCHANGED <<dbTx, link, pending, issued, verdict>>

(* COMMIT: done; done but the answer is lost with the connection; or        *)
(* refused by the server, which rolls back.                                 *)
AnswerCommit(w) ==
    /\ Inside(w)
    /\ op[w] = "COMMIT"
    /\ dbTx = "open"
    /\ dbTx' = "none"
    /\ pending' = {}
    /\ \/ /\ durable' = durable \cup pending
          /\ verdict' = "committed"
          /\ link' = link
          /\ LeaveMonitor(w, "ok")
       \/ /\ "link" \in Faults
          /\ durable' = durable \cup pending
          /\ verdict' = "committed"
          /\ link' = "down"
          /\ LeaveMonitor(w, "error")
       \/ /\ "sql" \in Faults
          /\ verdict' = "rolledback"
          /\ UNCHANGED <<durable, link>>
          /\ LeaveMonitor(w, "error")
    /\ UNCHANGED <<issued, written, stray>>

(* COMMIT of an aborted transaction rolls it back and reports no error. *)
AnswerCommitAborted(w) ==
    /\ Inside(w)
    /\ op[w] = "COMMIT"
    /\ dbTx = "aborted"
    /\ dbTx' = "none"
    /\ pending' = {}
    /\ verdict' = "rolledback"
    /\ LeaveMonitor(w, "ok")
    /\ UNCHANGED <<link, durable, issued, written, stray>>

(* The server's transaction ends without a commit. *)
Discard ==
    /\ dbTx' = "none"
    /\ pending' = {}
    /\ verdict' = IF verdict = "none" THEN "rolledback" ELSE verdict
    /\ UNCHANGED <<durable, issued, written, stray>>

(* ROLLBACK with no transaction open is only a warning. *)
AnswerRollback(w) ==
    /\ Inside(w)
    /\ op[w] = "ROLLBACK"
    /\ Discard
    /\ LeaveMonitor(w, "ok")
    /\ UNCHANGED link

AnswerLinkDown(w) ==
    /\ io[w] = "inside"
    /\ link = "down"
    /\ LeaveMonitor(w, "error")
    /\ UNCHANGED dbVars

(* The connection breaks; the server drops the open transaction. *)
LinkBreaks ==
    /\ "link" \in Faults
    /\ link = "up"
    /\ pc[Owner] # "evicted"
    /\ link' = "down"
    /\ Discard
    /\ UNCHANGED <<contextVars, workerVars>>

-----------------------------------------------------------------------------
(* transaction() and its begin, commit and rollback, by the owner.          *)

FireHooks(h) ==
    /\ fired' = [fired EXCEPT ![h] = @ + 1]
    /\ UNCHANGED <<status, options, caught>>

(* transaction() leaves its try: it waits for its children, then returns. *)
Ends(result) ==
    /\ Goto(Owner, "joining")
    /\ outcome' = result
    /\ UNCHANGED <<op, io>>

(* catch (e: Throwable) { rollback(); throw e } *)
Catch ==
    /\ Goto(Owner, "rollback")
    /\ Call(Owner, "ROLLBACK")
    /\ UNCHANGED outcome

BeginTransaction ==
    /\ pc[Owner] = "called"
    /\ Goto(Owner, "begin")
    /\ Call(Owner, "START")
    /\ UNCHANGED <<contextVars, lock, cancelled, outcome, dbVars>>

(* START TRANSACTION is answered; the context is marked, the block runs. *)
BeginReturns ==
    /\ pc[Owner] = "begin"
    /\ Resumes(Owner, "ok")
    /\ status' = "IN_TRANSACTION"
    /\ options' = "requested"
    /\ Goto(Owner, "block")
    /\ UNCHANGED <<fired, caught, op, io, lock, cancelled, outcome, dbVars>>

(* beginTransaction() is outside the try: nothing is rolled back. *)
BeginFails ==
    /\ pc[Owner] = "begin"
    /\ \E answer \in {"error", "cancelled"} : Resumes(Owner, answer)
    /\ Ends("error")
    /\ UNCHANGED <<contextVars, lock, cancelled, dbVars>>

(* Mutant: the exception of the block leaves without a rollback. *)
BlockThrowsThrough ==
    /\ pc[Owner] = "block"
    /\ Ends("error")
    /\ UNCHANGED <<contextVars, lock, cancelled, dbVars>>

BlockThrows ==
    /\ pc[Owner] = "block"
    /\ Catch
    /\ UNCHANGED <<contextVars, lock, cancelled, dbVars>>

BlockReturns ==
    /\ pc[Owner] = "block"
    /\ Goto(Owner, "beforeCommit")
    /\ UNCHANGED <<contextVars, op, io, lock, cancelled, outcome, dbVars>>

BeforeCommitHooks ==
    /\ pc[Owner] = "beforeCommit"
    /\ FireHooks("beforeCommit")
    /\ \/ Goto(Owner, "commit") /\ Call(Owner, "COMMIT") /\ UNCHANGED outcome
       \/ "beforeCommit" \in FailingHooks /\ Catch
    /\ UNCHANGED <<lock, cancelled, dbVars>>

(* setCommitted(), on the owner's thread and outside the monitor. *)
SetCommitted ==
    /\ pc[Owner] = "commit"
    /\ Resumes(Owner, "ok")
    /\ status' = "COMMITTED"
    /\ options' = "none"
    /\ Goto(Owner, "afterCommit")
    /\ UNCHANGED <<fired, caught, op, io, lock, cancelled, outcome, dbVars>>

(* Mutant: a COMMIT that fails is taken for one that succeeded. *)
CommitFailsUnnoticed ==
    /\ pc[Owner] = "commit"
    /\ \E answer \in {"error", "cancelled"} : Resumes(Owner, answer)
    /\ status' = "COMMITTED"
    /\ options' = "none"
    /\ Goto(Owner, "afterCommit")
    /\ UNCHANGED <<fired, caught, op, io, lock, cancelled, outcome, dbVars>>

CommitFails ==
    /\ pc[Owner] = "commit"
    /\ \E answer \in {"error", "cancelled"} : Resumes(Owner, answer)
    /\ Catch
    /\ UNCHANGED <<contextVars, lock, cancelled, dbVars>>

AfterCommitHooks ==
    /\ pc[Owner] = "afterCommit"
    /\ FireHooks("afterCommit")
    /\ \/ Goto(Owner, "commitCompletion") /\ UNCHANGED <<op, io, outcome>>
       \/ "afterCommit" \in FailingHooks /\ Catch
    /\ UNCHANGED <<lock, cancelled, dbVars>>

CommitCompletionHooks ==
    /\ pc[Owner] = "commitCompletion"
    /\ FireHooks("afterCompletion")
    /\ \/ Ends("ok")
       \/ "afterCompletion" \in FailingHooks /\ Catch
    /\ UNCHANGED <<lock, cancelled, dbVars>>

(* Mutant: rollback() does not record the status. *)
SetRolledBackForgotten ==
    /\ pc[Owner] = "rollback"
    /\ Resumes(Owner, "ok")
    /\ Goto(Owner, "afterRollback")
    /\ UNCHANGED <<contextVars, op, io, lock, cancelled, outcome, dbVars>>

(* setRolledBack(), on the owner's thread and outside the monitor. *)
SetRolledBack ==
    /\ pc[Owner] = "rollback"
    /\ Resumes(Owner, "ok")
    /\ status' = "ROLLED_BACK"
    /\ options' = "none"
    /\ Goto(Owner, "afterRollback")
    /\ UNCHANGED <<fired, caught, op, io, lock, cancelled, outcome, dbVars>>

(* rollback() throws out of the catch: the status stays, no hook is run. *)
RollbackFails ==
    /\ pc[Owner] = "rollback"
    /\ \E answer \in {"error", "cancelled"} : Resumes(Owner, answer)
    /\ Ends("error")
    /\ UNCHANGED <<contextVars, lock, cancelled, dbVars>>

AfterRollbackHooks ==
    /\ pc[Owner] = "afterRollback"
    /\ FireHooks("afterRollback")
    /\ \/ Goto(Owner, "rollbackCompletion") /\ UNCHANGED <<op, io, outcome>>
       \/ "afterRollback" \in FailingHooks /\ Ends("error")
    /\ UNCHANGED <<lock, cancelled, dbVars>>

RollbackCompletionHooks ==
    /\ pc[Owner] = "rollbackCompletion"
    /\ FireHooks("afterCompletion")
    /\ Ends("error")
    /\ UNCHANGED <<lock, cancelled, dbVars>>

(* Mutant: transaction() returns the value of its block whatever became of  *)
(* the scope in the meantime.                                               *)
TransactionReturnsValue ==
    /\ pc[Owner] = "joining"
    /\ \A c \in Children : pc[c] \in {"unstarted", "finished"}
    /\ Goto(Owner, "returned")
    /\ UNCHANGED <<contextVars, op, io, lock, cancelled, outcome, dbVars>>

(* Mutant: transaction() does not wait for the children of its scope. *)
TransactionReturnsEarly ==
    /\ pc[Owner] = "joining"
    /\ Goto(Owner, "returned")
    /\ outcome' = IF cancelled THEN "error" ELSE outcome
    /\ UNCHANGED <<contextVars, op, io, lock, cancelled, dbVars>>

(* withContext() completes when every child has; a Job cancelled by then    *)
(* completes with an exception whatever its block returned.                 *)
TransactionReturns ==
    /\ pc[Owner] = "joining"
    /\ \A c \in Children : pc[c] \in {"unstarted", "finished"}
    /\ Goto(Owner, "returned")
    /\ outcome' = IF cancelled THEN "error" ELSE outcome
    /\ UNCHANGED <<contextVars, op, io, lock, cancelled, dbVars>>

(* withConnection()'s finally evicts the connection, which ends the session. *)
EvictConnection ==
    /\ pc[Owner] = "returned"
    /\ Goto(Owner, "evicted")
    /\ link' = "down"
    /\ Discard
    /\ UNCHANGED <<contextVars, op, io, lock, cancelled, outcome>>

-----------------------------------------------------------------------------
(* What the block and its children do.                                      *)

Busy(w) == pc[w] = IF w = Owner THEN "block" ELSE "running"

Launch(c) ==
    /\ pc[Owner] = "block"
    /\ pc[c] = "unstarted"
    /\ Goto(c, "running")
    /\ UNCHANGED <<contextVars, op, io, lock, cancelled, outcome, dbVars>>

(* A repository sends a statement through the public execute(). *)
Execute(w) ==
    /\ Busy(w)
    /\ \E row \in Writes \ issued :
        /\ issued' = issued \cup {row}
        /\ Call(w, row)
    /\ Goto(w, "statement")
    /\ UNCHANGED <<contextVars, lock, cancelled, outcome>>
    /\ UNCHANGED <<dbTx, link, pending, durable, written, stray, verdict>>

(* The block calls transaction() again on the same context: its             *)
(* beginTransaction() fails in the monitor, outside the inner try.          *)
NestTransaction ==
    /\ pc[Owner] = "block"
    /\ Goto(Owner, "statement")
    /\ Call(Owner, "START")
    /\ UNCHANGED <<contextVars, lock, cancelled, outcome, dbVars>>

Continue(w) ==
    /\ Goto(w, IF w = Owner THEN "block" ELSE "running")
    /\ UNCHANGED <<op, io, outcome>>

ExecuteReturns(w) ==
    /\ pc[w] = "statement"
    /\ Resumes(w, "ok")
    /\ Continue(w)
    /\ UNCHANGED <<contextVars, lock, cancelled, dbVars>>

ExecuteCaught(w) ==
    /\ pc[w] = "statement"
    /\ w \in Swallows
    /\ \E answer \in {"error", "cancelled"} : Resumes(w, answer)
    /\ Continue(w)
    /\ caught' = TRUE
    /\ UNCHANGED <<status, options, fired, lock, cancelled, dbVars>>

OwnerExecuteThrows ==
    /\ pc[Owner] = "statement"
    /\ \E answer \in {"error", "cancelled"} : Resumes(Owner, answer)
    /\ Catch
    /\ UNCHANGED <<contextVars, lock, cancelled, dbVars>>

(* An exception of a child other than a cancellation cancels the scope. *)
ChildExecuteThrows(c) ==
    /\ pc[c] = "statement"
    /\ \/ Resumes(c, "error") /\ cancelled' = TRUE
       \/ Resumes(c, "cancelled") /\ UNCHANGED cancelled
    /\ Goto(c, "finished")
    /\ UNCHANGED <<contextVars, op, io, lock, outcome, dbVars>>

ChildFinishes(c) ==
    /\ pc[c] = "running"
    /\ Goto(c, "finished")
    /\ UNCHANGED <<contextVars, op, io, lock, cancelled, outcome, dbVars>>

(* The request is cancelled from outside, while transaction() is running. *)
Cancel ==
    /\ "cancel" \in Faults
    /\ ~cancelled
    /\ pc[Owner] \notin {"returned", "evicted"}
    /\ cancelled' = TRUE
    /\ UNCHANGED <<contextVars, pc, op, io, lock, outcome, dbVars>>

-----------------------------------------------------------------------------
Monitor(w) == EnterMonitor(w) \/ RefuseInMonitor(w) \/ AbandonWait(w)

Answer(w) ==
    \/ AnswerStart(w) \/ AnswerWrite(w) \/ AnswerWriteAborted(w)
    \/ AnswerWriteAutocommit(w) \/ AnswerCommit(w) \/ AnswerCommitAborted(w)
    \/ AnswerRollback(w) \/ AnswerLinkDown(w)

OwnerStep ==
    \/ BeginTransaction \/ BeginReturns \/ BeginFails
    \/ BlockThrows \/ BlockReturns \/ OwnerExecuteThrows
    \/ BeforeCommitHooks \/ SetCommitted \/ CommitFails
    \/ AfterCommitHooks \/ CommitCompletionHooks
    \/ SetRolledBack \/ RollbackFails
    \/ AfterRollbackHooks \/ RollbackCompletionHooks
    \/ TransactionReturns \/ EvictConnection

ExecuteStep(w) == ExecuteReturns(w) \/ ExecuteCaught(w)

ChildStep(c) == ChildExecuteThrows(c) \/ ChildFinishes(c)

(* The context and its connection are done with; nothing else ends a run. *)
Terminated == pc[Owner] = "evicted" /\ UNCHANGED vars

Next ==
    \/ OwnerStep \/ NestTransaction \/ Cancel \/ LinkBreaks \/ Terminated
    \/ \E w \in Workers : Monitor(w) \/ Answer(w) \/ Execute(w) \/ ExecuteStep(w)
    \/ \E c \in Children : Launch(c) \/ ChildStep(c)

(* Threads and coroutines that can go on do; a block issues finitely many   *)
(* statements and ends; nothing obliges a fault to happen.                  *)
Fairness ==
    /\ WF_vars(OwnerStep)
    /\ \A w \in Workers : WF_vars(Monitor(w) \/ Answer(w) \/ ExecuteStep(w))
    /\ \A c \in Children : WF_vars(ChildStep(c))

Spec == Init /\ [][Next]_vars

FairSpec == Spec /\ Fairness

-----------------------------------------------------------------------------
(* Properties *)

(* What the caller of transaction() has been told, if it has been. *)
Reply == IF pc[Owner] \in {"returned", "evicted"} THEN outcome ELSE "none"

(* A normal return of transaction() means that every row the server had     *)
(* accepted on this connection is durable, whichever coroutine wrote it and *)
(* whatever else failed or was cancelled, provided nobody swallowed the     *)
(* exception of a statement (TransactionContext.transaction, lines 49-63).  *)
SuccessIsDurable == ~caught /\ Reply = "ok" => written \subseteq durable

(* afterRollback hooks run for a transaction the server has rolled back,    *)
(* and never once the afterCommit hooks have been started: after a failing  *)
(* afterCommit hook it is the status check that stops rollback().           *)
RollbackHooksOnlyAfterRollback ==
    fired["afterRollback"] > 0 =>
        verdict = "rolledback" /\ fired["afterCommit"] = 0

(* afterCommit hooks run for a commit, except when a sibling's statement    *)
(* has failed and aborted the transaction before its exception could cancel *)
(* the scope: COMMIT then rolls back without an error.                      *)
CommitHooksOnlyAfterCommit ==
    fired["afterCommit"] > 0 /\ ~caught =>
        \/ verdict = "committed"
        \/ \E c \in Children : op[c] \in Writes /\ io[c] = "error"

(* A context left IN_TRANSACTION behind its transaction() call is the work  *)
(* of a cancellation or of a broken connection, which both make rollback()  *)
(* fail; every other path records how the transaction ended.                *)
EndIsRecorded ==
    pc[Owner] \in {"joining", "returned"} /\ status = "IN_TRANSACTION" =>
        cancelled \/ link = "down"

(* The status of the context and the server's transaction disagree only     *)
(* while the owner is on its way from COMMIT or ROLLBACK to the assignment  *)
(* of the status: no other state lets a sibling past the status check of    *)
(* execute() with no transaction open on a working connection.              *)
EscapeOnlyInWindow ==
    [][\A w \in Workers :
        io[w] = "waiting" /\ io'[w] = "inside" /\ op[w] \in Writes
        /\ dbTx = "none" /\ link = "up" =>
            \/ pc[Owner] = "commit" /\ io[Owner] \in {"ok", "error"}
            \/ pc[Owner] = "rollback"]_vars

(* Once transaction() has returned, nothing reaches the database over its   *)
(* connection any more: the scope waits for the children, so a connection   *)
(* is never evicted under a statement (DatabaseService.kt, lines 22-29).    *)
QuietAfterReturn ==
    [][pc[Owner] \in {"returned", "evicted"} =>
        written' = written /\ durable' = durable /\ lock = Nobody]_vars

(* A transaction recorded as rolled back has left nothing in the database.  *)
(* It holds for blocks that are sequential; a sibling in the window between *)
(* ROLLBACK and setRolledBack() breaks it.                                  *)
RolledBackLeavesNothing == status = "ROLLED_BACK" => durable = {}

(* DatabaseService.kt:40, "The transaction will be committed if [block]     *)
(* returns normally": broken by a block that catches a failed statement.    *)
OkMeansCommitted == Reply = "ok" => verdict = "committed"

(* Every call of transaction() ends and its connection is evicted, whatever *)
(* is cancelled, fails or breaks on the way.                                *)
ConnectionIsEvicted == <>(pc[Owner] = "evicted")

(* transaction() as its callers see it: the rows the server accepted and    *)
(* has not dropped are the work, its verdict their fate.  A sequential      *)
(* block that swallows nothing implements the unit of work.                 *)
Work == IF verdict = "rolledback" THEN {} ELSE written

Unit == INSTANCE UnitOfWork WITH work <- Work, store <- durable, reply <- Reply

ImplementsUnitOfWork == Unit!UnitSpec

-----------------------------------------------------------------------------
(* The inductive invariant behind the safety properties *)

Early == {"called", "begin", "block", "statement", "beforeCommit"}
Over  == {"joining", "returned", "evicted"}

(* A child's statement has failed and its exception is still on its way. *)
ChildError == \E c \in Children : pc[c] = "statement" /\ io[c] = "error"

(* The owner is on the way to an exception. *)
Failing ==
    \/ pc[Owner] \in {"rollback", "afterRollback", "rollbackCompletion"}
    \/ outcome = "error"

(* The owner has had a COMMIT answered and is on the way to a result. *)
Succeeding ==
    \/ pc[Owner] = "commit" /\ io[Owner] = "ok"
    \/ pc[Owner] \in {"afterCommit", "commitCompletion"}
    \/ outcome = "ok"

(* Who is in the monitor, and what a coroutine may be waiting for. *)
MonitorInv ==
    /\ \A w \in Workers : io[w] = "inside" <=> lock = w
    /\ \A w \in Workers : io[w] = "cancelled" => cancelled
    /\ \A c \in Children :
        /\ op[c] \in Writes \cup {"none"}
        /\ pc[c] = "unstarted" => io[c] = "idle"
        /\ pc[c] = "statement" => op[c] \in Writes
        /\ pc[c] # "statement" => io[c] \notin {"waiting", "inside"}
    /\ io[Owner] \in {"waiting", "inside"} =>
        pc[Owner] \in {"begin", "statement", "commit", "rollback"}
    /\ pc[Owner] = "called" => io[Owner] = "idle"
    /\ pc[Owner] = "begin" => op[Owner] = "START"
    /\ pc[Owner] = "statement" => op[Owner] \in Writes \cup {"START"}
    /\ pc[Owner] = "statement" /\ op[Owner] = "START" =>
        io[Owner] \notin {"inside", "ok"}
    /\ pc[Owner] = "commit" => op[Owner] = "COMMIT"
    /\ pc[Owner] = "rollback" => op[Owner] = "ROLLBACK"

(* How the status and the outcome follow the owner's place. *)
StatusInv ==
    /\ pc[Owner] \in {"called", "begin"} =>
        /\ status = "PENDING"
        /\ \A c \in Children : pc[c] = "unstarted"
    /\ pc[Owner] \in {"block", "statement", "beforeCommit", "commit"} =>
        status = "IN_TRANSACTION"
    /\ pc[Owner] \in {"afterCommit", "commitCompletion"} => status = "COMMITTED"
    /\ status = "COMMITTED" =>
        /\ pc[Owner] \in {"afterCommit", "commitCompletion", "rollback"} \cup Over
        /\ pc[Owner] = "rollback" => io[Owner] \notin {"inside", "ok"}
    /\ fired["afterCommit"] > 0 => status = "COMMITTED"
    /\ status = "ROLLED_BACK" =>
        pc[Owner] \in {"afterRollback", "rollbackCompletion"} \cup Over
    /\ pc[Owner] \in {"afterRollback", "rollbackCompletion"} => status = "ROLLED_BACK"
    /\ fired["afterRollback"] > 0 => status = "ROLLED_BACK"
    /\ pc[Owner] = "rollback" => status \in {"IN_TRANSACTION", "COMMITTED"}
    /\ outcome # "none" <=> pc[Owner] \in Over
    /\ pc[Owner] \in {"returned", "evicted"} =>
        \A c \in Children : pc[c] \in {"unstarted", "finished"}

(* How the rows and the verdict of the server follow the owner's place. *)
DatabaseInv ==
    /\ pc[Owner] \in {"called", "begin"} =>
        /\ written = {}
        /\ verdict = "none" \/ link = "down"
    /\ dbTx = "open" => written \subseteq pending
    /\ dbTx # "none" => verdict = "none" /\ link = "up"
    /\ verdict = "committed" => written \subseteq durable
    /\ verdict = "committed" =>
        /\ pc[Owner] \notin Early
        /\ pc[Owner] = "commit" =>
            \/ io[Owner] \in {"ok", "cancelled"}
            \/ io[Owner] = "error" /\ link = "down"
        /\ pc[Owner] = "rollback" /\ link = "up" =>
            \/ status = "COMMITTED"
            \/ io[Owner] = "cancelled"
    /\ pc[Owner] = "rollback" /\ io[Owner] = "ok" => verdict = "rolledback"
    /\ pc[Owner] \in {"afterRollback", "rollbackCompletion"} => verdict = "rolledback"
    /\ fired["afterRollback"] > 0 => verdict = "rolledback"

(* Where the status says IN_TRANSACTION and the server does not. *)
WindowInv ==
    /\ pc[Owner] = "begin" /\ io[Owner] = "ok" /\ link = "up" => dbTx # "none"
    /\ pc[Owner] = "rollback" /\ io[Owner] = "error" /\ status = "IN_TRANSACTION" =>
        link = "down"
    /\ status = "IN_TRANSACTION" /\ pc[Owner] \in Over => cancelled \/ link = "down"
    /\ status = "IN_TRANSACTION" /\ dbTx = "none" /\ link = "up" /\ ~cancelled =>
        \/ pc[Owner] = "commit" /\ io[Owner] \in {"ok", "error"}
        \/ pc[Owner] = "rollback"

(* Why a normal return can be trusted when nobody has swallowed exceptions. *)
SuccessInv ==
    ~caught =>
        /\ dbTx = "aborted" /\ ~cancelled =>
            \/ ChildError \/ Failing
            \/ pc[Owner] = "statement" /\ io[Owner] = "error"
        /\ ~cancelled =>
            (Succeeding => verdict = "committed" \/ ChildError)
        /\ Reply = "ok" => verdict = "committed"

(* Why afterCommit hooks can be trusted, cancelled or not: a statement that *)
(* has failed is remembered by the sibling that sent it.                    *)
FailedSibling == \E c \in Children : op[c] \in Writes /\ io[c] = "error"

HookInv ==
    ~caught =>
        /\ \A c \in Children : pc[c] = "running" => io[c] # "error"
        /\ \/ pc[Owner] = "commit" /\ io[Owner] = "ok"
           \/ pc[Owner] \in {"afterCommit", "commitCompletion"}
           \/ fired["afterCommit"] > 0
           => verdict = "committed" \/ FailedSibling

(* At most one coroutine talks to the server, and the rows, the status and  *)
(* the verdict keep to the order of transaction(): the inductive invariant. *)
IInv ==
    /\ TypeOK
    /\ MonitorInv
    /\ StatusInv
    /\ DatabaseInv
    /\ WindowInv
    /\ SuccessInv
    /\ HookInv

(* Without siblings nothing is sent outside of the transaction, and what is *)
(* durable was committed by it.                                             *)
SequentialInv ==
    Children = {} =>
        /\ pc[Owner] = "statement" /\ io[Owner] = "inside" /\ link = "up" => dbTx # "none"
        /\ durable # {} => verdict = "committed"
        /\ status = "ROLLED_BACK" => verdict = "rolledback"
        /\ pending \subseteq written
=============================================================================
