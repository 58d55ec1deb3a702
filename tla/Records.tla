------------------------------ MODULE Records ------------------------------
(***************************************************************************)
(* The records of a repository and the rows they stand for.                *)
(*                                                                         *)
(* A record is an object of the request that holds it: its values and the  *)
(* set of fields that were set since they were last written (jOOQ's        *)
(* changed flags).  insert() and update() write the flagged fields only    *)
(* and clear the flags when their statement returns, before the            *)
(* transaction ends.  A request keeps its records when a transaction is    *)
(* rolled back, and may try again with them in another one.                *)
(*                                                                         *)
(* A statement that meets a row that another transaction has written waits *)
(* until that one ends, and then goes on with what it finds (READ          *)
(* COMMITTED).  How a transaction begins, commits and rolls back is        *)
(* TransactionContext's; here each of these is one step.                   *)
(***************************************************************************)
EXTENDS Naturals, FiniteSets

CONSTANTS
    Requests,           \* those that work with the repository
    Ids,                \* the primary keys
    Columns,            \* the fields that requests set
    Nobody,             \* no request
    Nothing,            \* no row, no record, no call
    MaxTransactions,    \* bound: transactions that are begun
    MaxCalls            \* bound: repository calls of a transaction

Audit == {"createdAt", "updatedAt"}
Fields == Columns \cup Audit

(* What a request gives a field in one of its transactions. *)
Value(r, n) == [by |-> r, tx |-> n]
Values == [by : Requests \cup {Nobody}, tx : 0 .. MaxTransactions]

(* What a field holds that no request has set. *)
Unset == Value(Nobody, 0)

Rows == [Fields -> Values]
RecordsOf == [id : Ids, values : Rows, changed : SUBSET (Fields \cup {"id"})]
Calls == [kind : {"insert", "update", "delete"}, id : Ids]

ASSUME RecordsAssumption ==
    /\ Nobody \notin Requests
    /\ Nothing \notin Rows \cup RecordsOf \cup Calls
    /\ Columns \cap (Audit \cup {"id"}) = {}
    /\ MaxTransactions \in Nat /\ MaxCalls \in Nat

VARIABLES
    table,              \* the committed row of each id
    pending,            \* the row that the holder of its lock sees
    lock,               \* the transaction that has written it, if any
    record,             \* the record that a request holds
    phase,              \* where the transaction() call of a request is
    call,               \* the insert(), update() or deleteById() it waits for
    transaction,        \* the number of a request's transaction, or its last
    begun,              \* how many have begun
    calls,              \* how many statements its transaction has executed
    stored,             \* history: every value that was ever committed
    excused             \* history: records whose written row was rolled back or deleted

vars == <<table, pending, lock, record, phase, call, transaction, begun, calls,
          stored, excused>>

rows == <<table, pending, lock>>
history == <<stored, excused>>

TypeOK ==
    /\ table \in [Ids -> Rows \cup {Nothing}]
    /\ pending \in [Ids -> Rows \cup {Nothing}]
    /\ lock \in [Ids -> Requests \cup {Nobody}]
    /\ record \in [Requests -> RecordsOf \cup {Nothing}]
    /\ phase \in [Requests -> {"idle", "open", "executing", "failing"}]
    /\ call \in [Requests -> Calls \cup {Nothing}]
    /\ transaction \in [Requests -> 0 .. MaxTransactions]
    /\ begun \in 0 .. MaxTransactions
    /\ calls \in [Requests -> 0 .. MaxCalls]
    /\ stored \in SUBSET (Ids \X Fields \X Values)
    /\ excused \in SUBSET Requests

Contents(i, row) == {<<i, f, row[f]>> : f \in Fields}

(* Some of the rows have been there for a while. *)
Init ==
    /\ table \in [Ids -> {[f \in Fields |-> Unset], Nothing}]
    /\ pending = table
    /\ lock = [i \in Ids |-> Nobody]
    /\ record = [r \in Requests |-> Nothing]
    /\ phase = [r \in Requests |-> "idle"]
    /\ call = [r \in Requests |-> Nothing]
    /\ transaction = [r \in Requests |-> 0]
    /\ begun = 0
    /\ calls = [r \in Requests |-> 0]
    /\ stored = UNION {Contents(i, table[i]) : i \in {j \in Ids : table[j] # Nothing}}
    /\ excused = {}

-----------------------------------------------------------------------------
Enters(r, p) == phase' = [phase EXCEPT ![r] = p]

(* What a statement of r sees of a row. *)
Seen(r, i) == IF lock[i] = r THEN pending[i] ELSE table[i]

Locked(r) == {i \in Ids : lock[i] = r}

Holds(r, rec) == record' = [record EXCEPT ![r] = rec]

HoldsOf(r, i) == record[r] # Nothing /\ record[r].id = i

(* The setters of the record: the values, and their flags. *)
WithFields(rec, fields, v) ==
    [rec EXCEPT !.values = [f \in Fields |-> IF f \in fields THEN v ELSE @[f]],
                !.changed = @ \cup fields]

Now(r) == Value(r, transaction[r])

Begin(r) ==
    /\ phase[r] = "idle"
    /\ begun < MaxTransactions
    /\ Enters(r, "open")
    /\ begun' = begun + 1
    /\ transaction' = [transaction EXCEPT ![r] = begun + 1]
    /\ UNCHANGED <<rows, record, call, calls, history>>

(* ModelGenerator: a record with an id that nobody has seen. *)
Generate(r, i) ==
    /\ phase[r] = "open"
    /\ \A q \in Requests : ~HoldsOf(q, i)
    /\ \A f \in Fields, v \in Values : <<i, f, v>> \notin stored
    /\ lock[i] = Nobody
    /\ Holds(r, [id |-> i,
                 values |-> [f \in Fields |->
                                IF f \in Columns THEN Now(r) ELSE Unset],
                 changed |-> Columns \cup {"id"}])
    /\ excused' = excused \ {r}
    /\ UNCHANGED <<rows, phase, call, transaction, begun, calls, stored>>

(* findById() and findAll(): a record without flags, or none. *)
Find(r, i) ==
    /\ phase[r] = "open"
    /\ calls[r] < MaxCalls
    /\ calls' = [calls EXCEPT ![r] = @ + 1]
    /\ Holds(r, IF Seen(r, i) = Nothing THEN Nothing
                ELSE [id |-> i, values |-> Seen(r, i), changed |-> {}])
    /\ excused' = excused \ {r}
    /\ UNCHANGED <<rows, phase, call, transaction, begun, stored>>

-----------------------------------------------------------------------------
(* insert(), update(), deleteById()                                        *)

Calling(r, kind, i) ==
    /\ phase[r] = "open"
    /\ calls[r] < MaxCalls
    /\ Enters(r, "executing")
    /\ call' = [call EXCEPT ![r] = [kind |-> kind, id |-> i]]
    /\ calls' = [calls EXCEPT ![r] = @ + 1]
    /\ UNCHANGED <<rows, transaction, begun, history>>

(* ... beforeInsert() and the call of query(). *)
CallInsert(r) ==
    /\ record[r] # Nothing
    /\ Calling(r, "insert", record[r].id)
    /\ Holds(r, WithFields(record[r], {"createdAt"}, Now(r)))

(* Mutant: a repository that does not override beforeUpdate(). *)
CallUpdateUnstamped(r, fields) ==
    /\ record[r] # Nothing
    /\ Calling(r, "update", record[r].id)
    /\ Holds(r, WithFields(record[r], fields, Now(r)))

(* The block sets some fields of its record, once each; beforeUpdate() and *)
(* the call of query().                                                    *)
CallUpdate(r, fields) ==
    /\ record[r] # Nothing
    /\ \A f \in fields : record[r].values[f] # Now(r)
    /\ Calling(r, "update", record[r].id)
    /\ Holds(r, WithFields(record[r], fields \cup {"updatedAt"}, Now(r)))

CallDelete(r, i) ==
    /\ Calling(r, "delete", i)
    /\ UNCHANGED record

Executing(r, kind) == phase[r] = "executing" /\ call[r].kind = kind

(* The statement meets a committed row that another transaction has        *)
(* written.  An insert has an id of its own and meets none.                *)
Waits(r) ==
    /\ Executing(r, "update") \/ Executing(r, "delete")
    /\ lock[call[r].id] \notin {r, Nobody}
    /\ table[call[r].id] # Nothing

(* The statement writes its row, and returns one row. *)
Writes(r, i, row) ==
    /\ lock' = [lock EXCEPT ![i] = r]
    /\ pending' = [pending EXCEPT ![i] = row]
    /\ Enters(r, "open")
    /\ call' = [call EXCEPT ![r] = Nothing]
    /\ UNCHANGED <<table, transaction, begun, calls, stored>>

(* record.changed(false) *)
Unflagged(rec) == [rec EXCEPT !.changed = {}]

(* What the statement leaves out is NULL: it succeeds with every field. *)
Complete(rec) == Columns \cup {"id", "createdAt"} \subseteq rec.changed

(* Mutant: the statement writes every field of the record. *)
InsertEverything(r) ==
    LET i == call[r].id IN
    /\ Executing(r, "insert")
    /\ Seen(r, i) = Nothing
    /\ Writes(r, i, record[r].values)
    /\ Holds(r, Unflagged(record[r]))
    /\ UNCHANGED excused

Insert(r) ==
    LET i == call[r].id IN
    /\ Executing(r, "insert")
    /\ Complete(record[r])
    /\ Writes(r, i, record[r].values)
    /\ Holds(r, Unflagged(record[r]))
    /\ UNCHANGED excused

(* Mutant: the statement writes every field of the record. *)
UpdateEverything(r) ==
    LET i == call[r].id IN
    /\ Executing(r, "update")
    /\ ~Waits(r)
    /\ Seen(r, i) # Nothing
    /\ Writes(r, i, record[r].values)
    /\ Holds(r, Unflagged(record[r]))
    /\ UNCHANGED excused

Update(r) ==
    LET i == call[r].id
        rec == record[r] IN
    /\ Executing(r, "update")
    /\ ~Waits(r)
    /\ Seen(r, i) # Nothing
    /\ Writes(r, i, [f \in Fields |->
                        IF f \in rec.changed THEN rec.values[f] ELSE Seen(r, i)[f]])
    /\ Holds(r, Unflagged(rec))
    /\ UNCHANGED excused

Delete(r) ==
    LET i == call[r].id IN
    /\ Executing(r, "delete")
    /\ ~Waits(r)
    /\ Seen(r, i) # Nothing
    /\ Writes(r, i, Nothing)
    /\ excused' = IF HoldsOf(r, i) THEN excused \cup {r} ELSE excused
    /\ UNCHANGED record

(* Mutant: update() takes the number of rows for granted. *)
NoRowUnnoticed(r) ==
    /\ Executing(r, "update") \/ Executing(r, "delete")
    /\ ~Waits(r)
    /\ Seen(r, call[r].id) = Nothing
    /\ Enters(r, "open")
    /\ Holds(r, IF Executing(r, "delete") THEN record[r] ELSE Unflagged(record[r]))
    /\ call' = [call EXCEPT ![r] = Nothing]
    /\ UNCHANGED <<rows, transaction, begun, calls, history>>

(* No row: SQLDataException.  The transaction is intact, and a block may   *)
(* catch the exception.                                                    *)
NoRow(r) ==
    /\ Executing(r, "update") \/ Executing(r, "delete")
    /\ ~Waits(r)
    /\ Seen(r, call[r].id) = Nothing
    /\ \/ Enters(r, "failing")
       \/ Enters(r, "open")
    /\ call' = [call EXCEPT ![r] = Nothing]
    /\ UNCHANGED <<rows, record, transaction, begun, calls, history>>

(* The statement throws: a constraint is violated, a connection breaks. *)
StatementFails(r) ==
    /\ phase[r] = "executing"
    /\ Enters(r, "failing")
    /\ call' = [call EXCEPT ![r] = Nothing]
    /\ UNCHANGED <<rows, record, transaction, begun, calls, history>>

(* ... as an insert does that leaves out what may not be NULL. *)
RefuseIncomplete(r) ==
    /\ Executing(r, "insert")
    /\ ~Complete(record[r])
    /\ StatementFails(r)

(* r waits for a transaction that waits, in the end, for r. *)
Deadlocked(r) ==
    \E cycle \in SUBSET Requests :
        /\ r \in cycle
        /\ \A q \in cycle : Waits(q)
        /\ {lock[call[q].id] : q \in cycle} = cycle

(* PostgreSQL's deadlock detection fails the statement of one of them. *)
BreakDeadlock(r) ==
    /\ Deadlocked(r)
    /\ StatementFails(r)

-----------------------------------------------------------------------------
(* The end of the transaction                                              *)

(* Mutant: the connection goes back to the pool with its locks. *)
EndsWithLocks(r) ==
    /\ Enters(r, "idle")
    /\ UNCHANGED lock
    /\ calls' = [calls EXCEPT ![r] = 0]
    /\ UNCHANGED <<record, call, transaction, begun>>

EndsTransaction(r) ==
    /\ Enters(r, "idle")
    /\ lock' = [i \in Ids |-> IF lock[i] = r THEN Nobody ELSE lock[i]]
    /\ calls' = [calls EXCEPT ![r] = 0]
    /\ UNCHANGED <<record, call, transaction, begun>>

Commit(r) ==
    /\ phase[r] = "open"
    /\ EndsTransaction(r)
    /\ table' = [i \in Ids |-> IF lock[i] = r THEN pending[i] ELSE table[i]]
    /\ stored' = stored \cup UNION
           {Contents(i, pending[i]) : i \in {j \in Locked(r) : pending[j] # Nothing}}
    /\ UNCHANGED <<pending, excused>>

(* The block throws by itself, or lets an exception of a call through. *)
Rollback(r) ==
    /\ phase[r] \in {"open", "failing"}
    /\ EndsTransaction(r)
    /\ pending' = [i \in Ids |-> IF lock[i] = r THEN table[i] ELSE pending[i]]
    /\ excused' = excused \cup {q \in {r} : record[q] # Nothing /\ lock[record[q].id] = q}
    /\ UNCHANGED <<table, stored>>

(* Every request is done. *)
Terminated ==
    /\ begun = MaxTransactions
    /\ \A r \in Requests : phase[r] = "idle"
    /\ UNCHANGED vars

Block(r) ==
    \/ \E i \in Ids : Generate(r, i) \/ Find(r, i) \/ CallDelete(r, i)
    \/ CallInsert(r)
    \/ \E fields \in SUBSET Columns : CallUpdate(r, fields)

Execute(r) ==
    Insert(r) \/ RefuseIncomplete(r) \/ Update(r) \/ Delete(r) \/ NoRow(r)

(* Mutant: nobody catches what the block throws. *)
EndsUncaught(r) == Commit(r)

Ends(r) == Commit(r) \/ Rollback(r)

Next ==
    \/ \E r \in Requests :
           Begin(r) \/ Block(r) \/ Execute(r) \/ StatementFails(r) \/ BreakDeadlock(r)
               \/ Ends(r)
    \/ Terminated

Spec == Init /\ [][Next]_vars

(* A block ends; PostgreSQL executes a statement that need not wait and    *)
(* resolves deadlocks.                                                     *)
Fairness ==
    \A r \in Requests :
        /\ WF_vars(Execute(r))
        /\ WF_vars(BreakDeadlock(r))
        /\ WF_vars(Ends(r))

FairSpec == Spec /\ Fairness
-----------------------------------------------------------------------------
(* Properties                                                              *)

Committing(r) == phase[r] = "open" /\ phase'[r] = "idle"

Existed(i) == \E f \in Fields, v \in Values : <<i, f, v>> \in stored

(* What a request has set in a record and the record does not flag any     *)
(* more was committed, or is in the open transaction of the request: an    *)
(* update() that writes too little, or that clears the flags of a          *)
(* statement which wrote nothing, loses it for good.  Excused are records  *)
(* whose write was rolled back or deleted afterwards by the request: their *)
(* flags are gone with nothing stored, until they are found again.         *)
NothingForgotten ==
    \A r \in Requests, i \in Ids, f \in Fields :
        /\ HoldsOf(r, i)
        /\ record[r].values[f].by = r
        /\ f \notin record[r].changed
        /\ r \notin excused
        => \/ <<i, f, record[r].values[f]>> \in stored
           \/ /\ lock[i] = r
              /\ pending[i] # Nothing
              /\ pending[i][f] = record[r].values[f]

(* A committed field changes only by a commit of the request that set its  *)
(* new value, is stamped with it, and never goes back to what it was       *)
(* before: requests that set different fields of a row keep each other's   *)
(* updates, however old the records are that they hold.                    *)
UpdatesKeepTheRest ==
    [][\A i \in Ids :
           table[i] # Nothing /\ table'[i] # Nothing /\ table'[i] # table[i] =>
               \E r \in Requests :
                   /\ Committing(r)
                   /\ table'[i]["updatedAt"] = Now(r)
                   /\ \A f \in Fields : table'[i][f] # table[i][f] =>
                          /\ table'[i][f].by = r
                          /\ <<i, f, table'[i][f]>> \notin stored]_vars

(* A row that was deleted is not stored again, by whatever records of it   *)
(* are still held.                                                         *)
DeletedStaysDeleted ==
    [][\A i \in Ids : Existed(i) /\ table[i] = Nothing => table'[i] = Nothing]_vars

(* Those that r waits for, directly or through one another, and r itself. *)
Closed(S) == \A q \in S : Waits(q) => lock[call[q].id] \in S

HeldUpBy(r) == {q \in Requests : \A S \in SUBSET Requests : r \in S /\ Closed(S) => q \in S}

(* Detecting circles is enough: whoever waits does so, in the end, for a    *)
(* transaction that is still open and need not wait, or for a circle that   *)
(* PostgreSQL breaks.  No chain of waiting updates ends at a request that   *)
(* is gone.                                                                 *)
NobodyIsStuck ==
    \A r \in Requests : Waits(r) =>
        \E q \in HeldUpBy(r) : phase[q] # "idle" /\ (~Waits(q) \/ Deadlocked(q))

(* Every transaction ends, whoever waits for whom. *)
TransactionsEnd ==
    \A r \in Requests : phase[r] # "idle" ~> phase[r] = "idle"

-----------------------------------------------------------------------------
(* The inductive invariant                                                 *)

(* A lock belongs to a transaction that has not ended, and what is pending *)
(* without one is what is committed.                                       *)
LockInv ==
    \A i \in Ids :
        /\ lock[i] = Nobody => pending[i] = table[i]
        /\ lock[i] # Nobody => phase[lock[i]] # "idle"

(* A request that waits for a statement knows which, and has its record. *)
CallInv ==
    \A r \in Requests :
        /\ phase[r] = "executing" <=> call[r] # Nothing
        /\ Executing(r, "insert") \/ Executing(r, "update") => HoldsOf(r, call[r].id)
        /\ Executing(r, "update") =>
               /\ "updatedAt" \in record[r].changed
               /\ record[r].values["updatedAt"] = Now(r)

(* What the table shows was committed. *)
StoredInv ==
    \A i \in Ids : table[i] # Nothing => Contents(i, table[i]) \subseteq stored

(* A record that was never inserted is the only one of its id, and a row   *)
(* comes only where there never was one.                                   *)
FreshInv ==
    /\ \A r \in Requests, i \in Ids : HoldsOf(r, i) /\ "id" \in record[r].changed =>
           /\ \A q \in Requests \ {r} : ~HoldsOf(q, i)
           /\ lock[i] = Nobody
           /\ ~Existed(i)
    /\ \A i \in Ids : table[i] = Nothing /\ pending[i] # Nothing => ~Existed(i)

RecordsInv ==
    /\ TypeOK
    /\ LockInv
    /\ CallInv
    /\ StoredInv
    /\ FreshInv
    /\ NothingForgotten
=============================================================================
