------------------------ MODULE RecordsUpdatesProofs ------------------------
(***************************************************************************)
(* Why concurrent updates keep what the others have written, for any       *)
(* requests, rows, columns and bounds.                                     *)
(*                                                                         *)
(* A transaction has a number of its own, so what a request sets in it is  *)
(* new: it was never stored.  A flag stands for such a value, and a row    *)
(* that a transaction has written differs from the committed row in        *)
(* flagged fields only.                                                    *)
(***************************************************************************)
EXTENDS RecordsProofs

(* A value stems from a transaction that has begun. *)
Known(v) == v.by # Nobody => v.tx <= transaction[v.by]

NumberInv ==
    /\ \A r \in Requests : transaction[r] <= begun
    /\ \A i \in Ids, f \in Fields, v \in Values : <<i, f, v>> \in stored => Known(v)
    /\ \A i \in Ids, f \in Fields : pending[i] # Nothing => Known(pending[i][f])
    /\ \A r \in Requests, f \in Fields : record[r] # Nothing => Known(record[r].values[f])
    /\ \A r \in Requests, i \in Ids, f \in Fields :
           phase[r] # "idle" => <<i, f, Now(r)>> \notin stored

(* What a record of r flags, r has set, and it was never stored. *)
FlagsOf(r, rec) ==
    /\ \A f \in Fields : f \in rec.changed =>
           /\ rec.values[f].by = r
           /\ <<rec.id, f, rec.values[f]>> \notin stored
    /\ "id" \in rec.changed => \A f \in Fields : rec.values[f].by \in {r, Nobody}

(* The block of r is about to go on, or deletes a row. *)
Settled(r) == phase[r] = "open" \/ Executing(r, "delete")

(* Nothing is flagged in a record whose row is written in the transaction. *)
FlagInv ==
    \A r \in Requests : record[r] # Nothing =>
        /\ FlagsOf(r, record[r])
        /\ Settled(r) /\ lock[record[r].id] = r /\ pending[record[r].id] # Nothing =>
               record[r].changed = {}

(* What a transaction of r has written differs from the committed row in   *)
(* what r has set, and in the stamp.                                       *)
PendingOf(r, i, row) ==
    /\ \A f \in Fields : row[f].by \in {r, Nobody} \/ <<i, f, row[f]>> \in stored
    /\ table[i] # Nothing =>
           /\ row["updatedAt"] = Now(r)
           /\ \A f \in Fields : row[f] # table[i][f] =>
                  /\ row[f].by = r
                  /\ <<i, f, row[f]>> \notin stored

PendingInv ==
    \A i \in Ids, r \in Requests :
        lock[i] = r /\ pending[i] # Nothing => PendingOf(r, i, pending[i])

UpdateInv == NumberInv /\ FlagInv /\ PendingInv

(* Fields of rows and records are values, and the stamp is a field. *)
LEMMA FieldTypes ==
    ASSUME TypeOK
    PROVE  /\ "updatedAt" \in Fields /\ "createdAt" \in Fields /\ "id" \notin Fields
           /\ Columns \subseteq Fields
           /\ \A row \in Rows, f \in Fields : row[f] \in Values
           /\ \A r \in Requests : record[r] # Nothing =>
                  record[r] \in RecordsOf /\ record[r].id \in Ids /\ record[r].values \in Rows
           /\ \A i \in Ids : pending[i] # Nothing => pending[i] \in Rows
           /\ \A i \in Ids : table[i] # Nothing => table[i] \in Rows
<1>1. "updatedAt" \in Fields /\ "createdAt" \in Fields /\ "id" \notin Fields /\ Columns \subseteq Fields
    BY RecordsAssumption DEF Fields, Audit
<1>2. \A row \in Rows, f \in Fields : row[f] \in Values
    BY DEF Rows
<1>3. \A r \in Requests : record[r] # Nothing =>
          record[r] \in RecordsOf /\ record[r].id \in Ids /\ record[r].values \in Rows
    BY DEF TypeOK, RecordsOf
<1>4. QED
    BY <1>1, <1>2, <1>3 DEF TypeOK

(* What is committed is known. *)
LEMMA StoredIsKnown ==
    ASSUME TypeOK, StoredInv, NumberInv, NEW i \in Ids, NEW f \in Fields, table[i] # Nothing
    PROVE  table[i][f] \in Values /\ <<i, f, table[i][f]>> \in stored /\ Known(table[i][f])
<1>1. table[i] \in Rows /\ table[i][f] \in Values
    BY FieldTypes
<1>2. <<i, f, table[i][f]>> \in stored
    BY DEF StoredInv, Contents
<1>3. QED
    BY <1>1, <1>2 DEF NumberInv

LEMMA InitUpdates == Init => UpdateInv
<1> SUFFICES ASSUME Init PROVE UpdateInv
    OBVIOUS
<1>1. \A i \in Ids, f \in Fields : pending[i] # Nothing => pending[i][f] = Unset
    BY DEF Init
<1>2. \A i \in Ids, f \in Fields : \A v : <<i, f, v>> \in stored => v = Unset
    BY DEF Init, Contents
<1>3. Known(Unset)
    BY DEF Known, Unset, Value
<1>4. NumberInv
    BY <1>1, <1>2, <1>3, RecordsAssumption DEF NumberInv, Init
<1>5. FlagInv /\ PendingInv
    BY RecordsAssumption DEF FlagInv, PendingInv, Init
<1>6. QED
    BY <1>4, <1>5 DEF UpdateInv

-----------------------------------------------------------------------------
(* Steps that write no row                                                 *)

(* A transaction that begins is younger than anything that is known. *)
LEMMA BeginUpdates ==
    ASSUME RecordsInv, UpdateInv, NEW r \in Requests, Begin(r)
    PROVE  UpdateInv'
<1>1. /\ TypeOK /\ LockInv /\ CallInv /\ StoredInv /\ NumberInv /\ FlagInv /\ PendingInv
      /\ phase[r] = "idle"
      /\ phase' = [phase EXCEPT ![r] = "open"]
      /\ begun' = begun + 1
      /\ transaction' = [transaction EXCEPT ![r] = begun + 1]
      /\ UNCHANGED <<table, pending, lock, record, call, stored>>
    BY DEF RecordsInv, UpdateInv, Begin, Enters, rows, history
<1>2. /\ begun \in Nat /\ \A q \in Requests : transaction[q] \in Nat /\ transaction[q] <= begun
      /\ transaction'[r] = begun + 1 /\ phase'[r] = "open"
      /\ \A q \in Requests \ {r} : transaction'[q] = transaction[q] /\ phase'[q] = phase[q]
    BY <1>1, RecordsAssumption DEF TypeOK, NumberInv
<1>3. ASSUME NEW v \in Values, Known(v)
      PROVE  Known(v)'
    BY <1>2, <1>3 DEF Known, Values
<1>4. NumberInv'
    <2>1. \A q \in Requests : transaction'[q] <= begun'
        BY <1>1, <1>2
    <2>2. \A i \in Ids, f \in Fields, v \in Values : <<i, f, v>> \in stored' => Known(v)'
        BY <1>1, <1>3 DEF NumberInv
    <2>3. ASSUME NEW i \in Ids, NEW f \in Fields, pending'[i] # Nothing
          PROVE  Known(pending[i][f])'
        <3>1. pending[i][f] \in Values /\ Known(pending[i][f])
            BY <1>1, <2>3, FieldTypes DEF NumberInv
        <3>2. QED
            BY <1>1, <1>3, <3>1 DEF Known
    <2>4. ASSUME NEW q \in Requests, NEW f \in Fields, record'[q] # Nothing
          PROVE  Known(record[q].values[f])'
        <3>1. record[q].values[f] \in Values /\ Known(record[q].values[f])
            BY <1>1, <2>4, FieldTypes DEF NumberInv
        <3>2. QED
            BY <1>1, <1>3, <3>1 DEF Known
    <2>5. ASSUME NEW q \in Requests, NEW i \in Ids, NEW f \in Fields, phase'[q] # "idle"
          PROVE  <<i, f, Now(q)'>> \notin stored'
        <3>1. CASE q = r
            <4>1. Now(r)'.by = r /\ Now(r)'.tx = begun + 1 /\ r # Nobody
                BY <1>2, RecordsAssumption DEF Now, Value
            <4>2. ASSUME <<i, f, Now(r)'>> \in stored
                  PROVE  FALSE
                <5>1. Now(r)' \in Values
                    BY <1>1, <4>2 DEF TypeOK
                <5>2. Known(Now(r)')
                    BY <1>1, <4>2, <5>1 DEF NumberInv
                <5>3. QED
                    BY <1>2, <4>1, <5>2 DEF Known
            <4>3. QED
                BY <1>1, <3>1, <4>2
        <3>2. CASE q # r
            BY <1>1, <1>2, <2>5, <3>2 DEF NumberInv, Now
        <3>3. QED
            BY <3>1, <3>2
    <2>6. QED
        BY <2>1, <2>2, <2>3, <2>4, <2>5 DEF NumberInv
<1>5. \A i \in Ids : lock[i] # r
    BY <1>1, RecordsAssumption DEF LockInv
<1>6. FlagInv'
    <2>1. \A q \in Requests : record[q] # Nothing => record[q].id \in Ids
        BY <1>1, FieldTypes
    <2>2. QED
        BY <1>1, <1>2, <1>5, <2>1 DEF FlagInv, FlagsOf, Settled, Executing
<1>7. PendingInv'
    BY <1>1, <1>2, <1>5 DEF PendingInv, PendingOf, Now
<1>8. QED
    BY <1>4, <1>6, <1>7 DEF UpdateInv

(* A step of r in its transaction that changes its record, or its call. *)
LEMMA QuietUpdates ==
    ASSUME RecordsInv, UpdateInv, NEW r \in Requests,
           NEW new \in RecordsOf \cup {Nothing}, Holds(r, new),
           NEW p \in {"open", "executing", "failing"}, Enters(r, p), phase[r] # "idle",
           \A q \in Requests \ {r} : call'[q] = call[q],
           UNCHANGED <<table, pending, lock, transaction, begun, stored>>,
           new # Nothing => FlagsOf(r, new) /\ \A f \in Fields : Known(new.values[f]),
           new # Nothing /\ (p = "open" \/ (p = "executing" /\ call'[r].kind = "delete")) =>
               (lock[new.id] = r /\ pending[new.id] # Nothing => new.changed = {})
    PROVE  UpdateInv'
<1>1. /\ TypeOK /\ NumberInv /\ FlagInv /\ PendingInv
      /\ record' = [record EXCEPT ![r] = new]
      /\ phase' = [phase EXCEPT ![r] = p]
    BY DEF RecordsInv, UpdateInv, Holds, Enters
<1>2. /\ record'[r] = new /\ phase'[r] = p
      /\ \A q \in Requests \ {r} : record'[q] = record[q] /\ phase'[q] = phase[q]
    BY <1>1 DEF TypeOK
<1>3. NumberInv'
    BY <1>1, <1>2 DEF NumberInv, Known, Now
<1>4. FlagInv'
    <2>1. ASSUME NEW q \in Requests, record'[q] # Nothing
          PROVE  /\ FlagsOf(q, record[q])'
                 /\ Settled(q)' /\ lock'[record'[q].id] = q /\ pending'[record'[q].id] # Nothing =>
                        record'[q].changed = {}
        <3>1. CASE q = r
            BY <1>2, <2>1, <3>1 DEF FlagsOf, Settled, Executing
        <3>2. CASE q # r
            BY <1>1, <1>2, <2>1, <3>2 DEF FlagInv, FlagsOf, Settled, Executing
        <3>3. QED
            BY <3>1, <3>2
    <2>2. QED
        BY <2>1 DEF FlagInv
<1>5. PendingInv'
    BY <1>1 DEF PendingInv, PendingOf, Now
<1>6. QED
    BY <1>3, <1>4, <1>5 DEF UpdateInv

LEMMA GenerateUpdates ==
    ASSUME RecordsInv, UpdateInv, NEW r \in Requests, NEW i \in Ids, Generate(r, i)
    PROVE  UpdateInv'
<1> DEFINE new == [id |-> i,
                   values |-> [f \in Fields |-> IF f \in Columns THEN Now(r) ELSE Unset],
                   changed |-> Columns \cup {"id"}]
<1>1. /\ TypeOK /\ NumberInv
      /\ phase[r] = "open" /\ lock[i] = Nobody /\ r # Nobody
      /\ Holds(r, new)
      /\ UNCHANGED <<table, pending, lock, phase, call, transaction, begun, calls, stored>>
    BY RecordsAssumption DEF RecordsInv, UpdateInv, Generate, rows
<1>2. /\ Now(r) \in Values /\ Unset \in Values
      /\ Now(r).by = r /\ Unset.by = Nobody /\ Known(Now(r)) /\ Known(Unset)
    <2>1. Unset \in Values /\ Unset.by = Nobody
        BY RecordsAssumption DEF Unset, Value, Values
    <2>2. Known(Now(r))
        BY <1>1, RecordsAssumption DEF Known, Now, Value, TypeOK
    <2>3. QED
        BY <1>1, <2>1, <2>2, NowLemma DEF Known
<1>3. /\ new \in RecordsOf /\ new.id = i /\ new.changed = Columns \cup {"id"}
      /\ \A f \in Fields : new.values[f] = IF f \in Columns THEN Now(r) ELSE Unset
    BY <1>2 DEF RecordsOf, Rows, Fields
<1> HIDE DEF new
<1>4. FlagsOf(r, new)
    BY <1>1, <1>2, <1>3, FieldTypes DEF FlagsOf, NumberInv
<1>5. Enters(r, "open")
    BY <1>1 DEF Enters, TypeOK
<1>6. QED
    BY <1>1, <1>2, <1>3, <1>4, <1>5, QuietUpdates

LEMMA FindUpdates ==
    ASSUME RecordsInv, UpdateInv, NEW r \in Requests, NEW i \in Ids, Find(r, i)
    PROVE  UpdateInv'
<1> DEFINE found == [id |-> i, values |-> Seen(r, i), changed |-> {}]
           new == IF Seen(r, i) = Nothing THEN Nothing ELSE found
<1>1. /\ TypeOK /\ StoredInv /\ NumberInv
      /\ phase[r] = "open"
      /\ Holds(r, new)
      /\ UNCHANGED <<table, pending, lock, phase, call, transaction, begun, stored>>
    BY DEF RecordsInv, UpdateInv, Find, rows
<1>2. \/ new = Nothing
      \/ /\ new \in RecordsOf
         /\ new.changed = {} /\ new.values = Seen(r, i)
         /\ Seen(r, i) # Nothing
    BY <1>1, SeenLemma DEF RecordsOf
<1>3. ASSUME new # Nothing, NEW f \in Fields
      PROVE  Known(new.values[f])
    <2> HIDE DEF new
    <2>1. new.values = Seen(r, i) /\ Seen(r, i) # Nothing
        BY <1>2, <1>3
    <2>2. CASE lock[i] = r
        BY <1>1, <2>1, <2>2, SeenLemma DEF NumberInv
    <2>3. CASE lock[i] # r
        BY <1>1, <2>1, <2>3, SeenLemma, StoredIsKnown
    <2>4. QED
        BY <2>2, <2>3
<1> HIDE DEF new
<1>4. Enters(r, "open")
    BY <1>1 DEF Enters, TypeOK
<1>5. new # Nothing => FlagsOf(r, new)
    BY <1>2 DEF FlagsOf
<1>6. QED
    BY <1>1, <1>2, <1>3, <1>4, <1>5, QuietUpdates

(* What a request sets in its record is new. *)
LEMMA CallUpdates ==
    ASSUME RecordsInv, UpdateInv, NEW r \in Requests, NEW kind \in {"insert", "update"},
           NEW fields \in SUBSET Fields,
           record[r] # Nothing, Calling(r, kind, record[r].id),
           Holds(r, WithFields(record[r], fields, Now(r)))
    PROVE  UpdateInv'
<1> DEFINE new == WithFields(record[r], fields, Now(r))
<1>1. /\ TypeOK /\ NumberInv /\ FlagInv
      /\ phase[r] = "open" /\ r # Nobody
      /\ Enters(r, "executing")
      /\ call' = [call EXCEPT ![r] = [kind |-> kind, id |-> record[r].id]]
      /\ UNCHANGED <<table, pending, lock, transaction, begun, stored>>
    BY RecordsAssumption DEF RecordsInv, UpdateInv, Calling, rows, history
<1>2. record[r] \in RecordsOf /\ record[r].id \in Ids
    BY <1>1, FieldTypes
<1>3. Now(r) \in Values /\ Now(r).by = r /\ Known(Now(r))
    BY <1>1, NowLemma, RecordsAssumption DEF Known, Now, Value, TypeOK
<1>4. IsSet(new, record[r], fields, Now(r))
    BY <1>2, <1>3, SetterLemma
<1> HIDE DEF new
<1>5. FlagsOf(r, new)
    <2>1. FlagsOf(r, record[r])
        BY <1>1 DEF FlagInv
    <2>2. \A f \in Fields : <<record[r].id, f, Now(r)>> \notin stored
        BY <1>1, <1>2 DEF NumberInv
    <2>3. \A f \in Fields : f \in new.changed =>
              new.values[f].by = r /\ <<new.id, f, new.values[f]>> \notin stored
        BY <1>3, <1>4, <2>1, <2>2 DEF IsSet, FlagsOf
    <2>4. "id" \in new.changed => \A f \in Fields : new.values[f].by \in {r, Nobody}
        BY <1>1, <1>3, <1>4, <2>1, FieldTypes DEF IsSet, FlagsOf
    <2>5. QED
        BY <2>3, <2>4 DEF FlagsOf
<1>6. \A f \in Fields : Known(new.values[f])
    BY <1>1, <1>3, <1>4 DEF IsSet, NumberInv
<1>7. /\ call'[r].kind # "delete"
      /\ \A q \in Requests \ {r} : call'[q] = call[q]
    BY <1>1 DEF TypeOK
<1>8. new \in RecordsOf /\ Holds(r, new)
    BY <1>4 DEF IsSet, new
<1>9. QED
    BY <1>1, <1>5, <1>6, <1>7, <1>8, QuietUpdates

(* deleteById() is called, or a statement has written nothing: an update   *)
(* of a row that the transaction has written finds it, if it is there.     *)
LEMMA SameRecordUpdates ==
    ASSUME RecordsInv, UpdateInv, NEW r \in Requests, phase[r] # "idle",
           NEW p \in {"open", "executing", "failing"}, Enters(r, p),
           \A q \in Requests \ {r} : call'[q] = call[q],
           UNCHANGED <<table, pending, lock, record, transaction, begun, stored>>,
           p = "executing" => phase[r] = "open",
           \/ p # "open" \/ record[r] = Nothing \/ Settled(r)
           \/ lock[record[r].id] = r => pending[record[r].id] = Nothing
    PROVE  UpdateInv'
<1>1. TypeOK /\ NumberInv /\ FlagInv
    BY DEF RecordsInv, UpdateInv
<1>2. record[r] \in RecordsOf \cup {Nothing} /\ Holds(r, record[r])
    BY <1>1 DEF TypeOK, Holds
<1>3. record[r] # Nothing =>
          FlagsOf(r, record[r]) /\ \A f \in Fields : Known(record[r].values[f])
    BY <1>1 DEF FlagInv, NumberInv
<1>4. ASSUME record[r] # Nothing, p = "open" \/ p = "executing",
             lock[record[r].id] = r, pending[record[r].id] # Nothing
      PROVE  record[r].changed = {}
    <2>1. Settled(r)
        BY <1>4 DEF Settled
    <2>2. QED
        BY <1>1, <1>4, <2>1 DEF FlagInv
<1>5. QED
    BY <1>2, <1>3, <1>4, QuietUpdates

LEMMA CallDeleteUpdates ==
    ASSUME RecordsInv, UpdateInv, NEW r \in Requests, NEW i \in Ids, CallDelete(r, i)
    PROVE  UpdateInv'
<1>1. /\ phase[r] = "open" /\ Enters(r, "executing")
      /\ call' = [call EXCEPT ![r] = [kind |-> "delete", id |-> i]]
      /\ UNCHANGED <<table, pending, lock, record, transaction, begun, stored>>
    BY DEF CallDelete, Calling, rows, history
<1>2. \A q \in Requests \ {r} : call'[q] = call[q]
    BY <1>1 DEF RecordsInv, TypeOK
<1>3. QED
    BY <1>1, <1>2, SameRecordUpdates

LEMMA StatementFailsUpdates ==
    ASSUME RecordsInv, UpdateInv, NEW r \in Requests, StatementFails(r)
    PROVE  UpdateInv'
<1>1. /\ phase[r] = "executing" /\ Enters(r, "failing")
      /\ call' = [call EXCEPT ![r] = Nothing]
      /\ UNCHANGED <<table, pending, lock, record, transaction, begun, stored>>
    BY DEF StatementFails, rows, history
<1>2. \A q \in Requests \ {r} : call'[q] = call[q]
    BY <1>1 DEF RecordsInv, TypeOK
<1>3. QED
    BY <1>1, <1>2, SameRecordUpdates

LEMMA NoRowUpdates ==
    ASSUME RecordsInv, UpdateInv, NEW r \in Requests, NoRow(r)
    PROVE  UpdateInv'
<1> DEFINE i == call[r].id
<1>1. /\ TypeOK /\ CallInv
      /\ phase[r] = "executing"
      /\ Executing(r, "update") \/ Executing(r, "delete")
      /\ Seen(r, i) = Nothing
      /\ Enters(r, "failing") \/ Enters(r, "open")
      /\ call' = [call EXCEPT ![r] = Nothing]
      /\ UNCHANGED <<table, pending, lock, record, transaction, begun, stored>>
    BY DEF RecordsInv, NoRow, Executing, rows, history
<1>2. i \in Ids
    BY <1>1 DEF CallInv, TypeOK, Calls
<1>3. \A q \in Requests \ {r} : call'[q] = call[q]
    BY <1>1 DEF TypeOK
<1>4. \/ Settled(r)
      \/ record[r].id = i /\ (lock[i] = r => pending[i] = Nothing)
    BY <1>1, <1>2, SeenLemma DEF Settled, CallInv, HoldsOf
<1> HIDE DEF i
<1>5. QED
    BY <1>1, <1>3, <1>4, SameRecordUpdates

-----------------------------------------------------------------------------
(* Steps that write a row                                                  *)

(* A statement of r writes the row i; the record of r is new then.         *)
LEMMA WritesUpdates ==
    ASSUME RecordsInv, UpdateInv, NEW r \in Requests, phase[r] = "executing",
           NEW i \in Ids, NEW row \in Rows \cup {Nothing}, Writes(r, i, row),
           lock[i] \in {r, Nobody},
           row # Nothing => PendingOf(r, i, row) /\ \A f \in Fields : Known(row[f]),
           NEW new \in RecordsOf \cup {Nothing}, Holds(r, new),
           new # Nothing => \A f \in Fields : Known(new.values[f]),
           \/ new # Nothing /\ new.changed = {}
           \/ new = record[r] /\ row = Nothing /\ Settled(r)
    PROVE  UpdateInv'
<1>1. /\ TypeOK /\ NumberInv /\ FlagInv /\ PendingInv
      /\ lock' = [lock EXCEPT ![i] = r]
      /\ pending' = [pending EXCEPT ![i] = row]
      /\ phase' = [phase EXCEPT ![r] = "open"]
      /\ call' = [call EXCEPT ![r] = Nothing]
      /\ record' = [record EXCEPT ![r] = new]
      /\ UNCHANGED <<table, transaction, begun, calls, stored>>
    BY DEF RecordsInv, UpdateInv, Writes, Enters, Holds
<1>2. /\ lock'[i] = r /\ pending'[i] = row
      /\ \A j \in Ids \ {i} : lock'[j] = lock[j] /\ pending'[j] = pending[j]
      /\ phase'[r] = "open" /\ call'[r] = Nothing /\ record'[r] = new
      /\ \A q \in Requests \ {r} :
             phase'[q] = phase[q] /\ call'[q] = call[q] /\ record'[q] = record[q]
    BY <1>1 DEF TypeOK
<1>3. NumberInv'
    <2>1. \A j \in Ids, f \in Fields : pending'[j] # Nothing => Known(pending'[j][f])
        BY <1>1, <1>2 DEF NumberInv
    <2>2. \A q \in Requests, f \in Fields : record'[q] # Nothing => Known(record'[q].values[f])
        BY <1>1, <1>2 DEF NumberInv
    <2>3. \A q \in Requests, j \in Ids, f \in Fields :
              phase'[q] # "idle" => <<j, f, Now(q)>> \notin stored
        BY <1>1, <1>2 DEF NumberInv
    <2>4. QED
        BY <1>1, <2>1, <2>2, <2>3 DEF NumberInv, Known, Now
<1>4. FlagInv'
    <2>1. ASSUME NEW q \in Requests, record'[q] # Nothing
          PROVE  /\ FlagsOf(q, record[q])'
                 /\ Settled(q)' /\ lock'[record'[q].id] = q /\ pending'[record'[q].id] # Nothing =>
                        record'[q].changed = {}
        <3>1. CASE q = r /\ new.changed = {}
            BY <1>2, <3>1 DEF FlagsOf
        <3>2. CASE q = r /\ new = record[r] /\ row = Nothing /\ Settled(r)
            <4>1. record[r] # Nothing /\ record'[r] = record[r] /\ record[r].id \in Ids
                BY <1>1, <1>2, <2>1, <3>2, FieldTypes
            <4>2. /\ FlagsOf(r, record[r])
                  /\ lock[record[r].id] = r /\ pending[record[r].id] # Nothing =>
                         record[r].changed = {}
                BY <1>1, <3>2, <4>1 DEF FlagInv
            <4>3. QED
                BY <1>1, <1>2, <3>2, <4>1, <4>2 DEF FlagsOf
        <3>3. CASE q # r
            <4>1. record[q] # Nothing /\ record'[q] = record[q] /\ record[q].id \in Ids
                BY <1>1, <1>2, <2>1, <3>3, FieldTypes
            <4>2. Settled(q)' <=> Settled(q)
                BY <1>2, <3>3 DEF Settled, Executing
            <4>3. QED
                BY <1>1, <1>2, <3>3, <4>1, <4>2 DEF FlagInv, FlagsOf
        <3>4. QED
            BY <1>2, <2>1, <3>1, <3>2, <3>3
    <2>2. QED
        BY <2>1 DEF FlagInv
<1>5. PendingInv'
    <2>1. ASSUME NEW j \in Ids, NEW q \in Requests, lock'[j] = q, pending'[j] # Nothing
          PROVE  PendingOf(q, j, pending'[j])
        BY <1>1, <1>2, <2>1 DEF PendingInv
    <2>2. ASSUME NEW j \in Ids, NEW q \in Requests, lock'[j] = q, pending'[j] # Nothing
          PROVE  PendingOf(q, j, pending[j])'
        BY <1>1, <2>1, <2>2 DEF PendingOf, Now
    <2>3. QED
        BY <2>2 DEF PendingInv
<1>6. QED
    BY <1>3, <1>4, <1>5 DEF UpdateInv

(* What is inserted, the request has set or nobody; there is no row yet. *)
LEMMA InsertUpdates ==
    ASSUME RecordsInv, UpdateInv, NEW r \in Requests, Insert(r)
    PROVE  UpdateInv'
<1> DEFINE i == call[r].id
           new == Unflagged(record[r])
           row == record[r].values
<1>1. /\ TypeOK /\ CallInv /\ FreshInv /\ NumberInv /\ FlagInv
      /\ phase[r] = "executing" /\ Executing(r, "insert") /\ Complete(record[r])
      /\ Writes(r, i, row) /\ Holds(r, new)
    BY DEF RecordsInv, UpdateInv, Insert, Executing
<1>2. i \in Ids /\ HoldsOf(r, i) /\ record[r] # Nothing
    BY <1>1 DEF CallInv, TypeOK, Calls, HoldsOf
<1>3. record[r] \in RecordsOf /\ record[r].id = i /\ row \in Rows /\ "id" \in record[r].changed
    BY <1>1, <1>2, FieldTypes DEF HoldsOf, Complete
<1>4. lock[i] = Nobody /\ table[i] = Nothing
    <2>1. lock[i] = Nobody /\ ~Existed(i)
        BY <1>1, <1>2, <1>3 DEF FreshInv
    <2>2. QED
        BY <1>2, <2>1, RowsShow
<1>5. PendingOf(r, i, row) /\ \A f \in Fields : Known(row[f])
    <2>1. FlagsOf(r, record[r])
        BY <1>1, <1>2 DEF FlagInv
    <2>2. QED
        BY <1>1, <1>2, <1>3, <1>4, <2>1 DEF PendingOf, FlagsOf, NumberInv
<1>6. new \in RecordsOf /\ new.changed = {} /\ new.values = row /\ new # Nothing
    BY <1>3, UnflaggedLemma, RecordsAssumption
<1> HIDE DEF i, new, row
<1>7. QED
    BY <1>1, <1>2, <1>3, <1>4, <1>5, <1>6, WritesUpdates

(* What an update writes is flagged, and new; the rest stays as it was. *)
LEMMA UpdateUpdates ==
    ASSUME RecordsInv, UpdateInv, NEW r \in Requests, Update(r)
    PROVE  UpdateInv'
<1> DEFINE i == call[r].id
           rec == record[r]
           new == Unflagged(rec)
           row == [f \in Fields |-> IF f \in rec.changed THEN rec.values[f] ELSE Seen(r, i)[f]]
<1>1. /\ TypeOK /\ CallInv /\ StoredInv /\ NumberInv /\ FlagInv /\ PendingInv
      /\ phase[r] = "executing" /\ Executing(r, "update") /\ ~Waits(r)
      /\ Seen(r, i) # Nothing
      /\ Writes(r, i, row) /\ Holds(r, new)
    BY DEF RecordsInv, UpdateInv, Update, Executing
<1>2. i \in Ids /\ HoldsOf(r, i) /\ rec # Nothing
    BY <1>1 DEF CallInv, TypeOK, Calls, HoldsOf
<1>3. rec \in RecordsOf /\ rec.id = i /\ rec.values \in Rows
    BY <1>1, <1>2, FieldTypes DEF HoldsOf
<1>4. Seen(r, i) \in Rows
    BY <1>1, <1>2, SeenLemma
<1>5. row \in Rows /\ row # Nothing
    BY <1>3, <1>4, RecordsAssumption DEF Rows
<1>6. lock[i] \in {r, Nobody}
    BY <1>1, <1>2, SeenLemma DEF Waits, TypeOK
<1>7. new \in RecordsOf /\ new.changed = {} /\ new.values = rec.values /\ new # Nothing
    BY <1>3, UnflaggedLemma, RecordsAssumption
<1>8. FlagsOf(r, rec)
    BY <1>1, <1>2 DEF FlagInv
<1>9. "updatedAt" \in rec.changed /\ rec.values["updatedAt"] = Now(r)
    BY <1>1 DEF CallInv
<1>10. \A f \in Fields :
          /\ f \in rec.changed => row[f] = rec.values[f]
          /\ f \notin rec.changed => row[f] = Seen(r, i)[f]
    OBVIOUS
<1>11. row["updatedAt"] = Now(r)
    BY <1>1, <1>9, <1>10, FieldTypes
<1> HIDE DEF i, rec, new, row
<1>12. \A f \in Fields : Known(rec.values[f])
    BY <1>1, <1>2 DEF NumberInv, rec
<1>13. CASE lock[i] = r
    <2>1. Seen(r, i) = pending[i] /\ PendingOf(r, i, Seen(r, i))
        BY <1>1, <1>2, <1>13, SeenLemma DEF PendingInv
    <2>2. PendingOf(r, i, row)
        BY <1>3, <1>8, <1>10, <1>11, <2>1 DEF FlagsOf, PendingOf
    <2>3. \A f \in Fields : Known(row[f])
        BY <1>1, <1>2, <1>10, <1>12, <2>1 DEF NumberInv
    <2>4. QED
        BY <1>1, <1>2, <1>5, <1>6, <1>7, <1>12, <2>2, <2>3, WritesUpdates
<1>14. CASE lock[i] # r
    <2>1. Seen(r, i) = table[i]
        BY <1>1, <1>2, <1>14, SeenLemma
    <2>2. \A f \in Fields : <<i, f, table[i][f]>> \in stored /\ Known(table[i][f])
        BY <1>1, <1>2, <2>1, StoredIsKnown
    <2>3. PendingOf(r, i, row)
        BY <1>3, <1>8, <1>10, <1>11, <2>1, <2>2 DEF FlagsOf, PendingOf
    <2>4. \A f \in Fields : Known(row[f])
        BY <1>10, <1>12, <2>1, <2>2
    <2>5. QED
        BY <1>1, <1>2, <1>5, <1>6, <1>7, <1>12, <2>3, <2>4, WritesUpdates
<1>15. QED
    BY <1>13, <1>14

LEMMA DeleteUpdates ==
    ASSUME RecordsInv, UpdateInv, NEW r \in Requests, Delete(r)
    PROVE  UpdateInv'
<1> DEFINE i == call[r].id
<1>1. /\ TypeOK /\ CallInv /\ NumberInv
      /\ phase[r] = "executing" /\ Executing(r, "delete") /\ ~Waits(r)
      /\ Seen(r, i) # Nothing
      /\ Writes(r, i, Nothing)
      /\ UNCHANGED record
    BY DEF RecordsInv, UpdateInv, Delete, Executing
<1>2. i \in Ids
    BY <1>1 DEF CallInv, TypeOK, Calls
<1>3. lock[i] \in {r, Nobody}
    BY <1>1, <1>2, SeenLemma DEF Waits, TypeOK
<1>4. record[r] \in RecordsOf \cup {Nothing} /\ Holds(r, record[r]) /\ Settled(r)
    BY <1>1 DEF TypeOK, Holds, Settled
<1>5. record[r] # Nothing => \A f \in Fields : Known(record[r].values[f])
    BY <1>1 DEF NumberInv
<1> HIDE DEF i
<1>6. QED
    BY <1>1, <1>2, <1>3, <1>4, <1>5, WritesUpdates

-----------------------------------------------------------------------------
(* The end of a transaction                                                *)

(* What a commit stores is known, and new only where its request set it.   *)
LEMMA CommitUpdates ==
    ASSUME RecordsInv, UpdateInv, NEW r \in Requests, Commit(r)
    PROVE  UpdateInv'
<1>1. /\ TypeOK /\ CallInv /\ NumberInv /\ FlagInv /\ PendingInv
      /\ phase[r] = "open"
      /\ phase' = [phase EXCEPT ![r] = "idle"]
      /\ lock' = [i \in Ids |-> IF lock[i] = r THEN Nobody ELSE lock[i]]
      /\ table' = [i \in Ids |-> IF lock[i] = r THEN pending[i] ELSE table[i]]
      /\ stored' = stored \cup UNION
             {Contents(i, pending[i]) : i \in {j \in Locked(r) : pending[j] # Nothing}}
      /\ UNCHANGED <<pending, record, call, transaction, begun>>
      /\ r # Nobody
    BY RecordsAssumption DEF RecordsInv, UpdateInv, Commit, EndsTransaction, Enters
<1>2. /\ phase'[r] = "idle"
      /\ \A q \in Requests \ {r} : phase'[q] = phase[q]
      /\ \A i \in Ids, q \in Requests : lock'[i] = q <=> lock[i] = q /\ q # r
      /\ \A i \in Ids : lock[i] # r => table'[i] = table[i]
    BY <1>1, RecordsAssumption DEF TypeOK
<1>3. ASSUME NEW i \in Ids, NEW f \in Fields, NEW v, <<i, f, v>> \in stored'
      PROVE  \/ <<i, f, v>> \in stored
             \/ lock[i] = r /\ pending[i] # Nothing /\ v = pending[i][f]
    BY <1>1, <1>3 DEF Locked, Contents
<1>4. ASSUME NEW i \in Ids, NEW f \in Fields, NEW v, <<i, f, v>> \in stored',
             <<i, f, v>> \notin stored
      PROVE  v.by \in {r, Nobody}
    <2>1. lock[i] = r /\ pending[i] # Nothing /\ v = pending[i][f]
        BY <1>3, <1>4
    <2>2. QED
        BY <1>1, <1>4, <2>1 DEF PendingInv, PendingOf
<1>5. NumberInv'
    <2>1. \A i \in Ids, f \in Fields, v \in Values : <<i, f, v>> \in stored' => Known(v)
        BY <1>1, <1>3 DEF NumberInv
    <2>2. ASSUME NEW q \in Requests, NEW i \in Ids, NEW f \in Fields, phase'[q] # "idle"
          PROVE  <<i, f, Now(q)>> \notin stored'
        <3>1. q # r /\ <<i, f, Now(q)>> \notin stored
            BY <1>1, <1>2, <2>2 DEF NumberInv
        <3>2. Now(q).by \notin {r, Nobody}
            BY <3>1, RecordsAssumption DEF Now, Value
        <3>3. QED
            BY <1>4, <3>1, <3>2
    <2>3. QED
        BY <1>1, <2>1, <2>2 DEF NumberInv, Known, Now
<1>6. FlagInv'
    <2>1. ASSUME NEW q \in Requests, record[q] # Nothing
          PROVE  /\ FlagsOf(q, record[q])'
                 /\ Settled(q)' /\ lock'[record[q].id] = q /\ pending[record[q].id] # Nothing =>
                        record[q].changed = {}
        <3>1. record[q].id \in Ids /\ FlagsOf(q, record[q])
            BY <1>1, <2>1, FieldTypes DEF FlagInv
        <3>2. ASSUME NEW f \in Fields, f \in record[q].changed
              PROVE  <<record[q].id, f, record[q].values[f]>> \notin stored'
            <4>1. /\ <<record[q].id, f, record[q].values[f]>> \notin stored
                  /\ record[q].values[f].by = q /\ q # Nobody
                BY <3>1, <3>2, RecordsAssumption DEF FlagsOf
            <4>2. CASE q = r
                BY <1>1, <1>3, <2>1, <3>1, <3>2, <4>1, <4>2 DEF FlagInv, Settled
            <4>3. CASE q # r
                BY <1>4, <3>1, <4>1, <4>3
            <4>4. QED
                BY <4>2, <4>3
        <3>3. FlagsOf(q, record[q])'
            BY <1>1, <3>1, <3>2 DEF FlagsOf
        <3>4. Settled(q)' /\ lock'[record[q].id] = q => Settled(q) /\ lock[record[q].id] = q
            BY <1>1, <1>2, <3>1 DEF Settled, Executing
        <3>5. QED
            BY <1>1, <2>1, <3>3, <3>4 DEF FlagInv
    <2>2. QED
        BY <1>1, <2>1 DEF FlagInv
<1>7. PendingInv'
    <2>1. ASSUME NEW i \in Ids, NEW q \in Requests, lock'[i] = q, pending[i] # Nothing
          PROVE  PendingOf(q, i, pending[i])'
        <3>1. lock[i] = q /\ q # r /\ table'[i] = table[i] /\ PendingOf(q, i, pending[i])
            BY <1>1, <1>2, <2>1 DEF PendingInv
        <3>2. \A f \in Fields : \A v : <<i, f, v>> \in stored' <=> <<i, f, v>> \in stored
            BY <1>1, <1>3, <3>1
        <3>3. QED
            BY <1>1, <3>1, <3>2 DEF PendingOf, Now
    <2>2. QED
        BY <1>1, <2>1 DEF PendingInv
<1>8. QED
    BY <1>5, <1>6, <1>7 DEF UpdateInv

LEMMA RollbackUpdates ==
    ASSUME RecordsInv, UpdateInv, NEW r \in Requests, Rollback(r)
    PROVE  UpdateInv'
<1>1. /\ TypeOK /\ StoredInv /\ NumberInv /\ FlagInv /\ PendingInv
      /\ phase' = [phase EXCEPT ![r] = "idle"]
      /\ lock' = [i \in Ids |-> IF lock[i] = r THEN Nobody ELSE lock[i]]
      /\ pending' = [i \in Ids |-> IF lock[i] = r THEN table[i] ELSE pending[i]]
      /\ UNCHANGED <<table, record, call, transaction, begun, stored>>
    BY DEF RecordsInv, UpdateInv, Rollback, EndsTransaction, Enters
<1>2. /\ phase'[r] = "idle"
      /\ \A q \in Requests \ {r} : phase'[q] = phase[q]
      /\ \A i \in Ids, q \in Requests : lock'[i] = q <=> lock[i] = q /\ q # r
      /\ \A i \in Ids : lock[i] # r => pending'[i] = pending[i]
      /\ \A i \in Ids : lock[i] = r => pending'[i] = table[i]
    BY <1>1, RecordsAssumption DEF TypeOK
<1>3. NumberInv'
    <2>1. \A i \in Ids, f \in Fields : pending'[i] # Nothing => Known(pending'[i][f])
        BY <1>1, <1>2, StoredIsKnown DEF NumberInv
    <2>2. \A q \in Requests, i \in Ids, f \in Fields :
              phase'[q] # "idle" => <<i, f, Now(q)>> \notin stored
        BY <1>1, <1>2 DEF NumberInv
    <2>3. QED
        BY <1>1, <2>1, <2>2 DEF NumberInv, Known, Now
<1>4. FlagInv'
    <2>1. ASSUME NEW q \in Requests, record[q] # Nothing
          PROVE  /\ FlagsOf(q, record[q])'
                 /\ Settled(q)' /\ lock'[record[q].id] = q /\ pending'[record[q].id] # Nothing =>
                        record[q].changed = {}
        <3>1. record[q].id \in Ids /\ FlagsOf(q, record[q])
            BY <1>1, <2>1, FieldTypes DEF FlagInv
        <3>2. FlagsOf(q, record[q])'
            BY <1>1, <3>1 DEF FlagsOf
        <3>3. Settled(q)' /\ lock'[record[q].id] = q =>
                  /\ Settled(q) /\ lock[record[q].id] = q
                  /\ pending'[record[q].id] = pending[record[q].id]
            BY <1>1, <1>2, <3>1 DEF Settled, Executing
        <3>4. QED
            BY <1>1, <2>1, <3>2, <3>3 DEF FlagInv
    <2>2. QED
        BY <1>1, <2>1 DEF FlagInv
<1>5. PendingInv'
    <2>1. ASSUME NEW i \in Ids, NEW q \in Requests, lock'[i] = q, pending'[i] # Nothing
          PROVE  PendingOf(q, i, pending'[i])
        BY <1>1, <1>2, <2>1 DEF PendingInv
    <2>2. ASSUME NEW i \in Ids, NEW q \in Requests, lock'[i] = q, pending'[i] # Nothing
          PROVE  PendingOf(q, i, pending[i])'
        BY <1>1, <2>1, <2>2 DEF PendingOf, Now
    <2>3. QED
        BY <2>2 DEF PendingInv
<1>6. QED
    BY <1>3, <1>4, <1>5 DEF UpdateInv

LEMMA StepUpdates == RecordsInv /\ UpdateInv /\ [Next]_vars => UpdateInv'
<1> SUFFICES ASSUME RecordsInv, UpdateInv, [Next]_vars PROVE UpdateInv'
    OBVIOUS
<1>1. CASE UNCHANGED vars
    <2>1. NumberInv'
        BY <1>1 DEF vars, UpdateInv, NumberInv, Known, Now
    <2>2. FlagInv'
        BY <1>1 DEF vars, UpdateInv, FlagInv, FlagsOf, Settled, Executing
    <2>3. PendingInv'
        BY <1>1 DEF vars, UpdateInv, PendingInv, PendingOf, Now
    <2>4. QED
        BY <2>1, <2>2, <2>3 DEF UpdateInv
<1>2. ASSUME NEW r \in Requests, Block(r)
      PROVE  UpdateInv'
    <2>1. CASE CallInsert(r)
        <3>1. {"createdAt"} \in SUBSET Fields
            BY DEF Fields, Audit
        <3>2. QED
            BY <2>1, <3>1, CallUpdates DEF CallInsert
    <2>2. ASSUME NEW fields \in SUBSET Columns, CallUpdate(r, fields)
          PROVE  UpdateInv'
        <3>1. fields \cup {"updatedAt"} \in SUBSET Fields
            BY DEF Fields, Audit
        <3>2. QED
            BY <2>2, <3>1, CallUpdates DEF CallUpdate
    <2>3. QED
        BY <1>2, <2>1, <2>2, GenerateUpdates, FindUpdates, CallDeleteUpdates DEF Block
<1>3. ASSUME NEW r \in Requests,
             Execute(r) \/ StatementFails(r) \/ BreakDeadlock(r) \/ Ends(r)
      PROVE  UpdateInv'
    BY <1>3, InsertUpdates, UpdateUpdates, DeleteUpdates, NoRowUpdates,
       StatementFailsUpdates, CommitUpdates, RollbackUpdates
       DEF Execute, RefuseIncomplete, BreakDeadlock, Ends
<1>4. QED
    BY <1>1, <1>2, <1>3, BeginUpdates DEF Next, Terminated

LEMMA UpdatesInvariance == Spec => []UpdateInv
BY InitUpdates, StepUpdates, Invariance, PTL DEF Spec

-----------------------------------------------------------------------------
(* The theorem                                                             *)

LEMMA CommittedFields ==
    ASSUME RecordsInv, UpdateInv, [Next]_vars, NEW i \in Ids,
           table[i] # Nothing, table'[i] # Nothing, table'[i] # table[i]
    PROVE  \E r \in Requests :
               /\ Committing(r)
               /\ table'[i]["updatedAt"] = Now(r)
               /\ \A f \in Fields : table'[i][f] # table[i][f] =>
                      /\ table'[i][f].by = r
                      /\ <<i, f, table'[i][f]>> \notin stored
<1>1. TypeOK /\ PendingInv
    BY DEF RecordsInv, UpdateInv
<1>2. PICK r \in Requests : Commit(r)
    BY <1>1, OnlyCommits DEF Next, Terminated, vars
<1>3. Committing(r)
    BY <1>1, <1>2 DEF Commit, EndsTransaction, Enters, Committing, TypeOK
<1>4. lock[i] = r /\ table'[i] = pending[i]
    BY <1>2 DEF Commit
<1>5. PendingOf(r, i, pending[i])
    BY <1>1, <1>4 DEF PendingInv
<1>6. QED
    BY <1>3, <1>4, <1>5 DEF PendingOf

(* Requests that set different fields of a row keep each other's updates,  *)
(* and what a field held before does not come back.                        *)
THEOREM ConcurrentUpdatesSurvive == Spec => UpdatesKeepTheRest
<1>1. RecordsInv /\ UpdateInv /\ [Next]_vars =>
          [\A i \in Ids :
              table[i] # Nothing /\ table'[i] # Nothing /\ table'[i] # table[i] =>
                  \E r \in Requests :
                      /\ Committing(r)
                      /\ table'[i]["updatedAt"] = Now(r)
                      /\ \A f \in Fields : table'[i][f] # table[i][f] =>
                             /\ table'[i][f].by = r
                             /\ <<i, f, table'[i][f]>> \notin stored]_vars
    BY CommittedFields
<1>2. QED
    BY <1>1, Invariance, UpdatesInvariance, PTL DEF Spec, UpdatesKeepTheRest
=============================================================================
