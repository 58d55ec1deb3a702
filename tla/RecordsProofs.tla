--------------------------- MODULE RecordsProofs ---------------------------
(***************************************************************************)
(* The inductive invariant of Records and what follows from it, for any    *)
(* requests, rows, columns and bounds: what the change flags remember,     *)
(* that a row which is gone is not stored again, and that breaking the     *)
(* circles of waiting statements lets every chain of them go on.           *)
(***************************************************************************)
EXTENDS Records, FiniteSetTheorems, TLAPS

(* A row holds something of its id: there is at least one field. *)
LEMMA RowsShow ==
    ASSUME RecordsInv, NEW i \in Ids, table[i] # Nothing
    PROVE  Existed(i)
<1>1. table[i] \in Rows /\ Contents(i, table[i]) \subseteq stored
    BY DEF RecordsInv, TypeOK, StoredInv
<1>2. "createdAt" \in Fields /\ table[i]["createdAt"] \in Values
    BY <1>1 DEF Fields, Audit, Rows
<1>3. <<i, "createdAt", table[i]["createdAt"]>> \in stored
    BY <1>1, <1>2 DEF Contents
<1>4. QED
    BY <1>2, <1>3 DEF Existed

(* The record new is rec with v in some fields. *)
IsSet(new, rec, fields, v) ==
    /\ new \in RecordsOf
    /\ new.id = rec.id
    /\ new.changed = rec.changed \cup fields
    /\ \A f \in Fields : new.values[f] = IF f \in fields THEN v ELSE rec.values[f]

(* The setters set the values and their flags, and nothing else. *)
LEMMA SetterLemma ==
    ASSUME NEW rec \in RecordsOf, NEW fields \in SUBSET Fields, NEW v \in Values
    PROVE  IsSet(WithFields(rec, fields, v), rec, fields, v)
<1> DEFINE values == [f \in Fields |-> IF f \in fields THEN v ELSE rec.values[f]]
           changed == rec.changed \cup fields
<1>1. values \in Rows /\ changed \in SUBSET (Fields \cup {"id"})
    BY DEF Rows, RecordsOf
<1>2. WithFields(rec, fields, v) = [rec EXCEPT !.values = values, !.changed = changed]
    BY DEF WithFields
<1>3. /\ [rec EXCEPT !.values = values, !.changed = changed] \in RecordsOf
      /\ [rec EXCEPT !.values = values, !.changed = changed].id = rec.id
      /\ [rec EXCEPT !.values = values, !.changed = changed].changed = changed
      /\ [rec EXCEPT !.values = values, !.changed = changed].values = values
    <2> HIDE DEF values, changed
    <2>1. QED
        BY <1>1 DEF RecordsOf
<1>4. QED
    BY <1>2, <1>3 DEF IsSet

(* Clearing the flags leaves id and values. *)
LEMMA UnflaggedLemma ==
    ASSUME NEW rec \in RecordsOf
    PROVE  /\ Unflagged(rec) \in RecordsOf
           /\ Unflagged(rec).id = rec.id
           /\ Unflagged(rec).changed = {}
           /\ Unflagged(rec).values = rec.values
BY DEF RecordsOf, Unflagged

(* What a request gives its fields is a value, and its own. *)
LEMMA NowLemma ==
    ASSUME TypeOK, NEW r \in Requests
    PROVE  Now(r) \in Values /\ Now(r).by = r
BY DEF TypeOK, Now, Value, Values

(* A row that a statement of r sees, and what r sees without a lock. *)
LEMMA SeenLemma ==
    ASSUME TypeOK, NEW r \in Requests, NEW i \in Ids
    PROVE  /\ Seen(r, i) \in Rows \cup {Nothing}
           /\ lock[i] = r => Seen(r, i) = pending[i]
           /\ lock[i] # r => Seen(r, i) = table[i]
BY DEF TypeOK, Seen

LEMMA InitInv == Init => RecordsInv
<1> SUFFICES ASSUME Init PROVE RecordsInv
    OBVIOUS
<1>1. Unset \in Values /\ Unset.by = Nobody
    BY RecordsAssumption DEF Unset, Value, Values
<1>2. [f \in Fields |-> Unset] \in Rows
    BY <1>1 DEF Rows
<1>3. \A i \in Ids : table[i] \in Rows \cup {Nothing}
    BY <1>2 DEF Init
<1>4. \A i \in Ids : table[i] # Nothing => Contents(i, table[i]) \in SUBSET (Ids \X Fields \X Values)
    BY <1>3 DEF Contents, Rows
<1>5. TypeOK
    <2>1. table \in [Ids -> Rows \cup {Nothing}]
        BY <1>2 DEF Init
    <2>2. stored \in SUBSET (Ids \X Fields \X Values)
        BY <1>4 DEF Init
    <2>3. QED
        BY <2>1, <2>2, RecordsAssumption DEF Init, TypeOK
<1>6. LockInv /\ CallInv /\ StoredInv
    BY DEF Init, LockInv, CallInv, StoredInv, Executing, HoldsOf
<1>7. FreshInv /\ NothingForgotten
    BY DEF Init, FreshInv, HoldsOf, NothingForgotten
<1>8. QED
    BY <1>5, <1>6, <1>7 DEF RecordsInv

-----------------------------------------------------------------------------
(* Steps that write no row                                                 *)

LEMMA BeginKeeps ==
    ASSUME RecordsInv, NEW r \in Requests, Begin(r)
    PROVE  RecordsInv'
<1>1. /\ TypeOK /\ LockInv /\ CallInv /\ StoredInv /\ FreshInv /\ NothingForgotten
      /\ phase[r] = "idle" /\ begun < MaxTransactions
      /\ phase' = [phase EXCEPT ![r] = "open"]
      /\ begun' = begun + 1
      /\ transaction' = [transaction EXCEPT ![r] = begun + 1]
      /\ UNCHANGED <<table, pending, lock, record, call, calls, stored, excused>>
    BY DEF RecordsInv, Begin, Enters, rows, history
<1>2. TypeOK'
    BY <1>1, RecordsAssumption DEF TypeOK
<1>3. LockInv'
    BY <1>1 DEF LockInv, TypeOK
<1>4. CallInv'
    <2>1. call[r] = Nothing /\ phase'[r] = "open"
        BY <1>1 DEF CallInv, TypeOK
    <2>2. \A q \in Requests \ {r} : phase'[q] = phase[q] /\ transaction'[q] = transaction[q]
        BY <1>1 DEF TypeOK
    <2>3. QED
        BY <1>1, <2>1, <2>2 DEF CallInv, Executing, HoldsOf, Now
<1>5. StoredInv' /\ FreshInv' /\ NothingForgotten'
    BY <1>1 DEF StoredInv, Contents, FreshInv, HoldsOf, Existed, NothingForgotten
<1>6. QED
    BY <1>2, <1>3, <1>4, <1>5 DEF RecordsInv

(* A generated record flags all that it sets and is alone with its id. *)
LEMMA GenerateKeeps ==
    ASSUME RecordsInv, NEW r \in Requests, NEW i \in Ids, Generate(r, i)
    PROVE  RecordsInv'
<1> DEFINE new == [id |-> i,
                   values |-> [f \in Fields |-> IF f \in Columns THEN Now(r) ELSE Unset],
                   changed |-> Columns \cup {"id"}]
<1>1. /\ TypeOK /\ LockInv /\ CallInv /\ StoredInv /\ FreshInv /\ NothingForgotten
      /\ phase[r] = "open"
      /\ \A q \in Requests : ~HoldsOf(q, i)
      /\ \A f \in Fields, v \in Values : <<i, f, v>> \notin stored
      /\ lock[i] = Nobody
      /\ record' = [record EXCEPT ![r] = new]
      /\ excused' = excused \ {r}
      /\ UNCHANGED <<table, pending, lock, phase, call, transaction, begun, calls, stored>>
    BY DEF RecordsInv, Generate, Holds, rows
<1>2. Now(r) \in Values /\ Unset \in Values /\ Unset.by = Nobody
    BY <1>1, NowLemma, RecordsAssumption DEF Unset, Value, Values
<1>3. /\ new \in RecordsOf /\ new.id = i /\ new.changed = Columns \cup {"id"}
      /\ \A f \in Fields \ Columns : new.values[f] = Unset
    BY <1>2 DEF RecordsOf, Rows, Fields
<1> HIDE DEF new
<1>4. /\ record' \in [Requests -> RecordsOf \cup {Nothing}]
      /\ record'[r] = new
      /\ \A q \in Requests \ {r} : record'[q] = record[q]
    BY <1>1, <1>3 DEF TypeOK
<1>5. TypeOK'
    BY <1>1, <1>4 DEF TypeOK
<1>6. LockInv' /\ StoredInv'
    BY <1>1 DEF LockInv, StoredInv, Contents
<1>7. CallInv'
    <2>1. call[r] = Nothing
        BY <1>1 DEF CallInv
    <2>2. QED
        BY <1>1, <1>4, <2>1 DEF CallInv, Executing, HoldsOf, Now
<1>8. FreshInv'
    <2>1. HoldsOf(r, i)' /\ \A j \in Ids : HoldsOf(r, j)' => j = i
        BY <1>3, <1>4, RecordsAssumption DEF HoldsOf
    <2>2. \A q \in Requests \ {r}, j \in Ids : HoldsOf(q, j)' <=> HoldsOf(q, j)
        BY <1>4 DEF HoldsOf
    <2>3. ~Existed(i)
        BY <1>1 DEF Existed
    <2>4. ASSUME NEW q \in Requests, NEW j \in Ids, HoldsOf(q, j)', "id" \in record'[q].changed
          PROVE  /\ \A p \in Requests \ {q} : ~HoldsOf(p, j)'
                 /\ lock'[j] = Nobody
                 /\ ~Existed(j)'
        <3>1. CASE q = r
            BY <1>1, <2>1, <2>2, <2>3, <2>4, <3>1 DEF Existed
        <3>2. CASE q # r
            <4>1. HoldsOf(q, j) /\ "id" \in record[q].changed /\ j # i
                BY <1>1, <1>4, <2>2, <2>4, <3>2
            <4>2. QED
                BY <1>1, <2>1, <2>2, <4>1 DEF FreshInv, Existed
        <3>3. QED
            BY <3>1, <3>2
    <2>5. \A j \in Ids : table'[j] = Nothing /\ pending'[j] # Nothing => ~Existed(j)'
        BY <1>1 DEF FreshInv, Existed
    <2>6. QED
        BY <2>4, <2>5 DEF FreshInv
<1>9. NothingForgotten'
    <2>1. ASSUME NEW q \in Requests, NEW j \in Ids, NEW f \in Fields, HoldsOf(q, j)',
                 record'[q].values[f].by = q, f \notin record'[q].changed, q \notin excused'
          PROVE  \/ <<j, f, record'[q].values[f]>> \in stored'
                 \/ /\ lock'[j] = q
                    /\ pending'[j] # Nothing
                    /\ pending'[j][f] = record'[q].values[f]
        <3>1. q # r
            BY <1>2, <1>3, <1>4, <2>1, RecordsAssumption
        <3>2. QED
            BY <1>1, <1>4, <2>1, <3>1 DEF NothingForgotten, HoldsOf
    <2>2. QED
        BY <2>1 DEF NothingForgotten
<1>10. QED
    BY <1>5, <1>6, <1>7, <1>8, <1>9 DEF RecordsInv

(* What is found is stored, or pending in the transaction that finds it. *)
LEMMA FindKeeps ==
    ASSUME RecordsInv, NEW r \in Requests, NEW i \in Ids, Find(r, i)
    PROVE  RecordsInv'
<1> DEFINE found == [id |-> i, values |-> Seen(r, i), changed |-> {}]
           new == IF Seen(r, i) = Nothing THEN Nothing ELSE found
<1>1. /\ TypeOK /\ LockInv /\ CallInv /\ StoredInv /\ FreshInv /\ NothingForgotten
      /\ phase[r] = "open" /\ calls[r] < MaxCalls
      /\ calls' = [calls EXCEPT ![r] = calls[r] + 1]
      /\ record' = [record EXCEPT ![r] = new]
      /\ excused' = excused \ {r}
      /\ UNCHANGED <<table, pending, lock, phase, call, transaction, begun, stored>>
    BY DEF RecordsInv, Find, Holds, rows
<1>2. \/ new = Nothing
      \/ /\ new \in RecordsOf
         /\ new.id = i /\ new.changed = {} /\ new.values = Seen(r, i)
         /\ Seen(r, i) # Nothing
    BY <1>1, SeenLemma DEF RecordsOf
<1> HIDE DEF new
<1>4. /\ record' \in [Requests -> RecordsOf \cup {Nothing}]
      /\ record'[r] = new
      /\ \A q \in Requests \ {r} : record'[q] = record[q]
    BY <1>1, <1>2 DEF TypeOK
<1>5. TypeOK'
    BY <1>1, <1>4, RecordsAssumption DEF TypeOK
<1>6. LockInv' /\ StoredInv'
    BY <1>1 DEF LockInv, StoredInv, Contents
<1>7. CallInv'
    <2>1. call[r] = Nothing
        BY <1>1 DEF CallInv
    <2>2. QED
        BY <1>1, <1>4, <2>1 DEF CallInv, Executing, HoldsOf, Now
<1>8. FreshInv'
    <2>1. \A q \in Requests \ {r}, j \in Ids : HoldsOf(q, j)' <=> HoldsOf(q, j)
        BY <1>4 DEF HoldsOf
    <2>2. ASSUME NEW q \in Requests, NEW j \in Ids, HoldsOf(q, j)', "id" \in record'[q].changed
          PROVE  /\ \A p \in Requests \ {q} : ~HoldsOf(p, j)'
                 /\ lock'[j] = Nobody
                 /\ ~Existed(j)'
        <3>1. q # r
            BY <1>2, <1>4, <2>2 DEF HoldsOf
        <3>2. HoldsOf(q, j) /\ "id" \in record[q].changed
            BY <1>4, <2>1, <2>2, <3>1
        <3>3. lock[j] = Nobody /\ ~Existed(j) /\ \A p \in Requests \ {q} : ~HoldsOf(p, j)
            BY <1>1, <3>2 DEF FreshInv
        <3>4. ~HoldsOf(r, j)'
            <4>1. lock[j] # r
                BY <3>3, RecordsAssumption
            <4>2. Seen(r, j) = Nothing
                BY <1>1, <3>3, <4>1, SeenLemma, RowsShow
            <4>3. QED
                BY <1>2, <1>4, <4>2 DEF HoldsOf
        <3>5. QED
            BY <1>1, <2>1, <3>3, <3>4 DEF Existed
    <2>3. \A j \in Ids : table'[j] = Nothing /\ pending'[j] # Nothing => ~Existed(j)'
        BY <1>1 DEF FreshInv, Existed
    <2>4. QED
        BY <2>2, <2>3 DEF FreshInv
<1>9. NothingForgotten'
    <2>1. ASSUME NEW q \in Requests, NEW j \in Ids, NEW f \in Fields, HoldsOf(q, j)',
                 record'[q].values[f].by = q, f \notin record'[q].changed, q \notin excused'
          PROVE  \/ <<j, f, record'[q].values[f]>> \in stored'
                 \/ /\ lock'[j] = q
                    /\ pending'[j] # Nothing
                    /\ pending'[j][f] = record'[q].values[f]
        <3>1. CASE q = r
            <4>1. j = i /\ record'[r].values = Seen(r, i) /\ Seen(r, i) # Nothing
                BY <1>2, <1>4, <2>1, <3>1 DEF HoldsOf
            <4>2. CASE lock[i] = r
                BY <1>1, <3>1, <4>1, <4>2, SeenLemma
            <4>3. CASE lock[i] # r
                <5>1. record'[r].values = table[i] /\ table[i] # Nothing
                    BY <1>1, <4>1, <4>3, SeenLemma
                <5>2. <<i, f, table[i][f]>> \in stored
                    BY <1>1, <5>1 DEF StoredInv, Contents
                <5>3. QED
                    BY <1>1, <3>1, <4>1, <5>1, <5>2
            <4>4. QED
                BY <4>2, <4>3
        <3>2. CASE q # r
            BY <1>1, <1>4, <2>1, <3>2 DEF NothingForgotten, HoldsOf
        <3>3. QED
            BY <3>1, <3>2
    <2>2. QED
        BY <2>1 DEF NothingForgotten
<1>10. QED
    BY <1>5, <1>6, <1>7, <1>8, <1>9 DEF RecordsInv

(* insert() and update() set fields before they call query(). *)
LEMMA CallKeeps ==
    ASSUME RecordsInv, NEW r \in Requests, NEW kind \in {"insert", "update"},
           NEW fields \in SUBSET Fields, kind = "update" => "updatedAt" \in fields,
           record[r] # Nothing, Calling(r, kind, record[r].id),
           Holds(r, WithFields(record[r], fields, Now(r)))
    PROVE  RecordsInv'
<1> DEFINE new == WithFields(record[r], fields, Now(r))
           made == [kind |-> kind, id |-> record[r].id]
<1>1. /\ TypeOK /\ LockInv /\ CallInv /\ StoredInv /\ FreshInv /\ NothingForgotten
      /\ phase[r] = "open" /\ calls[r] < MaxCalls
      /\ phase' = [phase EXCEPT ![r] = "executing"]
      /\ call' = [call EXCEPT ![r] = made]
      /\ calls' = [calls EXCEPT ![r] = calls[r] + 1]
      /\ record' = [record EXCEPT ![r] = new]
      /\ UNCHANGED <<table, pending, lock, transaction, begun, stored, excused>>
    BY DEF RecordsInv, Calling, Enters, Holds, rows, history
<1>2. record[r] \in RecordsOf /\ record[r].id \in Ids
    BY <1>1 DEF TypeOK, RecordsOf
<1>3. /\ new \in RecordsOf /\ new.id = record[r].id /\ new # Nothing
      /\ new.changed = record[r].changed \cup fields
      /\ \A f \in Fields : new.values[f] = IF f \in fields THEN Now(r) ELSE record[r].values[f]
    <2>1. Now(r) \in Values
        BY <1>1, NowLemma
    <2>2. IsSet(new, record[r], fields, Now(r))
        BY <1>2, <2>1, SetterLemma
    <2> HIDE DEF new
    <2>3. QED
        BY <2>2, RecordsAssumption DEF IsSet
<1> HIDE DEF new
<1>4. /\ record' \in [Requests -> RecordsOf \cup {Nothing}]
      /\ record'[r] = new
      /\ \A q \in Requests \ {r} : record'[q] = record[q]
    BY <1>1, <1>3 DEF TypeOK
<1>5. /\ made \in Calls /\ made # Nothing /\ made.kind = kind /\ made.id = record[r].id
      /\ call'[r] = made /\ phase'[r] = "executing"
      /\ \A q \in Requests \ {r} : call'[q] = call[q] /\ phase'[q] = phase[q]
    BY <1>1, <1>2, RecordsAssumption DEF TypeOK, Calls
<1>6. TypeOK'
    BY <1>1, <1>4, <1>5, RecordsAssumption DEF TypeOK
<1>7. LockInv' /\ StoredInv'
    BY <1>1 DEF LockInv, StoredInv, Contents, TypeOK
<1>8. CallInv'
    <2>1. "updatedAt" \in Fields
        BY DEF Fields, Audit
    <2>2. ASSUME NEW q \in Requests
          PROVE  /\ phase'[q] = "executing" <=> call'[q] # Nothing
                 /\ Executing(q, "insert")' \/ Executing(q, "update")' => HoldsOf(q, call[q].id)'
                 /\ Executing(q, "update")' =>
                        /\ "updatedAt" \in record'[q].changed
                        /\ record'[q].values["updatedAt"] = Now(q)'
        <3>1. CASE q = r
            BY <1>1, <1>3, <1>4, <1>5, <2>1, <3>1 DEF Executing, HoldsOf, Now
        <3>2. CASE q # r
            BY <1>1, <1>4, <1>5, <3>2 DEF CallInv, Executing, HoldsOf, Now
        <3>3. QED
            BY <3>1, <3>2
    <2>3. QED
        BY <2>2 DEF CallInv
<1>9. FreshInv'
    <2>1. "id" \notin Fields
        BY RecordsAssumption DEF Fields, Audit
    <2>2. \A q \in Requests, j \in Ids :
              /\ HoldsOf(q, j)' <=> HoldsOf(q, j)
              /\ HoldsOf(q, j) => ("id" \in record'[q].changed <=> "id" \in record[q].changed)
        BY <1>3, <1>4, <2>1 DEF HoldsOf
    <2>3. QED
        BY <1>1, <2>2 DEF FreshInv, Existed
<1>10. NothingForgotten'
    BY <1>1, <1>3, <1>4 DEF NothingForgotten, HoldsOf
<1>11. QED
    BY <1>6, <1>7, <1>8, <1>9, <1>10 DEF RecordsInv

LEMMA CallDeleteKeeps ==
    ASSUME RecordsInv, NEW r \in Requests, NEW i \in Ids, CallDelete(r, i)
    PROVE  RecordsInv'
<1> DEFINE made == [kind |-> "delete", id |-> i]
<1>1. /\ TypeOK /\ LockInv /\ CallInv /\ StoredInv /\ FreshInv /\ NothingForgotten
      /\ phase[r] = "open" /\ calls[r] < MaxCalls
      /\ phase' = [phase EXCEPT ![r] = "executing"]
      /\ call' = [call EXCEPT ![r] = made]
      /\ calls' = [calls EXCEPT ![r] = calls[r] + 1]
      /\ UNCHANGED <<table, pending, lock, record, transaction, begun, stored, excused>>
    BY DEF RecordsInv, CallDelete, Calling, Enters, rows, history
<1>2. /\ made \in Calls /\ made # Nothing /\ made.kind = "delete"
      /\ call'[r] = made /\ phase'[r] = "executing"
      /\ \A q \in Requests \ {r} : call'[q] = call[q] /\ phase'[q] = phase[q]
    BY <1>1, RecordsAssumption DEF TypeOK, Calls
<1>3. TypeOK'
    BY <1>1, <1>2, RecordsAssumption DEF TypeOK
<1>4. LockInv' /\ StoredInv' /\ FreshInv' /\ NothingForgotten'
    <2>1. LockInv'
        BY <1>1 DEF LockInv, TypeOK
    <2>2. StoredInv' /\ FreshInv' /\ NothingForgotten'
        BY <1>1 DEF StoredInv, Contents, FreshInv, HoldsOf, Existed, NothingForgotten
    <2>3. QED
        BY <2>1, <2>2
<1>5. CallInv'
    BY <1>1, <1>2 DEF CallInv, Executing, HoldsOf, Now
<1>6. QED
    BY <1>3, <1>4, <1>5 DEF RecordsInv

(* A statement that wrote nothing leaves the record with its flags. *)
LEMMA LostKeeps ==
    ASSUME RecordsInv, NEW r \in Requests, phase[r] = "executing",
           NEW p \in {"open", "failing"}, Enters(r, p),
           call' = [call EXCEPT ![r] = Nothing],
           UNCHANGED <<table, pending, lock, record, transaction, begun, calls, stored, excused>>
    PROVE  RecordsInv'
<1>1. /\ TypeOK /\ LockInv /\ CallInv /\ StoredInv /\ FreshInv /\ NothingForgotten
      /\ phase' = [phase EXCEPT ![r] = p]
    BY DEF RecordsInv, Enters
<1>2. TypeOK'
    BY <1>1 DEF TypeOK
<1>3. LockInv' /\ StoredInv' /\ FreshInv' /\ NothingForgotten'
    <2>1. LockInv'
        BY <1>1 DEF LockInv, TypeOK
    <2>2. StoredInv' /\ FreshInv' /\ NothingForgotten'
        BY <1>1 DEF StoredInv, Contents, FreshInv, HoldsOf, Existed, NothingForgotten
    <2>3. QED
        BY <2>1, <2>2
<1>4. CallInv'
    <2>1. call'[r] = Nothing /\ phase'[r] = p
          /\ \A q \in Requests \ {r} : call'[q] = call[q] /\ phase'[q] = phase[q]
        BY <1>1 DEF TypeOK
    <2>2. QED
        BY <1>1, <2>1 DEF CallInv, Executing, HoldsOf, Now
<1>5. QED
    BY <1>2, <1>3, <1>4 DEF RecordsInv

-----------------------------------------------------------------------------
(* Steps that write a row                                                  *)

(* A statement of r that writes the row i; the record of r is new then. *)
LEMMA WritesKeeps ==
    ASSUME RecordsInv, NEW r \in Requests, phase[r] = "executing",
           NEW i \in Ids, NEW row \in Rows \cup {Nothing}, Writes(r, i, row),
           lock[i] \in {r, Nobody},
           row # Nothing => Seen(r, i) # Nothing \/ ~Existed(i),
           \A q \in Requests \ {r} : HoldsOf(q, i) => "id" \notin record[q].changed,
           NEW new \in RecordsOf \cup {Nothing}, Holds(r, new),
           excused' \in SUBSET Requests, \A q \in Requests \ {r} : q \in excused' <=> q \in excused,
           \A j \in Ids : new # Nothing /\ new.id = j => HoldsOf(r, j),
           HoldsOf(r, i) => "id" \notin new.changed,
           \A j \in Ids : HoldsOf(r, j) /\ "id" \in new.changed => "id" \in record[r].changed,
           \A j \in Ids, f \in Fields :
               /\ HoldsOf(r, j)
               /\ new.values[f].by = r /\ f \notin new.changed /\ r \notin excused'
               => \/ <<j, f, new.values[f]>> \in stored
                  \/ j # i /\ lock[j] = r /\ pending[j] # Nothing /\ pending[j][f] = new.values[f]
                  \/ j = i /\ row # Nothing /\ row[f] = new.values[f]
    PROVE  RecordsInv'
<1>1. /\ TypeOK /\ LockInv /\ CallInv /\ StoredInv /\ FreshInv /\ NothingForgotten
      /\ lock' = [lock EXCEPT ![i] = r]
      /\ pending' = [pending EXCEPT ![i] = row]
      /\ phase' = [phase EXCEPT ![r] = "open"]
      /\ call' = [call EXCEPT ![r] = Nothing]
      /\ record' = [record EXCEPT ![r] = new]
      /\ UNCHANGED <<table, transaction, begun, calls, stored>>
    BY DEF RecordsInv, Writes, Enters, Holds
<1>2. /\ lock'[i] = r /\ pending'[i] = row
      /\ \A j \in Ids \ {i} : lock'[j] = lock[j] /\ pending'[j] = pending[j]
      /\ phase'[r] = "open" /\ call'[r] = Nothing /\ record'[r] = new
      /\ \A q \in Requests \ {r} :
             phase'[q] = phase[q] /\ call'[q] = call[q] /\ record'[q] = record[q]
    BY <1>1 DEF TypeOK
<1>3. TypeOK'
    BY <1>1 DEF TypeOK
<1>4. LockInv' /\ StoredInv'
    <2>1. r # Nobody
        BY RecordsAssumption
    <2>2. LockInv'
        BY <1>1, <1>2, <2>1 DEF LockInv, TypeOK
    <2>3. StoredInv'
        BY <1>1 DEF StoredInv, Contents
    <2>4. QED
        BY <2>2, <2>3
<1>5. CallInv'
    BY <1>1, <1>2 DEF CallInv, Executing, HoldsOf, Now
<1>6. FreshInv'
    <2>1. \A q \in Requests, j \in Ids : HoldsOf(q, j)' => HoldsOf(q, j)
        BY <1>2 DEF HoldsOf
    <2>2. ASSUME NEW q \in Requests, NEW j \in Ids, HoldsOf(q, j)', "id" \in record'[q].changed
          PROVE  /\ \A p \in Requests \ {q} : ~HoldsOf(p, j)'
                 /\ lock'[j] = Nobody
                 /\ ~Existed(j)'
        <3>1. HoldsOf(q, j) /\ "id" \in record[q].changed
            BY <1>2, <2>1, <2>2
        <3>2. j # i
            BY <1>2, <2>1, <2>2, <3>1
        <3>3. QED
            BY <1>1, <1>2, <2>1, <3>1, <3>2 DEF FreshInv, Existed
    <2>3. ASSUME NEW j \in Ids, table'[j] = Nothing, pending'[j] # Nothing
          PROVE  ~Existed(j)'
        <3>1. CASE j = i
            <4>1. Seen(r, i) # Nothing => pending[i] # Nothing
                BY <1>1, <2>3, <3>1, SeenLemma
            <4>2. QED
                BY <1>1, <1>2, <2>3, <3>1, <4>1 DEF FreshInv, Existed
        <3>2. CASE j # i
            BY <1>1, <1>2, <2>3, <3>2 DEF FreshInv, Existed
        <3>3. QED
            BY <3>1, <3>2
    <2>4. QED
        BY <2>2, <2>3 DEF FreshInv
<1>7. NothingForgotten'
    <2>1. ASSUME NEW q \in Requests, NEW j \in Ids, NEW f \in Fields, HoldsOf(q, j)',
                 record'[q].values[f].by = q, f \notin record'[q].changed, q \notin excused'
          PROVE  \/ <<j, f, record'[q].values[f]>> \in stored'
                 \/ /\ lock'[j] = q
                    /\ pending'[j] # Nothing
                    /\ pending'[j][f] = record'[q].values[f]
        <3>1. CASE q = r
            <4>1. HoldsOf(r, j) /\ record'[r] = new
                BY <1>2, <2>1, <3>1 DEF HoldsOf
            <4>2. QED
                BY <1>1, <1>2, <2>1, <3>1, <4>1
        <3>2. CASE q # r
            <4>1. HoldsOf(q, j) /\ record'[q] = record[q] /\ q \notin excused
                BY <1>2, <2>1, <3>2 DEF HoldsOf
            <4>2. \/ <<j, f, record[q].values[f]>> \in stored
                  \/ /\ lock[j] = q
                     /\ pending[j] # Nothing
                     /\ pending[j][f] = record[q].values[f]
                BY <1>1, <2>1, <4>1 DEF NothingForgotten
            <4>3. lock[j] = q => j # i
                BY <3>2, RecordsAssumption
            <4>4. QED
                BY <1>1, <1>2, <4>1, <4>2, <4>3
        <3>3. QED
            BY <3>1, <3>2
    <2>2. QED
        BY <2>1 DEF NothingForgotten
<1>8. QED
    BY <1>3, <1>4, <1>5, <1>6, <1>7 DEF RecordsInv

(* Nobody else has a record of a row that is not there yet; and a record   *)
(* of a row that a statement sees was written.                             *)
LEMMA InsertKeeps ==
    ASSUME RecordsInv, NEW r \in Requests, Insert(r)
    PROVE  RecordsInv'
<1> DEFINE i == call[r].id
           new == Unflagged(record[r])
           row == record[r].values
<1>1. /\ TypeOK /\ CallInv /\ FreshInv
      /\ phase[r] = "executing" /\ call[r].kind = "insert" /\ Complete(record[r])
      /\ Writes(r, i, row) /\ Holds(r, new)
      /\ excused' = excused
    BY DEF RecordsInv, Insert, Executing
<1>2. call[r] # Nothing /\ call[r] \in Calls /\ i \in Ids /\ HoldsOf(r, i)
    <2>1. call[r] # Nothing /\ HoldsOf(r, i)
        BY <1>1 DEF CallInv, Executing
    <2>2. call[r] \in Calls
        BY <1>1, <2>1 DEF TypeOK
    <2>3. QED
        BY <2>1, <2>2 DEF Calls
<1>3. record[r] \in RecordsOf /\ record[r].id = i /\ "id" \in record[r].changed
    BY <1>1, <1>2 DEF TypeOK, HoldsOf, Complete
<1>4. row \in Rows /\ row # Nothing
    BY <1>3, RecordsAssumption DEF RecordsOf
<1>5. /\ lock[i] = Nobody /\ ~Existed(i)
      /\ \A q \in Requests \ {r} : ~HoldsOf(q, i)
    BY <1>1, <1>2, <1>3 DEF FreshInv
<1>6. new \in RecordsOf /\ new.id = i /\ new.changed = {} /\ new.values = row /\ new # Nothing
    BY <1>3, UnflaggedLemma, RecordsAssumption
<1>7. excused \in SUBSET Requests
    BY <1>1 DEF TypeOK
<1> HIDE DEF i, new, row
<1>8. \A j \in Ids : HoldsOf(r, j) => j = i
    BY <1>3 DEF HoldsOf
<1>9. QED
    BY <1>1, <1>2, <1>4, <1>5, <1>6, <1>7, <1>8, WritesKeeps

LEMMA UpdateKeeps ==
    ASSUME RecordsInv, NEW r \in Requests, Update(r)
    PROVE  RecordsInv'
<1> DEFINE i == call[r].id
           rec == record[r]
           new == Unflagged(rec)
           row == [f \in Fields |-> IF f \in rec.changed THEN rec.values[f] ELSE Seen(r, i)[f]]
<1>1. /\ TypeOK /\ LockInv /\ CallInv /\ FreshInv /\ NothingForgotten
      /\ phase[r] = "executing" /\ call[r].kind = "update" /\ ~Waits(r)
      /\ Seen(r, i) # Nothing
      /\ Writes(r, i, row) /\ Holds(r, new)
      /\ excused' = excused
    BY DEF RecordsInv, Update, Executing
<1>2. call[r] # Nothing /\ call[r] \in Calls /\ i \in Ids /\ HoldsOf(r, i)
    <2>1. call[r] # Nothing /\ HoldsOf(r, i)
        BY <1>1 DEF CallInv, Executing
    <2>2. call[r] \in Calls
        BY <1>1, <2>1 DEF TypeOK
    <2>3. QED
        BY <2>1, <2>2 DEF Calls
<1>3. rec \in RecordsOf /\ rec.id = i
    BY <1>1, <1>2 DEF TypeOK, HoldsOf
<1>4. Seen(r, i) \in Rows
    BY <1>1, <1>2, SeenLemma
<1>5. row \in Rows /\ row # Nothing
    BY <1>3, <1>4, RecordsAssumption DEF RecordsOf, Rows
<1>6. lock[i] \in {r, Nobody}
    BY <1>1, <1>2, SeenLemma DEF Waits, Executing, TypeOK
<1>7. new \in RecordsOf /\ new.id = i /\ new.changed = {} /\ new.values = rec.values /\ new # Nothing
    BY <1>3, UnflaggedLemma, RecordsAssumption
<1>8. excused \in SUBSET Requests
    BY <1>1 DEF TypeOK
<1>9. \A q \in Requests \ {r} : HoldsOf(q, i) => "id" \notin record[q].changed
    BY <1>1, <1>2 DEF FreshInv
<1>10. \A j \in Ids : HoldsOf(r, j) => j = i
    BY <1>3 DEF HoldsOf
<1>11. ASSUME NEW f \in Fields, rec.values[f].by = r, r \notin excused
       PROVE  <<i, f, rec.values[f]>> \in stored \/ row[f] = rec.values[f]
    <2>1. CASE f \in rec.changed
        BY <2>1
    <2>2. CASE f \notin rec.changed
        <3>1. \/ <<i, f, rec.values[f]>> \in stored
              \/ lock[i] = r /\ pending[i] # Nothing /\ pending[i][f] = rec.values[f]
            BY <1>1, <1>2, <1>11, <2>2 DEF NothingForgotten
        <3>2. QED
            BY <1>1, <1>2, <2>2, <3>1, SeenLemma
    <2>3. QED
        BY <2>1, <2>2
<1> HIDE DEF i, new, row, rec
<1>12. QED
    BY <1>1, <1>2, <1>5, <1>6, <1>7, <1>8, <1>9, <1>10, <1>11, WritesKeeps

LEMMA DeleteKeeps ==
    ASSUME RecordsInv, NEW r \in Requests, Delete(r)
    PROVE  RecordsInv'
<1> DEFINE i == call[r].id
<1>1. /\ TypeOK /\ LockInv /\ CallInv /\ FreshInv /\ NothingForgotten /\ StoredInv
      /\ phase[r] = "executing" /\ call[r].kind = "delete" /\ ~Waits(r)
      /\ Seen(r, i) # Nothing
      /\ Writes(r, i, Nothing)
      /\ excused' = (IF HoldsOf(r, i) THEN excused \cup {r} ELSE excused)
      /\ UNCHANGED record
    BY DEF RecordsInv, Delete, Executing
<1>2. call[r] # Nothing /\ call[r] \in Calls /\ i \in Ids
    <2>1. call[r] # Nothing
        BY <1>1 DEF CallInv
    <2>2. call[r] \in Calls
        BY <1>1, <2>1 DEF TypeOK
    <2>3. QED
        BY <2>1, <2>2 DEF Calls
<1>3. lock[i] \in {r, Nobody}
    BY <1>1, <1>2, SeenLemma DEF Waits, Executing, TypeOK
<1>4. record[r] \in RecordsOf \cup {Nothing} /\ Holds(r, record[r]) /\ excused \in SUBSET Requests
    BY <1>1 DEF TypeOK, Holds
<1>5. lock[i] = r \/ Existed(i)
    BY <1>1, <1>2, SeenLemma, RowsShow
<1>6. \A q \in Requests : HoldsOf(q, i) => "id" \notin record[q].changed
    BY <1>1, <1>2, <1>5, RecordsAssumption DEF FreshInv
<1>7. \A j \in Ids : record[r] # Nothing /\ record[r].id = j <=> HoldsOf(r, j)
    BY DEF HoldsOf
<1>8. ASSUME NEW j \in Ids, NEW f \in Fields, HoldsOf(r, j), record[r].values[f].by = r,
             f \notin record[r].changed, r \notin excused'
      PROVE  \/ <<j, f, record[r].values[f]>> \in stored
             \/ /\ j # i /\ lock[j] = r /\ pending[j] # Nothing
                /\ pending[j][f] = record[r].values[f]
    BY <1>1, <1>8 DEF NothingForgotten
<1> HIDE DEF i
<1>9. QED
    BY <1>1, <1>2, <1>3, <1>4, <1>6, <1>7, <1>8, WritesKeeps

-----------------------------------------------------------------------------
(* The end of a transaction                                                *)

LEMMA CommitKeeps ==
    ASSUME RecordsInv, NEW r \in Requests, Commit(r)
    PROVE  RecordsInv'
<1>1. /\ TypeOK /\ LockInv /\ CallInv /\ StoredInv /\ FreshInv /\ NothingForgotten
      /\ phase[r] = "open"
      /\ phase' = [phase EXCEPT ![r] = "idle"]
      /\ lock' = [i \in Ids |-> IF lock[i] = r THEN Nobody ELSE lock[i]]
      /\ calls' = [calls EXCEPT ![r] = 0]
      /\ table' = [i \in Ids |-> IF lock[i] = r THEN pending[i] ELSE table[i]]
      /\ stored' = stored \cup UNION
             {Contents(i, pending[i]) : i \in {j \in Locked(r) : pending[j] # Nothing}}
      /\ UNCHANGED <<pending, record, call, transaction, begun, excused>>
    BY DEF RecordsInv, Commit, EndsTransaction, Enters
<1>2. \A i \in Ids : lock[i] = r /\ pending[i] # Nothing => Contents(i, pending[i]) \subseteq stored'
    BY <1>1 DEF Locked
<1>3. \A i \in Ids, f \in Fields : \A v : <<i, f, v>> \in stored' =>
          <<i, f, v>> \in stored \/ (lock[i] = r /\ pending[i] # Nothing)
    BY <1>1 DEF Locked, Contents
<1>4. stored \subseteq stored'
    BY <1>1
<1>5. TypeOK'
    <2>1. \A i \in Ids : pending[i] # Nothing => Contents(i, pending[i]) \subseteq Ids \X Fields \X Values
        BY <1>1 DEF TypeOK, Contents, Rows
    <2>2. stored' \in SUBSET (Ids \X Fields \X Values)
        BY <1>1, <2>1 DEF TypeOK, Locked
    <2>3. table' \in [Ids -> Rows \cup {Nothing}] /\ lock' \in [Ids -> Requests \cup {Nobody}]
        BY <1>1 DEF TypeOK
    <2>4. calls' \in [Requests -> 0 .. MaxCalls]
        BY <1>1, RecordsAssumption DEF TypeOK
    <2>5. phase' \in [Requests -> {"idle", "open", "executing", "failing"}]
        BY <1>1 DEF TypeOK
    <2>6. QED
        BY <1>1, <2>2, <2>3, <2>4, <2>5 DEF TypeOK
<1>6. LockInv'
    BY <1>1 DEF LockInv, TypeOK
<1>7. CallInv'
    BY <1>1 DEF CallInv, Executing, HoldsOf, Now, TypeOK
<1>8. StoredInv'
    <2>1. \A i \in Ids : table'[i] = IF lock[i] = r THEN pending[i] ELSE table[i]
        BY <1>1
    <2>2. \A i \in Ids : table[i] # Nothing => Contents(i, table[i]) \subseteq stored
        BY <1>1 DEF StoredInv
    <2>3. ASSUME NEW i \in Ids, table'[i] # Nothing
          PROVE  Contents(i, table'[i]) \subseteq stored'
        BY <1>2, <1>4, <2>1, <2>2, <2>3
    <2>4. ASSUME NEW i \in Ids, table'[i] # Nothing
          PROVE  Contents(i, table[i])' \subseteq stored'
        BY <2>3, <2>4 DEF Contents
    <2>5. QED
        BY <2>4 DEF StoredInv
<1>9. FreshInv'
    <2>1. \A i \in Ids : Existed(i)' => Existed(i) \/ (lock[i] = r /\ pending[i] # Nothing)
        BY <1>3 DEF Existed
    <2>2. r # Nobody
        BY RecordsAssumption
    <2>3. \A q \in Requests, i \in Ids : HoldsOf(q, i)' <=> HoldsOf(q, i)
        BY <1>1 DEF HoldsOf
    <2>4. QED
        BY <1>1, <2>1, <2>2, <2>3 DEF FreshInv
<1>10. NothingForgotten'
    <2>1. ASSUME NEW q \in Requests, NEW j \in Ids, NEW f \in Fields, HoldsOf(q, j),
                 record[q].values[f].by = q, f \notin record[q].changed, q \notin excused
          PROVE  \/ <<j, f, record[q].values[f]>> \in stored'
                 \/ /\ lock'[j] = q
                    /\ pending[j] # Nothing
                    /\ pending[j][f] = record[q].values[f]
        <3>1. \/ <<j, f, record[q].values[f]>> \in stored
              \/ /\ lock[j] = q
                 /\ pending[j] # Nothing
                 /\ pending[j][f] = record[q].values[f]
            BY <1>1, <2>1 DEF NothingForgotten
        <3>2. CASE lock[j] = r /\ pending[j] # Nothing /\ pending[j][f] = record[q].values[f]
            <4>1. <<j, f, pending[j][f]>> \in Contents(j, pending[j])
                BY DEF Contents
            <4>2. QED
                BY <1>2, <3>2, <4>1
        <3>3. CASE q # r
            BY <1>1, <1>4, <3>1, <3>3
        <3>4. QED
            BY <1>4, <3>1, <3>2, <3>3
    <2>2. QED
        BY <1>1, <2>1 DEF NothingForgotten, HoldsOf
<1>11. QED
    BY <1>5, <1>6, <1>7, <1>8, <1>9, <1>10 DEF RecordsInv

LEMMA RollbackKeeps ==
    ASSUME RecordsInv, NEW r \in Requests, Rollback(r)
    PROVE  RecordsInv'
<1>1. /\ TypeOK /\ LockInv /\ CallInv /\ StoredInv /\ FreshInv /\ NothingForgotten
      /\ phase[r] \in {"open", "failing"}
      /\ phase' = [phase EXCEPT ![r] = "idle"]
      /\ lock' = [i \in Ids |-> IF lock[i] = r THEN Nobody ELSE lock[i]]
      /\ calls' = [calls EXCEPT ![r] = 0]
      /\ pending' = [i \in Ids |-> IF lock[i] = r THEN table[i] ELSE pending[i]]
      /\ excused' = excused \cup {q \in {r} : record[q] # Nothing /\ lock[record[q].id] = q}
      /\ UNCHANGED <<table, record, call, transaction, begun, stored>>
    BY DEF RecordsInv, Rollback, EndsTransaction, Enters
<1>2. TypeOK'
    <2>1. calls' \in [Requests -> 0 .. MaxCalls]
        BY <1>1, RecordsAssumption DEF TypeOK
    <2>2. QED
        BY <1>1, <2>1 DEF TypeOK
<1>3. LockInv'
    BY <1>1 DEF LockInv, TypeOK
<1>4. CallInv'
    BY <1>1 DEF CallInv, Executing, HoldsOf, Now, TypeOK
<1>5. StoredInv' /\ FreshInv'
    BY <1>1 DEF StoredInv, Contents, FreshInv, HoldsOf, Existed
<1>6. NothingForgotten'
    <2>1. ASSUME NEW q \in Requests, NEW j \in Ids, HoldsOf(q, j), q \notin excused'
          PROVE  q \notin excused /\ (lock[j] = q => lock'[j] = q /\ pending'[j] = pending[j])
        <3>1. q \notin excused /\ record[q] # Nothing /\ record[q].id = j
            BY <1>1, <2>1 DEF HoldsOf
        <3>2. q = r => lock[j] # r
            BY <1>1, <2>1, <3>1
        <3>3. QED
            BY <1>1, <3>1, <3>2
    <2>2. QED
        BY <1>1, <2>1 DEF NothingForgotten, HoldsOf
<1>7. QED
    BY <1>2, <1>3, <1>4, <1>5, <1>6 DEF RecordsInv

LEMMA StepInv == RecordsInv /\ [Next]_vars => RecordsInv'
<1> SUFFICES ASSUME RecordsInv, [Next]_vars PROVE RecordsInv'
    OBVIOUS
<1>1. CASE UNCHANGED vars
    <2>1. TypeOK' /\ LockInv'
        BY <1>1 DEF vars, RecordsInv, TypeOK, LockInv
    <2>2. CallInv' /\ StoredInv'
        BY <1>1 DEF vars, RecordsInv, CallInv, Executing, HoldsOf, Now, StoredInv, Contents
    <2>3. FreshInv' /\ NothingForgotten'
        BY <1>1 DEF vars, RecordsInv, FreshInv, HoldsOf, Existed, NothingForgotten
    <2>4. QED
        BY <2>1, <2>2, <2>3 DEF RecordsInv
<1>2. ASSUME NEW r \in Requests, Block(r)
      PROVE  RecordsInv'
    <2>1. CASE CallInsert(r)
        <3>1. {"createdAt"} \in SUBSET Fields
            BY DEF Fields, Audit
        <3>2. QED
            BY <2>1, <3>1, CallKeeps DEF CallInsert
    <2>2. ASSUME NEW fields \in SUBSET Columns, CallUpdate(r, fields)
          PROVE  RecordsInv'
        <3>1. fields \cup {"updatedAt"} \in SUBSET Fields
            BY DEF Fields, Audit
        <3>2. QED
            BY <2>2, <3>1, CallKeeps DEF CallUpdate
    <2>3. QED
        BY <1>2, <2>1, <2>2, GenerateKeeps, FindKeeps, CallDeleteKeeps DEF Block
<1>3. ASSUME NEW r \in Requests, StatementFails(r)
      PROVE  RecordsInv'
    BY <1>3, LostKeeps DEF StatementFails, rows, history
<1>4. ASSUME NEW r \in Requests, NoRow(r)
      PROVE  RecordsInv'
    BY <1>4, LostKeeps DEF NoRow, Executing, rows, history
<1>5. ASSUME NEW r \in Requests, Execute(r) \/ BreakDeadlock(r) \/ Ends(r)
      PROVE  RecordsInv'
    BY <1>3, <1>4, <1>5, InsertKeeps, UpdateKeeps, DeleteKeeps, CommitKeeps, RollbackKeeps
       DEF Execute, RefuseIncomplete, BreakDeadlock, Ends
<1>6. QED
    BY <1>1, <1>2, <1>3, <1>5, BeginKeeps DEF Next, Terminated

-----------------------------------------------------------------------------
(* The theorems                                                            *)

(* Locks, calls, records and rows belong together, and nothing is lost     *)
(* that a record does not flag.                                            *)
THEOREM Invariance == Spec => []RecordsInv
BY InitInv, StepInv, PTL DEF Spec

(* What a record does not flag any more is stored, or in the transaction.  *)
THEOREM FlagsAreKept == Spec => []NothingForgotten
<1>1. RecordsInv => NothingForgotten
    BY DEF RecordsInv
<1>2. QED
    BY <1>1, Invariance, PTL

(* Only a commit changes a table. *)
LEMMA OnlyCommits ==
    ASSUME NEW r \in Requests,
           Begin(r) \/ Block(r) \/ Execute(r) \/ StatementFails(r) \/ BreakDeadlock(r) \/ Ends(r)
    PROVE  Commit(r) \/ UNCHANGED table
<1>1. CASE Begin(r) \/ Block(r)
    BY <1>1 DEF Begin, Block, Generate, Find, CallDelete, CallInsert, CallUpdate, Calling, rows
<1>2. CASE Execute(r) \/ StatementFails(r) \/ BreakDeadlock(r)
    BY <1>2 DEF Execute, Insert, RefuseIncomplete, Update, Delete, NoRow, StatementFails,
                BreakDeadlock, Writes, rows
<1>3. CASE Ends(r)
    BY <1>3 DEF Ends, Rollback
<1>4. QED
    BY <1>1, <1>2, <1>3

(* A step may take a row away for good, and never brings it back.          *)
LEMMA GoneStaysGone ==
    ASSUME RecordsInv, [Next]_vars, NEW i \in Ids, Existed(i), table[i] = Nothing
    PROVE  table'[i] = Nothing
<1>1. TypeOK /\ FreshInv
    BY DEF RecordsInv
<1>2. ASSUME NEW r \in Requests, Commit(r)
      PROVE  table'[i] = Nothing
    BY <1>1, <1>2 DEF Commit, FreshInv
<1>3. QED
    BY <1>2, OnlyCommits DEF Next, Terminated, vars

(* No record that is still held brings a deleted row back.                 *)
THEOREM DeletedRowsStayDeleted == Spec => DeletedStaysDeleted
<1>1. RecordsInv /\ [Next]_vars =>
          [\A i \in Ids : Existed(i) /\ table[i] = Nothing => table'[i] = Nothing]_vars
    BY GoneStaysGone
<1>2. QED
    BY <1>1, Invariance, PTL DEF Spec, DeletedStaysDeleted

-----------------------------------------------------------------------------
(* Waiting                                                                 *)

Holder(q) == lock[call[q].id]

(* A request that waits does so for one that has a transaction. *)
LEMMA HoldersAreOpen ==
    ASSUME RecordsInv, NEW q \in Requests, Waits(q)
    PROVE  Holder(q) \in Requests /\ phase[q] # "idle" /\ phase[Holder(q)] # "idle"
<1>1. TypeOK /\ LockInv /\ CallInv
    BY DEF RecordsInv
<1>2. phase[q] = "executing"
    BY DEF Waits, Executing
<1>3. call[q] \in Calls
    BY <1>1, <1>2 DEF TypeOK, CallInv
<1>4. call[q].id \in Ids
    BY <1>3 DEF Calls
<1>5. Holder(q) \in Requests
    BY <1>1, <1>4 DEF TypeOK, Waits, Holder
<1>6. phase[Holder(q)] # "idle"
    BY <1>1, <1>4, <1>5, RecordsAssumption DEF LockInv, Holder
<1>7. QED
    BY <1>2, <1>5, <1>6

(* Where finitely many requests wait, and only for one another, some of     *)
(* them wait in a circle: a smallest set of them that is closed.            *)
LEMMA CircleExists ==
    ASSUME NEW B \in SUBSET Requests, IsFiniteSet(B), B # {}, Closed(B), \A q \in B : Waits(q)
    PROVE  \E q \in B : Deadlocked(q)
<1> DEFINE T == {S \in SUBSET B : S # {} /\ Closed(S)}
           R == StrictSubsetOrdering(B)
<1>1. IsWellFoundedOn(R, SUBSET B)
    BY FS_StrictSubsetOrderingWellFounded, FS_FiniteSubsetsOfFinite
<1>2. T \subseteq SUBSET B /\ B \in T
    OBVIOUS
<1>3. \E S \in T : \A U \in T : ~(<<U, S>> \in R)
    <2>1. T # {}
        BY <1>2
    <2> HIDE DEF T, R
    <2>2. QED
        BY <1>1, <1>2, <2>1, WFMin
<1>4. PICK S \in T : \A U \in T : ~(<<U, S>> \in R)
    BY <1>3
<1> DEFINE image == {lock[call[q].id] : q \in S}
<1>5. /\ S \subseteq B /\ S # {}
      /\ \A q \in S : Waits(q) /\ lock[call[q].id] \in S
    BY <1>4 DEF Closed
<1>6. image \subseteq S /\ image # {}
    BY <1>5
<1>7. image \in T
    <2>1. \A q \in image : q \in S
        BY <1>6
    <2>2. \A q \in S : lock[call[q].id] \in image
        OBVIOUS
    <2>3. \A q \in image : lock[call[q].id] \in image
        BY <2>1, <2>2
    <2>4. Closed(image)
        BY <2>3 DEF Closed
    <2>5. QED
        BY <1>5, <1>6, <2>4
<1>8. image = S
    <2>1. ~(<<image, S>> \in R)
        BY <1>4, <1>7
    <2>2. <<image, S>> \in (SUBSET B) \X (SUBSET B)
        BY <1>5, <1>6
    <2> HIDE DEF image, T
    <2>3. QED
        BY <1>6, <2>1, <2>2 DEF StrictSubsetOrdering
<1>9. PICK q \in S : TRUE
    BY <1>5
<1>10. Deadlocked(q)
    <2>1. S \in SUBSET Requests
        BY <1>5
    <2>2. QED
        BY <1>5, <1>8, <1>9, <2>1 DEF Deadlocked
<1>11. QED
    BY <1>5, <1>9, <1>10

LEMMA ChainsEnd ==
    ASSUME RecordsInv, IsFiniteSet(Requests), NEW r \in Requests, Waits(r)
    PROVE  \E q \in HeldUpBy(r) : phase[q] # "idle" /\ (~Waits(q) \/ Deadlocked(q))
<1> DEFINE B == HeldUpBy(r)
           Open == {q \in B : phase[q] # "idle"}
<1>1. B \in SUBSET Requests /\ r \in B
    BY DEF HeldUpBy
<1>2. ASSUME NEW q \in B, Waits(q)
      PROVE  Holder(q) \in B
    <2>1. Holder(q) \in Requests
        BY <1>1, <1>2, HoldersAreOpen
    <2>2. ASSUME NEW S \in SUBSET Requests, r \in S, Closed(S)
          PROVE  Holder(q) \in S
        BY <1>2, <2>2 DEF HeldUpBy, Closed, Holder
    <2>3. QED
        BY <2>1, <2>2 DEF HeldUpBy
<1> HIDE DEF B
<1>3. r \in Open /\ Open \in SUBSET Requests
    BY <1>1, HoldersAreOpen
<1>4. ASSUME NEW q \in Open, Waits(q)
      PROVE  Holder(q) \in Open
    BY <1>1, <1>2, <1>4, HoldersAreOpen
<1>5. Closed(Open)
    BY <1>4 DEF Closed, Holder
<1>6. IsFiniteSet(Open)
    BY <1>3, FS_Subset
<1>7. CASE \A q \in Open : Waits(q)
    BY <1>3, <1>5, <1>6, <1>7, CircleExists DEF B
<1>8. CASE \E q \in Open : ~Waits(q)
    BY <1>8 DEF B
<1>9. QED
    BY <1>7, <1>8

(* However many requests wait for one another's rows, each of them waits,   *)
(* in the end, for one that can go on or for a circle that is broken.       *)
THEOREM DeadlockDetectionSuffices ==
    IsFiniteSet(Requests) => (Spec => []NobodyIsStuck)
<1> SUFFICES ASSUME IsFiniteSet(Requests) PROVE Spec => []NobodyIsStuck
    OBVIOUS
<1>1. RecordsInv => NobodyIsStuck
    BY ChainsEnd DEF NobodyIsStuck
<1>2. QED
    BY <1>1, Invariance, PTL
=============================================================================
