----------------------- MODULE DatabaseServiceProofs -----------------------
(***************************************************************************)
(* Proofs about DatabaseService, for any requests, pool and threads.       *)
(*                                                                         *)
(* A step leaves the scopes of every request alone, or enters one, or      *)
(* leaves the innermost one.  Each of the three has lemmas for the parts   *)
(* of the invariant that speak of scopes and rows; what is left of a step  *)
(* concerns its connections and phases.                                    *)
(***************************************************************************)
EXTENDS DatabaseService, FiniteSetTheorems, TLAPS

LEMMA Stacks ==
    ASSUME TypeOK, NEW r \in Requests
    PROVE  /\ Len(stack[r]) \in Nat
           /\ DOMAIN stack[r] = 1 .. Len(stack[r])
           /\ \A i \in DOMAIN stack[r] : stack[r][i] \in Scopes
           /\ stack[r] = <<>> <=> Len(stack[r]) = 0
BY DEF TypeOK

(* The innermost scope. *)
LEMMA Innermost ==
    ASSUME TypeOK, NEW r \in Requests, InTransaction(r)
    PROVE  /\ Len(stack[r]) \in DOMAIN stack[r]
           /\ Current(r) = stack[r][Len(stack[r])]
           /\ Current(r) \in Scopes
BY Stacks DEF InTransaction, Current, Last

Others(r) == \A q \in Requests \ {r} : stack'[q] = stack[q]

(* r enters a scope. *)
Grows(r, scope) ==
    /\ stack' \in [Requests -> Seq(Scopes)]
    /\ Others(r)
    /\ Len(stack'[r]) = Len(stack[r]) + 1
    /\ \A i \in 1 .. Len(stack[r]) : stack'[r][i] = stack[r][i]
    /\ stack'[r][Len(stack[r]) + 1] = scope

(* r leaves its innermost scope. *)
Shrinks(r) ==
    /\ stack' \in [Requests -> Seq(Scopes)]
    /\ Others(r)
    /\ Len(stack[r]) \in Nat \ {0}
    /\ Len(stack'[r]) = Len(stack[r]) - 1
    /\ \A i \in 1 .. (Len(stack[r]) - 1) : stack'[r][i] = stack[r][i]

LEMMA Pushing ==
    ASSUME TypeOK, NEW r \in Requests, NEW scope \in Scopes, Push(r, scope)
    PROVE  Grows(r, scope)
<1>1. /\ stack \in [Requests -> Seq(Scopes)]
      /\ stack' = [stack EXCEPT ![r] = Append(stack[r], scope)]
    BY DEF TypeOK, Push
<1>2. stack[r] \in Seq(Scopes) /\ stack'[r] = Append(stack[r], scope)
    BY <1>1
<1>3. Others(r) /\ stack' \in [Requests -> Seq(Scopes)]
    BY <1>1, <1>2 DEF Others
<1>4. QED
    BY <1>2, <1>3 DEF Grows

LEMMA Popping ==
    ASSUME TypeOK, NEW r \in Requests, InTransaction(r), Pop(r)
    PROVE  Shrinks(r)
<1>1. /\ stack \in [Requests -> Seq(Scopes)]
      /\ stack' = [stack EXCEPT ![r] = SubSeq(stack[r], 1, Len(stack[r]) - 1)]
    BY DEF TypeOK, Pop, Front
<1>2. stack[r] \in Seq(Scopes) /\ stack'[r] = SubSeq(stack[r], 1, Len(stack[r]) - 1)
    BY <1>1
<1>3. Len(stack[r]) \in Nat \ {0}
    BY <1>2 DEF InTransaction
<1>4. /\ stack'[r] \in Seq(Scopes)
      /\ Len(stack'[r]) = Len(stack[r]) - 1
      /\ \A i \in 1 .. (Len(stack[r]) - 1) : stack'[r][i] = stack[r][i]
    BY <1>2, <1>3
<1>5. Others(r) /\ stack' \in [Requests -> Seq(Scopes)]
    BY <1>1, <1>4 DEF Others
<1>6. QED
    BY <1>3, <1>4, <1>5 DEF Shrinks

-----------------------------------------------------------------------------
(* The parts of the invariant that speak of scopes and rows *)

ScopesInv ==
    /\ StackInv
    /\ RowsInv
    /\ OptionsAreHonoured

StillPassed == \A q \in Requests, n \in ScopeIds : Passed(q, n) => Passed(q, n)'

(* What was committed stays so. *)
NewVerdicts ==
    /\ verdict' \in [Requests -> [ScopeIds -> Verdicts]]
    /\ \A q \in Requests, n \in ScopeIds :
           verdict[q][n] = "committed" => verdict'[q][n] = "committed"

(* What has been answered stays, and only what is over is answered. *)
NewAnswers ==
    /\ answer' \in [Requests -> [ScopeIds -> Replies]]
    /\ \A q \in Requests, n \in ScopeIds :
           \/ answer'[q][n] = answer[q][n]
           \/ answer[q][n] = "none" /\ Gone(q, n)'

(* A step that leaves the scopes alone. *)
LEMMA AloneKeeps ==
    ASSUME TypeOK, ScopesInv, StillPassed, NewAnswers,
           UNCHANGED <<stack, pending, durable, verdict>>
    PROVE  ScopesInv'
<1>1. StackInv'
    BY Stacks DEF ScopesInv, StackInv, StillPassed, Scopes
<1>2. RowsInv'
    <2>1. \A row \in durable : row.request \in Requests /\ row.tx \in ScopeIds
        BY DEF TypeOK, Rows
    <2>2. \A row \in durable : verdict'[row.request][row.tx] = "committed"
        BY <2>1 DEF ScopesInv, RowsInv
    <2>3. \A q \in Requests, n \in ScopeIds : answer'[q][n] # "none" => Gone(q, n)'
        BY DEF NewAnswers, ScopesInv, RowsInv, Gone, StillPassed
    <2>4. \A c \in Connections : \A row \in pending[c] :
              \E i \in NewScopes(row.request)' :
                  stack[row.request][i].conn = c /\ stack[row.request][i].id = row.tx
        BY DEF ScopesInv, RowsInv, NewScopes, Conn, IsNew
    <2>5. QED
        BY <2>2, <2>3, <2>4 DEF RowsInv, Conn
<1>3. QED
    BY <1>1, <1>2 DEF ScopesInv, OptionsAreHonoured, IsNew

(* A step that enters a scope: a new one, or one in the transaction of a    *)
(* scope around it.                                                         *)
LEMMA GrowsKeeps ==
    ASSUME TypeOK, ScopesInv, StillPassed, UNCHANGED <<pending, durable, verdict, answer>>,
           NEW r \in Requests, NEW scope \in Scopes, Grows(r, scope),
           Passed(r, scope.id)',
           \A n \in ScopeIds : Passed(r, n) => n < scope.id,
           \/ IsNew(scope)
           \/ \E j \in DOMAIN stack[r] :
                  /\ stack[r][j].tx = scope.tx
                  /\ stack[r][j].conn = scope.conn
                  /\ stack[r][j].options = scope.options
    PROVE  ScopesInv'
<1> DEFINE n == Len(stack[r])
<1>1. /\ n \in Nat
      /\ DOMAIN stack[r] = 1 .. n
      /\ DOMAIN stack'[r] = 1 .. (n + 1)
      /\ \A i \in 1 .. n : stack'[r][i] = stack[r][i]
      /\ stack'[r][n + 1] = scope
      /\ \A q \in Requests \ {r} : stack'[q] = stack[q]
    BY Stacks DEF Grows, Others
<1>2. \A q \in Requests : DOMAIN stack[q] \subseteq Nat /\ DOMAIN stack[q] \subseteq DOMAIN stack'[q]
    BY <1>1, Stacks
<1>3. \A q \in Requests : \A i \in DOMAIN stack[q] : stack'[q][i] = stack[q][i] /\ stack[q][i] \in Scopes
    BY <1>1, Stacks
<1>4. \A q \in Requests : \A i \in DOMAIN stack'[q] :
          i \in DOMAIN stack[q] \/ (q = r /\ i = n + 1 /\ stack'[q][i] = scope)
    BY <1>1
<1>5. scope.id \in ScopeIds /\ scope.tx \in ScopeIds
    BY DEF Scopes
<1> HIDE DEF n
<1>6. StackInv'
    <2>1. ASSUME NEW q \in Requests, NEW i \in DOMAIN stack[q]
          PROVE  /\ Passed(q, stack[q][i].id)'
                 /\ \A j \in 1 .. (i - 1) : stack'[q][j].id < stack'[q][i].id
        <3>1. /\ Passed(q, stack[q][i].id) /\ stack[q][i].id \in ScopeIds
              /\ \A j \in 1 .. (i - 1) : stack[q][j].id < stack[q][i].id
            BY <1>3 DEF ScopesInv, StackInv, Scopes
        <3>2. \A j \in 1 .. (i - 1) : j \in DOMAIN stack[q]
            BY Stacks
        <3>3. stack'[q][i] = stack[q][i]
            BY <1>3
        <3>4. \A j \in 1 .. (i - 1) : stack'[q][j] = stack[q][j]
            BY <1>3, <3>2
        <3>5. Passed(q, stack[q][i].id)'
            <4>1. PICK number \in ScopeIds : number = stack[q][i].id
                BY <3>1
            <4>2. Passed(q, number)
                BY <3>1, <4>1
            <4>3. Passed(q, number)'
                BY <4>2 DEF StillPassed
            <4>4. QED
                BY <3>3, <4>1, <4>3
        <3>6. QED
            BY <3>1, <3>3, <3>4, <3>5
    <2>2. \A j \in 1 .. n : stack'[r][j].id < scope.id
        BY <1>1, <1>3 DEF ScopesInv, StackInv, Scopes
    <2>3. ASSUME NEW q \in Requests, NEW i \in DOMAIN stack'[q], q = r, i = n + 1
          PROVE  /\ Passed(q, stack[q][i].id)'
                 /\ \A j \in 1 .. (i - 1) : stack'[q][j].id < stack'[q][i].id
        BY <1>1, <2>2, <2>3
    <2>4. QED
        BY <1>4, <2>1, <2>3 DEF StackInv
<1>7. RowsInv'
    <2>1. \A q \in Requests : NewScopes(q) \subseteq NewScopes(q)'
        BY <1>2, <1>3 DEF NewScopes, IsNew
    <2>2. ASSUME NEW c \in Connections, NEW row \in pending[c]
          PROVE  \E i \in NewScopes(row.request)' :
                     stack'[row.request][i].conn = c /\ stack'[row.request][i].id = row.tx
        <3>1. row.request \in Requests
            BY DEF TypeOK, Rows
        <3>2. PICK i \in NewScopes(row.request) :
                  Conn(row.request, i) = c /\ stack[row.request][i].id = row.tx
            BY DEF ScopesInv, RowsInv
        <3>3. i \in DOMAIN stack[row.request]
            BY DEF NewScopes
        <3>4. QED
            BY <1>3, <2>1, <3>1, <3>2, <3>3 DEF Conn
    <2>3. ASSUME NEW q \in Requests, NEW m \in ScopeIds, answer[q][m] # "none"
          PROVE  Gone(q, m)'
        <3>1. Passed(q, m) /\ \A i \in DOMAIN stack[q] : stack[q][i].id # m
            BY <2>3 DEF ScopesInv, RowsInv, Gone
        <3>2. q = r => m # scope.id
            BY <1>5, <3>1 DEF ScopeIds
        <3>3. QED
            BY <1>3, <1>4, <3>1, <3>2 DEF Gone, StillPassed
    <2>4. QED
        BY <2>2, <2>3 DEF ScopesInv, RowsInv, Conn
<1>8. OptionsAreHonoured'
    <2>1. ASSUME NEW q \in Requests, NEW i \in DOMAIN stack[q]
          PROVE  \E j \in 1 .. i : /\ j \in DOMAIN stack[q]
                                   /\ IsNew(stack'[q][j])
                                   /\ stack'[q][j].id = stack'[q][i].tx
                                   /\ stack'[q][j].conn = stack'[q][i].conn
                                   /\ stack'[q][j].options = stack'[q][i].options
        <3>1. PICK j \in 1 .. i : /\ IsNew(stack[q][j])
                                  /\ stack[q][j].id = stack[q][i].tx
                                  /\ stack[q][j].conn = stack[q][i].conn
                                  /\ stack[q][j].options = stack[q][i].options
            BY DEF ScopesInv, OptionsAreHonoured
        <3>2. j \in DOMAIN stack[q]
            BY Stacks
        <3>3. QED
            BY <1>3, <3>1, <3>2
    <2>2. \E j \in 1 .. (n + 1) : /\ IsNew(stack'[r][j])
                                  /\ stack'[r][j].id = scope.tx
                                  /\ stack'[r][j].conn = scope.conn
                                  /\ stack'[r][j].options = scope.options
        <3>1. CASE IsNew(scope)
            BY <1>1, <3>1 DEF IsNew
        <3>2. CASE \E j \in DOMAIN stack[r] : /\ stack[r][j].tx = scope.tx
                                              /\ stack[r][j].conn = scope.conn
                                              /\ stack[r][j].options = scope.options
            <4>1. PICK j \in DOMAIN stack[r] : /\ stack[r][j].tx = scope.tx
                                               /\ stack[r][j].conn = scope.conn
                                               /\ stack[r][j].options = scope.options
                BY <3>2
            <4>2. PICK k \in 1 .. j : /\ k \in DOMAIN stack[r]
                                      /\ IsNew(stack'[r][k])
                                      /\ stack'[r][k].id = stack'[r][j].tx
                                      /\ stack'[r][k].conn = stack'[r][j].conn
                                      /\ stack'[r][k].options = stack'[r][j].options
                BY <2>1
            <4>3. k \in 1 .. (n + 1) /\ stack'[r][j] = stack[r][j]
                BY <1>1, <4>2
            <4>4. QED
                BY <4>1, <4>2, <4>3
        <3>3. QED
            BY <3>1, <3>2
    <2>3. ASSUME NEW q \in Requests, NEW i \in DOMAIN stack'[q], q = r, i = n + 1
          PROVE  \E j \in 1 .. i : /\ IsNew(stack'[q][j])
                                   /\ stack'[q][j].id = stack'[q][i].tx
                                   /\ stack'[q][j].conn = stack'[q][i].conn
                                   /\ stack'[q][j].options = stack'[q][i].options
        BY <1>1, <2>2, <2>3
    <2>4. QED
        BY <1>4, <2>1, <2>3 DEF OptionsAreHonoured, IsNew
<1>9. QED
    BY <1>6, <1>7, <1>8 DEF ScopesInv

(* A step that leaves the innermost scope: if it is a new one, no row is    *)
(* pending on its connection any more.                                      *)
LEMMA ShrinksKeeps ==
    ASSUME TypeOK, ScopesInv, StillPassed, NEW r \in Requests, Shrinks(r),
           \A c \in Connections : \A row \in pending'[c] :
               /\ row \in pending[c]
               /\ row.request = r /\ IsNew(Current(r)) => Current(r).conn # c,
           NewAnswers, NewVerdicts, durable' = durable
    PROVE  ScopesInv'
<1> DEFINE n == Len(stack[r])
<1>1. /\ n \in Nat \ {0}
      /\ DOMAIN stack[r] = 1 .. n
      /\ DOMAIN stack'[r] = 1 .. (n - 1)
      /\ \A i \in 1 .. (n - 1) : stack'[r][i] = stack[r][i]
      /\ Current(r) = stack[r][n]
      /\ n \in DOMAIN stack[r]
      /\ \A q \in Requests \ {r} : stack'[q] = stack[q]
    BY Stacks DEF Shrinks, Others, Current, Last
<1>2. \A q \in Requests : \A i \in DOMAIN stack'[q] :
          /\ i \in DOMAIN stack[q]
          /\ stack'[q][i] = stack[q][i]
          /\ stack[q][i] \in Scopes
          /\ 1 .. i \subseteq DOMAIN stack'[q]
    BY <1>1, Stacks
<1>3. \A q \in Requests : \A i \in DOMAIN stack[q] :
          i \in DOMAIN stack'[q] \/ (q = r /\ i = n)
    BY <1>1
<1>4. /\ Current(r) \in Scopes
      /\ Current(r).id \in ScopeIds
      /\ Passed(r, Current(r).id)
      /\ \A i \in 1 .. (n - 1) : stack[r][i].id < Current(r).id /\ stack[r][i].id \in ScopeIds
    BY <1>1, Stacks DEF ScopesInv, StackInv, Scopes
<1> HIDE DEF n
<1>5. StackInv'
    <2>1. ASSUME NEW q \in Requests, NEW i \in DOMAIN stack'[q]
          PROVE  /\ Passed(q, stack[q][i].id)'
                 /\ \A j \in 1 .. (i - 1) : stack'[q][j].id < stack'[q][i].id
        <3>1. /\ Passed(q, stack[q][i].id) /\ stack[q][i].id \in ScopeIds
              /\ \A j \in 1 .. (i - 1) : stack[q][j].id < stack[q][i].id
            BY <1>2 DEF ScopesInv, StackInv, Scopes
        <3>2. i \in Nat
            BY <1>2, Stacks
        <3>3. \A j \in 1 .. (i - 1) : j \in 1 .. i
            BY <3>2
        <3>4. stack'[q][i] = stack[q][i] /\ \A j \in 1 .. (i - 1) : stack'[q][j] = stack[q][j]
            BY <1>2, <3>3
        <3>5. Passed(q, stack[q][i].id)'
            <4>1. PICK number \in ScopeIds : number = stack[q][i].id
                BY <3>1
            <4>2. Passed(q, number)
                BY <3>1, <4>1
            <4>3. Passed(q, number)'
                BY <4>2 DEF StillPassed
            <4>4. QED
                BY <3>4, <4>1, <4>3
        <3>6. QED
            BY <3>1, <3>4, <3>5
    <2>2. QED
        BY <2>1 DEF StackInv
<1>6. OptionsAreHonoured'
    BY <1>2 DEF ScopesInv, OptionsAreHonoured, IsNew
<1>7. RowsInv'
    <2>1. ASSUME NEW c \in Connections, NEW row \in pending'[c]
          PROVE  \E i \in NewScopes(row.request)' :
                     stack'[row.request][i].conn = c /\ stack'[row.request][i].id = row.tx
        <3>1. row \in pending[c] /\ row.request \in Requests
            BY DEF TypeOK, Rows
        <3>2. PICK i \in NewScopes(row.request) :
                  Conn(row.request, i) = c /\ stack[row.request][i].id = row.tx
            BY <3>1 DEF ScopesInv, RowsInv
        <3>3. i \in DOMAIN stack[row.request] /\ IsNew(stack[row.request][i])
            BY DEF NewScopes
        <3>4. ~(row.request = r /\ i = n)
            BY <1>1, <3>2, <3>3 DEF Conn
        <3>5. i \in DOMAIN stack'[row.request]
            BY <1>3, <3>1, <3>3, <3>4
        <3>6. QED
            BY <1>2, <3>1, <3>2, <3>3, <3>5 DEF NewScopes, Conn, IsNew
    <2>2. \A row \in durable' : verdict'[row.request][row.tx] = "committed"
        BY DEF ScopesInv, RowsInv, NewVerdicts, TypeOK, Rows
    <2>3. \A q \in Requests, m \in ScopeIds : answer'[q][m] # "none" => Gone(q, m)'
        BY <1>2 DEF ScopesInv, RowsInv, NewAnswers, Gone, StillPassed
    <2>4. QED
        BY <2>1, <2>2, <2>3 DEF RowsInv, Conn
<1>8. QED
    BY <1>5, <1>6, <1>7 DEF ScopesInv

(* No two scopes on a stack are numbered alike. *)
LEMMA DistinctIds ==
    ASSUME TypeOK, ScopesInv, NEW r \in Requests,
           NEW i \in DOMAIN stack[r], NEW j \in DOMAIN stack[r], stack[r][i].id = stack[r][j].id
    PROVE  i = j
<1>1. /\ i \in Nat \ {0} /\ j \in Nat \ {0}
      /\ stack[r][i].id \in Nat /\ stack[r][j].id \in Nat
    BY Stacks DEF Scopes, ScopeIds
<1>2. /\ \A k \in 1 .. (i - 1) : stack[r][k].id < stack[r][i].id
      /\ \A k \in 1 .. (j - 1) : stack[r][k].id < stack[r][j].id
    BY DEF ScopesInv, StackInv
<1>3. CASE i < j
    BY <1>1, <1>2, <1>3
<1>4. CASE j < i
    BY <1>1, <1>2, <1>4
<1>5. QED
    BY <1>1, <1>3, <1>4

(* No scope is open in a transaction that is over. *)
LEMMA OverIsClosed ==
    ASSUME TypeOK, ScopesInv, NEW r \in Requests, NEW n \in ScopeIds, Gone(r, n),
           NEW i \in DOMAIN stack[r]
    PROVE  stack[r][i].tx # n
<1>1. PICK j \in 1 .. i : stack[r][j].id = stack[r][i].tx
    BY DEF ScopesInv, OptionsAreHonoured
<1>2. j \in DOMAIN stack[r]
    BY <1>1, Stacks
<1>3. QED
    BY <1>1, <1>2 DEF Gone

-----------------------------------------------------------------------------
(* What the server has decided *)

(* A step that leaves the scopes alone, whoever gets an exception by it.    *)
LEMMA SettledStays ==
    ASSUME TypeOK, SettledInv, StillPassed, UNCHANGED <<stack, pending, verdict>>,
           \A q \in Requests, n \in ScopeIds : answer'[q][n] = "ok" => answer[q][n] = "ok",
           \A q \in Requests : /\ phase[q] \in {"committing", "leaving"} =>
                                     phase'[q] \in {"committing", "leaving"}
                               /\ phase'[q] = "committing" => phase[q] = "committing"
    PROVE  SettledInv'
<1>1. ASSUME NEW q \in Requests, NEW n \in ScopeIds
      PROVE  /\ verdict'[q][n] # "none" =>
                    Gone(q, n)' \/ (Settling(q, n)' /\ verdict'[q][n] = "committed")
             /\ answer'[q][n] = "ok" => verdict'[q][n] = "committed"
    <2>1. Gone(q, n) => Gone(q, n)'
        BY DEF Gone, StillPassed
    <2>2. Settling(q, n) => Settling(q, n)'
        BY DEF Settling, InTransaction, IsNew, Current
    <2>3. QED
        BY <2>1, <2>2 DEF SettledInv
<1>2. ASSUME NEW q \in Requests, phase'[q] = "committing"
      PROVE  Settling(q, Current(q).id)' /\ verdict'[q][Current(q)'.id] = "committed"
    BY <1>2 DEF SettledInv, Settling, InTransaction, IsNew, Current
<1>3. QED
    BY <1>1, <1>2 DEF SettledInv

(* A step that enters a scope: nothing is decided of it. *)
LEMMA SettledGrows ==
    ASSUME TypeOK, SettledInv, StillPassed, UNCHANGED <<pending, verdict, answer>>,
           NEW r \in Requests, NEW scope \in Scopes, Grows(r, scope), ~Passed(r, scope.id),
           phase[r] \in {"running", "granted"}, phase'[r] = "running",
           \A q \in Requests \ {r} : phase'[q] = phase[q]
    PROVE  SettledInv'
<1>1. /\ Len(stack[r]) \in Nat
      /\ DOMAIN stack[r] = 1 .. Len(stack[r])
      /\ DOMAIN stack'[r] = 1 .. (Len(stack[r]) + 1)
      /\ \A q \in Requests \ {r} : stack'[q] = stack[q]
    BY Stacks DEF Grows, Others
<1>2. \A i \in DOMAIN stack'[r] :
          \/ i \in DOMAIN stack[r] /\ stack'[r][i] = stack[r][i]
          \/ stack'[r][i] = scope
    BY <1>1 DEF Grows
<1>3. ASSUME NEW n \in ScopeIds, verdict[r][n] # "none"
      PROVE  Gone(r, n)'
    <2>1. Gone(r, n)
        BY <1>3 DEF SettledInv, Settling
    <2>2. n # scope.id
        BY <2>1 DEF Gone
    <2>3. QED
        BY <1>2, <2>1, <2>2 DEF Gone, StillPassed
<1>4. ASSUME NEW q \in Requests, q # r, NEW n \in ScopeIds
      PROVE  (Gone(q, n) => Gone(q, n)') /\ (Settling(q, n) => Settling(q, n)')
    BY <1>1, <1>4 DEF Gone, StillPassed, Settling, InTransaction, IsNew, Current
<1>5. ASSUME NEW q \in Requests, phase'[q] = "committing"
      PROVE  Settling(q, Current(q).id)' /\ verdict'[q][Current(q)'.id] = "committed"
    <2>1. q # r /\ phase[q] = "committing" /\ stack'[q] = stack[q]
        BY <1>1, <1>5
    <2>2. QED
        BY <1>5, <2>1 DEF SettledInv, Settling, InTransaction, IsNew, Current
<1>6. ASSUME NEW q \in Requests, NEW n \in ScopeIds
      PROVE  /\ verdict'[q][n] # "none" =>
                    Gone(q, n)' \/ (Settling(q, n)' /\ verdict'[q][n] = "committed")
             /\ answer'[q][n] = "ok" => verdict'[q][n] = "committed"
    BY <1>3, <1>4 DEF SettledInv
<1>7. QED
    BY <1>5, <1>6 DEF SettledInv

(* A step that leaves the innermost scope: if it is a new one, it is        *)
(* decided now, or was before.                                              *)
LEMMA SettledShrinks ==
    ASSUME TypeOK, SettledInv, StillPassed, NEW r \in Requests, Shrinks(r),
           phase'[r] \in {"running", "thrown"},
           \A q \in Requests \ {r} : phase'[q] = phase[q],
           \A n \in ScopeIds : Settling(r, n) => Gone(r, n)',
           \A q \in Requests, n \in ScopeIds :
               \/ verdict'[q][n] = verdict[q][n]
               \/ q = r /\ Gone(r, n)' /\ verdict[q][n] # "committed",
           \A q \in Requests, n \in ScopeIds :
               answer'[q][n] = "ok" => answer[q][n] = "ok" \/ verdict[q][n] = "committed",
           \A c \in Connections : \A row \in pending'[c] :
               row \in pending[c] /\ verdict'[row.request][row.tx] = "none"
    PROVE  SettledInv'
<1>1. /\ DOMAIN stack'[r] \subseteq DOMAIN stack[r]
      /\ \A i \in DOMAIN stack'[r] : stack'[r][i] = stack[r][i]
      /\ \A q \in Requests \ {r} : stack'[q] = stack[q]
    BY Stacks DEF Shrinks, Others
<1>2. ASSUME NEW n \in ScopeIds, Gone(r, n)
      PROVE  Gone(r, n)'
    BY <1>1, <1>2 DEF Gone, StillPassed
<1>3. ASSUME NEW q \in Requests, q # r, NEW n \in ScopeIds
      PROVE  (Gone(q, n) => Gone(q, n)') /\ (Settling(q, n) => Settling(q, n)')
    BY <1>1, <1>3 DEF Gone, StillPassed, Settling, InTransaction, IsNew, Current
<1>4. ASSUME NEW q \in Requests, phase'[q] = "committing"
      PROVE  Settling(q, Current(q).id)' /\ verdict'[q][Current(q)'.id] = "committed"
    <2>1. q # r /\ phase[q] = "committing" /\ stack'[q] = stack[q]
        BY <1>1, <1>4
    <2>2. Current(q).id \in ScopeIds
        BY <2>1, Innermost DEF SettledInv, Settling, Scopes
    <2>3. verdict'[q][Current(q).id] = verdict[q][Current(q).id]
        BY <2>1, <2>2
    <2>4. QED
        BY <1>4, <2>1, <2>3 DEF SettledInv, Settling, InTransaction, IsNew, Current
<1>5. ASSUME NEW q \in Requests, NEW n \in ScopeIds
      PROVE  verdict'[q][n] # "none" =>
                 Gone(q, n)' \/ (Settling(q, n)' /\ verdict'[q][n] = "committed")
    <2>1. CASE q = r /\ Gone(r, n)'
        BY <2>1
    <2>2. CASE verdict'[q][n] = verdict[q][n]
        BY <1>2, <1>3, <2>2 DEF SettledInv
    <2>3. QED
        BY <2>1, <2>2
<1>6. ASSUME NEW q \in Requests, NEW n \in ScopeIds, answer'[q][n] = "ok"
      PROVE  verdict'[q][n] = "committed"
    BY <1>6 DEF SettledInv
<1>7. QED
    BY <1>4, <1>5, <1>6 DEF SettledInv

-----------------------------------------------------------------------------
(* Connections *)

(* A step that moves no connection: whoever is cancelled and opens nothing  *)
(* will not wait for one again.                                             *)
LEMMA ConnectionsStay ==
    ASSUME TypeOK, ConnectionInv, LossInv, UNCHANGED <<stack, granted, holder>>,
           \A q \in Requests : phase'[q] = "granted" <=> phase[q] = "granted",
           \A q \in Requests : cancelled[q] => cancelled'[q],
           \A q \in Requests : cancelled[q] /\ ~Entering(q) => ~Entering(q)'
    PROVE  ConnectionInv' /\ LossInv'
<1>1. \A q \in Requests : NewScopes(q)' = NewScopes(q) /\ Lost(q)' = Lost(q)
    BY DEF NewScopes, IsNew, Lost, Conn
<1>2. ConnectionInv'
    BY <1>1 DEF ConnectionInv, Conn
<1>3. LossInv'
    BY <1>1 DEF LossInv
<1>4. QED
    BY <1>2, <1>3

(* What entering a scope does to the new scopes. *)
LEMMA Grown ==
    ASSUME TypeOK, NEW r \in Requests, NEW scope \in Scopes, Grows(r, scope)
    PROVE  /\ \A q \in Requests \ {r} : NewScopes(q)' = NewScopes(q)
           /\ Len(stack[r]) + 1 \notin NewScopes(r)
           /\ NewScopes(r)' = NewScopes(r) \cup (IF IsNew(scope) THEN {Len(stack[r]) + 1} ELSE {})
           /\ \A q \in Requests : \A i \in NewScopes(q) : Conn(q, i)' = Conn(q, i)
           /\ stack'[r][Len(stack[r]) + 1].conn = scope.conn
<1>1. /\ Len(stack[r]) \in Nat
      /\ DOMAIN stack[r] = 1 .. Len(stack[r])
      /\ DOMAIN stack'[r] = 1 .. (Len(stack[r]) + 1)
    BY Stacks DEF Grows
<1>2. \A i \in DOMAIN stack'[r] : i \in DOMAIN stack[r] \/ i = Len(stack[r]) + 1
    BY <1>1
<1>3. NewScopes(r)' = NewScopes(r) \cup (IF IsNew(scope) THEN {Len(stack[r]) + 1} ELSE {})
    BY <1>1, <1>2 DEF Grows, NewScopes, IsNew
<1>4. \A q \in Requests \ {r} : NewScopes(q)' = NewScopes(q)
    BY DEF Grows, Others, NewScopes, IsNew
<1>5. Len(stack[r]) + 1 \notin NewScopes(r)
    BY <1>1 DEF NewScopes
<1>6. \A i \in NewScopes(r) : Conn(r, i)' = Conn(r, i)
    BY <1>1 DEF Grows, NewScopes, Conn
<1>7. \A q \in Requests \ {r} : \A i \in NewScopes(q) : Conn(q, i)' = Conn(q, i)
    BY DEF Grows, Others, Conn
<1>8. stack'[r][Len(stack[r]) + 1].conn = scope.conn
    BY DEF Grows
<1>9. QED
    BY <1>3, <1>4, <1>5, <1>6, <1>7, <1>8

(* ... and leaving one. *)
LEMMA Shrunk ==
    ASSUME TypeOK, NEW r \in Requests, Shrinks(r)
    PROVE  /\ \A q \in Requests \ {r} : NewScopes(q)' = NewScopes(q)
           /\ NewScopes(r)' = NewScopes(r) \ {Len(stack[r])}
           /\ \A q \in Requests : \A i \in NewScopes(q)' : Conn(q, i)' = Conn(q, i)
           /\ Len(stack[r]) \in NewScopes(r) <=> IsNew(Current(r))
           /\ Conn(r, Len(stack[r])) = Current(r).conn
<1>1. /\ Len(stack[r]) \in Nat \ {0}
      /\ DOMAIN stack[r] = 1 .. Len(stack[r])
      /\ DOMAIN stack'[r] = 1 .. (Len(stack[r]) - 1)
    BY Stacks DEF Shrinks
<1>2. \A i : i \in DOMAIN stack'[r] <=> i \in DOMAIN stack[r] /\ i # Len(stack[r])
    BY <1>1
<1>3. NewScopes(r)' = NewScopes(r) \ {Len(stack[r])}
    BY <1>1, <1>2 DEF Shrinks, NewScopes, IsNew
<1>4. \A q \in Requests \ {r} : NewScopes(q)' = NewScopes(q)
    BY DEF Shrinks, Others, NewScopes, IsNew
<1>5. \A i \in NewScopes(r)' : Conn(r, i)' = Conn(r, i)
    BY <1>1 DEF Shrinks, NewScopes, Conn
<1>6. \A q \in Requests \ {r} : \A i \in NewScopes(q)' : Conn(q, i)' = Conn(q, i)
    BY DEF Shrinks, Others, Conn
<1>7. /\ Len(stack[r]) \in NewScopes(r) <=> IsNew(Current(r))
      /\ Conn(r, Len(stack[r])) = Current(r).conn
    BY <1>1 DEF NewScopes, Conn, Current, Last
<1>8. QED
    BY <1>3, <1>4, <1>5, <1>6, <1>7

-----------------------------------------------------------------------------
(* The steps that leave the scopes alone *)

LEMMA Split ==
    DatabaseInv <=> TypeOK /\ PhaseInv /\ ConnectionInv /\ LossInv /\ ScopesInv /\ SettledInv
BY DEF DatabaseInv, ScopesInv

LEMMA InitInv == Init => DatabaseInv
<1> SUFFICES ASSUME Init PROVE DatabaseInv
    OBVIOUS
<1>1. TypeOK
    BY DatabaseAssumption DEF Init, TypeOK, Phases, Replies, Verdicts
<1>2. \A r \in Requests : DOMAIN stack[r] = {} /\ NewScopes(r) = {}
    BY DEF Init, NewScopes
<1>3. PhaseInv
    BY DEF Init, PhaseInv, Entering
<1>4. ConnectionInv
    BY <1>2 DEF Init, ConnectionInv
<1>5. LossInv
    BY DatabaseAssumption DEF Init, LossInv, Lost
<1>6. ScopesInv
    BY <1>2 DEF Init, ScopesInv, StackInv, RowsInv, OptionsAreHonoured
<1>7. SettledInv
    BY DEF Init, SettledInv
<1>8. QED
    BY <1>1, <1>3, <1>4, <1>5, <1>6, <1>7 DEF DatabaseInv, ScopesInv

(* A scope that is not entered is answered with an exception. *)
LEMMA FailingAnswers ==
    ASSUME TypeOK, ScopesInv, NEW r \in Requests, NEW n \in ScopeIds,
           UNCHANGED stack, Throws(r, n), n <= opened'[r], ~Passed(r, n),
           \A i \in DOMAIN stack[r] : stack[r][i].id # n
    PROVE  NewAnswers /\ answer[r][n] = "none"
<1>1. answer[r][n] = "none"
    BY DEF ScopesInv, RowsInv, Gone
<1>2. Gone(r, n)'
    BY DEF TypeOK, Gone, Passed, Entering, Throws, Enters
<1>3. answer' \in [Requests -> [ScopeIds -> Replies]]
    BY DEF TypeOK, Throws, Answers, Replies
<1>4. \A q \in Requests, m \in ScopeIds :
          answer'[q][m] = answer[q][m] \/ (q = r /\ m = n)
    BY DEF TypeOK, Throws, Answers
<1>5. QED
    BY <1>1, <1>2, <1>3, <1>4 DEF NewAnswers

(* What a request that is entering a scope has reached. *)
LEMMA EnteringScope ==
    ASSUME TypeOK, PhaseInv, ScopesInv, NEW r \in Requests, Entering(r)
    PROVE  /\ opened[r] \in ScopeIds
           /\ ~Passed(r, opened[r])
           /\ \A i \in DOMAIN stack[r] : stack[r][i].id # opened[r]
<1>1. opened[r] \in ScopeIds
    BY DatabaseAssumption DEF TypeOK, PhaseInv, ScopeIds
<1>2. QED
    BY <1>1 DEF Passed, ScopesInv, StackInv

(* The failures among the following steps, and what they answer. *)
Failing(r, n) == UNCHANGED <<stack, pending, durable, verdict>> /\ Throws(r, n)

Waits(r) ==
    \/ \E options \in Options : RefuseInheritance(r, options)
    \/ NewTransaction(r) \/ StartWaiting(r) \/ ConnectionTimeout(r)
    \/ BlockThrows(r) \/ CommitThrows(r) \/ CatchInBlock(r) \/ Finish(r) \/ Cancel(r)

LEMMA Failures ==
    ASSUME TypeOK, PhaseInv, ScopesInv, NEW r \in Requests, Waits(r) \/ LoseConnection(r)
    PROVE  \/ UNCHANGED answer
           \/ \E n \in ScopeIds :
                  /\ Failing(r, n) /\ n <= opened'[r] /\ ~Passed(r, n)
                  /\ \A i \in DOMAIN stack[r] : stack[r][i].id # n
<1>1. CASE NewTransaction(r) /\ cancelled[r]
    <2>1. /\ opened[r] + 1 \in ScopeIds /\ opened'[r] = opened[r] + 1
          /\ Failing(r, opened[r] + 1)
        <3>1. opened[r] \in Nat /\ opened[r] < Budget[r] /\ Budget[r] \in 0 .. MaxScopes
            BY <1>1, DatabaseAssumption DEF TypeOK, NewTransaction, CanOpen
        <3>2. opened[r] + 1 \in ScopeIds
            BY <3>1, DatabaseAssumption DEF ScopeIds
        <3>3. QED
            BY <1>1, <3>2 DEF TypeOK, NewTransaction, Opens, Failing
    <2>2. ~Passed(r, opened[r] + 1)
        BY DEF TypeOK, Passed
    <2>3. \A i \in DOMAIN stack[r] : stack[r][i].id # opened[r] + 1
        <3>1. \A i \in DOMAIN stack[r] : stack[r][i].id \in Nat /\ stack[r][i].id <= opened[r]
            BY Stacks DEF ScopesInv, StackInv, Passed, Scopes, ScopeIds
        <3>2. opened[r] \in Nat
            BY DatabaseAssumption DEF TypeOK
        <3>3. QED
            BY <3>1, <3>2
    <2>4. opened[r] + 1 <= opened'[r]
        BY <2>1 DEF ScopeIds
    <2>5. QED
        BY <2>1, <2>2, <2>3, <2>4
<1>2. CASE (StartWaiting(r) /\ cancelled[r]) \/ ConnectionTimeout(r) \/ LoseConnection(r)
    <2>1. /\ Entering(r) /\ Failing(r, opened[r]) /\ opened' = opened
        BY <1>2 DEF Entering, StartWaiting, ConnectionTimeout, LoseConnection, Failing
    <2>2. opened[r] <= opened'[r]
        BY <2>1 DEF TypeOK
    <2>3. QED
        BY <2>1, <2>2, EnteringScope
<1>3. CASE UNCHANGED answer
    BY <1>3
<1>4. QED
    BY <1>1, <1>2, <1>3 DEF Waits, RefuseInheritance, NewTransaction, StartWaiting,
        BlockThrows, CommitThrows, CatchInBlock, Finish, Cancel

LEMMA FailuresAnswer ==
    ASSUME TypeOK, PhaseInv, ScopesInv, NEW r \in Requests, Waits(r) \/ LoseConnection(r)
    PROVE  /\ NewAnswers
           /\ \A q \in Requests, n \in ScopeIds : answer'[q][n] = "ok" => answer[q][n] = "ok"
<1>1. CASE UNCHANGED answer
    BY <1>1 DEF NewAnswers, TypeOK, Replies
<1>2. ASSUME NEW n \in ScopeIds,
             Failing(r, n) /\ n <= opened'[r] /\ ~Passed(r, n),
             \A i \in DOMAIN stack[r] : stack[r][i].id # n
      PROVE  /\ NewAnswers
             /\ \A q \in Requests, m \in ScopeIds :
                    answer'[q][m] = "ok" => answer[q][m] = "ok"
    <2>1. NewAnswers
        BY <1>2, FailingAnswers DEF Failing
    <2>2. \A q \in Requests, m \in ScopeIds :
              answer'[q][m] = answer[q][m] \/ answer'[q][m] = "error"
        BY <1>2 DEF Failing, Throws, Answers, TypeOK
    <2>3. QED
        BY <2>1, <2>2
<1>3. QED
    BY <1>1, <1>2, Failures

(* Calls that fail, waits that begin or end, blocks that throw or catch.    *)
LEMMA WaitsKeep ==
    ASSUME DatabaseInv, NEW r \in Requests,
           Waits(r)
    PROVE  DatabaseInv'
<1> USE DEF Waits
<1>1. /\ TypeOK /\ PhaseInv /\ ConnectionInv /\ LossInv /\ ScopesInv /\ SettledInv
      /\ UNCHANGED <<stack, granted, holder, pending, durable, verdict>>
    BY Split DEF RefuseInheritance, NewTransaction, StartWaiting, ConnectionTimeout,
                 BlockThrows, CommitThrows, CatchInBlock, Finish, Cancel
<1>2. TypeOK'
    <2>1. phase' \in [Requests -> Phases]
        BY <1>1 DEF TypeOK, Phases, RefuseInheritance, NewTransaction, StartWaiting,
                    ConnectionTimeout, BlockThrows, CommitThrows, CatchInBlock, Finish, Cancel, Enters, Throws
    <2>2. opened' \in [Requests -> 0 .. MaxScopes]
        BY <1>1, DatabaseAssumption DEF TypeOK, RefuseInheritance, NewTransaction, StartWaiting,
                    ConnectionTimeout, BlockThrows, CommitThrows, CatchInBlock, Finish, Cancel, CanOpen, Opens
    <2>3. cancelled' \in [Requests -> BOOLEAN]
        BY <1>1 DEF TypeOK, RefuseInheritance, NewTransaction, StartWaiting,
                    ConnectionTimeout, BlockThrows, CommitThrows, CatchInBlock, Finish, Cancel
    <2>4. answer' \in [Requests -> [ScopeIds -> Replies]]
        BY <1>1, FailuresAnswer DEF NewAnswers
    <2>5. QED
        BY <1>1, <2>1, <2>2, <2>3, <2>4 DEF TypeOK, Replies
<1>3. PhaseInv'
    <2>1. CASE CommitThrows(r)
        BY <1>1, <2>1 DEF TypeOK, PhaseInv, SettledInv, Settling, InTransaction, Entering,
                          CommitThrows, Enters
    <2>2. CASE ~CommitThrows(r)
        BY <1>1, <2>2 DEF TypeOK, PhaseInv, InTransaction, Entering, RefuseInheritance,
            NewTransaction, StartWaiting, ConnectionTimeout, BlockThrows, CatchInBlock, Finish,
            Cancel, CanOpen, Opens, Enters, Throws
    <2>3. QED
        BY <2>1, <2>2
<1>4. ConnectionInv' /\ LossInv'
    <2>1. \A q \in Requests : phase'[q] = "granted" <=> phase[q] = "granted"
        BY <1>1 DEF TypeOK, RefuseInheritance, NewTransaction, StartWaiting, ConnectionTimeout,
                    BlockThrows, CommitThrows, CatchInBlock, Finish, Cancel, CanOpen, Enters, Throws
    <2>2. \A q \in Requests : cancelled[q] => cancelled'[q]
        BY <1>1 DEF TypeOK, RefuseInheritance, NewTransaction, StartWaiting, ConnectionTimeout,
                    BlockThrows, CommitThrows, CatchInBlock, Finish, Cancel
    <2>3. \A q \in Requests : cancelled[q] /\ ~Entering(q) => ~Entering(q)'
        BY <1>1 DEF TypeOK, RefuseInheritance, NewTransaction, StartWaiting, ConnectionTimeout,
                    BlockThrows, CommitThrows, CatchInBlock, Finish, Cancel, CanOpen, Enters, Throws, Entering
    <2>4. QED
        BY <1>1, <2>1, <2>2, <2>3, ConnectionsStay
<1>5. StillPassed
    BY <1>1 DEF TypeOK, StillPassed, Passed, Entering, ScopeIds, RefuseInheritance, NewTransaction,
                StartWaiting, ConnectionTimeout, BlockThrows, CommitThrows, CatchInBlock, Finish, Cancel,
                CanOpen, Opens, Enters, Throws
<1>6. ScopesInv'
    <2>1. UNCHANGED <<stack, pending, durable, verdict>>
        BY <1>1
    <2>2. QED
        BY <1>1, <1>5, <2>1, FailuresAnswer, AloneKeeps
<1>7. SettledInv'
    <2>1. \A q \in Requests : /\ phase[q] \in {"committing", "leaving"} =>
                                     phase'[q] \in {"committing", "leaving"}
                              /\ phase'[q] = "committing" => phase[q] = "committing"
        BY <1>1 DEF TypeOK, RefuseInheritance, NewTransaction, StartWaiting, ConnectionTimeout,
                    BlockThrows, CommitThrows, CatchInBlock, Finish, Cancel, CanOpen, Enters,
                    Throws, PhaseInv
    <2>2. UNCHANGED <<stack, pending, verdict>>
        BY <1>1
    <2>3. QED
        BY <1>1, <1>5, <2>1, <2>2, FailuresAnswer, SettledStays
<1>8. QED
    BY <1>2, <1>3, <1>4, <1>6, <1>7 DEF DatabaseInv, ScopesInv

LEMMA GetConnectionKeeps ==
    ASSUME DatabaseInv, NEW r \in Requests, NEW c \in Connections, GetConnection(r, c)
    PROVE  DatabaseInv'
<1>1. /\ TypeOK /\ PhaseInv /\ ConnectionInv /\ LossInv /\ ScopesInv /\ SettledInv
      /\ phase[r] = "waiting" /\ holder[c] = Nobody
      /\ holder' = [holder EXCEPT ![c] = r]
      /\ granted' = [granted EXCEPT ![r] = c]
      /\ phase' = [phase EXCEPT ![r] = "granted"]
      /\ UNCHANGED <<stack, opened, cancelled, pending, durable, verdict, answer>>
    BY Split DEF GetConnection, Enters
<1>2. \A q \in Requests : NewScopes(q)' = NewScopes(q) /\ NewScopes(q) \subseteq DOMAIN stack[q]
    BY <1>1 DEF NewScopes, IsNew
<1>3. \A q \in Requests : \A i \in NewScopes(q) : Conn(q, i)' = Conn(q, i) /\ Conn(q, i) # c
    BY <1>1, DatabaseAssumption DEF ConnectionInv, Conn
<1>4. TypeOK'
    BY <1>1 DEF TypeOK, Phases
<1>5. PhaseInv'
    BY <1>1 DEF TypeOK, PhaseInv, InTransaction, Entering
<1>6. ConnectionInv'
    BY <1>1, <1>2, <1>3, DatabaseAssumption DEF TypeOK, ConnectionInv
<1>7. LossInv'
    <2>1. \A q \in Requests : Lost(q)' \subseteq Lost(q)
        BY <1>1, <1>2, <1>3, DatabaseAssumption DEF TypeOK, ConnectionInv, Lost
    <2>2. Lost(r) = {}
        BY <1>1 DEF LossInv, Entering
    <2>3. QED
        BY <1>1, <2>1, <2>2 DEF TypeOK, LossInv, Entering
<1>8. ScopesInv' /\ SettledInv'
    <2>1. StillPassed
        BY <1>1 DEF TypeOK, StillPassed, Passed, Entering
    <2>2. UNCHANGED <<stack, pending, durable, verdict>> /\ NewAnswers
        BY <1>1 DEF NewAnswers, TypeOK, Replies
    <2>3. ScopesInv'
        BY <1>1, <2>1, <2>2, AloneKeeps
    <2>4. \A q \in Requests : /\ phase[q] \in {"committing", "leaving"} =>
                                     phase'[q] \in {"committing", "leaving"}
                              /\ phase'[q] = "committing" => phase[q] = "committing"
        BY <1>1 DEF TypeOK
    <2>5. SettledInv'
        BY <1>1, <2>1, <2>2, <2>4, SettledStays
    <2>6. QED
        BY <2>3, <2>5
<1>9. QED
    BY <1>4, <1>5, <1>6, <1>7, <1>8 DEF DatabaseInv, ScopesInv

LEMMA LoseConnectionKeeps ==
    ASSUME DatabaseInv, NEW r \in Requests, LoseConnection(r)
    PROVE  DatabaseInv'
<1>1. /\ TypeOK /\ PhaseInv /\ ConnectionInv /\ LossInv /\ ScopesInv /\ SettledInv
      /\ phase[r] = "granted" /\ cancelled[r]
      /\ granted' = [granted EXCEPT ![r] = Nobody]
      /\ phase' = [phase EXCEPT ![r] = "thrown"]
      /\ UNCHANGED <<stack, opened, cancelled, holder, pending, durable, verdict>>
      /\ NewAnswers
      /\ \A q \in Requests, n \in ScopeIds : answer'[q][n] = "ok" => answer[q][n] = "ok"
    BY Split, FailuresAnswer DEF LoseConnection, Throws, Enters
<1>2. \A q \in Requests : NewScopes(q)' = NewScopes(q)
    BY <1>1 DEF NewScopes, IsNew
<1>3. \A q \in Requests : \A i \in NewScopes(q) :
          /\ Conn(q, i)' = Conn(q, i)
          /\ Conn(q, i) \in Connections
          /\ Conn(q, i) # Nobody
    BY <1>1, Stacks, DatabaseAssumption DEF NewScopes, Conn, Scopes
<1>4. TypeOK'
    BY <1>1 DEF TypeOK, Phases, NewAnswers, Replies
<1>5. PhaseInv'
    BY <1>1 DEF TypeOK, PhaseInv, InTransaction, Entering
<1>6. ConnectionInv'
    BY <1>1, <1>2, <1>3 DEF TypeOK, ConnectionInv
<1>7. LossInv'
    <2>1. \A q \in Requests \ {r} : Lost(q)' = Lost(q)
        BY <1>1, <1>2 DEF TypeOK, Lost, Conn
    <2>2. Lost(r) = {}
        BY <1>1 DEF LossInv, Entering
    <2>3. \A c \in Lost(r)' : c = granted[r]
        BY <1>1, <1>2, <2>2 DEF Lost, Conn
    <2>4. QED
        BY <1>1, <2>1, <2>3 DEF TypeOK, LossInv, Entering
<1>8. ScopesInv' /\ SettledInv'
    <2>1. StillPassed
        BY <1>1 DEF TypeOK, StillPassed, Passed, Entering
    <2>2. UNCHANGED <<stack, pending, durable, verdict>> /\ NewAnswers
        BY <1>1
    <2>3. ScopesInv'
        BY <1>1, <2>1, <2>2, AloneKeeps
    <2>4. \A q \in Requests : /\ phase[q] \in {"committing", "leaving"} =>
                                     phase'[q] \in {"committing", "leaving"}
                              /\ phase'[q] = "committing" => phase[q] = "committing"
        BY <1>1 DEF TypeOK
    <2>5. SettledInv'
        BY <1>1, <2>1, <2>2, <2>4, SettledStays
    <2>6. QED
        BY <2>3, <2>5
<1>9. QED
    BY <1>4, <1>5, <1>6, <1>7, <1>8 DEF DatabaseInv, ScopesInv

LEMMA WriteKeeps ==
    ASSUME DatabaseInv, NEW r \in Requests, Write(r)
    PROVE  DatabaseInv'
<1>1. /\ TypeOK /\ PhaseInv /\ ConnectionInv /\ LossInv /\ ScopesInv /\ SettledInv
      /\ pending' = [pending EXCEPT ![Current(r).conn] = pending[Current(r).conn] \cup {Row(r)}]
      /\ InTransaction(r) /\ phase[r] = "running"
      /\ UNCHANGED <<stack, phase, granted, opened, cancelled, holder, durable,
                     verdict, answer>>
    BY Split DEF Write
<1>2. /\ Current(r) \in Scopes
      /\ Current(r) = stack[r][Len(stack[r])]
      /\ Len(stack[r]) \in DOMAIN stack[r]
    BY <1>1, Innermost
<1>3. Row(r) \in Rows /\ Row(r).request = r /\ Row(r).tx = Current(r).tx
    BY <1>2 DEF Row, Rows, Scopes
<1>4. TypeOK'
    <2>1. Current(r).conn \in Connections
        BY <1>2 DEF Scopes
    <2>2. pending' \in [Connections -> SUBSET Rows]
        BY <1>1, <1>3, <2>1 DEF TypeOK
    <2>3. QED
        BY <1>1, <2>2 DEF TypeOK
<1>5. PhaseInv' /\ ConnectionInv' /\ LossInv'
    <2>1. PhaseInv'
        BY <1>1 DEF PhaseInv, InTransaction, Entering
    <2>2. ConnectionInv'
        BY <1>1 DEF ConnectionInv, NewScopes, IsNew, Conn
    <2>3. LossInv'
        BY <1>1 DEF LossInv, Lost, Entering, NewScopes, IsNew, Conn
    <2>4. QED
        BY <2>1, <2>2, <2>3
<1>6. PICK j \in NewScopes(r) : Conn(r, j) = Current(r).conn /\ stack[r][j].id = Current(r).tx
    <2>1. PICK j \in 1 .. Len(stack[r]) : /\ IsNew(stack[r][j])
                                          /\ stack[r][j].id = Current(r).tx
                                          /\ stack[r][j].conn = Current(r).conn
        BY <1>1, <1>2 DEF ScopesInv, OptionsAreHonoured
    <2>2. j \in NewScopes(r)
        BY <1>1, <2>1, Stacks DEF NewScopes
    <2>3. QED
        BY <2>1, <2>2 DEF Conn
<1>7. \A c \in Connections : \A row \in pending'[c] :
          row \in pending[c] \/ (row = Row(r) /\ c = Current(r).conn)
    BY <1>1 DEF TypeOK
<1>8. RowsInv'
    <2>1. ASSUME NEW c \in Connections, NEW row \in pending'[c]
          PROVE  \E i \in NewScopes(row.request) :
                     Conn(row.request, i) = c /\ stack[row.request][i].id = row.tx
        <3>1. CASE row \in pending[c]
            BY <1>1, <3>1 DEF ScopesInv, RowsInv
        <3>2. CASE row = Row(r) /\ c = Current(r).conn
            BY <1>3, <1>6, <3>2
        <3>3. QED
            BY <1>7, <3>1, <3>2
    <2>2. \A row : row.request \in Requests => NewScopes(row.request)' = NewScopes(row.request)
        BY <1>1 DEF NewScopes, IsNew
    <2>3. \A c \in Connections : \A row \in pending'[c] : row.request \in Requests
        BY <1>4 DEF TypeOK, Rows
    <2>4. QED
        BY <1>1, <2>1, <2>2, <2>3 DEF ScopesInv, RowsInv, Conn, Gone, Passed, Entering
<1>9. ScopesInv'
    BY <1>1, <1>8 DEF ScopesInv, StackInv, Passed, Entering, OptionsAreHonoured, IsNew
<1>10. SettledInv'
    <2>1. verdict[r][Current(r).tx] = "none"
        <3>1. Current(r).tx \in ScopeIds /\ j \in DOMAIN stack[r]
            BY <1>2, <1>6 DEF Scopes, NewScopes
        <3>2. ~Gone(r, Current(r).tx) /\ ~Settling(r, Current(r).tx)
            BY <1>1, <1>6, <3>1 DEF Gone, Settling
        <3>3. QED
            BY <1>1, <3>1, <3>2 DEF SettledInv
    <2>2. \A c \in Connections : \A row \in pending'[c] : verdict[row.request][row.tx] = "none"
        BY <1>1, <1>3, <1>7, <2>1 DEF SettledInv
    <2>3. QED
        BY <1>1, <2>2 DEF SettledInv, Settling, Gone, Passed, Entering, InTransaction, IsNew, Current
<1>11. QED
    BY <1>4, <1>5, <1>9, <1>10 DEF DatabaseInv, ScopesInv

-----------------------------------------------------------------------------
(* Entering a scope *)

LEMMA InheritKeeps ==
    ASSUME DatabaseInv, NEW r \in Requests, NEW options \in Options, InheritTransaction(r, options)
    PROVE  DatabaseInv'
<1> DEFINE scope == [Current(r) EXCEPT !.id = opened[r] + 1]
<1>1. /\ TypeOK /\ PhaseInv /\ ConnectionInv /\ LossInv /\ ScopesInv /\ SettledInv
      /\ phase[r] = "running" /\ opened[r] < MaxScopes /\ InTransaction(r)
      /\ opened' = [opened EXCEPT ![r] = opened[r] + 1]
      /\ Push(r, scope)
      /\ UNCHANGED <<phase, granted, cancelled, holder, pending, durable, verdict, answer>>
    BY Split, DatabaseAssumption DEF InheritTransaction, CanOpen, Opens, TypeOK
<1>2. /\ Current(r) \in Scopes
      /\ Current(r) = stack[r][Len(stack[r])]
      /\ Len(stack[r]) \in DOMAIN stack[r]
    BY <1>1, Innermost
<1>3. /\ scope \in Scopes
      /\ scope.id = opened[r] + 1
      /\ scope.tx = Current(r).tx /\ scope.conn = Current(r).conn
      /\ scope.options = Current(r).options
    <2>1. opened[r] + 1 \in ScopeIds
        BY <1>1, DatabaseAssumption DEF TypeOK, ScopeIds
    <2>2. PICK current \in Scopes : current = Current(r)
        BY <1>2
    <2>3. /\ [current EXCEPT !.id = opened[r] + 1] \in Scopes
          /\ [current EXCEPT !.id = opened[r] + 1].id = opened[r] + 1
          /\ [current EXCEPT !.id = opened[r] + 1].tx = current.tx
          /\ [current EXCEPT !.id = opened[r] + 1].conn = current.conn
          /\ [current EXCEPT !.id = opened[r] + 1].options = current.options
        BY <2>1 DEF Scopes
    <2>4. QED
        BY <2>2, <2>3
<1>4. PICK new \in Scopes : new = scope
    BY <1>3
<1> HIDE DEF scope
<1>5. Grows(r, new)
    BY <1>1, <1>4, Pushing
<1>6. ~IsNew(new)
    <2>1. PICK j \in 1 .. Len(stack[r]) : stack[r][j].id = Current(r).tx
        BY <1>1, <1>2 DEF ScopesInv, OptionsAreHonoured
    <2>2. j \in DOMAIN stack[r]
        BY <1>1, <2>1, Stacks
    <2>3. Current(r).tx <= opened[r] /\ Current(r).tx \in Nat /\ opened[r] \in Nat
        BY <1>1, <1>2, <2>1, <2>2 DEF ScopesInv, StackInv, Passed, TypeOK, Scopes, ScopeIds
    <2>4. QED
        BY <1>3, <1>4, <2>3 DEF IsNew
<1>7. /\ \A q \in Requests : NewScopes(q)' = NewScopes(q)
      /\ \A q \in Requests : \A i \in NewScopes(q) : Conn(q, i)' = Conn(q, i)
    <2>1. NewScopes(r)' = NewScopes(r) \cup (IF IsNew(new) THEN {Len(stack[r]) + 1} ELSE {})
        BY <1>1, <1>5, Grown
    <2>2. NewScopes(r)' = NewScopes(r)
        BY <1>6, <2>1
    <2>3. QED
        BY <1>1, <1>5, <2>2, Grown
<1>8. TypeOK'
    <2>1. opened' \in [Requests -> 0 .. MaxScopes]
        BY <1>1, DatabaseAssumption DEF TypeOK
    <2>2. stack' \in [Requests -> Seq(Scopes)]
        BY <1>5 DEF Grows
    <2>3. QED
        BY <1>1, <2>1, <2>2 DEF TypeOK
<1>9. PhaseInv'
    <2>1. \A q \in Requests : opened[q] # 0 => opened'[q] # 0
        BY <1>1 DEF TypeOK
    <2>2. \A q \in Requests \ {r} : stack'[q] = stack[q]
        BY <1>5 DEF Grows, Others
    <2>3. QED
        BY <1>1, <2>1, <2>2 DEF PhaseInv, InTransaction, Entering
<1>10. ConnectionInv'
    BY <1>1, <1>7 DEF ConnectionInv
<1>11. LossInv'
    <2>1. \A q \in Requests : Lost(q)' = Lost(q)
        BY <1>1, <1>7 DEF Lost
    <2>2. QED
        BY <1>1, <2>1 DEF LossInv, Entering
<1>12. ScopesInv'
    <2>1. StillPassed
        BY <1>1 DEF TypeOK, StillPassed, Passed, Entering, ScopeIds
    <2>2. Passed(r, new.id)'
        BY <1>1, <1>3, <1>4 DEF TypeOK, Passed, Entering
    <2>3. \A n \in ScopeIds : Passed(r, n) => n < new.id
        BY <1>1, <1>3, <1>4 DEF TypeOK, Passed, ScopeIds
    <2>4. UNCHANGED <<pending, durable, verdict, answer>>
        BY <1>1
    <2>5. QED
        BY <1>1, <1>2, <1>3, <1>4, <1>5, <2>1, <2>2, <2>3, <2>4, GrowsKeeps
<1>13. SettledInv'
    <2>1. StillPassed
        BY <1>1 DEF TypeOK, StillPassed, Passed, Entering, ScopeIds
    <2>2. ~Passed(r, new.id)
        BY <1>1, <1>3, <1>4 DEF TypeOK, Passed
    <2>3. UNCHANGED <<pending, verdict, answer>>
        BY <1>1
    <2>4. QED
        BY <1>1, <1>5, <2>1, <2>2, <2>3, SettledGrows
<1>14. QED
    BY <1>8, <1>9, <1>10, <1>11, <1>12, <1>13 DEF DatabaseInv, ScopesInv

LEMMA EnterBlockKeeps ==
    ASSUME DatabaseInv, NEW r \in Requests, NEW options \in Options, EnterBlock(r, options)
    PROVE  DatabaseInv'
<1> DEFINE scope == [id |-> opened[r], tx |-> opened[r], conn |-> granted[r], options |-> options]
           n == Len(stack[r]) + 1
<1>1. /\ TypeOK /\ PhaseInv /\ ConnectionInv /\ LossInv /\ ScopesInv /\ SettledInv
      /\ phase[r] = "granted"
      /\ phase' = [phase EXCEPT ![r] = "running"]
      /\ granted' = [granted EXCEPT ![r] = Nobody]
      /\ Push(r, scope)
      /\ UNCHANGED <<opened, cancelled, holder, pending, durable, verdict, answer>>
    BY Split DEF EnterBlock, Enters
<1>2. /\ granted[r] \in Connections
      /\ holder[granted[r]] = r
    BY <1>1 DEF TypeOK, ConnectionInv
<1>3. opened[r] \in ScopeIds
    BY <1>1, DatabaseAssumption DEF TypeOK, PhaseInv, Entering, ScopeIds
<1>4. PICK new \in Scopes : /\ new = scope
                            /\ new.id = opened[r] /\ new.tx = opened[r]
                            /\ new.conn = granted[r]
    <2>1. scope \in Scopes
        BY <1>2, <1>3 DEF Scopes
    <2>2. scope.id = opened[r] /\ scope.tx = opened[r] /\ scope.conn = granted[r]
        OBVIOUS
    <2> HIDE DEF scope
    <2>3. QED
        BY <2>1, <2>2
<1> HIDE DEF scope
<1>5. Grows(r, new) /\ IsNew(new)
    BY <1>1, <1>4, Pushing DEF IsNew
<1>6. /\ \A q \in Requests \ {r} : NewScopes(q)' = NewScopes(q)
      /\ n \notin NewScopes(r)
      /\ NewScopes(r)' = NewScopes(r) \cup {n}
      /\ \A q \in Requests : \A i \in NewScopes(q) : Conn(q, i)' = Conn(q, i)
      /\ stack'[r][n].conn = granted[r]
    BY <1>1, <1>4, <1>5, Grown
<1>7. \A q \in Requests : \A i \in NewScopes(q) : Conn(q, i) \in Connections /\ Conn(q, i) # Nobody
    BY <1>1, Stacks, DatabaseAssumption DEF NewScopes, Conn, Scopes
<1> HIDE DEF n
<1>8. TypeOK'
    BY <1>1, <1>5 DEF TypeOK, Grows, Phases
<1>9. PhaseInv'
    BY <1>1, <1>5 DEF TypeOK, PhaseInv, Grows, Others, InTransaction, Entering
<1>10. ConnectionInv'
    <2>1. ASSUME NEW q \in Requests, q # r
          PROVE  /\ granted'[q] # Nobody <=> phase'[q] = "granted"
                 /\ granted'[q] # Nobody => holder'[granted'[q]] = q
                 /\ \A i \in NewScopes(q)' : holder'[Conn(q, i)'] = q /\ Conn(q, i)' # granted'[q]
                 /\ \A i, j \in NewScopes(q)' : Conn(q, i)' = Conn(q, j)' => i = j
        BY <1>1, <1>6, <2>1 DEF TypeOK, ConnectionInv
    <2>2. /\ granted'[r] = Nobody
          /\ phase'[r] # "granted"
        BY <1>1 DEF TypeOK
    <2>3. ASSUME NEW i \in NewScopes(r)'
          PROVE  /\ holder'[Conn(r, i)'] = r
                 /\ Conn(r, i)' # Nobody
                 /\ Conn(r, i)' = granted[r] <=> i = n
        <3>1. CASE i = n
            BY <1>1, <1>2, <1>6, <3>1, DatabaseAssumption DEF Conn
        <3>2. CASE i \in NewScopes(r)
            BY <1>1, <1>6, <1>7, <3>2 DEF ConnectionInv
        <3>3. QED
            BY <1>6, <3>1, <3>2
    <2>4. ASSUME NEW i \in NewScopes(r)', NEW j \in NewScopes(r)', Conn(r, i)' = Conn(r, j)'
          PROVE  i = j
        <3>1. CASE i = n \/ j = n
            BY <2>3, <2>4, <3>1
        <3>2. CASE i \in NewScopes(r) /\ j \in NewScopes(r)
            BY <1>1, <1>6, <2>4, <3>2 DEF ConnectionInv
        <3>3. QED
            BY <1>6, <3>1, <3>2
    <2>5. QED
        BY <2>1, <2>2, <2>3, <2>4 DEF ConnectionInv
<1>11. LossInv'
    <2>1. \A q \in Requests \ {r} : Lost(q)' = Lost(q)
        BY <1>1, <1>6 DEF TypeOK, Lost
    <2>2. Lost(r) = {}
        BY <1>1 DEF LossInv, Entering
    <2>3. Lost(r)' = {}
        <3>1. ASSUME NEW c \in Lost(r)'
              PROVE  FALSE
            <4>1. c \in Connections /\ holder[c] = r /\ \A i \in NewScopes(r)' : Conn(r, i)' # c
                BY <1>1 DEF Lost
            <4>2. c # granted[r]
                BY <1>6, <4>1 DEF Conn
            <4>3. c \in Lost(r)
                BY <1>6, <4>1, <4>2 DEF Lost
            <4>4. QED
                BY <2>2, <4>3
        <3>2. QED
            BY <3>1
    <2>4. QED
        BY <1>1, <2>1, <2>3 DEF TypeOK, LossInv, Entering
<1>12. ScopesInv'
    <2>1. StillPassed
        BY <1>1 DEF TypeOK, StillPassed, Passed, Entering, ScopeIds
    <2>2. Passed(r, new.id)'
        BY <1>1, <1>3, <1>4 DEF TypeOK, Passed, Entering, ScopeIds
    <2>3. \A m \in ScopeIds : Passed(r, m) => m < new.id
        BY <1>1, <1>3, <1>4 DEF TypeOK, Passed, Entering, ScopeIds
    <2>4. UNCHANGED <<pending, durable, verdict, answer>>
        BY <1>1
    <2>5. QED
        BY <1>1, <1>5, <2>1, <2>2, <2>3, <2>4, GrowsKeeps
<1>13. SettledInv'
    <2>1. StillPassed
        BY <1>1 DEF TypeOK, StillPassed, Passed, Entering, ScopeIds
    <2>2. ~Passed(r, new.id)
        BY <1>1, <1>4 DEF Passed, Entering
    <2>3. UNCHANGED <<pending, verdict, answer>>
        BY <1>1
    <2>4. \A q \in Requests \ {r} : phase'[q] = phase[q]
        BY <1>1
    <2>5. phase'[r] = "running"
        BY <1>1 DEF TypeOK
    <2>6. QED
        BY <1>1, <1>5, <2>1, <2>2, <2>3, <2>4, <2>5, SettledGrows
<1>14. QED
    BY <1>8, <1>9, <1>10, <1>11, <1>12, <1>13 DEF DatabaseInv, ScopesInv

-----------------------------------------------------------------------------
(* Leaving a scope *)

(* An inherited scope moves no connection. *)
LEMMA LeaveInherited ==
    ASSUME TypeOK, PhaseInv, ConnectionInv, LossInv, ScopesInv, SettledInv, NEW r \in Requests,
           phase[r] \in {"running", "leaving"}, InTransaction(r), ~IsNew(Current(r)), Pop(r),
           \/ UNCHANGED phase /\ phase[r] = "running"
           \/ phase' = [phase EXCEPT ![r] = "thrown"],
           UNCHANGED <<granted, opened, cancelled, holder, pending, durable, verdict, answer>>
    PROVE  DatabaseInv'
<1>1. Shrinks(r)
    BY Popping
<1>2. /\ \A q \in Requests : NewScopes(q)' = NewScopes(q)
      /\ \A q \in Requests : \A i \in NewScopes(q) : Conn(q, i)' = Conn(q, i)
    <2>1. NewScopes(r)' = NewScopes(r)
        BY <1>1, Shrunk
    <2>2. QED
        BY <1>1, <2>1, Shrunk
<1>3. /\ \A q \in Requests : phase'[q] = phase[q] \/ (q = r /\ phase'[q] = "thrown")
      /\ phase'[r] \in {"running", "thrown"}
    BY DEF TypeOK
<1>4. TypeOK'
    <2>1. phase' \in [Requests -> Phases]
        BY DEF TypeOK, Phases
    <2>2. QED
        BY <1>1, <2>1 DEF TypeOK, Shrinks
<1>5. PhaseInv'
    <2>1. \A q \in Requests \ {r} : stack'[q] = stack[q]
        BY <1>1 DEF Shrinks, Others
    <2>2. QED
        BY <1>3, <2>1 DEF PhaseInv, InTransaction, Entering
<1>6. ConnectionInv'
    BY <1>2, <1>3 DEF ConnectionInv
<1>7. LossInv'
    <2>1. \A q \in Requests : Lost(q)' = Lost(q)
        BY <1>2 DEF Lost
    <2>2. QED
        BY <1>3, <2>1 DEF LossInv, Entering
<1>8. StillPassed
    BY <1>3 DEF StillPassed, Passed, Entering
<1>9. ScopesInv'
    <2>1. NewAnswers /\ NewVerdicts
        BY DEF NewAnswers, NewVerdicts, TypeOK, Replies, Verdicts
    <2>2. \A c \in Connections : \A row \in pending'[c] :
              /\ row \in pending[c]
              /\ row.request = r /\ IsNew(Current(r)) => Current(r).conn # c
        OBVIOUS
    <2>3. QED
        BY <1>1, <1>8, <2>1, <2>2, ShrinksKeeps
<1>10. SettledInv'
    <2>1. \A n \in ScopeIds : ~Settling(r, n)
        BY DEF Settling
    <2>2. \A q \in Requests \ {r} : phase'[q] = phase[q]
        BY <1>3
    <2>3. \A c \in Connections : \A row \in pending'[c] :
              row \in pending[c] /\ verdict'[row.request][row.tx] = "none"
        BY DEF SettledInv
    <2>4. QED
        BY <1>1, <1>3, <1>8, <2>1, <2>2, <2>3, SettledShrinks
<1>11. QED
    BY <1>4, <1>5, <1>6, <1>7, <1>9, <1>10 DEF DatabaseInv, ScopesInv

(* The innermost scope is not answered yet, and is over once it is left. *)
LEMMA LeftIsGone ==
    ASSUME TypeOK, ScopesInv, StillPassed, NEW r \in Requests, InTransaction(r), Shrinks(r),
           NEW id \in ScopeIds, id = Current(r).id
    PROVE  answer[r][id] = "none" /\ Gone(r, id)'
<1> DEFINE n == Len(stack[r])
<1>1. /\ n \in DOMAIN stack[r] /\ n \in Nat \ {0}
      /\ DOMAIN stack'[r] = 1 .. (n - 1)
      /\ \A i \in 1 .. (n - 1) : stack'[r][i] = stack[r][i] /\ stack[r][i] \in Scopes
      /\ Current(r) = stack[r][n] /\ Current(r) \in Scopes
    <2>1. /\ n \in DOMAIN stack[r] /\ n \in Nat \ {0} /\ DOMAIN stack[r] = 1 .. n
          /\ Current(r) = stack[r][n] /\ Current(r) \in Scopes
        BY Innermost, Stacks DEF Shrinks
    <2>2. DOMAIN stack'[r] = 1 .. (n - 1) /\ \A i \in 1 .. (n - 1) : stack'[r][i] = stack[r][i]
        BY DEF Shrinks
    <2>3. \A i \in 1 .. (n - 1) : i \in DOMAIN stack[r]
        BY <2>1
    <2>4. QED
        BY <2>1, <2>2, <2>3, Stacks
<1> HIDE DEF n
<1>2. stack[r][n].id = id
    BY <1>1
<1>3. Passed(r, id) /\ \A i \in 1 .. (n - 1) : stack[r][i].id < id /\ stack[r][i].id \in ScopeIds
    BY <1>1, <1>2 DEF ScopesInv, StackInv, Scopes
<1>4. Passed(r, id)'
    BY <1>3 DEF StillPassed
<1>5. \A i \in DOMAIN stack'[r] : stack'[r][i].id # id
    BY <1>1, <1>3 DEF ScopeIds
<1>6. answer[r][id] = "none"
    BY <1>1, <1>2 DEF ScopesInv, RowsInv, Gone
<1>7. QED
    BY <1>4, <1>5, <1>6 DEF Gone

(* The rows on the connection of a new scope are those of its transaction. *)
LEMMA OwnRows ==
    ASSUME TypeOK, ConnectionInv, ScopesInv, NEW r \in Requests,
           InTransaction(r), IsNew(Current(r)), NEW d \in Connections, NEW row \in pending[d]
    PROVE  d = Current(r).conn <=> OfUnit(row, r, Current(r).id)
<1> DEFINE n == Len(stack[r])
<1>1. /\ n \in NewScopes(r) /\ Current(r) = stack[r][n]
      /\ Conn(r, n) = Current(r).conn
    BY Innermost DEF NewScopes, Conn
<1> HIDE DEF n
<1>2. row.request \in Requests
    BY DEF TypeOK, Rows
<1>3. PICK i \in NewScopes(row.request) :
          Conn(row.request, i) = d /\ stack[row.request][i].id = row.tx
    BY DEF ScopesInv, RowsInv
<1>4. CASE d = Current(r).conn
    <2>1. row.request = r
        BY <1>1, <1>2, <1>3, <1>4 DEF ConnectionInv
    <2>2. i = n
        BY <1>1, <1>3, <1>4, <2>1 DEF ConnectionInv
    <2>3. QED
        BY <1>1, <1>3, <1>4, <2>1, <2>2 DEF OfUnit
<1>5. CASE OfUnit(row, r, Current(r).id)
    <2>1. i \in DOMAIN stack[r] /\ n \in DOMAIN stack[r] /\ stack[r][i].id = stack[r][n].id
        BY <1>1, <1>3, <1>5 DEF NewScopes, OfUnit
    <2>2. i = n
        BY <2>1, DistinctIds
    <2>3. QED
        BY <1>1, <1>3, <1>5, <2>2 DEF OfUnit
<1>6. QED
    BY <1>4, <1>5

(* COMMIT takes effect: nothing is pending of the transaction any more.     *)
LEMMA ExecuteCommitKeeps ==
    ASSUME DatabaseInv, NEW r \in Requests, ExecuteCommit(r)
    PROVE  DatabaseInv'
<1>1. /\ TypeOK /\ PhaseInv /\ ConnectionInv /\ LossInv /\ ScopesInv /\ SettledInv
      /\ phase[r] = "running" /\ InTransaction(r) /\ IsNew(Current(r))
      /\ phase' = [phase EXCEPT ![r] = "committing"]
      /\ UNCHANGED <<stack, granted, opened, cancelled, holder, answer>>
    BY Split DEF ExecuteCommit, Enters
<1>2. PICK c \in Connections, id \in ScopeIds : c = Current(r).conn /\ id = Current(r).id
    BY <1>1, Innermost DEF Scopes
<1>3. /\ pending' = [pending EXCEPT ![c] = {}]
      /\ durable' = durable \cup pending[c]
      /\ verdict' = [verdict EXCEPT ![r] = [verdict[r] EXCEPT ![id] = "committed"]]
    BY <1>2 DEF ExecuteCommit, Decides
<1>4. \A d \in Connections : \A row \in pending'[d] : row \in pending[d] /\ d # c
    BY <1>1, <1>3 DEF TypeOK
<1>5. \A d \in Connections : \A row \in pending[d] : d = c <=> OfUnit(row, r, id)
    BY <1>1, <1>2, OwnRows
<1>6. \A q \in Requests, n \in ScopeIds :
          verdict'[q][n] = IF q = r /\ n = id THEN "committed" ELSE verdict[q][n]
    BY <1>1, <1>3 DEF TypeOK
<1>7. TypeOK'
    <2>1. verdict' \in [Requests -> [ScopeIds -> Verdicts]]
        BY <1>1, <1>3 DEF TypeOK, Verdicts
    <2>2. pending' \in [Connections -> SUBSET Rows] /\ durable' \in SUBSET Rows
        BY <1>1, <1>3 DEF TypeOK
    <2>3. phase' \in [Requests -> Phases]
        BY <1>1 DEF TypeOK, Phases
    <2>4. QED
        BY <1>1, <2>1, <2>2, <2>3 DEF TypeOK
<1>8. PhaseInv'
    BY <1>1 DEF TypeOK, PhaseInv, InTransaction, Entering
<1>9. ConnectionInv' /\ LossInv'
    <2>1. /\ \A q \in Requests : phase'[q] = "granted" <=> phase[q] = "granted"
          /\ \A q \in Requests : cancelled[q] => cancelled'[q]
          /\ \A q \in Requests : cancelled[q] /\ ~Entering(q) => ~Entering(q)'
        BY <1>1 DEF TypeOK, Entering
    <2>2. QED
        BY <1>1, <2>1, ConnectionsStay
<1>10. StillPassed
    BY <1>1 DEF TypeOK, StillPassed, Passed, Entering
<1>11. ScopesInv'
    <2>1. \A row \in durable' : row.request \in Requests /\ row.tx \in ScopeIds
        BY <1>7 DEF TypeOK, Rows
    <2>2. \A row \in durable' : verdict'[row.request][row.tx] = "committed"
        BY <1>1, <1>3, <1>5, <1>6, <2>1 DEF ScopesInv, RowsInv, OfUnit
    <2>3. \A q \in Requests, n \in ScopeIds : answer'[q][n] # "none" => Gone(q, n)'
        BY <1>1, <1>10 DEF ScopesInv, RowsInv, Gone, StillPassed
    <2>4. \A d \in Connections : \A row \in pending'[d] :
              \E i \in NewScopes(row.request)' :
                  stack[row.request][i].conn = d /\ stack[row.request][i].id = row.tx
        BY <1>1, <1>4 DEF ScopesInv, RowsInv, NewScopes, Conn, IsNew
    <2>5. RowsInv'
        BY <1>1, <2>2, <2>3, <2>4 DEF RowsInv, Conn
    <2>6. StackInv'
        BY <1>1, <1>10, Stacks DEF ScopesInv, StackInv, StillPassed, Scopes
    <2>7. QED
        BY <1>1, <2>5, <2>6 DEF ScopesInv, OptionsAreHonoured, IsNew
<1>12. SettledInv'
    <2>1. Settling(r, id)'
        BY <1>1, <1>2 DEF TypeOK, Settling, InTransaction, IsNew, Current
    <2>2. ASSUME NEW q \in Requests, NEW n \in ScopeIds, ~(q = r /\ n = id)
          PROVE  /\ verdict'[q][n] # "none" =>
                        Gone(q, n)' \/ (Settling(q, n)' /\ verdict'[q][n] = "committed")
                 /\ answer'[q][n] = "ok" => verdict'[q][n] = "committed"
        <3>1. Gone(q, n) => Gone(q, n)'
            BY <1>1, <1>10 DEF Gone, StillPassed
        <3>2. Settling(q, n) => Settling(q, n)'
            BY <1>1 DEF TypeOK, Settling, InTransaction, IsNew, Current
        <3>3. QED
            BY <1>1, <1>6, <2>2, <3>1, <3>2 DEF SettledInv
    <2>3. ASSUME NEW q \in Requests, phase'[q] = "committing"
          PROVE  Settling(q, Current(q).id)' /\ verdict'[q][Current(q)'.id] = "committed"
        <3>1. CASE q = r
            BY <1>1, <1>2, <1>6, <2>1, <3>1 DEF Current
        <3>2. CASE q # r
            <4>1. phase[q] = "committing" /\ Settling(q, Current(q).id)
                  /\ verdict[q][Current(q).id] = "committed"
                BY <1>1, <2>3, <3>2 DEF TypeOK, SettledInv
            <4>2. Current(q).id \in ScopeIds
                BY <1>1, <4>1, Innermost DEF Settling, Scopes
            <4>3. QED
                BY <1>1, <1>6, <2>3, <3>2, <4>1, <4>2
                   DEF Settling, InTransaction, IsNew, Current
        <3>3. QED
            BY <3>1, <3>2
    <2>4. \A d \in Connections : \A row \in pending'[d] : verdict'[row.request][row.tx] = "none"
        <3>1. ASSUME NEW d \in Connections, NEW row \in pending'[d]
              PROVE  verdict'[row.request][row.tx] = "none"
            <4>1. row \in pending[d] /\ ~OfUnit(row, r, id)
                BY <1>4, <1>5
            <4>2. row.request \in Requests /\ row.tx \in ScopeIds
                BY <1>1, <4>1 DEF TypeOK, Rows
            <4>3. QED
                BY <1>1, <1>6, <4>1, <4>2 DEF SettledInv, OfUnit
        <3>2. QED
            BY <3>1
    <2>5. QED
        BY <1>6, <2>1, <2>2, <2>3, <2>4 DEF SettledInv
<1>13. QED
    BY <1>7, <1>8, <1>9, <1>11, <1>12 DEF DatabaseInv, ScopesInv

(* A new scope gives its connection up: what is pending there is dropped.   *)
LEMMA LeaveNew ==
    ASSUME TypeOK, PhaseInv, ConnectionInv, LossInv, ScopesInv, SettledInv, NEW r \in Requests,
           phase[r] \in {"committing", "leaving"}, InTransaction(r), IsNew(Current(r)), Pop(r),
           Evict(Current(r).conn),
           NEW next \in {"running", "thrown"}, phase' = [phase EXCEPT ![r] = next],
           UNCHANGED <<granted, opened, cancelled, durable>>,
           \/ /\ phase[r] = "committing"
              /\ Answers(r, Current(r).id, "ok")
              /\ UNCHANGED verdict
           \/ /\ Answers(r, Current(r).id, "error")
              /\ RollsBack(r, Current(r).id)
    PROVE  DatabaseInv'
<1> DEFINE n == Len(stack[r])
<1>1. Shrinks(r)
    BY Popping
<1>2. PICK c \in Connections : c = Current(r).conn
    BY Innermost DEF Scopes
<1>3. /\ holder' = [holder EXCEPT ![c] = Nobody]
      /\ pending' = [pending EXCEPT ![c] = {}]
    BY <1>2 DEF Evict
<1>4. /\ \A q \in Requests \ {r} : NewScopes(q)' = NewScopes(q)
      /\ NewScopes(r)' = NewScopes(r) \ {n}
      /\ \A q \in Requests : \A i \in NewScopes(q)' : Conn(q, i)' = Conn(q, i)
      /\ n \in NewScopes(r)
      /\ Conn(r, n) = c
      /\ Current(r) = stack[r][n]
    BY <1>1, <1>2, Shrunk, Innermost
<1> HIDE DEF n
<1>5. /\ \A q \in Requests \ {r} : phase'[q] = phase[q]
      /\ phase'[r] \in {"running", "thrown"}
    BY DEF TypeOK
<1>6. /\ holder[c] = r
      /\ \A q \in Requests : granted[q] # c
      /\ \A q \in Requests : \A i \in NewScopes(q)' : Conn(q, i) # c
    BY <1>4, DatabaseAssumption DEF ConnectionInv
<1>7. PICK id \in ScopeIds, how \in {"ok", "error"} :
          /\ id = Current(r).id
          /\ answer' = [answer EXCEPT ![r] = [answer[r] EXCEPT ![id] = how]]
          /\ how = "ok" => phase[r] = "committing"
          /\ \/ UNCHANGED verdict
             \/ \E v \in Verdicts :
                    /\ verdict' = [verdict EXCEPT ![r] = [verdict[r] EXCEPT ![id] = v]]
                    /\ verdict[r][id] = "committed" => v = "committed"
    BY <1>2, Innermost DEF Answers, RollsBack, Decides, Scopes, IsNew, Verdicts
<1>8. TypeOK'
    <2>1. answer' \in [Requests -> [ScopeIds -> Replies]]
        BY <1>7 DEF TypeOK, Replies
    <2>2. phase' \in [Requests -> Phases]
        BY DEF TypeOK, Phases
    <2>3. verdict' \in [Requests -> [ScopeIds -> Verdicts]]
        <3>1. CASE UNCHANGED verdict
            BY <3>1 DEF TypeOK
        <3>2. ASSUME NEW v \in Verdicts,
                     verdict' = [verdict EXCEPT ![r] = [verdict[r] EXCEPT ![id] = v]]
              PROVE  verdict' \in [Requests -> [ScopeIds -> Verdicts]]
            BY <3>2 DEF TypeOK
        <3>3. QED
            BY <1>7, <3>1, <3>2
    <2>4. QED
        BY <1>1, <1>3, <2>1, <2>2, <2>3 DEF TypeOK, Shrinks, Replies
<1>9. PhaseInv'
    <2>1. \A q \in Requests \ {r} : stack'[q] = stack[q]
        BY <1>1 DEF Shrinks, Others
    <2>2. QED
        BY <1>5, <2>1 DEF PhaseInv, InTransaction, Entering
<1>10. ConnectionInv'
    <2>1. \A q \in Requests : NewScopes(q)' \subseteq NewScopes(q)
        BY <1>4
    <2>2. \A q \in Requests : \A i \in NewScopes(q) : Conn(q, i) \in Connections
        BY Stacks DEF NewScopes, Conn, Scopes
    <2>3. \A d \in Connections \ {c} : holder'[d] = holder[d]
        BY <1>3 DEF TypeOK
    <2>4. QED
        BY <1>4, <1>5, <1>6, <2>1, <2>2, <2>3 DEF TypeOK, ConnectionInv
<1>11. LossInv'
    <2>1. \A q \in Requests : Lost(q)' \subseteq Lost(q)
        <3>1. ASSUME NEW q \in Requests, NEW d \in Lost(q)'
              PROVE  d \in Lost(q)
            <4>1. d \in Connections /\ holder'[d] = q /\ granted[q] # d
                BY DEF Lost
            <4>2. d # c /\ holder[d] = q
                BY <1>3, <4>1, DatabaseAssumption DEF TypeOK
            <4>3. \A i \in NewScopes(q) : Conn(q, i) # d
                BY <1>4, <4>2 DEF Lost
            <4>4. QED
                BY <4>1, <4>2, <4>3 DEF Lost
        <3>2. QED
            BY <3>1
    <2>2. QED
        BY <1>5, <2>1 DEF LossInv, Entering
<1>12. StillPassed
    BY <1>5 DEF StillPassed, Passed, Entering
<1>13. answer[r][id] = "none" /\ Gone(r, id)'
    BY <1>1, <1>7, <1>12, LeftIsGone
<1>14. \A q \in Requests, m \in ScopeIds :
           \/ answer'[q][m] = answer[q][m]
           \/ q = r /\ m = id /\ answer'[q][m] = how
    BY <1>7 DEF TypeOK
<1>15. \A q \in Requests, m \in ScopeIds :
           \/ verdict'[q][m] = verdict[q][m]
           \/ q = r /\ m = id /\ verdict[q][m] # "committed"
    BY <1>7 DEF TypeOK
<1>16. ScopesInv'
    <2>1. \A d \in Connections : \A row \in pending'[d] :
              /\ row \in pending[d]
              /\ row.request = r /\ IsNew(Current(r)) => Current(r).conn # d
        BY <1>2, <1>3 DEF TypeOK
    <2>2. NewAnswers
        BY <1>8, <1>13, <1>14 DEF NewAnswers, TypeOK, Replies
    <2>3. NewVerdicts
        BY <1>8, <1>15 DEF NewVerdicts, TypeOK, Verdicts
    <2>4. QED
        BY <1>1, <1>12, <2>1, <2>2, <2>3, ShrinksKeeps
<1>17. SettledInv'
    <2>1. \A m \in ScopeIds : Settling(r, m) => Gone(r, m)'
        BY <1>7, <1>13 DEF Settling
    <2>2. \A q \in Requests, m \in ScopeIds :
              \/ verdict'[q][m] = verdict[q][m]
              \/ q = r /\ Gone(r, m)' /\ verdict[q][m] # "committed"
        BY <1>13, <1>15
    <2>3. \A q \in Requests, m \in ScopeIds :
              answer'[q][m] = "ok" => answer[q][m] = "ok" \/ verdict[q][m] = "committed"
        <3>1. how = "ok" => verdict[r][id] = "committed"
            BY <1>7 DEF SettledInv
        <3>2. QED
            BY <1>14, <3>1
    <2>4. ASSUME NEW d \in Connections, NEW row \in pending'[d]
          PROVE  row \in pending[d] /\ verdict'[row.request][row.tx] = "none"
        <3>1. row \in pending[d] /\ d # c
            BY <1>3, <2>4 DEF TypeOK
        <3>2. ~OfUnit(row, r, id)
            BY <1>2, <1>7, <3>1, OwnRows
        <3>3. row.request \in Requests /\ row.tx \in ScopeIds
            BY <3>1 DEF TypeOK, Rows
        <3>4. QED
            BY <1>15, <3>1, <3>2, <3>3 DEF SettledInv, OfUnit
    <2>5. QED
        BY <1>1, <1>5, <1>12, <2>1, <2>2, <2>3, <2>4, SettledShrinks
<1>18. QED
    BY <1>8, <1>9, <1>10, <1>11, <1>16, <1>17 DEF DatabaseInv, ScopesInv

-----------------------------------------------------------------------------
(* Theorems *)

LEMMA StepInv == DatabaseInv /\ [Next]_vars => DatabaseInv'
<1> SUFFICES ASSUME DatabaseInv, [Next]_vars PROVE DatabaseInv'
    OBVIOUS
<1> TypeOK /\ PhaseInv /\ ConnectionInv /\ LossInv /\ ScopesInv /\ SettledInv
    BY Split
<1>1. CASE UNCHANGED vars
    <2>1. /\ UNCHANGED <<stack, pending, durable, verdict, answer>>
          /\ UNCHANGED <<stack, granted, holder>>
          /\ UNCHANGED <<phase, opened, cancelled>>
        BY <1>1 DEF vars
    <2>2. TypeOK' /\ PhaseInv'
        BY <2>1 DEF TypeOK, PhaseInv, InTransaction, Entering
    <2>3. ConnectionInv' /\ LossInv'
        BY <2>1, ConnectionsStay DEF Entering
    <2>4. ScopesInv'
        BY <2>1, AloneKeeps DEF StillPassed, Passed, Entering, NewAnswers, TypeOK, Replies
    <2>5. SettledInv'
        BY <2>1, SettledStays DEF StillPassed, Passed, Entering
    <2>6. QED
        BY <2>2, <2>3, <2>4, <2>5 DEF DatabaseInv, ScopesInv
<1>2. ASSUME NEW r \in Requests,
             CallTransaction(r) \/ Proceed(r) \/ Write(r) \/ CatchInBlock(r)
                 \/ ConnectionTimeout(r) \/ Cancel(r)
      PROVE  DatabaseInv'
    <2>1. CASE InheritedReturns(r)
        <3>1. /\ phase[r] = "running" /\ InTransaction(r) /\ ~IsNew(Current(r)) /\ Pop(r)
              /\ UNCHANGED phase
              /\ UNCHANGED <<granted, opened, cancelled, holder, pending, durable, verdict, answer>>
            BY <2>1 DEF InheritedReturns
        <3>2. QED
            BY <3>1, LeaveInherited
    <2>2. CASE UnwindInherited(r)
        <3>1. /\ phase[r] = "leaving" /\ ~IsNew(Current(r)) /\ Pop(r)
              /\ phase' = [phase EXCEPT ![r] = "thrown"]
              /\ UNCHANGED <<granted, opened, cancelled, holder, pending, durable, verdict, answer>>
            BY <2>2 DEF UnwindInherited, Enters
        <3>2. InTransaction(r)
            BY <3>1 DEF PhaseInv
        <3>3. QED
            BY <3>1, <3>2, LeaveInherited
    <2>3. CASE CommitReturns(r)
        <3>1. /\ phase[r] = "committing" /\ InTransaction(r) /\ IsNew(Current(r)) /\ Pop(r)
              /\ Evict(Current(r).conn)
              /\ phase' = [phase EXCEPT ![r] = "running"] /\ Answers(r, Current(r).id, "ok")
              /\ UNCHANGED <<granted, opened, cancelled, durable>> /\ UNCHANGED verdict
            BY <2>3 DEF CommitReturns, SettledInv, Settling, Enters
        <3>2. QED
            BY <3>1, LeaveNew
    <2>4. CASE UnwindNew(r)
        <3>1. /\ phase[r] = "leaving" /\ IsNew(Current(r)) /\ Pop(r)
              /\ Evict(Current(r).conn)
              /\ phase' = [phase EXCEPT ![r] = "thrown"]
              /\ Answers(r, Current(r).id, "error") /\ RollsBack(r, Current(r).id)
              /\ UNCHANGED <<granted, opened, cancelled, durable>>
            BY <2>4 DEF UnwindNew, Throws, Enters
        <3>2. InTransaction(r)
            BY <3>1 DEF PhaseInv
        <3>3. QED
            BY <3>1, <3>2, LeaveNew
    <2>5. QED
        BY <1>2, <2>1, <2>2, <2>3, <2>4, InheritKeeps, WaitsKeep, WriteKeeps, EnterBlockKeeps,
           GetConnectionKeeps, LoseConnectionKeeps, ExecuteCommitKeeps
           DEF CallTransaction, Proceed, Waits
<1>3. QED
    BY <1>1, <1>2 DEF Next, Terminated

(* Scopes, connections and rows of every request agree with one another.   *)
THEOREM Invariance == Spec => []DatabaseInv
BY InitInv, StepInv, PTL DEF Spec

(* The connections out of the pool are accounted for.                      *)
LEMMA Accounted == DatabaseInv => ConnectionsAccountedFor
<1> SUFFICES ASSUME DatabaseInv, NEW r \in Requests
             PROVE  /\ \A c \in Connections : Uses(r, c) <= (IF holder[c] = r THEN 1 ELSE 0)
                    /\ Cardinality({c \in Connections : holder[c] = r /\ Uses(r, c) = 0})
                           <= (IF cancelled[r] THEN 1 ELSE 0)
    BY DEF ConnectionsAccountedFor
<1>1. TypeOK /\ ConnectionInv /\ LossInv
    BY DEF DatabaseInv
<1>2. ASSUME NEW c \in Connections
      PROVE  /\ Uses(r, c) <= (IF holder[c] = r THEN 1 ELSE 0)
             /\ Uses(r, c) = 0 <=> granted[r] # c /\ \A i \in NewScopes(r) : Conn(r, i) # c
    <2> DEFINE S == {i \in DOMAIN stack[r] : IsNew(stack[r][i]) /\ stack[r][i].conn = c}
    <2>1. Uses(r, c) = Cardinality(S) + (IF granted[r] = c THEN 1 ELSE 0)
        BY DEF Uses
    <2>2. S = {i \in NewScopes(r) : Conn(r, i) = c}
        BY DEF NewScopes, Conn
    <2> HIDE DEF S
    <2>3. CASE S = {}
        <3>1. Cardinality(S) = 0
            BY <2>3, FS_EmptySet
        <3>2. granted[r] = c => holder[c] = r
            BY <1>1, DatabaseAssumption DEF ConnectionInv
        <3>3. \A i \in NewScopes(r) : Conn(r, i) # c
            BY <2>2, <2>3
        <3>4. QED
            BY <2>1, <3>1, <3>2, <3>3
    <2>4. CASE S # {}
        <3>1. PICK i \in NewScopes(r) : Conn(r, i) = c
            BY <2>2, <2>4
        <3>2. S = {i} /\ holder[c] = r /\ granted[r] # c
            BY <1>1, <2>2, <3>1 DEF ConnectionInv
        <3>3. Cardinality(S) = 1
            BY <3>2, FS_Singleton
        <3>4. QED
            BY <2>1, <3>1, <3>2, <3>3
    <2>5. QED
        BY <2>3, <2>4
<1>3. {c \in Connections : holder[c] = r /\ Uses(r, c) = 0} = Lost(r)
    BY <1>2 DEF Lost
<1>4. Cardinality(Lost(r)) <= (IF cancelled[r] THEN 1 ELSE 0)
    <2>1. CASE Lost(r) = {}
        BY <2>1, FS_EmptySet
    <2>2. CASE Lost(r) # {}
        <3>1. PICK c \in Lost(r) : TRUE
            BY <2>2
        <3>2. Lost(r) = {c} /\ cancelled[r]
            BY <1>1, <3>1 DEF LossInv
        <3>3. QED
            BY <3>2, FS_Singleton
    <2>3. QED
        BY <2>1, <2>2
<1>5. QED
    BY <1>2, <1>3, <1>4

(* No connection is used twice at a time, and none is lost but the one that *)
(* a cancelled request was being given.                                     *)
THEOREM NothingIsLost == Spec => []ConnectionsAccountedFor
BY Invariance, Accounted, PTL

(* DatabaseService.kt:20, "The connection will be evicted once [block]      *)
(* returns or throws an error": whatever has failed, timed out or thrown on *)
(* the way, a request that has ended holds nothing unless it was cancelled, *)
(* as in the run that violates it.                                          *)
THEOREM OnlyCancellationLeaks ==
    Spec => []((\A r \in Requests : ~cancelled[r]) => EndedRequestsHoldNothing)
<1>1. ASSUME DatabaseInv, NEW r \in Requests, ~cancelled[r], phase[r] = "done",
             NEW c \in Connections
      PROVE  holder[c] # r
    <2>1. Lost(r) = {}
        BY <1>1 DEF DatabaseInv, LossInv
    <2>2. granted[r] # c
        BY <1>1, DatabaseAssumption DEF DatabaseInv, ConnectionInv
    <2>3. NewScopes(r) = {}
        BY <1>1, Stacks DEF DatabaseInv, PhaseInv, InTransaction, NewScopes
    <2>4. QED
        BY <2>1, <2>2, <2>3 DEF Lost
<1>2. DatabaseInv => ((\A r \in Requests : ~cancelled[r]) => EndedRequestsHoldNothing)
    BY <1>1 DEF EndedRequestsHoldNothing
<1>3. QED
    BY <1>2, Invariance, PTL

(* A scope runs with the isolation level and readOnly flag it asked for.   *)
THEOREM OptionsHonoured == Spec => []OptionsAreHonoured
<1>1. DatabaseInv => OptionsAreHonoured
    BY DEF DatabaseInv
<1>2. QED
    BY <1>1, Invariance, PTL

(* Inherited scopes commit nothing: what is durable belongs to a            *)
(* transaction whose blocks have all ended.                                 *)
THEOREM OutermostCommits == Spec => []CommittedByTheOutermostScope
<1>1. DatabaseInv => CommittedByTheOutermostScope
    <2> SUFFICES ASSUME DatabaseInv, NEW row \in durable, NEW i \in DOMAIN stack[row.request],
                        stack[row.request][i].tx = row.tx
                 PROVE  i = Len(stack[row.request]) /\ Settling(row.request, row.tx)
        BY DEF CommittedByTheOutermostScope
    <2>1. TypeOK /\ ScopesInv /\ SettledInv
        BY Split
    <2>2. PICK r \in Requests, n \in ScopeIds : r = row.request /\ n = row.tx
        BY <2>1 DEF TypeOK, Rows
    <2>3. Gone(r, n) \/ Settling(r, n)
        BY <2>1, <2>2 DEF ScopesInv, RowsInv, SettledInv
    <2>4. Settling(r, n)
        BY <2>1, <2>2, <2>3, OverIsClosed
    <2>5. PICK j \in 1 .. i : stack[r][j].id = n
        BY <2>1, <2>2 DEF ScopesInv, OptionsAreHonoured
    <2>6. /\ Len(stack[r]) \in DOMAIN stack[r] /\ Len(stack[r]) \in Nat
          /\ DOMAIN stack[r] = 1 .. Len(stack[r])
          /\ stack[r][Len(stack[r])].id = n
        BY <2>1, <2>4, Innermost, Stacks DEF Settling
    <2>7. j \in DOMAIN stack[r] /\ i \in 1 .. Len(stack[r])
        BY <2>2, <2>6
    <2>8. j = Len(stack[r])
        BY <2>1, <2>5, <2>6, <2>7, DistinctIds
    <2>9. QED
        BY <2>2, <2>4, <2>6, <2>7, <2>8
<1>2. QED
    BY <1>1, Invariance, PTL

-----------------------------------------------------------------------------
(* Every transaction is a unit of work *)

(* A unit of which no row, verdict or answer changes. *)
LEMMA UnitStutters ==
    ASSUME NEW r \in Requests, NEW n \in ScopeIds,
           Store(r, n)' = Store(r, n), Work(r, n)' = Work(r, n), answer'[r][n] = answer[r][n],
           verdict'[r][n] = verdict[r][n]
    PROVE  [Unit(r, n)!UnitNext]_(Unit(r, n)!unitVars)
BY DEF Unit!unitVars

(* A row is part of the work while it is pending or durable. *)
LEMMA WorkRows ==
    ASSUME TypeOK, NEW r \in Requests, NEW n \in ScopeIds
    PROVE  /\ \A row : row \in Store(r, n) <=> row \in durable /\ OfUnit(row, r, n)
           /\ \A row : row \in Work(r, n) <=>
                  /\ row \in durable \/ \E c \in Connections : row \in pending[c]
                  /\ OfUnit(row, r, n)
           /\ Work(r, n) \in SUBSET Rows
BY DEF TypeOK, Store, Work

(* What is not committed has made nothing durable. *)
LEMMA NothingStored ==
    ASSUME TypeOK, ScopesInv, NEW r \in Requests, NEW n \in ScopeIds, verdict[r][n] # "committed"
    PROVE  Store(r, n) = {}
BY DEF ScopesInv, RowsInv, Store, OfUnit

(* What is not open, or is decided, has no rows pending. *)
LEMMA NothingPending ==
    ASSUME TypeOK, ScopesInv, SettledInv, NEW r \in Requests, NEW n \in ScopeIds,
           (\A i \in DOMAIN stack[r] : stack[r][i].id # n) \/ verdict[r][n] # "none"
    PROVE  Work(r, n) = Store(r, n)
<1>1. ASSUME NEW c \in Connections, NEW row \in pending[c]
      PROVE  ~OfUnit(row, r, n)
    BY DEF ScopesInv, RowsInv, SettledInv, NewScopes, OfUnit
<1>2. QED
    BY <1>1 DEF Work, Store

(* A scope that is open is decided by its COMMIT only, as the innermost.    *)
LEMMA OpenIsUndecided ==
    ASSUME TypeOK, ScopesInv, SettledInv, NEW r \in Requests, NEW n \in ScopeIds,
           NEW i \in DOMAIN stack[r], stack[r][i].tx = n
    PROVE  /\ answer[r][n] = "none"
           /\ verdict[r][n] \in {"none", "committed"}
           /\ phase[r] = "running" => verdict[r][n] = "none"
<1>1. ~Gone(r, n)
    BY OverIsClosed
<1>2. QED
    BY <1>1 DEF ScopesInv, RowsInv, SettledInv, Settling

(* A statement adds to the work of the transaction of its scope. *)
LEMMA WriteIsUnitStep ==
    ASSUME DatabaseInv, DatabaseInv', NEW q \in Requests, Write(q),
           NEW r \in Requests, NEW n \in ScopeIds
    PROVE  [Unit(r, n)!UnitNext]_(Unit(r, n)!unitVars)
<1>1. TypeOK /\ TypeOK' /\ ScopesInv /\ SettledInv
    BY Split DEF DatabaseInv
<1>2. PICK c \in Connections : c = Current(q).conn
    BY <1>1, Innermost DEF Write, Scopes
<1>3. /\ pending' = [pending EXCEPT ![c] = pending[c] \cup {Row(q)}]
      /\ UNCHANGED <<durable, verdict, answer>> /\ InTransaction(q) /\ phase[q] = "running"
    BY <1>2 DEF Write
<1>4. \A d \in Connections : \A row : row \in pending'[d] <=>
          row \in pending[d] \/ (d = c /\ row = Row(q))
    BY <1>1, <1>3 DEF TypeOK
<1>5. Store(r, n)' = Store(r, n)
    BY <1>3 DEF Store
<1>6. CASE OfUnit(Row(q), r, n)
    <2>1. r = q /\ n = Current(q).tx
        BY <1>6 DEF OfUnit, Row
    <2>2. answer[r][n] = "none" /\ verdict[r][n] = "none"
        BY <1>1, <1>3, <2>1, Innermost, OpenIsUndecided
    <2>3. Work(r, n) \subseteq Work(r, n)' /\ Work(r, n)' \in SUBSET Rows
        BY <1>1, <1>3, <1>4, WorkRows DEF Work, TypeOK
    <2>4. Unit(r, n)!Perform
        BY <1>3, <1>5, <2>2, <2>3 DEF Unit!Perform
    <2>5. QED
        BY <2>4 DEF Unit!UnitNext
<1>7. CASE ~OfUnit(Row(q), r, n)
    <2>1. Work(r, n)' = Work(r, n)
        BY <1>3, <1>4, <1>7 DEF Work
    <2>2. QED
        BY <1>3, <1>5, <2>1, UnitStutters
<1>8. QED
    BY <1>6, <1>7

(* A call that fails before it has a transaction is answered, no more. *)
LEMMA FailureIsUnitStep ==
    ASSUME DatabaseInv, DatabaseInv', NEW q \in Requests, Waits(q) \/ LoseConnection(q),
           NEW r \in Requests, NEW n \in ScopeIds
    PROVE  [Unit(r, n)!UnitNext]_(Unit(r, n)!unitVars)
<1>1. TypeOK /\ PhaseInv /\ ScopesInv
    BY Split
<1>2. CASE UNCHANGED answer
    <2>1. UNCHANGED <<pending, durable, verdict>>
        BY DEF Waits, RefuseInheritance, NewTransaction, StartWaiting, ConnectionTimeout,
               BlockThrows, CommitThrows, CatchInBlock, Finish, Cancel, LoseConnection
    <2>2. Store(r, n)' = Store(r, n) /\ Work(r, n)' = Work(r, n)
        BY <2>1 DEF Store, Work
    <2>3. QED
        BY <1>2, <2>1, <2>2, UnitStutters
<1>3. ASSUME NEW m \in ScopeIds,
             Failing(q, m) /\ m <= opened'[q] /\ ~Passed(q, m),
             \A i \in DOMAIN stack[q] : stack[q][i].id # m
      PROVE  [Unit(r, n)!UnitNext]_(Unit(r, n)!unitVars)
    <2>1. /\ UNCHANGED <<pending, durable, verdict>>
          /\ answer' = [answer EXCEPT ![q] = [answer[q] EXCEPT ![m] = "error"]]
          /\ answer[q][m] = "none"
        BY <1>1, <1>3, FailingAnswers DEF Failing, Throws, Answers
    <2>2. Store(r, n)' = Store(r, n) /\ Work(r, n)' = Work(r, n)
        BY <2>1 DEF Store, Work
    <2>3. CASE r = q /\ n = m
        <3>1. answer[r][n] = "none" /\ answer'[r][n] = "error"
            BY <1>1, <2>1, <2>3 DEF TypeOK
        <3>2. Unit(r, n)!Reply("error")
            BY <2>1, <2>2, <3>1 DEF Unit!Reply
        <3>3. QED
            BY <3>2 DEF Unit!UnitNext
    <2>4. CASE ~(r = q /\ n = m)
        <3>1. answer'[r][n] = answer[r][n]
            BY <1>1, <2>1, <2>4 DEF TypeOK
        <3>2. QED
            BY <2>1, <2>2, <3>1, UnitStutters
    <2>5. QED
        BY <2>3, <2>4
<1>4. QED
    BY <1>1, <1>2, <1>3, Failures

(* COMMIT makes the work of its unit durable, and of no other. *)
LEMMA CommitIsUnitStep ==
    ASSUME DatabaseInv, NEW q \in Requests, ExecuteCommit(q),
           NEW r \in Requests, NEW n \in ScopeIds
    PROVE  [Unit(r, n)!UnitNext]_(Unit(r, n)!unitVars)
<1>1. /\ TypeOK /\ ConnectionInv /\ ScopesInv /\ SettledInv
      /\ InTransaction(q) /\ IsNew(Current(q)) /\ phase[q] = "running"
    BY Split DEF ExecuteCommit
<1>2. PICK c \in Connections, id \in ScopeIds : c = Current(q).conn /\ id = Current(q).id
    BY <1>1, Innermost DEF Scopes
<1>3. /\ pending' = [pending EXCEPT ![c] = {}]
      /\ durable' = durable \cup pending[c]
      /\ verdict' = [verdict EXCEPT ![q] = [verdict[q] EXCEPT ![id] = "committed"]]
      /\ UNCHANGED answer
    BY <1>2 DEF ExecuteCommit, Decides
<1>4. \A d \in Connections : \A row \in pending[d] : d = c <=> OfUnit(row, q, id)
    BY <1>1, <1>2, OwnRows
<1>5. \A d \in Connections : \A row : row \in pending'[d] <=> row \in pending[d] /\ d # c
    BY <1>1, <1>3 DEF TypeOK
<1>6. CASE r = q /\ n = id
    <2>1. answer[r][n] = "none" /\ verdict[r][n] = "none"
        BY <1>1, <1>2, <1>6, Innermost, OpenIsUndecided DEF IsNew
    <2>2. Store(r, n) = {}
        BY <1>1, <2>1, NothingStored
    <2>3. Work(r, n) = pending[c]
        BY <1>4, <1>6, <2>2 DEF Work, Store
    <2>4. Store(r, n)' = pending[c]
        BY <1>3, <1>4, <1>6, <2>2 DEF Store
    <2>5. Work(r, n)' = pending[c]
        BY <1>3, <1>4, <1>5, <1>6, <2>2 DEF Work, Store
    <2>6. verdict'[r][n] = "committed"
        BY <1>1, <1>3, <1>6 DEF TypeOK
    <2>7. Unit(r, n)!Commit
        BY <1>3, <2>1, <2>3, <2>4, <2>5, <2>6 DEF Unit!Commit
    <2>8. QED
        BY <2>7 DEF Unit!UnitNext
<1>7. CASE ~(r = q /\ n = id)
    <2>1. verdict'[r][n] = verdict[r][n]
        BY <1>1, <1>3, <1>7 DEF TypeOK
    <2>2. \A row \in pending[c] : ~OfUnit(row, r, n)
        BY <1>4, <1>7 DEF OfUnit
    <2>3. Store(r, n)' = Store(r, n)
        BY <1>3, <2>2 DEF Store
    <2>4. Work(r, n)' = Work(r, n)
        BY <1>3, <1>5, <2>2 DEF Work
    <2>5. QED
        BY <1>3, <2>1, <2>3, <2>4, UnitStutters
<1>8. QED
    BY <1>6, <1>7

(* Leaving a new scope answers its caller, and drops what is not committed. *)
LEMMA LeaveIsUnitStep ==
    ASSUME DatabaseInv, NEW q \in Requests, CommitReturns(q) \/ UnwindNew(q),
           NEW r \in Requests, NEW n \in ScopeIds
    PROVE  [Unit(r, n)!UnitNext]_(Unit(r, n)!unitVars)
<1>1. /\ TypeOK /\ PhaseInv /\ ConnectionInv /\ ScopesInv /\ SettledInv
      /\ InTransaction(q) /\ IsNew(Current(q))
    BY Split DEF CommitReturns, UnwindNew, PhaseInv, SettledInv, Settling
<1>2. PICK c \in Connections, id \in ScopeIds : c = Current(q).conn /\ id = Current(q).id
    BY <1>1, Innermost DEF Scopes
<1>3. /\ pending' = [pending EXCEPT ![c] = {}]
      /\ UNCHANGED durable
      /\ \/ /\ verdict[q][id] = "committed"
            /\ answer' = [answer EXCEPT ![q] = [answer[q] EXCEPT ![id] = "ok"]]
            /\ UNCHANGED verdict
         \/ /\ answer' = [answer EXCEPT ![q] = [answer[q] EXCEPT ![id] = "error"]]
            /\ verdict' = [verdict EXCEPT ![q] = [verdict[q] EXCEPT ![id] =
                              IF verdict[q][id] = "committed" THEN "committed" ELSE "rolledback"]]
    BY <1>1, <1>2 DEF CommitReturns, UnwindNew, Throws, Answers, RollsBack, Decides, Evict, SettledInv
<1>4. \A d \in Connections : \A row \in pending[d] : d = c <=> OfUnit(row, q, id)
    BY <1>1, <1>2, OwnRows
<1>5. \A d \in Connections : \A row : row \in pending'[d] <=> row \in pending[d] /\ d # c
    BY <1>1, <1>3 DEF TypeOK
<1>6. Store(r, n)' = Store(r, n)
    BY <1>3 DEF Store
<1>7. CASE r = q /\ n = id
    <2>1. answer[r][n] = "none" /\ verdict[r][n] \in {"none", "committed"}
        BY <1>1, <1>2, <1>7, Innermost, OpenIsUndecided DEF IsNew
    <2>2. Work(r, n)' = Store(r, n)
        BY <1>3, <1>4, <1>5, <1>7 DEF Work, Store
    <2>3. CASE verdict[r][n] = "committed"
        <3>1. Work(r, n)' = Work(r, n)
            BY <1>1, <2>2, <2>3, NothingPending
        <3>2. verdict'[r][n] = verdict[r][n] /\ answer'[r][n] \in {"ok", "error"}
            BY <1>1, <1>3, <1>7, <2>3 DEF TypeOK
        <3>3. PICK a \in {"ok", "error"} : answer'[r][n] = a
            BY <3>2
        <3>4. Unit(r, n)!Reply(a)
            BY <1>6, <2>1, <2>3, <3>1, <3>2, <3>3 DEF Unit!Reply
        <3>5. QED
            BY <3>4 DEF Unit!UnitNext
    <2>4. CASE verdict[r][n] = "none"
        <3>1. Work(r, n)' = {}
            BY <1>1, <2>2, <2>4, NothingStored
        <3>2. verdict'[r][n] = "rolledback" /\ answer'[r][n] = "error"
            BY <1>1, <1>3, <1>7, <2>4 DEF TypeOK
        <3>3. Unit(r, n)!Discard
            BY <1>6, <2>4, <3>1, <3>2 DEF Unit!Discard
        <3>4. QED
            BY <3>3 DEF Unit!UnitNext
    <2>5. QED
        BY <2>1, <2>3, <2>4
<1>8. CASE ~(r = q /\ n = id)
    <2>1. answer'[r][n] = answer[r][n] /\ verdict'[r][n] = verdict[r][n]
        BY <1>1, <1>3, <1>8 DEF TypeOK
    <2>2. Work(r, n)' = Work(r, n)
        BY <1>3, <1>4, <1>5, <1>8 DEF Work, OfUnit
    <2>3. QED
        BY <1>6, <2>1, <2>2, UnitStutters
<1>9. QED
    BY <1>7, <1>8

LEMMA UnitStep ==
    ASSUME DatabaseInv, DatabaseInv', [Next]_vars, NEW r \in Requests, NEW n \in ScopeIds
    PROVE  [Unit(r, n)!UnitNext]_(Unit(r, n)!unitVars)
<1>1. CASE UNCHANGED <<pending, durable, verdict, answer>>
    <2>1. Store(r, n)' = Store(r, n) /\ Work(r, n)' = Work(r, n)
        BY <1>1 DEF Store, Work
    <2>2. QED
        BY <1>1, <2>1, UnitStutters
<1>2. CASE UNCHANGED vars
    BY <1>1, <1>2 DEF vars
<1>3. ASSUME NEW q \in Requests,
             CallTransaction(q) \/ Proceed(q) \/ Write(q) \/ CatchInBlock(q)
                 \/ ConnectionTimeout(q) \/ Cancel(q)
      PROVE  [Unit(r, n)!UnitNext]_(Unit(r, n)!unitVars)
    <2>1. CASE \/ \E options \in Options : InheritTransaction(q, options) \/ EnterBlock(q, options)
               \/ \E c \in Connections : GetConnection(q, c)
               \/ InheritedReturns(q) \/ UnwindInherited(q)
        BY <1>1, <2>1 DEF InheritTransaction, EnterBlock, GetConnection, InheritedReturns,
                          UnwindInherited
    <2>2. QED
        BY <1>3, <2>1, WriteIsUnitStep, FailureIsUnitStep, CommitIsUnitStep, LeaveIsUnitStep
           DEF CallTransaction, Proceed, Waits
<1>4. QED
    BY <1>2, <1>3 DEF Next, Terminated

LEMMA UnitsBegin ==
    ASSUME Init, NEW r \in Requests, NEW n \in ScopeIds
    PROVE  Unit(r, n)!UnitInit
BY DEF Init, Unit!UnitInit, Work, Store

(* Each transaction of each request, whatever is nested in it and whatever  *)
(* goes on beside it, keeps the promise of the unit of work.                *)
THEOREM EveryTransactionIsAUnit ==
    ASSUME NEW r \in Requests, NEW n \in ScopeIds
    PROVE  Spec => Unit(r, n)!UnitSafety
<1>1. Init => Unit(r, n)!UnitInit
    BY UnitsBegin
<1>2. DatabaseInv /\ DatabaseInv' /\ [Next]_vars
          => [Unit(r, n)!UnitNext]_(Unit(r, n)!unitVars)
    BY UnitStep
<1>3. QED
    BY <1>1, <1>2, Invariance, PTL DEF Spec, Unit!UnitSafety

(* All of them do: the refinement as the run checks it.                     *)
THEOREM AllTransactionsAreUnits == Spec => TransactionsAreUnits
<1> DEFINE Started == \A r \in Requests, n \in ScopeIds : Unit(r, n)!UnitInit
           Steps == <<pending, durable, verdict, answer>>' # <<pending, durable, verdict, answer>> =>
                        \A r \in Requests, n \in ScopeIds :
                            [Unit(r, n)!UnitNext]_(Unit(r, n)!unitVars)
<1>1. Init => Started
    BY UnitsBegin
<1>2. DatabaseInv /\ DatabaseInv' /\ [Next]_vars => [Steps]_vars
    BY UnitStep
<1> HIDE DEF Started, Steps
<1>3. Spec => Started /\ [][Steps]_vars
    BY <1>1, <1>2, Invariance, PTL DEF Spec
<1>4. QED
    BY <1>3 DEF TransactionsAreUnits, Started, Steps

(* At any time, of what all scopes of a transaction have written, all is    *)
(* durable or nothing, and all once newTransaction() has returned.          *)
THEOREM TransactionsAreAtomic ==
    Spec => [](\A r \in Requests, n \in ScopeIds : Unit(r, n)!AllOrNothing)
<1>1. ASSUME DatabaseInv, NEW r \in Requests, NEW n \in ScopeIds
      PROVE  Unit(r, n)!AllOrNothing
    <2>1. TypeOK /\ ScopesInv /\ SettledInv
        BY <1>1, Split
    <2>2. CASE verdict[r][n] = "committed"
        BY <2>1, <2>2, NothingPending DEF Unit!AllOrNothing
    <2>3. CASE verdict[r][n] # "committed"
        BY <2>1, <2>3, NothingStored DEF Unit!AllOrNothing, SettledInv
    <2>4. QED
        BY <2>2, <2>3
<1>2. DatabaseInv => \A r \in Requests, n \in ScopeIds : Unit(r, n)!AllOrNothing
    BY <1>1
<1>3. QED
    BY <1>2, Invariance, PTL

(* Neither what newTransaction() has told its caller nor what the server    *)
(* has decided changes again, and after any answer what is stored stays as  *)
(* it is, whatever the request and the others go on to do.                  *)
THEOREM TransactionsAreFinal ==
    ASSUME NEW r \in Requests, NEW n \in ScopeIds
    PROVE  Spec => Unit(r, n)!NothingAfterTheAnswer
<1> DEFINE Final ==
            /\ answer[r][n] # "none" =>
                   (answer[r][n])' = answer[r][n] /\ Store(r, n)' = Store(r, n)
            /\ answer[r][n] = "ok" => Work(r, n)' = Work(r, n)
            /\ verdict[r][n] # "none" =>
                   (verdict[r][n])' = verdict[r][n] /\ Work(r, n)' = Work(r, n)
<1>1. Unit(r, n)!UnitInit => Unit(r, n)!UnitInv
    BY DEF Unit!UnitInit, Unit!UnitInv, Unit!UnitTypeOK, Unit!Verdicts, Unit!Replies
<1>2. ASSUME Unit(r, n)!UnitInv, [Unit(r, n)!UnitNext]_(Unit(r, n)!unitVars)
      PROVE  Unit(r, n)!UnitInv' /\ [Final]_(Unit(r, n)!unitVars)
    <2> USE <1>2 DEF Unit!UnitInv, Unit!UnitTypeOK, Unit!Verdicts, Unit!Replies
    <2>1. CASE Unit(r, n)!Perform
        BY <2>1 DEF Unit!Perform
    <2>2. CASE Unit(r, n)!Commit
        BY <2>2 DEF Unit!Commit
    <2>3. CASE Unit(r, n)!Discard
        BY <2>3 DEF Unit!Discard
    <2>4. ASSUME NEW a \in {"ok", "error"}, Unit(r, n)!Reply(a)
          PROVE  Unit(r, n)!UnitInv' /\ [Final]_(Unit(r, n)!unitVars)
        BY <2>4 DEF Unit!Reply
    <2>5. CASE UNCHANGED Unit(r, n)!unitVars
        BY <2>5 DEF Unit!unitVars
    <2>6. QED
        BY <2>1, <2>2, <2>3, <2>4, <2>5 DEF Unit!UnitNext
<1>3. Spec => Unit(r, n)!UnitSafety
    BY EveryTransactionIsAUnit
<1> QED
    BY <1>1, <1>2, <1>3, PTL DEF Unit!UnitSafety, Unit!NothingAfterTheAnswer
=============================================================================
