------------------------ MODULE UserAccountsProofs ------------------------
(***************************************************************************)
(* AccountsInv is an invariant of UserAccounts for every set of requests,  *)
(* addresses, spellings and passwords and any number of faults, and with   *)
(* it what the runs check of answers, lists and duplicate users.           *)
(***************************************************************************)
EXTENDS UserAccounts, TLAPS

(* Nothing is sent and nothing is stored yet. *)
LEMMA InitAccountsInv == Init => AccountsInv
<1> SUFFICES ASSUME Init
             PROVE  AccountsInv
  OBVIOUS
<1>1. TypeOK
  BY DEF Init, TypeOK, Phases, Statuses
<1>2. PhaseInv
  BY DEF Init, PhaseInv, Is, Replied, Ended, Nothing
<1>3. RowsInv
  BY DEF Init, RowsInv
<1>4. ActorInv
  BY DEF Init, ActorInv, Is, Nothing
<1>5. LookUpInv
  BY DEF Init, LookUpInv, Is, Nothing
<1>6. AnswersAreTrue
  BY DEF Init, AnswersAreTrue
<1>7. InternalErrorsHaveACause
  BY DEF Init, InternalErrorsHaveACause
<1> QED
  BY <1>1, <1>2, <1>3, <1>4, <1>5, <1>6, <1>7 DEF AccountsInv

(* Type correctness is preserved. *)
LEMMA TypeStep ==
    ASSUME AccountsInv, [Next]_vars
    PROVE  TypeOK'
<1> USE AccountsAssumption
<1>1. ASSUME NEW r \in Requests, NEW m \in Messages, Send(r, m)
      PROVE  TypeOK'
  BY <1>1 DEF AccountsInv, Send, tables, Enters, TypeOK, Phases
<1>2. ASSUME NEW r \in Requests, Authenticate(r)
      PROVE  TypeOK'
  BY <1>2
     DEF AccountsInv, Authenticate, tables, client, Enters, TypeOK, Phases,
         Principal
<1>3. ASSUME NEW r \in Requests, RefuseInvalid(r)
      PROVE  TypeOK'
  BY <1>3
     DEF AccountsInv, RefuseInvalid, tables, client, Enters, Answers, TypeOK,
         Phases, Statuses
<1>4. ASSUME NEW r \in Requests, FindNoUser(r)
      PROVE  TypeOK'
  BY <1>4 DEF AccountsInv, FindNoUser, tables, client, Enters, TypeOK, Phases
<1>5. ASSUME NEW r \in Requests, RefuseDuplicate(r)
      PROVE  TypeOK'
  BY <1>5
     DEF AccountsInv, RefuseDuplicate, tables, client, Enters, Answers,
         TypeOK, Phases, Statuses
<1>6. ASSUME NEW r \in Requests, FindUser(r)
      PROVE  TypeOK'
  BY <1>6
     DEF AccountsInv, FindUser, tables, client, Enters, TypeOK, Phases, Found, Selected
<1>7. ASSUME NEW r \in Requests, RefuseLogin(r)
      PROVE  TypeOK'
  BY <1>7
     DEF AccountsInv, RefuseLogin, tables, client, Enters, Answers, TypeOK,
         Phases, Statuses
<1>8. ASSUME NEW r \in Requests, FindTooManyUsers(r)
      PROVE  TypeOK'
  BY <1>8
     DEF AccountsInv, FindTooManyUsers, tables, client, Enters, Answers,
         TypeOK, Phases, Statuses
<1>9. ASSUME NEW r \in Requests, Forbid(r)
      PROVE  TypeOK'
  BY <1>9
     DEF AccountsInv, Forbid, tables, client, Enters, Answers, TypeOK, Phases,
         Statuses
<1>10. ASSUME NEW r \in Requests, List(r)
      PROVE  TypeOK'
  BY <1>10
     DEF AccountsInv, List, tables, client, Enters, TypeOK, Phases, Passing
<1>11. ASSUME NEW r \in Requests, Insert(r)
      PROVE  TypeOK'
  BY <1>11 DEF AccountsInv, Insert, tables, client, Enters, TypeOK, Phases
<1>12. ASSUME NEW r \in Requests, Commit(r)
      PROVE  TypeOK'
  BY <1>12
     DEF AccountsInv, Commit, client, Enters, Answers, TypeOK, Phases,
         Statuses, StoresRow, Success
<1>13. ASSUME NEW r \in Requests, CommitAnswerLost(r)
      PROVE  TypeOK'
  BY <1>13
     DEF AccountsInv, CommitAnswerLost, client, Enters, Answers, TypeOK,
         Phases, Statuses, StoresRow, Breaks
<1>14. ASSUME NEW r \in Requests, Fail(r)
      PROVE  TypeOK'
  BY <1>14
     DEF AccountsInv, Fail, tables, client, Enters, Answers, TypeOK, Phases,
         Statuses, Breaks
<1>15. ASSUME NEW r \in Requests, Deliver(r)
      PROVE  TypeOK'
  BY <1>15 DEF AccountsInv, Deliver, tables, Enters, TypeOK, Phases
<1>16. ASSUME NEW r \in Requests, LoseAnswer(r)
      PROVE  TypeOK'
  BY <1>16 DEF AccountsInv, LoseAnswer, tables, client, Enters, TypeOK, Phases
<1>17. ASSUME NEW r \in Requests, RefuseUnreadable(r)
      PROVE  TypeOK'
  BY <1>17
     DEF AccountsInv, RefuseUnreadable, tables, client, Enters, Answers, TypeOK,
         Phases, Statuses
<1>18. ASSUME UNCHANGED vars
      PROVE  TypeOK'
  BY <1>18 DEF AccountsInv, vars, tables, client, TypeOK
<1> QED
  BY <1>1, <1>2, <1>3, <1>4, <1>5, <1>6, <1>7, <1>8, <1>9,
     <1>10, <1>11, <1>12, <1>13, <1>14, <1>15, <1>16, <1>17, <1>18
     DEF Next, Handle, Terminated

(* A request keeps the message it was sent with, and has a status exactly *)
(* when it is answered. *)
LEMMA PhaseStep ==
    ASSUME AccountsInv, [Next]_vars
    PROVE  PhaseInv'
<1> USE DEF Valid
<1>1. ASSUME NEW r \in Requests, NEW m \in Messages, Send(r, m)
      PROVE  PhaseInv'
  BY <1>1
     DEF AccountsInv, Send, tables, Enters, TypeOK, PhaseInv, Replied, Is,
         Ended
<1>2. ASSUME NEW r \in Requests, Authenticate(r)
      PROVE  PhaseInv'
  BY <1>2
     DEF AccountsInv, Authenticate, tables, client, Enters, TypeOK, PhaseInv,
         Replied, Is, Ended
<1>3. ASSUME NEW r \in Requests, RefuseInvalid(r)
      PROVE  PhaseInv'
  BY <1>3
     DEF AccountsInv, RefuseInvalid, tables, client, Enters, Answers, TypeOK,
         PhaseInv, Replied, Is, Ended
<1>4. ASSUME NEW r \in Requests, FindNoUser(r)
      PROVE  PhaseInv'
  BY <1>4
     DEF AccountsInv, FindNoUser, tables, client, Enters, TypeOK, PhaseInv,
         Replied, Is, Ended, Acts
<1>5. ASSUME NEW r \in Requests, RefuseDuplicate(r)
      PROVE  PhaseInv'
  BY <1>5
     DEF AccountsInv, RefuseDuplicate, tables, client, Enters, Answers,
         TypeOK, PhaseInv, Replied, Is, Ended, Acts
<1>6. ASSUME NEW r \in Requests, FindUser(r)
      PROVE  PhaseInv'
  BY <1>6
     DEF AccountsInv, FindUser, tables, client, Enters, TypeOK, PhaseInv,
         Replied, Is, Ended, Acts
<1>7. ASSUME NEW r \in Requests, RefuseLogin(r)
      PROVE  PhaseInv'
  BY <1>7
     DEF AccountsInv, RefuseLogin, tables, client, Enters, Answers, TypeOK,
         PhaseInv, Replied, Is, Ended, Acts
<1>8. ASSUME NEW r \in Requests, FindTooManyUsers(r)
      PROVE  PhaseInv'
  BY <1>8
     DEF AccountsInv, FindTooManyUsers, tables, client, Enters, Answers,
         TypeOK, PhaseInv, Replied, Is, Ended, Acts
<1>9. ASSUME NEW r \in Requests, Forbid(r)
      PROVE  PhaseInv'
  BY <1>9
     DEF AccountsInv, Forbid, tables, client, Enters, Answers, TypeOK,
         PhaseInv, Replied, Is, Ended, Nothing, Acts
<1>10. ASSUME NEW r \in Requests, List(r)
      PROVE  PhaseInv'
  BY <1>10
     DEF AccountsInv, List, tables, client, Enters, TypeOK, PhaseInv, Replied,
         Is, Ended, Acts
<1>11. ASSUME NEW r \in Requests, Insert(r)
      PROVE  PhaseInv'
  BY <1>11
     DEF AccountsInv, Insert, tables, client, Enters, TypeOK, PhaseInv,
         Replied, Is, Ended
<1>12. ASSUME NEW r \in Requests, Commit(r)
      PROVE  PhaseInv'
  BY <1>12
     DEF AccountsInv, Commit, client, Enters, Answers, TypeOK, PhaseInv,
         Replied, Is, Ended, Success
<1>13. ASSUME NEW r \in Requests, CommitAnswerLost(r)
      PROVE  PhaseInv'
  BY <1>13
     DEF AccountsInv, CommitAnswerLost, client, Enters, Answers, TypeOK,
         PhaseInv, Replied, Is, Ended
<1>14. ASSUME NEW r \in Requests, Fail(r)
      PROVE  PhaseInv'
  BY <1>14
     DEF AccountsInv, Fail, tables, client, Enters, Answers, TypeOK, PhaseInv,
         Replied, Is, Ended
<1>15. ASSUME NEW r \in Requests, Deliver(r)
      PROVE  PhaseInv'
  BY <1>15
     DEF AccountsInv, Deliver, tables, Enters, TypeOK, PhaseInv, Replied, Is,
         Ended
<1>16. ASSUME NEW r \in Requests, LoseAnswer(r)
      PROVE  PhaseInv'
  BY <1>16
     DEF AccountsInv, LoseAnswer, tables, client, Enters, TypeOK, PhaseInv,
         Replied, Is, Ended
<1>17. ASSUME NEW r \in Requests, RefuseUnreadable(r)
      PROVE  PhaseInv'
  BY <1>17
     DEF AccountsInv, RefuseUnreadable, tables, client, Enters, Answers, TypeOK,
         PhaseInv, Replied, Is, Ended
<1>18. ASSUME UNCHANGED vars
      PROVE  PhaseInv'
  BY <1>18
     DEF AccountsInv, vars, tables, client, TypeOK, PhaseInv, Replied, Is
<1> QED
  BY <1>1, <1>2, <1>3, <1>4, <1>5, <1>6, <1>7, <1>8, <1>9,
     <1>10, <1>11, <1>12, <1>13, <1>14, <1>15, <1>16, <1>17, <1>18
     DEF Next, Handle, Terminated

(* Rows stem from answered requests of their kind; a session belongs to the *)
(* user whose password its login knew, and a token is a stored session. *)
LEMMA RowsStep ==
    ASSUME AccountsInv, [Next]_vars
    PROVE  RowsInv'
<1>1. ASSUME NEW r \in Requests, NEW m \in Messages, Send(r, m)
      PROVE  RowsInv'
  BY <1>1
     DEF AccountsInv, Send, tables, Enters, TypeOK, Is, Ended, RowsInv,
         Matched, Selected, SameAddress
<1>2. ASSUME NEW r \in Requests, Authenticate(r)
      PROVE  RowsInv'
  BY <1>2
     DEF AccountsInv, Authenticate, tables, client, Enters, TypeOK, Is, Ended,
         RowsInv, Matched, Selected, SameAddress
<1>3. ASSUME NEW r \in Requests, RefuseInvalid(r)
      PROVE  RowsInv'
  BY <1>3
     DEF AccountsInv, RefuseInvalid, tables, client, Enters, Answers, TypeOK,
         Is, Ended, RowsInv, Matched, Selected, SameAddress
<1>4. ASSUME NEW r \in Requests, FindNoUser(r)
      PROVE  RowsInv'
  BY <1>4
     DEF AccountsInv, FindNoUser, tables, client, Enters, TypeOK, Is, Ended,
         RowsInv, Matched, Selected, SameAddress, Acts
<1>5. ASSUME NEW r \in Requests, RefuseDuplicate(r)
      PROVE  RowsInv'
  BY <1>5
     DEF AccountsInv, RefuseDuplicate, tables, client, Enters, Answers,
         TypeOK, Is, Ended, RowsInv, Matched, Selected, SameAddress
<1>6. ASSUME NEW r \in Requests, FindUser(r)
      PROVE  RowsInv'
  BY <1>6
     DEF AccountsInv, FindUser, tables, client, Enters, TypeOK, Is, Ended,
         RowsInv, Matched, Selected, SameAddress, Acts, Found, Selected
<1>7. ASSUME NEW r \in Requests, RefuseLogin(r)
      PROVE  RowsInv'
  BY <1>7
     DEF AccountsInv, RefuseLogin, tables, client, Enters, Answers, TypeOK,
         Is, Ended, RowsInv, Matched, Selected, SameAddress
<1>8. ASSUME NEW r \in Requests, FindTooManyUsers(r)
      PROVE  RowsInv'
  BY <1>8
     DEF AccountsInv, FindTooManyUsers, tables, client, Enters, Answers,
         TypeOK, Is, Ended, RowsInv, Matched, Selected, SameAddress
<1>9. ASSUME NEW r \in Requests, Forbid(r)
      PROVE  RowsInv'
  BY <1>9
     DEF AccountsInv, Forbid, tables, client, Enters, Answers, TypeOK, Is,
         Ended, RowsInv, Matched, Selected, SameAddress
<1>10. ASSUME NEW r \in Requests, List(r)
      PROVE  RowsInv'
  BY <1>10
     DEF AccountsInv, List, tables, client, Enters, TypeOK, Is, RowsInv,
         Matched, Selected, SameAddress, Acts
<1>11. ASSUME NEW r \in Requests, Insert(r)
      PROVE  RowsInv'
  BY <1>11
     DEF AccountsInv, Insert, tables, client, Enters, TypeOK, Is, Ended,
         RowsInv, Matched, Selected, SameAddress
<1>12. ASSUME NEW r \in Requests, Commit(r)
      PROVE  RowsInv'
  BY <1>12
     DEF AccountsInv, Commit, client, Enters, Answers, TypeOK, Is, Ended,
         RowsInv, Matched, Selected, SameAddress, StoresRow
<1>13. ASSUME NEW r \in Requests, CommitAnswerLost(r)
      PROVE  RowsInv'
  BY <1>13
     DEF AccountsInv, CommitAnswerLost, client, Enters, Answers, TypeOK, Is,
         Ended, RowsInv, Matched, Selected, SameAddress, StoresRow
<1>14. ASSUME NEW r \in Requests, Fail(r)
      PROVE  RowsInv'
  BY <1>14
     DEF AccountsInv, Fail, tables, client, Enters, Answers, TypeOK, Is,
         Ended, RowsInv, Matched, Selected, SameAddress
<1>15. ASSUME NEW r \in Requests, Deliver(r)
      PROVE  RowsInv'
  BY <1>15
     DEF AccountsInv, Deliver, tables, Enters, TypeOK, Is, Ended, RowsInv,
         Matched, Selected, SameAddress, AnswersAreTrue
<1>16. ASSUME NEW r \in Requests, LoseAnswer(r)
      PROVE  RowsInv'
  BY <1>16
     DEF AccountsInv, LoseAnswer, tables, client, Enters, TypeOK, Is, Ended,
         RowsInv, Matched, Selected, SameAddress
<1>17. ASSUME NEW r \in Requests, RefuseUnreadable(r)
      PROVE  RowsInv'
  BY <1>17
     DEF AccountsInv, RefuseUnreadable, tables, client, Enters, Answers, TypeOK,
         Is, Ended, RowsInv, Matched, Selected, SameAddress
<1>18. ASSUME UNCHANGED vars
      PROVE  RowsInv'
  BY <1>18
     DEF AccountsInv, vars, tables, client, TypeOK, Is, RowsInv, Matched,
         Selected, SameAddress
<1> QED
  BY <1>1, <1>2, <1>3, <1>4, <1>5, <1>6, <1>7, <1>8, <1>9,
     <1>10, <1>11, <1>12, <1>13, <1>14, <1>15, <1>16, <1>17, <1>18
     DEF Next, Handle, Terminated

(* A list acts for the user that its token stands for. *)
LEMMA ActorStep ==
    ASSUME AccountsInv, [Next]_vars
    PROVE  ActorInv'
<1> USE AccountsAssumption
<1>1. ASSUME NEW r \in Requests, NEW m \in Messages, Send(r, m)
      PROVE  ActorInv'
  BY <1>1
     DEF AccountsInv, Send, tables, Enters, TypeOK, PhaseInv, Is, ActorInv
<1>2. ASSUME NEW r \in Requests, Authenticate(r)
      PROVE  ActorInv'
  BY <1>2
     DEF AccountsInv, Authenticate, tables, client, Enters, TypeOK, PhaseInv,
         Is, ActorInv, Principal, RowsInv, Matched, Selected, Ended
<1>3. ASSUME NEW r \in Requests, RefuseInvalid(r)
      PROVE  ActorInv'
  BY <1>3
     DEF AccountsInv, RefuseInvalid, tables, client, Enters, Answers, TypeOK,
         Is, ActorInv
<1>4. ASSUME NEW r \in Requests, FindNoUser(r)
      PROVE  ActorInv'
  BY <1>4
     DEF AccountsInv, FindNoUser, tables, client, Enters, TypeOK, Is, ActorInv
<1>5. ASSUME NEW r \in Requests, RefuseDuplicate(r)
      PROVE  ActorInv'
  BY <1>5
     DEF AccountsInv, RefuseDuplicate, tables, client, Enters, Answers,
         TypeOK, Is, ActorInv
<1>6. ASSUME NEW r \in Requests, FindUser(r)
      PROVE  ActorInv'
  BY <1>6
     DEF AccountsInv, FindUser, tables, client, Enters, TypeOK, Is, Ended,
         RowsInv, ActorInv, Acts
<1>7. ASSUME NEW r \in Requests, RefuseLogin(r)
      PROVE  ActorInv'
  BY <1>7
     DEF AccountsInv, RefuseLogin, tables, client, Enters, Answers, TypeOK,
         Is, ActorInv
<1>8. ASSUME NEW r \in Requests, FindTooManyUsers(r)
      PROVE  ActorInv'
  BY <1>8
     DEF AccountsInv, FindTooManyUsers, tables, client, Enters, Answers,
         TypeOK, Is, ActorInv
<1>9. ASSUME NEW r \in Requests, Forbid(r)
      PROVE  ActorInv'
  BY <1>9
     DEF AccountsInv, Forbid, tables, client, Enters, Answers, TypeOK, Is,
         ActorInv
<1>10. ASSUME NEW r \in Requests, List(r)
      PROVE  ActorInv'
  BY <1>10 DEF AccountsInv, List, tables, client, Enters, TypeOK, Is, ActorInv
<1>11. ASSUME NEW r \in Requests, Insert(r)
      PROVE  ActorInv'
  BY <1>11
     DEF AccountsInv, Insert, tables, client, Enters, TypeOK, PhaseInv, Is,
         ActorInv
<1>12. ASSUME NEW r \in Requests, Commit(r)
      PROVE  ActorInv'
  BY <1>12
     DEF AccountsInv, Commit, client, Enters, Answers, TypeOK, Is, ActorInv
<1>13. ASSUME NEW r \in Requests, CommitAnswerLost(r)
      PROVE  ActorInv'
  BY <1>13
     DEF AccountsInv, CommitAnswerLost, client, Enters, Answers, TypeOK, Is,
         ActorInv
<1>14. ASSUME NEW r \in Requests, Fail(r)
      PROVE  ActorInv'
  BY <1>14
     DEF AccountsInv, Fail, tables, client, Enters, Answers, TypeOK, Is,
         ActorInv
<1>15. ASSUME NEW r \in Requests, Deliver(r)
      PROVE  ActorInv'
  BY <1>15
     DEF AccountsInv, Deliver, tables, Enters, TypeOK, PhaseInv, Replied, Is,
         Ended, Nothing, RowsInv, ActorInv
<1>16. ASSUME NEW r \in Requests, LoseAnswer(r)
      PROVE  ActorInv'
  BY <1>16
     DEF AccountsInv, LoseAnswer, tables, client, Enters, TypeOK, Is, ActorInv
<1>17. ASSUME NEW r \in Requests, RefuseUnreadable(r)
      PROVE  ActorInv'
  BY <1>17
     DEF AccountsInv, RefuseUnreadable, tables, client, Enters, Answers, TypeOK,
         Is, ActorInv
<1>18. ASSUME UNCHANGED vars
      PROVE  ActorInv'
  BY <1>18 DEF AccountsInv, vars, tables, client, TypeOK, Is, ActorInv
<1> QED
  BY <1>1, <1>2, <1>3, <1>4, <1>5, <1>6, <1>7, <1>8, <1>9,
     <1>10, <1>11, <1>12, <1>13, <1>14, <1>15, <1>16, <1>17, <1>18
     DEF Next, Handle, Terminated

(* What a look-up has excluded among the earlier users stays excluded. *)
LEMMA LookUpStep ==
    ASSUME AccountsInv, [Next]_vars
    PROVE  LookUpInv'
<1>1. ASSUME NEW r \in Requests, NEW m \in Messages, Send(r, m)
      PROVE  LookUpInv'
  <2>1. /\ r \notin users \cup sessions
        /\ \A q \in Requests : earlier[q] \subseteq users
        /\ \A q \in Requests : message[q].kind = "list" => listed[q] \subseteq Requests
    BY <1>1 DEF AccountsInv, Send, TypeOK, RowsInv, Ended, LookUpInv
  <2>2. /\ phase'[r] = "received" /\ status[r] = 0 /\ earlier'[r] = users
        /\ \A q \in Requests \ {r} : /\ message'[q] = message[q] /\ phase'[q] = phase[q]
                                    /\ earlier'[q] = earlier[q]
        /\ UNCHANGED <<actor, listed, status, users, sessions>>
    BY <1>1 DEF AccountsInv, Send, tables, Enters, TypeOK, PhaseInv, Replied, Ended
  <2>3. \A q \in Requests \ {r} : \A u \in users :
            /\ SameAddress(q, u)' <=> SameAddress(q, u)
            /\ message'[u] = message[u]
    BY <2>1, <2>2 DEF SameAddress, AccountsInv, TypeOK
  <2>4. \A q \in Requests \ {r} :
            /\ Passing(q, earlier[q])' = Passing(q, earlier[q])
            /\ Passing(q, users)' = Passing(q, users)
    BY <2>1, <2>2, <2>3 DEF Passing
  <2> QED
    BY <2>1, <2>2, <2>3, <2>4 DEF AccountsInv, LookUpInv, Is, Selected
<1>2. ASSUME NEW r \in Requests, Authenticate(r)
      PROVE  LookUpInv'
  <2>1. /\ r \notin users \cup sessions
        /\ phase'[r] = "authenticated"
        /\ \A q \in Requests \ {r} : phase'[q] = phase[q] /\ actor'[q] = actor[q]
    BY <1>2 DEF AccountsInv, Authenticate, Enters, TypeOK, RowsInv, Ended
  <2> QED
    BY <1>2, <2>1
       DEF AccountsInv, Authenticate, tables, client, Is, LookUpInv, Selected, SameAddress, Passing
<1>3. ASSUME NEW r \in Requests, RefuseInvalid(r)
      PROVE  LookUpInv'
  BY <1>3
     DEF AccountsInv, RefuseInvalid, tables, client, Enters, Answers, TypeOK,
         Is, LookUpInv, Selected, SameAddress, Several, Passing
<1>4. ASSUME NEW r \in Requests, FindNoUser(r)
      PROVE  LookUpInv'
  BY <1>4
     DEF AccountsInv, FindNoUser, tables, client, Enters, TypeOK, Is,
         LookUpInv, Selected, SameAddress, Several, Passing, Found, Selected
<1>5. ASSUME NEW r \in Requests, RefuseDuplicate(r)
      PROVE  LookUpInv'
  BY <1>5
     DEF AccountsInv, RefuseDuplicate, tables, client, Enters, Answers,
         TypeOK, Is, LookUpInv, Selected, SameAddress, Several, Passing
<1>6. ASSUME NEW r \in Requests, FindUser(r)
      PROVE  LookUpInv'
  BY <1>6
     DEF AccountsInv, FindUser, tables, client, Enters, TypeOK, Is, LookUpInv,
         Selected, SameAddress, Several, Passing, Acts, Found, Selected
<1>7. ASSUME NEW r \in Requests, RefuseLogin(r)
      PROVE  LookUpInv'
  BY <1>7
     DEF AccountsInv, RefuseLogin, tables, client, Enters, Answers, TypeOK,
         Is, Nothing, LookUpInv, Selected, SameAddress, Passing
<1>8. ASSUME NEW r \in Requests, FindTooManyUsers(r)
      PROVE  LookUpInv'
  BY <1>8
     DEF AccountsInv, FindTooManyUsers, tables, client, Enters, Answers,
         TypeOK, Is, Nothing, LookUpInv, Selected, SameAddress, Passing
<1>9. ASSUME NEW r \in Requests, Forbid(r)
      PROVE  LookUpInv'
  BY <1>9
     DEF AccountsInv, Forbid, tables, client, Enters, Answers, TypeOK, Is,
         LookUpInv, Selected, SameAddress, Several, Passing
<1>10. ASSUME NEW r \in Requests, List(r)
      PROVE  LookUpInv'
  BY <1>10
     DEF AccountsInv, List, tables, client, Enters, TypeOK, Is, LookUpInv,
         Selected, SameAddress, Several, Passing, Acts
<1>11. ASSUME NEW r \in Requests, Insert(r)
      PROVE  LookUpInv'
  BY <1>11
     DEF AccountsInv, Insert, tables, client, Enters, TypeOK, PhaseInv, Is,
         LookUpInv, Selected, SameAddress, Several, Passing
<1>12. ASSUME NEW r \in Requests, Commit(r)
      PROVE  LookUpInv'
  BY <1>12
     DEF AccountsInv, Commit, client, Enters, Answers, TypeOK, Is, LookUpInv,
         Selected, SameAddress, Several, Passing, StoresRow
<1>13. ASSUME NEW r \in Requests, CommitAnswerLost(r)
      PROVE  LookUpInv'
  BY <1>13
     DEF AccountsInv, CommitAnswerLost, client, Enters, Answers, TypeOK, Is,
         LookUpInv, Selected, SameAddress, Several, Passing, StoresRow
<1>14. ASSUME NEW r \in Requests, Fail(r)
      PROVE  LookUpInv'
  BY <1>14
     DEF AccountsInv, Fail, tables, client, Enters, Answers, TypeOK, Is,
         LookUpInv, Selected, SameAddress, Several, Passing
<1>15. ASSUME NEW r \in Requests, Deliver(r)
      PROVE  LookUpInv'
  BY <1>15
     DEF AccountsInv, Deliver, tables, Enters, TypeOK, Is, LookUpInv,
         Selected, SameAddress, Several, Passing
<1>16. ASSUME NEW r \in Requests, LoseAnswer(r)
      PROVE  LookUpInv'
  BY <1>16
     DEF AccountsInv, LoseAnswer, tables, client, Enters, TypeOK, Is,
         LookUpInv, Selected, SameAddress, Several, Passing
<1>17. ASSUME NEW r \in Requests, RefuseUnreadable(r)
      PROVE  LookUpInv'
  BY <1>17
     DEF AccountsInv, RefuseUnreadable, tables, client, Enters, Answers, TypeOK,
         Is, LookUpInv, Selected, SameAddress, Several, Passing
<1>18. ASSUME UNCHANGED vars
      PROVE  LookUpInv'
  BY <1>18
     DEF AccountsInv, vars, tables, client, TypeOK, Is, LookUpInv,
         Selected, SameAddress, Several, Passing
<1> QED
  BY <1>1, <1>2, <1>3, <1>4, <1>5, <1>6, <1>7, <1>8, <1>9,
     <1>10, <1>11, <1>12, <1>13, <1>14, <1>15, <1>16, <1>17, <1>18
     DEF Next, Handle, Terminated

(* What an answer says of the tables stays true while others are handled. *)
LEMMA AnswersStep ==
    ASSUME AccountsInv, [Next]_vars
    PROVE  AnswersAreTrue'
<1>1. ASSUME NEW r \in Requests, NEW m \in Messages, Send(r, m)
      PROVE  AnswersAreTrue'
  BY <1>1
     DEF AccountsInv, Send, tables, Enters, TypeOK, PhaseInv, Replied, Ended,
         RowsInv, AnswersAreTrue, SameAddress
<1>2. ASSUME NEW r \in Requests, Authenticate(r)
      PROVE  AnswersAreTrue'
  BY <1>2
     DEF AccountsInv, Authenticate, tables, client, Enters, TypeOK,
         AnswersAreTrue, SameAddress
<1>3. ASSUME NEW r \in Requests, RefuseInvalid(r)
      PROVE  AnswersAreTrue'
  BY <1>3
     DEF AccountsInv, RefuseInvalid, tables, client, Enters, Answers, TypeOK,
         Ended, RowsInv, AnswersAreTrue, SameAddress
<1>4. ASSUME NEW r \in Requests, FindNoUser(r)
      PROVE  AnswersAreTrue'
  BY <1>4
     DEF AccountsInv, FindNoUser, tables, client, Enters, TypeOK,
         AnswersAreTrue, SameAddress
<1>5. ASSUME NEW r \in Requests, RefuseDuplicate(r)
      PROVE  AnswersAreTrue'
  BY <1>5
     DEF AccountsInv, RefuseDuplicate, tables, client, Enters, Answers,
         TypeOK, Ended, RowsInv, AnswersAreTrue, SameAddress, Acts, Found, Selected
<1>6. ASSUME NEW r \in Requests, FindUser(r)
      PROVE  AnswersAreTrue'
  BY <1>6
     DEF AccountsInv, FindUser, tables, client, Enters, TypeOK,
         AnswersAreTrue, SameAddress
<1>7. ASSUME NEW r \in Requests, RefuseLogin(r)
      PROVE  AnswersAreTrue'
  BY <1>7
     DEF AccountsInv, RefuseLogin, tables, client, Enters, Answers, TypeOK,
         Ended, RowsInv, AnswersAreTrue, SameAddress, Acts
<1>8. ASSUME NEW r \in Requests, FindTooManyUsers(r)
      PROVE  AnswersAreTrue'
  BY <1>8
     DEF AccountsInv, FindTooManyUsers, tables, client, Enters, Answers,
         TypeOK, PhaseInv, Replied, Ended, AnswersAreTrue, SameAddress, Acts
<1>9. ASSUME NEW r \in Requests, Forbid(r)
      PROVE  AnswersAreTrue'
  BY <1>9
     DEF AccountsInv, Forbid, tables, client, Enters, Answers, TypeOK, Ended,
         RowsInv, AnswersAreTrue, SameAddress, Acts
<1>10. ASSUME NEW r \in Requests, List(r)
      PROVE  AnswersAreTrue'
  BY <1>10
     DEF AccountsInv, List, tables, client, Enters, TypeOK, AnswersAreTrue,
         SameAddress
<1>11. ASSUME NEW r \in Requests, Insert(r)
      PROVE  AnswersAreTrue'
  BY <1>11
     DEF AccountsInv, Insert, tables, client, Enters, TypeOK, AnswersAreTrue,
         SameAddress
<1>12. ASSUME NEW r \in Requests, Commit(r)
      PROVE  AnswersAreTrue'
  BY <1>12
     DEF AccountsInv, Commit, client, Enters, Answers, TypeOK, PhaseInv, Is,
         AnswersAreTrue, SameAddress, StoresRow, Success
<1>13. ASSUME NEW r \in Requests, CommitAnswerLost(r)
      PROVE  AnswersAreTrue'
  BY <1>13
     DEF AccountsInv, CommitAnswerLost, client, Enters, Answers, TypeOK,
         AnswersAreTrue, SameAddress, StoresRow, Breaks
<1>14. ASSUME NEW r \in Requests, Fail(r)
      PROVE  AnswersAreTrue'
  BY <1>14
     DEF AccountsInv, Fail, tables, client, Enters, Answers, TypeOK,
         AnswersAreTrue, SameAddress, Breaks
<1>15. ASSUME NEW r \in Requests, Deliver(r)
      PROVE  AnswersAreTrue'
  BY <1>15
     DEF AccountsInv, Deliver, tables, Enters, TypeOK, AnswersAreTrue,
         SameAddress
<1>16. ASSUME NEW r \in Requests, LoseAnswer(r)
      PROVE  AnswersAreTrue'
  BY <1>16
     DEF AccountsInv, LoseAnswer, tables, client, Enters, TypeOK,
         AnswersAreTrue, SameAddress
<1>17. ASSUME NEW r \in Requests, RefuseUnreadable(r)
      PROVE  AnswersAreTrue'
  BY <1>17
     DEF AccountsInv, RefuseUnreadable, tables, client, Enters, Answers, TypeOK,
         Ended, RowsInv, AnswersAreTrue, SameAddress
<1>18. ASSUME UNCHANGED vars
      PROVE  AnswersAreTrue'
  BY <1>18
     DEF AccountsInv, vars, tables, client, TypeOK, AnswersAreTrue,
         SameAddress
<1> QED
  BY <1>1, <1>2, <1>3, <1>4, <1>5, <1>6, <1>7, <1>8, <1>9,
     <1>10, <1>11, <1>12, <1>13, <1>14, <1>15, <1>16, <1>17, <1>18
     DEF Next, Handle, Terminated

(* Users that are found together stay: rows are never deleted or changed. *)
LEMMA SeveralStay ==
    ASSUME UNCHANGED message, users \subseteq users', NEW r, Several(Found(r))
    PROVE  Several(Found(r))'
BY DEF Several, Found, Selected, SameAddress

(* Status 500 keeps its cause: rows are never deleted. *)
LEMMA ErrorsStep ==
    ASSUME AccountsInv, [Next]_vars
    PROVE  InternalErrorsHaveACause'
<1>1. ASSUME NEW r \in Requests, NEW m \in Messages, Send(r, m)
      PROVE  InternalErrorsHaveACause'
  <2>1. r \notin users /\ status[r] = 0
    BY <1>1 DEF AccountsInv, Send, PhaseInv, Replied, RowsInv, Ended
  <2>2. /\ \A q \in Requests \ {r} : message'[q] = message[q]
        /\ UNCHANGED <<status, users, faulty>>
    BY <1>1 DEF AccountsInv, Send, tables, TypeOK
  <2>3. \A q \in Requests \ {r} : Found(q)' = Found(q)
    BY <2>1, <2>2 DEF AccountsInv, TypeOK, Found, Selected, SameAddress
  <2> QED
    BY <2>1, <2>2, <2>3 DEF AccountsInv, InternalErrorsHaveACause, Is, Several
<1>2. ASSUME NEW r \in Requests, Authenticate(r)
      PROVE  InternalErrorsHaveACause'
  BY <1>2, SeveralStay
     DEF AccountsInv, Authenticate, tables, client, Enters, TypeOK,
         InternalErrorsHaveACause, Is
<1>3. ASSUME NEW r \in Requests, RefuseInvalid(r)
      PROVE  InternalErrorsHaveACause'
  BY <1>3, SeveralStay
     DEF AccountsInv, RefuseInvalid, tables, client, Enters, Answers,
         TypeOK, InternalErrorsHaveACause, Is
<1>4. ASSUME NEW r \in Requests, FindNoUser(r)
      PROVE  InternalErrorsHaveACause'
  BY <1>4, SeveralStay
     DEF AccountsInv, FindNoUser, tables, client, Enters, TypeOK,
         InternalErrorsHaveACause, Is
<1>5. ASSUME NEW r \in Requests, RefuseDuplicate(r)
      PROVE  InternalErrorsHaveACause'
  BY <1>5, SeveralStay
     DEF AccountsInv, RefuseDuplicate, tables, client, Enters, Answers,
         TypeOK, InternalErrorsHaveACause, Is
<1>6. ASSUME NEW r \in Requests, FindUser(r)
      PROVE  InternalErrorsHaveACause'
  BY <1>6, SeveralStay
     DEF AccountsInv, FindUser, tables, client, Enters, TypeOK,
         InternalErrorsHaveACause, Is
<1>7. ASSUME NEW r \in Requests, RefuseLogin(r)
      PROVE  InternalErrorsHaveACause'
  BY <1>7, SeveralStay
     DEF AccountsInv, RefuseLogin, tables, client, Enters, Answers,
         TypeOK, InternalErrorsHaveACause, Is
<1>8. ASSUME NEW r \in Requests, FindTooManyUsers(r)
      PROVE  InternalErrorsHaveACause'
  BY <1>8, SeveralStay
     DEF AccountsInv, FindTooManyUsers, tables, client, Enters, Answers,
         Acts, TypeOK, InternalErrorsHaveACause, Is
<1>9. ASSUME NEW r \in Requests, Forbid(r)
      PROVE  InternalErrorsHaveACause'
  BY <1>9, SeveralStay
     DEF AccountsInv, Forbid, tables, client, Enters, Answers, TypeOK,
         InternalErrorsHaveACause, Is
<1>10. ASSUME NEW r \in Requests, List(r)
       PROVE  InternalErrorsHaveACause'
  BY <1>10, SeveralStay
     DEF AccountsInv, List, tables, client, Enters, TypeOK,
         InternalErrorsHaveACause, Is
<1>11. ASSUME NEW r \in Requests, Insert(r)
       PROVE  InternalErrorsHaveACause'
  BY <1>11, SeveralStay
     DEF AccountsInv, Insert, tables, client, Enters, TypeOK,
         InternalErrorsHaveACause, Is
<1>12. ASSUME NEW r \in Requests, Commit(r)
       PROVE  InternalErrorsHaveACause'
  BY <1>12, SeveralStay
     DEF AccountsInv, Commit, client, Enters, Answers, StoresRow, Success,
         TypeOK, InternalErrorsHaveACause, Is
<1>13. ASSUME NEW r \in Requests, CommitAnswerLost(r)
       PROVE  InternalErrorsHaveACause'
  BY <1>13, SeveralStay
     DEF AccountsInv, CommitAnswerLost, client, Enters, Answers,
         StoresRow, Breaks, TypeOK, InternalErrorsHaveACause, Is
<1>14. ASSUME NEW r \in Requests, Fail(r)
       PROVE  InternalErrorsHaveACause'
  BY <1>14, SeveralStay
     DEF AccountsInv, Fail, tables, client, Enters, Answers, Breaks,
         TypeOK, InternalErrorsHaveACause, Is
<1>15. ASSUME NEW r \in Requests, Deliver(r)
       PROVE  InternalErrorsHaveACause'
  BY <1>15, SeveralStay
     DEF AccountsInv, Deliver, tables, Enters, TypeOK,
         InternalErrorsHaveACause, Is
<1>16. ASSUME NEW r \in Requests, LoseAnswer(r)
       PROVE  InternalErrorsHaveACause'
  BY <1>16, SeveralStay
     DEF AccountsInv, LoseAnswer, tables, client, Enters, TypeOK,
         InternalErrorsHaveACause, Is
<1>17. ASSUME NEW r \in Requests, RefuseUnreadable(r)
       PROVE  InternalErrorsHaveACause'
  BY <1>17, SeveralStay
     DEF AccountsInv, RefuseUnreadable, tables, client, Enters, Answers,
         TypeOK, InternalErrorsHaveACause, Is
<1>18. ASSUME UNCHANGED vars
       PROVE  InternalErrorsHaveACause'
  BY <1>18, SeveralStay
     DEF AccountsInv, vars, tables, client, InternalErrorsHaveACause, Is
<1> QED
  BY <1>1, <1>2, <1>3, <1>4, <1>5, <1>6, <1>7, <1>8, <1>9,
     <1>10, <1>11, <1>12, <1>13, <1>14, <1>15, <1>16, <1>17, <1>18
     DEF Next, Handle, Terminated

-----------------------------------------------------------------------------
(* Every reachable state satisfies the inductive invariant. *)
THEOREM Invariance == Spec => []AccountsInv
<1>1. Init => AccountsInv
  BY InitAccountsInv
<1>2. AccountsInv /\ [Next]_vars => AccountsInv'
  BY TypeStep, PhaseStep, RowsStep, ActorStep, LookUpStep, AnswersStep,
     ErrorsStep
     DEF AccountsInv
<1> QED
  BY <1>1, <1>2, PTL DEF Spec

(* 201 is answered only for committed rows, 412 only when another user has  *)
(* the address, and a refused request leaves no row.  A row without a 201   *)
(* means that the client cannot be shown one or that the request broke.     *)
THEOREM AnswersAreTruthful == Spec => []AnswersAreTrue
<1>1. AccountsInv => AnswersAreTrue
  BY DEF AccountsInv
<1> QED
  BY <1>1, Invariance, PTL

(* Status 500 means that something else broke, that several users with the  *)
(* address are found, or that the request cannot be read.                   *)
THEOREM ErrorsAreExplained == Spec => []InternalErrorsHaveACause
<1>1. AccountsInv => InternalErrorsHaveACause
  BY DEF AccountsInv
<1> QED
  BY <1>1, Invariance, PTL

(* The list is shown only with a token that was given to a login with the   *)
(* password of a stored user.                                               *)
THEOREM OnlyLoggedInUsersList == Spec => []OnlyUsersList
<1>1. AccountsInv => OnlyUsersList
  <2> SUFFICES ASSUME AccountsInv, NEW r \in Requests, status[r] = 200
               PROVE  \E s \in sessions \cap tokens : \E u \in users :
                          /\ message[r].token = s
                          /\ actor[s] = u
                          /\ actor[r] = u
                          /\ SameAddress(s, u)
                          /\ message[s].password = message[u].password
    BY DEF OnlyUsersList
  <2> DEFINE s == message[r].token
  <2>1. s \in tokens /\ actor[r] = actor[s]
    BY DEF AccountsInv, PhaseInv, ActorInv
  <2>2. s \in sessions /\ Matched(s)
    BY <2>1 DEF AccountsInv, RowsInv
  <2> QED
    BY <2>1, <2>2 DEF Matched, Selected
<1> QED
  BY <1>1, Invariance, PTL

(* A list holds all of what was stored before it was asked for and only     *)
(* what is stored.                                                          *)
THEOREM ListsAreCurrent == Spec => []ListIsCurrent
<1>1. AccountsInv => ListIsCurrent
  BY DEF AccountsInv, PhaseInv, LookUpInv, ListIsCurrent
<1> QED
  BY <1>1, Invariance, PTL

(* Of two users with one address, the one that was there when the other was *)
(* asked for is stored with blanks: else their requests have overlapped.    *)
THEOREM DuplicatesOverlap == Spec => []DuplicatesNeedOverlap
<1>1. AccountsInv => DuplicatesNeedOverlap
  BY
     DEF AccountsInv, TypeOK, RowsInv, LookUpInv, DuplicatesNeedOverlap,
         Selected, SameAddress
<1> QED
  BY <1>1, Invariance, PTL

(* No login that is sent when two users are found under its address opens a *)
(* session.                                                                 *)
THEOREM DuplicatesAreLockedOut == Spec => []DuplicatesLockOut
<1>1. AccountsInv => DuplicatesLockOut
  BY DEF AccountsInv, TypeOK, RowsInv, LookUpInv, Several, DuplicatesLockOut
<1> QED
  BY <1>1, Invariance, PTL
-----------------------------------------------------------------------------
(* The server implements the directory                                     *)

(* A request that was sent is none that was not. *)
LEMMA SentIsSomething == \A m \in Messages : m # Nothing /\ m # Directory!Nothing
BY DEF Messages, CreateMessages, LoginMessages, ListMessages, Nothing, Directory!Nothing

Handled == {"received", "authenticated", "checked", "executed"}

(* A request that is being handled has a message, and no status or row. *)
LEMMA HandledIsPending ==
    ASSUME AccountsInv, NEW r \in Requests, phase[r] \in Handled
    PROVE  /\ message[r] \in Messages
           /\ message[r] # Directory!Nothing
           /\ status[r] = 0
           /\ r \notin users \cup sessions
           /\ earlier[r] \subseteq users
           /\ users \subseteq Requests
<1>1. message[r] \in Messages /\ status[r] = 0
  BY DEF AccountsInv, PhaseInv, Replied, Ended, Handled
<1>2. r \notin users \cup sessions
  BY DEF AccountsInv, RowsInv, Ended, Handled
<1> QED
  BY <1>1, <1>2, SentIsSomething DEF AccountsInv, LookUpInv, TypeOK

(* The tables that a request may be answered from. *)
LEMMA TablesOfRequest ==
    ASSUME NEW r \in Requests, NEW table, table \subseteq users, earlier[r] \subseteq table
    PROVE  table \in Directory!Tables(r)
BY DEF Directory!Tables

(* Who answers nothing shows nothing: the directory does not see the step. *)
LEMMA Unseen ==
    ASSUME AccountsInv,
           UNCHANGED <<message, earlier, users, sessions, status>>,
           \A s \in sessions : actor'[s] = actor[s],
           \A q \in Requests : status[q] = 200 => listed'[q] = listed[q]
    PROVE  UNCHANGED Directory!directoryVars
<1>1. Opened' = Opened
  BY DEF Opened
<1>2. Shown' = Shown
  BY DEF Shown
<1> QED
  BY <1>1, <1>2 DEF Directory!directoryVars

(* An answer other than a list leaves what was shown as it is. *)
LEMMA NothingIsShown ==
    ASSUME AccountsInv, NEW r \in Requests, phase[r] \in Handled,
           NEW code, code # 200 \/ r \in Picky,
           Answers(r, code), UNCHANGED listed
    PROVE  Shown' = Shown /\ Directory!Answer(r, code)
<1>1. status[r] = 0
  BY HandledIsPending
<1>2. \A q \in Requests : status'[q] = 200 <=> status[q] = 200
  BY <1>1 DEF AccountsInv, TypeOK, Answers
<1> QED
  BY <1>2 DEF Shown, Answers, Directory!Answer

(* A refusal of the server is one of the directory. *)
LEMMA RefusalsAgree ==
    ASSUME AccountsInv, NEW r \in Requests, phase[r] \in Handled,
           NEW code, code # 200,
           Answers(r, code), UNCHANGED <<client, actor, listed, tables>>
    PROVE  Directory!Refuse(r, code)
<1>1. Shown' = Shown /\ Directory!Answer(r, code)
  BY NothingIsShown DEF client, tables
<1>2. Opened' = Opened
  BY DEF Opened, tables
<1> QED
  BY <1>1, <1>2 DEF Directory!Refuse, client, tables

(* The look-up of a create or login in the table of that moment. *)
LEMMA FoundIsNamed ==
    ASSUME NEW r \in Requests
    PROVE  Found(r) = Directory!Named(r, users)
BY DEF Found, Selected, SameAddress, Directory!Named

(* The row of a create or login that commits is what the directory stores, *)
(* whether the answer says so or not.                                      *)
LEMMA StoresAgree ==
    ASSUME AccountsInv, NEW r \in Requests, phase[r] = "executed",
           Is(r, "create") \/ Is(r, "login"),
           StoresRow(r), NEW code \in {201, 500}, Answers(r, code),
           UNCHANGED <<client, actor, listed>>
    PROVE  Directory!Register(r) \/ Directory!LogIn(r)
<1>1. /\ status[r] = 0
      /\ earlier[r] \subseteq users
      /\ users \subseteq Requests
  BY HandledIsPending DEF Handled
<1>2. Shown' = Shown /\ Directory!Answer(r, code)
  BY NothingIsShown DEF Handled
<1>3. Valid(r)
  BY DEF AccountsInv, PhaseInv
<1>4. CASE Is(r, "create")
  <2>1. users' = users \cup {r} /\ sessions' = sessions
    BY <1>4 DEF StoresRow, Is
  <2>2. Directory!Named(r, earlier[r]) = {}
    BY <1>4 DEF AccountsInv, LookUpInv, Selected, SameAddress, Directory!Named
  <2>3. earlier[r] \in Directory!Tables(r)
    BY <1>1, TablesOfRequest
  <2>4. Opened' = Opened
    BY <2>1 DEF Opened
  <2>5. Directory!Acceptable(message[r])
    BY <1>3 DEF Valid, Is, Directory!Acceptable
  <2>6. Directory!Asked(r, "create")
    BY <1>1, <1>4 DEF Is, Directory!Asked
  <2> QED
    BY <1>2, <2>1, <2>2, <2>3, <2>4, <2>5, <2>6 DEF Directory!Register, client
<1>5. CASE Is(r, "login")
  <2> DEFINE table == earlier[r] \cup {actor[r]}
  <2>1. users' = users /\ sessions' = sessions \cup {r}
    BY <1>5 DEF StoresRow, Is
  <2>2. Matched(r)
    BY <1>5 DEF AccountsInv, RowsInv
  <2>3. Directory!Named(r, table) = {actor[r]}
    BY <1>5, <2>2
       DEF AccountsInv, LookUpInv, Matched, Selected, SameAddress, Directory!Named
  <2>4. table \in Directory!Tables(r)
    BY <1>1, <2>2, TablesOfRequest DEF Matched, Selected
  <2>5. Opened' = Opened \cup {Directory!Session(r, actor[r])}
    BY <2>1 DEF Opened, Directory!Session
  <2>6. Directory!Asked(r, "login")
    BY <1>1, <1>5 DEF Is, Directory!Asked
  <2> HIDE DEF table
  <2> QED
    BY <1>2, <2>1, <2>2, <2>3, <2>4, <2>5, <2>6
       DEF Directory!LogIn, Matched, Selected, client
<1> QED
  BY <1>4, <1>5

(* The list that is shown is that of a table between the one of when it was *)
(* asked for and the present one.                                           *)
LEMMA ListsAgree ==
    ASSUME AccountsInv, NEW r \in Requests \ Picky,
           phase[r] = "executed", Is(r, "list"), Commit(r)
    PROVE  Directory!ShowUsers(r)
<1> USE AccountsAssumption
<1> DEFINE table == earlier[r] \cup listed[r]
<1>1. /\ status[r] = 0
      /\ earlier[r] \subseteq users
      /\ users \subseteq Requests
  BY HandledIsPending DEF Handled
<1>2. Directory!Answer(r, 200)
  BY DEF Commit, Success, Answers, Directory!Answer
<1>3. /\ UNCHANGED <<message, earlier, users, sessions>>
      /\ Opened' = Opened
  BY DEF Commit, StoresRow, client, Is, Opened
<1>4. table \in Directory!Tables(r) /\ Directory!Passing(r, table) = listed[r]
  <2>1. Passing(r, earlier[r]) \subseteq listed[r] /\ listed[r] \subseteq Passing(r, users)
    BY DEF AccountsInv, LookUpInv
  <2>2. listed[r] \subseteq users
    BY <2>1 DEF Passing
  <2>3. table \in Directory!Tables(r)
    BY <1>1, <2>2, TablesOfRequest
  <2>4. Directory!Passing(r, table) = listed[r]
    BY <2>1 DEF Passing, Directory!Passing
  <2> QED
    BY <2>3, <2>4
<1>5. Shown' = [Shown EXCEPT ![r] = listed[r]]
  BY <1>1, <1>2 DEF Commit, Shown, AccountsInv, TypeOK, Directory!Answer
<1>6. message[r].token # Nobody
  BY DEF AccountsInv, ActorInv, TypeOK
<1>7. Directory!Asked(r, "list")
  BY <1>1 DEF Is, Directory!Asked
<1> HIDE DEF table
<1> QED
  BY <1>2, <1>3, <1>4, <1>5, <1>6, <1>7 DEF Directory!ShowUsers

(* A list that the client does not accept is no list. *)
LEMMA PickyLists ==
    ASSUME AccountsInv, NEW r \in Requests, r \in Picky,
           phase[r] = "executed", Is(r, "list"), Commit(r)
    PROVE  Directory!Refuse(r, 500)
<1>1. Answers(r, 200) /\ UNCHANGED <<client, actor, listed, tables>>
  BY DEF Commit, StoresRow, Success, Is, tables
<1>2. Answers(r, 500)
  BY <1>1 DEF Answers
<1> QED
  BY <1>1, <1>2, RefusalsAgree DEF Handled

(* Every step of the server is one of the directory, or none. *)
LEMMA DirectoryStep ==
    ASSUME AccountsInv, [Next]_vars
    PROVE  [Directory!DirectoryNext]_(Directory!directoryVars)
<1> USE AccountsAssumption
<1>1. ASSUME NEW r \in Requests, NEW m \in Messages, Send(r, m)
      PROVE  Directory!Ask(r)
  <2>1. message[r] = Directory!Nothing
    BY <1>1 DEF Send, AccountsInv, PhaseInv, Nothing, Directory!Nothing
  <2>2. Opened' = Opened /\ Shown' = Shown
    BY <1>1 DEF Send, Opened, Shown, tables
  <2>3. ASSUME m.kind = "list", m.token # Nobody
        PROVE  \E u \in users : Directory!Session(m.token, u) \in Opened
    <3>1. m.token \in sessions /\ actor[m.token] \in users
      BY <1>1, <2>3 DEF Send, AccountsInv, RowsInv, Matched, Selected
    <3> QED
      BY <3>1 DEF Opened, Directory!Session
  <2> QED
    BY <1>1, <2>1, <2>2, <2>3 DEF Send, tables, Directory!Ask
<1>2. ASSUME NEW r \in Requests, Authenticate(r)
      PROVE  UNCHANGED Directory!directoryVars
  <2>1. r \notin sessions
    BY <1>2, HandledIsPending DEF Authenticate, Handled
  <2>2. \A s \in sessions : actor'[s] = actor[s]
    BY <1>2, <2>1 DEF Authenticate, AccountsInv, TypeOK
  <2> QED
    BY <1>2, <2>2, Unseen DEF Authenticate, client, tables
<1>3. ASSUME NEW r \in Requests, RefuseInvalid(r)
      PROVE  Directory!Reject(r)
  <2>1. Directory!Refuse(r, 400)
    BY <1>3, RefusalsAgree DEF RefuseInvalid, Handled
  <2>2. message[r] # Directory!Nothing /\ status[r] = 0
    BY <1>3, HandledIsPending DEF RefuseInvalid, Handled
  <2>3. ~Directory!Acceptable(message[r])
    BY <1>3 DEF RefuseInvalid, Valid, Is, Directory!Acceptable
  <2> QED
    BY <2>1, <2>2, <2>3 DEF Directory!Reject
<1>4. ASSUME NEW r \in Requests, FindNoUser(r)
      PROVE  UNCHANGED Directory!directoryVars
  BY <1>4, Unseen DEF FindNoUser, client, tables
<1>5. ASSUME NEW r \in Requests, RefuseDuplicate(r)
      PROVE  Directory!RefuseAddress(r)
  <2>1. Directory!Refuse(r, 412)
    BY <1>5, RefusalsAgree DEF RefuseDuplicate, Acts, Handled
  <2>2. Directory!Asked(r, "create") /\ users \in Directory!Tables(r)
    BY <1>5, HandledIsPending, TablesOfRequest
       DEF RefuseDuplicate, Acts, Is, Handled, Directory!Asked
  <2>3. \E u \in users : Directory!Named(r, users) = {u}
    <3>1. PICK u \in Found(r) : TRUE
      BY <1>5 DEF RefuseDuplicate
    <3>2. Found(r) = {u} /\ u \in users
      BY <1>5, <3>1 DEF RefuseDuplicate, Several, Found, Selected
    <3> QED
      BY <3>2, FoundIsNamed
  <2> QED
    BY <2>1, <2>2, <2>3 DEF Directory!RefuseAddress
<1>6. ASSUME NEW r \in Requests, FindUser(r)
      PROVE  UNCHANGED Directory!directoryVars
  <2>1. r \notin sessions
    BY <1>6, HandledIsPending DEF FindUser, Acts, Handled
  <2>2. \A s \in sessions : actor'[s] = actor[s]
    BY <1>6, <2>1 DEF FindUser, AccountsInv, TypeOK
  <2> QED
    BY <1>6, <2>2, Unseen DEF FindUser, client, tables
<1>7. ASSUME NEW r \in Requests, RefuseLogin(r)
      PROVE  Directory!RefuseCredentials(r)
  <2>1. Directory!Refuse(r, 401)
    BY <1>7, RefusalsAgree DEF RefuseLogin, Acts, Handled
  <2>2. Directory!Asked(r, "login") /\ users \in Directory!Tables(r)
    BY <1>7, HandledIsPending, TablesOfRequest
       DEF RefuseLogin, Acts, Is, Handled, Directory!Asked
  <2>3. \A u \in Directory!Named(r, users) :
            Directory!Named(r, users) = {u} /\ message[u].password # message[r].password
    BY <1>7, FoundIsNamed DEF RefuseLogin, Several
  <2> QED
    BY <2>1, <2>2, <2>3 DEF Directory!RefuseCredentials
<1>8. ASSUME NEW r \in Requests, FindTooManyUsers(r)
      PROVE  Directory!GiveUp(r)
  <2>1. Directory!Refuse(r, 500)
    BY <1>8, RefusalsAgree DEF FindTooManyUsers, Acts, Handled
  <2>2. message[r] # Directory!Nothing /\ status[r] = 0
    BY <1>8, HandledIsPending DEF FindTooManyUsers, Acts, Handled
  <2> QED
    BY <2>1, <2>2 DEF Directory!GiveUp
<1>9. ASSUME NEW r \in Requests, Forbid(r)
      PROVE  Directory!Forbid(r)
  <2>1. Directory!Refuse(r, 403)
    BY <1>9, RefusalsAgree DEF Forbid, Acts, Handled
  <2>2. Directory!Asked(r, "list")
    BY <1>9, HandledIsPending DEF Forbid, Acts, Is, Handled, Directory!Asked
  <2>3. message[r].token = Nobody
    BY <1>9 DEF Forbid, Acts, AccountsInv, ActorInv
  <2> QED
    BY <2>1, <2>2, <2>3 DEF Directory!Forbid
<1>10. ASSUME NEW r \in Requests, List(r)
       PROVE  UNCHANGED Directory!directoryVars
  <2>1. status[r] = 0
    BY <1>10, HandledIsPending DEF List, Acts, Handled
  <2>2. \A q \in Requests : status[q] = 200 => listed'[q] = listed[q]
    BY <1>10, <2>1 DEF List, AccountsInv, TypeOK
  <2> QED
    BY <1>10, <2>2, Unseen DEF List, client, tables
<1>11. ASSUME NEW r \in Requests, Insert(r)
       PROVE  UNCHANGED Directory!directoryVars
  BY <1>11, Unseen DEF Insert, client, tables
<1>12. ASSUME NEW r \in Requests, Commit(r)
       PROVE  \/ Directory!Register(r) \/ Directory!LogIn(r)
              \/ Directory!ShowUsers(r) \/ Directory!GiveUp(r)
  <2>1. phase[r] = "executed"
    BY <1>12 DEF Commit
  <2>2. CASE Is(r, "list") /\ r \notin Picky
    BY <1>12, <2>1, <2>2, ListsAgree
  <2>3. CASE Is(r, "list") /\ r \in Picky
    <3>1. Directory!Refuse(r, 500)
      BY <1>12, <2>1, <2>3, PickyLists
    <3> QED
      BY <2>1, <3>1, HandledIsPending DEF Handled, Directory!GiveUp
  <2>4. CASE ~Is(r, "list")
    <3>1. Is(r, "create") \/ Is(r, "login")
      BY <2>1, <2>4 DEF AccountsInv, PhaseInv
    <3> QED
      BY <1>12, <2>1, <2>4, <3>1, StoresAgree DEF Commit, Success
  <2> QED
    BY <2>2, <2>3, <2>4
<1>13. ASSUME NEW r \in Requests, CommitAnswerLost(r)
       PROVE  Directory!Register(r) \/ Directory!LogIn(r) \/ Directory!GiveUp(r)
  <2>1. phase[r] = "executed"
    BY <1>13 DEF CommitAnswerLost
  <2>2. CASE Is(r, "list")
    <3>1. UNCHANGED tables
      BY <1>13, <2>2 DEF CommitAnswerLost, StoresRow, Is, tables
    <3>2. Directory!Refuse(r, 500)
      BY <1>13, <2>1, <3>1, RefusalsAgree DEF CommitAnswerLost, Handled
    <3> QED
      BY <2>1, <3>2, HandledIsPending DEF Handled, Directory!GiveUp
  <2>3. CASE ~Is(r, "list")
    <3>1. Is(r, "create") \/ Is(r, "login")
      BY <2>1, <2>3 DEF AccountsInv, PhaseInv
    <3> QED
      BY <1>13, <2>1, <3>1, StoresAgree DEF CommitAnswerLost
  <2> QED
    BY <2>2, <2>3
<1>14. ASSUME NEW r \in Requests, Fail(r)
       PROVE  Directory!GiveUp(r)
  <2>1. Directory!Refuse(r, 500)
    BY <1>14, RefusalsAgree DEF Fail, Handled
  <2>2. message[r] # Directory!Nothing /\ status[r] = 0
    BY <1>14, HandledIsPending DEF Fail, Handled
  <2> QED
    BY <2>1, <2>2 DEF Directory!GiveUp
<1>15. ASSUME NEW r \in Requests, Deliver(r)
       PROVE  UNCHANGED Directory!directoryVars
  BY <1>15, Unseen DEF Deliver, tables
<1>16. ASSUME NEW r \in Requests, LoseAnswer(r)
       PROVE  UNCHANGED Directory!directoryVars
  BY <1>16, Unseen DEF LoseAnswer, client, tables
<1>17. ASSUME NEW r \in Requests, RefuseUnreadable(r)
       PROVE  Directory!GiveUp(r)
  <2>1. Directory!Refuse(r, 500)
    BY <1>17, RefusalsAgree DEF RefuseUnreadable, Handled
  <2>2. message[r] # Directory!Nothing /\ status[r] = 0
    BY <1>17, HandledIsPending DEF RefuseUnreadable, Handled
  <2> QED
    BY <2>1, <2>2 DEF Directory!GiveUp
<1>18. ASSUME UNCHANGED vars
       PROVE  UNCHANGED Directory!directoryVars
  BY <1>18, Unseen DEF vars, tables
<1> QED
  BY <1>1, <1>2, <1>3, <1>4, <1>5, <1>6, <1>7, <1>8, <1>9,
     <1>10, <1>11, <1>12, <1>13, <1>14, <1>15, <1>16, <1>17, <1>18
     DEF Next, Handle, Terminated, Directory!DirectoryNext

(* To its clients the server is a directory of accounts that answers each   *)
(* request with one operation on the tables (BusinessLogicAction.execute,   *)
(* AuthInterceptor).                                                        *)
THEOREM ServerIsADirectory == Spec => ImplementsDirectory
<1>1. Init => Directory!DirectoryInit
  BY DEF Init, Opened, Shown, Nothing, Directory!DirectoryInit, Directory!Nothing
<1>2. AccountsInv /\ [Next]_vars => [Directory!DirectoryNext]_(Directory!directoryVars)
  BY DirectoryStep
<1> QED
  BY <1>1, <1>2, Invariance, PTL
     DEF Spec, ImplementsDirectory, Directory!DirectorySpec
=============================================================================
