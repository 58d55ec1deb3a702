--------------------------- MODULE UserAccounts ---------------------------
(***************************************************************************)
(* The web interface over the user and session tables: POST /web/user,     *)
(* POST /web/session and GET /web/user, handled concurrently.              *)
(*                                                                         *)
(* A request passes the auth interceptor (a transaction of its own), the   *)
(* validation and one business logic action, whose statements run in one   *)
(* READ COMMITTED transaction: each statement sees what is committed when  *)
(* it runs.  What the action throws becomes a status (handleError); every  *)
(* answer is an object that is rendered after the transaction has ended.   *)
(*                                                                         *)
(* A row has the name of the request that inserts it: ids are fresh UUIDs. *)
(* An address is an email up to letter case and surrounding blanks.  Some  *)
(* blanks pass the validation as part of the name before the @, those from *)
(* U+0080 on: an email that has them is stored with them, and the look-up, *)
(* which trims what it looks for, never finds it again.                    *)
(***************************************************************************)
EXTENDS Naturals, FiniteSets

CONSTANTS
    Requests,           \* the HTTP requests
    Nobody,             \* no user, and no token
    Addresses,
    Spellings,          \* the ways to write an address
    Padded,             \* those with blanks around it that are not valid
    Hidden,             \* those with blanks around it that are valid
    Passwords,
    Picky,              \* the requests that do not accept JSON
    MaxFaults           \* bound: requests that fail

ASSUME AccountsAssumption ==
    /\ Nobody \notin Requests
    /\ Padded \cup Hidden \subseteq Spellings
    /\ Padded \cap Hidden = {}
    /\ Picky \subseteq Requests
    /\ MaxFaults \in Nat

VARIABLES
    message,            \* what each request asks for
    phase,              \* how far it is handled
    actor,              \* the user it acts for: that of its token or login
    listed,             \* the users it has read for a list
    status,             \* the status of its answer
    users,              \* the committed rows of "user"
    sessions,           \* the committed rows of "session"
    tokens,             \* the session ids that clients were told
    faulty,             \* failed by the database, or by their own answer
    earlier             \* history: the users when each request was sent

vars == <<message, phase, actor, listed, status, users, sessions, tokens,
          faulty, earlier>>

tables == <<users, sessions>>
client == <<message, tokens, earlier>>

Emails == [address : Addresses, spelling : Spellings]

CreateMessages == [kind : {"create"}, email : Emails, password : Passwords]

LoginMessages == [kind : {"login"}, email : Emails, password : Passwords]

(* A list filter is the set of addresses that pass it. *)
ListMessages ==
    [kind : {"list"}, token : Requests \cup {Nobody}, filter : SUBSET Addresses]

(* "malformed": the JSON of the body or a validator other than that of the *)
(* email refuses it.  "unreadable": a content type without a converter, a  *)
(* null body, a parameter that cannot be parsed: nothing handleError knows. *)
Messages ==
    CreateMessages \cup LoginMessages \cup ListMessages
        \cup [kind : {"malformed", "unreadable"}]

Nothing == [kind |-> "none"]

Phases ==
    {"idle", "received", "authenticated", "checked", "executed", "answered", "done"}

(* 0: not answered yet. *)
Statuses == {0, 200, 201, 400, 401, 403, 406, 412, 500}

TypeOK ==
    /\ message \in [Requests -> Messages \cup {Nothing}]
    /\ phase \in [Requests -> Phases]
    /\ actor \in [Requests -> Requests \cup {Nobody}]
    /\ listed \in [Requests -> SUBSET Requests]
    /\ status \in [Requests -> Statuses]
    /\ users \in SUBSET Requests
    /\ sessions \in SUBSET Requests
    /\ tokens \in SUBSET Requests
    /\ faulty \in SUBSET Requests
    /\ earlier \in [Requests -> SUBSET Requests]

Init ==
    /\ message = [r \in Requests |-> Nothing]
    /\ phase = [r \in Requests |-> "idle"]
    /\ actor = [r \in Requests |-> Nobody]
    /\ listed = [r \in Requests |-> {}]
    /\ status = [r \in Requests |-> 0]
    /\ users = {}
    /\ sessions = {}
    /\ tokens = {}
    /\ faulty = {}
    /\ earlier = [r \in Requests |-> {}]

-----------------------------------------------------------------------------
Enters(r, p) == phase' = [phase EXCEPT ![r] = p]

Is(r, kind) == message[r].kind = kind

(* The answer is on its way to the client.  Every one of them, an error's  *)
(* too, is an object that content negotiation converts to JSON or to none. *)
Answers(r, code) ==
    /\ Enters(r, "answered")
    /\ status' = [status EXCEPT ![r] = IF r \in Picky THEN 406 ELSE code]

(* A client sends a request.  It may present a token it was given, or none. *)
Send(r, m) ==
    /\ phase[r] = "idle"
    /\ m.kind = "list" => m.token \in tokens \cup {Nobody}
    /\ Enters(r, "received")
    /\ message' = [message EXCEPT ![r] = m]
    /\ earlier' = [earlier EXCEPT ![r] = users]
    /\ UNCHANGED <<actor, listed, status, tables, tokens, faulty>>

(* setSessionCallAttributes(): the user of the session that is the token.   *)
Principal(r) ==
    IF Is(r, "list") /\ message[r].token \in sessions
    THEN actor[message[r].token]
    ELSE Nobody

Authenticate(r) ==
    /\ phase[r] = "received"
    /\ Enters(r, "authenticated")
    /\ actor' = [actor EXCEPT ![r] = Principal(r)]
    /\ UNCHANGED <<client, listed, status, tables, faulty>>

(* The validation before the transaction.  Login does not validate emails. *)
Valid(r) ==
    /\ ~Is(r, "malformed") /\ ~Is(r, "unreadable")
    /\ Is(r, "create") => message[r].email.spelling \notin Padded

RefuseInvalid(r) ==
    /\ phase[r] = "authenticated"
    /\ ~Valid(r)
    /\ ~Is(r, "unreadable")
    /\ Answers(r, 400)
    /\ UNCHANGED <<client, actor, listed, tables, faulty>>

(* An exception of the framework, which handleError does not tell apart.   *)
RefuseUnreadable(r) ==
    /\ phase[r] = "authenticated"
    /\ Is(r, "unreadable")
    /\ Answers(r, 500)
    /\ UNCHANGED <<client, actor, listed, tables, faulty>>

(* The action has begun its transaction and executes its first statement. *)
Acts(r, kind) ==
    /\ phase[r] = "authenticated"
    /\ Is(r, kind)
    /\ Valid(r)

SameAddress(r, u) == message[r].email.address = message[u].email.address

(* equalIgnoreCase(email.trim()), which no email with blanks is equal to. *)
Selected(r, rows) ==
    {u \in rows : SameAddress(r, u) /\ message[u].email.spelling \notin Hidden}

(* Mutant: the statement compares the emails as they are spelt. *)
FoundExactly(r) == {u \in users : message[u].email = message[r].email}

(* findByEmailIgnoringCase(): the rows that its statement reads. *)
Found(r) == Selected(r, users)

Several(rows) == \E u, v \in rows : u # v

-----------------------------------------------------------------------------
(* CreateUserAction.action                                                 *)

FindNoUser(r) ==
    /\ Acts(r, "create")
    /\ Found(r) = {}
    /\ Enters(r, "checked")
    /\ UNCHANGED <<client, actor, listed, status, tables, faulty>>

(* Mutant: handleError does not know the exception. *)
RefuseDuplicateUnmapped(r) ==
    /\ Acts(r, "create")
    /\ Found(r) # {}
    /\ ~Several(Found(r))
    /\ Answers(r, 500)
    /\ UNCHANGED <<client, actor, listed, tables, faulty>>

(* UserByEmailAlreadyExistsException *)
RefuseDuplicate(r) ==
    /\ Acts(r, "create")
    /\ Found(r) # {}
    /\ ~Several(Found(r))
    /\ Answers(r, 412)
    /\ UNCHANGED <<client, actor, listed, tables, faulty>>

-----------------------------------------------------------------------------
(* LoginAction.action                                                      *)

(* Mutant: any account with the address will do. *)
FindUserAnyPassword(r) ==
    /\ Acts(r, "login")
    /\ ~Several(Found(r))
    /\ \E u \in Found(r) : actor' = [actor EXCEPT ![r] = u]
    /\ Enters(r, "checked")
    /\ UNCHANGED <<client, listed, status, tables, faulty>>

(* Mutant: fetchAny instead of fetchOne. *)
FindAnyUser(r) ==
    /\ Acts(r, "login")
    /\ \E u \in Found(r) :
           /\ message[u].password = message[r].password
           /\ actor' = [actor EXCEPT ![r] = u]
    /\ Enters(r, "checked")
    /\ UNCHANGED <<client, listed, status, tables, faulty>>

FindUser(r) ==
    /\ Acts(r, "login")
    /\ ~Several(Found(r))
    /\ \E u \in Found(r) :
           /\ message[u].password = message[r].password
           /\ actor' = [actor EXCEPT ![r] = u]
    /\ Enters(r, "checked")
    /\ UNCHANGED <<client, listed, status, tables, faulty>>

(* InvalidLoginCredentialsException *)
RefuseLogin(r) ==
    /\ Acts(r, "login")
    /\ ~Several(Found(r))
    /\ \A u \in Found(r) : message[u].password # message[r].password
    /\ Answers(r, 401)
    /\ UNCHANGED <<client, actor, listed, tables, faulty>>

(* fetchOne() throws TooManyRowsException, in both actions. *)
FindTooManyUsers(r) ==
    /\ Acts(r, "create") \/ Acts(r, "login")
    /\ Several(Found(r))
    /\ Answers(r, 500)
    /\ UNCHANGED <<client, actor, listed, tables, faulty>>

-----------------------------------------------------------------------------
(* GetUsersAction.action                                                   *)

(* InsufficientPermissionsException *)
Forbid(r) ==
    /\ Acts(r, "list")
    /\ actor[r] = Nobody
    /\ Answers(r, 403)
    /\ UNCHANGED <<client, actor, listed, tables, faulty>>

Passing(r, rows) == {u \in rows : message[u].email.address \in message[r].filter}

(* Mutant: the statement leaves the caller out. *)
ListOthers(r) ==
    /\ Acts(r, "list")
    /\ actor[r] # Nobody
    /\ listed' = [listed EXCEPT ![r] = Passing(r, users \ {actor[r]})]
    /\ Enters(r, "executed")
    /\ UNCHANGED <<client, actor, status, tables, faulty>>

(* Every principal has the permission USERS_CAN_READ. *)
List(r) ==
    /\ Acts(r, "list")
    /\ actor[r] # Nobody
    /\ listed' = [listed EXCEPT ![r] = Passing(r, users)]
    /\ Enters(r, "executed")
    /\ UNCHANGED <<client, actor, status, tables, faulty>>

-----------------------------------------------------------------------------
(* The end of the transaction                                              *)

(* insert(): the row is in the table and not committed. *)
Insert(r) ==
    /\ phase[r] = "checked"
    /\ Enters(r, "executed")
    /\ UNCHANGED <<client, actor, listed, status, tables, faulty>>

StoresRow(r) ==
    /\ users' = IF Is(r, "create") THEN users \cup {r} ELSE users
    /\ sessions' = IF Is(r, "login") THEN sessions \cup {r} ELSE sessions

Success(r) == IF Is(r, "list") THEN 200 ELSE 201

Commit(r) ==
    /\ phase[r] = "executed"
    /\ StoresRow(r)
    /\ Answers(r, Success(r))
    /\ UNCHANGED <<client, actor, listed, faulty>>

(* Something that the request has no part in fails. *)
Breaks(r) ==
    /\ Cardinality(faulty) < MaxFaults
    /\ faulty' = faulty \cup {r}

(* The database commits, and the connection breaks before it says so, the  *)
(* Job is cancelled meanwhile, or the answer cannot be rendered.           *)
CommitAnswerLost(r) ==
    /\ phase[r] = "executed"
    /\ Breaks(r)
    /\ StoresRow(r)
    /\ Answers(r, 500)
    /\ UNCHANGED <<client, actor, listed>>

(* Mutant: the failure of the transaction does not reach the handler. *)
FailUnnoticed(r) ==
    /\ phase[r] \in {"received", "authenticated", "checked", "executed"}
    /\ Breaks(r)
    /\ Answers(r, Success(r))
    /\ UNCHANGED <<client, actor, listed, tables>>

(* No connection, a statement that fails, a COMMIT that fails: a rollback; *)
(* or a refusal whose answer cannot be rendered.                           *)
Fail(r) ==
    /\ phase[r] \in {"received", "authenticated", "checked", "executed"}
    /\ Breaks(r)
    /\ Answers(r, 500)
    /\ UNCHANGED <<client, actor, listed, tables>>

-----------------------------------------------------------------------------
(* The answer reaches the client, with the id of the session after a login. *)
Deliver(r) ==
    /\ phase[r] = "answered"
    /\ Enters(r, "done")
    /\ tokens' = IF Is(r, "login") /\ status[r] = 201 THEN tokens \cup {r} ELSE tokens
    /\ UNCHANGED <<message, earlier, actor, listed, status, tables, faulty>>

(* ... or is lost; the client may send the same message as a new request. *)
LoseAnswer(r) ==
    /\ phase[r] = "answered"
    /\ Enters(r, "done")
    /\ UNCHANGED <<client, actor, listed, status, tables, faulty>>

(* Every request is done. *)
Terminated ==
    /\ \A r \in Requests : phase[r] = "done"
    /\ UNCHANGED vars

Handle(r) ==
    \/ Authenticate(r)
    \/ RefuseInvalid(r)
    \/ RefuseUnreadable(r)
    \/ FindNoUser(r)
    \/ RefuseDuplicate(r)
    \/ FindUser(r)
    \/ RefuseLogin(r)
    \/ FindTooManyUsers(r)
    \/ Forbid(r)
    \/ List(r)
    \/ Insert(r)
    \/ Commit(r)
    \/ CommitAnswerLost(r)
    \/ Fail(r)

Next ==
    \/ \E r \in Requests :
           \/ \E m \in Messages : Send(r, m)
           \/ Handle(r)
           \/ Deliver(r)
           \/ LoseAnswer(r)
    \/ Terminated

Spec == Init /\ [][Next]_vars
-----------------------------------------------------------------------------
(* Properties                                                              *)

Replied(r) == status[r] # 0

(* A user whose address is taken was either sent before the other one was  *)
(* stored, or the other one is stored with blanks: the look-up of          *)
(* CreateUserAction finds every other user there was, whatever the         *)
(* spelling of either.                                                     *)
DuplicatesNeedOverlap ==
    \A u, v \in users :
        u # v /\ SameAddress(u, v) /\ u \in earlier[v] =>
            message[u].email.spelling \in Hidden

(* What an answer says of the tables is so: 201 only for a row that is     *)
(* committed; 412 only when another user has the address; no row of a      *)
(* request that was refused; a row without a 201 only when the client does *)
(* not accept the answer, or when the request broke after the commit.      *)
AnswersAreTrue ==
    \A r \in Requests :
        /\ status[r] = 201 => r \in users \cup sessions
        /\ status[r] = 412 => \E u \in users \ {r} : SameAddress(r, u)
        /\ status[r] \in {400, 401, 403, 412} => r \notin users \cup sessions
        /\ r \in users \cup sessions => status[r] = 201 \/ r \in faulty \cup Picky

(* Status 500 has one of three causes: something else failed the request,  *)
(* several users share the address it names, or it cannot be read in a way *)
(* that handleError does not know; and never a duplicate address, a wrong  *)
(* password, a missing session or a validation, which have their own.      *)
InternalErrorsHaveACause ==
    \A r \in Requests \ faulty :
        status[r] = 500 =>
            \/ Is(r, "unreadable")
            \/ (Is(r, "create") \/ Is(r, "login")) /\ Several(Found(r))

(* The list of users is shown only to a client that was given the id of a  *)
(* committed session, by a login with the email and the password of the    *)
(* user it stands for.                                                     *)
OnlyUsersList ==
    \A r \in Requests : status[r] = 200 =>
        \E s \in sessions \cap tokens : \E u \in users :
            /\ message[r].token = s
            /\ actor[s] = u
            /\ actor[r] = u
            /\ SameAddress(s, u)
            /\ message[s].password = message[u].password

(* A list holds every user that passes its filter and was stored before    *)
(* the list was asked for, and none that is not stored.                    *)
ListIsCurrent ==
    \A r \in Requests : status[r] = 200 =>
        /\ Passing(r, earlier[r]) \subseteq listed[r]
        /\ listed[r] \subseteq Passing(r, users)

(* Users that share an address, as far as they are found, are locked out:  *)
(* no login that is sent after the second of them was stored opens a       *)
(* session.                                                                *)
DuplicatesLockOut == \A s \in sessions : ~Several(Selected(s, earlier[s]))

(* To its clients the server is a directory of accounts that answers each   *)
(* request with one operation, which sees every user of before the request  *)
(* was sent, and which an internal error may hide: what is read in several  *)
(* statements of two transactions, inserted in a third and committed in a   *)
(* last adds up to that (BusinessLogicAction.execute, AuthInterceptor).     *)
Opened == {[id |-> s, user |-> actor[s]] : s \in sessions}

Shown == [r \in Requests |-> IF status[r] = 200 THEN listed[r] ELSE {}]

Directory == INSTANCE AccountDirectory WITH sessions <- Opened, shown <- Shown

ImplementsDirectory == Directory!DirectorySpec

-----------------------------------------------------------------------------
(* The inductive invariant                                                 *)

Ended == {"answered", "done"}

(* A request has a message when it is sent and a status when it is         *)
(* answered; the look-up precedes the insertion.                           *)
PhaseInv ==
    \A r \in Requests :
        /\ phase[r] = "idle" => message[r] = Nothing
        /\ phase[r] # "idle" => message[r] \in Messages
        /\ Replied(r) <=> phase[r] \in Ended
        /\ phase[r] \in {"checked", "executed"} => Valid(r)
        /\ phase[r] = "checked" => Is(r, "create") \/ Is(r, "login")
        /\ phase[r] = "executed" => Is(r, "create") \/ Is(r, "login") \/ Is(r, "list")
        /\ phase[r] \in {"idle", "received"} => actor[r] = Nobody
        /\ status[r] = 201 => Is(r, "create") \/ Is(r, "login")
        /\ status[r] = 200 => Is(r, "list")
        /\ status[r] = 412 => Is(r, "create")
        /\ Replied(r) => (status[r] = 406 <=> r \in Picky)

(* The login r has found the user it was given the credentials of. *)
Matched(r) ==
    /\ actor[r] \in Selected(r, users)
    /\ message[r].password = message[actor[r]].password

(* Rows are stored by requests of their kind, when these are answered;     *)
(* sessions belong to stored users, and clients are told of sessions only. *)
RowsInv ==
    /\ \A u \in users : Is(u, "create") /\ phase[u] \in Ended
    /\ \A s \in sessions : Is(s, "login") /\ phase[s] \in Ended /\ Matched(s)
    /\ \A r \in Requests :
           phase[r] \in {"checked", "executed"} /\ Is(r, "login") => Matched(r)
    /\ tokens \subseteq sessions

(* A list acts for a user only by a token that stands for this user. *)
ActorInv ==
    \A r \in Requests : Is(r, "list") =>
        /\ message[r].token \in tokens \cup {Nobody}
        /\ actor[r] # Nobody =>
               message[r].token \in tokens /\ actor[r] = actor[message[r].token]
        /\ phase[r] = "authenticated" /\ message[r].token # Nobody =>
               actor[r] # Nobody
        /\ phase[r] = "executed" \/ status[r] = 200 => actor[r] # Nobody

(* What the look-up has excluded stays excluded: no user of before the     *)
(* request was sent is found for a request that creates one, and none but  *)
(* its actor for a request that opens a session.                           *)
LookUpInv ==
    /\ \A r \in Requests : earlier[r] \subseteq users
    /\ \A r \in Requests :
           phase[r] \in {"checked", "executed"} \/ r \in users \cup sessions =>
               /\ Is(r, "create") => Selected(r, earlier[r]) = {}
               /\ Is(r, "login") => Selected(r, earlier[r]) \subseteq {actor[r]}
    /\ \A r \in Requests : Is(r, "list") /\ (phase[r] = "executed" \/ status[r] = 200) =>
           /\ Passing(r, earlier[r]) \subseteq listed[r]
           /\ listed[r] \subseteq Passing(r, users)

AccountsInv ==
    /\ TypeOK
    /\ PhaseInv
    /\ RowsInv
    /\ ActorInv
    /\ LookUpInv
    /\ AnswersAreTrue
    /\ InternalErrorsHaveACause
=============================================================================
