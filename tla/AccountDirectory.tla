-------------------------- MODULE AccountDirectory --------------------------
(***************************************************************************)
(* What the clients of /web may rely on, with nothing of interceptors,     *)
(* statements and transactions: each request is answered by one operation  *)
(* on the directory of users.  The operation is that of a directory used   *)
(* by one client at a time, except that it may look up users in a table as *)
(* old as the request, and that an internal error, or an answer that the   *)
(* client does not accept, leaves open whether it took place.              *)
(***************************************************************************)
CONSTANTS
    Requests,           \* the HTTP requests; a row is named by its request
    Nobody,             \* no token
    Messages,           \* what requests may ask for
    Padded,             \* the spellings of an email that are not accepted
    Hidden,             \* those that are accepted and never found
    Picky               \* the requests that cannot be shown an answer

VARIABLES
    message,            \* what each request asks for
    earlier,            \* the users when it was sent
    users,              \* the users there are
    sessions,           \* the sessions that are open, with their users
    shown,              \* the users each request was shown
    status              \* the status of its answer

directoryVars == <<message, earlier, users, sessions, shown, status>>

Nothing == [kind |-> "none"]

DirectoryInit ==
    /\ message = [r \in Requests |-> Nothing]
    /\ earlier = [r \in Requests |-> {}]
    /\ users = {}
    /\ sessions = {}
    /\ shown = [r \in Requests |-> {}]
    /\ status = [r \in Requests |-> 0]

Asked(r, kind) == message[r].kind = kind /\ status[r] = 0

Acceptable(m) ==
    /\ m.kind \notin {"malformed", "unreadable"}
    /\ m.kind = "create" => m.email.spelling \notin Padded

Session(s, u) == [id |-> s, user |-> u]

(* The tables a request may be answered from: none older than itself. *)
Tables(r) == {table \in SUBSET users : earlier[r] \subseteq table}

(* The users in a table that are found under the address r names. *)
Named(r, table) ==
    {u \in table : /\ message[u].email.address = message[r].email.address
                   /\ message[u].email.spelling \notin Hidden}

Passing(r, table) == {u \in table : message[u].email.address \in message[r].filter}

Answer(r, code) ==
    status' = [status EXCEPT ![r] = IF r \in Picky THEN 406 ELSE code]

(* A client asks for something, with the token of an open session or none. *)
Ask(r) ==
    /\ message[r] = Nothing
    /\ earlier' = [earlier EXCEPT ![r] = users]
    /\ \E m \in Messages :
           /\ message' = [message EXCEPT ![r] = m]
           /\ m.kind = "list" =>
                  m.token = Nobody \/ \E u \in users : Session(m.token, u) \in sessions
    /\ UNCHANGED <<users, sessions, shown, status>>

Refuse(r, code) ==
    /\ Answer(r, code)
    /\ UNCHANGED <<message, earlier, users, sessions, shown>>

Reject(r) ==
    /\ message[r] # Nothing /\ status[r] = 0
    /\ ~Acceptable(message[r])
    /\ Refuse(r, 400)

(* Nobody has the address; the internal error hides a success. *)
Register(r) ==
    /\ Asked(r, "create")
    /\ Answer(r, 201) \/ Answer(r, 500)
    /\ Acceptable(message[r])
    /\ \E table \in Tables(r) : Named(r, table) = {}
    /\ users' = users \cup {r}
    /\ UNCHANGED <<message, earlier, sessions, shown>>

RefuseAddress(r) ==
    /\ Asked(r, "create")
    /\ Refuse(r, 412)
    /\ \E table \in Tables(r) : \E u \in users : Named(r, table) = {u}

(* The only user with the address has the password. *)
LogIn(r) ==
    /\ Asked(r, "login")
    /\ Answer(r, 201) \/ Answer(r, 500)
    /\ \E table \in Tables(r) : \E u \in users :
           /\ Named(r, table) = {u}
           /\ message[u].password = message[r].password
           /\ sessions' = sessions \cup {Session(r, u)}
    /\ UNCHANGED <<message, earlier, users, shown>>

RefuseCredentials(r) ==
    /\ Asked(r, "login")
    /\ Refuse(r, 401)
    /\ \E table \in Tables(r) : \A u \in Named(r, table) :
           Named(r, table) = {u} /\ message[u].password # message[r].password

(* The users a session may see: all that the filter lets through. *)
ShowUsers(r) ==
    /\ Asked(r, "list")
    /\ r \notin Picky
    /\ Answer(r, 200)
    /\ message[r].token # Nobody
    /\ \E table \in Tables(r) : shown' = [shown EXCEPT ![r] = Passing(r, table)]
    /\ UNCHANGED <<message, earlier, users, sessions>>

Forbid(r) == Asked(r, "list") /\ message[r].token = Nobody /\ Refuse(r, 403)

(* An internal error, or nothing to show to a client that is picky. *)
GiveUp(r) == message[r] # Nothing /\ status[r] = 0 /\ Refuse(r, 500)

DirectoryNext ==
    \E r \in Requests :
        \/ Ask(r) \/ Reject(r)
        \/ Register(r) \/ RefuseAddress(r)
        \/ LogIn(r) \/ RefuseCredentials(r)
        \/ ShowUsers(r) \/ Forbid(r)
        \/ GiveUp(r)

DirectorySpec == DirectoryInit /\ [][DirectoryNext]_directoryVars
=============================================================================
