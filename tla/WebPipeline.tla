---------------------------- MODULE WebPipeline ----------------------------
(***************************************************************************)
(* How a call passes through ktor, with the Koin application it resolves   *)
(* its dependencies from.                                                  *)
(*                                                                         *)
(* KoinContext is a ThreadLocal.  The thread that starts an application    *)
(* sets it for good; a call sets it while it is in a scope (withContext    *)
(* with KoinContext.asContextElement), wherever its coroutine runs: a call *)
(* that suspends gives the thread its old value back, and may resume on    *)
(* another one.  Several applications share the threads of a process in    *)
(* the tests, which run in parallel.                                       *)
(*                                                                         *)
(* What an action does to the tables is UserAccounts'; here it has an      *)
(* effect or none.                                                         *)
(***************************************************************************)
EXTENDS Naturals, FiniteSets

CONSTANTS
    Apps,               \* ktor applications, each with its own Koin
    Threads,
    Calls,              \* the HTTP calls
    Nobody              \* no application, no thread, no document

ASSUME PipelineAssumption == Nobody \notin Apps \cup Threads

VARIABLES
    local,              \* KoinContext: the value of each thread
    starter,            \* the thread that starts an application, or did
    started,            \* the applications that accept calls
    served,             \* the routes of an application
    listed,             \* apiDescriptions of its SwaggerConfiguration
    models,             \* models of its SwaggerConfiguration
    document,           \* swaggerJson, once it is rendered
    call,               \* the state of each call
    home                \* history: the application a thread started last

registry == <<started, served, listed, models, document>>
vars == <<local, starter, registry, call, home>>

-----------------------------------------------------------------------------
(* The controllers                                                         *)

Web == {"createUser", "getUsers", "login"}
Operations == Web \cup {"ping"}
Swagger == {"swagger.json", "resource"}
Kinds == Operations \cup Swagger \cup {"elsewhere"}

OperationsOf ==
    [WebUserController |-> {"createUser", "getUsers"},
     WebSessionController |-> {"login"},
     WebDebugController |-> {"ping"}]

Controllers == DOMAIN OperationsOf

(* The operations whose routes and documentation are built by Post. *)
Posted == {"createUser", "login"}

(* The models that req(), res() and resList() register and refer to. *)
ModelsOf(op) ==
    CASE op = "createUser" -> {"WebCreateUserRequest", "WebCreateUserResponse"}
      [] op = "getUsers" -> {"WebGetUsersResponse"}
      [] op = "login" -> {"WebLoginRequest", "WebLoginResponse"}
      [] OTHER -> {}

Description(op) ==
    [route |-> op, models |-> ModelsOf(op), status |-> IF op \in Posted THEN 201 ELSE 200]

(* The status that the handler of the controller responds with. *)
SuccessStatus(kind) == IF kind \in {"createUser", "login"} THEN 201 ELSE 200

(* What the parsing of the message, its validation or the action throws:   *)
(* "invalid" stands for the first two, "other" for any exception that      *)
(* handleError() does not name.                                            *)
Refusals(kind) ==
    {"other"} \cup
    CASE kind = "createUser" -> {"invalid", "duplicate"}
      [] kind = "getUsers" -> {"invalid", "permission"}
      [] kind = "login" -> {"invalid", "credentials"}
      [] OTHER -> {}

ErrorStatus(error) ==
    CASE error = "invalid" -> 400
      [] error = "credentials" -> 401
      [] error = "permission" -> 403
      [] error = "duplicate" -> 412
      [] OTHER -> 500

-----------------------------------------------------------------------------
(* The state of a call: its stage, the thread it runs on, whether it is in *)
(* a Koin scope and what its thread had before, the status of its answer   *)
(* and whether its action changed the tables.                              *)

Stages == {"idle", "monitoring", "routing", "handling", "caught", "mapping",
           "answering", "done"}
Errors == {"none", "invalid", "credentials", "permission", "duplicate", "other"}
Statuses == {0, 200, 201, 400, 401, 403, 404, 406, 412, 500}

CallStates ==
    [app : Apps \cup {Nobody}, kind : Kinds, stage : Stages,
     thread : Threads \cup {Nobody}, scoped : BOOLEAN, saved : Apps \cup {Nobody},
     error : Errors, status : Statuses, effect : BOOLEAN]

NoCall ==
    [app |-> Nobody, kind |-> "elsewhere", stage |-> "idle", thread |-> Nobody,
     scoped |-> FALSE, saved |-> Nobody, error |-> "none", status |-> 0, effect |-> FALSE]

Over == [NoCall EXCEPT !.stage = "done"]

Descriptions == {Description(op) : op \in Operations}
Models == UNION {ModelsOf(op) : op \in Operations}
Documents == [descriptions : SUBSET Descriptions, models : SUBSET Models]

TypeOK ==
    /\ local \in [Threads -> Apps \cup {Nobody}]
    /\ starter \in [Apps -> Threads \cup {Nobody}]
    /\ started \in SUBSET Apps
    /\ served \in [Apps -> SUBSET Kinds]
    /\ listed \in [Apps -> SUBSET Descriptions]
    /\ models \in [Apps -> SUBSET Models]
    /\ document \in [Apps -> Documents \cup {Nobody}]
    /\ call \in [Calls -> CallStates]
    /\ home \in [Threads -> Apps \cup {Nobody}]

Init ==
    /\ local = [t \in Threads |-> Nobody]
    /\ starter = [a \in Apps |-> Nobody]
    /\ started = {}
    /\ served = [a \in Apps |-> {}]
    /\ listed = [a \in Apps |-> {}]
    /\ models = [a \in Apps |-> {}]
    /\ document = [a \in Apps |-> Nobody]
    /\ call = [c \in Calls |-> NoCall]
    /\ home = [t \in Threads |-> Nobody]

Idle(t) ==
    /\ \A c \in Calls : call[c].thread # t
    /\ \A a \in Apps \ started : starter[a] # t

-----------------------------------------------------------------------------
(* The start of an application                                             *)

(* mainModule() with KoinFeature: KoinContext.set(). *)
Start(a, t) ==
    /\ starter[a] = Nobody
    /\ Idle(t)
    /\ starter' = [starter EXCEPT ![a] = t]
    /\ local' = [local EXCEPT ![t] = a]
    /\ home' = [home EXCEPT ![t] = a]
    /\ UNCHANGED <<registry, call>>

Built == UNION {OperationsOf[c] : c \in Controllers}

(* Mutant: the operations are registered before the routing builds them. *)
InitControllersLate(a) ==
    /\ starter[a] # Nobody
    /\ served[a] = {}
    /\ served' = [served EXCEPT ![a] = Built]
    /\ models' = [models EXCEPT ![a] = UNION {ModelsOf(op) : op \in Built}]
    /\ UNCHANGED <<local, starter, started, listed, document, call, home>>

(* initControllers(): of every controller the routing, whose builders      *)
(* register models, then the operations that it has built.                 *)
InitControllers(a) ==
    /\ starter[a] # Nobody
    /\ served[a] = {}
    /\ served' = [served EXCEPT ![a] = Built]
    /\ models' = [models EXCEPT ![a] = UNION {ModelsOf(op) : op \in Built}]
    /\ listed' = [listed EXCEPT ![a] = {Description(op) : op \in Built}]
    /\ UNCHANGED <<local, starter, started, document, call, home>>

(* The SwaggerController, and the features after it. *)
FinishStart(a) ==
    /\ served[a] # {}
    /\ a \notin started
    /\ started' = started \cup {a}
    /\ served' = [served EXCEPT ![a] = @ \cup Swagger]
    /\ UNCHANGED <<local, starter, listed, models, document, call, home>>

-----------------------------------------------------------------------------
(* Calls on threads                                                        *)

Runs(c, stage) == call[c].stage = stage /\ call[c].thread # Nobody

Set(t, value) == local' = [local EXCEPT ![t] = value]

(* The call comes to the state new, in the scope it is in, and goes on     *)
(* where it runs, or suspends.                                             *)
Proceeds(c, new) ==
    /\ call' = [call EXCEPT ![c] = new]
    /\ UNCHANGED local

Suspends(c, new) ==
    /\ call' = [call EXCEPT ![c] = [new EXCEPT !.thread = Nobody, !.saved = Nobody]]
    /\ IF new.scoped THEN Set(new.thread, new.saved) ELSE UNCHANGED local

Continues(c, new) == Proceeds(c, new) \/ Suspends(c, new)

EntersScope(c, new) ==
    /\ call' = [call EXCEPT ![c] = [new EXCEPT !.scoped = TRUE, !.saved = local[new.thread]]]
    /\ Set(new.thread, new.app)

LeavesScope(c, new) ==
    /\ call' = [call EXCEPT ![c] = [new EXCEPT !.scoped = FALSE, !.saved = Nobody]]
    /\ Set(new.thread, new.saved)

Ends(c) ==
    /\ call' = [call EXCEPT ![c] = Over]
    /\ IF call[c].scoped THEN Set(call[c].thread, call[c].saved) ELSE UNCHANGED local

Elsewhere == <<starter, registry, home>>

(* What becomes of the state s of a call. *)
At(s, stage) == [s EXCEPT !.stage = stage]
Failed(s, error) == [s EXCEPT !.stage = "caught", !.error = error]
Answer(s, status) == [s EXCEPT !.stage = "answering", !.status = status]
Acted(s) == [s EXCEPT !.effect = s.kind \in {"createUser", "login"}]

Arrive(c, a, kind) ==
    /\ call[c].stage = "idle"
    /\ a \in started
    /\ call' = [call EXCEPT ![c] = [NoCall EXCEPT !.app = a, !.kind = kind,
                                                  !.stage = "monitoring"]]
    /\ UNCHANGED <<local, Elsewhere>>

(* kotlinx.coroutines gives the thread the value of the scope of the call. *)
Resume(c, t) ==
    /\ call[c].stage \notin {"idle", "done"}
    /\ call[c].thread = Nobody
    /\ Idle(t)
    /\ IF call[c].scoped
       THEN /\ call' = [call EXCEPT ![c].thread = t, ![c].saved = local[t]]
            /\ Set(t, call[c].app)
       ELSE /\ call' = [call EXCEPT ![c].thread = t]
            /\ UNCHANGED local
    /\ UNCHANGED Elsewhere

-----------------------------------------------------------------------------
(* The pipeline.  An exception leaves the scope of KoinFeature on its way  *)
(* to StatusPages, which surrounds it.                                     *)

(* Mutant: the scope is not left in a finally. *)
ThrowsThrough(c, error) ==
    Proceeds(c, [call[c] EXCEPT !.stage = "caught", !.error = error, !.scoped = FALSE])

Throws(c, error) == LeavesScope(c, Failed(call[c], error))

(* The engine answers what the pipeline has left without an answer. *)
NotFound(c) == Answer(call[c], 404)

EnterKoin(c) ==
    /\ Runs(c, "monitoring")
    /\ EntersScope(c, At(call[c], "routing"))
    /\ UNCHANGED Elsewhere

NoRoute(c) ==
    /\ Runs(c, "routing")
    /\ call[c].kind \notin served[call[c].app]
    /\ LeavesScope(c, NotFound(c))
    /\ UNCHANGED Elsewhere

Routed(c, kinds) ==
    /\ Runs(c, "routing")
    /\ call[c].kind \in served[call[c].app] \cap kinds

(* AuthInterceptor, /web: the transaction that reads the session. *)
Authenticate(c) ==
    /\ Routed(c, Web)
    /\ \/ Continues(c, At(call[c], "handling"))
       \/ Throws(c, "other")
    /\ UNCHANGED Elsewhere

(* AuthInterceptor, /swagger: finish() after another answer than a page. *)
CheckCredentials(c) ==
    /\ Routed(c, Swagger)
    /\ \/ Proceeds(c, At(call[c], "handling"))
       \/ Proceeds(c, Answer(call[c], 401))
    /\ UNCHANGED Elsewhere

Ping(c) ==
    /\ Routed(c, {"ping"})
    /\ Proceeds(c, Answer(call[c], SuccessStatus("ping")))
    /\ UNCHANGED Elsewhere

(* documentedPost, documentedGet: receive or parse, validate, act. *)
Refuse(c, error) ==
    /\ Runs(c, "handling")
    /\ call[c].kind \in Web
    /\ error \in Refusals(call[c].kind)
    /\ Throws(c, error)
    /\ UNCHANGED Elsewhere

Act(c) ==
    /\ Runs(c, "handling")
    /\ call[c].kind \in Web
    /\ \/ Continues(c, Answer(Acted(call[c]), SuccessStatus(call[c].kind)))
       \/ LeavesScope(c, Failed(Acted(call[c]), "other"))
    /\ UNCHANGED Elsewhere

(* swaggerJson is rendered for the first call that asks for it. *)
Rendered(a) == [descriptions |-> listed[a], models |-> models[a]]

ShowDocument(c) ==
    LET a == call[c].app IN
    /\ Runs(c, "handling")
    /\ call[c].kind = "swagger.json"
    /\ document' = [document EXCEPT ![a] = IF @ = Nobody THEN Rendered(a) ELSE @]
    /\ Proceeds(c, Answer(call[c], 200))
    /\ UNCHANGED <<starter, started, served, listed, models, home>>

(* A resource, none of this name, or one that cannot be read. *)
ShowResource(c) ==
    /\ Runs(c, "handling")
    /\ call[c].kind = "resource"
    /\ \/ \E status \in {200, 404} : Proceeds(c, Answer(call[c], status))
       \/ Throws(c, "other")
    /\ UNCHANGED Elsewhere

(* Mutant: only what /web throws is handled, and nothing answers the rest. *)
EnterHandlerForWeb(c) ==
    /\ Runs(c, "caught")
    /\ call[c].kind \in Web
    /\ EntersScope(c, At(call[c], "mapping"))
    /\ UNCHANGED Elsewhere

(* Mutant: the handler is looked up where the exception is caught. *)
EnterHandlerUnscoped(c) ==
    /\ Runs(c, "caught")
    /\ Proceeds(c, At(call[c], "mapping"))
    /\ UNCHANGED Elsewhere

(* StatusPages: a scope of its own for the error handler. *)
EnterHandler(c) ==
    /\ Runs(c, "caught")
    /\ EntersScope(c, At(call[c], "mapping"))
    /\ UNCHANGED Elsewhere

(* Mutant: every call is a web request to the handler. *)
HandleAnyError(c) ==
    /\ Runs(c, "mapping")
    /\ Proceeds(c, Answer(call[c], ErrorStatus(call[c].error)))
    /\ UNCHANGED Elsewhere

(* handleError(): it only returns FALSE outside /web. *)
HandleError(c) ==
    /\ Runs(c, "mapping")
    /\ IF call[c].kind \in Web
       THEN Proceeds(c, Answer(call[c], ErrorStatus(call[c].error)))
       ELSE LeavesScope(c, NotFound(c))
    /\ UNCHANGED Elsewhere

(* Content negotiation replaces an object that it cannot convert to what   *)
(* the client accepts.                                                     *)
NotAcceptable(c) ==
    /\ Runs(c, "answering")
    /\ call[c].kind \in Web
    /\ call[c].status # 406
    /\ Proceeds(c, Answer(call[c], 406))
    /\ UNCHANGED Elsewhere

(* The answer is sent or lost. *)
Deliver(c) ==
    /\ Runs(c, "answering")
    /\ Ends(c)
    /\ UNCHANGED Elsewhere

Handle(c) ==
    \/ EnterKoin(c)
    \/ NoRoute(c)
    \/ Authenticate(c)
    \/ CheckCredentials(c)
    \/ Ping(c)
    \/ \E error \in Errors : Refuse(c, error)
    \/ Act(c)
    \/ ShowDocument(c)
    \/ ShowResource(c)
    \/ EnterHandler(c)
    \/ HandleError(c)
    \/ NotAcceptable(c)
    \/ Deliver(c)

StartUp(a) ==
    \/ InitControllers(a)
    \/ FinishStart(a)

(* Every call is done. *)
Terminated ==
    /\ \A c \in Calls : call[c].stage = "done"
    /\ UNCHANGED vars

Next ==
    \/ \E a \in Apps : (\E t \in Threads : Start(a, t)) \/ StartUp(a)
    \/ \E c \in Calls :
           \/ \E a \in Apps, kind \in Kinds : Arrive(c, a, kind)
           \/ \E t \in Threads : Resume(c, t)
           \/ Handle(c)
    \/ Terminated

Spec == Init /\ [][Next]_vars

(* What runs goes on, and a thread that is free takes what waits for one. *)
Fairness ==
    /\ \A a \in Apps : WF_vars(StartUp(a))
    /\ \A c \in Calls : WF_vars(Handle(c)) /\ WF_vars(\E t \in Threads : Resume(c, t))

FairSpec == Spec /\ Fairness
-----------------------------------------------------------------------------
(* Properties                                                              *)

Answers(c) == call[c].stage = "answering"

(* Where a call may resolve a dependency, by eager() or the first use of a *)
(* lazy(), its thread shows the Koin of its own application: in            *)
(* interceptors, handlers and the error handler, whatever threads it was   *)
(* moved to and whatever other applications did there.                     *)
ResolvesOwnKoin ==
    \A c \in Calls : \A stage \in {"routing", "handling", "mapping"} :
        Runs(c, stage) => local[call[c].thread] = call[c].app

(* No scope outlives the time its call runs on a thread: a free thread has *)
(* the value it was started with, in any order of exceptions, suspensions  *)
(* and answers.                                                            *)
ThreadsAreRestored == \A t \in Threads : Idle(t) => local[t] = home[t]

(* The status and what happened to the tables: 201 only for a change; an   *)
(* error leaves no change, except 406 and 500, which may come after the    *)
(* commit.  Under /web an exception is never answered as if there were no  *)
(* route; outside of it 500 is never seen.                                 *)
StatusTellsTheEffect == \A c \in Calls : Answers(c) =>
    /\ call[c].status = 201 => call[c].effect
    /\ call[c].effect => call[c].status \in {201, 406, 500}
    /\ call[c].status = 404 => call[c].kind \notin Operations
    /\ call[c].status = 500 => call[c].kind \in Web

(* An operation that succeeds answers with the status its documentation    *)
(* gives for it, and the documentation that is served names every          *)
(* operation that is, with models that are in it.                          *)
DocumentationIsTrue ==
    /\ \A c \in Calls : /\ Answers(c)
                      /\ call[c].kind \in Operations
                      /\ call[c].status \in {200, 201} =>
           \E d \in listed[call[c].app] :
               d.route = call[c].kind /\ d.status = call[c].status
    /\ \A a \in Apps : document[a] # Nobody =>
           /\ {d.route : d \in document[a].descriptions} = served[a] \cap Operations
           /\ UNION {d.models : d \in document[a].descriptions} \subseteq document[a].models

(* Every call that arrives is answered in the end. *)
CallsEnd == <>[](\A c \in Calls : call[c].stage \in {"idle", "done"})
-----------------------------------------------------------------------------
(* The inductive invariant                                                 *)

(* A thread runs one call, or starts one application, at a time. *)
ThreadInv ==
    /\ \A c, d \in Calls : call[c].thread = call[d].thread /\ c # d => call[c].thread = Nobody
    /\ \A c \in Calls, a \in Apps \ started :
           call[c].thread = starter[a] => call[c].thread = Nobody

(* A call is in a scope exactly between KoinFeature or StatusPages and the *)
(* end of the one or the other.                                            *)
Scoped(state) ==
    /\ state.stage \in {"idle", "done"} => state.thread = Nobody /\ ~state.scoped
    /\ state.stage \in {"monitoring", "caught"} => ~state.scoped
    /\ state.stage \in {"routing", "handling", "mapping"} => state.scoped
    /\ state.stage \notin {"idle", "done"} => state.app \in started

ScopeInv == \A c \in Calls : Scoped(call[c])

(* A thread has the value of the scope of the call it runs, which keeps    *)
(* the value the thread was started with, or has that value itself.        *)
LocalInv ==
    /\ \A c \in Calls : call[c].scoped /\ call[c].thread # Nobody =>
           /\ local[call[c].thread] = call[c].app
           /\ call[c].saved = home[call[c].thread]
    /\ \A t \in Threads :
           (\A c \in Calls : call[c].thread = t => ~call[c].scoped) => local[t] = home[t]

(* What is known of kind, effect and status on the way. *)
Told(state) ==
    /\ state.effect => /\ state.kind \in {"createUser", "login"}
                       /\ state.stage \in {"caught", "mapping", "answering"}
    /\ state.stage \in {"caught", "mapping"} /\ state.effect => state.error = "other"
    /\ state.stage = "answering" =>
           /\ state.status = 201 => state.effect
           /\ state.effect => state.status \in {201, 406, 500}
           /\ state.status = 404 => state.kind \notin Operations
           /\ state.status = 500 => state.kind \in Web
    /\ state.stage = "answering" /\ state.kind \in Operations /\ state.status \in {200, 201} =>
           state.status = SuccessStatus(state.kind)
    /\ state.stage \in {"handling", "caught", "mapping"} => state.kind \in Web \cup Swagger

EffectInv == \A c \in Calls : Told(call[c])

(* What an application serves when, and what it documents. *)
RegistryInv == \A a \in Apps :
    /\ starter[a] = Nobody => served[a] = {}
    /\ a \notin started => served[a] \in {{}, Operations}
    /\ a \in started => served[a] = Operations \cup Swagger
    /\ served[a] # {} =>
           /\ listed[a] = Descriptions
           /\ models[a] = Models
    /\ document[a] # Nobody => a \in started /\ document[a] = Rendered(a)

PipelineInv ==
    /\ TypeOK
    /\ ThreadInv
    /\ ScopeInv
    /\ LocalInv
    /\ EffectInv
    /\ RegistryInv
=============================================================================
