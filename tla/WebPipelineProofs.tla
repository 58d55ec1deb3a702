------------------------- MODULE WebPipelineProofs -------------------------
(***************************************************************************)
(* The inductive invariant of WebPipeline and what follows from it, for    *)
(* any applications, threads and calls.                                    *)
(*                                                                         *)
(* Every step of a call has one of five shapes: it stays in its scope, it  *)
(* suspends, it enters or leaves a scope, or it ends.  How the calls share *)
(* threads and the KoinContext is proved from the shapes, what a call may  *)
(* answer from the steps.                                                  *)
(***************************************************************************)
EXTENDS WebPipeline, TLAPS

(* What a step of the call c to the state new does to its thread. *)
Shape(c, new) ==
    LET t == call[c].thread IN
    /\ t \in Threads
    /\ new \in CallStates
    /\ call' = [call EXCEPT ![c] = new]
    /\ \/ /\ new.thread = t
          /\ new.scoped = call[c].scoped
          /\ new.saved = call[c].saved
          /\ new.app = call[c].app
          /\ UNCHANGED local
       \/ /\ new.thread = Nobody
          /\ new.scoped => call[c].scoped
          /\ new.scoped => new.app = call[c].app
          /\ IF call[c].scoped THEN Set(t, call[c].saved) ELSE UNCHANGED local
       \/ /\ new.thread = t
          /\ ~call[c].scoped
          /\ new.scoped
          /\ new.saved = local[t]
          /\ new.app = call[c].app
          /\ Set(t, call[c].app)
       \/ /\ new.thread = t
          /\ call[c].scoped
          /\ ~new.scoped
          /\ new.app = call[c].app
          /\ Set(t, call[c].saved)

(* What is true of the state that a step of a call leads to. *)
Sound(c, new) ==
    /\ Shape(c, new)
    /\ Scoped(new)
    /\ Told(new)

(* The operations of the controllers are the operations there are. *)
LEMMA AllBuilt == Built = Operations
BY DEF Built, Controllers, OperationsOf, Operations, Web

(* A state of c that differs from the present one in what c has done only. *)
Same(c, new) ==
    /\ call[c].thread \in Threads
    /\ call[c].app \in started
    /\ new \in CallStates
    /\ new.thread = call[c].thread
    /\ new.scoped = call[c].scoped
    /\ new.saved = call[c].saved
    /\ new.app = call[c].app
    /\ Told(new)

(* Going on keeps the thread and its scope. *)
LEMMA ProceedsSound ==
    ASSUME NEW c \in Calls, NEW new, Same(c, new), Scoped(new), Proceeds(c, new)
    PROVE  Sound(c, new)
BY DEF Same, Sound, Shape, Proceeds

(* Suspending gives the thread back with the value it had. *)
LEMMA SuspendsSound ==
    ASSUME NEW c \in Calls, NEW new, Same(c, new), Scoped(new), Suspends(c, new)
    PROVE  \E s : Sound(c, s)
<1> DEFINE s == [new EXCEPT !.thread = Nobody, !.saved = Nobody]
<1>1. new \in CallStates /\ Told(new) /\ new.thread = call[c].thread
      /\ new.scoped = call[c].scoped /\ new.saved = call[c].saved /\ new.app = call[c].app
      /\ call[c].thread \in Threads
    BY DEF Same
<1>2. s \in CallStates /\ s.thread = Nobody /\ s.scoped = new.scoped /\ s.app = new.app
      /\ s.stage = new.stage /\ s.effect = new.effect /\ s.kind = new.kind
      /\ s.status = new.status /\ s.error = new.error
    BY <1>1 DEF CallStates
<1>3. Scoped(s) /\ Told(s)
    BY <1>1, <1>2 DEF Scoped, Told
<1>4. call' = [call EXCEPT ![c] = s]
      /\ IF new.scoped THEN Set(new.thread, new.saved) ELSE UNCHANGED local
    BY DEF Suspends
<1> HIDE DEF s
<1>5. Shape(c, s)
    BY <1>1, <1>2, <1>4 DEF Shape
<1>6. QED
    BY <1>3, <1>5 DEF Sound

(* Entering a scope keeps what the thread had. *)
LEMMA EntersSound ==
    ASSUME NEW c \in Calls, NEW new, Same(c, new), TypeOK, ~call[c].scoped,
           new.stage \in {"routing", "mapping"}, EntersScope(c, new)
    PROVE  \E s : Sound(c, s)
<1> DEFINE s == [new EXCEPT !.scoped = TRUE, !.saved = local[new.thread]]
<1>1. new \in CallStates /\ Told(new) /\ new.thread = call[c].thread /\ new.app = call[c].app
      /\ call[c].thread \in Threads /\ call[c].app \in started
    BY DEF Same
<1>2. local[new.thread] \in Apps \cup {Nobody}
    BY <1>1 DEF TypeOK
<1>3. s \in CallStates /\ s.thread = new.thread /\ s.scoped /\ s.app = new.app
      /\ s.saved = local[new.thread]
      /\ s.stage = new.stage /\ s.effect = new.effect /\ s.kind = new.kind
      /\ s.status = new.status /\ s.error = new.error
    BY <1>1, <1>2 DEF CallStates
<1>4. Scoped(s) /\ Told(s)
    BY <1>1, <1>3 DEF Scoped, Told
<1>5. call' = [call EXCEPT ![c] = s] /\ Set(new.thread, new.app)
    BY DEF EntersScope
<1> HIDE DEF s
<1>6. Shape(c, s)
    BY <1>1, <1>3, <1>5 DEF Shape
<1>7. QED
    BY <1>4, <1>6 DEF Sound

(* Leaving a scope gives the thread what it had before. *)
LEMMA LeavesSound ==
    ASSUME NEW c \in Calls, NEW new, Same(c, new), call[c].scoped,
           new.stage \in {"caught", "answering"}, LeavesScope(c, new)
    PROVE  \E s : Sound(c, s)
<1> DEFINE s == [new EXCEPT !.scoped = FALSE, !.saved = Nobody]
<1>1. new \in CallStates /\ Told(new) /\ new.thread = call[c].thread /\ new.app = call[c].app
      /\ call[c].thread \in Threads /\ call[c].app \in started /\ new.saved = call[c].saved
    BY DEF Same
<1>2. s \in CallStates /\ s.thread = new.thread /\ ~s.scoped /\ s.app = new.app
      /\ s.stage = new.stage /\ s.effect = new.effect /\ s.kind = new.kind
      /\ s.status = new.status /\ s.error = new.error
    BY <1>1 DEF CallStates
<1>3. Scoped(s) /\ Told(s)
    BY <1>1, <1>2 DEF Scoped, Told
<1>4. call' = [call EXCEPT ![c] = s] /\ Set(new.thread, new.saved)
    BY DEF LeavesScope
<1> HIDE DEF s
<1>5. Shape(c, s)
    BY <1>1, <1>2, <1>4 DEF Shape
<1>6. QED
    BY <1>3, <1>5 DEF Sound

(* A call that ends leaves its scope and its thread. *)
LEMMA EndsSound ==
    ASSUME NEW c \in Calls, call[c].thread \in Threads, Ends(c)
    PROVE  \E s : Sound(c, s)
<1>1. /\ Over.thread = Nobody /\ Over.scoped = FALSE /\ Over.stage = "done"
      /\ Over.effect = FALSE
    BY DEF Over, NoCall
<1>2. Over \in CallStates
    <2>1. NoCall \in CallStates
        BY DEF NoCall, CallStates, Kinds, Operations, Stages, Errors, Statuses
    <2>2. "done" \in Stages
        BY DEF Stages
    <2>3. QED
        BY <2>1, <2>2 DEF Over, CallStates
<1>3. Scoped(Over) /\ Told(Over)
    BY <1>1 DEF Scoped, Told
<1>4. Shape(c, Over)
    BY <1>1, <1>2 DEF Ends, Shape
<1>5. QED
    BY <1>3, <1>4 DEF Sound

(* The state new is s at another stage, with error, status and effect. *)
Differs(new, s, stage, error, status, effect) ==
    /\ new \in CallStates
    /\ new.thread = s.thread /\ new.scoped = s.scoped /\ new.saved = s.saved
    /\ new.app = s.app /\ new.kind = s.kind /\ new.stage = stage
    /\ new.error = error /\ new.status = status /\ new.effect = effect

(* The fields of the states that the steps of a call lead to. *)
LEMMA AtDiffers ==
    ASSUME NEW s \in CallStates, NEW stage \in Stages
    PROVE  Differs(At(s, stage), s, stage, s.error, s.status, s.effect)
BY DEF CallStates, At, Differs

LEMMA FailedDiffers ==
    ASSUME NEW s \in CallStates, NEW error \in Errors
    PROVE  Differs(Failed(s, error), s, "caught", error, s.status, s.effect)
<1>1. "caught" \in Stages
    BY DEF Stages
<1>2. QED
    BY <1>1 DEF CallStates, Failed, Differs

LEMMA AnswerDiffers ==
    ASSUME NEW s \in CallStates, NEW status \in Statuses
    PROVE  Differs(Answer(s, status), s, "answering", s.error, status, s.effect)
<1>1. "answering" \in Stages
    BY DEF Stages
<1>2. QED
    BY <1>1 DEF CallStates, Answer, Differs

LEMMA ActedDiffers ==
    ASSUME NEW s \in CallStates
    PROVE  Differs(Acted(s), s, s.stage, s.error, s.status, s.kind \in {"createUser", "login"})
<1>1. (s.kind \in {"createUser", "login"}) \in BOOLEAN
    OBVIOUS
<1>2. QED
    BY <1>1 DEF CallStates, Acted, Differs

(* What is known of a call that runs. *)
LEMMA Running ==
    ASSUME PipelineInv, NEW c \in Calls, call[c].thread # Nobody
    PROVE  /\ call[c] \in CallStates
           /\ call[c].thread \in Threads
           /\ call[c].app \in started
           /\ call[c].app \in Apps
           /\ Scoped(call[c]) /\ Told(call[c])
<1>1. call[c] \in CallStates /\ Scoped(call[c]) /\ Told(call[c]) /\ started \in SUBSET Apps
    BY DEF PipelineInv, TypeOK, ScopeInv, EffectInv
<1>2. QED
    BY <1>1 DEF Scoped, CallStates

(* A running call at another stage, if what it tells is true. *)
LEMMA Later ==
    ASSUME PipelineInv, NEW c \in Calls, call[c].thread # Nobody, NEW new, Told(new),
           NEW stage, NEW error, NEW status, NEW effect,
           Differs(new, call[c], stage, error, status, effect)
    PROVE  Same(c, new)
BY Running DEF Same, Differs

(* A step of a call leads it to a sound state, in one of the shapes. *)
LEMMA HandleSound ==
    ASSUME PipelineInv, NEW c \in Calls, Handle(c)
    PROVE  \E s : Sound(c, s)
<1>a. TypeOK
    BY DEF PipelineInv
<1>1. CASE EnterKoin(c)
    <2>1. call[c].thread # Nobody /\ call[c].stage = "monitoring"
        BY <1>1 DEF EnterKoin, Runs
    <2>2. call[c] \in CallStates /\ Scoped(call[c]) /\ Told(call[c])
        BY <2>1, Running
    <2>3. Same(c, At(call[c], "routing")) /\ At(call[c], "routing").stage = "routing"
        <3>1. Differs(At(call[c], "routing"), call[c], "routing", call[c].error, call[c].status, call[c].effect)
            BY <2>1, <2>2, AtDiffers DEF Stages
        <3>2. Told(At(call[c], "routing"))
            BY <2>1, <2>2, <3>1 DEF Told, Differs, Operations, Web, Swagger
        <3>3. QED
            BY <2>1, <3>1, <3>2, Later DEF Differs
    <2>4. QED
        BY <2>1, <2>2, <2>3, <1>1, <1>a, EntersSound DEF EnterKoin, Scoped
<1>2. CASE NoRoute(c)
    <2>1. call[c].thread # Nobody /\ call[c].stage = "routing" /\ call[c].kind \notin Operations
        BY <1>2, Running DEF NoRoute, Runs, PipelineInv, RegistryInv
    <2>2. call[c] \in CallStates /\ Scoped(call[c]) /\ Told(call[c])
        BY <2>1, Running
    <2>3. Same(c, Answer(call[c], 404)) /\ Answer(call[c], 404).stage = "answering"
        <3>1. Differs(Answer(call[c], 404), call[c], "answering", call[c].error, 404, call[c].effect)
            BY <2>1, <2>2, AnswerDiffers DEF Statuses
        <3>2. Told(Answer(call[c], 404))
            BY <2>1, <2>2, <3>1 DEF Told, Differs, Operations, Web, Swagger
        <3>3. QED
            BY <2>1, <3>1, <3>2, Later DEF Differs
    <2>4. QED
        BY <2>1, <2>2, <2>3, <1>2, LeavesSound DEF NoRoute, NotFound, Scoped
<1>3. CASE Authenticate(c)
    <2>1. call[c].thread # Nobody /\ call[c].stage = "routing" /\ call[c].kind \in Web
        BY <1>3 DEF Authenticate, Routed, Runs
    <2>2. call[c] \in CallStates /\ Scoped(call[c]) /\ Told(call[c])
        BY <2>1, Running
    <2>3. Same(c, At(call[c], "handling")) /\ At(call[c], "handling").stage = "handling"
        <3>1. Differs(At(call[c], "handling"), call[c], "handling", call[c].error, call[c].status, call[c].effect)
            BY <2>1, <2>2, AtDiffers DEF Stages
        <3>2. Told(At(call[c], "handling"))
            BY <2>1, <2>2, <3>1 DEF Told, Differs, Operations, Web, Swagger
        <3>3. QED
            BY <2>1, <3>1, <3>2, Later DEF Differs
    <2>4. Same(c, Failed(call[c], "other")) /\ Failed(call[c], "other").stage = "caught"
        <3>1. Differs(Failed(call[c], "other"), call[c], "caught", "other", call[c].status, call[c].effect)
            BY <2>1, <2>2, FailedDiffers DEF Errors
        <3>2. Told(Failed(call[c], "other"))
            BY <2>1, <2>2, <3>1 DEF Told, Differs, Operations, Web, Swagger
        <3>3. QED
            BY <2>1, <3>1, <3>2, Later DEF Differs
    <2>5. CASE Proceeds(c, At(call[c], "handling"))
        BY <2>1, <2>2, <2>3, <2>5, ProceedsSound DEF Scoped, Same
    <2>6. CASE Suspends(c, At(call[c], "handling"))
        BY <2>1, <2>2, <2>3, <2>6, SuspendsSound DEF Scoped, Same
    <2>7. CASE Throws(c, "other")
        BY <2>1, <2>2, <2>4, <2>7, LeavesSound DEF Throws, Scoped
    <2>8. QED
        BY <2>5, <2>6, <2>7, <1>3 DEF Authenticate, Continues
<1>4. CASE CheckCredentials(c)
    <2>1. call[c].thread # Nobody /\ call[c].stage = "routing" /\ call[c].kind \in Swagger
        BY <1>4 DEF CheckCredentials, Routed, Runs
    <2>2. call[c] \in CallStates /\ Scoped(call[c]) /\ Told(call[c])
        BY <2>1, Running
    <2>3. Same(c, At(call[c], "handling")) /\ At(call[c], "handling").stage = "handling"
        <3>1. Differs(At(call[c], "handling"), call[c], "handling", call[c].error, call[c].status, call[c].effect)
            BY <2>1, <2>2, AtDiffers DEF Stages
        <3>2. Told(At(call[c], "handling"))
            BY <2>1, <2>2, <3>1 DEF Told, Differs, Operations, Web, Swagger
        <3>3. QED
            BY <2>1, <3>1, <3>2, Later DEF Differs
    <2>4. Same(c, Answer(call[c], 401)) /\ Answer(call[c], 401).stage = "answering"
        <3>1. Differs(Answer(call[c], 401), call[c], "answering", call[c].error, 401, call[c].effect)
            BY <2>1, <2>2, AnswerDiffers DEF Statuses
        <3>2. Told(Answer(call[c], 401))
            BY <2>1, <2>2, <3>1 DEF Told, Differs, Operations, Web, Swagger
        <3>3. QED
            BY <2>1, <3>1, <3>2, Later DEF Differs
    <2>5. CASE Proceeds(c, At(call[c], "handling"))
        BY <2>1, <2>2, <2>3, <2>5, ProceedsSound DEF Scoped, Same
    <2>6. CASE Proceeds(c, Answer(call[c], 401))
        BY <2>1, <2>2, <2>4, <2>6, ProceedsSound DEF Scoped, Same
    <2>7. QED
        BY <2>5, <2>6, <1>4 DEF CheckCredentials
<1>5. CASE Ping(c)
    <2>1. call[c].thread # Nobody /\ call[c].stage = "routing" /\ call[c].kind = "ping"
        BY <1>5 DEF Ping, Routed, Runs
    <2>2. call[c] \in CallStates /\ Scoped(call[c]) /\ Told(call[c])
        BY <2>1, Running
    <2>3. Same(c, Answer(call[c], SuccessStatus("ping"))) /\ Answer(call[c], SuccessStatus("ping")).stage = "answering"
        <3>1. Differs(Answer(call[c], SuccessStatus("ping")), call[c], "answering", call[c].error, SuccessStatus("ping"), call[c].effect)
            BY <2>1, <2>2, AnswerDiffers DEF Statuses, SuccessStatus
        <3>2. Told(Answer(call[c], SuccessStatus("ping")))
            BY <2>1, <2>2, <3>1 DEF Told, Differs, Operations, Web, Swagger, SuccessStatus
        <3>3. QED
            BY <2>1, <3>1, <3>2, Later DEF Differs
    <2>4. QED
        BY <2>1, <2>2, <2>3, <1>5, ProceedsSound DEF Ping, Scoped, Same
<1>6. ASSUME NEW error \in Errors, Refuse(c, error)
      PROVE  \E s : Sound(c, s)
    <2>1. call[c].thread # Nobody /\ call[c].stage = "handling" /\ call[c].kind \in Web
        BY <1>6 DEF Refuse, Runs
    <2>2. call[c] \in CallStates /\ Scoped(call[c]) /\ Told(call[c])
        BY <2>1, Running
    <2>3. Same(c, Failed(call[c], error)) /\ Failed(call[c], error).stage = "caught"
        <3>1. Differs(Failed(call[c], error), call[c], "caught", error, call[c].status, call[c].effect)
            BY <2>1, <2>2, FailedDiffers DEF Errors
        <3>2. Told(Failed(call[c], error))
            BY <2>1, <2>2, <3>1 DEF Told, Differs, Operations, Web, Swagger
        <3>3. QED
            BY <2>1, <3>1, <3>2, Later DEF Differs
    <2>4. QED
        BY <2>1, <2>2, <2>3, <1>6, LeavesSound DEF Refuse, Throws, Scoped
<1>7. CASE Act(c)
    <2> DEFINE acted == Acted(call[c])
               status == SuccessStatus(call[c].kind)
               effect == call[c].kind \in {"createUser", "login"}
    <2>1. call[c].thread # Nobody /\ call[c].stage = "handling" /\ call[c].kind \in Web
        BY <1>7 DEF Act, Runs
    <2>2. call[c] \in CallStates /\ Scoped(call[c]) /\ Told(call[c])
        BY <2>1, Running
    <2>3. Differs(acted, call[c], "handling", call[c].error, call[c].status, effect)
        BY <2>1, <2>2, ActedDiffers
    <2>4. Same(c, Answer(acted, status)) /\ Answer(acted, status).stage = "answering"
        <3>1. Differs(Answer(acted, status), acted, "answering", acted.error, status, acted.effect)
            BY <2>3, AnswerDiffers DEF Differs, Statuses, SuccessStatus
        <3>2. Differs(Answer(acted, status), call[c], "answering", call[c].error, status, effect)
            BY <2>3, <3>1 DEF Differs
        <3>3. Told(Answer(acted, status))
            <4> DEFINE new == Answer(acted, status)
            <4>1. /\ new.stage = "answering" /\ new.kind \in Web
                  /\ new.effect <=> new.kind \in {"createUser", "login"}
                  /\ new.status = SuccessStatus(new.kind)
                BY <2>1, <3>2 DEF Differs
            <4> HIDE DEF new
            <4>2. Told(new)
                BY <4>1 DEF Told, Operations, Web, SuccessStatus
            <4>3. QED
                BY <4>2 DEF new
        <3>4. QED
            BY <2>1, <3>2, <3>3, Later DEF Differs
    <2>5. Same(c, Failed(acted, "other")) /\ Failed(acted, "other").stage = "caught"
        <3>1. Differs(Failed(acted, "other"), acted, "caught", "other", acted.status, acted.effect)
            BY <2>3, FailedDiffers DEF Differs, Errors
        <3>2. Differs(Failed(acted, "other"), call[c], "caught", "other", call[c].status, effect)
            BY <2>3, <3>1 DEF Differs
        <3>3. Told(Failed(acted, "other"))
            BY <2>1, <2>2, <3>2 DEF Told, Differs, Operations, Web, Swagger
        <3>4. QED
            BY <2>1, <3>2, <3>3, Later DEF Differs
    <2>6. CASE Proceeds(c, Answer(acted, status))
        BY <2>1, <2>2, <2>4, <2>6, ProceedsSound DEF Scoped, Same
    <2>7. CASE Suspends(c, Answer(acted, status))
        BY <2>1, <2>2, <2>4, <2>7, SuspendsSound DEF Scoped, Same
    <2>8. CASE LeavesScope(c, Failed(acted, "other"))
        BY <2>1, <2>2, <2>5, <2>8, LeavesSound DEF Scoped
    <2>9. QED
        BY <2>6, <2>7, <2>8, <1>7 DEF Act, Continues
<1>8. CASE ShowDocument(c)
    <2>1. call[c].thread # Nobody /\ call[c].stage = "handling" /\ call[c].kind = "swagger.json"
        BY <1>8 DEF ShowDocument, Runs
    <2>2. call[c] \in CallStates /\ Scoped(call[c]) /\ Told(call[c])
        BY <2>1, Running
    <2>3. Same(c, Answer(call[c], 200)) /\ Answer(call[c], 200).stage = "answering"
        <3>1. Differs(Answer(call[c], 200), call[c], "answering", call[c].error, 200, call[c].effect)
            BY <2>1, <2>2, AnswerDiffers DEF Statuses
        <3>2. Told(Answer(call[c], 200))
            BY <2>1, <2>2, <3>1 DEF Told, Differs, Operations, Web, Swagger
        <3>3. QED
            BY <2>1, <3>1, <3>2, Later DEF Differs
    <2>4. QED
        BY <2>1, <2>2, <2>3, <1>8, ProceedsSound DEF ShowDocument, Scoped, Same
<1>9. CASE ShowResource(c)
    <2>1. call[c].thread # Nobody /\ call[c].stage = "handling" /\ call[c].kind = "resource"
        BY <1>9 DEF ShowResource, Runs
    <2>2. call[c] \in CallStates /\ Scoped(call[c]) /\ Told(call[c])
        BY <2>1, Running
    <2>3. Same(c, Answer(call[c], 200)) /\ Answer(call[c], 200).stage = "answering"
        <3>1. Differs(Answer(call[c], 200), call[c], "answering", call[c].error, 200, call[c].effect)
            BY <2>1, <2>2, AnswerDiffers DEF Statuses
        <3>2. Told(Answer(call[c], 200))
            BY <2>1, <2>2, <3>1 DEF Told, Differs, Operations, Web, Swagger
        <3>3. QED
            BY <2>1, <3>1, <3>2, Later DEF Differs
    <2>4. Same(c, Answer(call[c], 404)) /\ Answer(call[c], 404).stage = "answering"
        <3>1. Differs(Answer(call[c], 404), call[c], "answering", call[c].error, 404, call[c].effect)
            BY <2>1, <2>2, AnswerDiffers DEF Statuses
        <3>2. Told(Answer(call[c], 404))
            BY <2>1, <2>2, <3>1 DEF Told, Differs, Operations, Web, Swagger
        <3>3. QED
            BY <2>1, <3>1, <3>2, Later DEF Differs
    <2>5. Same(c, Failed(call[c], "other")) /\ Failed(call[c], "other").stage = "caught"
        <3>1. Differs(Failed(call[c], "other"), call[c], "caught", "other", call[c].status, call[c].effect)
            BY <2>1, <2>2, FailedDiffers DEF Errors
        <3>2. Told(Failed(call[c], "other"))
            BY <2>1, <2>2, <3>1 DEF Told, Differs, Operations, Web, Swagger
        <3>3. QED
            BY <2>1, <3>1, <3>2, Later DEF Differs
    <2>6. CASE Proceeds(c, Answer(call[c], 200))
        BY <2>1, <2>2, <2>3, <2>6, ProceedsSound DEF Scoped, Same
    <2>7. CASE Proceeds(c, Answer(call[c], 404))
        BY <2>1, <2>2, <2>4, <2>7, ProceedsSound DEF Scoped, Same
    <2>8. CASE Throws(c, "other")
        BY <2>1, <2>2, <2>5, <2>8, LeavesSound DEF Throws, Scoped
    <2>9. QED
        BY <2>6, <2>7, <2>8, <1>9 DEF ShowResource
<1>10. CASE EnterHandler(c)
    <2>1. call[c].thread # Nobody /\ call[c].stage = "caught"
        BY <1>10 DEF EnterHandler, Runs
    <2>2. call[c] \in CallStates /\ Scoped(call[c]) /\ Told(call[c])
        BY <2>1, Running
    <2>3. Same(c, At(call[c], "mapping")) /\ At(call[c], "mapping").stage = "mapping"
        <3>1. Differs(At(call[c], "mapping"), call[c], "mapping", call[c].error, call[c].status, call[c].effect)
            BY <2>1, <2>2, AtDiffers DEF Stages
        <3>2. Told(At(call[c], "mapping"))
            BY <2>1, <2>2, <3>1 DEF Told, Differs, Operations, Web, Swagger
        <3>3. QED
            BY <2>1, <3>1, <3>2, Later DEF Differs
    <2>4. QED
        BY <2>1, <2>2, <2>3, <1>10, <1>a, EntersSound DEF EnterHandler, Scoped
<1>11. CASE HandleError(c)
    <2>1. call[c].thread # Nobody /\ call[c].stage = "mapping"
        BY <1>11 DEF HandleError, Runs
    <2>2. call[c] \in CallStates /\ Scoped(call[c]) /\ Told(call[c])
        BY <2>1, Running
    <2>3. ASSUME call[c].kind \in Web
          PROVE  Same(c, Answer(call[c], ErrorStatus(call[c].error))) /\ Answer(call[c], ErrorStatus(call[c].error)).stage = "answering"
        <3>1. Differs(Answer(call[c], ErrorStatus(call[c].error)), call[c], "answering", call[c].error, ErrorStatus(call[c].error), call[c].effect)
            BY <2>1, <2>2, AnswerDiffers DEF Statuses, ErrorStatus
        <3>2. Told(Answer(call[c], ErrorStatus(call[c].error)))
            BY <2>1, <2>2, <3>1, <2>3 DEF Told, Differs, Operations, Web, Swagger, ErrorStatus, SuccessStatus
        <3>3. QED
            BY <2>1, <3>1, <3>2, Later DEF Differs
    <2>4. ASSUME call[c].kind \notin Web
          PROVE  Same(c, Answer(call[c], 404)) /\ Answer(call[c], 404).stage = "answering"
        <3>1. Differs(Answer(call[c], 404), call[c], "answering", call[c].error, 404, call[c].effect)
            BY <2>1, <2>2, AnswerDiffers DEF Statuses
        <3>2. Told(Answer(call[c], 404))
            BY <2>1, <2>2, <3>1, <2>4 DEF Told, Differs, Operations, Web, Swagger
        <3>3. QED
            BY <2>1, <3>1, <3>2, Later DEF Differs
    <2>5. CASE call[c].kind \in Web
        BY <2>1, <2>2, <2>3, <2>5, <1>11, ProceedsSound DEF HandleError, Scoped, Same
    <2>6. CASE call[c].kind \notin Web
        BY <2>1, <2>2, <2>4, <2>6, <1>11, LeavesSound DEF HandleError, NotFound, Scoped
    <2>7. QED
        BY <2>5, <2>6
<1>12. CASE NotAcceptable(c)
    <2>1. call[c].thread # Nobody /\ call[c].stage = "answering" /\ call[c].kind \in Web
        BY <1>12 DEF NotAcceptable, Runs
    <2>2. call[c] \in CallStates /\ Scoped(call[c]) /\ Told(call[c])
        BY <2>1, Running
    <2>3. Same(c, Answer(call[c], 406)) /\ Answer(call[c], 406).stage = "answering"
        <3>1. Differs(Answer(call[c], 406), call[c], "answering", call[c].error, 406, call[c].effect)
            BY <2>1, <2>2, AnswerDiffers DEF Statuses
        <3>2. Told(Answer(call[c], 406))
            BY <2>1, <2>2, <3>1 DEF Told, Differs, Operations, Web, Swagger
        <3>3. QED
            BY <2>1, <3>1, <3>2, Later DEF Differs
    <2>4. QED
        BY <2>1, <2>2, <2>3, <1>12, ProceedsSound DEF NotAcceptable, Scoped, Same
<1>13. CASE Deliver(c)
    BY <1>13, Running, EndsSound DEF Deliver, Runs
<1>14. QED
    BY <1>1, <1>2, <1>3, <1>4, <1>5, <1>6, <1>7, <1>8, <1>9, <1>10, <1>11, <1>12, <1>13 DEF Handle

(* The registry of an application is left alone by its calls, except for   *)
(* the document that the first one to ask for it renders.                  *)
LEMMA HandleKeeps ==
    ASSUME NEW c \in Calls, Handle(c)
    PROVE  /\ UNCHANGED <<starter, started, served, listed, models, home>>
           /\ UNCHANGED document \/ ShowDocument(c)
BY DEF Handle, EnterKoin, NoRoute, Authenticate, CheckCredentials, Ping, Refuse, Act,
       ShowDocument, ShowResource, EnterHandler, HandleError, NotAcceptable, Deliver,
       Elsewhere, registry

(* How a sound step of a call leaves the calls and the threads. *)
LEMMA SoundKeeps ==
    ASSUME PipelineInv, NEW c \in Calls, NEW s, Sound(c, s),
           UNCHANGED <<starter, started, home>>
    PROVE  /\ local' \in [Threads -> Apps \cup {Nobody}]
           /\ call' \in [Calls -> CallStates]
           /\ ThreadInv' /\ ScopeInv' /\ LocalInv' /\ EffectInv'
<1> DEFINE t == call[c].thread
<1>1. /\ call \in [Calls -> CallStates] /\ local \in [Threads -> Apps \cup {Nobody}]
      /\ starter \in [Apps -> Threads \cup {Nobody}] /\ started \in SUBSET Apps
      /\ ThreadInv /\ ScopeInv /\ LocalInv /\ EffectInv
    BY DEF PipelineInv, TypeOK
<1>2. Shape(c, s) /\ Scoped(s) /\ Told(s)
    BY DEF Sound
<1>3. /\ t \in Threads /\ s \in CallStates /\ call' = [call EXCEPT ![c] = s]
      /\ s.thread \in {t, Nobody} /\ t # Nobody
    BY <1>2, PipelineAssumption DEF Shape
<1>4. call' \in [Calls -> CallStates] /\ call'[c] = s /\ \A d \in Calls \ {c} : call'[d] = call[d]
    BY <1>1, <1>3
<1>5. call[c] \in CallStates /\ call[c].app \in Apps \cup {Nobody} /\ call[c].saved \in Apps \cup {Nobody}
    BY <1>1 DEF CallStates
<1>6. local' \in [Threads -> Apps \cup {Nobody}]
    BY <1>1, <1>2, <1>3, <1>5 DEF Shape, Set
<1>7. ThreadInv'
    BY <1>1, <1>3, <1>4 DEF ThreadInv
<1>8. ScopeInv'
    BY <1>1, <1>2, <1>4 DEF ScopeInv, Scoped
<1>9. EffectInv'
    BY <1>1, <1>2, <1>4 DEF EffectInv, Told
<1>10. LocalInv'
    <2>1. \A u \in Threads \ {t} : local'[u] = local[u]
        BY <1>1, <1>2, <1>3 DEF Shape, Set
    <2>2. \A d \in Calls \ {c} : call[d].thread # t
        BY <1>1, <1>3 DEF ThreadInv
    <2>3. \A d \in Calls \ {c} : call[d].thread # Nobody => call[d].thread \in Threads \ {t}
        BY <1>1, <2>2 DEF CallStates
    <2>4. call[c].scoped => local[t] = call[c].app /\ call[c].saved = home[t]
        BY <1>1, <1>3 DEF LocalInv
    <2>5. ~call[c].scoped => local[t] = home[t]
        BY <1>1, <1>3, <2>2 DEF LocalInv
    <2>6. s.scoped /\ s.thread # Nobody => local'[t] = s.app /\ s.saved = home[t]
        BY <1>1, <1>2, <1>3, <2>4, <2>5 DEF Shape, Set
    <2>7. ~(s.scoped /\ s.thread = t) => local'[t] = home[t]
        BY <1>1, <1>2, <1>3, <2>4, <2>5 DEF Shape, Set
    <2>8. ASSUME NEW d \in Calls, call'[d].scoped, call'[d].thread # Nobody
          PROVE  /\ local'[call'[d].thread] = call'[d].app
                 /\ call'[d].saved = home'[call'[d].thread]
        <3>1. CASE d = c
            BY <1>3, <1>4, <2>6, <2>8, <3>1
        <3>2. CASE d # c
            BY <1>1, <1>4, <2>1, <2>3, <2>8, <3>2 DEF LocalInv
        <3>3. QED
            BY <3>1, <3>2
    <2>9. ASSUME NEW u \in Threads, \A d \in Calls : call'[d].thread = u => ~call'[d].scoped
          PROVE  local'[u] = home'[u]
        <3>1. CASE u = t
            BY <1>4, <2>7, <2>9, <3>1
        <3>2. CASE u # t
            BY <1>1, <1>4, <2>1, <2>9, <3>2 DEF LocalInv
        <3>3. QED
            BY <3>1, <3>2
    <2>10. QED
        BY <2>8, <2>9 DEF LocalInv
<1>11. QED
    BY <1>4, <1>6, <1>7, <1>8, <1>9, <1>10

-----------------------------------------------------------------------------
(* The registry                                                            *)

(* The parts of the invariant about applications and those about calls,    *)
(* when the calls and their threads are left alone.                        *)
LEMMA CallsKept ==
    ASSUME PipelineInv, UNCHANGED <<call, local, starter, home>>, started \subseteq started'
    PROVE  ThreadInv' /\ ScopeInv' /\ LocalInv' /\ EffectInv'
<1>1. ThreadInv /\ ScopeInv /\ LocalInv /\ EffectInv
    BY DEF PipelineInv
<1>2. ThreadInv'
    BY <1>1 DEF ThreadInv
<1>3. ScopeInv'
    BY <1>1 DEF ScopeInv, Scoped
<1>4. LocalInv'
    BY <1>1 DEF LocalInv
<1>5. EffectInv'
    BY <1>1 DEF EffectInv, Told
<1>6. QED
    BY <1>2, <1>3, <1>4, <1>5

LEMMA InitInv == Init => PipelineInv
<1> SUFFICES ASSUME Init PROVE PipelineInv
    OBVIOUS
<1>1. NoCall \in CallStates /\ Scoped(NoCall) /\ Told(NoCall) /\ NoCall.thread = Nobody /\ ~NoCall.scoped
    BY DEF NoCall, CallStates, Scoped, Told, Kinds, Operations, Stages, Errors, Statuses
<1>2. \A c \in Calls : call[c] = NoCall
    BY DEF Init
<1>3. TypeOK
    BY <1>1 DEF Init, TypeOK
<1>4. ThreadInv /\ ScopeInv /\ LocalInv /\ EffectInv
    BY <1>1, <1>2 DEF Init, ThreadInv, ScopeInv, LocalInv, EffectInv
<1>5. RegistryInv
    BY DEF Init, RegistryInv
<1>6. QED
    BY <1>3, <1>4, <1>5 DEF PipelineInv

(* A thread that is idle starts an application. *)
LEMMA StartKeeps ==
    ASSUME PipelineInv, NEW a \in Apps, NEW t \in Threads, Start(a, t)
    PROVE  PipelineInv'
<1>1. /\ TypeOK /\ ThreadInv /\ ScopeInv /\ LocalInv /\ EffectInv /\ RegistryInv
      /\ starter[a] = Nobody /\ Idle(t)
      /\ starter' = [starter EXCEPT ![a] = t]
      /\ local' = [local EXCEPT ![t] = a]
      /\ home' = [home EXCEPT ![t] = a]
      /\ UNCHANGED <<started, served, listed, models, document, call>>
    BY DEF PipelineInv, Start, registry
<1>2. \A c \in Calls : call[c].thread # t
    BY <1>1 DEF Idle
<1>3. TypeOK'
    BY <1>1 DEF TypeOK
<1>4. ThreadInv'
    BY <1>1, <1>2 DEF ThreadInv, TypeOK
<1>5. ScopeInv'
    BY <1>1 DEF ScopeInv, Scoped
<1>6. LocalInv'
    <2>1. local'[t] = a /\ home'[t] = a
        BY <1>1 DEF TypeOK
    <2>2. \A u \in Threads \ {t} : local'[u] = local[u] /\ home'[u] = home[u]
        BY <1>1 DEF TypeOK
    <2>3. \A c \in Calls : call[c].thread # Nobody => call[c].thread \in Threads \ {t}
        BY <1>1, <1>2 DEF TypeOK, CallStates
    <2>4. QED
        BY <1>1, <2>1, <2>2, <2>3 DEF LocalInv
<1>7. EffectInv'
    BY <1>1 DEF EffectInv, Told
<1>8. RegistryInv'
    BY <1>1 DEF RegistryInv, Rendered, TypeOK
<1>9. QED
    BY <1>3, <1>4, <1>5, <1>6, <1>7, <1>8 DEF PipelineInv

(* The controllers are built while no call can reach the application. *)
LEMMA StartUpKeeps ==
    ASSUME PipelineInv, NEW a \in Apps, StartUp(a)
    PROVE  PipelineInv'
<1>1. TypeOK /\ RegistryInv
    BY DEF PipelineInv
<1>2. CASE InitControllers(a)
    <2>1. /\ starter[a] # Nobody
          /\ served[a] = {}
          /\ served' = [served EXCEPT ![a] = Operations]
          /\ models' = [models EXCEPT ![a] = Models]
          /\ listed' = [listed EXCEPT ![a] = Descriptions]
          /\ UNCHANGED <<local, starter, started, document, call, home>>
        BY <1>2, AllBuilt DEF InitControllers, Models, Descriptions
    <2>2. TypeOK'
        <3>1. served' \in [Apps -> SUBSET Kinds]
            BY <1>1, <2>1 DEF TypeOK, Kinds
        <3>2. listed' \in [Apps -> SUBSET Descriptions]
            BY <1>1, <2>1 DEF TypeOK, Descriptions
        <3>3. models' \in [Apps -> SUBSET Models]
            BY <1>1, <2>1 DEF TypeOK
        <3>4. QED
            BY <1>1, <2>1, <3>1, <3>2, <3>3 DEF TypeOK
    <2>3. RegistryInv'
        <3>1. a \notin started /\ document[a] = Nobody
            BY <1>1, <2>1 DEF RegistryInv, Operations
        <3>2. /\ served'[a] = Operations
              /\ listed'[a] = Descriptions
              /\ models'[a] = Models
            BY <1>1, <2>1 DEF TypeOK
        <3>3. \A b \in Apps \ {a} :
                  served'[b] = served[b] /\ listed'[b] = listed[b] /\ models'[b] = models[b]
            BY <1>1, <2>1 DEF TypeOK
        <3>4. QED
            BY <1>1, <2>1, <3>1, <3>2, <3>3 DEF RegistryInv, Rendered
    <2>4. QED
        BY <2>1, <2>2, <2>3, CallsKept DEF PipelineInv
<1>3. CASE FinishStart(a)
    <2>1. /\ served[a] # {}
          /\ a \notin started
          /\ started' = started \cup {a}
          /\ served' = [served EXCEPT ![a] = served[a] \cup Swagger]
          /\ UNCHANGED <<local, starter, listed, models, document, call, home>>
        BY <1>3 DEF FinishStart
    <2>2. TypeOK'
        BY <1>1, <2>1 DEF TypeOK, Kinds
    <2>3. RegistryInv'
        <3>1. served[a] = Operations /\ starter[a] # Nobody
            BY <1>1, <2>1 DEF RegistryInv
        <3>2. Swagger \cap Operations = {}
            BY DEF Swagger, Operations, Web
        <3>3. served'[a] = Operations \cup Swagger /\ served'[a] \cap Operations = Operations
            BY <1>1, <2>1, <3>1, <3>2 DEF TypeOK
        <3>4. \A b \in Apps \ {a} : served'[b] = served[b] /\ (b \in started' <=> b \in started)
            BY <1>1, <2>1 DEF TypeOK
        <3>5. QED
            BY <1>1, <2>1, <3>1, <3>3, <3>4 DEF RegistryInv, Rendered
    <2>4. QED
        BY <2>1, <2>2, <2>3, CallsKept DEF PipelineInv
<1>4. QED
    BY <1>2, <1>3 DEF StartUp

-----------------------------------------------------------------------------
(* The steps of a call                                                     *)

LEMMA ArriveKeeps ==
    ASSUME PipelineInv, NEW c \in Calls, NEW a \in Apps, NEW kind \in Kinds, Arrive(c, a, kind)
    PROVE  PipelineInv'
<1> DEFINE new == [NoCall EXCEPT !.app = a, !.kind = kind, !.stage = "monitoring"]
<1>1. /\ TypeOK /\ ThreadInv /\ ScopeInv /\ LocalInv /\ EffectInv /\ RegistryInv
      /\ call[c].stage = "idle"
      /\ a \in started
      /\ call' = [call EXCEPT ![c] = new]
      /\ UNCHANGED <<local, starter, started, served, listed, models, document, home>>
    BY DEF PipelineInv, Arrive, Elsewhere, registry
<1>2. new \in CallStates /\ new.thread = Nobody /\ ~new.scoped /\ Scoped(new) /\ Told(new)
    <2>1. /\ new.app = a /\ new.kind = kind /\ new.stage = "monitoring" /\ new.thread = Nobody
          /\ new.scoped = FALSE /\ new.saved = Nobody /\ new.error = "none" /\ new.status = 0
          /\ new.effect = FALSE
        BY DEF NoCall
    <2>2. NoCall \in CallStates
        BY DEF NoCall, CallStates, Kinds, Operations, Stages, Errors, Statuses
    <2>3. "monitoring" \in Stages
        BY DEF Stages
    <2>4. new \in CallStates
        <3>1. ASSUME NEW s \in CallStates
              PROVE  [s EXCEPT !.app = a, !.kind = kind, !.stage = "monitoring"] \in CallStates
            BY <2>3 DEF CallStates
        <3>2. QED
            BY <2>2, <3>1
    <2> HIDE DEF new
    <2>5. QED
        BY <1>1, <2>1, <2>4 DEF Scoped, Told
<1> HIDE DEF new
<1>3. call[c].thread = Nobody /\ ~call[c].scoped
    BY <1>1 DEF ScopeInv, Scoped
<1>4. call' \in [Calls -> CallStates] /\ call'[c] = new /\ \A d \in Calls \ {c} : call'[d] = call[d]
    BY <1>1, <1>2 DEF TypeOK
<1>5. TypeOK'
    BY <1>1, <1>4 DEF TypeOK
<1>6. ThreadInv'
    BY <1>1, <1>2, <1>4 DEF ThreadInv
<1>7. ScopeInv'
    BY <1>1, <1>2, <1>4 DEF ScopeInv, Scoped
<1>8. LocalInv'
    <2>1. \A t \in Threads : t # Nobody
        BY PipelineAssumption
    <2>2. QED
        BY <1>1, <1>2, <1>3, <1>4, <2>1 DEF LocalInv
<1>9. EffectInv'
    BY <1>1, <1>2, <1>4 DEF EffectInv, Told
<1>10. RegistryInv'
    BY <1>1 DEF RegistryInv, Rendered
<1>11. QED
    BY <1>5, <1>6, <1>7, <1>8, <1>9, <1>10 DEF PipelineInv

(* The call c comes to the state new on the thread t. *)
Resumed(c, t, new) ==
    /\ call' = [call EXCEPT ![c] = new]
    /\ new \in CallStates
    /\ new.thread = t /\ new.scoped = call[c].scoped /\ new.app = call[c].app
    /\ new.kind = call[c].kind /\ new.stage = call[c].stage /\ new.error = call[c].error
    /\ new.status = call[c].status /\ new.effect = call[c].effect
    /\ \/ /\ new.scoped
          /\ new.saved = home[t]
          /\ local' = [local EXCEPT ![t] = call[c].app]
       \/ /\ ~new.scoped
          /\ UNCHANGED local

(* A call resumes on an idle thread, with the value of its scope. *)
LEMMA ResumeKeeps ==
    ASSUME PipelineInv, NEW c \in Calls, NEW t \in Threads, Resume(c, t)
    PROVE  PipelineInv'
<1>1. /\ TypeOK /\ ThreadInv /\ ScopeInv /\ LocalInv /\ EffectInv /\ RegistryInv
      /\ call[c].stage \notin {"idle", "done"}
      /\ call[c].thread = Nobody
      /\ Idle(t)
      /\ UNCHANGED <<starter, started, served, listed, models, document, home>>
    BY DEF PipelineInv, Resume, Elsewhere, registry
<1>2. /\ call[c] \in CallStates /\ local[t] \in Apps \cup {Nobody} /\ t # Nobody
      /\ call[c].app \in Apps
    BY <1>1, PipelineAssumption DEF TypeOK, ScopeInv, Scoped
<1>3. local[t] = home[t]
    BY <1>1, <1>2 DEF LocalInv, Idle
<1>4. \E new : Resumed(c, t, new)
    <2>1. CASE call[c].scoped
        <3> DEFINE new == [call[c] EXCEPT !.thread = t, !.saved = local[t]]
        <3>1. call' = [call EXCEPT ![c] = new] /\ local' = [local EXCEPT ![t] = call[c].app]
            BY <1>1, <2>1 DEF Resume, Set, TypeOK
        <3>2. /\ new \in CallStates /\ new.thread = t /\ new.scoped = call[c].scoped
              /\ new.app = call[c].app /\ new.kind = call[c].kind /\ new.stage = call[c].stage
              /\ new.error = call[c].error /\ new.status = call[c].status
              /\ new.effect = call[c].effect /\ new.saved = local[t]
            <4>1. ASSUME NEW s \in CallStates, NEW v \in Apps \cup {Nobody}
                  PROVE  LET n == [s EXCEPT !.thread = t, !.saved = v] IN
                         /\ n \in CallStates /\ n.thread = t /\ n.scoped = s.scoped
                         /\ n.app = s.app /\ n.kind = s.kind /\ n.stage = s.stage
                         /\ n.error = s.error /\ n.status = s.status
                         /\ n.effect = s.effect /\ n.saved = v
                BY DEF CallStates
            <4>2. QED
                BY <1>2, <4>1
        <3> HIDE DEF new
        <3>3. QED
            BY <1>3, <2>1, <3>1, <3>2 DEF Resumed
    <2>2. CASE ~call[c].scoped
        <3> DEFINE new == [call[c] EXCEPT !.thread = t]
        <3>1. call' = [call EXCEPT ![c] = new] /\ UNCHANGED local
            BY <1>1, <2>2 DEF Resume, Set, TypeOK
        <3>2. /\ new \in CallStates /\ new.thread = t /\ new.scoped = call[c].scoped
              /\ new.app = call[c].app /\ new.kind = call[c].kind /\ new.stage = call[c].stage
              /\ new.error = call[c].error /\ new.status = call[c].status
              /\ new.effect = call[c].effect
            BY <1>2 DEF CallStates
        <3> HIDE DEF new
        <3>3. QED
            BY <2>2, <3>1, <3>2 DEF Resumed
    <2>3. QED
        BY <1>2, <2>1, <2>2 DEF CallStates
<1>5. PICK new : Resumed(c, t, new)
    BY <1>4
<1>6. call' \in [Calls -> CallStates] /\ call'[c] = new /\ \A d \in Calls \ {c} : call'[d] = call[d]
    BY <1>1, <1>5 DEF TypeOK, Resumed
<1>7. TypeOK'
    BY <1>1, <1>2, <1>5, <1>6 DEF TypeOK, Resumed
<1>8. ThreadInv'
    BY <1>1, <1>5, <1>6 DEF ThreadInv, Idle, Resumed
<1>9. ScopeInv'
    BY <1>1, <1>5, <1>6 DEF ScopeInv, Scoped, Resumed
<1>10. EffectInv'
    BY <1>1, <1>5, <1>6 DEF EffectInv, Told, Resumed
<1>11. RegistryInv'
    BY <1>1 DEF RegistryInv, Rendered
<1>12. LocalInv'
    <2>1. \A u \in Threads \ {t} : local'[u] = local[u]
        BY <1>1, <1>5 DEF TypeOK, CallStates, Resumed
    <2>2. new.scoped => local'[t] = new.app
        BY <1>1, <1>5 DEF TypeOK, Resumed
    <2>3. ~new.scoped => local'[t] = home[t]
        BY <1>3, <1>5 DEF Resumed
    <2>4. \A d \in Calls \ {c} : call[d].thread # Nobody => call[d].thread \in Threads \ {t}
        BY <1>1 DEF TypeOK, CallStates, Idle
    <2>5. ASSUME NEW d \in Calls, call'[d].scoped, call'[d].thread # Nobody
          PROVE  /\ local'[call'[d].thread] = call'[d].app
                 /\ call'[d].saved = home'[call'[d].thread]
        <3>1. CASE d = c
            BY <1>1, <1>5, <1>6, <2>2, <2>5, <3>1 DEF Resumed
        <3>2. CASE d # c
            BY <1>1, <1>6, <2>1, <2>4, <2>5, <3>2 DEF LocalInv
        <3>3. QED
            BY <3>1, <3>2
    <2>6. ASSUME NEW u \in Threads, \A d \in Calls : call'[d].thread = u => ~call'[d].scoped
          PROVE  local'[u] = home'[u]
        <3>1. CASE u = t
            BY <1>1, <1>5, <1>6, <2>3, <2>6, <3>1 DEF Resumed
        <3>2. CASE u # t
            <4>1. \A d \in Calls : call[d].thread = u => ~call[d].scoped
                BY <1>1, <1>2, <1>6, <2>6, PipelineAssumption
            <4>2. QED
                BY <1>1, <2>1, <3>2, <4>1 DEF LocalInv
        <3>3. QED
            BY <3>1, <3>2
    <2>7. QED
        BY <2>5, <2>6 DEF LocalInv
<1>13. QED
    BY <1>7, <1>8, <1>9, <1>10, <1>11, <1>12 DEF PipelineInv

LEMMA HandleInv ==
    ASSUME PipelineInv, NEW c \in Calls, Handle(c)
    PROVE  PipelineInv'
<1>1. TypeOK /\ RegistryInv /\ ScopeInv
    BY DEF PipelineInv
<1>2. PICK s : Sound(c, s)
    BY HandleSound
<1>3. /\ UNCHANGED <<starter, started, served, listed, models, home>>
      /\ UNCHANGED document \/ ShowDocument(c)
    BY HandleKeeps
<1>4. /\ local' \in [Threads -> Apps \cup {Nobody}]
      /\ call' \in [Calls -> CallStates]
      /\ ThreadInv' /\ ScopeInv' /\ LocalInv' /\ EffectInv'
    BY <1>2, <1>3, SoundKeeps
<1>5. document' \in [Apps -> Documents \cup {Nobody}] /\ RegistryInv'
    <2>1. CASE UNCHANGED document
        BY <1>1, <1>3, <2>1 DEF TypeOK, RegistryInv, Rendered
    <2>2. CASE ShowDocument(c)
        <3> DEFINE a == call[c].app
        <3>1. a \in started /\ a \in Apps
            BY <2>2, Running DEF ShowDocument, Runs
        <3>2. document' = [document EXCEPT ![a] = IF document[a] = Nobody THEN Rendered(a)
                                                                         ELSE document[a]]
            BY <2>2 DEF ShowDocument
        <3>3. Rendered(a) \in Documents
            BY <1>1, <3>1 DEF TypeOK, Rendered, Documents
        <3>4. document' \in [Apps -> Documents \cup {Nobody}]
            BY <1>1, <3>1, <3>2, <3>3 DEF TypeOK
        <3>5. document'[a] = Rendered(a) /\ \A b \in Apps \ {a} : document'[b] = document[b]
            BY <1>1, <3>1, <3>2 DEF TypeOK, RegistryInv
        <3>6. RegistryInv'
            BY <1>1, <1>3, <3>1, <3>5 DEF RegistryInv, Rendered
        <3>7. QED
            BY <3>4, <3>6
    <2>3. QED
        BY <1>3, <2>1, <2>2
<1>6. TypeOK'
    BY <1>1, <1>3, <1>4, <1>5 DEF TypeOK
<1>7. QED
    BY <1>4, <1>5, <1>6 DEF PipelineInv

LEMMA StepInv == PipelineInv /\ [Next]_vars => PipelineInv'
<1> SUFFICES ASSUME PipelineInv, [Next]_vars PROVE PipelineInv'
    OBVIOUS
<1>1. CASE UNCHANGED vars
    BY <1>1 DEF vars, registry, PipelineInv, TypeOK, ThreadInv, ScopeInv, Scoped, LocalInv,
                EffectInv, Told, RegistryInv, Rendered
<1>2. CASE Next
    BY <1>1, <1>2, StartKeeps, StartUpKeeps, ArriveKeeps, ResumeKeeps, HandleInv
       DEF Next, Terminated
<1>3. QED
    BY <1>1, <1>2

-----------------------------------------------------------------------------
(* The theorems                                                            *)

(* Calls and threads agree, in every reachable state, on who runs what in  *)
(* which scope, on what was changed and on what is documented.             *)
THEOREM Invariance == Spec => []PipelineInv
BY InitInv, StepInv, PTL DEF Spec

(* A dependency is resolved from the Koin of the application of the call.  *)
THEOREM OwnKoin == Spec => []ResolvesOwnKoin
<1>1. PipelineInv => ResolvesOwnKoin
    BY DEF PipelineInv, ScopeInv, Scoped, LocalInv, ResolvesOwnKoin, Runs
<1>2. QED
    BY <1>1, Invariance, PTL

(* A thread that is idle has the value it was started with.                *)
THEOREM Restored == Spec => []ThreadsAreRestored
<1>1. PipelineInv => ThreadsAreRestored
    BY DEF PipelineInv, LocalInv, ThreadsAreRestored, Idle
<1>2. QED
    BY <1>1, Invariance, PTL

(* The status of an answer tells whether the tables were changed.          *)
THEOREM TrueStatus == Spec => []StatusTellsTheEffect
<1>1. PipelineInv => StatusTellsTheEffect
    BY DEF PipelineInv, EffectInv, Told, StatusTellsTheEffect, Answers
<1>2. QED
    BY <1>1, Invariance, PTL

(* Documentation and behaviour agree.                                      *)
THEOREM TrueDocumentation == Spec => []DocumentationIsTrue
<1>1. ASSUME PipelineInv PROVE DocumentationIsTrue
    <2>1. TypeOK /\ ScopeInv /\ EffectInv /\ RegistryInv
        BY <1>1 DEF PipelineInv
    <2>2. ASSUME NEW c \in Calls, call[c].stage = "answering", call[c].kind \in Operations,
                 call[c].status \in {200, 201}
          PROVE  \E d \in listed[call[c].app] : d.route = call[c].kind /\ d.status = call[c].status
        <3>1. call[c].app \in started /\ call[c].status = SuccessStatus(call[c].kind)
            BY <2>1, <2>2 DEF ScopeInv, Scoped, EffectInv, Told
        <3>2. listed[call[c].app] = Descriptions
            BY <2>1, <3>1 DEF TypeOK, RegistryInv, Operations
        <3>3. Description(call[c].kind).route = call[c].kind
              /\ Description(call[c].kind).status = call[c].status
            BY <3>1 DEF Description, SuccessStatus, Posted
        <3>4. QED
            BY <2>2, <3>2, <3>3 DEF Descriptions
    <2>3. ASSUME NEW a \in Apps, document[a] # Nobody
          PROVE  /\ {d.route : d \in document[a].descriptions} = served[a] \cap Operations
                 /\ UNION {d.models : d \in document[a].descriptions} \subseteq document[a].models
        <3>1. document[a] = Rendered(a) /\ served[a] \cap Operations = Operations
              /\ listed[a] = Descriptions
              /\ models[a] = Models
            BY <2>1, <2>3 DEF RegistryInv, Operations
        <3>2. \A op \in Operations : Description(op).route = op /\ Description(op).models = ModelsOf(op)
            BY DEF Description
        <3>3. /\ document[a].descriptions = Descriptions
              /\ document[a].models = Models
            BY <3>1 DEF Rendered
        <3>4. {d.route : d \in document[a].descriptions} = Operations
            BY <3>2, <3>3 DEF Descriptions
        <3>5. UNION {d.models : d \in document[a].descriptions} \subseteq document[a].models
            BY <3>2, <3>3 DEF Descriptions, Models
        <3>6. QED
            BY <3>1, <3>4, <3>5
    <2>4. QED
        BY <2>2, <2>3 DEF DocumentationIsTrue, Answers
<1>2. QED
    BY <1>1, Invariance, PTL

=============================================================================
