---------------------- MODULE TransactionContextProofs ----------------------
(***************************************************************************)
(* The safety of one call of transaction(), for any number of sibling      *)
(* coroutines, any rows, hooks and faults.                                 *)
(*                                                                         *)
(* IInv, the inductive invariant, has a part for the monitor, one for the  *)
(* status of the context, one for the rows and the verdict of the server,  *)
(* one for the window in which status and server disagree, and one for the *)
(* reasons a normal return can be trusted.  Each part is shown to survive  *)
(* every step by a lemma of its own, from the parts before it.  In each    *)
(* lemma <1>1 is for the steps of the owner, <1>2 for                      *)
(* the environment and a nested call, <1>3 for the steps every coroutine   *)
(* and its IO thread can take, <1>4 for those of a sibling.                *)
(***************************************************************************)
EXTENDS TransactionContext, TLAPS

(* A call that has not begun satisfies every part of the invariant. *)
LEMMA InitIInv ==
    ASSUME Init
    PROVE  IInv
<1> USE TransactionAssumption DEF Init, Workers, Commands, HookKinds
<1>1. TypeOK
    BY DEF TypeOK, Status, OwnerPC, ChildPC, IO
<1>2. MonitorInv /\ StatusInv
    BY DEF MonitorInv, StatusInv, Over
<1>3. DatabaseInv
    BY DEF DatabaseInv
<1>4. WindowInv
    BY DEF WindowInv, Over
<1>5. SuccessInv
    BY DEF SuccessInv, Succeeding, Reply
<1>6. HookInv
    BY DEF HookInv
<1>7. QED
    BY <1>1, <1>2, <1>3, <1>4, <1>5, <1>6 DEF IInv

(* Every step keeps every variable in its range. *)
LEMMA TypeStep ==
    ASSUME TypeOK, [Next]_vars
    PROVE  TypeOK'
<1> USE TransactionAssumption
<1>1. CASE OwnerStep
<2> USE DEF contextVars, workerVars, dbVars, TypeOK, Status, OwnerPC,
         ChildPC, IO, Workers, Commands, HookKinds
<2>1. CASE BeginTransaction
    BY <2>1 DEF BeginTransaction, Goto, Call
<2>2. CASE BeginReturns
    BY <2>2 DEF BeginReturns, Goto, Resumes
<2>3. CASE BeginFails
    BY <2>3 DEF BeginFails, Goto, Ends, Resumes
<2>4. CASE BlockThrows
    BY <2>4 DEF BlockThrows, Goto, Call, Catch
<2>5. CASE BlockReturns
    BY <2>5 DEF BlockReturns, Goto
<2>6. CASE OwnerExecuteThrows
    BY <2>6 DEF OwnerExecuteThrows, Goto, Call, Catch, Resumes
<2>7. CASE BeforeCommitHooks
    BY <2>7 DEF BeforeCommitHooks, Goto, Call, Catch, FireHooks
<2>8. CASE SetCommitted
    BY <2>8 DEF SetCommitted, Goto, Resumes
<2>9. CASE CommitFails
    BY <2>9 DEF CommitFails, Goto, Call, Catch, Resumes
<2>10. CASE AfterCommitHooks
    BY <2>10 DEF AfterCommitHooks, Goto, Call, Catch, FireHooks
<2>11. CASE CommitCompletionHooks
    BY <2>11 DEF CommitCompletionHooks, Goto, Call, Catch, FireHooks, Ends
<2>12. CASE SetRolledBack
    BY <2>12 DEF SetRolledBack, Goto, Resumes
<2>13. CASE RollbackFails
    BY <2>13 DEF RollbackFails, Goto, Resumes, Ends
<2>14. CASE AfterRollbackHooks
    BY <2>14 DEF AfterRollbackHooks, Goto, FireHooks, Ends
<2>15. CASE RollbackCompletionHooks
    BY <2>15 DEF RollbackCompletionHooks, Goto, FireHooks, Ends
<2>16. CASE TransactionReturns
    BY <2>16 DEF TransactionReturns, Goto
<2>17. CASE EvictConnection
    BY <2>17 DEF EvictConnection, Goto, Discard
<2> HIDE DEF contextVars, workerVars, dbVars, TypeOK, Status, OwnerPC,
         ChildPC, IO, Workers, Commands, HookKinds
<2>18. QED
    BY <1>1, <2>1, <2>2, <2>3, <2>4, <2>5, <2>6, <2>7, <2>8, <2>9, <2>10,
         <2>11, <2>12, <2>13, <2>14, <2>15, <2>16, <2>17 DEF OwnerStep
<1>2. CASE NestTransaction \/ Cancel \/ LinkBreaks
<2> USE DEF contextVars, workerVars, dbVars, TypeOK, Status, OwnerPC,
         ChildPC, IO, Workers, Commands, HookKinds
<2>1. CASE NestTransaction
    BY <2>1 DEF NestTransaction, Goto, Call
<2>2. CASE Cancel
    BY <2>2 DEF Cancel
<2>3. CASE LinkBreaks
    BY <2>3 DEF LinkBreaks, Discard
<2> HIDE DEF contextVars, workerVars, dbVars, TypeOK, Status, OwnerPC,
         ChildPC, IO, Workers, Commands, HookKinds
<2>4. QED
    BY <1>2, <2>1, <2>2, <2>3
<1>3. ASSUME NEW w \in Workers,
             Monitor(w) \/ Answer(w) \/ Execute(w) \/ ExecuteStep(w)
      PROVE  TypeOK'
<2> USE DEF contextVars, workerVars, dbVars, TypeOK, Status, OwnerPC,
         ChildPC, IO, Workers, Commands, HookKinds
<2>1. CASE EnterMonitor(w)
    BY <2>1 DEF EnterMonitor, BeforeOp
<2>2. CASE RefuseInMonitor(w)
    BY <2>2 DEF RefuseInMonitor, BeforeOp
<2>3. CASE AbandonWait(w)
    BY <2>3 DEF AbandonWait
<2>4. CASE AnswerStart(w)
    BY <2>4 DEF AnswerStart, Inside, LeaveMonitor
<2>5. CASE AnswerWrite(w)
    BY <2>5 DEF AnswerWrite, Inside, LeaveMonitor
<2>6. CASE AnswerWriteAborted(w)
    BY <2>6 DEF AnswerWriteAborted, Inside, LeaveMonitor
<2>7. CASE AnswerWriteAutocommit(w)
    BY <2>7 DEF AnswerWriteAutocommit, Inside, LeaveMonitor
<2>8. CASE AnswerCommit(w)
    BY <2>8 DEF AnswerCommit, Inside, LeaveMonitor
<2>9. CASE AnswerCommitAborted(w)
    BY <2>9 DEF AnswerCommitAborted, Inside, LeaveMonitor
<2>10. CASE AnswerRollback(w)
    BY <2>10 DEF AnswerRollback, Inside, LeaveMonitor, Discard
<2>11. CASE AnswerLinkDown(w)
    BY <2>11 DEF AnswerLinkDown, LeaveMonitor
<2>12. CASE Execute(w)
    BY <2>12 DEF Execute, Goto, Call, Busy
<2>13. CASE ExecuteReturns(w)
    BY <2>13 DEF ExecuteReturns, Goto, Resumes, Continue
<2>14. CASE ExecuteCaught(w)
    BY <2>14 DEF ExecuteCaught, Goto, Resumes, Continue
<2> HIDE DEF contextVars, workerVars, dbVars, TypeOK, Status, OwnerPC,
         ChildPC, IO, Workers, Commands, HookKinds
<2>15. QED
    BY <1>3, <2>1, <2>2, <2>3, <2>4, <2>5, <2>6, <2>7, <2>8, <2>9, <2>10,
         <2>11, <2>12, <2>13, <2>14 DEF Monitor, Answer, ExecuteStep
<1>4. ASSUME NEW c \in Children, Launch(c) \/ ChildStep(c)
      PROVE  TypeOK'
<2> USE DEF contextVars, workerVars, dbVars, TypeOK, Status, OwnerPC,
         ChildPC, IO, Workers, Commands, HookKinds
<2>1. CASE Launch(c)
    BY <2>1 DEF Launch, Goto
<2>2. CASE ChildExecuteThrows(c)
<3>1. cancelled' \in BOOLEAN
    BY <2>2, Zenon DEF ChildExecuteThrows
<3>2. /\ pc' = [pc EXCEPT ![c] = "finished"]
      /\ UNCHANGED <<status, options, fired, caught, op, io, lock, outcome, dbVars>>
    BY <2>2 DEF ChildExecuteThrows, Goto
<3> HIDE <2>2
<3>3. QED
    BY <3>1, <3>2
<2>3. CASE ChildFinishes(c)
    BY <2>3 DEF ChildFinishes, Goto
<2> HIDE DEF contextVars, workerVars, dbVars, TypeOK, Status, OwnerPC,
         ChildPC, IO, Workers, Commands, HookKinds
<2>4. QED
    BY <1>4, <2>1, <2>2, <2>3 DEF ChildStep
<1>5. CASE UNCHANGED vars
    BY <1>5 DEF vars, contextVars, workerVars, dbVars, TypeOK, Status,
         OwnerPC, ChildPC, IO, Workers, Commands, HookKinds
<1>6. QED
    BY <1>1, <1>2, <1>3, <1>4, <1>5 DEF Next, Terminated

(* Mutual exclusion: a command reaches the server only from the monitor, and *)
(* what a coroutine waits for is the command of the place it has reached.   *)
LEMMA MonitorStep ==
    ASSUME TypeOK, MonitorInv, StatusInv, [Next]_vars
    PROVE  MonitorInv'
<1> USE TransactionAssumption
<1>1. CASE OwnerStep
<2> USE DEF contextVars, workerVars, dbVars, TypeOK, Status, OwnerPC,
         ChildPC, IO, Workers, Commands, HookKinds, MonitorInv, StatusInv
<2>1. CASE BeginTransaction
    BY <2>1 DEF BeginTransaction, Goto, Call
<2>2. CASE BeginReturns
    BY <2>2 DEF BeginReturns, Goto, Resumes
<2>3. CASE BeginFails
    BY <2>3 DEF BeginFails, Goto, Ends, Resumes
<2>4. CASE BlockThrows
    BY <2>4 DEF BlockThrows, Goto, Call, Catch
<2>5. CASE BlockReturns
    BY <2>5 DEF BlockReturns, Goto
<2>6. CASE OwnerExecuteThrows
    BY <2>6 DEF OwnerExecuteThrows, Goto, Call, Catch, Resumes
<2>7. CASE BeforeCommitHooks
    BY <2>7 DEF BeforeCommitHooks, Goto, Call, Catch, FireHooks
<2>8. CASE SetCommitted
    BY <2>8 DEF SetCommitted, Goto, Resumes
<2>9. CASE CommitFails
    BY <2>9 DEF CommitFails, Goto, Call, Catch, Resumes
<2>10. CASE AfterCommitHooks
    BY <2>10 DEF AfterCommitHooks, Goto, Call, Catch, FireHooks
<2>11. CASE CommitCompletionHooks
    BY <2>11 DEF CommitCompletionHooks, Goto, Call, Catch, FireHooks, Ends
<2>12. CASE SetRolledBack
    BY <2>12 DEF SetRolledBack, Goto, Resumes
<2>13. CASE RollbackFails
    BY <2>13 DEF RollbackFails, Goto, Resumes, Ends
<2>14. CASE AfterRollbackHooks
    BY <2>14 DEF AfterRollbackHooks, Goto, FireHooks, Ends
<2>15. CASE RollbackCompletionHooks
    BY <2>15 DEF RollbackCompletionHooks, Goto, FireHooks, Ends
<2>16. CASE TransactionReturns
    BY <2>16 DEF TransactionReturns, Goto
<2>17. CASE EvictConnection
    BY <2>17 DEF EvictConnection, Goto, Discard
<2> HIDE DEF contextVars, workerVars, dbVars, TypeOK, Status, OwnerPC,
         ChildPC, IO, Workers, Commands, HookKinds, MonitorInv, StatusInv
<2>18. QED
    BY <1>1, <2>1, <2>2, <2>3, <2>4, <2>5, <2>6, <2>7, <2>8, <2>9, <2>10,
         <2>11, <2>12, <2>13, <2>14, <2>15, <2>16, <2>17 DEF OwnerStep
<1>2. CASE NestTransaction \/ Cancel \/ LinkBreaks
<2> USE DEF contextVars, workerVars, dbVars, TypeOK, Status, OwnerPC,
         ChildPC, IO, Workers, Commands, HookKinds, MonitorInv, StatusInv
<2>1. CASE NestTransaction
    BY <2>1 DEF NestTransaction, Goto, Call
<2>2. CASE Cancel
    BY <2>2 DEF Cancel
<2>3. CASE LinkBreaks
    BY <2>3 DEF LinkBreaks, Discard
<2> HIDE DEF contextVars, workerVars, dbVars, TypeOK, Status, OwnerPC,
         ChildPC, IO, Workers, Commands, HookKinds, MonitorInv, StatusInv
<2>4. QED
    BY <1>2, <2>1, <2>2, <2>3
<1>3. ASSUME NEW w \in Workers,
             Monitor(w) \/ Answer(w) \/ Execute(w) \/ ExecuteStep(w)
      PROVE  MonitorInv'
<2> USE DEF contextVars, workerVars, dbVars, TypeOK, Status, OwnerPC,
         ChildPC, IO, Workers, Commands, HookKinds, MonitorInv, StatusInv
<2>1. CASE EnterMonitor(w)
    BY <2>1 DEF EnterMonitor, BeforeOp
<2>2. CASE RefuseInMonitor(w)
    BY <2>2 DEF RefuseInMonitor, BeforeOp
<2>3. CASE AbandonWait(w)
    BY <2>3 DEF AbandonWait
<2>4. CASE AnswerStart(w)
    BY <2>4 DEF AnswerStart, Inside, LeaveMonitor
<2>5. CASE AnswerWrite(w)
    BY <2>5 DEF AnswerWrite, Inside, LeaveMonitor
<2>6. CASE AnswerWriteAborted(w)
    BY <2>6 DEF AnswerWriteAborted, Inside, LeaveMonitor
<2>7. CASE AnswerWriteAutocommit(w)
    BY <2>7 DEF AnswerWriteAutocommit, Inside, LeaveMonitor
<2>8. CASE AnswerCommit(w)
    BY <2>8 DEF AnswerCommit, Inside, LeaveMonitor
<2>9. CASE AnswerCommitAborted(w)
    BY <2>9 DEF AnswerCommitAborted, Inside, LeaveMonitor
<2>10. CASE AnswerRollback(w)
    BY <2>10 DEF AnswerRollback, Inside, LeaveMonitor, Discard
<2>11. CASE AnswerLinkDown(w)
    BY <2>11 DEF AnswerLinkDown, LeaveMonitor
<2>12. CASE Execute(w)
    BY <2>12 DEF Execute, Goto, Call, Busy
<2>13. CASE ExecuteReturns(w)
    BY <2>13 DEF ExecuteReturns, Goto, Resumes, Continue
<2>14. CASE ExecuteCaught(w)
    BY <2>14 DEF ExecuteCaught, Goto, Resumes, Continue
<2> HIDE DEF contextVars, workerVars, dbVars, TypeOK, Status, OwnerPC,
         ChildPC, IO, Workers, Commands, HookKinds, MonitorInv, StatusInv
<2>15. QED
    BY <1>3, <2>1, <2>2, <2>3, <2>4, <2>5, <2>6, <2>7, <2>8, <2>9, <2>10,
         <2>11, <2>12, <2>13, <2>14 DEF Monitor, Answer, ExecuteStep
<1>4. ASSUME NEW c \in Children, Launch(c) \/ ChildStep(c)
      PROVE  MonitorInv'
<2> USE DEF contextVars, workerVars, dbVars, TypeOK, Status, OwnerPC,
         ChildPC, IO, Workers, Commands, HookKinds, MonitorInv, StatusInv
<2>1. CASE Launch(c)
    BY <2>1 DEF Launch, Goto
<2>2. CASE ChildExecuteThrows(c)
    BY <2>2 DEF ChildExecuteThrows, Goto, Resumes
<2>3. CASE ChildFinishes(c)
    BY <2>3 DEF ChildFinishes, Goto
<2> HIDE DEF contextVars, workerVars, dbVars, TypeOK, Status, OwnerPC,
         ChildPC, IO, Workers, Commands, HookKinds, MonitorInv, StatusInv
<2>4. QED
    BY <1>4, <2>1, <2>2, <2>3 DEF ChildStep
<1>5. CASE UNCHANGED vars
    BY <1>5 DEF vars, contextVars, workerVars, dbVars, TypeOK, Status,
         OwnerPC, ChildPC, IO, Workers, Commands, HookKinds, MonitorInv,
         StatusInv
<1>6. QED
    BY <1>1, <1>2, <1>3, <1>4, <1>5 DEF Next, Terminated

(* The status of the context follows the owner; a context once COMMITTED is *)
(* never rolled back, because execute() refuses the ROLLBACK.               *)
LEMMA StatusStep ==
    ASSUME TypeOK, MonitorInv, StatusInv, [Next]_vars
    PROVE  StatusInv'
<1> USE TransactionAssumption
<1>1. CASE OwnerStep
<2> USE DEF contextVars, workerVars, dbVars, TypeOK, Status, OwnerPC,
         ChildPC, IO, Workers, Commands, HookKinds, MonitorInv, StatusInv,
         Over
<2>1. CASE BeginTransaction
    BY <2>1 DEF BeginTransaction, Goto, Call
<2>2. CASE BeginReturns
    BY <2>2 DEF BeginReturns, Goto, Resumes
<2>3. CASE BeginFails
    BY <2>3 DEF BeginFails, Goto, Ends, Resumes
<2>4. CASE BlockThrows
    BY <2>4 DEF BlockThrows, Goto, Call, Catch
<2>5. CASE BlockReturns
    BY <2>5 DEF BlockReturns, Goto
<2>6. CASE OwnerExecuteThrows
    BY <2>6 DEF OwnerExecuteThrows, Goto, Call, Catch, Resumes
<2>7. CASE BeforeCommitHooks
    BY <2>7 DEF BeforeCommitHooks, Goto, Call, Catch, FireHooks
<2>8. CASE SetCommitted
    BY <2>8 DEF SetCommitted, Goto, Resumes
<2>9. CASE CommitFails
    BY <2>9 DEF CommitFails, Goto, Call, Catch, Resumes
<2>10. CASE AfterCommitHooks
    BY <2>10 DEF AfterCommitHooks, Goto, Call, Catch, FireHooks
<2>11. CASE CommitCompletionHooks
    BY <2>11 DEF CommitCompletionHooks, Goto, Call, Catch, FireHooks, Ends
<2>12. CASE SetRolledBack
    BY <2>12 DEF SetRolledBack, Goto, Resumes
<2>13. CASE RollbackFails
    BY <2>13 DEF RollbackFails, Goto, Resumes, Ends
<2>14. CASE AfterRollbackHooks
    BY <2>14 DEF AfterRollbackHooks, Goto, FireHooks, Ends
<2>15. CASE RollbackCompletionHooks
    BY <2>15 DEF RollbackCompletionHooks, Goto, FireHooks, Ends
<2>16. CASE TransactionReturns
    BY <2>16 DEF TransactionReturns, Goto
<2>17. CASE EvictConnection
    BY <2>17 DEF EvictConnection, Goto, Discard
<2> HIDE DEF contextVars, workerVars, dbVars, TypeOK, Status, OwnerPC,
         ChildPC, IO, Workers, Commands, HookKinds, MonitorInv, StatusInv,
         Over
<2>18. QED
    BY <1>1, <2>1, <2>2, <2>3, <2>4, <2>5, <2>6, <2>7, <2>8, <2>9, <2>10,
         <2>11, <2>12, <2>13, <2>14, <2>15, <2>16, <2>17 DEF OwnerStep
<1>2. CASE NestTransaction \/ Cancel \/ LinkBreaks
<2> USE DEF contextVars, workerVars, dbVars, TypeOK, Status, OwnerPC,
         ChildPC, IO, Workers, Commands, HookKinds, MonitorInv, StatusInv,
         Over
<2>1. CASE NestTransaction
    BY <2>1 DEF NestTransaction, Goto, Call
<2>2. CASE Cancel
    BY <2>2 DEF Cancel
<2>3. CASE LinkBreaks
    BY <2>3 DEF LinkBreaks, Discard
<2> HIDE DEF contextVars, workerVars, dbVars, TypeOK, Status, OwnerPC,
         ChildPC, IO, Workers, Commands, HookKinds, MonitorInv, StatusInv,
         Over
<2>4. QED
    BY <1>2, <2>1, <2>2, <2>3
<1>3. ASSUME NEW w \in Workers,
             Monitor(w) \/ Answer(w) \/ Execute(w) \/ ExecuteStep(w)
      PROVE  StatusInv'
<2> USE DEF contextVars, workerVars, dbVars, TypeOK, Status, OwnerPC,
         ChildPC, IO, Workers, Commands, HookKinds, MonitorInv, StatusInv,
         Over
<2>1. CASE EnterMonitor(w)
    BY <2>1 DEF EnterMonitor, BeforeOp
<2>2. CASE RefuseInMonitor(w)
    BY <2>2 DEF RefuseInMonitor, BeforeOp
<2>3. CASE AbandonWait(w)
    BY <2>3 DEF AbandonWait
<2>4. CASE AnswerStart(w)
    BY <2>4 DEF AnswerStart, Inside, LeaveMonitor
<2>5. CASE AnswerWrite(w)
    BY <2>5 DEF AnswerWrite, Inside, LeaveMonitor
<2>6. CASE AnswerWriteAborted(w)
    BY <2>6 DEF AnswerWriteAborted, Inside, LeaveMonitor
<2>7. CASE AnswerWriteAutocommit(w)
    BY <2>7 DEF AnswerWriteAutocommit, Inside, LeaveMonitor
<2>8. CASE AnswerCommit(w)
    BY <2>8 DEF AnswerCommit, Inside, LeaveMonitor
<2>9. CASE AnswerCommitAborted(w)
    BY <2>9 DEF AnswerCommitAborted, Inside, LeaveMonitor
<2>10. CASE AnswerRollback(w)
    BY <2>10 DEF AnswerRollback, Inside, LeaveMonitor, Discard
<2>11. CASE AnswerLinkDown(w)
    BY <2>11 DEF AnswerLinkDown, LeaveMonitor
<2>12. CASE Execute(w)
    BY <2>12 DEF Execute, Goto, Call, Busy
<2>13. CASE ExecuteReturns(w)
    BY <2>13 DEF ExecuteReturns, Goto, Resumes, Continue
<2>14. CASE ExecuteCaught(w)
    BY <2>14 DEF ExecuteCaught, Goto, Resumes, Continue
<2> HIDE DEF contextVars, workerVars, dbVars, TypeOK, Status, OwnerPC,
         ChildPC, IO, Workers, Commands, HookKinds, MonitorInv, StatusInv,
         Over
<2>15. QED
    BY <1>3, <2>1, <2>2, <2>3, <2>4, <2>5, <2>6, <2>7, <2>8, <2>9, <2>10,
         <2>11, <2>12, <2>13, <2>14 DEF Monitor, Answer, ExecuteStep
<1>4. ASSUME NEW c \in Children, Launch(c) \/ ChildStep(c)
      PROVE  StatusInv'
<2> USE DEF contextVars, workerVars, dbVars, TypeOK, Status, OwnerPC,
         ChildPC, IO, Workers, Commands, HookKinds, MonitorInv, StatusInv,
         Over
<2>1. CASE Launch(c)
    BY <2>1 DEF Launch, Goto
<2>2. CASE ChildExecuteThrows(c)
    BY <2>2 DEF ChildExecuteThrows, Goto, Resumes
<2>3. CASE ChildFinishes(c)
    BY <2>3 DEF ChildFinishes, Goto
<2> HIDE DEF contextVars, workerVars, dbVars, TypeOK, Status, OwnerPC,
         ChildPC, IO, Workers, Commands, HookKinds, MonitorInv, StatusInv,
         Over
<2>4. QED
    BY <1>4, <2>1, <2>2, <2>3 DEF ChildStep
<1>5. CASE UNCHANGED vars
    BY <1>5 DEF vars, contextVars, workerVars, dbVars, TypeOK, Status,
         OwnerPC, ChildPC, IO, Workers, Commands, HookKinds, MonitorInv,
         StatusInv, Over
<1>6. QED
    BY <1>1, <1>2, <1>3, <1>4, <1>5 DEF Next, Terminated

(* What the server has accepted is pending until COMMIT is answered and      *)
(* durable from then on, whatever a sibling does in between.                *)
LEMMA DatabaseStep ==
    ASSUME TypeOK, MonitorInv, StatusInv, DatabaseInv, [Next]_vars
    PROVE  DatabaseInv'
<1> USE TransactionAssumption
<1>1. CASE OwnerStep
<2> USE DEF contextVars, workerVars, dbVars, TypeOK, Status, OwnerPC,
         ChildPC, IO, Workers, Commands, HookKinds, MonitorInv, StatusInv,
         DatabaseInv, Over, Early
<2>1. CASE BeginTransaction
    BY <2>1 DEF BeginTransaction, Goto, Call
<2>2. CASE BeginReturns
    BY <2>2 DEF BeginReturns, Goto, Resumes
<2>3. CASE BeginFails
    BY <2>3 DEF BeginFails, Goto, Ends, Resumes
<2>4. CASE BlockThrows
    BY <2>4 DEF BlockThrows, Goto, Call, Catch
<2>5. CASE BlockReturns
    BY <2>5 DEF BlockReturns, Goto
<2>6. CASE OwnerExecuteThrows
    BY <2>6 DEF OwnerExecuteThrows, Goto, Call, Catch, Resumes
<2>7. CASE BeforeCommitHooks
    BY <2>7 DEF BeforeCommitHooks, Goto, Call, Catch, FireHooks
<2>8. CASE SetCommitted
    BY <2>8 DEF SetCommitted, Goto, Resumes
<2>9. CASE CommitFails
    BY <2>9 DEF CommitFails, Goto, Call, Catch, Resumes
<2>10. CASE AfterCommitHooks
    BY <2>10 DEF AfterCommitHooks, Goto, Call, Catch, FireHooks
<2>11. CASE CommitCompletionHooks
    BY <2>11 DEF CommitCompletionHooks, Goto, Call, Catch, FireHooks, Ends
<2>12. CASE SetRolledBack
    BY <2>12 DEF SetRolledBack, Goto, Resumes
<2>13. CASE RollbackFails
    BY <2>13 DEF RollbackFails, Goto, Resumes, Ends
<2>14. CASE AfterRollbackHooks
    BY <2>14 DEF AfterRollbackHooks, Goto, FireHooks, Ends
<2>15. CASE RollbackCompletionHooks
    BY <2>15 DEF RollbackCompletionHooks, Goto, FireHooks, Ends
<2>16. CASE TransactionReturns
    BY <2>16 DEF TransactionReturns, Goto
<2>17. CASE EvictConnection
    BY <2>17 DEF EvictConnection, Goto, Discard
<2> HIDE DEF contextVars, workerVars, dbVars, TypeOK, Status, OwnerPC,
         ChildPC, IO, Workers, Commands, HookKinds, MonitorInv, StatusInv,
         DatabaseInv, Over, Early
<2>18. QED
    BY <1>1, <2>1, <2>2, <2>3, <2>4, <2>5, <2>6, <2>7, <2>8, <2>9, <2>10,
         <2>11, <2>12, <2>13, <2>14, <2>15, <2>16, <2>17 DEF OwnerStep
<1>2. CASE NestTransaction \/ Cancel \/ LinkBreaks
<2> USE DEF contextVars, workerVars, dbVars, TypeOK, Status, OwnerPC,
         ChildPC, IO, Workers, Commands, HookKinds, MonitorInv, StatusInv,
         DatabaseInv, Over, Early
<2>1. CASE NestTransaction
    BY <2>1 DEF NestTransaction, Goto, Call
<2>2. CASE Cancel
    BY <2>2 DEF Cancel
<2>3. CASE LinkBreaks
    BY <2>3 DEF LinkBreaks, Discard
<2> HIDE DEF contextVars, workerVars, dbVars, TypeOK, Status, OwnerPC,
         ChildPC, IO, Workers, Commands, HookKinds, MonitorInv, StatusInv,
         DatabaseInv, Over, Early
<2>4. QED
    BY <1>2, <2>1, <2>2, <2>3
<1>3. ASSUME NEW w \in Workers,
             Monitor(w) \/ Answer(w) \/ Execute(w) \/ ExecuteStep(w)
      PROVE  DatabaseInv'
<2> USE DEF contextVars, workerVars, dbVars, TypeOK, Status, OwnerPC,
         ChildPC, IO, Workers, Commands, HookKinds, MonitorInv, StatusInv,
         DatabaseInv, Over, Early
<2>1. CASE EnterMonitor(w)
    BY <2>1 DEF EnterMonitor, BeforeOp
<2>2. CASE RefuseInMonitor(w)
    BY <2>2 DEF RefuseInMonitor, BeforeOp
<2>3. CASE AbandonWait(w)
    BY <2>3 DEF AbandonWait
<2>4. CASE AnswerStart(w)
    BY <2>4 DEF AnswerStart, Inside, LeaveMonitor
<2>5. CASE AnswerWrite(w)
    BY <2>5 DEF AnswerWrite, Inside, LeaveMonitor
<2>6. CASE AnswerWriteAborted(w)
    BY <2>6 DEF AnswerWriteAborted, Inside, LeaveMonitor
<2>7. CASE AnswerWriteAutocommit(w)
    BY <2>7 DEF AnswerWriteAutocommit, Inside, LeaveMonitor
<2>8. CASE AnswerCommit(w)
    BY <2>8 DEF AnswerCommit, Inside, LeaveMonitor
<2>9. CASE AnswerCommitAborted(w)
    BY <2>9 DEF AnswerCommitAborted, Inside, LeaveMonitor
<2>10. CASE AnswerRollback(w)
    BY <2>10 DEF AnswerRollback, Inside, LeaveMonitor, Discard
<2>11. CASE AnswerLinkDown(w)
    BY <2>11 DEF AnswerLinkDown, LeaveMonitor
<2>12. CASE Execute(w)
    BY <2>12 DEF Execute, Goto, Call, Busy
<2>13. CASE ExecuteReturns(w)
    BY <2>13 DEF ExecuteReturns, Goto, Resumes, Continue
<2>14. CASE ExecuteCaught(w)
    BY <2>14 DEF ExecuteCaught, Goto, Resumes, Continue
<2> HIDE DEF contextVars, workerVars, dbVars, TypeOK, Status, OwnerPC,
         ChildPC, IO, Workers, Commands, HookKinds, MonitorInv, StatusInv,
         DatabaseInv, Over, Early
<2>15. QED
    BY <1>3, <2>1, <2>2, <2>3, <2>4, <2>5, <2>6, <2>7, <2>8, <2>9, <2>10,
         <2>11, <2>12, <2>13, <2>14 DEF Monitor, Answer, ExecuteStep
<1>4. ASSUME NEW c \in Children, Launch(c) \/ ChildStep(c)
      PROVE  DatabaseInv'
<2> USE DEF contextVars, workerVars, dbVars, TypeOK, Status, OwnerPC,
         ChildPC, IO, Workers, Commands, HookKinds, MonitorInv, StatusInv,
         DatabaseInv, Over, Early
<2>1. CASE Launch(c)
    BY <2>1 DEF Launch, Goto
<2>2. CASE ChildExecuteThrows(c)
    BY <2>2 DEF ChildExecuteThrows, Goto, Resumes
<2>3. CASE ChildFinishes(c)
    BY <2>3 DEF ChildFinishes, Goto
<2> HIDE DEF contextVars, workerVars, dbVars, TypeOK, Status, OwnerPC,
         ChildPC, IO, Workers, Commands, HookKinds, MonitorInv, StatusInv,
         DatabaseInv, Over, Early
<2>4. QED
    BY <1>4, <2>1, <2>2, <2>3 DEF ChildStep
<1>5. CASE UNCHANGED vars
    BY <1>5 DEF vars, contextVars, workerVars, dbVars, TypeOK, Status,
         OwnerPC, ChildPC, IO, Workers, Commands, HookKinds, MonitorInv,
         StatusInv, DatabaseInv, Over, Early
<1>6. QED
    BY <1>1, <1>2, <1>3, <1>4, <1>5 DEF Next, Terminated

(* The status is behind the server only between the answer to COMMIT or      *)
(* ROLLBACK and the assignment that follows it, or for good once the scope   *)
(* is cancelled or the connection broken.                                    *)
LEMMA WindowStep ==
    ASSUME TypeOK, MonitorInv, StatusInv, DatabaseInv, WindowInv, [Next]_vars
    PROVE  WindowInv'
<1> USE TransactionAssumption
<1>1. CASE OwnerStep
<2> USE DEF contextVars, workerVars, dbVars, TypeOK, Status, OwnerPC,
         ChildPC, IO, Workers, Commands, HookKinds, MonitorInv, StatusInv,
         DatabaseInv, WindowInv, Over, Early
<2>1. CASE BeginTransaction
    BY <2>1 DEF BeginTransaction, Goto, Call
<2>2. CASE BeginReturns
    BY <2>2 DEF BeginReturns, Goto, Resumes
<2>3. CASE BeginFails
    BY <2>3 DEF BeginFails, Goto, Ends, Resumes
<2>4. CASE BlockThrows
    BY <2>4 DEF BlockThrows, Goto, Call, Catch
<2>5. CASE BlockReturns
    BY <2>5 DEF BlockReturns, Goto
<2>6. CASE OwnerExecuteThrows
    BY <2>6 DEF OwnerExecuteThrows, Goto, Call, Catch, Resumes
<2>7. CASE BeforeCommitHooks
    BY <2>7 DEF BeforeCommitHooks, Goto, Call, Catch, FireHooks
<2>8. CASE SetCommitted
    BY <2>8 DEF SetCommitted, Goto, Resumes
<2>9. CASE CommitFails
    BY <2>9 DEF CommitFails, Goto, Call, Catch, Resumes
<2>10. CASE AfterCommitHooks
    BY <2>10 DEF AfterCommitHooks, Goto, Call, Catch, FireHooks
<2>11. CASE CommitCompletionHooks
    BY <2>11 DEF CommitCompletionHooks, Goto, Call, Catch, FireHooks, Ends
<2>12. CASE SetRolledBack
    BY <2>12 DEF SetRolledBack, Goto, Resumes
<2>13. CASE RollbackFails
    BY <2>13 DEF RollbackFails, Goto, Resumes, Ends
<2>14. CASE AfterRollbackHooks
    BY <2>14 DEF AfterRollbackHooks, Goto, FireHooks, Ends
<2>15. CASE RollbackCompletionHooks
    BY <2>15 DEF RollbackCompletionHooks, Goto, FireHooks, Ends
<2>16. CASE TransactionReturns
    BY <2>16 DEF TransactionReturns, Goto
<2>17. CASE EvictConnection
    BY <2>17 DEF EvictConnection, Goto, Discard
<2> HIDE DEF contextVars, workerVars, dbVars, TypeOK, Status, OwnerPC,
         ChildPC, IO, Workers, Commands, HookKinds, MonitorInv, StatusInv,
         DatabaseInv, WindowInv, Over, Early
<2>18. QED
    BY <1>1, <2>1, <2>2, <2>3, <2>4, <2>5, <2>6, <2>7, <2>8, <2>9, <2>10,
         <2>11, <2>12, <2>13, <2>14, <2>15, <2>16, <2>17 DEF OwnerStep
<1>2. CASE NestTransaction \/ Cancel \/ LinkBreaks
<2> USE DEF contextVars, workerVars, dbVars, TypeOK, Status, OwnerPC,
         ChildPC, IO, Workers, Commands, HookKinds, MonitorInv, StatusInv,
         DatabaseInv, WindowInv, Over, Early
<2>1. CASE NestTransaction
    BY <2>1 DEF NestTransaction, Goto, Call
<2>2. CASE Cancel
    BY <2>2 DEF Cancel
<2>3. CASE LinkBreaks
    BY <2>3 DEF LinkBreaks, Discard
<2> HIDE DEF contextVars, workerVars, dbVars, TypeOK, Status, OwnerPC,
         ChildPC, IO, Workers, Commands, HookKinds, MonitorInv, StatusInv,
         DatabaseInv, WindowInv, Over, Early
<2>4. QED
    BY <1>2, <2>1, <2>2, <2>3
<1>3. ASSUME NEW w \in Workers,
             Monitor(w) \/ Answer(w) \/ Execute(w) \/ ExecuteStep(w)
      PROVE  WindowInv'
<2> USE DEF contextVars, workerVars, dbVars, TypeOK, Status, OwnerPC,
         ChildPC, IO, Workers, Commands, HookKinds, MonitorInv, StatusInv,
         DatabaseInv, WindowInv, Over, Early
<2>1. CASE EnterMonitor(w)
    BY <2>1 DEF EnterMonitor, BeforeOp
<2>2. CASE RefuseInMonitor(w)
    BY <2>2 DEF RefuseInMonitor, BeforeOp
<2>3. CASE AbandonWait(w)
    BY <2>3 DEF AbandonWait
<2>4. CASE AnswerStart(w)
    BY <2>4 DEF AnswerStart, Inside, LeaveMonitor
<2>5. CASE AnswerWrite(w)
    BY <2>5 DEF AnswerWrite, Inside, LeaveMonitor
<2>6. CASE AnswerWriteAborted(w)
    BY <2>6 DEF AnswerWriteAborted, Inside, LeaveMonitor
<2>7. CASE AnswerWriteAutocommit(w)
    BY <2>7 DEF AnswerWriteAutocommit, Inside, LeaveMonitor
<2>8. CASE AnswerCommit(w)
    BY <2>8 DEF AnswerCommit, Inside, LeaveMonitor
<2>9. CASE AnswerCommitAborted(w)
    BY <2>9 DEF AnswerCommitAborted, Inside, LeaveMonitor
<2>10. CASE AnswerRollback(w)
    BY <2>10 DEF AnswerRollback, Inside, LeaveMonitor, Discard
<2>11. CASE AnswerLinkDown(w)
    BY <2>11 DEF AnswerLinkDown, LeaveMonitor
<2>12. CASE Execute(w)
    BY <2>12 DEF Execute, Goto, Call, Busy
<2>13. CASE ExecuteReturns(w)
    BY <2>13 DEF ExecuteReturns, Goto, Resumes, Continue
<2>14. CASE ExecuteCaught(w)
    BY <2>14 DEF ExecuteCaught, Goto, Resumes, Continue
<2> HIDE DEF contextVars, workerVars, dbVars, TypeOK, Status, OwnerPC,
         ChildPC, IO, Workers, Commands, HookKinds, MonitorInv, StatusInv,
         DatabaseInv, WindowInv, Over, Early
<2>15. QED
    BY <1>3, <2>1, <2>2, <2>3, <2>4, <2>5, <2>6, <2>7, <2>8, <2>9, <2>10,
         <2>11, <2>12, <2>13, <2>14 DEF Monitor, Answer, ExecuteStep
<1>4. ASSUME NEW c \in Children, Launch(c) \/ ChildStep(c)
      PROVE  WindowInv'
<2> USE DEF contextVars, workerVars, dbVars, TypeOK, Status, OwnerPC,
         ChildPC, IO, Workers, Commands, HookKinds, MonitorInv, StatusInv,
         DatabaseInv, WindowInv, Over, Early
<2>1. CASE Launch(c)
    BY <2>1 DEF Launch, Goto
<2>2. CASE ChildExecuteThrows(c)
    BY <2>2 DEF ChildExecuteThrows, Goto, Resumes
<2>3. CASE ChildFinishes(c)
    BY <2>3 DEF ChildFinishes, Goto
<2> HIDE DEF contextVars, workerVars, dbVars, TypeOK, Status, OwnerPC,
         ChildPC, IO, Workers, Commands, HookKinds, MonitorInv, StatusInv,
         DatabaseInv, WindowInv, Over, Early
<2>4. QED
    BY <1>4, <2>1, <2>2, <2>3 DEF ChildStep
<1>5. CASE UNCHANGED vars
    BY <1>5 DEF vars, contextVars, workerVars, dbVars, TypeOK, Status,
         OwnerPC, ChildPC, IO, Workers, Commands, HookKinds, MonitorInv,
         StatusInv, DatabaseInv, WindowInv, Over, Early
<1>6. QED
    BY <1>1, <1>2, <1>3, <1>4, <1>5 DEF Next, Terminated

(* An aborted transaction is always on its way to an exception, or to a      *)
(* cancellation of the scope.                                               *)
LEMMA SuccessStep ==
    ASSUME TypeOK, MonitorInv, StatusInv, DatabaseInv, SuccessInv, [Next]_vars
    PROVE  SuccessInv'
<1> USE TransactionAssumption
<1>1. CASE OwnerStep
<2> USE DEF contextVars, workerVars, dbVars, TypeOK, Status, OwnerPC,
         ChildPC, IO, Workers, Commands, HookKinds, MonitorInv, StatusInv,
         DatabaseInv, SuccessInv, Over, Early, Failing, Succeeding,
         ChildError, Reply
<2>1. CASE BeginTransaction
    BY <2>1 DEF BeginTransaction, Goto, Call
<2>2. CASE BeginReturns
    BY <2>2 DEF BeginReturns, Goto, Resumes
<2>3. CASE BeginFails
    BY <2>3 DEF BeginFails, Goto, Ends, Resumes
<2>4. CASE BlockThrows
    BY <2>4 DEF BlockThrows, Goto, Call, Catch
<2>5. CASE BlockReturns
    BY <2>5 DEF BlockReturns, Goto
<2>6. CASE OwnerExecuteThrows
    BY <2>6 DEF OwnerExecuteThrows, Goto, Call, Catch, Resumes
<2>7. CASE BeforeCommitHooks
    BY <2>7 DEF BeforeCommitHooks, Goto, Call, Catch, FireHooks
<2>8. CASE SetCommitted
    BY <2>8 DEF SetCommitted, Goto, Resumes
<2>9. CASE CommitFails
    BY <2>9 DEF CommitFails, Goto, Call, Catch, Resumes
<2>10. CASE AfterCommitHooks
    BY <2>10 DEF AfterCommitHooks, Goto, Call, Catch, FireHooks
<2>11. CASE CommitCompletionHooks
    BY <2>11 DEF CommitCompletionHooks, Goto, Call, Catch, FireHooks, Ends
<2>12. CASE SetRolledBack
    BY <2>12 DEF SetRolledBack, Goto, Resumes
<2>13. CASE RollbackFails
    BY <2>13 DEF RollbackFails, Goto, Resumes, Ends
<2>14. CASE AfterRollbackHooks
    BY <2>14 DEF AfterRollbackHooks, Goto, FireHooks, Ends
<2>15. CASE RollbackCompletionHooks
    BY <2>15 DEF RollbackCompletionHooks, Goto, FireHooks, Ends
<2>16. CASE TransactionReturns
    BY <2>16 DEF TransactionReturns, Goto
<2>17. CASE EvictConnection
    BY <2>17 DEF EvictConnection, Goto, Discard
<2> HIDE DEF contextVars, workerVars, dbVars, TypeOK, Status, OwnerPC,
         ChildPC, IO, Workers, Commands, HookKinds, MonitorInv, StatusInv,
         DatabaseInv, SuccessInv, Over, Early, Failing, Succeeding,
         ChildError, Reply
<2>18. QED
    BY <1>1, <2>1, <2>2, <2>3, <2>4, <2>5, <2>6, <2>7, <2>8, <2>9, <2>10,
         <2>11, <2>12, <2>13, <2>14, <2>15, <2>16, <2>17 DEF OwnerStep
<1>2. CASE NestTransaction \/ Cancel \/ LinkBreaks
<2> USE DEF contextVars, workerVars, dbVars, TypeOK, Status, OwnerPC,
         ChildPC, IO, Workers, Commands, HookKinds, MonitorInv, StatusInv,
         DatabaseInv, SuccessInv, Over, Early, Failing, Succeeding,
         ChildError, Reply
<2>1. CASE NestTransaction
    BY <2>1 DEF NestTransaction, Goto, Call
<2>2. CASE Cancel
    BY <2>2 DEF Cancel
<2>3. CASE LinkBreaks
    BY <2>3 DEF LinkBreaks, Discard
<2> HIDE DEF contextVars, workerVars, dbVars, TypeOK, Status, OwnerPC,
         ChildPC, IO, Workers, Commands, HookKinds, MonitorInv, StatusInv,
         DatabaseInv, SuccessInv, Over, Early, Failing, Succeeding,
         ChildError, Reply
<2>4. QED
    BY <1>2, <2>1, <2>2, <2>3
<1>3. ASSUME NEW w \in Workers,
             Monitor(w) \/ Answer(w) \/ Execute(w) \/ ExecuteStep(w)
      PROVE  SuccessInv'
<2> USE DEF contextVars, workerVars, dbVars, TypeOK, Status, OwnerPC,
         ChildPC, IO, Workers, Commands, HookKinds, MonitorInv, StatusInv,
         DatabaseInv, SuccessInv, Over, Early, Failing, Succeeding,
         ChildError, Reply
<2>1. CASE EnterMonitor(w)
    BY <2>1 DEF EnterMonitor, BeforeOp
<2>2. CASE RefuseInMonitor(w)
    BY <2>2 DEF RefuseInMonitor, BeforeOp
<2>3. CASE AbandonWait(w)
    BY <2>3 DEF AbandonWait
<2>4. CASE AnswerStart(w)
    BY <2>4 DEF AnswerStart, Inside, LeaveMonitor
<2>5. CASE AnswerWrite(w)
    BY <2>5 DEF AnswerWrite, Inside, LeaveMonitor
<2>6. CASE AnswerWriteAborted(w)
    BY <2>6 DEF AnswerWriteAborted, Inside, LeaveMonitor
<2>7. CASE AnswerWriteAutocommit(w)
    BY <2>7 DEF AnswerWriteAutocommit, Inside, LeaveMonitor
<2>8. CASE AnswerCommit(w)
    BY <2>8 DEF AnswerCommit, Inside, LeaveMonitor
<2>9. CASE AnswerCommitAborted(w)
    BY <2>9 DEF AnswerCommitAborted, Inside, LeaveMonitor
<2>10. CASE AnswerRollback(w)
    BY <2>10 DEF AnswerRollback, Inside, LeaveMonitor, Discard
<2>11. CASE AnswerLinkDown(w)
    BY <2>11 DEF AnswerLinkDown, LeaveMonitor
<2>12. CASE Execute(w)
    BY <2>12 DEF Execute, Goto, Call, Busy
<2>13. CASE ExecuteReturns(w)
    BY <2>13 DEF ExecuteReturns, Goto, Resumes, Continue
<2>14. CASE ExecuteCaught(w)
    BY <2>14 DEF ExecuteCaught, Goto, Resumes, Continue
<2> HIDE DEF contextVars, workerVars, dbVars, TypeOK, Status, OwnerPC,
         ChildPC, IO, Workers, Commands, HookKinds, MonitorInv, StatusInv,
         DatabaseInv, SuccessInv, Over, Early, Failing, Succeeding,
         ChildError, Reply
<2>15. QED
    BY <1>3, <2>1, <2>2, <2>3, <2>4, <2>5, <2>6, <2>7, <2>8, <2>9, <2>10,
         <2>11, <2>12, <2>13, <2>14 DEF Monitor, Answer, ExecuteStep
<1>4. ASSUME NEW c \in Children, Launch(c) \/ ChildStep(c)
      PROVE  SuccessInv'
<2> USE DEF contextVars, workerVars, dbVars, TypeOK, Status, OwnerPC,
         ChildPC, IO, Workers, Commands, HookKinds, MonitorInv, StatusInv,
         DatabaseInv, SuccessInv, Over, Early, Failing, Succeeding,
         ChildError, Reply
<2>1. CASE Launch(c)
    BY <2>1 DEF Launch, Goto
<2>2. CASE ChildExecuteThrows(c)
    BY <2>2 DEF ChildExecuteThrows, Goto, Resumes
<2>3. CASE ChildFinishes(c)
    BY <2>3 DEF ChildFinishes, Goto
<2> HIDE DEF contextVars, workerVars, dbVars, TypeOK, Status, OwnerPC,
         ChildPC, IO, Workers, Commands, HookKinds, MonitorInv, StatusInv,
         DatabaseInv, SuccessInv, Over, Early, Failing, Succeeding,
         ChildError, Reply
<2>4. QED
    BY <1>4, <2>1, <2>2, <2>3 DEF ChildStep
<1>5. CASE UNCHANGED vars
    BY <1>5 DEF vars, contextVars, workerVars, dbVars, TypeOK, Status,
         OwnerPC, ChildPC, IO, Workers, Commands, HookKinds, MonitorInv,
         StatusInv, DatabaseInv, SuccessInv, Over, Early, Failing,
         Succeeding, ChildError, Reply
<1>6. QED
    BY <1>1, <1>2, <1>3, <1>4, <1>5 DEF Next, Terminated

(* afterCommit hooks stand for a commit, or for a failure that a sibling    *)
(* remembers: a COMMIT is not answered in a Job that is cancelled.          *)
LEMMA HookStep ==
    ASSUME TypeOK, MonitorInv, StatusInv, DatabaseInv, SuccessInv, HookInv, [Next]_vars
    PROVE  HookInv'
<1> USE TransactionAssumption
<1>1. CASE OwnerStep
<2> USE DEF contextVars, workerVars, dbVars, TypeOK, Status, OwnerPC,
         ChildPC, IO, Workers, Commands, HookKinds, MonitorInv, StatusInv,
         DatabaseInv, SuccessInv, HookInv, FailedSibling, Succeeding,
         ChildError, Reply
<2>1. CASE BeginTransaction
    BY <2>1 DEF BeginTransaction, Goto, Call
<2>2. CASE BeginReturns
    BY <2>2 DEF BeginReturns, Goto, Resumes
<2>3. CASE BeginFails
    BY <2>3 DEF BeginFails, Goto, Ends, Resumes
<2>4. CASE BlockThrows
    BY <2>4 DEF BlockThrows, Goto, Call, Catch
<2>5. CASE BlockReturns
    BY <2>5 DEF BlockReturns, Goto
<2>6. CASE OwnerExecuteThrows
    BY <2>6 DEF OwnerExecuteThrows, Goto, Call, Catch, Resumes
<2>7. CASE BeforeCommitHooks
    BY <2>7 DEF BeforeCommitHooks, Goto, Call, Catch, FireHooks
<2>8. CASE SetCommitted
    BY <2>8 DEF SetCommitted, Goto, Resumes
<2>9. CASE CommitFails
    BY <2>9 DEF CommitFails, Goto, Call, Catch, Resumes
<2>10. CASE AfterCommitHooks
    BY <2>10 DEF AfterCommitHooks, Goto, Call, Catch, FireHooks
<2>11. CASE CommitCompletionHooks
    BY <2>11 DEF CommitCompletionHooks, Goto, Call, Catch, FireHooks, Ends
<2>12. CASE SetRolledBack
    BY <2>12 DEF SetRolledBack, Goto, Resumes
<2>13. CASE RollbackFails
    BY <2>13 DEF RollbackFails, Goto, Resumes, Ends
<2>14. CASE AfterRollbackHooks
    BY <2>14 DEF AfterRollbackHooks, Goto, FireHooks, Ends
<2>15. CASE RollbackCompletionHooks
    BY <2>15 DEF RollbackCompletionHooks, Goto, FireHooks, Ends
<2>16. CASE TransactionReturns
    BY <2>16 DEF TransactionReturns, Goto
<2>17. CASE EvictConnection
    BY <2>17 DEF EvictConnection, Goto, Discard
<2> HIDE DEF contextVars, workerVars, dbVars, TypeOK, Status, OwnerPC,
         ChildPC, IO, Workers, Commands, HookKinds, MonitorInv, StatusInv,
         DatabaseInv, SuccessInv, HookInv, FailedSibling, Succeeding,
         ChildError, Reply
<2>18. QED
    BY <1>1, <2>1, <2>2, <2>3, <2>4, <2>5, <2>6, <2>7, <2>8, <2>9, <2>10,
         <2>11, <2>12, <2>13, <2>14, <2>15, <2>16, <2>17 DEF OwnerStep
<1>2. CASE NestTransaction \/ Cancel \/ LinkBreaks
<2> USE DEF contextVars, workerVars, dbVars, TypeOK, Status, OwnerPC,
         ChildPC, IO, Workers, Commands, HookKinds, MonitorInv, StatusInv,
         DatabaseInv, SuccessInv, HookInv, FailedSibling, Succeeding,
         ChildError, Reply
<2>1. CASE NestTransaction
    BY <2>1 DEF NestTransaction, Goto, Call
<2>2. CASE Cancel
    BY <2>2 DEF Cancel
<2>3. CASE LinkBreaks
    BY <2>3 DEF LinkBreaks, Discard
<2> HIDE DEF contextVars, workerVars, dbVars, TypeOK, Status, OwnerPC,
         ChildPC, IO, Workers, Commands, HookKinds, MonitorInv, StatusInv,
         DatabaseInv, SuccessInv, HookInv, FailedSibling, Succeeding,
         ChildError, Reply
<2>4. QED
    BY <1>2, <2>1, <2>2, <2>3
<1>3. ASSUME NEW w \in Workers,
             Monitor(w) \/ Answer(w) \/ Execute(w) \/ ExecuteStep(w)
      PROVE  HookInv'
<2> USE DEF contextVars, workerVars, dbVars, TypeOK, Status, OwnerPC,
         ChildPC, IO, Workers, Commands, HookKinds, MonitorInv, StatusInv,
         DatabaseInv, SuccessInv, HookInv, FailedSibling, Succeeding,
         ChildError, Reply
<2>1. CASE EnterMonitor(w)
    BY <2>1 DEF EnterMonitor, BeforeOp
<2>2. CASE RefuseInMonitor(w)
    BY <2>2 DEF RefuseInMonitor, BeforeOp
<2>3. CASE AbandonWait(w)
    BY <2>3 DEF AbandonWait
<2>4. CASE AnswerStart(w)
    BY <2>4 DEF AnswerStart, Inside, LeaveMonitor
<2>5. CASE AnswerWrite(w)
    BY <2>5 DEF AnswerWrite, Inside, LeaveMonitor
<2>6. CASE AnswerWriteAborted(w)
    BY <2>6 DEF AnswerWriteAborted, Inside, LeaveMonitor
<2>7. CASE AnswerWriteAutocommit(w)
    BY <2>7 DEF AnswerWriteAutocommit, Inside, LeaveMonitor
<2>8. CASE AnswerCommit(w)
    BY <2>8 DEF AnswerCommit, Inside, LeaveMonitor
<2>9. CASE AnswerCommitAborted(w)
<3>1. /\ io[w] = "inside" /\ op[w] = "COMMIT" /\ dbTx = "aborted"
      /\ io' = [io EXCEPT ![w] = IF cancelled THEN "cancelled" ELSE "ok"]
      /\ UNCHANGED <<status, options, fired, caught, pc, op, cancelled, outcome>>
    BY <2>9 DEF AnswerCommitAborted, Inside, LeaveMonitor
<3>2. w = Owner /\ pc[Owner] = "commit" /\ fired["afterCommit"] = 0
    BY <3>1
<3>3. \A c \in Children : io'[c] = io[c]
    BY <3>1, <3>2
<3>4. ~caught /\ ~cancelled => ChildError
    <4>1. outcome = "none"
        BY <3>2 DEF Over
    <4>2. ~Failing
        BY <3>2, <4>1 DEF Failing
    <4> HIDE DEF MonitorInv, StatusInv, DatabaseInv, HookInv, ChildError
    <4>3. QED
        BY <3>1, <3>2, <4>2
<3>5. ~caught /\ ~cancelled => FailedSibling'
    BY <3>1, <3>3, <3>4
<3>6. QED
    BY <3>1, <3>2, <3>3, <3>5
<2>10. CASE AnswerRollback(w)
    BY <2>10 DEF AnswerRollback, Inside, LeaveMonitor, Discard
<2>11. CASE AnswerLinkDown(w)
    BY <2>11 DEF AnswerLinkDown, LeaveMonitor
<2>12. CASE Execute(w)
    BY <2>12 DEF Execute, Goto, Call, Busy
<2>13. CASE ExecuteReturns(w)
    BY <2>13 DEF ExecuteReturns, Goto, Resumes, Continue
<2>14. CASE ExecuteCaught(w)
    BY <2>14 DEF ExecuteCaught, Goto, Resumes, Continue
<2> HIDE DEF contextVars, workerVars, dbVars, TypeOK, Status, OwnerPC,
         ChildPC, IO, Workers, Commands, HookKinds, MonitorInv, StatusInv,
         DatabaseInv, SuccessInv, HookInv, FailedSibling, Succeeding,
         ChildError, Reply
<2>15. QED
    BY <1>3, <2>1, <2>2, <2>3, <2>4, <2>5, <2>6, <2>7, <2>8, <2>9, <2>10,
         <2>11, <2>12, <2>13, <2>14 DEF Monitor, Answer, ExecuteStep
<1>4. ASSUME NEW c \in Children, Launch(c) \/ ChildStep(c)
      PROVE  HookInv'
<2> USE DEF contextVars, workerVars, dbVars, TypeOK, Status, OwnerPC,
         ChildPC, IO, Workers, Commands, HookKinds, MonitorInv, StatusInv,
         DatabaseInv, SuccessInv, HookInv, FailedSibling, Succeeding,
         ChildError, Reply
<2>1. CASE Launch(c)
    BY <2>1 DEF Launch, Goto
<2>2. CASE ChildExecuteThrows(c)
    BY <2>2 DEF ChildExecuteThrows, Goto, Resumes
<2>3. CASE ChildFinishes(c)
    BY <2>3 DEF ChildFinishes, Goto
<2> HIDE DEF contextVars, workerVars, dbVars, TypeOK, Status, OwnerPC,
         ChildPC, IO, Workers, Commands, HookKinds, MonitorInv, StatusInv,
         DatabaseInv, SuccessInv, HookInv, FailedSibling, Succeeding,
         ChildError, Reply
<2>4. QED
    BY <1>4, <2>1, <2>2, <2>3 DEF ChildStep
<1>5. CASE UNCHANGED vars
    BY <1>5 DEF vars, contextVars, workerVars, dbVars, TypeOK, Status,
         OwnerPC, ChildPC, IO, Workers, Commands, HookKinds, MonitorInv,
         StatusInv, DatabaseInv, SuccessInv, HookInv, FailedSibling,
         Succeeding, ChildError, Reply
<1>6. QED
    BY <1>1, <1>2, <1>3, <1>4, <1>5 DEF Next, Terminated

(* Without siblings only the owner sends statements, and only while the     *)
(* transaction is open.                                                     *)
LEMMA SequentialStep ==
    ASSUME TypeOK, MonitorInv, StatusInv, DatabaseInv, WindowInv, SequentialInv, [Next]_vars
    PROVE  SequentialInv'
<1> USE TransactionAssumption
<1>1. CASE OwnerStep
<2> USE DEF contextVars, workerVars, dbVars, TypeOK, Status, OwnerPC,
         ChildPC, IO, Workers, Commands, HookKinds, MonitorInv, StatusInv,
         DatabaseInv, WindowInv, SequentialInv, Over, Early
<2>1. CASE BeginTransaction
    BY <2>1 DEF BeginTransaction, Goto, Call
<2>2. CASE BeginReturns
    BY <2>2 DEF BeginReturns, Goto, Resumes
<2>3. CASE BeginFails
    BY <2>3 DEF BeginFails, Goto, Ends, Resumes
<2>4. CASE BlockThrows
    BY <2>4 DEF BlockThrows, Goto, Call, Catch
<2>5. CASE BlockReturns
    BY <2>5 DEF BlockReturns, Goto
<2>6. CASE OwnerExecuteThrows
    BY <2>6 DEF OwnerExecuteThrows, Goto, Call, Catch, Resumes
<2>7. CASE BeforeCommitHooks
    BY <2>7 DEF BeforeCommitHooks, Goto, Call, Catch, FireHooks
<2>8. CASE SetCommitted
    BY <2>8 DEF SetCommitted, Goto, Resumes
<2>9. CASE CommitFails
    BY <2>9 DEF CommitFails, Goto, Call, Catch, Resumes
<2>10. CASE AfterCommitHooks
    BY <2>10 DEF AfterCommitHooks, Goto, Call, Catch, FireHooks
<2>11. CASE CommitCompletionHooks
    BY <2>11 DEF CommitCompletionHooks, Goto, Call, Catch, FireHooks, Ends
<2>12. CASE SetRolledBack
    BY <2>12 DEF SetRolledBack, Goto, Resumes
<2>13. CASE RollbackFails
    BY <2>13 DEF RollbackFails, Goto, Resumes, Ends
<2>14. CASE AfterRollbackHooks
    BY <2>14 DEF AfterRollbackHooks, Goto, FireHooks, Ends
<2>15. CASE RollbackCompletionHooks
    BY <2>15 DEF RollbackCompletionHooks, Goto, FireHooks, Ends
<2>16. CASE TransactionReturns
    BY <2>16 DEF TransactionReturns, Goto
<2>17. CASE EvictConnection
    BY <2>17 DEF EvictConnection, Goto, Discard
<2> HIDE DEF contextVars, workerVars, dbVars, TypeOK, Status, OwnerPC,
         ChildPC, IO, Workers, Commands, HookKinds, MonitorInv, StatusInv,
         DatabaseInv, WindowInv, SequentialInv, Over, Early
<2>18. QED
    BY <1>1, <2>1, <2>2, <2>3, <2>4, <2>5, <2>6, <2>7, <2>8, <2>9, <2>10,
         <2>11, <2>12, <2>13, <2>14, <2>15, <2>16, <2>17 DEF OwnerStep
<1>2. CASE NestTransaction \/ Cancel \/ LinkBreaks
<2> USE DEF contextVars, workerVars, dbVars, TypeOK, Status, OwnerPC,
         ChildPC, IO, Workers, Commands, HookKinds, MonitorInv, StatusInv,
         DatabaseInv, WindowInv, SequentialInv, Over, Early
<2>1. CASE NestTransaction
    BY <2>1 DEF NestTransaction, Goto, Call
<2>2. CASE Cancel
    BY <2>2 DEF Cancel
<2>3. CASE LinkBreaks
    BY <2>3 DEF LinkBreaks, Discard
<2> HIDE DEF contextVars, workerVars, dbVars, TypeOK, Status, OwnerPC,
         ChildPC, IO, Workers, Commands, HookKinds, MonitorInv, StatusInv,
         DatabaseInv, WindowInv, SequentialInv, Over, Early
<2>4. QED
    BY <1>2, <2>1, <2>2, <2>3
<1>3. ASSUME NEW w \in Workers,
             Monitor(w) \/ Answer(w) \/ Execute(w) \/ ExecuteStep(w)
      PROVE  SequentialInv'
<2> USE DEF contextVars, workerVars, dbVars, TypeOK, Status, OwnerPC,
         ChildPC, IO, Workers, Commands, HookKinds, MonitorInv, StatusInv,
         DatabaseInv, WindowInv, SequentialInv, Over, Early
<2>1. CASE EnterMonitor(w)
    BY <2>1 DEF EnterMonitor, BeforeOp
<2>2. CASE RefuseInMonitor(w)
    BY <2>2 DEF RefuseInMonitor, BeforeOp
<2>3. CASE AbandonWait(w)
    BY <2>3 DEF AbandonWait
<2>4. CASE AnswerStart(w)
    BY <2>4 DEF AnswerStart, Inside, LeaveMonitor
<2>5. CASE AnswerWrite(w)
    BY <2>5 DEF AnswerWrite, Inside, LeaveMonitor
<2>6. CASE AnswerWriteAborted(w)
    BY <2>6 DEF AnswerWriteAborted, Inside, LeaveMonitor
<2>7. CASE AnswerWriteAutocommit(w)
    BY <2>7 DEF AnswerWriteAutocommit, Inside, LeaveMonitor
<2>8. CASE AnswerCommit(w)
    BY <2>8 DEF AnswerCommit, Inside, LeaveMonitor
<2>9. CASE AnswerCommitAborted(w)
    BY <2>9 DEF AnswerCommitAborted, Inside, LeaveMonitor
<2>10. CASE AnswerRollback(w)
    BY <2>10 DEF AnswerRollback, Inside, LeaveMonitor, Discard
<2>11. CASE AnswerLinkDown(w)
    BY <2>11 DEF AnswerLinkDown, LeaveMonitor
<2>12. CASE Execute(w)
    BY <2>12 DEF Execute, Goto, Call, Busy
<2>13. CASE ExecuteReturns(w)
    BY <2>13 DEF ExecuteReturns, Goto, Resumes, Continue
<2>14. CASE ExecuteCaught(w)
    BY <2>14 DEF ExecuteCaught, Goto, Resumes, Continue
<2> HIDE DEF contextVars, workerVars, dbVars, TypeOK, Status, OwnerPC,
         ChildPC, IO, Workers, Commands, HookKinds, MonitorInv, StatusInv,
         DatabaseInv, WindowInv, SequentialInv, Over, Early
<2>15. QED
    BY <1>3, <2>1, <2>2, <2>3, <2>4, <2>5, <2>6, <2>7, <2>8, <2>9, <2>10,
         <2>11, <2>12, <2>13, <2>14 DEF Monitor, Answer, ExecuteStep
<1>4. ASSUME NEW c \in Children, Launch(c) \/ ChildStep(c)
      PROVE  SequentialInv'
<2> USE DEF contextVars, workerVars, dbVars, TypeOK, Status, OwnerPC,
         ChildPC, IO, Workers, Commands, HookKinds, MonitorInv, StatusInv,
         DatabaseInv, WindowInv, SequentialInv, Over, Early
<2>1. CASE Launch(c)
    BY <2>1 DEF Launch, Goto
<2>2. CASE ChildExecuteThrows(c)
    BY <2>2 DEF ChildExecuteThrows, Goto, Resumes
<2>3. CASE ChildFinishes(c)
    BY <2>3 DEF ChildFinishes, Goto
<2> HIDE DEF contextVars, workerVars, dbVars, TypeOK, Status, OwnerPC,
         ChildPC, IO, Workers, Commands, HookKinds, MonitorInv, StatusInv,
         DatabaseInv, WindowInv, SequentialInv, Over, Early
<2>4. QED
    BY <1>4, <2>1, <2>2, <2>3 DEF ChildStep
<1>5. CASE UNCHANGED vars
    BY <1>5 DEF vars, contextVars, workerVars, dbVars, TypeOK, Status,
         OwnerPC, ChildPC, IO, Workers, Commands, HookKinds, MonitorInv,
         StatusInv, DatabaseInv, WindowInv, SequentialInv, Over, Early
<1>6. QED
    BY <1>1, <1>2, <1>3, <1>4, <1>5 DEF Next, Terminated

(* The parts together are invariant. *)
THEOREM Invariance == Spec => []IInv
<1>1. Init => IInv
    BY InitIInv
<1>2. IInv /\ [Next]_vars => IInv'
    BY TypeStep, MonitorStep, StatusStep, DatabaseStep, WindowStep,
       SuccessStep, HookStep DEF IInv
<1>3. QED
    BY <1>1, <1>2, PTL DEF Spec

(* Type correctness of the context, the coroutines and the session. *)
THEOREM TypeCorrect == Spec => []TypeOK
<1>1. IInv => TypeOK
    BY DEF IInv
<1>2. QED
    BY <1>1, Invariance, PTL

(* A normal return of transaction() means that everything the server had    *)
(* accepted on the connection is durable, for any number of siblings and    *)
(* any faults, as long as no exception is swallowed.                        *)
THEOREM ReturnIsTrustworthy == Spec => []SuccessIsDurable
<1>1. IInv => SuccessIsDurable
    BY DEF IInv, DatabaseInv, SuccessInv, SuccessIsDurable
<1>2. QED
    BY <1>1, Invariance, PTL

(* afterRollback hooks run only for a transaction the server rolled back,   *)
(* and never after the afterCommit hooks.                                   *)
THEOREM RollbackHooksAreTruthful == Spec => []RollbackHooksOnlyAfterRollback
<1>1. IInv => RollbackHooksOnlyAfterRollback
    BY DEF IInv, TypeOK, HookKinds, DatabaseInv, StatusInv, RollbackHooksOnlyAfterRollback
<1>2. QED
    BY <1>1, Invariance, PTL

(* A context is left IN_TRANSACTION by a cancellation or by a broken        *)
(* connection only.                                                         *)
THEOREM EndIsAlwaysRecorded == Spec => []EndIsRecorded
<1>1. IInv => EndIsRecorded
    BY DEF IInv, WindowInv, Over, EndIsRecorded
<1>2. QED
    BY <1>1, Invariance, PTL

(* A statement gets past the status check of execute() without an open      *)
(* transaction only in the window around COMMIT and ROLLBACK.               *)
THEOREM EscapesAreConfined == Spec => EscapeOnlyInWindow
<1> DEFINE Confined(w) ==
        io[w] = "waiting" /\ io'[w] = "inside" /\ op[w] \in Writes
        /\ dbTx = "none" /\ link = "up" =>
            \/ pc[Owner] = "commit" /\ io[Owner] \in {"ok", "error"}
            \/ pc[Owner] = "rollback"
<1>1. ASSUME IInv, [Next]_vars, NEW w \in Workers PROVE Confined(w)
    <2>1. ASSUME io[w] = "waiting", io'[w] = "inside" PROVE EnterMonitor(w)
        <3> USE DEF IInv, TypeOK, Workers, IO
        <3>1. CASE OwnerStep
            BY <1>1, <2>1, <3>1 DEF OwnerStep, BeginTransaction, BeginReturns, BeginFails,
                BlockThrows, BlockReturns, OwnerExecuteThrows, BeforeCommitHooks,
                SetCommitted, CommitFails, AfterCommitHooks, CommitCompletionHooks,
                SetRolledBack, RollbackFails, AfterRollbackHooks,
                RollbackCompletionHooks, TransactionReturns, EvictConnection,
                Catch, Call, Ends
        <3>2. CASE NestTransaction \/ Cancel \/ LinkBreaks
            BY <1>1, <2>1, <3>2 DEF NestTransaction, Cancel, LinkBreaks, Call, workerVars
        <3>3. ASSUME NEW v \in Workers,
                     Monitor(v) \/ Answer(v) \/ Execute(v) \/ ExecuteStep(v)
              PROVE  EnterMonitor(w)
            BY <1>1, <2>1, <3>3 DEF Monitor, Answer, ExecuteStep, EnterMonitor,
                RefuseInMonitor, AbandonWait, AnswerStart, AnswerWrite,
                AnswerWriteAborted, AnswerWriteAutocommit, AnswerCommit,
                AnswerCommitAborted, AnswerRollback, AnswerLinkDown, LeaveMonitor,
                Execute, Call, ExecuteReturns, ExecuteCaught, Continue
        <3>4. ASSUME NEW c \in Children, Launch(c) \/ ChildStep(c)
              PROVE  EnterMonitor(w)
            BY <1>1, <2>1, <3>4 DEF ChildStep, Launch, ChildExecuteThrows, ChildFinishes
        <3>5. CASE UNCHANGED vars
            BY <1>1, <2>1, <3>5 DEF vars, workerVars
        <3>6. QED
            BY <1>1, <3>1, <3>2, <3>3, <3>4, <3>5 DEF Next, Terminated
    <2>2. ASSUME EnterMonitor(w), op[w] \in Writes PROVE status = "IN_TRANSACTION" /\ ~cancelled
        BY <2>2, TransactionAssumption DEF EnterMonitor, BeforeOp, Commands
    <2>3. QED
        BY <1>1, <2>1, <2>2 DEF IInv, WindowInv
<1>2. IInv /\ [Next]_vars => [\A w \in Workers : Confined(w)]_vars
    BY <1>1
<1>3. QED
    BY <1>2, Invariance, PTL DEF Spec, EscapeOnlyInWindow

(* Nothing reaches the database over a connection whose transaction() call  *)
(* has returned.                                                            *)
THEOREM ReturnedMeansQuiet == Spec => QuietAfterReturn
<1> DEFINE Quiet == pc[Owner] \in {"returned", "evicted"} =>
                        written' = written /\ durable' = durable /\ lock = Nobody
<1>1. ASSUME IInv, [Next]_vars, pc[Owner] \in {"returned", "evicted"}
      PROVE  written' = written /\ durable' = durable /\ lock = Nobody
    <2>1. \A w \in Workers : io[w] # "inside"
        BY <1>1 DEF IInv, MonitorInv, StatusInv, Workers
    <2>2. lock = Nobody
        BY <1>1, <2>1 DEF IInv, TypeOK, MonitorInv
    <2>3. CASE OwnerStep
        BY <2>2, <2>3 DEF OwnerStep, BeginTransaction, BeginReturns, BeginFails,
            BlockThrows, BlockReturns, OwnerExecuteThrows, BeforeCommitHooks,
            SetCommitted, CommitFails, AfterCommitHooks, CommitCompletionHooks,
            SetRolledBack, RollbackFails, AfterRollbackHooks,
            RollbackCompletionHooks, TransactionReturns, EvictConnection,
            Discard, dbVars
    <2>4. CASE NestTransaction \/ Cancel \/ LinkBreaks
        BY <2>2, <2>4 DEF NestTransaction, Cancel, LinkBreaks, Discard, dbVars
    <2>5. ASSUME NEW w \in Workers,
                 Monitor(w) \/ Answer(w) \/ Execute(w) \/ ExecuteStep(w)
          PROVE  written' = written /\ durable' = durable
        BY <1>1, <2>1, <2>5 DEF Monitor, Answer, ExecuteStep, EnterMonitor,
            RefuseInMonitor, AbandonWait, AnswerStart, AnswerWrite,
            AnswerWriteAborted, AnswerWriteAutocommit, AnswerCommit,
            AnswerCommitAborted, AnswerRollback, AnswerLinkDown, Inside,
            Execute, ExecuteReturns, ExecuteCaught, dbVars
    <2>6. ASSUME NEW c \in Children, Launch(c) \/ ChildStep(c)
          PROVE  written' = written /\ durable' = durable
        BY <2>6 DEF ChildStep, Launch, ChildExecuteThrows, ChildFinishes, dbVars
    <2>7. CASE UNCHANGED vars
        BY <2>2, <2>7 DEF vars, dbVars
    <2>8. QED
        BY <1>1, <2>2, <2>3, <2>4, <2>5, <2>6, <2>7 DEF Next, Terminated
<1>2. IInv /\ [Next]_vars => [Quiet]_vars
    BY <1>1
<1>3. QED
    BY <1>2, Invariance, PTL DEF Spec, QuietAfterReturn

(* afterCommit hooks run for a commit, or after a sibling's failed statement. *)
THEOREM CommitHooksAreTruthful == Spec => []CommitHooksOnlyAfterCommit
<1>1. IInv => CommitHooksOnlyAfterCommit
    BY DEF IInv, HookInv, FailedSibling, CommitHooksOnlyAfterCommit
<1>2. QED
    BY <1>1, Invariance, PTL

(* Without siblings the invariants hold together. *)
LEMMA Sequential == Spec => []SequentialInv
<1>1. Init => SequentialInv
    BY TransactionAssumption DEF Init, SequentialInv, Workers
<1>2. IInv /\ SequentialInv /\ [Next]_vars => SequentialInv'
    BY SequentialStep DEF IInv
<1>3. QED
    BY <1>1, <1>2, Invariance, PTL DEF Spec

(* A sequential block whose context says ROLLED_BACK has left nothing. *)
THEOREM SequentialRollback == Spec => [](Children = {} => RolledBackLeavesNothing)
<1>1. SequentialInv => (Children = {} => RolledBackLeavesNothing)
    BY DEF SequentialInv, RolledBackLeavesNothing
<1>2. QED
    BY <1>1, Sequential, PTL

(* DatabaseService.kt:40, "The transaction will be committed if [block]     *)
(* returns normally": it is, whatever siblings, cancellations and faults    *)
(* there are, unless the exception of a statement has been caught on the    *)
(* way, as in the run that violates it.                                     *)
THEOREM OnlyCatchingHidesRollback == Spec => [](~caught => OkMeansCommitted)
<1>1. IInv => (~caught => OkMeansCommitted)
    BY DEF IInv, SuccessInv, OkMeansCommitted
<1>2. QED
    BY <1>1, Invariance, PTL

(* Only a coroutine that swallows what execute() threw sets caught. *)
LEMMA CatchingIsSwallowing ==
    ASSUME Next
    PROVE  UNCHANGED caught \/ \E w \in Swallows : ExecuteCaught(w)
<1> USE DEF contextVars
<1>1. OwnerStep => UNCHANGED caught
    BY DEF OwnerStep, BeginTransaction, BeginReturns, BeginFails, BlockThrows,
        BlockReturns, OwnerExecuteThrows, BeforeCommitHooks, SetCommitted,
        CommitFails, AfterCommitHooks, CommitCompletionHooks, SetRolledBack,
        RollbackFails, AfterRollbackHooks, RollbackCompletionHooks, FireHooks,
        TransactionReturns, EvictConnection
<1>2. NestTransaction \/ Cancel \/ LinkBreaks \/ Terminated => UNCHANGED caught
    BY DEF NestTransaction, Cancel, LinkBreaks, Terminated, vars
<1>3. \A w \in Workers : Monitor(w) \/ Answer(w) => UNCHANGED caught
    BY DEF Monitor, EnterMonitor, RefuseInMonitor, AbandonWait, LeaveMonitor, Answer,
        AnswerStart, AnswerWrite, AnswerWriteAborted, AnswerWriteAutocommit,
        AnswerCommit, AnswerCommitAborted, AnswerRollback, AnswerLinkDown
<1>4. \A w \in Workers : Execute(w) \/ ExecuteReturns(w) => UNCHANGED caught
    BY DEF Execute, ExecuteReturns
<1>5. \A w \in Workers : ExecuteCaught(w) => w \in Swallows
    BY DEF ExecuteCaught
<1>6. \A c \in Children : Launch(c) \/ ChildStep(c) => UNCHANGED caught
    BY DEF Launch, ChildStep, ChildExecuteThrows, ChildFinishes
<1> QED
    BY <1>1, <1>2, <1>3, <1>4, <1>5, <1>6 DEF Next, ExecuteStep

(* Where nobody swallows an exception, none is ever caught. *)
LEMMA NothingCaught == Swallows = {} => (Spec => []~caught)
<1> SUFFICES ASSUME Swallows = {}
             PROVE  Spec => []~caught
    OBVIOUS
<1>1. Init => ~caught
    BY DEF Init
<1>2. Next => UNCHANGED caught
    BY CatchingIsSwallowing
<1>3. ~caught /\ [Next]_vars => ~caught'
    BY <1>2 DEF vars, contextVars
<1> QED
    BY <1>1, <1>3, PTL DEF Spec

(* A step of a sequential block is one of the unit of work, or none at all. *)
LEMMA UnitStep ==
    ASSUME Children = {}, IInv, IInv', SequentialInv, ~caught, ~caught', [Next]_vars
    PROVE  [Unit!UnitNext]_(Unit!unitVars)
<1> USE TransactionAssumption
<1> DEFINE Step == [Unit!UnitNext]_(Unit!unitVars)
<1>1. ASSUME UNCHANGED <<verdict, written, durable, Reply>>
      PROVE  Step
    BY <1>1 DEF Unit!unitVars, Work
<1>2. ASSUME verdict = "none", verdict' = "rolledback", UNCHANGED <<written, durable, Reply>>
      PROVE  Step
    BY <1>2 DEF Unit!UnitNext, Unit!Discard, Work
<1>3. /\ TypeOK /\ MonitorInv /\ StatusInv /\ DatabaseInv /\ SuccessInv
      /\ pending \subseteq written
      /\ durable # {} => verdict = "committed"
      /\ pc[Owner] = "statement" /\ io[Owner] = "inside" /\ link = "up" => dbTx # "none"
    BY DEF IInv, SequentialInv
<1>4. CASE OwnerStep
    <2>1. CASE BeginTransaction
        BY <1>1, <1>3, <2>1 DEF BeginTransaction, Goto, Reply, dbVars, TypeOK, OwnerPC, Workers
    <2>2. CASE BeginReturns
        BY <1>1, <1>3, <2>2 DEF BeginReturns, Goto, Reply, dbVars, TypeOK, OwnerPC, Workers
    <2>3. CASE BeginFails
        BY <1>1, <1>3, <2>3 DEF BeginFails, Goto, Ends, Reply, dbVars, TypeOK, OwnerPC, Workers
    <2>4. CASE BlockThrows
        BY <1>1, <1>3, <2>4 DEF BlockThrows, Goto, Catch, Reply, dbVars, TypeOK, OwnerPC, Workers
    <2>5. CASE BlockReturns
        BY <1>1, <1>3, <2>5 DEF BlockReturns, Goto, Reply, dbVars, TypeOK, OwnerPC, Workers
    <2>6. CASE OwnerExecuteThrows
        BY <1>1, <1>3, <2>6 DEF OwnerExecuteThrows, Goto, Catch, Reply, dbVars, TypeOK, OwnerPC, Workers
    <2>7. CASE BeforeCommitHooks
        BY <1>1, <1>3, <2>7 DEF BeforeCommitHooks, Goto, Catch, Reply, dbVars, TypeOK, OwnerPC, Workers
    <2>8. CASE SetCommitted
        BY <1>1, <1>3, <2>8 DEF SetCommitted, Goto, Reply, dbVars, TypeOK, OwnerPC, Workers
    <2>9. CASE CommitFails
        BY <1>1, <1>3, <2>9 DEF CommitFails, Goto, Catch, Reply, dbVars, TypeOK, OwnerPC, Workers
    <2>10. CASE AfterCommitHooks
        BY <1>1, <1>3, <2>10 DEF AfterCommitHooks, Goto, Catch, Reply, dbVars, TypeOK, OwnerPC, Workers
    <2>11. CASE CommitCompletionHooks
        BY <1>1, <1>3, <2>11 DEF CommitCompletionHooks, Goto, Catch, Ends, Reply, dbVars, TypeOK, OwnerPC, Workers
    <2>12. CASE SetRolledBack
        BY <1>1, <1>3, <2>12 DEF SetRolledBack, Goto, Reply, dbVars, TypeOK, OwnerPC, Workers
    <2>13. CASE RollbackFails
        BY <1>1, <1>3, <2>13 DEF RollbackFails, Goto, Ends, Reply, dbVars, TypeOK, OwnerPC, Workers
    <2>14. CASE AfterRollbackHooks
        BY <1>1, <1>3, <2>14 DEF AfterRollbackHooks, Goto, Ends, Reply, dbVars, TypeOK, OwnerPC, Workers
    <2>15. CASE RollbackCompletionHooks
        BY <1>1, <1>3, <2>15 DEF RollbackCompletionHooks, Goto, Ends, Reply, dbVars, TypeOK, OwnerPC, Workers
    <2>16. CASE TransactionReturns
        <3>1. /\ Reply = "none" /\ Reply' \in {"ok", "error"}
              /\ UNCHANGED <<verdict, written, durable>>
            BY <1>3, <2>16
               DEF TransactionReturns, Goto, Reply, dbVars, TypeOK, OwnerPC, Workers, StatusInv, Over
        <3>2. Reply' = "ok" => verdict' = "committed"
            BY DEF IInv, SuccessInv
        <3> DEFINE r == Reply'
        <3>3. Unit!Reply(r)
            BY <3>1, <3>2 DEF Unit!Reply, Work
        <3>4. QED
            BY <3>1, <3>3 DEF Unit!UnitNext
    <2>17. CASE EvictConnection
        BY <1>1, <1>2, <1>3, <2>17
           DEF EvictConnection, Discard, Goto, Reply, TypeOK, OwnerPC, Workers
    <2>18. QED
        BY <1>4, <2>1, <2>2, <2>3, <2>4, <2>5, <2>6, <2>7, <2>8, <2>9, <2>10, <2>11, <2>12, <2>13, <2>14, <2>15, <2>16, <2>17 DEF OwnerStep
<1>5. CASE NestTransaction \/ Cancel \/ LinkBreaks
    <2>1. CASE NestTransaction
        BY <1>1, <1>3, <2>1 DEF NestTransaction, Goto, Reply, dbVars, TypeOK, OwnerPC, Workers
    <2>2. CASE Cancel
        BY <1>1, <2>2 DEF Cancel, Reply, dbVars
    <2>3. CASE LinkBreaks
        BY <1>1, <1>2, <1>3, <2>3 DEF LinkBreaks, Discard, Reply, contextVars, workerVars, TypeOK
    <2>4. QED
        BY <1>5, <2>1, <2>2, <2>3
<1>6. ASSUME NEW w \in Workers,
             Monitor(w) \/ Answer(w) \/ Execute(w) \/ ExecuteStep(w)
      PROVE  Step
    <2>1. w = Owner
        BY DEF Workers
    <2>2. io[w] = "inside" => Reply = "none"
        BY <1>3, <2>1 DEF MonitorInv, Reply, TypeOK, Workers
    <2>3. CASE Monitor(w)
        BY <1>1, <2>3 DEF Monitor, EnterMonitor, RefuseInMonitor, AbandonWait, Reply, dbVars
    <2>4. CASE AnswerStart(w)
        BY <1>1, <2>4 DEF AnswerStart, LeaveMonitor, Reply
    <2>5. CASE AnswerWrite(w)
        <3>1. /\ verdict = "none" /\ Reply = "none"
              /\ UNCHANGED <<verdict, durable, Reply>>
              /\ written \subseteq written'
            BY <1>3, <2>2, <2>5 DEF AnswerWrite, Inside, LeaveMonitor, Reply, DatabaseInv
        <3>2. written' \in SUBSET Writes
            BY DEF IInv, TypeOK
        <3>3. QED
            BY <3>1, <3>2 DEF Unit!UnitNext, Unit!Perform, Work
    <2>6. CASE AnswerWriteAborted(w)
        BY <1>1, <2>6 DEF AnswerWriteAborted, LeaveMonitor, Reply, dbVars
    <2>7. CASE AnswerWriteAutocommit(w)
        BY <1>3, <2>1, <2>7 DEF AnswerWriteAutocommit, Inside, MonitorInv, Workers, Commands
    <2>8. CASE AnswerCommit(w)
        <3>1. /\ verdict = "none" /\ Reply = "none" /\ durable = {} /\ pending = written
              /\ UNCHANGED <<written, Reply>>
              /\ \/ verdict' = "committed" /\ durable' = durable \cup pending
                 \/ verdict' = "rolledback" /\ durable' = durable
            BY <1>3, <2>2, <2>8 DEF AnswerCommit, Inside, LeaveMonitor, Reply, DatabaseInv
        <3>2. QED
            BY <1>2, <3>1 DEF Unit!UnitNext, Unit!Commit, Work
    <2>9. CASE AnswerCommitAborted(w)
        BY <1>2, <1>3, <2>9 DEF AnswerCommitAborted, LeaveMonitor, Reply, DatabaseInv
    <2>10. CASE AnswerRollback(w)
        BY <1>1, <1>2, <1>3, <2>10 DEF AnswerRollback, Discard, LeaveMonitor, Reply, TypeOK
    <2>11. CASE AnswerLinkDown(w)
        BY <1>1, <2>11 DEF AnswerLinkDown, LeaveMonitor, Reply, dbVars
    <2>12. CASE Execute(w)
        BY <1>1, <1>3, <2>1, <2>12 DEF Execute, Goto, Busy, Reply, TypeOK, Workers
    <2>13. CASE ExecuteStep(w)
        BY <1>1, <1>3, <2>1, <2>13
           DEF ExecuteStep, ExecuteReturns, ExecuteCaught, Continue, Goto, Reply, dbVars,
               TypeOK, Workers
    <2>14. QED
        BY <1>6, <2>3, <2>4, <2>5, <2>6, <2>7, <2>8, <2>9, <2>10, <2>11, <2>12, <2>13
           DEF Answer
<1>7. CASE UNCHANGED vars
    BY <1>1, <1>7 DEF vars, workerVars, dbVars, Reply
<1>8. QED
    BY <1>4, <1>5, <1>6, <1>7 DEF Next, Terminated

(* DatabaseService.transaction keeps the promise of the unit of work, its   *)
(* safety: for a sequential block that swallows nothing, whatever rows,     *)
(* failing hooks and faults there are.                                      *)
THEOREM SequentialBlocksAreUnits ==
    Children = {} /\ Swallows = {} => (Spec => Unit!UnitSafety)
<1> SUFFICES ASSUME Children = {}, Swallows = {}
             PROVE  Spec => Unit!UnitSafety
    OBVIOUS
<1>1. Init => Unit!UnitInit
    BY DEF Init, Unit!UnitInit, Reply, Workers, Work
<1>2. IInv /\ IInv' /\ SequentialInv /\ ~caught /\ (~caught)' /\ [Next]_vars
          => [Unit!UnitNext]_(Unit!unitVars)
    BY UnitStep
<1>3. Spec => []~caught
    BY NothingCaught
<1>4. QED
    BY <1>1, <1>2, <1>3, Invariance, Sequential, PTL DEF Spec, Unit!UnitSafety

UnitTheorems == INSTANCE UnitOfWorkProofs WITH
    work <- Work, store <- durable, reply <- Reply

(* What follows from the promise holds of such a block: a reader sees all   *)
(* of its work or none, and all of it once transaction() has returned; and  *)
(* what is decided and told is not taken back.                              *)
THEOREM SequentialBlocksAreAtomic ==
    Children = {} /\ Swallows = {} =>
        (Spec => []Unit!AllOrNothing /\ Unit!NothingAfterTheAnswer)
<1> SUFFICES ASSUME Children = {}, Swallows = {}
             PROVE  Spec => []Unit!AllOrNothing /\ Unit!NothingAfterTheAnswer
    OBVIOUS
<1>1. Spec => Unit!UnitSafety
    BY SequentialBlocksAreUnits
<1> USE DEF UnitTheorems!UnitSafety, Unit!UnitSafety,
        UnitTheorems!UnitInit, Unit!UnitInit, UnitTheorems!UnitNext, Unit!UnitNext,
        UnitTheorems!unitVars, Unit!unitVars, UnitTheorems!Perform, Unit!Perform,
        UnitTheorems!Commit, Unit!Commit, UnitTheorems!Discard, Unit!Discard,
        UnitTheorems!Reply, Unit!Reply
<1>2. Unit!UnitSafety => []Unit!AllOrNothing
    BY UnitTheorems!WorkIsAtomic DEF UnitTheorems!AllOrNothing, Unit!AllOrNothing
<1>3. Unit!UnitSafety => Unit!NothingAfterTheAnswer
    BY UnitTheorems!AnswersAreFinal
       DEF UnitTheorems!NothingAfterTheAnswer, Unit!NothingAfterTheAnswer
<1> QED
    BY <1>1, <1>2, <1>3
=============================================================================
