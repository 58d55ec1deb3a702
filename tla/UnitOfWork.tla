----------------------------- MODULE UnitOfWork -----------------------------
(***************************************************************************)
(* What DatabaseService.transaction promises its caller, with nothing of   *)
(* how TransactionContext, the coroutines and the PostgreSQL session       *)
(* deliver it: the statements of one block reach the database together or  *)
(* not at all, and a normal return is only ever given for a block that was *)
(* committed.  An exception says nothing about the outcome, but nothing of *)
(* the block is committed after the caller has had its answer.             *)
(***************************************************************************)
EXTENDS FiniteSets

CONSTANT Writes         \* the rows a block may write

VARIABLES
    verdict,            \* what became of the work in the database
    work,               \* the rows the block has written and that are not dropped
    store,              \* the rows of the block that are durable
    reply               \* what the caller of transaction() was told

unitVars == <<verdict, work, store, reply>>

Verdicts == {"none", "committed", "rolledback"}
Replies  == {"none", "ok", "error"}

UnitTypeOK ==
    /\ verdict \in Verdicts
    /\ work \in SUBSET Writes
    /\ store \in SUBSET Writes
    /\ reply \in Replies

UnitInit ==
    /\ verdict = "none"
    /\ work = {}
    /\ store = {}
    /\ reply = "none"

(* The block writes; what it writes shows to nobody else yet. *)
Perform ==
    /\ verdict = "none"
    /\ reply = "none"
    /\ work' \in SUBSET Writes
    /\ work \subseteq work'
    /\ UNCHANGED <<verdict, store, reply>>

(* Everything the block wrote becomes durable at once; the caller may hear  *)
(* of it in the same step.                                                  *)
Commit ==
    /\ verdict = "none"
    /\ reply = "none"
    /\ verdict' = "committed"
    /\ store' = work
    /\ reply' \in {"none", "ok"}
    /\ UNCHANGED work

(* Everything the block wrote is dropped; the server may do this after the *)
(* caller has had its error, when it notices the closed connection.        *)
Discard ==
    /\ verdict = "none"
    /\ verdict' = "rolledback"
    /\ work' = {}
    /\ reply' \in {reply, "error"}
    /\ UNCHANGED store

(* transaction() returns normally only when the work is committed. *)
Reply(a) ==
    /\ reply = "none"
    /\ a = "ok" => verdict = "committed"
    /\ reply' = a
    /\ UNCHANGED <<verdict, work, store>>

UnitNext ==
    \/ Perform
    \/ Commit
    \/ Discard
    \/ \E a \in {"ok", "error"} : Reply(a)

(* The caller is answered, and the work is settled one way or the other. *)
UnitFairness ==
    /\ WF_unitVars(\E a \in {"ok", "error"} : Reply(a))
    /\ WF_unitVars(Discard)

UnitSafety == UnitInit /\ [][UnitNext]_unitVars

UnitSpec == UnitSafety /\ UnitFairness

-----------------------------------------------------------------------------
(* What follows for the caller *)

(* The work is durable as a whole when it is committed, and only then; a    *)
(* normal return is given for committed work only.                          *)
UnitInv ==
    /\ UnitTypeOK
    /\ store = IF verdict = "committed" THEN work ELSE {}
    /\ verdict = "rolledback" => work = {}
    /\ reply = "ok" => verdict = "committed"

(* DatabaseService.kt:40-41, "committed if [block] returns normally",       *)
(* "rolled back if [block] throws": a reader sees all of the work or none,  *)
(* and all of it after a normal return.                                     *)
AllOrNothing ==
    /\ store \in {{}, work}
    /\ reply = "ok" => store = work

(* What has been decided and what has been told stays; nothing is stored    *)
(* after any answer, and nothing written or dropped once the caller knows   *)
(* of a commit.                                                             *)
NothingAfterTheAnswer ==
    [][/\ reply # "none" => reply' = reply /\ store' = store
       /\ reply = "ok" => work' = work
       /\ verdict # "none" => verdict' = verdict /\ work' = work]_unitVars
=============================================================================
