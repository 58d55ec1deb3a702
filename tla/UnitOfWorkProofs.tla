-------------------------- MODULE UnitOfWorkProofs --------------------------
(***************************************************************************)
(* What a caller may conclude from the unit of work alone, so that what is *)
(* shown to implement it - the sequential blocks of TransactionContext and *)
(* every transaction of DatabaseService - has these properties as well.    *)
(***************************************************************************)
EXTENDS UnitOfWork, TLAPS

(* The work and its fate agree at every step. *)
LEMMA UnitInvariance == UnitSafety => []UnitInv
<1>1. UnitInit => UnitInv
    BY DEF UnitInit, UnitInv, UnitTypeOK, Verdicts, Replies
<1>2. ASSUME UnitInv, [UnitNext]_unitVars
      PROVE  UnitInv'
    <2> USE <1>2 DEF UnitInv, UnitTypeOK, Verdicts, Replies
    <2>1. CASE Perform
        BY <2>1 DEF Perform
    <2>2. CASE Commit
        BY <2>2 DEF Commit
    <2>3. CASE Discard
        BY <2>3 DEF Discard
    <2>4. ASSUME NEW a \in {"ok", "error"}, Reply(a)
          PROVE  UnitInv'
        BY <2>4 DEF Reply
    <2>5. CASE UNCHANGED unitVars
        BY <2>5 DEF unitVars
    <2>6. QED
        BY <2>1, <2>2, <2>3, <2>4, <2>5 DEF UnitNext
<1>3. QED
    BY <1>1, <1>2, PTL DEF UnitSafety

(* The work of one call of transaction() is seen as a whole or not at all,  *)
(* and as a whole once the caller has its normal return.                    *)
THEOREM WorkIsAtomic == UnitSafety => []AllOrNothing
<1>1. UnitInv => AllOrNothing
    BY DEF UnitInv, AllOrNothing
<1>2. QED
    BY <1>1, UnitInvariance, PTL

(* Neither the answer of transaction() nor what the database has decided    *)
(* changes again: what comes after a commit adds and drops nothing, and     *)
(* after any answer what is stored stays as it is.                          *)
THEOREM AnswersAreFinal == UnitSafety => NothingAfterTheAnswer
<1> DEFINE Final == /\ reply # "none" => reply' = reply /\ store' = store
                    /\ reply = "ok" => work' = work
                    /\ verdict # "none" => verdict' = verdict /\ work' = work
<1>1. UnitInv /\ [UnitNext]_unitVars => [Final]_unitVars
    BY DEF UnitInv, UnitTypeOK, Replies, UnitNext, Perform, Commit, Discard, Reply,
           unitVars
<1>2. QED
    BY <1>1, UnitInvariance, PTL DEF UnitSafety, NothingAfterTheAnswer
=============================================================================
