-------------------------- MODULE GasSponsorProofs --------------------------
(***************************************************************************)
(* The verdicts of the gas sponsor's client are true, for any number of    *)
(* claims and poll attempts: what a status answer can say of a call, and   *)
(* that a call keeps the end it came to.                                   *)
(***************************************************************************)
EXTENDS GasSponsor, TLAPS

(* Of the answers to the status of a call, only those of an executed one   *)
(* classify as confirmed, and only those of a reverted one as failed.      *)
LEMMA AnswersClassify ==
  ASSUME CodesGiven, NEW o \in OpState, NEW raw \in Answers(o)
  PROVE  /\ ClassifyCallsStatus(raw) \in {"none", "confirmed", "failed"}
         /\ ClassifyCallsStatus(raw) = "confirmed" => o = "executed"
         /\ ClassifyCallsStatus(raw) = "failed" => o \in Reverted
<1>1. CASE raw \in NotFinal
  BY <1>1 DEF NotFinal, ClassifyCallsStatus, ClassifyReceipt, CodeFails
<1>2. CASE raw \notin NotFinal
  <2>1. CASE o = "executed"
    BY <1>2, <2>1 DEF Answers, ClassifyCallsStatus, ClassifyReceipt, CodeFails
  <2>2. CASE o = "innerReverted"
    BY <1>2, <2>2 DEF Answers, ClassifyCallsStatus, ClassifyReceipt, CodeFails, Reverted
  <2>3. CASE o = "bundleReverted"
    BY <1>2, <2>3 DEF Answers, ClassifyCallsStatus, ClassifyReceipt, CodeFails, Reverted
  <2>4. CASE o = "dropped"
    BY <1>2, <2>4 DEF Answers, ClassifyCallsStatus, ClassifyReceipt, CodeFails, Reverted
  <2>5. CASE o \in {"none", "pending"}
    BY <1>2, <2>5 DEF Answers
  <2> QED BY <2>1, <2>2, <2>3, <2>4, <2>5 DEF OpState
<1> QED BY <1>1, <1>2

(* What makes it inductive: a claim has no verdict while it is under way,  *)
(* so no verdict is there before the call it is about.                     *)
UnderWay == \A c \in Claim : pc[c] \in {"prepare", "send", "poll"} => verdict[c] = "none"
Inv == TypeOK /\ UnderWay /\ VerdictIsTrue

(* What an attempt without a verdict does.                                 *)
LEMMA AttemptKeepsInv ==
  ASSUME Inv, NEW c \in Claim, NEW failed \in BOOLEAN, NextAttempt(c, failed),
         UNCHANGED <<prepared, op, delegated>>
  PROVE  Inv'
<1> USE AttemptsAssumption DEF Inv, NextAttempt
<1>1. CASE attempt[c] < MaxPollAttempts - 1 /\ UNCHANGED <<pc, verdict>>
  <2>1. attempt' \in [Claim -> 0..(MaxPollAttempts - 1)] BY <1>1 DEF TypeOK
  <2>2. lastErr' \in [Claim -> BOOLEAN]
    <3>1. lastErr' = [lastErr EXCEPT ![c] = failed] BY <1>1 DEF TypeOK
    <3> QED BY <3>1, Zenon DEF TypeOK
  <2> QED BY <1>1, <2>1, <2>2 DEF TypeOK, UnderWay, VerdictIsTrue
<1>2. CASE /\ Return(c, IF failed THEN "error" ELSE "timedOut")
           /\ UNCHANGED <<attempt, lastErr>>
  BY <1>2 DEF Return, TypeOK, UnderWay, VerdictIsTrue, Verdict
<1> QED BY <1>1, <1>2

LEMMA InitInv == Init => Inv
  BY AttemptsAssumption DEF Init, Inv, TypeOK, UnderWay, VerdictIsTrue, Prepared, OpState, Verdict

LEMMA NextInv ==
  ASSUME CodesGiven, Inv, [Next]_vars
  PROVE  Inv'
<1> USE DEF Inv
<1>1. CASE UNCHANGED vars
  BY <1>1 DEF vars, client, TypeOK, UnderWay, VerdictIsTrue
<1>2. ASSUME NEW c \in Claim, PrepareCalls(c) PROVE Inv'
  BY <1>2 DEF PrepareCalls, TypeOK, UnderWay, VerdictIsTrue
<1>3. ASSUME NEW c \in Claim, RpcFails(c) PROVE Inv'
  BY <1>3 DEF RpcFails, Unsent, TypeOK, UnderWay, VerdictIsTrue, Verdict
<1>4. ASSUME NEW c \in Claim, SignFails(c) PROVE Inv'
  BY <1>4 DEF SignFails, Unsent, TypeOK, UnderWay, VerdictIsTrue, Verdict
<1>6. ASSUME NEW c \in Claim, Settle(c) PROVE Inv'
  <2>1. PICK end \in {"executed"} \cup Reverted :
          /\ op' = [op EXCEPT ![c] = end]
          /\ delegated' = (delegated \/ end \in {"executed", "innerReverted"})
    BY <1>6 DEF Settle
  <2>2. UNCHANGED client /\ op[c] = "pending" BY <1>6 DEF Settle
  <2>3. delegated' \in BOOLEAN BY <2>1, Zenon
  <2> QED BY <2>1, <2>2, <2>3 DEF client, TypeOK, UnderWay, VerdictIsTrue, OpState, Reverted
<1>7. ASSUME NEW c \in Claim, Poll(c) PROVE Inv'
  <2>1. UNCHANGED <<prepared, op, delegated>> BY <1>7 DEF Poll
  <2>2. CASE NextAttempt(c, TRUE) BY <2>1, <2>2, AttemptKeepsInv
  <2>3. ASSUME NEW raw \in Answers(op[c]), ClassifyCallsStatus(raw) = "none",
               NextAttempt(c, FALSE)
        PROVE  Inv'
    BY <2>1, <2>3, AttemptKeepsInv
  <2>4. ASSUME NEW raw \in Answers(op[c]), ClassifyCallsStatus(raw) # "none",
               Return(c, ClassifyCallsStatus(raw)), UNCHANGED <<attempt, lastErr>>
        PROVE  Inv'
    <3> DEFINE v == ClassifyCallsStatus(raw)
    <3>1. op[c] \in OpState BY DEF TypeOK
    <3>2. /\ v \in {"none", "confirmed", "failed"}
          /\ v = "confirmed" => op[c] = "executed"
          /\ v = "failed" => op[c] \in Reverted
      BY <3>1, AnswersClassify
    <3>3. pc' = [pc EXCEPT ![c] = "done"] /\ verdict' = [verdict EXCEPT ![c] = v]
      BY <2>4 DEF Return
    <3> HIDE DEF v
    <3> QED BY <2>1, <2>4, <3>2, <3>3 DEF TypeOK, UnderWay, VerdictIsTrue, Verdict
  <2> QED BY <1>7, <2>2, <2>3, <2>4 DEF Poll
<1>8. ASSUME NEW c \in Claim, Resume(c) PROVE Inv'
  <2>1. lastErr' \in [Claim -> BOOLEAN] BY <1>8, Zenon DEF Resume, TypeOK
  <2> QED BY <1>8, <2>1, AttemptsAssumption DEF Resume, TypeOK, UnderWay, VerdictIsTrue, Verdict
<1>5. ASSUME NEW c \in Claim, SignAndSend(c) PROVE Inv'
  <2>1. op' = [op EXCEPT ![c] = "pending"] /\ delegated' = delegated /\ pc[c] = "send"
    BY <1>5 DEF SignAndSend
  <2>2. verdict[c] \notin {"confirmed", "failed"}
    BY <2>1 DEF UnderWay
  <2> QED BY <1>5, <2>1, <2>2 DEF SignAndSend, Unsent, TypeOK, UnderWay, VerdictIsTrue, Verdict, OpState
<1> QED BY <1>1, <1>2, <1>3, <1>4, <1>5, <1>6, <1>7, <1>8 DEF Next

(* Types hold for any number of claims and attempts.                       *)
THEOREM SponsorTyped == ASSUME CodesGiven PROVE Spec => []TypeOK
<1>1. Inv => TypeOK BY DEF Inv
<1>2. Inv /\ [Next]_vars => Inv' BY CodesGiven, NextInv
<1> QED BY InitInv, <1>1, <1>2, PTL DEF Spec

(* A confirmed claim was executed and a failed one never will be, if the   *)
(* sponsor gives the code of a reverted call with its receipt.             *)
THEOREM VerdictsAreTrue == ASSUME CodesGiven PROVE Spec => []VerdictIsTrue
<1>1. Inv => VerdictIsTrue BY DEF Inv
<1>2. Inv /\ [Next]_vars => Inv' BY CodesGiven, NextInv
<1> QED BY InitInv, <1>1, <1>2, PTL DEF Spec

=============================================================================
