----------------------------- MODULE GasSponsor -----------------------------
(***************************************************************************)
(* The client of the gas sponsor (src/crates/lib/src/evm/alchemy.rs):      *)
(* claims of one gas signer are prepared, signed and sent, and then polled *)
(* until the sponsor's status gives a verdict.  SwapManager takes that     *)
(* verdict for what happened to the claim; here it is told apart from what *)
(* really happened to the user operation.                                  *)
(***************************************************************************)
EXTENDS Naturals, Sequences

CONSTANTS
  Claim,             \* the submissions of the gas signer, retries included
  MaxPollAttempts,   \* MAX_POLL_ATTEMPTS
  CodesGiven         \* a receipt of a reverted call comes with its code

ASSUME AttemptsAssumption == MaxPollAttempts \in Nat \ {0}
ASSUME CodesAssumption == CodesGiven \in BOOLEAN

-----------------------------------------------------------------------------
(* What wallet_prepareCalls answers: entries to sign, of one of two shapes *)
(* or of none the client knows.                                            *)
FirstTime == [type |-> "array", entries |-> <<"authorization", "userOp">>]
Disordered == [type |-> "array", entries |-> <<"userOp", "authorization">>]
Truncated == [type |-> "array", entries |-> <<"authorization">>]
Subsequent == [type |-> "user-operation-v070", entries |-> <<"userOp">>]
Unknown == [type |-> "unknown", entries |-> <<>>]
Prepared == {FirstTime, Disordered, Truncated, Subsequent, Unknown}

OpState == {"none", "pending", "executed", "innerReverted", "bundleReverted", "dropped"}
Reverted == {"innerReverted", "bundleReverted", "dropped"}
Verdict == {"none", "confirmed", "failed", "timedOut", "error"}

VARIABLES
  pc,         \* where the submission of a claim stands
  prepared,   \* the answer to wallet_prepareCalls
  attempt,    \* poll attempts made
  lastErr,    \* the last attempt had a transient error
  verdict,    \* what submit_calls or poll_call_status returned
  op,         \* what became of the user operation
  delegated   \* the gas signer has its EIP-7702 delegation

client == <<pc, prepared, attempt, lastErr, verdict>>
vars == <<client, op, delegated>>

TypeOK ==
  /\ pc \in [Claim -> {"prepare", "send", "poll", "unsent", "done"}]
  /\ prepared \in [Claim -> Prepared]
  /\ attempt \in [Claim -> 0..(MaxPollAttempts - 1)]
  /\ lastErr \in [Claim -> BOOLEAN] /\ verdict \in [Claim -> Verdict]
  /\ op \in [Claim -> OpState] /\ delegated \in BOOLEAN

Init ==
  /\ pc = [c \in Claim |-> "prepare"] /\ prepared = [c \in Claim |-> Unknown]
  /\ attempt = [c \in Claim |-> 0] /\ lastErr = [c \in Claim |-> FALSE]
  /\ verdict = [c \in Claim |-> "none"]
  /\ op = [c \in Claim |-> "none"] /\ delegated \in BOOLEAN

-----------------------------------------------------------------------------
(* submit_calls: prepare, sign, send.                                      *)
PrepareCalls(c) ==
  /\ pc[c] = "prepare"
  /\ \E p \in Prepared \ {IF delegated THEN FirstTime ELSE Subsequent} :
       prepared' = [prepared EXCEPT ![c] = p]
  /\ pc' = [pc EXCEPT ![c] = "send"]
  /\ UNCHANGED <<attempt, lastErr, verdict, op, delegated>>

(* rpc_call: HTTP and JSON-RPC errors and an answer without a result.      *)
Unsent(c) ==
  /\ pc' = [pc EXCEPT ![c] = "unsent"] /\ verdict' = [verdict EXCEPT ![c] = "error"]
  /\ UNCHANGED <<prepared, attempt, lastErr>>
RpcFails(c) == pc[c] \in {"prepare", "send"} /\ Unsent(c) /\ UNCHANGED <<op, delegated>>

(* An authorization carries rawPayload, signed as it is; a user operation  *)
(* carries data.raw, signed with the EIP-191 prefix.                       *)
Scheme(entry) == IF entry = "authorization" THEN "raw" ELSE "EIP-191"

(* attach_signature leaves the request for the signature out.              *)
AttachSignature(entry, scheme) == [entry |-> entry, by |-> scheme]

SignFirstTime(entries) ==
  IF Len(entries) >= 2 /\ entries[1] = "authorization" /\ entries[2] = "userOp"
    THEN <<AttachSignature(entries[1], "raw"), AttachSignature(entries[2], "EIP-191")>>
    ELSE <<>>
SignSubsequent(entries) == <<AttachSignature(entries[1], "EIP-191")>>

SignPrepared(p) ==
  CASE p.type = "array" -> SignFirstTime(p.entries)
    [] p.type = "user-operation-v070" -> SignSubsequent(p.entries)
    [] OTHER -> <<>>

SignFails(c) ==
  /\ pc[c] = "send" /\ SignPrepared(prepared[c]) = <<>>
  /\ Unsent(c) /\ UNCHANGED <<op, delegated>>

(* The sponsor takes what is signed the way it asked.  Its answer names    *)
(* the call, or is lost or empty: then the caller knows of no submission.  *)
SignAndSend(c) ==
  LET signed == SignPrepared(prepared[c]) IN
  /\ pc[c] = "send" /\ signed # <<>>
  /\ \A i \in DOMAIN signed : signed[i].by = Scheme(signed[i].entry)
  /\ op' = [op EXCEPT ![c] = "pending"]
  /\ \/ pc' = [pc EXCEPT ![c] = "poll"] /\ UNCHANGED <<prepared, attempt, lastErr, verdict>>
     \/ Unsent(c)
  /\ UNCHANGED delegated

-----------------------------------------------------------------------------
(* The bundler.  The delegation of a first claim stays when its call       *)
(* reverts.                                                                *)
Settle(c) ==
  /\ op[c] = "pending"
  /\ \E end \in {"executed"} \cup Reverted :
       /\ op' = [op EXCEPT ![c] = end]
       /\ delegated' = (delegated \/ end \in {"executed", "innerReverted"})
  /\ UNCHANGED client

(* What wallet_getCallsStatus answers: the EIP-5792 code, 0 where there is *)
(* none, the status of the bundle's receipt and whether it has a hash. The *)
(* EntryPoint catches a revert of the call, so the receipt is 0x1 then     *)
(* too.  An answer may be older than the outcome.                          *)
NotFinal == [code : {0, 100}, receipt : {"none"}, hash : {FALSE}]
Answers(o) ==
  NotFinal \cup
  CASE o = "executed" -> [code : {0, 100, 200}, receipt : {"0x1"}, hash : BOOLEAN]
    [] o = "innerReverted" -> [code : IF CodesGiven THEN {500} ELSE {0, 100, 500},
                               receipt : {"0x1"}, hash : BOOLEAN]
    [] o = "bundleReverted" -> [code : {0, 100, 500}, receipt : {"0x0"}, hash : BOOLEAN]
    [] o = "dropped" -> [code : {400}, receipt : {"none"}, hash : {FALSE}]
    [] OTHER -> {}

CodeIgnored(raw) == FALSE   \* mutant: the receipt alone decides
CodeFails(raw) == raw.code >= 300

ClassifyReceipt(raw) ==
  CASE raw.receipt = "0x1" /\ raw.hash -> "confirmed"
    [] raw.receipt = "0x0" -> "failed"
    [] OTHER -> "none"
ClassifyCallsStatus(raw) == IF CodeFails(raw) THEN "failed" ELSE ClassifyReceipt(raw)

(* poll_call_status: one attempt per step, each an answer or a transient   *)
(* error; only the error of the last attempt is returned.                  *)
Return(c, v) == pc' = [pc EXCEPT ![c] = "done"] /\ verdict' = [verdict EXCEPT ![c] = v]

NextAttempt(c, failed) ==
  \/ /\ attempt[c] < MaxPollAttempts - 1
     /\ attempt' = [attempt EXCEPT ![c] = @ + 1]
     /\ lastErr' = [lastErr EXCEPT ![c] = failed]
     /\ UNCHANGED <<pc, verdict>>
  \/ /\ attempt[c] = MaxPollAttempts - 1
     /\ Return(c, IF failed THEN "error" ELSE "timedOut")
     /\ UNCHANGED <<attempt, lastErr>>

Poll(c) ==
  /\ pc[c] = "poll"
  /\ \/ NextAttempt(c, TRUE)
     \/ \E raw \in Answers(op[c]) :
          IF ClassifyCallsStatus(raw) = "none" THEN NextAttempt(c, FALSE)
          ELSE Return(c, ClassifyCallsStatus(raw)) /\ UNCHANGED <<attempt, lastErr>>
  /\ UNCHANGED <<prepared, op, delegated>>

(* A resume polls the persisted call_id from the beginning.                *)
Resume(c) ==
  /\ pc[c] = "done" /\ verdict[c] \in {"timedOut", "error"}
  /\ pc' = [pc EXCEPT ![c] = "poll"] /\ verdict' = [verdict EXCEPT ![c] = "none"]
  /\ attempt' = [attempt EXCEPT ![c] = 0] /\ lastErr' = [lastErr EXCEPT ![c] = FALSE]
  /\ UNCHANGED <<prepared, op, delegated>>

Next == \E c \in Claim :
  PrepareCalls(c) \/ RpcFails(c) \/ SignFails(c) \/ SignAndSend(c) \/ Settle(c)
    \/ Poll(c) \/ Resume(c)
Spec == Init /\ [][Next]_vars

-----------------------------------------------------------------------------
(* The verdict is what happened: a claim reported confirmed was executed,  *)
(* though its receipt cannot show a revert of the call, and one reported   *)
(* failed can no longer be executed (classify_calls_status).               *)
VerdictIsTrue == \A c \in Claim :
  /\ verdict[c] = "confirmed" => op[c] = "executed"
  /\ verdict[c] = "failed" => op[c] \in Reverted

=============================================================================
