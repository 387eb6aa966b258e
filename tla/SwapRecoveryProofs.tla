------------------------- MODULE SwapRecoveryProofs -------------------------
(***************************************************************************)
(* For every value of SwapManager's constants: a claim that was broadcast  *)
(* is not forgotten, as the store names it while it can win or has won;    *)
(* and the manager keeps the promise of ReverseSwap.                       *)
(***************************************************************************)
EXTENDS SwapManagerProofs

CanWin == calls > 0 /\ (txs[calls] = "mined" \/ (txs[calls] = "pending" /\ lock = "locked"))
Undisturbed == faults = 0 /\ crashes = 0 /\ ~LostResponses
Names(s) == calls \in {s.call, s.hash}

(* What makes it inductive.  A handler may write back the record it has in *)
(* memory, so that one must name the claim too, but for the steps between  *)
(* a submission and the end of its handler.  A hash is dropped only if its *)
(* receipt is a revert, and a call_id only for the hash it led to.         *)
RecoverInv ==
  /\ txs[OtherTx] # "reverted"
  /\ pc = "resume" => mem.hash = None
  /\ Undisturbed =>
       /\ pc = "receipt" => mem.hash = store.hash
       /\ pc = "reverted" => mem.hash \in Tx /\ txs[mem.hash] = "reverted"
       /\ CanWin => /\ pc # "persistCall" => Names(store)
                    /\ pc \notin {"idle", "persistCall", "poll"} => Names(mem)

LEMMA RecoverInit == Init => RecoverInv
  BY BoundsAssumption DEF Init, RecoverInv, CanWin, Tx, OtherTx, Submit

(* The updates that leave the call_id and the hash of a record alone.      *)
SameClaim(r, s) == r.call = s.call /\ r.hash = s.hash

LEMMA SameClaims ==
  ASSUME NEW s \in Swap
  PROVE  /\ \A new \in Status : SameClaim([s EXCEPT !.status = new], s)
         /\ \A new \in Status, b \in BOOLEAN :
              SameClaim([s EXCEPT !.status = new, !.lockupTx = b], s)
         /\ SameClaim([s EXCEPT !.lockupTx = TRUE], s)
         /\ \A event \in Handlers : SameClaim(Finalized(s, event), s)
         /\ SameClaim(Failed(s, "refund"), s)
         /\ \A t \in Tx \cup {None} :
              SameClaim([WithEvidence(s, t) EXCEPT !.status = PostClaimStatus], s)
<1>1. ASSUME NEW t \in Tx \cup {None}
      PROVE  SameClaim([WithEvidence(s, t) EXCEPT !.status = PostClaimStatus], s)
  <2>1. WithEvidence(s, t) \in {s, [s EXCEPT !.evidence = t]} BY DEF WithEvidence
  <2> QED BY <2>1 DEF Swap, SameClaim
<1> QED BY <1>1 DEF Swap, SameClaim, Finalized, Failed

LEMMA SameClaimNames ==
  ASSUME NEW r, NEW s, SameClaim(r, s) PROVE Names(r) <=> Names(s)
  BY DEF SameClaim, Names

(* Without a fault, a write takes effect.                                  *)
LEMMA WritesTakeEffect ==
  ASSUME TypeOK, NEW s, Persist(s), crashes' = crashes, Undisturbed'
  PROVE  Undisturbed /\ store' = s
  BY BoundsAssumption DEF TypeOK, Persist, Undisturbed

(* A step of a handler that leaves the claims alone keeps the invariant if *)
(* it keeps what the records say of them.                                  *)
LEMMA KeepsNames ==
  ASSUME RecoverInv, UNCHANGED <<txs, calls, lock>>,
         pc' \notin {"resume", "receipt", "reverted", "persistCall"},
         Undisturbed' => Undisturbed /\ pc # "persistCall",
         Undisturbed' => SameClaim(store', store) \/ (CanWin => Names(store')),
         Undisturbed' => \/ pc' \in {"idle", "poll"}
                         \/ pc \notin {"idle", "poll"} /\ SameClaim(mem', mem)
                         \/ SameClaim(mem', store)
                         \/ (CanWin => Names(mem'))
  PROVE  RecoverInv'
<1>1. CanWin' <=> CanWin BY DEF CanWin
<1>2. \A s : Names(s)' <=> calls \in {s.call, s.hash}' BY DEF Names
<1> QED BY <1>1 DEF RecoverInv, Names, SameClaim

LEMMA RecoverWs == ASSUME TypeOK, RecoverInv, WsHandlers PROVE RecoverInv'
<1> USE DEF record, handler, chain, claims, GoTo
<1>0. store \in Swap /\ store.lockupTx \in BOOLEAN BY DEF TypeOK, Swap
<1>1. CASE \E event \in Events : WsPastClaim(event)
  BY <1>1 DEF WsPastClaim, RecoverInv, CanWin, Undisturbed, Names
<1>2. CASE WsInvoicePaid
  <2>1. Undisturbed' => Undisturbed /\ store' = [store EXCEPT !.status = "InvoicePaid"]
    BY <1>2, WritesTakeEffect DEF WsInvoicePaid
  <2>2. Undisturbed' => SameClaim(store', store) BY <1>0, <2>1 DEF SameClaim, Swap
  <2> QED BY <1>2, <2>1, <2>2, KeepsNames DEF WsInvoicePaid, Receive
<1>3. CASE WsMempool
  <2>1. Undisturbed' => Undisturbed /\ SameClaim(store', store)
    BY <1>0, <1>3, WritesTakeEffect, SameClaims DEF WsMempool
  <2> QED BY <1>3, <2>1, KeepsNames DEF WsMempool, Receive
<1>4. CASE WsConfirmed
  <2>1. SameClaim(mem', store) BY <1>0, <1>4 DEF WsConfirmed, SameClaim, Swap
  <2>2. Undisturbed' => Undisturbed /\ store' = mem'
    BY <1>4, WritesTakeEffect DEF WsConfirmed
  <2> QED BY <1>4, <2>1, <2>2, KeepsNames DEF WsConfirmed, Receive
<1>5. CASE WsSettled \/ HandleClaimingResume
  <2>1. /\ UNCHANGED <<store, txs, calls, lock, faults, crashes>> /\ mem' = store /\ pc = "idle"
        /\ \/ pc' = "receipt" /\ store.hash # None
           \/ pc' = "resume" /\ store.hash = None
           \/ pc' \in {"chainCheck", "settledCheck"}
    BY <1>5 DEF WsSettled, HandleClaimingResume, Resume, Receive
  <2> QED BY <2>1 DEF RecoverInv, CanWin, Undisturbed, Names
<1>6. CASE \E event \in {"expired", "failed"} : HandleTerminalWsEvent(event)
  <2>1. PICK event \in {"expired", "failed"} : HandleTerminalWsEvent(event) BY <1>6
  <2>2. CASE NeedsLockCheck(store.status)
    <3>1. /\ UNCHANGED <<store, txs, calls, lock, faults, crashes>> /\ mem' = store
          /\ pc = "idle" /\ pc' = "termCheck"
      BY <2>1, <2>2 DEF HandleTerminalWsEvent, Receive
    <3> QED BY <3>1 DEF RecoverInv, CanWin, Undisturbed, Names
  <2>3. CASE ~NeedsLockCheck(store.status)
    <3>1. Undisturbed' => Undisturbed /\ store' = Finalized(store, event)
      BY <2>1, <2>3, WritesTakeEffect DEF HandleTerminalWsEvent
    <3>2. Undisturbed' => SameClaim(store', store)
      BY <1>0, <3>1, SameClaims DEF Handlers
    <3> QED BY <2>1, <2>3, <3>1, <3>2, KeepsNames DEF HandleTerminalWsEvent, Receive
  <2> QED BY <2>2, <2>3
<1> QED BY <1>1, <1>2, <1>3, <1>4, <1>5, <1>6 DEF WsHandlers

LEMMA RecoverClaim ==
  ASSUME TypeOK, ControlInv, RecoverInv, ClaimSteps PROVE RecoverInv'
<1> USE DEF record, handler, chain, claims, GoTo, Finish
<1>0. store \in Swap /\ mem \in Swap BY DEF TypeOK
<1>1. CASE DoClaim
  <2>1. SameClaim(mem', mem) BY <1>0, <1>1, SameClaims DEF DoClaim, Status
  <2>2. Undisturbed' => Undisturbed /\ store' = mem'
    BY <1>1, WritesTakeEffect DEF DoClaim
  <2>3. Undisturbed /\ CanWin => Names(mem) BY <1>1 DEF DoClaim, RecoverInv
  <2>4. Undisturbed' /\ CanWin => Names(store')
    BY <2>1, <2>2, <2>3, SameClaimNames
  <2> QED BY <1>1, <2>1, <2>2, <2>4, KeepsNames DEF DoClaim
<1>2. CASE VerifyLockup \/ EnsureTimeoutMargin \/ TryClaimFails \/ RecheckAfterFailure
  <2>1. /\ UNCHANGED <<store, txs, calls, lock, faults, crashes>>
        /\ pc' = "idle" \/ (pc' \in {"margin", "attempt", "recheck"} /\ mem' = mem)
        /\ pc \in {"lockup", "margin", "attempt", "recheck"}
    BY <1>2 DEF VerifyLockup, EnsureTimeoutMargin, TryClaimFails, RecheckAfterFailure
  <2> QED BY <2>1, KeepsNames DEF Undisturbed, SameClaim
<1>3. CASE QuoteDegraded
  <2>1. Undisturbed' => Undisturbed /\ store' = [mem EXCEPT !.status = "TbtcLocked"]
    BY <1>3, WritesTakeEffect DEF QuoteDegraded
  <2>2. Undisturbed /\ CanWin => Names(mem) BY <1>3 DEF QuoteDegraded, RecoverInv
  <2>3. Undisturbed' /\ CanWin => Names(store') BY <1>0, <2>1, <2>2 DEF Names, Swap
  <2> QED BY <1>3, <2>1, <2>3, KeepsNames DEF QuoteDegraded
<1>4. CASE SubmitClaim
  <2>1. /\ UNCHANGED <<store, mem, faults, crashes>> /\ calls' # 0
        /\ pc' \in {"persistCall", "recheck"} /\ (pc' = "persistCall" \/ LostResponses)
    BY <1>4, BoundsAssumption DEF SubmitClaim, TypeOK, Submit
  <2>2. txs'[OtherTx] = txs[OtherTx]
    BY <1>4, BoundsAssumption DEF SubmitClaim, TypeOK, OtherTx, Tx, Submit
  <2> QED BY <2>1, <2>2 DEF RecoverInv, Undisturbed
<1>5. CASE PersistPendingCallId
  <2>1. Undisturbed' => Undisturbed /\ Names(store')
    BY <1>0, <1>5, WritesTakeEffect DEF PersistPendingCallId, Names, Swap
  <2> QED BY <1>5, <2>1 DEF PersistPendingCallId, RecoverInv, Names, CanWin, Undisturbed
<1>6. CASE PollCallStatus
  <2>1. CASE Persist([mem EXCEPT !.hash = calls])
    <3>1. Undisturbed' => Undisturbed /\ Names(store')
      BY <1>0, <1>6, <2>1, WritesTakeEffect DEF PollCallStatus, Names, Swap
    <3> QED BY <1>6, <3>1, KeepsNames DEF PollCallStatus
  <2>2. CASE UNCHANGED <<store, faults>>
    BY <1>6, <2>2, KeepsNames DEF PollCallStatus, SameClaim, Undisturbed
  <2> QED BY <1>6, <2>1, <2>2 DEF PollCallStatus
<1> QED BY <1>1, <1>2, <1>3, <1>4, <1>5, <1>6 DEF ClaimSteps

(* What a recovery leaves the records with: a hash that reverted is not    *)
(* the claim's, and a call_id goes with the hash it led to.                *)
LEMMA RecoverRecovery ==
  ASSUME TypeOK, ChainInv, ControlInv, RecoverInv, RecoverySteps PROVE RecoverInv'
<1> USE DEF record, handler, chain, claims, GoTo, Finish
<1>0. store \in Swap /\ mem \in Swap /\ job \in Handlers BY DEF TypeOK
<1>m. Undisturbed /\ CanWin /\ pc \notin {"idle", "persistCall", "poll"} => Names(mem)
  BY DEF RecoverInv
<1>1. CASE TerminalLockCheck \/ ClassifiedRefunded
  <2>1. /\ UNCHANGED <<store, txs, calls, lock, faults, crashes>>
        /\ pc \in {"termCheck", "classify"}
        /\ pc' = "idle" \/ (pc' \in {"finalize", "classify"} /\ mem' = mem)
    BY <1>1 DEF TerminalLockCheck, ClassifiedRefunded
  <2> QED BY <2>1, KeepsNames DEF Undisturbed, SameClaim
<1>2. CASE SettledLockCheck
  <2>1. /\ pc' \in {"idle", "chainCheck"} /\ (pc' = "chainCheck" => mem' = mem)
        /\ pc = "settledCheck" /\ UNCHANGED <<txs, calls, lock, crashes>>
    BY <1>2 DEF SettledLockCheck
  <2>2. CASE Persist([mem EXCEPT !.status = PostClaimStatus])
    <3>1. Undisturbed' => Undisturbed /\ store' = [mem EXCEPT !.status = PostClaimStatus]
      BY <2>1, <2>2, WritesTakeEffect
    <3>2. Undisturbed' /\ CanWin => Names(store')
      BY <1>0, <1>m, <2>1, <3>1 DEF Names, Swap
    <3> QED BY <2>1, <3>1, <3>2, KeepsNames DEF SameClaim
  <2>3. CASE UNCHANGED <<store, faults>>
    BY <2>1, <2>3, KeepsNames DEF SameClaim, Undisturbed
  <2> QED BY <1>2, <2>2, <2>3 DEF SettledLockCheck
<1>3. CASE ApplySuccessfulReceipt
  <2>1. /\ pc' = "idle" /\ pc \in ReceiptPoints /\ UNCHANGED <<txs, calls, lock, crashes>>
        /\ mem.hash \in Tx \cup {None}
    BY <1>3 DEF ApplySuccessfulReceipt, ReceiptPoints, TypeOK, Swap
  <2>2. CASE UNCHANGED <<store, faults>>
    BY <2>1, <2>2, KeepsNames DEF SameClaim, Undisturbed, ReceiptPoints
  <2>3. CASE Persist([WithEvidence(store, mem.hash) EXCEPT !.status = PostClaimStatus])
    <3> DEFINE s == [WithEvidence(store, mem.hash) EXCEPT !.status = PostClaimStatus]
    <3>1. SameClaim(s, store) BY <1>0, <2>1, SameClaims
    <3> HIDE DEF s
    <3>2. Undisturbed' => Undisturbed /\ store' = s BY <2>1, <2>3, WritesTakeEffect DEF s
    <3> QED BY <2>1, <3>1, <3>2, KeepsNames DEF ReceiptPoints
  <2> QED BY <1>3, <2>2, <2>3 DEF ApplySuccessfulReceipt
<1>4. CASE NoReceipt \/ TickTimeoutGate \/ TickLockCheck \/ ClassifiedUnknown
  <2>1. /\ UNCHANGED <<store, txs, calls, lock, faults, crashes>>
        /\ pc \in {"receipt", "adoptReceipt", "tickReceipt", "tickGate", "tickLock", "classify"}
        /\ pc' = "idle" \/ (pc' \in {"tickGate", "tickLock", "classify"} /\ mem' = mem)
    BY <1>4 DEF NoReceipt, TickTimeoutGate, TickLockCheck, ClassifiedUnknown
  <2> QED BY <2>1, KeepsNames DEF Undisturbed, SameClaim
<1>5. CASE ReceiptReverted
  <2>1. /\ UNCHANGED <<store, txs, calls, lock, faults, crashes>> /\ mem' = store
        /\ pc = "receipt" /\ pc' = "reverted" /\ txs[mem.hash] = "reverted"
    BY <1>5 DEF ReceiptReverted, ReclaimPoints
  <2>2. mem.hash \in Tx BY <2>1 DEF ControlInv, ReceiptPoints, TypeOK, Swap
  <2> QED BY <2>1, <2>2 DEF RecoverInv, CanWin, Undisturbed, Names
<1>6. CASE RecoverFromRevertedReceipt
  <2>1. /\ UNCHANGED <<store, txs, calls, lock, faults, crashes>> /\ pc = "reverted"
        /\ \/ pc' = "claim" /\ mem' = [mem EXCEPT !.hash = None]
           \/ pc' = "classify" /\ mem' = mem
           \/ pc' = "idle"
    BY <1>6 DEF RecoverFromRevertedReceipt
  <2>2. Undisturbed /\ CanWin => calls # mem.hash BY <2>1 DEF RecoverInv, CanWin
  <2>3. Undisturbed /\ CanWin /\ pc' = "claim" => Names(mem')
    BY <1>0, <1>m, <2>1, <2>2 DEF Names, Swap
  <2> QED BY <2>1, <2>3, KeepsNames DEF Undisturbed, SameClaim
<1>7. CASE ClassifiedClaimed
  <2>1. /\ pc = "classify" /\ pc' = "adoptReceipt" /\ UNCHANGED <<txs, calls, lock, crashes>>
        /\ mem' = [store EXCEPT !.hash = winner, !.call = None] /\ Persist(mem')
        /\ lock = "claimed"
    BY <1>7 DEF ClassifiedClaimed, Reads, ChainInv
  <2>2. CanWin => calls = winner
    <3>1. calls > 0 => calls \in Tx BY CallsTypes DEF None
    <3> QED BY <2>1, <3>1 DEF CanWin, ChainInv
  <2>3. CanWin => Names(mem') BY <1>0, <2>1, <2>2 DEF Names, Swap
  <2>4. Undisturbed' => Undisturbed /\ store' = mem' BY <2>1, WritesTakeEffect
  <2> QED BY <2>1, <2>3, <2>4, KeepsNames
<1>8. CASE FinalizeSwap
  <2>1. /\ pc = "finalize" /\ pc' = "idle" /\ UNCHANGED <<txs, calls, lock, crashes>>
        /\ Persist(Finalized(mem, job)) \/ Persist(Failed(mem, "refund"))
    BY <1>8 DEF FinalizeSwap
  <2>2. Undisturbed' => Undisturbed /\ SameClaim(store', mem)
    BY <1>0, <2>1, WritesTakeEffect, SameClaims
  <2>3. Undisturbed' /\ CanWin => Names(store') BY <1>m, <2>1, <2>2, SameClaimNames
  <2> QED BY <2>1, <2>2, <2>3, KeepsNames
<1>9. CASE ResumePendingCall
  <2>1. CASE pc' = "chainCheck"
    <3>1. /\ UNCHANGED <<store, mem, txs, calls, lock, faults, crashes>> /\ pc = "resume"
      BY <1>9, <2>1 DEF ResumePendingCall
    <3> QED BY <2>1, <3>1, KeepsNames DEF Undisturbed, SameClaim
  <2>2. CASE pc' = "receipt"
    <3>1. /\ pc = "resume" /\ UNCHANGED <<txs, calls, lock, crashes>>
          /\ mem' = [store EXCEPT !.hash = mem.call, !.call = None] /\ Persist(mem')
      BY <1>9, <2>2 DEF ResumePendingCall
    <3>2. Undisturbed' => Undisturbed /\ store' = mem' BY <3>1, WritesTakeEffect
    <3>3. Undisturbed /\ CanWin => calls = mem.call
      BY <3>1, <1>m DEF RecoverInv, CanWin, Names, None
    <3>4. mem'.hash = mem.call BY <1>0, <3>1 DEF Swap
    <3>5. Undisturbed /\ CanWin => Names(mem)' BY <3>1, <3>3, <3>4 DEF Names
    <3>6. (CanWin' <=> CanWin) /\ txs'[OtherTx] = txs[OtherTx] BY <3>1 DEF CanWin
    <3>7. Undisturbed' /\ CanWin' => Names(store)' /\ Names(mem)'
      BY <3>2, <3>5, <3>6 DEF Names
    <3> QED BY <2>2, <3>2, <3>6, <3>7 DEF RecoverInv
  <2> QED BY <1>9, <2>1, <2>2 DEF ResumePendingCall
<1>10. CASE CheckOnChainAndRetry
  <2>1. /\ pc = "chainCheck" /\ UNCHANGED <<txs, calls, lock, crashes>>
        /\ \/ /\ mem' = [mem EXCEPT !.status = "TbtcLocked"] /\ Persist(mem')
              /\ pc' = "claim"
           \/ pc' = "classify" /\ UNCHANGED <<store, mem, faults>>
           \/ pc' = "idle" /\ UNCHANGED <<store, faults>>
    BY <1>10 DEF CheckOnChainAndRetry
  <2>2. CASE pc' = "claim"
    <3>1. SameClaim(mem', mem) BY <1>0, <2>1, <2>2, SameClaims DEF Status
    <3>2. Undisturbed' => Undisturbed /\ store' = mem' BY <2>1, <2>2, WritesTakeEffect
    <3>3. Undisturbed' /\ CanWin => Names(store')
      BY <1>m, <2>1, <3>1, <3>2, SameClaimNames
    <3> QED BY <2>1, <2>2, <3>1, <3>2, <3>3, KeepsNames
  <2>3. CASE pc' # "claim"
    BY <2>1, <2>3, KeepsNames DEF Undisturbed, SameClaim
  <2> QED BY <2>2, <2>3
<1> QED BY <1>1, <1>2, <1>3, <1>4, <1>5, <1>6, <1>7, <1>8, <1>9, <1>10 DEF RecoverySteps

LEMMA RecoverStarts == ASSUME TypeOK, RecoverInv, Starts PROVE RecoverInv'
<1> USE DEF record, handler, chain, claims, GoTo, Finish
<1>1. CASE TickClaiming \/ AcceptDegradedQuote
  <2>1. /\ UNCHANGED <<store, txs, calls, lock, faults, crashes>> /\ mem' = store
        /\ pc = "idle" /\ pc' \in {"tickReceipt", "claim"}
    BY <1>1 DEF TickClaiming, AcceptDegradedQuote
  <2> QED BY <2>1, KeepsNames DEF Undisturbed, SameClaim
<1>2. CASE ConfirmDelivery
  <2>1. store \in Swap BY DEF TypeOK
  <2>2. Undisturbed' => Undisturbed /\ store' = [store EXCEPT !.status = "Completed"]
    BY <1>2, WritesTakeEffect DEF ConfirmDelivery
  <2>3. Undisturbed' => SameClaim(store', store) BY <2>1, <2>2 DEF SameClaim, Swap
  <2> QED BY <1>2, <2>2, <2>3, KeepsNames DEF ConfirmDelivery
<1>3. CASE StartTracking
  BY <1>3 DEF StartTracking, RecoverInv, CanWin, Undisturbed, Names
<1>4. CASE Crash
  <2>1. ~Undisturbed' BY <1>4 DEF Crash, Undisturbed, TypeOK
  <2> QED BY <1>4, <2>1 DEF Crash, RecoverInv
<1> QED BY <1>1, <1>2, <1>3, <1>4 DEF Starts

(* The chain never makes a claim possible again that was not.              *)
LEMMA RecoverEnvironment ==
  ASSUME TypeOK, ChainInv, RecoverInv, Environment PROVE RecoverInv'
<1> USE DEF record, handler, chain, claims, SetLock
<1>1. UNCHANGED <<store, mem, pc, calls, faults, crashes>>
  BY DEF Environment, BoltzLocks, BoltzGivesUp, BoltzRefunds, ClaimMines, OtherInstanceClaims,
    Claims, ClaimReverts, BridgeStep, BlockMined, RpcCatchesUp
<1>2. OtherTx \notin Submit /\ OtherTx \in Tx BY BoundsAssumption DEF OtherTx, Submit, Tx
<1>3. /\ \A t \in Tx : txs[t] = "reverted" => txs'[t] = "reverted" \/ t = OtherTx
      /\ txs'[OtherTx] # "reverted"
      /\ CanWin' => CanWin
  <2>1. CASE UNCHANGED txs
    <3>1. lock' = "locked" => lock \in {"none", "locked"}
      BY <2>1 DEF Environment, BoltzLocks, BoltzGivesUp, BoltzRefunds, ClaimMines,
        OtherInstanceClaims, Claims, ClaimReverts, BridgeStep, BlockMined, RpcCatchesUp
    <3>2. calls > 0 => calls \in Submit BY CallsTypes DEF None
    <3>3. CanWin' => CanWin
      BY <1>1, <2>1, <3>1, <3>2 DEF CanWin, ChainInv, OnceLocked
    <3> QED BY <2>1, <3>3 DEF RecoverInv
  <2>2. ASSUME NEW t \in Tx, Claims(t), t = OtherTx \/ txs[t] = "pending" PROVE <1>3
    <3>1. calls > 0 => calls \in Submit BY CallsTypes DEF None
    <3> QED BY <1>1, <1>2, <2>2, <3>1 DEF Claims, TypeOK, CanWin, RecoverInv
  <2>3. ASSUME NEW t \in Submit, ClaimReverts(t) PROVE <1>3
    <3>1. calls > 0 => calls \in Tx BY CallsTypes DEF None, Tx
    <3> QED BY <1>1, <1>2, <2>3, <3>1 DEF ClaimReverts, TypeOK, CanWin, RecoverInv, Tx
  <2> QED BY <2>1, <2>2, <2>3 DEF Environment, BoltzLocks, BoltzGivesUp, BoltzRefunds,
        ClaimMines, OtherInstanceClaims, BridgeStep, BlockMined, RpcCatchesUp, Tx
<1> QED BY <1>1, <1>3 DEF RecoverInv, Undisturbed, Names

(* The store names the last claim broadcast for as long as it can win or   *)
(* has won, whichever handler ran since and whatever it wrote back, until  *)
(* a crash, a failed write or a lost answer.                               *)
THEOREM BroadcastIsNotForgotten == Spec => []BroadcastIsRecoverable
<1>1. TypeOK /\ ChainInv /\ ControlInv /\ RecoverInv /\ [Next]_vars => RecoverInv'
  <2> SUFFICES ASSUME TypeOK, ChainInv, ControlInv, RecoverInv, [Next]_vars PROVE RecoverInv'
    OBVIOUS
  <2>1. CASE Next
    BY <2>1, RecoverWs, RecoverClaim, RecoverRecovery, RecoverStarts, RecoverEnvironment DEF Next
  <2>2. CASE UNCHANGED vars
    BY <2>2 DEF vars, record, handler, chain, claims, RecoverInv, CanWin, Undisturbed, Names
  <2> QED BY <2>1, <2>2
<1>2. RecoverInv => BroadcastIsRecoverable
  BY DEF RecoverInv, BroadcastIsRecoverable, CanWin, Undisturbed, Names
<1> QED BY <1>1, <1>2, RecoverInit, TypeCorrect, ChainConsistent, ControlConsistent, PTL
        DEF Spec

-----------------------------------------------------------------------------
(* Why a terminal event that is looked into may be believed, which an      *)
(* honest Boltz vouches for and time does not take back.                   *)
CauseInv ==
  /\ lock = "refunded" => Due
  /\ job \in {"expired", "failed"} => lock = "never" \/ Due

LEMMA CauseInit == Init => CauseInv
  BY DEF Init, CauseInv

LEMMA HandlersLeaveChain ==
  ASSUME WsHandlers \/ ClaimSteps \/ RecoverySteps \/ Starts
  PROVE  UNCHANGED <<kind, lock, height, bridge>>
  BY DEF record, chain, WsHandlers, WsPastClaim, WsInvoicePaid, WsMempool, WsConfirmed,
    WsSettled, HandleClaimingResume, HandleTerminalWsEvent, ClaimSteps, DoClaim, VerifyLockup,
    EnsureTimeoutMargin, TryClaimFails, QuoteDegraded, SubmitClaim, PersistPendingCallId,
    PollCallStatus, RecheckAfterFailure, RecoverySteps, TerminalLockCheck, FinalizeSwap,
    SettledLockCheck, ApplySuccessfulReceipt, NoReceipt, ReceiptReverted,
    RecoverFromRevertedReceipt, ClassifiedClaimed, ClassifiedRefunded, ClassifiedUnknown,
    ResumePendingCall, CheckOnChainAndRetry, TickTimeoutGate, TickLockCheck, Starts, TickClaiming,
    ConfirmDelivery, AcceptDegradedQuote, StartTracking, Crash

LEMMA CauseHandlers ==
  ASSUME HonestBoltz, CauseInv, WsHandlers \/ ClaimSteps \/ RecoverySteps \/ Starts
  PROVE  CauseInv'
<1>1. UNCHANGED <<lock, height>>
  BY HandlersLeaveChain
<1>2. CASE \E event \in {"expired", "failed"} : HandleTerminalWsEvent(event)
  <2>1. PICK event \in {"expired", "failed"} : HandleTerminalWsEvent(event)
    BY <1>2
  <2>2. lock = "never" \/ Due
    BY <2>1, HonestBoltz DEF HandleTerminalWsEvent, Receive, Deliverable, CauseInv, Due
  <2> QED BY <1>1, <2>2 DEF CauseInv, Due
<1>3. CASE job' = job \/ job' \notin {"expired", "failed"}
  BY <1>1, <1>3 DEF CauseInv, Due
<1>4. CASE WsHandlers
  BY <1>2, <1>3, <1>4 DEF handler, GoTo, Resume, WsHandlers, WsPastClaim, WsInvoicePaid, WsMempool,
    WsConfirmed, WsSettled, HandleClaimingResume
<1>5. CASE ClaimSteps \/ Starts
  BY <1>3, <1>5 DEF handler, GoTo, Finish, ClaimSteps, DoClaim, VerifyLockup,
    EnsureTimeoutMargin, TryClaimFails, QuoteDegraded, SubmitClaim, PersistPendingCallId,
    PollCallStatus, RecheckAfterFailure, Starts, TickClaiming, ConfirmDelivery,
    AcceptDegradedQuote, StartTracking, Crash
<1>6. CASE RecoverySteps
  BY <1>3, <1>6 DEF GoTo, Finish, RecoverySteps, TerminalLockCheck, FinalizeSwap, SettledLockCheck,
    ApplySuccessfulReceipt, NoReceipt, ReceiptReverted, RecoverFromRevertedReceipt,
    ClassifiedClaimed, ClassifiedRefunded, ClassifiedUnknown,
    ResumePendingCall, CheckOnChainAndRetry, TickTimeoutGate, TickLockCheck
<1> QED BY <1>4, <1>5, <1>6

LEMMA CauseEnvironment == ASSUME TypeOK, CauseInv, Environment PROVE CauseInv'
<1>1. UNCHANGED job /\ (Due => Due')
  BY BoundsAssumption DEF TypeOK, Due, Environment, BoltzLocks, BoltzGivesUp, BoltzRefunds,
    ClaimMines, OtherInstanceClaims, Claims, ClaimReverts, BridgeStep, BlockMined,
    RpcCatchesUp, handler, chain
<1>2. lock' = lock \/ (lock \in {"none", "locked"} /\ (lock' = "refunded" => Due))
  BY DEF Due, SetLock, Environment, BoltzLocks, BoltzGivesUp, BoltzRefunds, ClaimMines,
    OtherInstanceClaims, Claims, ClaimReverts, BridgeStep, BlockMined, RpcCatchesUp, chain
<1> QED BY <1>1, <1>2 DEF CauseInv

(* A handler that runs works on a swap that is not past its claim.         *)
LEMMA RunsBeforeClaim ==
  ASSUME ControlInv, ClaimSteps \/ RecoverySteps
  PROVE  ~PastClaim(store.status) /\ ~PastClaim(mem.status)
<1>1. pc # "idle"
  BY DEF ClaimSteps, RecoverySteps, DoClaim, VerifyLockup, EnsureTimeoutMargin,
    TryClaimFails, QuoteDegraded, SubmitClaim, PersistPendingCallId, PollCallStatus,
    RecheckAfterFailure, TerminalLockCheck, FinalizeSwap, SettledLockCheck, ApplySuccessfulReceipt,
    NoReceipt, ReceiptReverted, ReclaimPoints, RecoverFromRevertedReceipt,
    ClassifiedClaimed, ClassifiedRefunded, ClassifiedUnknown,
    ResumePendingCall, CheckOnChainAndRetry, TickTimeoutGate, TickLockCheck
<1> QED BY <1>1 DEF ControlInv

(* Who may write a failure or Settling: a handler of a swap that is not    *)
(* past its claim, for a cause; and only a bridged swap settles.           *)
Excused(new) ==
  /\ new.status \in {"Failed", "Expired"} =>
       ~PastClaim(store.status) /\ (new.reason = "refund" \/ lock = "never" \/ Due)
  /\ new.status = "Settling" => store.status = "Settling" \/ kind # "Direct"

LEMMA OpenIsExcused ==
  ASSUME NEW new, ~PastClaim(new.status) PROVE Excused(new)
  BY DEF Excused, PastClaim, IsTerminal, Terminal

LEMMA WritesOfStarts ==
  ASSUME TypeOK, HonestBoltz, CauseInv, WsHandlers \/ Starts, store' # store
  PROVE  Excused(store')
<1> USE DEF record
<1>1. CASE WsInvoicePaid \/ WsMempool \/ WsConfirmed
  <2>1. ~PastClaim(store'.status)
    <3>1. \/ store'.status \in {"InvoicePaid", "TbtcLocked"}
          \/ store'.status = store.status /\ ~PastClaim(store.status)
      BY <1>1 DEF WsInvoicePaid, WsMempool, WsConfirmed, Persist, TypeOK, Swap
    <3> QED BY <3>1 DEF PastClaim, IsTerminal, Terminal
  <2> QED BY <2>1, OpenIsExcused
<1>2. CASE \E event \in {"expired", "failed"} : HandleTerminalWsEvent(event)
  <2>1. PICK event \in {"expired", "failed"} : HandleTerminalWsEvent(event)
    BY <1>2
  <2>2. ~PastClaim(store.status) /\ store' = Finalized(store, event)
    BY <2>1 DEF HandleTerminalWsEvent, Persist
  <2>3. lock = "never" \/ Due
    BY <2>1, HonestBoltz DEF HandleTerminalWsEvent, Receive, Deliverable, CauseInv, Due
  <2>4. store'.status \in {"Failed", "Expired"}
    BY <2>2, FinalizedStatus DEF TypeOK
  <2> QED BY <2>2, <2>3, <2>4 DEF Excused
<1>3. CASE ConfirmDelivery
  <2>1. store'.status = "Completed"
    BY <1>3 DEF ConfirmDelivery, Persist, TypeOK, Swap
  <2> QED BY <2>1 DEF Excused
<1> QED BY <1>1, <1>2, <1>3 DEF WsHandlers, Starts, WsPastClaim, WsSettled,
      HandleClaimingResume, TickClaiming, AcceptDegradedQuote, StartTracking, Crash

LEMMA WritesOfHandlers ==
  ASSUME TypeOK, ControlInv, CauseInv, ClaimSteps \/ RecoverySteps, store' # store
  PROVE  Excused(store')
<1> USE DEF record
<1>1. ~PastClaim(store.status) /\ ~PastClaim(mem.status)
  BY RunsBeforeClaim
<1>2. CASE DoClaim \/ QuoteDegraded \/ PersistPendingCallId \/ PollCallStatus
           \/ ClassifiedClaimed \/ ResumePendingCall \/ CheckOnChainAndRetry
  <2>1. store'.status \in {store.status, mem.status, "Claiming", "TbtcLocked"}
    BY <1>2 DEF DoClaim, QuoteDegraded, PersistPendingCallId, PollCallStatus,
      ClassifiedClaimed, ResumePendingCall, CheckOnChainAndRetry, Persist, TypeOK, Swap
  <2>2. ~PastClaim(store'.status)
    BY <1>1, <2>1 DEF PastClaim, IsTerminal, Terminal
  <2> QED BY <2>2, OpenIsExcused
<1>3. CASE FinalizeSwap
  <2>1. /\ store' \in {Finalized(mem, job), Failed(mem, "refund")}
        /\ store' = Failed(mem, "refund") \/ job \in {"expired", "failed"}
    BY <1>3 DEF FinalizeSwap, Persist
  <2>2. store'.status \in {"Failed", "Expired"}
    BY <2>1, FinalizedStatus DEF TypeOK
  <2>3. Failed(mem, "refund").reason = "refund"
    BY DEF Failed, TypeOK, Swap
  <2> QED BY <1>1, <2>1, <2>2, <2>3 DEF Excused, CauseInv
<1>4. CASE SettledLockCheck \/ ApplySuccessfulReceipt
  <2>1. WithEvidence(store, mem.hash) \in Swap
    BY HelperTypes DEF TypeOK, Swap
  <2>2. store'.status = PostClaimStatus
    BY <1>4, <2>1 DEF SettledLockCheck, ApplySuccessfulReceipt, Persist, TypeOK, Swap
  <2> QED BY <2>2 DEF Excused, PostClaimStatus
<1> QED BY <1>2, <1>3, <1>4 DEF ClaimSteps, RecoverySteps, VerifyLockup,
      EnsureTimeoutMargin, TryClaimFails, SubmitClaim, RecheckAfterFailure, NoReceipt,
      ReceiptReverted, RecoverFromRevertedReceipt, ClassifiedUnknown, TickTimeoutGate,
      TickLockCheck, TerminalLockCheck, ClassifiedRefunded

(* The steps of the promise.                                               *)
LEMMA PromiseOfHandlers ==
  ASSUME SponsorFinal, HonestBoltz, TypeOK, ChainInv, ControlInv, RecordInv, CauseInv,
         TypeOK', ChainInv', RecordInv', WsHandlers \/ ClaimSteps \/ RecoverySteps \/ Starts
  PROVE  Promise!Next \/ UNCHANGED Promise!vars
<1> USE DEF Promise!Next, Promise!vars
<1>1. UNCHANGED <<kind, lock, Due, Arrived>>
  BY HandlersLeaveChain DEF Due, Arrived
<1>2. CASE SubmitClaim
  <2>1. UNCHANGED <<store, Stage>>
    BY <1>2 DEF SubmitClaim, record, Stage
  <2>2. calls' \in Submit /\ txs'[calls'] # "unused"
    BY <1>2, BoundsAssumption DEF SubmitClaim, TypeOK, Submit, Tx
  <2>3. Revealed' /\ lock \notin {"none", "never"}
    BY <1>1, <2>2 DEF Revealed, ChainInv, OnceLocked
  <2> QED BY <1>1, <2>1, <2>3 DEF Promise!Reveal, Promise!OnceLocked
<1>3. ASSUME ~SubmitClaim PROVE UNCHANGED Revealed
  <2>1. UNCHANGED txs
    BY <1>3 DEF claims, WsHandlers, WsPastClaim, WsInvoicePaid, WsMempool, WsConfirmed,
      WsSettled, HandleClaimingResume, HandleTerminalWsEvent, ClaimSteps, DoClaim,
      VerifyLockup, EnsureTimeoutMargin, TryClaimFails, QuoteDegraded, PersistPendingCallId,
      PollCallStatus, RecheckAfterFailure, RecoverySteps, TerminalLockCheck, FinalizeSwap,
      SettledLockCheck, ApplySuccessfulReceipt, NoReceipt, ReceiptReverted,
      RecoverFromRevertedReceipt, ClassifiedClaimed, ClassifiedRefunded, ClassifiedUnknown,
      ResumePendingCall, CheckOnChainAndRetry, TickTimeoutGate, TickLockCheck, Starts,
      TickClaiming, ConfirmDelivery, AcceptDegradedQuote, StartTracking, Crash
  <2> QED BY <1>1, <2>1 DEF Revealed
<1>4. CASE ~SubmitClaim /\ Stage' = Stage
  BY <1>1, <1>3, <1>4
<1>5. CASE ~SubmitClaim /\ Stage' # Stage
  <2>1. store' # store
    BY <1>5 DEF Stage
  <2>2. Excused(store') /\ Forward(store.status, store'.status)
    BY <2>1, WritesOfStarts, WritesOfHandlers, StatusOfStarts, StatusOfHandlers
  <2>3. UNCHANGED <<lock, Due, Revealed, Arrived, kind>>
    BY <1>1, <1>3, <1>5
  <2>4. store.status \in Status /\ store'.status \in Status
    BY DEF TypeOK, Swap
  <2>5. Sound(store)'
    BY DEF RecordInv
  <2>6. CASE store'.status = "Settling"
    <3>1. Stage = "open" /\ Stage' = "settling"
      BY <1>5, <2>2, <2>4, <2>6, Ranks DEF Forward, Stage, IsTerminal, Status, Terminal
    <3>2. kind # "Direct" /\ lock = "claimed"
      BY <1>5, <2>2, <2>3, <2>5, <2>6, HonestBoltz, SponsorFinal DEF Excused, Sound, Stage
    <3> QED BY <2>3, <3>1, <3>2 DEF Promise!Settle, Promise!Report
  <2>7. CASE store'.status = "Completed"
    <3>1. Stage \in {"open", "settling"} /\ Stage' = "completed"
      BY <1>5, <2>2, <2>4, <2>7, Ranks DEF Forward, Stage, IsTerminal, Status, Terminal
    <3>2. Arrived
      BY <2>3, <2>5, <2>7, HonestBoltz, HandlersLeaveChain DEF Sound, Arrived
    <3> QED BY <2>3, <3>1, <3>2 DEF Promise!Complete, Promise!Report
  <2>8. CASE store'.status \in {"Failed", "Expired"}
    <3>1. Stage = "open" /\ (store'.reason = "refund" \/ lock = "never" \/ Due)
      BY <2>2, <2>4, <2>8 DEF Excused, PastClaim, IsTerminal, Stage, Status, Terminal
    <3>2. CASE store'.reason = "refund"
      <4>1. Stage' = "refunded" /\ lock = "refunded"
        BY <2>3, <2>5, <2>8, <3>2 DEF Stage, Sound
      <4> QED BY <2>3, <3>1, <4>1 DEF Promise!ReportRefund, Promise!Report
    <3>3. CASE store'.reason # "refund"
      <4>1. Stage' = "failed"
        BY <2>8, <3>3 DEF Stage
      <4> QED BY <2>3, <3>1, <3>3, <4>1 DEF Promise!GiveUp, Promise!Report
    <3> QED BY <3>2, <3>3
  <2>9. store'.status \in {"Settling", "Completed", "Failed", "Expired"}
    BY <1>5, <2>2, <2>4, Ranks DEF Forward, Stage, IsTerminal, Status, Terminal
  <2> QED BY <2>6, <2>7, <2>8, <2>9
<1> QED BY <1>2, <1>4, <1>5

LEMMA PromiseOfEnvironment ==
  ASSUME TypeOK, ChainInv, Environment
  PROVE  Promise!Next \/ UNCHANGED Promise!vars
<1> USE DEF Promise!Next, Promise!vars
<1>1. UNCHANGED <<store, kind, Stage>>
  BY StatusOfEnvironment DEF Stage, Environment, BoltzLocks, BoltzGivesUp, BoltzRefunds,
    ClaimMines, OtherInstanceClaims, Claims, ClaimReverts, BridgeStep, BlockMined,
    RpcCatchesUp, record
<1>2. CASE BoltzLocks \/ BoltzGivesUp
  <2>1. UNCHANGED <<Due, Revealed, Arrived>>
    BY <1>1, <1>2 DEF BoltzLocks, BoltzGivesUp, SetLock, claims, Due, Revealed, Arrived
  <2>2. height \in Nat /\ Timeout \in Nat
    BY BoundsAssumption DEF TypeOK
  <2>3. lock = "none" /\ (lock' = "never" \/ (height < Timeout /\ lock' = "locked"))
    BY <1>2 DEF BoltzLocks, BoltzGivesUp, SetLock
  <2>4. height < Timeout => ~Due
    BY <2>2 DEF Due
  <2> QED BY <1>1, <2>1, <2>3, <2>4 DEF Promise!Lock
<1>3. CASE BoltzRefunds
  <2>1. UNCHANGED <<Due, Revealed, Arrived>>
    BY <1>1, <1>3 DEF BoltzRefunds, SetLock, claims, Due, Revealed, Arrived
  <2> QED BY <1>1, <1>3, <2>1 DEF BoltzRefunds, SetLock, Due, Promise!Refund
<1>4. ASSUME NEW t \in Tx, Claims(t) PROVE Promise!Claim
  <2>1. UNCHANGED Due /\ Revealed' /\ lock = "locked" /\ lock' = "claimed"
    BY <1>4 DEF Claims, SetLock, Due, Revealed
  <2>2. Arrived' = ~(kind # "Direct")
    BY <1>1, <1>4, <2>1 DEF Claims, Arrived
  <2> QED BY <1>1, <2>1, <2>2 DEF Promise!Claim
<1>5. CASE \E t \in Submit : ClaimReverts(t)
  <2>1. PICK t \in Submit : ClaimReverts(t)
    BY <1>5
  <2>2. \A u \in Submit : txs'[u] # "unused" <=> txs[u] # "unused"
    BY <2>1 DEF ClaimReverts, TypeOK, Tx
  <2>3. UNCHANGED <<lock, Due, Revealed, Arrived>>
    BY <1>1, <2>1, <2>2 DEF ClaimReverts, chain, Due, Revealed, Arrived
  <2> QED BY <1>1, <2>3
<1>6. CASE BridgeStep
  <2>1. UNCHANGED <<lock, Due, Revealed>> /\ lock = "claimed"
    BY <1>6 DEF BridgeStep, ChainInv, claims, Due, Revealed
  <2>2. Arrived' = Arrived \/ Arrived'
    BY <1>1, <1>6, <2>1 DEF BridgeStep, Arrived
  <2>3. CASE UNCHANGED Arrived
    BY <1>1, <2>1, <2>3
  <2>4. CASE Arrived'
    BY <1>1, <2>1, <2>4 DEF Promise!Arrive
  <2> QED BY <2>2, <2>3, <2>4
<1>7. CASE BlockMined
  <2>1. UNCHANGED <<lock, Revealed, Arrived>> /\ (Due => Due')
    BY <1>1, <1>7, BoundsAssumption DEF BlockMined, claims, Due, Revealed, Arrived, TypeOK
  <2>2. CASE ~Due /\ Due'
    BY <1>1, <2>1, <2>2 DEF Promise!Expire
  <2>3. CASE Due' = Due
    BY <1>1, <2>1, <2>3
  <2> QED BY <2>1, <2>2, <2>3 DEF Due
<1>8. CASE RpcCatchesUp
  BY <1>1, <1>8 DEF RpcCatchesUp, claims, Due, Revealed, Arrived
<1> QED BY <1>2, <1>3, <1>4, <1>5, <1>6, <1>7, <1>8
        DEF Environment, ClaimMines, OtherInstanceClaims, Tx

(* With an honest Boltz and a final sponsor, every run of the manager and  *)
(* its environment, crashes and failed writes included, is one the user    *)
(* was promised.                                                           *)
THEOREM PromiseIsKept ==
  ASSUME HonestBoltz, SponsorFinal PROVE Spec => ImplementsReverseSwap
<1>1. Init => Promise!Init
  BY DEF Init, NewSwap, Tx, Promise!Init, Stage, Due, Revealed, Arrived
<1>2. TypeOK /\ CauseInv /\ [Next]_vars => CauseInv'
  <2>1. UNCHANGED vars /\ CauseInv => CauseInv'
    BY DEF vars, handler, chain, CauseInv, Due
  <2> QED BY <2>1, CauseHandlers, CauseEnvironment, HonestBoltz DEF Next
<1>3. /\ TypeOK /\ ChainInv /\ ControlInv /\ RecordInv /\ CauseInv
      /\ (TypeOK /\ ChainInv /\ RecordInv)' /\ [Next]_vars
      => [Promise!Next]_Promise!vars
  <2>1. UNCHANGED vars => UNCHANGED Promise!vars
    BY DEF vars, record, chain, claims, Promise!vars, Stage, Due, Revealed, Arrived
  <2> QED BY <2>1, PromiseOfHandlers, PromiseOfEnvironment, HonestBoltz, SponsorFinal DEF Next
<1> QED BY <1>1, <1>2, <1>3, CauseInit, TypeCorrect, ChainConsistent, ControlConsistent,
        RecordIsSound, PTL DEF Spec, ImplementsReverseSwap, Promise!Spec

=============================================================================
