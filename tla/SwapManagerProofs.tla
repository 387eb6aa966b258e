------------------------- MODULE SwapManagerProofs -------------------------
(***************************************************************************)
(* Theorems about SwapManager for every value of its constants.            *)
(***************************************************************************)
EXTENDS SwapManager, TLAPS

(* Every update the handlers make to a record yields a record.             *)
LEMMA SwapUpdates ==
  ASSUME NEW s \in Swap
  PROVE /\ \A new \in Status : [s EXCEPT !.status = new] \in Swap
        /\ \A new \in Status, b \in BOOLEAN :
             [s EXCEPT !.status = new, !.lockupTx = b] \in Swap
        /\ [s EXCEPT !.lockupTx = TRUE] \in Swap
        /\ \A new \in Status, r \in {"none", "event", "refund"} :
             [s EXCEPT !.status = new, !.reason = r] \in Swap
        /\ \A h \in Tx \cup {None} : /\ [s EXCEPT !.hash = h] \in Swap
                                    /\ [s EXCEPT !.evidence = h] \in Swap
        /\ \A c \in Submit \cup {None} : [s EXCEPT !.call = c] \in Swap
        /\ \A h \in Tx \cup {None}, c \in Submit \cup {None} :
             [s EXCEPT !.hash = h, !.call = c] \in Swap
  BY DEF Swap

LEMMA NewSwapType == NewSwap \in Swap
  BY DEF NewSwap, Swap, Status, None, Terminal

(* The operators that build the records the handlers write.                *)
LEMMA HelperTypes ==
  ASSUME NEW s \in Swap, NEW j
  PROVE /\ PostClaimStatus \in Status
        /\ Finalized(s, j) \in Swap
        /\ Failed(s, "refund") \in Swap
        /\ \A t \in Tx \cup {None} : WithEvidence(s, t) \in Swap
<1>2. PostClaimStatus \in Status
  BY DEF PostClaimStatus, Status, Terminal
<1>3. \A r \in {"event", "refund"} : Failed(s, r) \in Swap
  BY SwapUpdates DEF Failed, Status, Terminal, Tx, Submit, None
<1>4. Finalized(s, j) \in Swap
  BY <1>3, SwapUpdates DEF Finalized, Status, Terminal, Tx, Submit, None
<1>5. \A t \in Tx \cup {None} : WithEvidence(s, t) \in Swap
  BY SwapUpdates DEF WithEvidence, Status, Submit, None
<1> QED BY <1>2, <1>3, <1>4, <1>5

-----------------------------------------------------------------------------
(* Type correctness.                                                       *)
LEMMA InitTypes == Init => TypeOK
  BY NewSwapType, BoundsAssumption
  DEF Init, TypeOK, Points, Handlers, LockState, TxState, BridgeState, None

LEMMA CallsTypes == TypeOK => calls \in Submit \cup {None} /\ calls \in Tx \cup {None}
  BY BoundsAssumption DEF TypeOK, Tx, Submit, None

(* A step that writes the record through Persist and leaves the handler    *)
(* idle or at a named point keeps the types.                               *)
LEMMA PersistTypes ==
  ASSUME NEW s \in Swap, TypeOK, Persist(s)
  PROVE store' \in Swap /\ faults' \in 0..MaxStoreFaults
  BY BoundsAssumption DEF TypeOK, Persist

LEMMA FinishTypes ==
  ASSUME Finish
  PROVE pc' \in Points /\ job' \in Handlers /\ mem' \in Swap
        /\ attempt' \in 0..(MaxClaimRetries - 1)
  BY NewSwapType, BoundsAssumption DEF Finish, Points, Handlers

LEMMA WsTypes == ASSUME TypeOK, WsHandlers PROVE TypeOK'
<1> USE DEF record, handler, chain, claims, GoTo, CleanupTerminal
<1>1. CASE \E event \in Events : WsPastClaim(event)
  BY <1>1 DEF TypeOK, WsPastClaim
<1>2. CASE WsInvoicePaid
  <2>1. [store EXCEPT !.status = "InvoicePaid"] \in Swap
    BY SwapUpdates DEF TypeOK, Status
  <2> QED BY <1>2, <2>1, PersistTypes DEF TypeOK, WsInvoicePaid
<1>3. CASE WsMempool
  <2>1. [store EXCEPT !.lockupTx = TRUE] \in Swap
    BY SwapUpdates DEF TypeOK
  <2> QED BY <1>3, <2>1, PersistTypes DEF TypeOK, WsMempool
<1>4. CASE WsConfirmed
  <2>1. PICK known \in {store.lockupTx, TRUE} :
          /\ mem' = [store EXCEPT !.status = "TbtcLocked", !.lockupTx = known]
          /\ Persist(mem')
    BY <1>4 DEF WsConfirmed
  <2>2. known \in BOOLEAN
    BY DEF TypeOK, Swap
  <2>3. mem' \in Swap
    BY <2>1, <2>2 DEF TypeOK, Swap, Status
  <2>4. store' \in Swap /\ faults' \in 0..MaxStoreFaults
    BY <2>1, <2>3, PersistTypes
  <2> QED BY <1>4, <2>3, <2>4 DEF TypeOK, WsConfirmed, Points, Handlers
<1>5. CASE WsSettled \/ HandleClaimingResume
  BY <1>5 DEF TypeOK, WsSettled, HandleClaimingResume, Resume, Points, Handlers
<1>6. CASE \E event \in {"expired", "failed"} : HandleTerminalWsEvent(event)
  <2>1. PICK event \in {"expired", "failed"} : HandleTerminalWsEvent(event)
    BY <1>6
  <2>2. Finalized(store, event) \in Swap
    BY HelperTypes DEF TypeOK
  <2> QED BY <2>1, <2>2, PersistTypes
        DEF TypeOK, HandleTerminalWsEvent, Points, Handlers
<1> QED BY <1>1, <1>2, <1>3, <1>4, <1>5, <1>6 DEF WsHandlers

LEMMA ClaimTypes == ASSUME TypeOK, ClaimSteps PROVE TypeOK'
<1> USE DEF record, handler, chain, claims, GoTo
<1>1. CASE DoClaim
  <2>1. mem' \in Swap
    BY <1>1, SwapUpdates DEF TypeOK, DoClaim, Status
  <2> QED BY <1>1, <2>1, PersistTypes DEF TypeOK, DoClaim, Points
<1>2. CASE VerifyLockup \/ EnsureTimeoutMargin \/ TryClaimFails
  BY <1>2, FinishTypes
  DEF TypeOK, VerifyLockup, EnsureTimeoutMargin, TryClaimFails, Points
<1>3. CASE QuoteDegraded
  <2>1. [mem EXCEPT !.status = "TbtcLocked"] \in Swap
    BY SwapUpdates DEF TypeOK, Status
  <2> QED BY <1>3, <2>1, PersistTypes, FinishTypes DEF TypeOK, QuoteDegraded
<1>4. CASE SubmitClaim
  BY <1>4, BoundsAssumption DEF TypeOK, SubmitClaim, Points, TxState, Tx, Submit, OtherTx
<1>5. CASE PersistPendingCallId
  <2>1. [store EXCEPT !.call = calls] \in Swap
    BY CallsTypes, SwapUpdates DEF TypeOK
  <2> QED BY <1>5, <2>1, PersistTypes DEF TypeOK, PersistPendingCallId, Points
<1>6. CASE PollCallStatus
  <2>1. [mem EXCEPT !.hash = calls] \in Swap
    BY CallsTypes, SwapUpdates DEF TypeOK
  <2> QED BY <1>6, <2>1, PersistTypes, FinishTypes DEF TypeOK, PollCallStatus
<1>7. CASE RecheckAfterFailure
  BY <1>7, FinishTypes, BoundsAssumption
  DEF TypeOK, RecheckAfterFailure, RetriesLeft, Points
<1> QED BY <1>1, <1>2, <1>3, <1>4, <1>5, <1>6, <1>7 DEF ClaimSteps

LEMMA RecoveryTypes == ASSUME TypeOK, RecoverySteps PROVE TypeOK'
<1> USE DEF record, handler, chain, claims, GoTo, CleanupTerminal, CleanupIf
<1>1. CASE TerminalLockCheck \/ ClassifiedRefunded
  BY <1>1, FinishTypes DEF TypeOK, TerminalLockCheck, ClassifiedRefunded, Points
<1>2. CASE SettledLockCheck
  <2>1. [mem EXCEPT !.status = PostClaimStatus] \in Swap
    BY HelperTypes, SwapUpdates DEF TypeOK
  <2> QED BY <1>2, <2>1, PersistTypes, FinishTypes DEF TypeOK, SettledLockCheck, Points
<1>3. CASE ApplySuccessfulReceipt
  <2>1. WithEvidence(store, mem.hash) \in Swap
    BY HelperTypes DEF TypeOK, Swap
  <2>2. [WithEvidence(store, mem.hash) EXCEPT !.status = PostClaimStatus] \in Swap
    BY <2>1, HelperTypes, SwapUpdates
  <2> QED BY <1>3, <2>2, PersistTypes, FinishTypes DEF TypeOK, ApplySuccessfulReceipt
<1>4. CASE NoReceipt \/ ReceiptReverted \/ TickTimeoutGate \/ TickLockCheck
  BY <1>4, FinishTypes
  DEF TypeOK, NoReceipt, ReceiptReverted, TickTimeoutGate, TickLockCheck, Points
<1>5. CASE RecoverFromRevertedReceipt
  <2>1. [mem EXCEPT !.hash = None] \in Swap
    BY SwapUpdates DEF TypeOK, None
  <2> QED BY <1>5, <2>1, FinishTypes DEF TypeOK, RecoverFromRevertedReceipt, Points
<1>6. CASE ClassifiedClaimed
  <2>1. mem' \in Swap
    BY <1>6, SwapUpdates DEF TypeOK, ClassifiedClaimed, None
  <2> QED BY <1>6, <2>1, PersistTypes DEF TypeOK, ClassifiedClaimed, Points
<1>7. CASE FinalizeSwap
  <2>1. Finalized(mem, job) \in Swap /\ Failed(mem, "refund") \in Swap
    BY HelperTypes DEF TypeOK
  <2> QED BY <1>7, <2>1, PersistTypes, FinishTypes DEF TypeOK, FinalizeSwap
<1>8. CASE ClassifiedUnknown
  BY <1>8, FinishTypes DEF TypeOK, ClassifiedUnknown
<1>9. CASE ResumePendingCall
  <2>1. [store EXCEPT !.hash = mem.call, !.call = None] \in Swap
    <3>1. mem.call \in Tx \cup {None}
      BY DEF TypeOK, Swap, Tx
    <3> QED BY <3>1, SwapUpdates DEF TypeOK, None
  <2> QED BY <1>9, <2>1, PersistTypes DEF TypeOK, ResumePendingCall, Points
<1>10. CASE CheckOnChainAndRetry
  <2>1. [mem EXCEPT !.status = "TbtcLocked"] \in Swap
    BY SwapUpdates DEF TypeOK, Status
  <2> QED BY <1>10, <2>1, PersistTypes, FinishTypes
        DEF TypeOK, CheckOnChainAndRetry, Points, Handlers
<1> QED BY <1>1, <1>2, <1>3, <1>4, <1>5, <1>6, <1>7, <1>8, <1>9, <1>10 DEF RecoverySteps

LEMMA StartTypes == ASSUME TypeOK, Starts PROVE TypeOK'
<1> USE DEF record, handler, chain, claims, GoTo
<1>1. CASE TickClaiming \/ AcceptDegradedQuote \/ StartTracking
  BY <1>1 DEF TypeOK, TickClaiming, AcceptDegradedQuote, StartTracking, Points, Handlers
<1>2. CASE ConfirmDelivery
  <2>1. [store EXCEPT !.status = "Completed"] \in Swap
    BY SwapUpdates DEF TypeOK, Status, Terminal
  <2> QED BY <1>2, <2>1, PersistTypes DEF TypeOK, ConfirmDelivery
<1>3. CASE Crash
  <2>1. crashes' \in 0..MaxCrashes
    BY <1>3, BoundsAssumption DEF TypeOK, Crash
  <2>2. tracked' \in BOOLEAN
    BY <1>3 DEF Crash
  <2> QED BY <1>3, <2>1, <2>2, FinishTypes DEF TypeOK, Crash
<1> QED BY <1>1, <1>2, <1>3 DEF Starts

LEMMA EnvironmentTypes == ASSUME TypeOK, Environment PROVE TypeOK'
<1> USE DEF record, handler, chain, claims, SetLock
<1>1. CASE BoltzLocks \/ BoltzGivesUp \/ BoltzRefunds
  BY <1>1 DEF TypeOK, BoltzLocks, BoltzGivesUp, BoltzRefunds, LockState
<1>2. ASSUME NEW t \in Tx, Claims(t) PROVE TypeOK'
  BY <1>2 DEF TypeOK, Claims, LockState, TxState, BridgeState
<1>3. CASE \E t \in Submit : ClaimMines(t)
  BY <1>2, <1>3 DEF ClaimMines, Tx
<1>4. CASE \E t \in Submit : ClaimReverts(t)
  BY <1>4 DEF TypeOK, ClaimReverts, TxState, Tx
<1>5. CASE OtherInstanceClaims
  BY <1>2, <1>5 DEF OtherInstanceClaims, Tx
<1>6. CASE BridgeStep
  BY <1>6 DEF TypeOK, BridgeStep, BridgeState
<1>7. CASE BlockMined \/ RpcCatchesUp
  BY <1>7, BoundsAssumption DEF TypeOK, BlockMined, RpcCatchesUp
<1> QED BY <1>1, <1>3, <1>4, <1>5, <1>6, <1>7 DEF Environment

(* The types hold in every reachable state: in particular a hash, a        *)
(* call_id and an evidence are claims that can exist, the retry counter    *)
(* stays below MAX_CLAIM_RETRIES, and every handler stands at a known      *)
(* point.                                                                  *)
THEOREM TypeCorrect == Spec => []TypeOK
<1>1. TypeOK /\ [Next]_vars => TypeOK'
  <2> SUFFICES ASSUME TypeOK, [Next]_vars PROVE TypeOK'
    OBVIOUS
  <2>1. CASE Next
    BY <2>1, WsTypes, ClaimTypes, RecoveryTypes, StartTypes, EnvironmentTypes DEF Next
  <2>2. CASE UNCHANGED vars
    BY <2>2 DEF vars, record, handler, chain, claims, TypeOK
  <2> QED BY <2>1, <2>2
<1> QED BY <1>1, InitTypes, PTL DEF Spec

-----------------------------------------------------------------------------
(* The contract, the transactions and the points of the claim.  The order  *)
(* of the safety proofs is: what the chain says, where a handler may       *)
(* stand, what the records may hold.                                       *)
OnceLocked == lock \notin {"none", "never"}
ClaimPoints == {"margin", "attempt", "persistCall", "poll", "recheck"}

ChainInv ==
  /\ seen = "locked" => OnceLocked
  /\ seen \in {"claimed", "refunded"} => lock = seen
  /\ pc \in ClaimPoints => OnceLocked
  /\ \A t \in Submit : txs[t] # "unused" => OnceLocked
  /\ \A t \in Tx : txs[t] = "mined" => t = winner /\ lock = "claimed"
  /\ lock = "claimed" => winner # None
  /\ bridge # "idle" => lock = "claimed"

(* Where a handler stands: what it holds in memory there, that it runs     *)
(* only on a swap that is not past its claim, and what it finalizes for.   *)
ReceiptPoints == {"receipt", "adoptReceipt", "tickReceipt"}
TickPoints == {"tickReceipt", "tickGate", "tickLock", "classify", "adoptReceipt", "finalize"}

ControlInv ==
  /\ pc \in ReceiptPoints => mem.hash # None
  /\ pc = "resume" => mem.call # None
  /\ pc \in {"persistCall", "poll"} => calls # 0
  /\ job = "tick" => pc \in TickPoints
  /\ pc # "idle" => ~PastClaim(store.status) /\ ~PastClaim(mem.status)
  /\ pc \in ClaimPoints \cup {"lockup"} => mem.status = "Claiming"
  /\ pc = "settledCheck" /\ HonestBoltz => lock = "claimed"
  /\ pc = "termCheck" => job \in {"expired", "failed"}
  /\ pc = "finalize" => job \in {"expired", "failed"} \/ lock = "refunded"

(* What a record, persisted or in memory, says of the chain.               *)
Sound(s) ==
  /\ s.evidence # None => s.evidence = winner /\ lock = "claimed"
  /\ s.reason = "refund" => lock = "refunded"
  /\ s.status = "Completed" /\ kind # "Direct" => bridge \in {"delivered", "rescued"}
  /\ s.status = "Completed" /\ HonestBoltz => lock = "claimed"
  /\ s.hash # None /\ SponsorFinal => lock = "claimed"
  /\ s.status = "Settling" /\ HonestBoltz /\ SponsorFinal => lock = "claimed"

RecordInv == Sound(store) /\ Sound(mem)

-----------------------------------------------------------------------------
LEMMA ChainInit == Init => ChainInv
  BY DEF Init, ChainInv, ClaimPoints, None, Tx, Submit

(* The handlers read the chain and leave it as it is; only a claim handed  *)
(* to the sponsor shows, and it needs the lockup check behind it.          *)
LEMMA ChainHandlers ==
  ASSUME TypeOK, ChainInv, WsHandlers \/ ClaimSteps \/ RecoverySteps \/ Starts
  PROVE ChainInv'
<1> USE DEF record, handler, chain, claims, GoTo, Finish, ClaimPoints
<1>1. CASE WsHandlers
  <2>1. UNCHANGED <<chain, claims>> /\ (pc' = pc \/ pc' \notin ClaimPoints)
    BY <1>1 DEF WsHandlers, WsPastClaim, WsInvoicePaid, WsMempool, WsConfirmed, WsSettled,
      HandleClaimingResume, HandleTerminalWsEvent, Resume
  <2> QED BY <2>1 DEF ChainInv, OnceLocked
<1>2. CASE SubmitClaim
  <2>1. calls + 1 \in Submit
    BY <1>2, BoundsAssumption DEF SubmitClaim, TypeOK, Submit
  <2>2. OnceLocked /\ UNCHANGED chain
    BY <1>2 DEF SubmitClaim, ChainInv
  <2>3. \A t \in Tx : txs'[t] = "mined" => txs[t] = "mined"
    BY <1>2, <2>1 DEF SubmitClaim, TypeOK, Tx
  <2> QED BY <2>2, <2>3 DEF ChainInv, OnceLocked
<1>3. CASE VerifyLockup
  <2>1. UNCHANGED <<chain, claims>> /\ (pc' = "margin" => ReadsLocked)
    BY <1>3 DEF VerifyLockup
  <2>2. ReadsLocked => OnceLocked
    BY DEF ReadsLocked, Reads, ChainInv, OnceLocked
  <2>3. pc' \in {"margin", "idle"}
    BY <1>3 DEF VerifyLockup
  <2> QED BY <2>1, <2>2, <2>3 DEF ChainInv, OnceLocked
<1>4. CASE DoClaim \/ EnsureTimeoutMargin \/ TryClaimFails \/ QuoteDegraded
           \/ PersistPendingCallId \/ PollCallStatus \/ RecheckAfterFailure
  <2>1. UNCHANGED <<chain, claims>> /\ (pc' \in ClaimPoints => pc \in ClaimPoints)
    BY <1>4 DEF DoClaim, EnsureTimeoutMargin, TryClaimFails, QuoteDegraded,
      PersistPendingCallId, PollCallStatus, RecheckAfterFailure
  <2> QED BY <2>1 DEF ChainInv, OnceLocked
<1>5. CASE RecoverySteps
  <2>1. UNCHANGED <<chain, claims>> /\ (pc' \in ClaimPoints => pc \in ClaimPoints)
    BY <1>5 DEF RecoverySteps, TerminalLockCheck, FinalizeSwap, SettledLockCheck,
      ApplySuccessfulReceipt, NoReceipt, ReceiptReverted, RecoverFromRevertedReceipt,
      ClassifiedClaimed, ClassifiedRefunded, ClassifiedUnknown, ResumePendingCall, CheckOnChainAndRetry,
      TickTimeoutGate, TickLockCheck
  <2> QED BY <2>1 DEF ChainInv, OnceLocked
<1>6. CASE Starts
  <2>1. UNCHANGED <<chain, claims>> /\ (pc' \in ClaimPoints => pc \in ClaimPoints)
    BY <1>6 DEF Starts, TickClaiming, ConfirmDelivery, AcceptDegradedQuote, StartTracking, Crash
  <2> QED BY <2>1 DEF ChainInv, OnceLocked
<1> QED BY <1>1, <1>2, <1>3, <1>4, <1>5, <1>6 DEF ClaimSteps

LEMMA ChainClaims ==
  ASSUME TypeOK, ChainInv, NEW t \in Tx, Claims(t)
  PROVE ChainInv'
<1>1. /\ lock = "locked" /\ lock' = "claimed" /\ winner' = t /\ seen' \in {seen, "claimed"}
      /\ seen # "claimed" /\ seen # "refunded"
  BY DEF Claims, SetLock, ChainInv
<1>2. \A u \in Tx : txs'[u] = "mined" => u = t
  BY <1>1 DEF Claims, TypeOK, ChainInv
<1>3. t # None
  BY BoundsAssumption DEF Tx, Submit, OtherTx, None
<1> QED BY <1>1, <1>2, <1>3 DEF ChainInv, OnceLocked

LEMMA ChainEnvironment == ASSUME TypeOK, ChainInv, Environment PROVE ChainInv'
<1> USE DEF record, handler, chain, claims, SetLock
<1>1. CASE BoltzLocks \/ BoltzGivesUp \/ BoltzRefunds
  <2>1. /\ UNCHANGED <<pc, txs, winner, bridge>> /\ seen' \in {seen, lock'}
        /\ \/ lock = "none" /\ lock' \in {"locked", "never"}
           \/ lock = "locked" /\ lock' = "refunded"
    BY <1>1 DEF BoltzLocks, BoltzGivesUp, BoltzRefunds
  <2> QED BY <2>1 DEF ChainInv, OnceLocked
<1>2. CASE (\E t \in Submit : ClaimMines(t)) \/ OtherInstanceClaims
  BY <1>2, ChainClaims DEF ClaimMines, OtherInstanceClaims, Tx
<1>3. CASE \E t \in Submit : ClaimReverts(t)
  <2>1. PICK t \in Submit : ClaimReverts(t)
    BY <1>3
  <2>2. \A u \in Tx : /\ txs'[u] = "mined" => txs[u] = "mined"
                     /\ txs'[u] # "unused" => txs[u] # "unused"
    BY <2>1 DEF ClaimReverts, TypeOK, Tx
  <2> QED BY <2>1, <2>2 DEF ClaimReverts, ChainInv, OnceLocked, Tx
<1>4. CASE BridgeStep
  BY <1>4 DEF BridgeStep, ChainInv, OnceLocked
<1>5. CASE BlockMined \/ RpcCatchesUp
  BY <1>5 DEF BlockMined, RpcCatchesUp, ChainInv, OnceLocked
<1> QED BY <1>1, <1>2, <1>3, <1>4, <1>5 DEF Environment

(* What the chain shows is consistent: the laggard node never shows an end *)
(* of the lockup that did not happen, at most one transaction claims, and  *)
(* no claim leaves the process for a lockup that was never made.           *)
THEOREM ChainConsistent == Spec => []ChainInv
<1>1. TypeOK /\ ChainInv /\ [Next]_vars => ChainInv'
  <2> SUFFICES ASSUME TypeOK, ChainInv, [Next]_vars PROVE ChainInv'
    OBVIOUS
  <2>1. CASE Next
    BY <2>1, ChainHandlers, ChainEnvironment DEF Next
  <2>2. CASE UNCHANGED vars
    BY <2>2 DEF vars, handler, chain, claims, ChainInv, OnceLocked
  <2> QED BY <2>1, <2>2
<1> QED BY <1>1, ChainInit, TypeCorrect, PTL DEF Spec

(* The preimage is handed to the sponsor only for a lockup that was made,  *)
(* under any behaviour of Boltz, the sponsor, the RPC endpoint and the     *)
(* store.                                                                  *)
THEOREM RevealIsSafe == Spec => []RevealNeedsLockup
<1>1. ChainInv => RevealNeedsLockup
  BY DEF ChainInv, RevealNeedsLockup, Revealed, OnceLocked
<1> QED BY <1>1, ChainConsistent, PTL

-----------------------------------------------------------------------------
LEMMA FinishedControl == ASSUME Finish PROVE ControlInv'
  BY DEF Finish, ControlInv, ReceiptPoints, TickPoints, ClaimPoints

LEMMA ControlInit == Init => ControlInv
  BY DEF Init, ControlInv, ReceiptPoints, TickPoints, ClaimPoints

(* The points reached from the start of a handler.                         *)
LEMMA ControlStarts ==
  ASSUME TypeOK, ChainInv, ControlInv, WsHandlers \/ Starts
  PROVE ControlInv'
<1> USE DEF record, handler, chain, claims, GoTo, ReceiptPoints, TickPoints, ClaimPoints,
            PastClaim, IsTerminal, Terminal
<1>1. CASE \E event \in Events : WsPastClaim(event)
  BY <1>1 DEF WsPastClaim, ControlInv
<1>2. CASE WsInvoicePaid \/ WsMempool
  BY <1>2 DEF WsInvoicePaid, WsMempool, Receive, ControlInv
<1>3. CASE WsConfirmed
  <2>1. /\ pc' = "claim" /\ job' = "confirmed"
        /\ store' \in {store, mem'} /\ mem'.status = "TbtcLocked"
        /\ ~PastClaim(store.status)
    BY <1>3 DEF WsConfirmed, Persist, TypeOK, Swap
  <2> QED BY <2>1 DEF ControlInv
<1>4. CASE WsSettled \/ HandleClaimingResume
  <2>1. /\ store' = store /\ mem' = store /\ ~PastClaim(store.status) /\ lock' = lock
        /\ \/ pc' = "receipt" /\ store.hash # None
           \/ pc' = "resume" /\ store.call # None
           \/ pc' = "chainCheck"
           \/ pc' = "settledCheck" /\ (HonestBoltz => lock = "claimed")
    BY <1>4 DEF WsSettled, HandleClaimingResume, Resume, Receive, Deliverable
  <2>2. job' \in {"confirmed", "settled"}
    BY <1>4 DEF WsSettled, HandleClaimingResume
  <2> QED BY <2>1, <2>2 DEF ControlInv
<1>5. CASE \E event \in {"expired", "failed"} : HandleTerminalWsEvent(event)
  BY <1>5 DEF HandleTerminalWsEvent, Receive, ControlInv
<1>6. CASE TickClaiming \/ AcceptDegradedQuote
  BY <1>6 DEF TickClaiming, AcceptDegradedQuote, ControlInv
<1>7. CASE ConfirmDelivery \/ StartTracking
  BY <1>7 DEF ConfirmDelivery, StartTracking, ControlInv
<1>8. CASE Crash
  BY <1>8, FinishedControl DEF Crash
<1> QED BY <1>1, <1>2, <1>3, <1>4, <1>5, <1>6, <1>7, <1>8 DEF WsHandlers, Starts

LEMMA ControlClaim ==
  ASSUME TypeOK, ChainInv, ControlInv, ClaimSteps
  PROVE ControlInv'
<1> USE DEF record, handler, chain, claims, GoTo, ReceiptPoints, TickPoints, ClaimPoints,
            PastClaim, IsTerminal, Terminal
<1>1. CASE DoClaim
  <2>1. /\ pc = "claim" /\ pc' = "lockup" /\ job' = job
        /\ store' \in {store, mem'} /\ mem'.status = "Claiming"
    BY <1>1 DEF DoClaim, Persist, TypeOK, Swap
  <2> QED BY <2>1 DEF ControlInv
<1>2. CASE VerifyLockup \/ EnsureTimeoutMargin \/ TryClaimFails \/ RecheckAfterFailure
  <2>1. CASE Finish
    BY <2>1, FinishedControl
  <2>2. CASE ~Finish
    BY <1>2, <2>2
    DEF VerifyLockup, EnsureTimeoutMargin, TryClaimFails, RecheckAfterFailure, ControlInv
  <2> QED BY <2>1, <2>2
<1>3. CASE QuoteDegraded \/ PollCallStatus
  BY <1>3, FinishedControl DEF QuoteDegraded, PollCallStatus
<1>4. CASE SubmitClaim
  BY <1>4, BoundsAssumption DEF SubmitClaim, ControlInv, TypeOK, None
<1>5. CASE PersistPendingCallId
  <2>1. /\ pc = "persistCall" /\ pc' = "poll" /\ UNCHANGED <<mem, job, calls>>
        /\ store'.status = store.status
    BY <1>5 DEF PersistPendingCallId, Persist, TypeOK, Swap
  <2> QED BY <2>1 DEF ControlInv
<1> QED BY <1>1, <1>2, <1>3, <1>4, <1>5 DEF ClaimSteps

LEMMA ControlRecovery ==
  ASSUME TypeOK, ChainInv, ControlInv, RecoverySteps
  PROVE ControlInv'
<1> USE DEF record, handler, chain, claims, GoTo, ReceiptPoints, TickPoints, ClaimPoints,
            PastClaim, IsTerminal, Terminal
<1> SUFFICES ASSUME ~Finish PROVE ControlInv'
  BY FinishedControl
<1>1. CASE TerminalLockCheck \/ SettledLockCheck
  BY <1>1 DEF TerminalLockCheck, SettledLockCheck, ControlInv
<1>2. CASE ApplySuccessfulReceipt \/ FinalizeSwap \/ ClassifiedUnknown
  BY <1>2 DEF ApplySuccessfulReceipt, FinalizeSwap, ClassifiedUnknown
<1>3. CASE NoReceipt \/ TickTimeoutGate \/ TickLockCheck
  BY <1>3 DEF NoReceipt, TickTimeoutGate, TickLockCheck, ControlInv
<1>4. CASE ReceiptReverted
  BY <1>4 DEF ReceiptReverted, ReclaimPoints, ControlInv
<1>5. CASE RecoverFromRevertedReceipt
  <2>1. /\ pc = "reverted" /\ pc' \in {"claim", "classify"}
        /\ UNCHANGED <<store, job>> /\ mem'.status = mem.status
    BY <1>5 DEF RecoverFromRevertedReceipt, TypeOK, Swap
  <2> QED BY <2>1 DEF ControlInv
<1>6. CASE ClassifiedClaimed
  <2>1. lock = "claimed" /\ winner # None
    BY <1>6 DEF ClassifiedClaimed, Reads, ChainInv
  <2>2. /\ pc = "classify" /\ pc' = "adoptReceipt" /\ UNCHANGED <<job, lock>>
        /\ mem'.hash = winner /\ mem'.status = store.status
        /\ store'.status = store.status
    BY <1>6 DEF ClassifiedClaimed, Persist, TypeOK, Swap
  <2> QED BY <2>1, <2>2 DEF ControlInv
<1>9. CASE ClassifiedRefunded
  <2>1. lock = "refunded"
    BY <1>9 DEF ClassifiedRefunded, ReadsRefunded, Reads, ChainInv
  <2>2. pc = "classify" /\ pc' = "finalize" /\ UNCHANGED <<store, mem, job, lock>>
    BY <1>9 DEF ClassifiedRefunded
  <2> QED BY <2>1, <2>2 DEF ControlInv
<1>7. CASE ResumePendingCall
  <2>1. CASE pc' = "receipt"
    <3>1. /\ mem'.hash = mem.call /\ mem'.status = store.status
          /\ store'.status = store.status /\ pc = "resume" /\ UNCHANGED <<job, lock>>
      BY <1>7, <2>1 DEF ResumePendingCall, Persist, TypeOK, Swap
    <3> QED BY <2>1, <3>1 DEF ControlInv
  <2>2. CASE pc' = "chainCheck"
    BY <1>7, <2>2 DEF ResumePendingCall, ControlInv
  <2> QED BY <1>7, <2>1, <2>2 DEF ResumePendingCall
<1>8. CASE CheckOnChainAndRetry
  <2>1. CASE pc' = "claim"
    <3>1. /\ mem'.status = "TbtcLocked" /\ store' \in {store, mem'}
          /\ pc = "chainCheck" /\ job' = "retry"
      BY <1>8, <2>1 DEF CheckOnChainAndRetry, Persist, TypeOK, Swap
    <3> QED BY <2>1, <3>1 DEF ControlInv
  <2>2. CASE pc' = "classify"
    BY <1>8, <2>2 DEF CheckOnChainAndRetry, ControlInv
  <2> QED BY <1>8, <2>1, <2>2 DEF CheckOnChainAndRetry
<1> QED BY <1>1, <1>2, <1>3, <1>4, <1>5, <1>6, <1>7, <1>8, <1>9 DEF RecoverySteps

LEMMA ControlEnvironment ==
  ASSUME TypeOK, ChainInv, ControlInv, Environment
  PROVE ControlInv'
<1> USE DEF record, handler, chain, claims, SetLock
<1>1. UNCHANGED <<record, handler, calls>>
  BY DEF Environment, BoltzLocks, BoltzGivesUp, BoltzRefunds, ClaimMines, OtherInstanceClaims,
    Claims, ClaimReverts, BridgeStep, BlockMined, RpcCatchesUp
<1>2. lock \in {"claimed", "refunded"} => lock' = lock
  BY DEF Environment, BoltzLocks, BoltzGivesUp, BoltzRefunds, ClaimMines, OtherInstanceClaims,
    Claims, ClaimReverts, BridgeStep, BlockMined, RpcCatchesUp
<1> QED BY <1>1, <1>2 DEF ControlInv, PastClaim, IsTerminal

(* A handler runs only on a swap that is not past its claim, and waits for *)
(* a receipt or a call only when the record in memory names one.           *)
THEOREM ControlConsistent == Spec => []ControlInv
<1>1. TypeOK /\ ChainInv /\ ControlInv /\ [Next]_vars => ControlInv'
  <2> SUFFICES ASSUME TypeOK, ChainInv, ControlInv, [Next]_vars PROVE ControlInv'
    OBVIOUS
  <2>1. CASE Next
    BY <2>1, ControlStarts, ControlClaim, ControlRecovery, ControlEnvironment DEF Next
  <2>2. CASE UNCHANGED vars
    BY <2>2 DEF vars, record, handler, chain, claims, ControlInv, PastClaim, IsTerminal
  <2> QED BY <2>1, <2>2
<1> QED BY <1>1, ControlInit, TypeCorrect, ChainConsistent, PTL DEF Spec

(* The background tick recovers a claim but never submits one.             *)
THEOREM TickIsPassive == Spec => TickNeverClaims
<1>1. ControlInv /\ [Next]_vars => [calls' # calls => job # "tick"]_vars
  <2> SUFFICES ASSUME ControlInv, Next, calls' # calls PROVE job # "tick"
    BY DEF vars, claims
  <2>1. SubmitClaim
    BY DEF Next, WsHandlers, ClaimSteps, RecoverySteps, Starts, Environment,
      WsPastClaim, WsInvoicePaid, WsMempool, WsConfirmed, WsSettled, HandleClaimingResume,
      HandleTerminalWsEvent, DoClaim, VerifyLockup, EnsureTimeoutMargin, TryClaimFails,
      QuoteDegraded, PersistPendingCallId, PollCallStatus, RecheckAfterFailure,
      TerminalLockCheck, FinalizeSwap, SettledLockCheck, ApplySuccessfulReceipt, NoReceipt,
      ReceiptReverted, RecoverFromRevertedReceipt, ClassifiedClaimed, ClassifiedRefunded,
      ClassifiedUnknown, ResumePendingCall, CheckOnChainAndRetry, TickTimeoutGate, TickLockCheck,
      TickClaiming, ConfirmDelivery, AcceptDegradedQuote, StartTracking, Crash, BoltzLocks, BoltzGivesUp,
      BoltzRefunds, ClaimMines, OtherInstanceClaims, Claims, ClaimReverts, BridgeStep,
      BlockMined, RpcCatchesUp, claims
  <2> QED BY <2>1 DEF SubmitClaim, ControlInv, TickPoints
<1> QED BY <1>1, ControlConsistent, PTL DEF Spec, TickNeverClaims

-----------------------------------------------------------------------------
(* What makes a record sound is never undone by the chain.                 *)
LEMMA SoundIsStable ==
  ASSUME ChainInv, NEW s, Sound(s), kind' = kind,
         lock \in {"claimed", "refunded"} => lock' = lock,
         lock = "claimed" => winner' = winner,
         bridge \in {"delivered", "rescued"} => bridge' \in {"delivered", "rescued"}
  PROVE Sound(s)'
  BY DEF Sound

LEMMA RecordEnvironment ==
  ASSUME ChainInv, RecordInv, Environment
  PROVE RecordInv'
<1> USE DEF record, handler, chain, claims, SetLock
<1>1. UNCHANGED <<store, mem, kind>>
  BY DEF Environment, BoltzLocks, BoltzGivesUp, BoltzRefunds, ClaimMines, OtherInstanceClaims,
    Claims, ClaimReverts, BridgeStep, BlockMined, RpcCatchesUp
<1>2. /\ lock \in {"claimed", "refunded"} => lock' = lock
      /\ lock = "claimed" => winner' = winner
  BY DEF Environment, BoltzLocks, BoltzGivesUp, BoltzRefunds, ClaimMines, OtherInstanceClaims,
    Claims, ClaimReverts, BridgeStep, BlockMined, RpcCatchesUp
<1>3. bridge \in {"delivered", "rescued"} => bridge' \in {"delivered", "rescued"}
  BY DEF ChainInv, Environment, BoltzLocks, BoltzGivesUp, BoltzRefunds, ClaimMines,
    OtherInstanceClaims, Claims, ClaimReverts, BridgeStep, BlockMined, RpcCatchesUp
<1> QED BY <1>1, <1>2, <1>3 DEF RecordInv, Sound

(* The updates that keep a record sound.                                   *)
LEMMA SoundUpdates ==
  ASSUME NEW s \in Swap, Sound(s)
  PROVE /\ \A new \in Status \ {"Completed", "Settling"} :
             /\ Sound([s EXCEPT !.status = new])
             /\ \A b \in BOOLEAN : Sound([s EXCEPT !.status = new, !.lockupTx = b])
        /\ Sound([s EXCEPT !.lockupTx = TRUE])
        /\ \A j : Sound(Finalized(s, j))
        /\ lock = "refunded" => Sound(Failed(s, "refund"))
        /\ \A c : Sound([s EXCEPT !.call = c])
        /\ Sound([s EXCEPT !.hash = None])
        /\ \A h, c : (SponsorFinal => lock = "claimed") =>
             /\ Sound([s EXCEPT !.hash = h])
             /\ Sound([s EXCEPT !.hash = h, !.call = c])
<1> USE DEF Sound, Swap
<1>1. \A new \in Status \ {"Completed", "Settling"} :
        /\ Sound([s EXCEPT !.status = new])
        /\ \A b \in BOOLEAN : Sound([s EXCEPT !.status = new, !.lockupTx = b])
  OBVIOUS
<1>2. Sound([s EXCEPT !.lockupTx = TRUE]) /\ Sound([s EXCEPT !.hash = None])
  OBVIOUS
<1>3. \A j : Sound(Finalized(s, j))
  BY DEF Finalized, Failed
<1>4. lock = "refunded" => Sound(Failed(s, "refund"))
  BY DEF Failed
<1>5. \A c : Sound([s EXCEPT !.call = c])
  OBVIOUS
<1>6. \A h, c : (SponsorFinal => lock = "claimed") =>
        /\ Sound([s EXCEPT !.hash = h])
        /\ Sound([s EXCEPT !.hash = h, !.call = c])
  OBVIOUS
<1> QED BY <1>1, <1>2, <1>3, <1>4, <1>5, <1>6

LEMMA SoundNew == Sound(NewSwap)
  BY DEF Sound, NewSwap, None

(* Persist writes the new record or leaves the old one.                    *)
LEMMA SoundPersist ==
  ASSUME RecordInv, NEW s, Sound(s), Persist(s)
  PROVE Sound(store')
  BY DEF RecordInv, Persist

LEMMA RecordStarts ==
  ASSUME TypeOK, ChainInv, RecordInv, WsHandlers \/ Starts
  PROVE Sound(store') /\ Sound(mem')
<1> USE DEF record, handler, RecordInv
<1>1. CASE (\E event \in Events : WsPastClaim(event)) \/ WsSettled \/ HandleClaimingResume
  BY <1>1 DEF WsPastClaim, WsSettled, HandleClaimingResume
<1>2. CASE WsInvoicePaid
  <2>1. Sound([store EXCEPT !.status = "InvoicePaid"])
    BY SoundUpdates DEF TypeOK, Status
  <2> QED BY <1>2, <2>1, SoundPersist DEF WsInvoicePaid
<1>3. CASE WsMempool
  <2>1. Sound([store EXCEPT !.lockupTx = TRUE])
    BY SoundUpdates DEF TypeOK
  <2> QED BY <1>3, <2>1, SoundPersist DEF WsMempool
<1>4. CASE WsConfirmed
  <2>1. PICK known \in {store.lockupTx, TRUE} :
          /\ mem' = [store EXCEPT !.status = "TbtcLocked", !.lockupTx = known]
          /\ Persist(mem')
    BY <1>4 DEF WsConfirmed
  <2>2. known \in BOOLEAN
    BY DEF TypeOK, Swap
  <2>3. Sound(mem')
    BY <2>1, <2>2, SoundUpdates DEF TypeOK, Status
  <2> QED BY <2>1, <2>3, SoundPersist
<1>5. CASE \E event \in {"expired", "failed"} : HandleTerminalWsEvent(event)
  <2>1. \A event : Sound(Finalized(store, event))
    BY SoundUpdates DEF TypeOK
  <2> QED BY <1>5, <2>1, SoundPersist DEF HandleTerminalWsEvent
<1>6. CASE TickClaiming \/ AcceptDegradedQuote \/ StartTracking
  BY <1>6 DEF TickClaiming, AcceptDegradedQuote, StartTracking
<1>7. CASE ConfirmDelivery
  <2>1. bridge \in {"delivered", "rescued"} /\ lock = "claimed"
    BY <1>7 DEF ConfirmDelivery, DeliveryConfirmed, ChainInv
  <2>2. Sound([store EXCEPT !.status = "Completed"])
    BY <2>1 DEF Sound, TypeOK, Swap
  <2> QED BY <1>7, <2>2, SoundPersist DEF ConfirmDelivery
<1>8. CASE Crash
  BY <1>8, SoundNew DEF Crash, Finish
<1> QED BY <1>1, <1>2, <1>3, <1>4, <1>5, <1>6, <1>7, <1>8 DEF WsHandlers, Starts

LEMMA RecordClaim ==
  ASSUME TypeOK, ChainInv, ControlInv, RecordInv, ClaimSteps
  PROVE Sound(store') /\ Sound(mem')
<1> USE SoundNew DEF record, Finish, RecordInv
<1>1. CASE DoClaim
  <2>1. Sound(mem')
    BY <1>1, SoundUpdates DEF DoClaim, TypeOK, Status, Terminal
  <2> QED BY <1>1, <2>1, SoundPersist DEF DoClaim
<1>2. CASE VerifyLockup \/ EnsureTimeoutMargin \/ TryClaimFails \/ RecheckAfterFailure
           \/ SubmitClaim
  BY <1>2 DEF VerifyLockup, EnsureTimeoutMargin, TryClaimFails, RecheckAfterFailure, SubmitClaim
<1>3. CASE QuoteDegraded
  <2>1. Sound([mem EXCEPT !.status = "TbtcLocked"])
    BY SoundUpdates DEF TypeOK, Status, Terminal
  <2> QED BY <1>3, <2>1, SoundPersist DEF QuoteDegraded
<1>4. CASE PersistPendingCallId
  <2>1. Sound([store EXCEPT !.call = calls])
    BY SoundUpdates DEF TypeOK
  <2> QED BY <1>4, <2>1, SoundPersist DEF PersistPendingCallId
<1>5. CASE PollCallStatus
  <2>1. CASE Confirms(calls) /\ Persist([mem EXCEPT !.hash = calls])
    <3>1. calls \in Tx
      BY <1>5, CallsTypes DEF PollCallStatus, ControlInv, None
    <3>2. SponsorFinal => lock = "claimed"
      BY <2>1, <3>1 DEF Confirms, ChainInv
    <3>3. Sound([mem EXCEPT !.hash = calls])
      BY <3>2, SoundUpdates DEF TypeOK
    <3> QED BY <1>5, <2>1, <3>3, SoundPersist DEF PollCallStatus
  <2> QED BY <1>5, <2>1 DEF PollCallStatus
<1> QED BY <1>1, <1>2, <1>3, <1>4, <1>5 DEF ClaimSteps

LEMMA RecordReceipt ==
  ASSUME TypeOK, ChainInv, ControlInv, RecordInv, ApplySuccessfulReceipt
  PROVE Sound(store')
<1> DEFINE s == WithEvidence(store, mem.hash)
           advanced == [s EXCEPT !.status = PostClaimStatus]
<1>1. mem.hash \in Tx /\ mem.hash # None
  BY DEF ApplySuccessfulReceipt, ControlInv, ReceiptPoints, TypeOK, Swap
<1>2. txs[mem.hash] = "mined" => mem.hash = winner /\ lock = "claimed"
  BY <1>1 DEF ChainInv
<1>3. SponsorFinal => lock = "claimed"
  BY <1>1 DEF RecordInv, Sound
<1>4. s \in Swap /\ s.hash = store.hash /\ s.reason = store.reason
      /\ s.evidence \in {store.evidence, winner}
      /\ (s.evidence # store.evidence => lock = "claimed" /\ s.evidence = winner)
  <2>1. CASE txs[mem.hash] = "mined"
    BY <1>1, <1>2, <2>1 DEF WithEvidence, TypeOK, Swap
  <2>2. CASE txs[mem.hash] # "mined"
    BY <2>2 DEF WithEvidence, TypeOK
  <2> QED BY <2>1, <2>2
<1>5. ASSUME SufficientEvidence(s) PROVE Sound(advanced)
  <2> HIDE DEF s
  <2>1. advanced.evidence = s.evidence /\ advanced.hash = s.hash
        /\ advanced.reason = s.reason /\ advanced.status = PostClaimStatus
    BY <1>4 DEF Swap
  <2>2. kind = "Direct" => lock = "claimed"
    BY <1>4, <1>5 DEF SufficientEvidence, RecordInv, Sound
  <2>3. PostClaimStatus = "Completed" => kind = "Direct"
    BY DEF PostClaimStatus
  <2>4. s.evidence # None => s.evidence = winner /\ lock = "claimed"
    BY <1>4 DEF RecordInv, Sound
  <2>5. s.reason = "refund" => lock = "refunded"
    BY <1>4 DEF RecordInv, Sound
  <2> HIDE DEF advanced
  <2> QED BY <1>3, <2>1, <2>2, <2>3, <2>4, <2>5 DEF Sound
<1> QED BY <1>5, SoundPersist DEF ApplySuccessfulReceipt, RecordInv

LEMMA RecordRecovery ==
  ASSUME TypeOK, ChainInv, ControlInv, RecordInv, RecoverySteps
  PROVE Sound(store') /\ Sound(mem')
<1> USE SoundNew DEF record, handler, Finish, RecordInv
<1>1. CASE TerminalLockCheck \/ ClassifiedRefunded
  BY <1>1 DEF TerminalLockCheck, ClassifiedRefunded
<1>2. CASE SettledLockCheck
  <2>1. Sound([mem EXCEPT !.status = PostClaimStatus])
    <3>1. HonestBoltz => lock = "claimed"
      BY <1>2 DEF SettledLockCheck, ControlInv
    <3>2. PostClaimStatus = "Completed" => kind = "Direct"
      BY DEF PostClaimStatus
    <3> QED BY <3>1, <3>2 DEF Sound, TypeOK, Swap
  <2> QED BY <1>2, <2>1, SoundPersist DEF SettledLockCheck
<1>3. CASE ApplySuccessfulReceipt
  <2>1. Sound(store')
    BY <1>3, RecordReceipt
  <2> QED BY <1>3, <2>1 DEF ApplySuccessfulReceipt
<1>4. CASE NoReceipt \/ ReceiptReverted \/ ClassifiedUnknown \/ TickTimeoutGate
           \/ TickLockCheck
  BY <1>4 DEF NoReceipt, ReceiptReverted, ClassifiedUnknown, TickTimeoutGate, TickLockCheck
<1>5. CASE RecoverFromRevertedReceipt
  <2>1. Sound([mem EXCEPT !.hash = None])
    BY SoundUpdates DEF TypeOK
  <2> QED BY <1>5, <2>1 DEF RecoverFromRevertedReceipt
<1>6. CASE ClassifiedClaimed
  <2>1. lock = "claimed"
    BY <1>6 DEF ClassifiedClaimed, Reads, ChainInv
  <2>2. Sound(mem')
    BY <1>6, <2>1, SoundUpdates DEF ClassifiedClaimed, TypeOK
  <2> QED BY <1>6, <2>2, SoundPersist DEF ClassifiedClaimed
<1>7. CASE FinalizeSwap
  <2>1. job \in {"expired", "failed"} \/ lock = "refunded"
    BY <1>7 DEF FinalizeSwap, ControlInv
  <2>2. Sound(Finalized(mem, job)) /\ (lock = "refunded" => Sound(Failed(mem, "refund")))
    BY SoundUpdates DEF TypeOK
  <2> QED BY <1>7, <2>1, <2>2, SoundPersist DEF FinalizeSwap
<1>8. CASE ResumePendingCall
  <2>1. CASE /\ Confirms(mem.call) /\ Persist(mem')
             /\ mem' = [store EXCEPT !.hash = mem.call, !.call = None]
    <3>1. mem.call \in Tx
      BY <1>8 DEF ResumePendingCall, ControlInv, TypeOK, Swap, Tx
    <3>2. SponsorFinal => lock = "claimed"
      BY <2>1, <3>1 DEF Confirms, ChainInv
    <3>3. Sound(mem')
      BY <2>1, <3>2, SoundUpdates DEF TypeOK
    <3> QED BY <2>1, <3>3, SoundPersist
  <2> QED BY <1>8, <2>1 DEF ResumePendingCall
<1>9. CASE CheckOnChainAndRetry
  <2>1. Sound([mem EXCEPT !.status = "TbtcLocked"])
    BY SoundUpdates DEF TypeOK, Status, Terminal
  <2> QED BY <1>9, <2>1, SoundPersist DEF CheckOnChainAndRetry
<1> QED BY <1>1, <1>2, <1>3, <1>4, <1>5, <1>6, <1>7, <1>8, <1>9 DEF RecoverySteps

LEMMA RecordHandlers ==
  ASSUME TypeOK, ChainInv, ControlInv, RecordInv,
         WsHandlers \/ ClaimSteps \/ RecoverySteps \/ Starts
  PROVE RecordInv'
<1>1. Sound(store') /\ Sound(mem')
  BY RecordStarts, RecordClaim, RecordRecovery
<1>2. UNCHANGED <<kind, chain>>
  BY DEF WsHandlers, ClaimSteps, RecoverySteps, Starts, record,
    WsPastClaim, WsInvoicePaid, WsMempool, WsConfirmed, WsSettled, HandleClaimingResume,
    HandleTerminalWsEvent, DoClaim, VerifyLockup, EnsureTimeoutMargin, TryClaimFails,
    QuoteDegraded, SubmitClaim, PersistPendingCallId, PollCallStatus, RecheckAfterFailure,
    TerminalLockCheck, FinalizeSwap, SettledLockCheck, ApplySuccessfulReceipt, NoReceipt,
    ReceiptReverted, RecoverFromRevertedReceipt, ClassifiedClaimed, ClassifiedRefunded,
    ClassifiedUnknown, ResumePendingCall, CheckOnChainAndRetry, TickTimeoutGate, TickLockCheck,
    TickClaiming, ConfirmDelivery, AcceptDegradedQuote, StartTracking, Crash
<1> QED BY <1>1, <1>2 DEF RecordInv, Sound, chain

LEMMA RecordInit == Init => RecordInv
  BY SoundNew DEF Init, RecordInv

(* Whatever the handlers persist or hold in memory is backed by the chain. *)
THEOREM RecordIsSound == Spec => []RecordInv
<1>1. TypeOK /\ ChainInv /\ ControlInv /\ RecordInv /\ [Next]_vars => RecordInv'
  <2> SUFFICES ASSUME TypeOK, ChainInv, ControlInv, RecordInv, [Next]_vars
               PROVE RecordInv'
    OBVIOUS
  <2>1. CASE Next
    BY <2>1, RecordHandlers, RecordEnvironment DEF Next
  <2>2. CASE UNCHANGED vars
    BY <2>2 DEF vars, record, handler, chain, RecordInv, Sound
  <2> QED BY <2>1, <2>2
<1> QED BY <1>1, RecordInit, TypeCorrect, ChainConsistent, ControlConsistent, PTL DEF Spec

(* The amount and the bridge reference of a swap come from the transaction *)
(* that claimed its lockup (decode_claim_receipt, apply_delivered_amount). *)
THEOREM EvidenceIsGenuine == Spec => []EvidenceIsOfWinner
<1>1. RecordInv => EvidenceIsOfWinner
  BY DEF RecordInv, Sound, EvidenceIsOfWinner
<1> QED BY <1>1, RecordIsSound, PTL

(* Failed by refund is a refund (classify_spent_lockup).                   *)
THEOREM RefundIsGenuine == Spec => []RefundVerdict
<1>1. RecordInv => RefundVerdict
  BY DEF RecordInv, Sound, RefundVerdict
<1> QED BY <1>1, RecordIsSound, PTL

(* A bridged swap completes only after delivery (confirm_delivery).        *)
THEOREM CompletedIsDelivered == Spec => []CompletionIsDelivery
<1>1. RecordInv => CompletionIsDelivery
  BY DEF RecordInv, Sound, CompletionIsDelivery
<1> QED BY <1>1, RecordIsSound, PTL

-----------------------------------------------------------------------------
(* The persisted status from one step to the next.                         *)
LEMMA Ranks ==
  /\ Rank["Created"] = 0 /\ Rank["InvoicePaid"] = 1 /\ Rank["TbtcLocked"] = 2
  /\ Rank["Claiming"] = 3 /\ Rank["Settling"] = 4
  /\ Rank["Completed"] = 5 /\ Rank["Failed"] = 5 /\ Rank["Expired"] = 5
  BY DEF Rank

Forward(old, new) ==
  \/ new = old
  \/ ~IsTerminal(old) /\ Rank[old] < Rank[new]
  \/ old = "Claiming" /\ new = "TbtcLocked"

(* What one write of a handler may do to the status.                       *)
LEMMA ForwardWrites ==
  ASSUME NEW old \in Status, NEW new \in Status
  PROVE /\ ~PastClaim(old) /\ new \in {"Claiming", "Settling"} \cup Terminal => Forward(old, new)
        /\ ~PastClaim(old) /\ new = "TbtcLocked" => Forward(old, new)
        /\ old \in {"Created", "InvoicePaid"} /\ new = "InvoicePaid" => Forward(old, new)
        /\ old = "Settling" /\ new = "Completed" => Forward(old, new)
  BY Ranks DEF Forward, PastClaim, IsTerminal, Status, Terminal

LEMMA PersistStatus ==
  ASSUME NEW s, Persist(s)
  PROVE store'.status \in {store.status, s.status}
  BY DEF Persist

LEMMA FinalizedStatus ==
  ASSUME NEW s \in Swap
  PROVE /\ \A j : Finalized(s, j).status \in {"Failed", "Expired"}
        /\ Failed(s, "refund").status = "Failed"
  BY DEF Finalized, Failed, Swap

LEMMA StatusOfStarts ==
  ASSUME TypeOK, WsHandlers \/ Starts
  PROVE Forward(store.status, store'.status)
<1> USE DEF record, Receive
<1>0. store.status \in Status /\ Forward(store.status, store.status)
  BY DEF TypeOK, Swap, Forward
<1>1. CASE UNCHANGED store
  BY <1>0, <1>1
<1>2. CASE WsInvoicePaid
  <2>1. store.status \in {"Created", "InvoicePaid"}
    BY <1>0, <1>2, Ranks DEF WsInvoicePaid, Regresses, PastClaim, IsTerminal, Status, Terminal
  <2>2. store'.status \in {store.status, "InvoicePaid"}
    BY <1>2, PersistStatus DEF WsInvoicePaid, TypeOK, Swap
  <2> QED BY <1>0, <2>1, <2>2, ForwardWrites DEF Status
<1>3. CASE WsMempool
  <2>1. store'.status = store.status
    BY <1>3, PersistStatus DEF WsMempool, TypeOK, Swap
  <2> QED BY <1>0, <2>1
<1>4. CASE WsConfirmed
  <2>1. store'.status \in {store.status, "TbtcLocked"} /\ ~PastClaim(store.status)
    BY <1>4, PersistStatus DEF WsConfirmed, TypeOK, Swap
  <2> QED BY <1>0, <2>1, ForwardWrites DEF Status
<1>5. CASE \E event \in {"expired", "failed"} : HandleTerminalWsEvent(event)
  <2>1. store'.status \in {store.status, "Failed", "Expired"} /\ ~PastClaim(store.status)
    <3>1. CASE store' = store
      BY <1>5, <3>1 DEF HandleTerminalWsEvent
    <3>2. CASE \E event : Persist(Finalized(store, event))
      BY <1>5, <3>2, PersistStatus, FinalizedStatus DEF HandleTerminalWsEvent, TypeOK
    <3> QED BY <1>5, <3>1, <3>2 DEF HandleTerminalWsEvent
  <2> QED BY <1>0, <2>1, ForwardWrites DEF Status, Terminal
<1>6. CASE ConfirmDelivery
  <2>1. store'.status \in {store.status, "Completed"} /\ store.status = "Settling"
    BY <1>6, PersistStatus DEF ConfirmDelivery, TypeOK, Swap
  <2> QED BY <1>0, <2>1, ForwardWrites DEF Status, Terminal
<1> QED BY <1>1, <1>2, <1>3, <1>4, <1>5, <1>6
      DEF WsHandlers, Starts, WsPastClaim, WsSettled, HandleClaimingResume,
        TickClaiming, AcceptDegradedQuote, StartTracking, Crash

LEMMA StatusOfHandlers ==
  ASSUME TypeOK, ControlInv, ClaimSteps \/ RecoverySteps
  PROVE Forward(store.status, store'.status)
<1> USE DEF record, GoTo
<1>0. /\ store.status \in Status /\ mem.status \in Status /\ PostClaimStatus \in Status
      /\ Forward(store.status, store.status)
  BY HelperTypes DEF TypeOK, Swap, Forward
<1>1. ~PastClaim(store.status)
  <2>1. pc # "idle"
    BY DEF ClaimSteps, RecoverySteps, DoClaim, VerifyLockup, EnsureTimeoutMargin,
      TryClaimFails, QuoteDegraded, SubmitClaim, PersistPendingCallId, PollCallStatus,
      RecheckAfterFailure, TerminalLockCheck, FinalizeSwap, SettledLockCheck,
      ApplySuccessfulReceipt, NoReceipt, ReceiptReverted, ReclaimPoints, RecoverFromRevertedReceipt,
      ClassifiedClaimed, ClassifiedRefunded, ClassifiedUnknown, ResumePendingCall,
      CheckOnChainAndRetry, TickTimeoutGate, TickLockCheck
  <2> QED BY <2>1 DEF ControlInv
<1>2. CASE store'.status = store.status
  BY <1>0, <1>2
<1>3. CASE store'.status \in {"TbtcLocked", "Claiming", PostClaimStatus}
  <2>1. PostClaimStatus \in {"Settling", "Completed"}
    BY DEF PostClaimStatus
  <2> QED BY <1>0, <1>1, <1>3, <2>1, ForwardWrites DEF Status, Terminal
<1>4. CASE store'.status \in {"Failed", "Expired"}
  BY <1>0, <1>1, <1>4, ForwardWrites DEF Status, Terminal
<1>5. CASE DoClaim \/ QuoteDegraded \/ PersistPendingCallId
  <2>1. store'.status \in {store.status, "Claiming", "TbtcLocked"}
    BY <1>5, PersistStatus DEF DoClaim, QuoteDegraded, PersistPendingCallId, TypeOK, Swap
  <2> QED BY <1>2, <1>3, <2>1
<1>6. CASE PollCallStatus
  <2>1. store'.status \in {store.status, "Claiming"}
    BY <1>6, PersistStatus DEF PollCallStatus, ControlInv, ClaimPoints, TypeOK, Swap
  <2> QED BY <1>2, <1>3, <2>1
<1>7. CASE FinalizeSwap
  <2>1. store'.status \in {store.status, "Failed", "Expired"}
    BY <1>7, PersistStatus, FinalizedStatus DEF FinalizeSwap, TypeOK
  <2> QED BY <1>2, <1>4, <2>1
<1>8. CASE SettledLockCheck
  <2>1. store'.status \in {store.status, PostClaimStatus}
    BY <1>8, PersistStatus DEF SettledLockCheck, TypeOK, Swap
  <2> QED BY <1>2, <1>3, <2>1
<1>9. CASE ApplySuccessfulReceipt
  <2>1. WithEvidence(store, mem.hash) \in Swap
    BY HelperTypes DEF TypeOK, Swap
  <2>2. store'.status \in {store.status, PostClaimStatus}
    BY <1>9, <2>1, PersistStatus DEF ApplySuccessfulReceipt, Swap
  <2> QED BY <1>2, <1>3, <2>2
<1>10. CASE ClassifiedClaimed \/ ResumePendingCall \/ CheckOnChainAndRetry
  <2>1. store'.status \in {store.status, "TbtcLocked"}
    BY <1>10, PersistStatus
    DEF ClassifiedClaimed, ResumePendingCall, CheckOnChainAndRetry, TypeOK, Swap
  <2> QED BY <1>2, <1>3, <2>1
<1>11. CASE UNCHANGED store
  BY <1>2, <1>11
<1> QED BY <1>5, <1>6, <1>7, <1>8, <1>9, <1>10, <1>11
      DEF ClaimSteps, RecoverySteps, VerifyLockup, EnsureTimeoutMargin, TryClaimFails,
        SubmitClaim, RecheckAfterFailure, NoReceipt, ReceiptReverted,
        RecoverFromRevertedReceipt, ClassifiedUnknown, TickTimeoutGate, TickLockCheck,
        TerminalLockCheck, ClassifiedRefunded

LEMMA StatusOfEnvironment == Environment => UNCHANGED store
  BY DEF Environment, BoltzLocks, BoltzGivesUp, BoltzRefunds, ClaimMines, OtherInstanceClaims,
    Claims, ClaimReverts, BridgeStep, BlockMined, RpcCatchesUp, record

(* The persisted status only moves forward, but for the return from        *)
(* Claiming to TbtcLocked; Completed, Failed and Expired are final.        *)
THEOREM StatusIsMonotone == Spec => NoRegress
<1>1. TypeOK /\ ControlInv /\ [Next]_vars =>
        [\/ store'.status = store.status
         \/ ~IsTerminal(store.status) /\ Rank[store.status] < Rank[store'.status]
         \/ store.status = "Claiming" /\ store'.status = "TbtcLocked"]_vars
  <2> SUFFICES ASSUME TypeOK, ControlInv, Next PROVE Forward(store.status, store'.status)
    BY DEF Forward
  <2>1. Forward(store.status, store.status)
    BY DEF Forward
  <2> QED BY <2>1, StatusOfStarts, StatusOfHandlers, StatusOfEnvironment DEF Next
<1> QED BY <1>1, TypeCorrect, ControlConsistent, PTL DEF Spec, NoRegress

(* What holds from the moment a Claiming swap without a handler shows its  *)
(* claim on every node: no read shows it locked or refunded again, so no   *)
(* handler gets past its checks to a claim of its own or to a failure.     *)
SafePoints == {"idle", "claim", "lockup", "receipt", "adoptReceipt", "tickReceipt", "tickGate",
               "tickLock", "reverted", "classify", "resume", "chainCheck", "settledCheck",
               "termCheck"}

SafelyClaimed ==
  /\ lock = "claimed" /\ seen = "claimed"
  /\ store.status \in {"Claiming", "Settling", "Completed"}
  /\ pc \in SafePoints

LEMMA SafelyClaimedReads ==
  ASSUME SafelyClaimed PROVE ~ReadsLocked /\ ~ReadsRefunded
  BY DEF SafelyClaimed, ReadsLocked, ReadsRefunded, Reads

LEMMA SafelyClaimedStarts ==
  ASSUME TypeOK, SafelyClaimed, WsHandlers \/ Starts PROVE SafelyClaimed'
<1> USE DEF record, handler, chain, GoTo, SafePoints
<1>1. UNCHANGED <<lock, seen>> /\ pc' \in SafePoints
  BY DEF SafelyClaimed, WsHandlers, Starts, WsPastClaim, WsInvoicePaid, WsMempool,
    WsConfirmed, WsSettled, HandleClaimingResume, HandleTerminalWsEvent, Resume,
    TickClaiming, ConfirmDelivery, AcceptDegradedQuote, StartTracking, Crash, Finish
<1>2. CASE WsInvoicePaid
  <2>1. FALSE
    BY <1>2, Ranks DEF WsInvoicePaid, Regresses, PastClaim, IsTerminal, Terminal, SafelyClaimed
  <2> QED BY <2>1
<1>3. CASE WsMempool
  <2>1. store'.status = store.status
    BY <1>3, PersistStatus DEF WsMempool, TypeOK, Swap
  <2> QED BY <1>1, <2>1 DEF SafelyClaimed
<1>4. CASE WsConfirmed \/ \E event \in {"expired", "failed"} : HandleTerminalWsEvent(event)
  BY <1>1, <1>4 DEF WsConfirmed, HandleTerminalWsEvent, NeedsLockCheck, PastClaim, IsTerminal,
    Terminal, SafelyClaimed
<1>5. CASE ConfirmDelivery
  <2>1. store'.status \in {store.status, "Completed"}
    BY <1>5, PersistStatus DEF ConfirmDelivery, TypeOK, Swap
  <2> QED BY <1>1, <2>1 DEF SafelyClaimed
<1>6. CASE UNCHANGED store
  BY <1>1, <1>6 DEF SafelyClaimed
<1> QED BY <1>2, <1>3, <1>4, <1>5, <1>6 DEF WsHandlers, WsPastClaim, WsSettled,
      HandleClaimingResume, Starts, TickClaiming, AcceptDegradedQuote, StartTracking, Crash

LEMMA SafelyClaimedHandlers ==
  ASSUME TypeOK, SafelyClaimed, ClaimSteps \/ RecoverySteps PROVE SafelyClaimed'
<1> USE DEF record, handler, chain, GoTo, SafePoints
<1>0. ~ReadsLocked /\ ~ReadsRefunded
  BY SafelyClaimedReads
<1>1. CASE ClaimSteps
  <2>1. DoClaim \/ VerifyLockup
    BY <1>1 DEF ClaimSteps, SafelyClaimed, EnsureTimeoutMargin, TryClaimFails, QuoteDegraded,
      SubmitClaim, PersistPendingCallId, PollCallStatus, RecheckAfterFailure
  <2>2. pc' \in {"lockup", "idle"} /\ UNCHANGED <<lock, seen>>
    BY <1>0, <2>1 DEF DoClaim, VerifyLockup, Finish
  <2>3. store'.status \in {store.status, "Claiming"}
    BY <2>1, PersistStatus DEF DoClaim, VerifyLockup, TypeOK, Swap
  <2> QED BY <2>2, <2>3 DEF SafelyClaimed
<1>2. CASE RecoverySteps
  <2>1. UNCHANGED <<lock, seen>> /\ pc' \in SafePoints
    BY <1>0, <1>2 DEF SafelyClaimed, Finish, RecoverySteps, TerminalLockCheck, FinalizeSwap,
      SettledLockCheck, ApplySuccessfulReceipt, NoReceipt, ReceiptReverted,
      RecoverFromRevertedReceipt, ClassifiedClaimed, ClassifiedRefunded, ClassifiedUnknown,
      ResumePendingCall, CheckOnChainAndRetry, TickTimeoutGate, TickLockCheck
  <2>2. CASE SettledLockCheck \/ ApplySuccessfulReceipt
    <3>1. WithEvidence(store, mem.hash) \in Swap
      BY HelperTypes DEF TypeOK, Swap
    <3>2. store'.status \in {store.status, PostClaimStatus}
      BY <2>2, <3>1, PersistStatus DEF SettledLockCheck, ApplySuccessfulReceipt, TypeOK, Swap
    <3> QED BY <2>1, <3>2 DEF SafelyClaimed, PostClaimStatus
  <2>3. CASE ClassifiedClaimed \/ ResumePendingCall
    <3>1. store'.status = store.status
      BY <2>3, PersistStatus DEF ClassifiedClaimed, ResumePendingCall, TypeOK, Swap
    <3> QED BY <2>1, <3>1 DEF SafelyClaimed
  <2>4. CASE UNCHANGED store
    BY <2>1, <2>4 DEF SafelyClaimed
  <2> QED BY <1>0, <1>2, <2>2, <2>3, <2>4
        DEF RecoverySteps, SafelyClaimed, TerminalLockCheck, FinalizeSwap, NoReceipt,
          ReceiptReverted, RecoverFromRevertedReceipt, ClassifiedRefunded, ClassifiedUnknown,
          CheckOnChainAndRetry, TickTimeoutGate, TickLockCheck
<1> QED BY <1>1, <1>2

(* A Claiming swap whose claim every node shows while no handler works on  *)
(* it is never given up afterwards, whatever Boltz reports, the sponsor    *)
(* answers, the store loses or a restart starts over.                      *)
THEOREM ClaimedIsNotFailed == Spec => ClaimSeenNotFailed
<1>1. TypeOK /\ SafelyClaimed /\ [Next]_vars => SafelyClaimed'
  <2> SUFFICES ASSUME TypeOK, SafelyClaimed, [Next]_vars PROVE SafelyClaimed'
    OBVIOUS
  <2>1. CASE Environment
    <3>1. UNCHANGED <<lock, seen, pc>>
      BY <2>1 DEF SafelyClaimed, Environment, BoltzLocks, BoltzGivesUp, BoltzRefunds,
        ClaimMines, OtherInstanceClaims, Claims, ClaimReverts, BridgeStep, BlockMined,
        RpcCatchesUp, handler, chain
    <3> QED BY <2>1, <3>1, StatusOfEnvironment DEF SafelyClaimed
  <2>2. CASE UNCHANGED vars
    BY <2>2 DEF vars, record, handler, chain, SafelyClaimed
  <2> QED BY <2>1, <2>2, SafelyClaimedStarts, SafelyClaimedHandlers DEF Next
<1>2. ClaimShown => SafelyClaimed
  BY DEF ClaimShown, Reads, SafelyClaimed, SafePoints
<1>3. SafelyClaimed => ~GivenUp
  BY DEF SafelyClaimed, GivenUp
<1> QED BY <1>1, <1>2, <1>3, TypeCorrect, PTL DEF Spec, ClaimSeenNotFailed

-----------------------------------------------------------------------------
(* The only write at a receipt is that of apply_successful_receipt.        *)
LEMMA ReceiptWrites ==
  ASSUME AtReceipt, Next PROVE ApplySuccessfulReceipt \/ UNCHANGED store
<1>1. CASE WsHandlers
  BY <1>1 DEF AtReceipt, WsHandlers, Receive, WsPastClaim, WsInvoicePaid, WsMempool,
     WsConfirmed, WsSettled, HandleClaimingResume, HandleTerminalWsEvent
<1>2. CASE ClaimSteps
  BY <1>2 DEF AtReceipt, ClaimSteps, DoClaim, VerifyLockup, EnsureTimeoutMargin,
     TryClaimFails, QuoteDegraded, SubmitClaim, PersistPendingCallId, PollCallStatus,
     RecheckAfterFailure
<1>3. CASE RecoverySteps
  BY <1>3 DEF AtReceipt, RecoverySteps, TerminalLockCheck, FinalizeSwap, SettledLockCheck,
     NoReceipt,
     ReceiptReverted, RecoverFromRevertedReceipt, ClassifiedClaimed, ClassifiedRefunded,
     ClassifiedUnknown, ResumePendingCall, CheckOnChainAndRetry, TickTimeoutGate,
     TickLockCheck, record
<1>4. CASE Starts
  BY <1>4 DEF AtReceipt, Starts, TickClaiming, ConfirmDelivery, AcceptDegradedQuote,
     StartTracking, Crash, record
<1>5. CASE Environment
  BY <1>5, StatusOfEnvironment
<1> QED BY <1>1, <1>2, <1>3, <1>4, <1>5 DEF Next

(* A receipt completes a swap only if the lockup was claimed, whatever     *)
(* Boltz reports and the sponsor confirms (direct_completion_has_evidence).*)
THEOREM ReceiptIsGenuine == Spec => ReceiptIsClaim
<1>1. TypeOK /\ ChainInv /\ ControlInv /\ RecordInv /\ [Next]_vars
        => [AtReceipt /\ store'.status = "Completed" => lock = "claimed" \/ store' = store]_vars
  <2> SUFFICES ASSUME TypeOK, ChainInv, ControlInv, RecordInv, Next, AtReceipt,
                      store'.status = "Completed", store' # store
               PROVE  lock = "claimed"
    BY DEF vars, record
  <2>1. ApplySuccessfulReceipt BY ReceiptWrites
  <2> DEFINE s == WithEvidence(store, mem.hash)
  <2>2. s \in Swap /\ (s.evidence # None => lock = "claimed")
    <3>1. mem.hash \in Tx /\ mem.hash # None
      BY <2>1 DEF ApplySuccessfulReceipt, ControlInv, ReceiptPoints, TypeOK, Swap
    <3>2. txs[mem.hash] = "mined" => lock = "claimed" BY <3>1 DEF ChainInv
    <3>3. store.evidence # None => lock = "claimed" BY DEF RecordInv, Sound
    <3> QED BY <3>1, <3>2, <3>3 DEF WithEvidence, TypeOK, Swap
  <2>3. SufficientEvidence(s) /\ store' = [s EXCEPT !.status = PostClaimStatus]
    BY <2>1 DEF ApplySuccessfulReceipt, Persist
  <2> HIDE DEF s
  <2>4. PostClaimStatus = "Completed" BY <2>2, <2>3 DEF Swap
  <2> QED BY <2>2, <2>3, <2>4 DEF PostClaimStatus, SufficientEvidence
<1> QED BY <1>1, RecordIsSound, TypeCorrect, ChainConsistent, ControlConsistent, PTL
        DEF Spec, ReceiptIsClaim

=============================================================================
