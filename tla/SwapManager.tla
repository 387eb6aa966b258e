---------------------------- MODULE SwapManager ----------------------------
(***************************************************************************)
(* The life of one reverse swap, as src/crates/lib/src/swap/manager.rs     *)
(* drives it: the WebSocket handlers, the claim, the recovery paths and    *)
(* the background tick, against the ERC20Swap contract, the gas sponsor,   *)
(* the bridge and Boltz's event stream.                                    *)
(*                                                                         *)
(* Every task that touches a swap holds the lock of that swap for its      *)
(* whole run, so one handler at a time is in progress: `pc' is where it    *)
(* stands, `job' what started it, `mem' the record it holds in memory.     *)
(* A step of a handler is at most one remote read and one store write; the *)
(* chain, Boltz, the sponsor and a crash come in between.  The verdicts    *)
(* that end a swap as Failed or Expired are read in one step and written   *)
(* in a later one (FinalizeSwap).  For the other steps, what may happen    *)
(* between their read and their write is covered by RpcLag, as no property *)
(* of them is conditioned on what the nodes show: a read may return a      *)
(* value that is out of date already.                                      *)
(***************************************************************************)
EXTENDS Naturals

CONSTANTS
  BridgeKinds,       \* the values of bridge_kind the run considers
  MaxClaimRetries,   \* MAX_CLAIM_RETRIES
  Margin,            \* MIN_TIMEOUT_L1_MARGIN
  Timeout,           \* timeout_block_height of the swap
  MaxHeight,         \* bound: the last L1 height of the run
  MaxSubmits,        \* bound: claims handed to the gas sponsor
  MaxStoreFaults,    \* bound: upserts that fail
  MaxCrashes,        \* bound: crashes
  HonestBoltz,       \* Boltz reports only what happened
  SponsorFinal,      \* the sponsor confirms only calls that really succeeded
  OtherInstances,    \* another instance with the same keys may claim
  RpcLag,            \* the RPC endpoint may lag behind the chain
  LostResponses,     \* the sponsor's answer to a submission may get lost
  ProbeSupported     \* a failed CCTP forward can be probed (Solana)

ASSUME KindsAssumption == BridgeKinds \subseteq {"Direct", "Oft", "Cctp"}
ASSUME BoundsAssumption ==
  /\ MaxClaimRetries \in Nat \ {0} /\ Margin \in Nat \ {0}
  /\ Timeout \in Nat /\ MaxHeight \in Nat
  /\ MaxSubmits \in Nat /\ MaxStoreFaults \in Nat /\ MaxCrashes \in Nat
ASSUME FlagsAssumption ==
  {HonestBoltz, SponsorFinal, OtherInstances, RpcLag, LostResponses,
   ProbeSupported} \subseteq BOOLEAN

-----------------------------------------------------------------------------
(* A claim is known by its number, which stands for the call_id and for    *)
(* the hash of the transaction that executes the call.                     *)
None == 0
Submit == 1..MaxSubmits
OtherTx == MaxSubmits + 1
Tx == Submit \cup {OtherTx}

Terminal == {"Completed", "Failed", "Expired"}
Status == {"Created", "InvoicePaid", "TbtcLocked", "Claiming", "Settling"} \cup Terminal
Rank == [Created |-> 0, InvoicePaid |-> 1, TbtcLocked |-> 2, Claiming |-> 3, Settling |-> 4,
         Completed |-> 5, Failed |-> 5, Expired |-> 5]
IsTerminal(s) == s \in Terminal

(* The fields of BoltzSwap the control depends on.  `evidence' is the      *)
(* claim whose receipt gave delivered_amount and bridge_ref; `reason' says *)
(* whether Failed rests on a refund or on an event of Boltz.               *)
Swap == [status : Status, lockupTx : BOOLEAN, hash : Tx \cup {None},
         call : Submit \cup {None}, evidence : Tx \cup {None},
         reason : {"none", "event", "refund"}]
NewSwap == [status |-> "Created", lockupTx |-> FALSE, hash |-> None,
            call |-> None, evidence |-> None, reason |-> "none"]

VARIABLES
  store,      \* the persisted record
  kind,       \* bridge_kind, fixed by create
  tracked,    \* in tracked_ids and subscribed
  pc, job, mem, attempt,
  lock,       \* the lockup in the contract
  seen,       \* the lockup as the laggard RPC node shows it
  winner,     \* the transaction that claimed
  txs, calls, \* what became of each claim; how many the sponsor took
  bridge,     \* the cross-chain leg of the winning claim
  height,     \* L1 height
  faults, crashes

record  == <<store, kind>>
handler == <<pc, job, mem, attempt>>
chain   == <<lock, seen, winner, bridge, height>>
claims  == <<txs, calls>>
vars == <<record, tracked, handler, chain, claims, faults, crashes>>

LockState == {"none", "never", "locked", "claimed", "refunded"}
TxState == {"unused", "pending", "mined", "reverted", "noop"}
BridgeState == {"idle", "sent", "delivered", "failed", "rescued"}
Handlers == {"none", "confirmed", "settled", "expired", "failed", "retry", "tick", "accept"}
Points == {"idle", "claim", "lockup", "margin", "attempt", "persistCall", "poll", "recheck",
           "receipt", "adoptReceipt", "tickReceipt", "tickGate", "tickLock", "reverted",
           "classify", "resume", "chainCheck", "settledCheck", "termCheck", "finalize"}

TypeOK ==
  /\ store \in Swap /\ mem \in Swap /\ kind \in BridgeKinds /\ tracked \in BOOLEAN
  /\ pc \in Points /\ job \in Handlers /\ attempt \in 0..(MaxClaimRetries - 1)
  /\ lock \in LockState /\ seen \in LockState /\ winner \in Tx \cup {None}
  /\ txs \in [Tx -> TxState] /\ calls \in 0..MaxSubmits
  /\ bridge \in BridgeState /\ height \in 0..MaxHeight
  /\ faults \in 0..MaxStoreFaults /\ crashes \in 0..MaxCrashes

Init ==
  /\ store = NewSwap /\ kind \in BridgeKinds /\ tracked = TRUE
  /\ pc = "idle" /\ job = "none" /\ mem = NewSwap /\ attempt = 0
  /\ lock = "none" /\ seen = "none" /\ winner = None
  /\ txs = [t \in Tx |-> "unused"] /\ calls = 0
  /\ bridge = "idle" /\ height = 0 /\ faults = 0 /\ crashes = 0

-----------------------------------------------------------------------------
(* Reads and writes of a handler.                                          *)
Reads == {seen, lock}
ReadsLocked == "locked" \in Reads
ReadsUnlocked == Reads # {"locked"}
SpentIsRefunded == ReadsUnlocked   \* mutant: a spent lockup is read as refunded
ReadsRefunded == "refunded" \in Reads

(* classify_calls_status: the top-level code tells a call that succeeded   *)
(* from one that reverted inside its transaction.  A sponsor that leaves   *)
(* the code out, or answers early, makes the receipt count instead.        *)
Confirms(t) == \/ txs[t] = "mined"
               \/ ~SponsorFinal /\ txs[t] \in {"pending", "noop"}

(* upsert_swap; a failed write is logged and the handler goes on.          *)
Persist(s) == \/ store' = s /\ faults' = faults
              \/ /\ faults < MaxStoreFaults
                 /\ store' = store /\ faults' = faults + 1

GoTo(point) == pc' = point
Finish == pc' = "idle" /\ job' = "none" /\ mem' = NewSwap /\ attempt' = 0
CleanupTerminal == tracked' = FALSE
CleanupIf(jobs) == tracked' = (tracked /\ job \notin jobs)

CompletedAtClaim == "Completed"   \* mutant: delivery is not awaited
PostClaimStatus == IF kind = "Direct" THEN "Completed" ELSE "Settling"
Failed(s, why) == [s EXCEPT !.status = "Failed", !.reason = why]
Finalized(s, j) == IF j = "expired" THEN [s EXCEPT !.status = "Expired"]
                                    ELSE Failed(s, "event")

-----------------------------------------------------------------------------
(* handle_ws_update.  What Boltz has reported it may report again, in any  *)
(* order, as long as the swap is subscribed.                               *)
Deliverable(event) ==
  HonestBoltz => CASE event = "paid"      -> TRUE
                   [] event = "mempool"   -> lock # "never"
                   [] event = "confirmed" -> lock \notin {"none", "never"}
                   [] event = "settled"   -> lock = "claimed"
                   [] event = "expired"   -> lock = "never" \/ height >= Timeout
                   [] event = "failed"    -> lock \in {"never", "refunded"}

Receive(event) == pc = "idle" /\ tracked /\ Deliverable(event)
OnlyFinalIsPast(s) == IsTerminal(s)   \* mutant: Settling is not past the claim
PastClaim(s) == IsTerminal(s) \/ s = "Settling"

WsPastClaim(event) ==
  /\ Receive(event) /\ PastClaim(store.status)
  /\ CleanupTerminal
  /\ UNCHANGED <<record, handler, chain, claims, faults, crashes>>

(* The monotonicity guard on the events that only set a forward status.    *)
NeverRegresses(stage) == FALSE   \* mutant: no guard
Regresses(stage) == Rank[stage] < Rank[store.status]

WsInvoicePaid ==
  /\ Receive("paid") /\ ~PastClaim(store.status) /\ ~Regresses("InvoicePaid")
  /\ Persist([store EXCEPT !.status = "InvoicePaid"])
  /\ UNCHANGED <<kind, tracked, handler, chain, claims, crashes>>

WsMempool ==
  /\ Receive("mempool") /\ ~PastClaim(store.status)
  /\ Persist([store EXCEPT !.lockupTx = TRUE])
  /\ UNCHANGED <<kind, tracked, handler, chain, claims, crashes>>

WsConfirmed ==
  /\ Receive("confirmed") /\ ~PastClaim(store.status) /\ store.status # "Claiming"
  /\ \E known \in {store.lockupTx, TRUE} :
       /\ mem' = [store EXCEPT !.status = "TbtcLocked", !.lockupTx = known]
       /\ Persist(mem')
  /\ job' = "confirmed" /\ GoTo("claim")
  /\ UNCHANGED <<kind, tracked, attempt, chain, claims, crashes>>

(* Where the recovery of a claim starts from: the transaction hash, the    *)
(* call_id, or nothing but the chain.                                      *)
Resume(fallback) ==
  GoTo(IF store.hash # None THEN "receipt"
       ELSE IF store.call # None THEN "resume" ELSE fallback)

HandleClaimingResume ==
  /\ Receive("confirmed") /\ store.status = "Claiming"
  /\ Resume("chainCheck") /\ job' = "confirmed" /\ mem' = store
  /\ UNCHANGED <<record, tracked, attempt, chain, claims, faults, crashes>>

WsSettled ==
  /\ Receive("settled") /\ ~PastClaim(store.status)
  /\ Resume("settledCheck") /\ job' = "settled" /\ mem' = store
  /\ UNCHANGED <<record, tracked, attempt, chain, claims, faults, crashes>>

(* The states in which a terminal event needs a look at the chain first.   *)
TrustsTerminalEvent(s) == FALSE   \* mutant: the event is believed
NeedsLockCheck(s) == s = "Claiming"

HandleTerminalWsEvent(event) ==
  /\ Receive(event) /\ ~PastClaim(store.status)
  /\ \/ /\ NeedsLockCheck(store.status)
        /\ GoTo("termCheck") /\ job' = event /\ mem' = store
        /\ UNCHANGED <<store, tracked, attempt, faults>>
     \/ /\ ~NeedsLockCheck(store.status)
        /\ Persist(Finalized(store, event)) /\ CleanupTerminal
        /\ UNCHANGED handler
  /\ UNCHANGED <<kind, chain, claims, crashes>>

TerminalLockCheck ==
  /\ pc = "termCheck"
  /\ \/ ReadsLocked /\ GoTo("finalize") /\ UNCHANGED <<job, mem, attempt>>
     \/ ReadsUnlocked /\ GoTo("classify") /\ UNCHANGED <<job, mem, attempt>>
     \/ Finish
  /\ UNCHANGED <<record, tracked, chain, claims, faults, crashes>>

(* The write that the verdict of a read leads to, some time after it: the  *)
(* terminal event's own status, or Failed for a refund found by another    *)
(* handler.                                                                *)
FinalizeSwap ==
  /\ pc = "finalize"
  /\ Persist(IF job \in {"expired", "failed"} THEN Finalized(mem, job)
                                              ELSE Failed(mem, "refund"))
  /\ CleanupIf({"settled", "expired", "failed"}) /\ Finish
  /\ UNCHANGED <<kind, chain, claims, crashes>>

(* The settled branch without a hash and without a call_id.                *)
SettledLockCheck ==
  /\ pc = "settledCheck"
  /\ \/ /\ ReadsLocked /\ GoTo("chainCheck")
        /\ UNCHANGED <<store, tracked, job, mem, attempt, faults>>
     \/ /\ ReadsUnlocked
        /\ Persist([mem EXCEPT !.status = PostClaimStatus]) /\ CleanupTerminal /\ Finish
     \/ Finish /\ UNCHANGED <<store, tracked, faults>>
  /\ UNCHANGED <<kind, chain, claims, crashes>>

-----------------------------------------------------------------------------
(* do_claim and claim_and_swap.                                            *)
DoClaim ==
  /\ pc = "claim"
  /\ mem' = [mem EXCEPT !.status = "Claiming"] /\ Persist(mem')
  /\ GoTo("lockup")
  /\ UNCHANGED <<kind, tracked, job, attempt, chain, claims, crashes>>

(* mutant: the WebSocket's word is taken for the lockup *)
LockupUnverified ==
  /\ pc = "lockup" /\ GoTo("margin")
  /\ UNCHANGED <<record, tracked, job, mem, attempt, chain, claims, faults, crashes>>

(* LOCKUP_CHECK_MAX_ATTEMPTS reads: one that shows the lock is enough.     *)
VerifyLockup ==
  /\ pc = "lockup"
  /\ \/ ReadsLocked /\ GoTo("margin") /\ UNCHANGED <<job, mem, attempt>>
     \/ Finish
  /\ UNCHANGED <<record, tracked, chain, claims, faults, crashes>>

EnsureTimeoutMargin ==
  /\ pc = "margin"
  /\ \/ /\ Timeout >= height + Margin
        /\ GoTo("attempt") /\ UNCHANGED <<job, mem, attempt>>
     \/ Finish
  /\ UNCHANGED <<record, tracked, chain, claims, faults, crashes>>

(* try_claim fails before the sponsor is asked, or the sponsor refuses.    *)
TryClaimFails ==
  /\ pc = "attempt" /\ GoTo("recheck")
  /\ UNCHANGED <<record, tracked, job, mem, attempt, chain, claims, faults, crashes>>

(* check_quote_drift stops the attempt; accept_degraded_quote skips it.    *)
QuoteDegraded ==
  /\ pc = "attempt" /\ job # "accept"
  /\ Persist([mem EXCEPT !.status = "TbtcLocked"]) /\ Finish
  /\ UNCHANGED <<kind, tracked, chain, claims, crashes>>

(* The sponsor takes the call; its answer may get lost on the way back.    *)
SubmitClaim ==
  /\ pc = "attempt" /\ calls < MaxSubmits
  /\ calls' = calls + 1 /\ txs' = [txs EXCEPT ![calls + 1] = "pending"]
  /\ pc' \in {"persistCall"} \cup (IF LostResponses THEN {"recheck"} ELSE {})
  /\ UNCHANGED <<record, tracked, job, mem, attempt, chain, faults, crashes>>

(* mutant: the call_id is kept in memory only *)
CallIdNotPersisted ==
  /\ pc = "persistCall" /\ GoTo("poll")
  /\ UNCHANGED <<record, tracked, job, mem, attempt, chain, claims, faults, crashes>>

PersistPendingCallId ==
  /\ pc = "persistCall"
  /\ Persist([store EXCEPT !.call = calls]) /\ GoTo("poll")
  /\ UNCHANGED <<kind, tracked, job, mem, attempt, chain, claims, crashes>>

(* poll_call_status; without a hash the claim is broadcast but unconfirmed *)
(* and the swap stays in Claiming.                                         *)
PollCallStatus ==
  /\ pc = "poll"
  /\ \/ Confirms(calls) /\ Persist([mem EXCEPT !.hash = calls])
     \/ UNCHANGED <<store, faults>>
  /\ Finish
  /\ UNCHANGED <<kind, tracked, chain, claims, crashes>>

OneRetryTooMany == attempt < MaxClaimRetries   \* mutant: off by one
RetriesLeft == attempt < MaxClaimRetries - 1

RecheckAfterFailure ==
  /\ pc = "recheck"
  /\ \/ ReadsUnlocked /\ Finish
     \/ /\ RetriesLeft
        /\ attempt' = attempt + 1 /\ GoTo("attempt") /\ UNCHANGED <<job, mem>>
     \/ ~RetriesLeft /\ Finish
  /\ UNCHANGED <<record, tracked, chain, claims, faults, crashes>>

(* BoltzService::accept_degraded_quote.                                    *)
AcceptDegradedQuote ==
  /\ pc = "idle" /\ store.status \in {"TbtcLocked", "Claiming"}
  /\ job' = "accept" /\ mem' = store /\ GoTo("claim")
  /\ UNCHANGED <<record, tracked, attempt, chain, claims, faults, crashes>>

-----------------------------------------------------------------------------
(* Receipts.  A receipt is a success when the outer transaction succeeded, *)
(* even if the call inside it did not ("noop").                            *)
AnyReceiptIsEvidence(s, t) == [s EXCEPT !.evidence = t]   \* mutant: logs not matched
WithEvidence(s, t) == IF txs[t] = "mined" THEN [s EXCEPT !.evidence = t] ELSE s

(* direct_completion_has_evidence.                                         *)
ReceiptSuffices(s) == TRUE   \* mutant: the receipt alone completes
SufficientEvidence(s) == kind # "Direct" \/ s.evidence # None

ApplySuccessfulReceipt ==
  /\ pc \in {"receipt", "adoptReceipt", "tickReceipt"}
  /\ txs[mem.hash] \in {"mined", "noop"}
  /\ LET s == WithEvidence(store, mem.hash) IN
       \/ /\ ~SufficientEvidence(s)
          /\ UNCHANGED <<store, tracked, faults>>
       \/ /\ SufficientEvidence(s)
          /\ Persist([s EXCEPT !.status = PostClaimStatus])
          /\ CleanupIf({"settled", "expired", "failed"})
  /\ Finish
  /\ UNCHANGED <<kind, chain, claims, crashes>>

(* No usable receipt: the poll gives up, an adopted claim is left for      *)
(* later, the tick goes on to its timeout gate.                            *)
NoReceipt ==
  /\ \/ pc \in {"receipt", "adoptReceipt"} /\ Finish
     \/ pc = "tickReceipt" /\ GoTo("tickGate") /\ UNCHANGED <<job, mem, attempt>>
  /\ UNCHANGED <<record, tracked, chain, claims, faults, crashes>>

(* Only the poll of an event handler claims again after a revert.          *)
TickReclaims == {"receipt", "tickReceipt"}   \* mutant: the tick recovers a revert too
ReclaimPoints == {"receipt"}

ReceiptReverted ==
  /\ pc \in ReclaimPoints /\ txs[mem.hash] = "reverted"
  /\ mem' = store /\ GoTo("reverted")
  /\ UNCHANGED <<record, tracked, job, attempt, chain, claims, faults, crashes>>

RecoverFromRevertedReceipt ==
  /\ pc = "reverted"
  /\ \/ ReadsLocked /\ mem' = [mem EXCEPT !.hash = None] /\ GoTo("claim")
        /\ UNCHANGED <<job, attempt>>
     \/ ReadsUnlocked /\ GoTo("classify") /\ UNCHANGED <<job, mem, attempt>>
     \/ Finish
  /\ UNCHANGED <<record, tracked, chain, claims, faults, crashes>>

(* classify_spent_lockup needs the lockup transaction to anchor its search *)
(* and otherwise reports Unknown, which every caller leaves for later.     *)
ClassifiedClaimed ==
  /\ pc = "classify" /\ mem.lockupTx /\ "claimed" \in Reads
  /\ mem' = [store EXCEPT !.hash = winner, !.call = None] /\ Persist(mem')
  /\ GoTo("adoptReceipt")
  /\ UNCHANGED <<kind, tracked, job, attempt, chain, claims, crashes>>

ClassifiedRefunded ==
  /\ pc = "classify" /\ mem.lockupTx /\ ReadsRefunded
  /\ GoTo("finalize")
  /\ UNCHANGED <<record, tracked, job, mem, attempt, chain, claims, faults, crashes>>

ClassifiedUnknown ==
  /\ pc = "classify" /\ Finish
  /\ UNCHANGED <<record, tracked, chain, claims, faults, crashes>>

ResumePendingCall ==
  /\ pc = "resume"
  /\ \/ /\ Confirms(mem.call)
        /\ mem' = [store EXCEPT !.hash = mem.call, !.call = None] /\ Persist(mem')
        /\ GoTo("receipt")
     \/ GoTo("chainCheck") /\ UNCHANGED <<store, mem, faults>>
  /\ UNCHANGED <<kind, tracked, job, attempt, chain, claims, crashes>>

(* From here on no caller cleans up, whatever it was started by.           *)
CheckOnChainAndRetry ==
  /\ pc = "chainCheck"
  /\ \/ /\ ReadsLocked
        /\ mem' = [mem EXCEPT !.status = "TbtcLocked"] /\ Persist(mem')
        /\ GoTo("claim") /\ job' = "retry" /\ UNCHANGED attempt
     \/ /\ ReadsUnlocked /\ GoTo("classify") /\ job' = "retry"
        /\ UNCHANGED <<store, mem, attempt, faults>>
     \/ Finish /\ UNCHANGED <<store, faults>>
  /\ UNCHANGED <<kind, tracked, chain, claims, crashes>>

-----------------------------------------------------------------------------
(* poll_pending_swaps: recover_claiming_swap and confirm_delivery.         *)
TickClaiming ==
  /\ pc = "idle" /\ store.status = "Claiming" /\ store.hash # None
  /\ job' = "tick" /\ mem' = store /\ GoTo("tickReceipt")
  /\ UNCHANGED <<record, tracked, attempt, chain, claims, faults, crashes>>

(* claiming_eligible_for_refund_check; the height was read before the      *)
(* pass, so a stale or failed read waits.                                  *)
EligibleBeforeTimeout == height < Timeout   \* mutant: comparison swapped
EligibleForRefundCheck == height > Timeout

TickTimeoutGate ==
  /\ pc = "tickGate"
  /\ \/ EligibleForRefundCheck /\ GoTo("tickLock") /\ UNCHANGED <<job, mem, attempt>>
     \/ Finish
  /\ UNCHANGED <<record, tracked, chain, claims, faults, crashes>>

TickLockCheck ==
  /\ pc = "tickLock"
  /\ \/ ReadsUnlocked /\ GoTo("classify") /\ UNCHANGED <<job, mem, attempt>>
     \/ Finish
  /\ UNCHANGED <<record, tracked, chain, claims, faults, crashes>>

DeliveryConfirmed ==
  \/ bridge = "delivered"
  \/ kind = "Cctp" /\ bridge = "rescued" /\ ProbeSupported

ConfirmDelivery ==
  /\ pc = "idle" /\ store.status = "Settling" /\ store.evidence # None
  /\ DeliveryConfirmed
  /\ Persist([store EXCEPT !.status = "Completed"])
  /\ UNCHANGED <<kind, tracked, handler, chain, claims, crashes>>

(* track_swap, resume_all and reconcile_tracking.                          *)
StartTracking ==
  /\ ~tracked /\ ~IsTerminal(store.status)
  /\ tracked' = TRUE
  /\ UNCHANGED <<record, handler, chain, claims, faults, crashes>>

(* The process dies; what is in memory is gone, the store is not.          *)
Crash ==
  /\ crashes < MaxCrashes /\ crashes' = crashes + 1
  /\ Finish /\ tracked' = FALSE
  /\ UNCHANGED <<record, chain, claims, faults>>

-----------------------------------------------------------------------------
(* The environment: the contract, the sponsor's transactions, the bridge.  *)
SetLock(state) == lock' = state /\ seen' = (IF RpcLag THEN seen ELSE state)

BoltzLocks ==
  /\ lock = "none" /\ height < Timeout /\ SetLock("locked")
  /\ UNCHANGED <<record, tracked, handler, winner, bridge, height, claims, faults, crashes>>

BoltzGivesUp ==
  /\ lock = "none" /\ SetLock("never")
  /\ UNCHANGED <<record, tracked, handler, winner, bridge, height, claims, faults, crashes>>

BoltzRefunds ==
  /\ lock = "locked" /\ height >= Timeout /\ SetLock("refunded")
  /\ UNCHANGED <<record, tracked, handler, winner, bridge, height, claims, faults, crashes>>

Claims(t) ==
  /\ lock = "locked" /\ SetLock("claimed")
  /\ winner' = t /\ txs' = [txs EXCEPT ![t] = "mined"]
  /\ bridge' = IF kind = "Direct" THEN "idle" ELSE "sent"
  /\ UNCHANGED <<record, tracked, handler, height, calls, faults, crashes>>

ClaimMines(t) == txs[t] = "pending" /\ Claims(t)
OtherInstanceClaims == OtherInstances /\ Claims(OtherTx)

ClaimReverts(t) ==
  /\ txs[t] = "pending"
  /\ \E state \in {"reverted", "noop"} : txs' = [txs EXCEPT ![t] = state]
  /\ UNCHANGED <<record, tracked, handler, chain, calls, faults, crashes>>

BridgeStep ==
  /\ \/ bridge = "sent" /\ bridge' = "delivered"
     \/ bridge = "sent" /\ kind = "Cctp" /\ bridge' = "failed"
     \/ bridge = "failed" /\ bridge' = "rescued"
  /\ UNCHANGED <<record, tracked, handler, lock, seen, winner, height, claims, faults, crashes>>

BlockMined ==
  /\ height < MaxHeight /\ height' = height + 1
  /\ UNCHANGED <<record, tracked, handler, lock, seen, winner, bridge, claims, faults, crashes>>

RpcCatchesUp ==
  /\ seen # lock /\ seen' = lock
  /\ UNCHANGED <<record, tracked, handler, lock, winner, bridge, height, claims, faults, crashes>>

-----------------------------------------------------------------------------
Events == {"paid", "mempool", "confirmed", "settled", "expired", "failed"}

WsHandlers ==
  \/ \E event \in Events : WsPastClaim(event)
  \/ WsInvoicePaid \/ WsMempool \/ WsConfirmed \/ WsSettled
  \/ HandleClaimingResume
  \/ \E event \in {"expired", "failed"} : HandleTerminalWsEvent(event)

ClaimSteps ==
  \/ DoClaim \/ VerifyLockup \/ EnsureTimeoutMargin \/ TryClaimFails \/ QuoteDegraded
  \/ SubmitClaim \/ PersistPendingCallId \/ PollCallStatus \/ RecheckAfterFailure

RecoverySteps ==
  \/ TerminalLockCheck \/ FinalizeSwap \/ SettledLockCheck
  \/ ApplySuccessfulReceipt \/ NoReceipt \/ ReceiptReverted \/ RecoverFromRevertedReceipt
  \/ ClassifiedClaimed \/ ClassifiedRefunded \/ ClassifiedUnknown
  \/ ResumePendingCall \/ CheckOnChainAndRetry
  \/ TickTimeoutGate \/ TickLockCheck

Starts == TickClaiming \/ ConfirmDelivery \/ AcceptDegradedQuote \/ StartTracking \/ Crash

Environment ==
  \/ BoltzLocks \/ BoltzGivesUp \/ BoltzRefunds
  \/ \E t \in Submit : ClaimMines(t) \/ ClaimReverts(t)
  \/ OtherInstanceClaims \/ BridgeStep \/ BlockMined \/ RpcCatchesUp

Next == WsHandlers \/ ClaimSteps \/ RecoverySteps \/ Starts \/ Environment
Spec == Init /\ [][Next]_vars

-----------------------------------------------------------------------------
(* Safety.                                                                 *)
Revealed == lock = "claimed" \/ \E t \in Submit : txs[t] # "unused"

(* The preimage leaves the process only once the tBTC was locked, whatever *)
(* Boltz says on the WebSocket (claim_and_swap's lockup check).            *)
RevealNeedsLockup == Revealed => lock \notin {"none", "never"}

(* A receipt completes a swap only if the lockup was claimed, whatever     *)
(* Boltz reports and the sponsor confirms: a transaction that succeeded    *)
(* without the claim's logs is no evidence (apply_successful_receipt).     *)
AtReceipt == pc \in {"receipt", "adoptReceipt", "tickReceipt"}
ReceiptIsClaim ==
  [][AtReceipt /\ store'.status = "Completed" => lock = "claimed" \/ store' = store]_vars

(* A bridged swap is Completed only after the bridge delivered.            *)
CompletionIsDelivery ==
  store.status = "Completed" /\ kind # "Direct" => bridge \in {"delivered", "rescued"}

(* delivered_amount and bridge_ref come from the transaction that really   *)
(* claimed, never from a losing, reverted or unrelated one.                *)
EvidenceIsOfWinner == store.evidence # None => store.evidence = winner

(* A failure blamed on a refund is a refund (classify_spent_lockup).       *)
RefundVerdict == store.reason = "refund" => lock = "refunded"

(* While a broadcast claim can still win or has won, the store holds the   *)
(* call_id or the hash a later run recovers it from.  Not so after a crash *)
(* or a failed write, and where the sponsor's answer may get lost.         *)
BroadcastIsRecoverable ==
  (/\ faults = 0 /\ crashes = 0 /\ ~LostResponses
   /\ pc \in {"idle", "poll"} /\ store.status = "Claiming" /\ calls > 0
   /\ txs[calls] = "mined" \/ (txs[calls] = "pending" /\ lock = "locked"))
     => calls \in {store.call, store.hash}

(* The persisted status never goes back, but for the return from Claiming  *)
(* to TbtcLocked before a retry; a final status is final.                  *)
NoRegress ==
  [][\/ store'.status = store.status
     \/ ~IsTerminal(store.status) /\ Rank[store.status] < Rank[store'.status]
     \/ store.status = "Claiming" /\ store'.status = "TbtcLocked"]_vars

(* A Claiming swap that no handler works on while every RPC node shows its *)
(* claim is never Failed or Expired any more: no later event of Boltz, no  *)
(* tick, accepted quote, failed write or restart gives it up.  A handler   *)
(* that read the lock before the claim showed may still do so              *)
(* (handle_terminal_ws_event, recover_claiming_swap).                      *)
ClaimShown == pc = "idle" /\ store.status = "Claiming" /\ Reads = {"claimed"}
GivenUp == store.status \in {"Failed", "Expired"}
ClaimSeenNotFailed == [](ClaimShown => []~GivenUp)

(* The background tick recovers but never broadcasts a claim of its own    *)
(* (recover_claiming_swap).                                                *)
TickNeverClaims == [][calls' # calls => job # "tick"]_vars

-----------------------------------------------------------------------------
(* What the swap promises its user.                                        *)
Stage == CASE store.status = "Settling" -> "settling"
           [] store.status = "Completed" -> "completed"
           [] store.status \in {"Failed", "Expired"} ->
                IF store.reason = "refund" THEN "refunded" ELSE "failed"
           [] OTHER -> "open"
Due == height >= Timeout
Arrived == IF kind = "Direct" THEN lock = "claimed" ELSE bridge \in {"delivered", "rescued"}
Promise == INSTANCE ReverseSwap WITH report <- Stage, tbtc <- lock, due <- Due,
             revealed <- Revealed, arrived <- Arrived, bridged <- kind # "Direct"

(* Every step of the handlers, the chain, the bridge and a crash is one    *)
(* the user was promised, or none that shows.  Beyond what the invariants  *)
(* say, no late event fails a swap that settles (PastClaim), and no check  *)
(* of a terminal event fails one before the timeout while the tBTC may     *)
(* come or is locked.                                                      *)
ImplementsReverseSwap == Promise!Spec

-----------------------------------------------------------------------------
(* Liveness needs no event from Boltz: handlers run on, the tick gets the  *)
(* swap's lock in its turn, and remote reads do not fail forever.          *)
Advances == pc' # "idle"

Fairness ==
  /\ WF_vars(ClaimSteps \/ RecoverySteps)
  /\ WF_vars(BlockMined) /\ WF_vars(RpcCatchesUp)
  /\ SF_vars(TickClaiming) /\ SF_vars(ConfirmDelivery)
  /\ SF_vars(ApplySuccessfulReceipt)
  /\ SF_vars(TickTimeoutGate /\ Advances) /\ SF_vars(TickLockCheck /\ Advances)
  /\ SF_vars(ClassifiedClaimed) /\ SF_vars(ClassifiedRefunded)

FairSpec == Spec /\ Fairness

Spent == lock \in {"claimed", "refunded"}

(* A swap whose lockup is spent does not stay in Claiming with a claim     *)
(* hash on record: the tick alone resolves it, given an anchor to classify *)
(* the lockup with (recover_claiming_swap).                                *)
StuckInClaiming == store.status = "Claiming" /\ store.hash # None
SpentIsResolved == StuckInClaiming /\ store.lockupTx /\ Spent ~> ~StuckInClaiming

=============================================================================
