------------------------------ MODULE Delivery ------------------------------
(***************************************************************************)
(* One swap across the registry and the bridges: prepare and create check  *)
(* its destination, the claim dispatches on it, the receipt is decoded by  *)
(* it, and the pollers of src/crates/lib/src/swap/manager.rs confirm the   *)
(* delivery at Circle Iris, LayerZero Scan or on Solana.                   *)
(*                                                                         *)
(* Each of these reads the registry of the running process.  The feed may  *)
(* be published anew at any time and the process restarted between any     *)
(* two of them.  Retries, reverts and refunds of the claim are the matter  *)
(* of SwapManager: here the claim that is sent succeeds.                   *)
(***************************************************************************)
EXTENDS Destinations, FiniteSets

CONSTANTS
  Feeds,      \* deployments the upstream may publish
  Requests,   \* [label, asset, addr] that a caller may ask for
  Pollers,    \* tasks that run poll_pending_swaps
  Tick,       \* the background one; the others are refresh_pending_deliveries
  Burns,      \* amounts that the Router bridges or delivers
  Fees,       \* what Circle may deduct (feeExecuted)
  MaxMoves,   \* bound: publications of another feed
  MaxStops    \* bound: ends of the process

ASSUME DeliveryAssumption ==
  /\ Tick \in Pollers /\ {MaxMoves, MaxStops} \subseteq Nat /\ Burns \cup Fees \subseteq Nat
  /\ None \notin Feeds \cup Pollers
  /\ \A burn \in Burns, fee \in Fees : fee <= burn

(* A feed is two lists, and does not give the source chain the name of a   *)
(* chain that CCTP burns to (oft.rs:233: "Not in the CCTP table").         *)
ASSUME FeedAssumption ==
  \A published \in Feeds :
    /\ \A mesh \in Meshes : published[mesh] \in Seq(Range(published[mesh]))
    /\ OfSource(published["native"]) # {} =>
         /\ Own(published["native"]).name # "solana"
         /\ \A i \in DOMAIN CctpChains : Own(published["native"]).name # CctpChains[i][1]

(* A text names a token only where it is an address of the token's chain.  *)
ASSUME AddressAssumption ==
  \A r \in Requests :
    /\ r.addr.names # None
    /\ r.addr.names = SourceTokens.tbtc => Recipient("evm", r.addr)
    /\ \A published \in Feeds : \A i \in DOMAIN Registry(published).dests :
         Registry(published).dests[i].token = r.addr.names =>
           Recipient(Registry(published).dests[i].transport, r.addr)

VARIABLES
  feed,        \* the feed upstream publishes
  registry,    \* chain_registry of the running process, NoRegistry when down
  built,       \* the feed it was built from
  prepared,    \* the PreparedSwap a caller keeps
  swap,        \* the persisted record
  sent,        \* what the Router sent, None before the claim
  bridge,      \* the message, as the bridge's services show it
  lock,        \* the poller that holds the swap's lock, or None
  task,        \* the pollers
  completions, \* SwapUpdated events with Completed
  moves, stops

world == <<feed, sent, bridge, moves>>
process == <<registry, built>>
vars == <<feed, registry, built, prepared, swap, sent, bridge, lock, task, completions, moves, stops>>

Up == registry # NoRegistry

NoSwap == [status |-> "none"]
Idle == [pc |-> "idle", kind |-> None, ref |-> None, amount |-> None]
NoMessage == [attested |-> FALSE, fee |-> 0, forward |-> "none", hash |-> FALSE,
              landed |-> FALSE, scan |-> "none"]

Init ==
  /\ feed \in Feeds /\ registry = NoRegistry /\ built = None /\ prepared = None /\ swap = NoSwap
  /\ sent = None /\ bridge = NoMessage /\ lock = None /\ task = [p \in Pollers |-> Idle]
  /\ completions = 0 /\ moves = 0 /\ stops = 0

-----------------------------------------------------------------------------
(* BoltzService::new fails when the registry cannot be built.              *)
Start ==
  /\ ~Up /\ registry' = Registry(feed) /\ registry' # NoRegistry
  /\ built' = feed
  /\ UNCHANGED <<world, prepared, swap, lock, task, completions, stops>>

Stop ==
  /\ Up /\ stops < MaxStops /\ stops' = stops + 1
  /\ registry' = NoRegistry /\ built' = None /\ lock' = None /\ task' = [p \in Pollers |-> Idle]
  /\ UNCHANGED <<world, prepared, swap, completions>>

FeedMoves ==
  /\ moves < MaxMoves /\ moves' = moves + 1
  /\ feed' \in Feeds \ {feed}
  /\ UNCHANGED <<process, prepared, swap, sent, bridge, lock, task, completions, stops>>

-----------------------------------------------------------------------------
Target(s) == Find(registry, s.label, s.asset)
HasRoute(dest) == dest.kind = "oft" => registry.oft[dest.mesh] # None

(* prepare quotes an OFT route at its source contract.                     *)
Prepare(request) ==
  /\ Up /\ swap = NoSwap /\ prepared = None
  /\ LET dest == Target(request) IN
       /\ dest # NotFound /\ Accepts(registry, dest, request.addr) /\ HasRoute(dest)
       /\ prepared' = [request |-> request, kind |-> dest.kind, under |-> built]
  /\ UNCHANGED <<process, world, swap, lock, task, completions, stops>>

(* create checks the destination again, under the registry of its process. *)
TakesPrepared(request) == TRUE   \* mutant: create does not validate again
Revalidated(request) ==
  Target(request) # NotFound /\ Accepts(registry, Target(request), request.addr)

Create ==
  /\ Up /\ swap = NoSwap /\ prepared # None
  /\ \/ /\ Revalidated(prepared.request)
        /\ swap' = [status |-> "locked", label |-> prepared.request.label,
                    asset |-> prepared.request.asset, addr |-> prepared.request.addr,
                    kind |-> prepared.kind, hash |-> FALSE, ref |-> None, amount |-> None,
                    quoted |-> prepared.under, created |-> built]
     \/ UNCHANGED swap
  /\ prepared' = None
  /\ UNCHANGED <<process, world, lock, task, completions, stops>>

-----------------------------------------------------------------------------
(* The claim.  ClaimAddresses::parse, then try_claim dispatches on the     *)
(* destination's bridge; an OFT goes out by its mesh's source contract.    *)
Unclaimed == swap.status \in {"locked", "claiming"} /\ ~swap.hash
Claimable ==
  LET dest == Target(swap) IN
    /\ dest # NotFound /\ Recipient(dest.transport, swap.addr) /\ HasRoute(dest)
    /\ dest.kind = "cctp" => dest.transport # "tron"

LegacyContract(dest) == registry.oft["legacy"]   \* mutant: one contract for both meshes
SendContract(dest) == registry.oft[dest.mesh]

Sends(dest, burn) ==
  sent' = [kind |-> dest.kind, to |-> swap.addr.names, token |-> DexOutput(dest), amount |-> burn,
           oft |-> IF dest.kind = "oft" THEN SendContract(dest) ELSE None,
           transport |-> dest.transport, under |-> built]

Claim ==
  /\ Up /\ swap # NoSwap /\ Unclaimed /\ lock = None
  /\ \/ /\ Claimable /\ \E burn \in Burns : Sends(Target(swap), burn)
        /\ swap' = [swap EXCEPT !.status = "claiming", !.hash = TRUE]
     \/ /\ ~Claimable /\ UNCHANGED sent
        /\ swap' = [swap EXCEPT !.status = "claiming"]
  /\ UNCHANGED <<process, feed, moves, prepared, bridge, lock, task, completions, stops>>

(* delivered_source_for and decode_delivered_from_logs: the first log that *)
(* matches the source that the current registry expects.                   *)
DecodeCctpSent == sent.kind = "cctp"
DecodeArbitrumTransfer(dest) ==
  /\ sent.kind = "direct" /\ Recipient("evm", swap.addr)
  /\ sent.token = DexOutput(dest) /\ sent.to = swap.addr.names
DecodeOftSent(dest) ==
  registry.oft[dest.mesh] # None /\ sent.kind = "oft" /\ sent.oft = registry.oft[dest.mesh]

Matches(dest) ==
  CASE dest.kind = "cctp" -> DecodeCctpSent
    [] dest.kind = "direct" -> DecodeArbitrumTransfer(dest)
    [] dest.kind = "oft" -> DecodeOftSent(dest)
    [] OTHER -> FALSE

(* delivered_and_ref: a CCTP burn's amount is not yet the amount delivered. *)
DeliveredAndRef ==
  IF sent.kind = "cctp" THEN [amount |-> None, ref |-> "cctp"]
  ELSE [amount |-> sent.amount, ref |-> IF sent.kind = "oft" THEN "oft" ELSE None]

WithDelivered ==
  IF Matches(Target(swap))
    THEN [swap EXCEPT !.amount = DeliveredAndRef.amount, !.ref = DeliveredAndRef.ref]
    ELSE swap

(* apply_successful_receipt, from a handler or from the tick.              *)
DirectHasEvidence(s) == s.kind # "direct" \/ s.amount # None
PostClaimStatus == IF swap.kind = "direct" THEN "completed" ELSE "settling"
Completes(status) == IF status = "completed" THEN completions + 1 ELSE completions

Receipt ==
  /\ Up /\ lock = None /\ swap.status = "claiming" /\ swap.hash
  /\ DirectHasEvidence(WithDelivered)
  /\ swap' = [WithDelivered EXCEPT !.status = PostClaimStatus]
  /\ completions' = Completes(PostClaimStatus)
  /\ UNCHANGED <<process, world, prepared, lock, task, stops>>

-----------------------------------------------------------------------------
(* poll_pending_swaps lists first and locks afterwards.                    *)
TaskStep(p, t, l) ==
  task' = [task EXCEPT ![p] = t] /\ lock' = l /\ UNCHANGED <<process, world, prepared, stops>>

List(p) ==
  /\ Up /\ task[p].pc = "idle" /\ swap.status = "settling"
  /\ TaskStep(p, [Idle EXCEPT !.pc = "listed", !.kind = swap.kind, !.ref = swap.ref], lock)
  /\ UNCHANGED <<swap, completions>>

LockSwap(p) ==
  /\ task[p].pc = "listed" /\ lock = None
  /\ IF task[p].ref = None THEN TaskStep(p, Idle, None)
                           ELSE TaskStep(p, [task[p] EXCEPT !.pc = "asking"], p)
  /\ UNCHANGED <<swap, completions>>

(* cctp_completion_amount and is_delivered.                                *)
Attests == bridge.attested   \* mutant: an attested message is taken for a forwarded one
Forwarded == bridge.attested /\ bridge.hash
Attested == sent.amount - bridge.fee
IsDelivered == bridge.scan = "delivered"
NoProbe == FALSE   \* mutant: Solana is not asked
Probed == bridge.forward = "failed" /\ bridge.attested /\ Target(swap).kind # None
            /\ Target(swap).transport = "solana"

QueryCctp(p) ==
  /\ task[p].pc = "asking" /\ task[p].kind = "cctp"
  /\ TaskStep(p, CASE Forwarded -> [task[p] EXCEPT !.pc = "done", !.amount = Attested]
                   [] ~Forwarded /\ Probed -> [task[p] EXCEPT !.pc = "probing", !.amount = Attested]
                   [] OTHER -> Idle,
              IF Forwarded \/ Probed THEN p ELSE None)
  /\ UNCHANGED <<swap, completions>>

(* The used_nonce account exists once the message was received.            *)
ProbeSolana(p) ==
  /\ task[p].pc = "probing"
  /\ IF bridge.landed THEN TaskStep(p, [task[p] EXCEPT !.pc = "done"], p)
                      ELSE TaskStep(p, Idle, None)
  /\ UNCHANGED <<swap, completions>>

QueryOft(p) ==
  /\ task[p].pc = "asking" /\ task[p].kind = "oft"
  /\ IF IsDelivered THEN TaskStep(p, [task[p] EXCEPT !.pc = "done"], p)
                    ELSE TaskStep(p, Idle, None)
  /\ UNCHANGED <<swap, completions>>

ReadFails(p) ==
  /\ task[p].pc \in {"asking", "probing"}
  /\ TaskStep(p, Idle, None) /\ UNCHANGED <<swap, completions>>

(* The caller drops its refresh.                                           *)
CancelKeepsLock(p) ==   \* mutant: the guard is not dropped
  /\ p # Tick /\ task[p].pc # "idle"
  /\ TaskStep(p, Idle, lock) /\ UNCHANGED <<swap, completions>>
Cancel(p) ==
  /\ p # Tick /\ task[p].pc # "idle"
  /\ TaskStep(p, Idle, IF lock = p THEN None ELSE lock) /\ UNCHANGED <<swap, completions>>

(* finalize_completed reads the record again.                              *)
SettledWhenListed == TRUE   \* mutant: the snapshot is believed
StillSettling == swap.status = "settling"
KeepsAmount(p) == swap.amount   \* mutant: the authoritative amount is dropped
FinalAmount(p) == IF task[p].amount # None THEN task[p].amount ELSE swap.amount

FinalizeCompleted(p) ==
  /\ task[p].pc = "done"
  /\ IF StillSettling
       THEN /\ swap' = [swap EXCEPT !.status = "completed", !.amount = FinalAmount(p)]
            /\ completions' = completions + 1
       ELSE UNCHANGED <<swap, completions>>
  /\ TaskStep(p, Idle, None)

-----------------------------------------------------------------------------
(* The bridges.                                                            *)
BridgeStep(b) ==
  /\ bridge' = b
  /\ UNCHANGED <<process, feed, moves, prepared, swap, sent, lock, task, completions, stops>>
SentBy(kind) == sent # None /\ sent.kind = kind

Attest ==
  /\ SentBy("cctp") /\ ~bridge.attested
  /\ \E fee \in Fees : BridgeStep([bridge EXCEPT !.attested = TRUE, !.fee = fee,
                                                 !.forward = "pending"])
(* Circle names the transaction of a forward that goes through.            *)
ForwardSubmits ==
  /\ bridge.forward = "pending" /\ ~bridge.hash /\ BridgeStep([bridge EXCEPT !.hash = TRUE])
ForwardLands ==
  /\ bridge.hash /\ bridge.forward = "pending"
  /\ BridgeStep([bridge EXCEPT !.forward = "complete", !.landed = TRUE])
ForwardFails ==
  /\ bridge.forward = "pending" /\ ~bridge.hash /\ BridgeStep([bridge EXCEPT !.forward = "failed"])
ReceivedByHand ==
  /\ bridge.forward = "failed" /\ ~bridge.landed /\ BridgeStep([bridge EXCEPT !.landed = TRUE])

ScanIndexes == SentBy("oft") /\ bridge.scan = "none" /\ BridgeStep([bridge EXCEPT !.scan = "inflight"])
OftFails == bridge.scan = "inflight" /\ ~bridge.landed /\ BridgeStep([bridge EXCEPT !.scan = "failed"])
OftLands == SentBy("oft") /\ ~bridge.landed /\ BridgeStep([bridge EXCEPT !.landed = TRUE])
ScanDelivers ==
  /\ bridge.landed /\ bridge.scan \in {"inflight", "failed"}
  /\ BridgeStep([bridge EXCEPT !.scan = "delivered"])

Bridges ==
  \/ Attest \/ ForwardSubmits \/ ForwardLands \/ ForwardFails \/ ReceivedByHand
  \/ ScanIndexes \/ OftFails \/ OftLands \/ ScanDelivers
Poll(p) ==
  \/ List(p) \/ LockSwap(p) \/ QueryCctp(p) \/ ProbeSolana(p) \/ QueryOft(p)
  \/ ReadFails(p) \/ Cancel(p) \/ FinalizeCompleted(p)
Service == Start \/ Stop \/ FeedMoves \/ Create \/ Claim \/ Receipt \/ \E r \in Requests : Prepare(r)
Next == Service \/ Bridges \/ \E p \in Pollers : Poll(p)
Spec == Init /\ [][Next]_vars

(* The tick comes round, a task is scheduled, the fair lock of the swap is *)
(* had in turn, reads do not fail for ever, and a forward that Circle has  *)
(* submitted lands.                                                        *)
Fairness ==
  /\ WF_vars(List(Tick)) /\ WF_vars(ForwardLands)
  /\ \A p \in Pollers : /\ SF_vars(LockSwap(p)) /\ WF_vars(FinalizeCompleted(p))
                        /\ SF_vars(QueryCctp(p) \/ QueryOft(p)) /\ SF_vars(ProbeSolana(p))
FairSpec == Spec /\ Fairness

-----------------------------------------------------------------------------
Statuses == {"locked", "claiming", "settling", "completed"}
Amounts == {None} \cup Nat
TypeOK ==
  /\ feed \in Feeds /\ registry = IF built = None THEN NoRegistry ELSE Registry(built)
  /\ swap # NoSwap => swap.status \in Statuses /\ swap.amount \in Amounts
  /\ lock \in Pollers \cup {None} /\ DOMAIN task = Pollers
  /\ \A p \in Pollers : task[p].pc \in {"asking", "probing", "done"} <=> lock = p

(* What create accepted, the claim does not refuse: not under the registry *)
(* of the quote, and not under the one create checked it against, unless   *)
(* the feed has dropped the source contract of the mesh in between.  A     *)
(* refusal would come when the invoice may be paid (reverse.rs:447).       *)
AcceptedIsClaimable ==
  Up /\ swap # NoSwap /\ Unclaimed =>
    /\ built = swap.quoted => Claimable
    /\ built = swap.created => Claimable \/ (Target(swap) # NotFound /\ ~HasRoute(Target(swap)))

(* Whatever the feed publishes, tokens go out only through the pinned      *)
(* contract of the destination's mesh (verify_pinned_source_oft, oft_for). *)
PinnedSource ==
  sent # None /\ sent.kind = "oft" =>
    sent.oft = Pin[Find(Registry(sent.under), swap.label, swap.asset).mesh]

(* A chain is offered once per asset, under one label, and on the native   *)
(* mesh when it is there: callers name destinations by label and asset,    *)
(* and the first match is taken (DestinationRegistry::find).               *)
Unambiguous(dests) ==
  \A i, j \in DOMAIN dests :
    i < j /\ (dests[i].asset = "USDC" <=> dests[j].asset = "USDC") =>
      dests[i].label # dests[j].label /\ (dests[i].id = dests[j].id => dests[i].id = 0)
IsChain(entry, dest) ==
  IF entry.id # 0 \/ dest.id # 0 THEN entry.id = dest.id ELSE entry.name = dest.label
NativeFirst(dests, natives) ==
  \A i \in DOMAIN dests, n \in DOMAIN natives :
    dests[i].mesh = "legacy" /\ IsBuilt(natives[n]) => ~IsChain(natives[n], dests[i])
OneRoutePerChain ==
  [][ Start => Unambiguous(registry'.dests) /\ NativeFirst(registry'.dests, built'["native"]) ]_vars

(* No swap delivers to a token contract that the registry it was created   *)
(* with knows, if the address was typed with its prefix.                   *)
NotAToken ==
  [][ Create /\ swap' # NoSwap /\ (swap'.addr.form = "hex" => swap'.addr.prefixed) =>
        \A i \in DOMAIN registry.dests :
          swap'.addr.names \notin {registry.dests[i].token, SourceTokens.tbtc} ]_vars

(* A swap whose tokens went out over a bridge is left without a reference  *)
(* to trace its delivery by only if its route changed between the claim    *)
(* and the receipt.                                                        *)
RouteIn(reg) ==
  LET dest == Find(reg, swap.label, swap.asset) IN
    [kind |-> dest.kind, oft |-> IF dest.kind = "oft" THEN reg.oft[dest.mesh] ELSE None]
DeliveryTraceable ==
  [][ Receipt /\ sent.kind # "direct" /\ swap'.status = "settling" /\ swap'.ref = None
        => RouteIn(registry) # RouteIn(Registry(sent.under)) ]_vars

(* The amount of a completed swap is what was delivered: for CCTP the burn *)
(* less the fee that Circle took, which the receipt does not show.         *)
AmountIsDelivered ==
  swap.status = "completed" =>
    swap.amount = IF sent.kind = "cctp" THEN sent.amount - bridge.fee ELSE sent.amount

(* Two pollers that both saw the swap Settling complete it once            *)
(* (finalize_completed).                                                   *)
CompletedOnce == completions <= 1

(* A completed swap's tokens arrive.                                       *)
Landed == SentBy("direct") \/ bridge.landed
CompletedArrives == swap.status = "completed" ~> Landed

(* A delivery that its bridge shows, or that Solana shows after a failed   *)
(* forward, completes a traceable swap while the service runs.             *)
Shown ==
  \/ bridge.hash \/ bridge.scan = "delivered"
  \/ sent.transport = "solana" /\ bridge.forward = "failed" /\ bridge.landed
LandedCompletes ==
  (Up /\ swap.status = "settling" /\ swap.ref # None /\ Shown) ~> (swap.status = "completed" \/ ~Up)

=============================================================================
