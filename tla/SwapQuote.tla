----------------------------- MODULE SwapQuote -----------------------------
(***************************************************************************)
(* What a reverse swap is worth, from the quote to the delivery:           *)
(* src/crates/lib/src/swap/reverse.rs prepares a quote (backwards from     *)
(* the amount to deliver, or forwards from the invoice), accepts Boltz's   *)
(* answer, and at each claim attempt quotes again, compares with the       *)
(* tolerance, signs the least amount the Router may deliver and submits.   *)
(*                                                                         *)
(* Every action is one remote read with the computation that follows it.   *)
(* Between two of them, and between the signing and the execution, the     *)
(* world moves: DEX prices, bridge fees, the recipient's token account,    *)
(* the Router's allowance.  Any read may fail.                             *)
(***************************************************************************)
EXTENDS Amounts, FiniteSets

CONSTANTS
  Markets,      \* what the remote quotes say at one time
  Venues,       \* DEX routes of a quote response
  Routes,       \* subset of {"direct", "cctp", "native", "legacy"}
  Unit,         \* scale of the prices
  Targets,      \* output amounts asked for (prepare)
  Invoices,     \* invoice amounts asked for (prepare_from_sats)
  Slippages,    \* slippage_bps asked for
  Allowances,   \* allowances of the Router the run starts with
  MaxSearch,    \* attempts of the search's first phase (32)
  MaxAttempts,  \* bound: claim attempts
  MaxMoves      \* bound: moves of the world

ASSUME QuoteAssumption ==
  /\ Routes \subseteq {"direct", "cctp", "native", "legacy"}
  /\ Unit \in Nat \ {0} /\ {MaxSearch, MaxAttempts, MaxMoves} \subseteq Nat
  /\ UNION {Targets, Invoices, Slippages, Allowances} \subseteq Nat

(* Tokens and gas per tBTC wei (over Unit; a venue without a route has     *)
(* price 0), the OFT's fee in basis points, the LayerZero fee and the      *)
(* CCTP fee without and with the set-up of the recipient's token account,  *)
(* and Boltz's pair.                                                       *)
ASSUME MarketsAssumption ==
  Markets \subseteq [dex : [Venues -> Nat], eth : Nat \ {0}, oft : 0..Bps,
                     lz : [BOOLEAN -> Nat],
                     cctp : [BOOLEAN -> [bps : Nat, fwd : Nat]],
                     pair : [pct : Nat, miner : Nat, min : Nat, max : Nat]]

VARIABLES
  market, moves,   \* the remote world and how often it has moved
  ata,             \* the recipient's token account exists
  allowance,       \* the Router's allowance on the legacy OFT adapter
  cached,          \* ata_cache holds the recipient
  pc, draft,       \* the call in progress and what it has computed
  quote,           \* the PreparedSwap
  swap,            \* the BoltzSwap
  order,           \* the claim in progress or submitted
  attempts, delivered

world == <<market, moves, ata, allowance>>
vars == <<world, cached, pc, draft, quote, swap, order, attempts, delivered>>

IsOft(route) == route \in {"native", "legacy"}
NoDraft == [route |-> "direct", mode |-> "out", slip |-> 0, goal |-> 0, low |-> 0, high |-> 0,
            tries |-> 0, need |-> 0, sats |-> 0, native |-> 0, setup |-> FALSE, since |-> 0]
NoQuote == [route |-> "direct", output |-> 0, invoice |-> 0, estimate |-> 0, slip |-> 0,
            pair |-> [pct |-> 0, miner |-> 0, min |-> 0, max |-> 0], since |-> 0]
NoSwap == [route |-> "direct", expected |-> 0, onchain |-> 0, slip |-> 0, since |-> 0]
NoOrder == [accepted |-> FALSE, slip |-> 0, setup |-> FALSE, native |-> 0, gas |-> 0, trade |-> 0,
            venue |-> 0, best |-> 0, maxFee |-> 0, fresh |-> 0, min |-> 0, approve |-> FALSE,
            since |-> 0]

RouteNames == {"direct"} \cup Routes
Pairs == [pct : Nat, miner : Nat, min : Nat, max : Nat]
Drafts == [route : RouteNames, mode : {"out", "in"}, slip : 0..MaxSlippage, goal : Int, low : Int, high : Int,
           tries : 0..MaxSearch, need : Int, sats : Int, native : Int, setup : BOOLEAN,
           since : 0..MaxMoves]
Quotes == [route : RouteNames, output : Int, invoice : Int, estimate : Int, slip : 0..MaxSlippage,
           pair : Pairs, since : 0..MaxMoves]
Swaps == [route : RouteNames, expected : Int, onchain : Int, slip : 0..MaxSlippage, since : 0..MaxMoves]
Orders == [accepted : BOOLEAN, slip : 0..MaxSlippage, setup : BOOLEAN, native : Int, gas : Int, trade : Int,
           venue : {0} \cup Venues, best : Int, maxFee : Int, fresh : Int, min : Int,
           approve : BOOLEAN, since : 0..MaxMoves]

PreparePoints == {"fee", "options", "grow", "split", "msgFee", "leg", "ethLeg", "pair",
                  "inLeg", "inFee", "inMsgFee", "inEthLeg", "inAdjusted", "inOft"}
AttemptPoints == {"cOptions", "cFee", "cEth", "cTrade", "cBurnFee", "cOft", "cSign", "cApprove",
                  "cSubmit"}
Points == {"idle", "prepared", "locked", "degraded", "sent", "reverted", "done"}
            \cup PreparePoints \cup AttemptPoints

Init ==
  /\ market \in Markets /\ moves = 0 /\ ata \in BOOLEAN /\ allowance \in Allowances /\ cached = FALSE
  /\ pc = "idle" /\ draft = NoDraft /\ quote = NoQuote /\ swap = NoSwap /\ order = NoOrder
  /\ attempts = 0 /\ delivered = 0

-----------------------------------------------------------------------------
(* Quotes of the DEX: pick_best_quote takes the most for an input and the  *)
(* least for an output; no quote, a zero quote and one that does not parse *)
(* as a u128 are errors.                                                   *)
Quoting == {v \in Venues : market.dex[v] > 0}
InAt(v, wei) == (wei * market.dex[v]) \div Unit
OutAt(v, amount) == CeilDiv(amount * Unit, market.dex[v])
BestIn(wei, v) ==
  v \in Quoting /\ InAt(v, wei) <= MaxU128 /\ \A u \in Quoting : InAt(u, wei) <= InAt(v, wei)
BestOut(amount, v) == v \in Quoting /\ \A u \in Quoting : OutAt(u, amount) >= OutAt(v, amount)
EthOut(native) == CeilDiv(native * Unit, market.eth)
EthIn(wei) == (wei * market.eth) \div Unit

(* quoteOFT leaves the legacy bridge's fee out.                            *)
QuoteOft(route, amount) ==
  IF route = "native" THEN amount - CeilDiv(amount * market.oft, Bps) ELSE amount

(* quoteSend: the messaging fee, more if it creates the account.           *)
QuoteSend(setup) == market.lz[setup]

(* cctp_needs_recipient_setup and the fee tier it asks for.                *)
CctpNeedsSetup == ~ata
GetFee(setup) == market.cctp[setup]

(* fetch_tbtc_pair.                                                        *)
PairIsUsable == market.pair.min <= market.pair.max

(* compute_extra_options of an OFT send, with its cache of found accounts; *)
(* cctp_needs_recipient_setup asks each time.                              *)
NeedsSetup == ~ata /\ ~cached

-----------------------------------------------------------------------------
(* prepare.                                                                *)
Frame == UNCHANGED <<world, swap, order, attempts, delivered>>
Step(point, d) == pc' = point /\ draft' = d /\ UNCHANGED <<cached, quote>> /\ Frame

Prepare(route, target, slip) ==
  /\ pc = "idle" /\ SlippageAllowed(slip) /\ target <= MaxU64
  /\ Step(IF route = "direct" THEN "leg" ELSE IF route = "cctp" THEN "fee" ELSE "options",
          [NoDraft EXCEPT !.route = route, !.slip = slip, !.goal = target, !.need = target,
                          !.since = moves])

PrepareFee ==
  /\ pc = "fee"
  /\ LET burn == RequiredBurn(draft.goal, GetFee(CctpNeedsSetup)) IN
       burn <= MaxU64 /\ Step("leg", [draft EXCEPT !.need = burn])

ComputeExtraOptions ==
  /\ pc = "options"
  /\ draft' = [draft EXCEPT !.setup = NeedsSetup, !.low = draft.goal, !.high = draft.goal,
                 !.need = IF draft.route = "legacy" THEN LegacySource(draft.goal) ELSE draft.need]
  /\ pc' = IF draft.mode = "in" THEN "inLeg"
           ELSE IF draft.route = "legacy" \/ draft.goal = 0 THEN "msgFee" ELSE "grow"
  /\ cached' = (cached \/ ata)
  /\ UNCHANGED quote /\ Frame

(* estimate_oft_required_send_amount: an upper bound, then bisection.      *)
Suffices(amount) == QuoteOft(draft.route, amount) >= draft.goal

OneTryTooMany == draft.tries <= MaxSearch   \* mutant: off by one
TriesLeft == draft.tries < MaxSearch

SearchGrow ==
  /\ pc = "grow"
  /\ \/ Suffices(draft.high) /\ Step("split", draft)
     \/ /\ ~Suffices(draft.high) /\ TriesLeft
        /\ Step("grow", [draft EXCEPT !.low = draft.high + 1, !.high = 2 * draft.high,
                                      !.tries = draft.tries + 1])

SkipsOne(mid) == [draft EXCEPT !.low = mid + 2]   \* mutant: off by one
Narrowed(mid) == IF Suffices(mid) THEN [draft EXCEPT !.high = mid]
                                  ELSE [draft EXCEPT !.low = mid + 1]

SearchSplit ==
  /\ pc = "split"
  /\ \/ /\ draft.low < draft.high
        /\ Step("split", Narrowed(draft.low + (draft.high - draft.low) \div 2))
     \/ /\ draft.low >= draft.high
        /\ Step("msgFee", [draft EXCEPT !.need = draft.low])

QuoteMessagingFee ==
  /\ pc = "msgFee" /\ draft.need <= MaxU64
  /\ Step("leg", [draft EXCEPT !.native = QuoteSend(draft.setup)])

FetchQuoteOutTbtc ==
  /\ pc = "leg"
  /\ \E v \in Quoting :
       /\ BestOut(draft.need, v) /\ OutAt(v, draft.need) > 0
       /\ Step(IF draft.native > 0 THEN "ethLeg" ELSE "pair",
               [draft EXCEPT !.sats = WeiToSats(OutAt(v, draft.need))])

FetchQuoteOutTbtcForEth ==
  /\ pc = "ethLeg" /\ EthOut(draft.native) > 0
  /\ Step("pair", [draft EXCEPT !.sats = draft.sats + WeiToSats(EthOut(draft.native))])

Prepared(output, invoice, onchain, pair) ==
  /\ quote' = [route |-> draft.route, output |-> output, invoice |-> invoice,
               estimate |-> onchain, slip |-> draft.slip, pair |-> pair, since |-> draft.since]
  /\ pc' = "prepared" /\ draft' = NoDraft /\ UNCHANGED cached /\ Frame

ApplyBoltzFee ==
  /\ pc = "pair" /\ PairIsUsable /\ market.pair.pct < Bps
  /\ LET invoice == ComputeInvoice(market.pair, draft.sats) IN
       InLimits(market.pair, invoice) /\ Prepared(draft.goal, invoice, draft.sats, market.pair)

-----------------------------------------------------------------------------
(* prepare_from_sats.  The quote's pair is the one read first.             *)
PrepareFromSats(route, invoice, slip) ==
  /\ pc = "idle" /\ SlippageAllowed(slip)
  /\ PairIsUsable /\ InLimits(market.pair, invoice) /\ ComputeOnchain(market.pair, invoice) >= 0
  /\ quote' = [NoQuote EXCEPT !.invoice = invoice, !.pair = market.pair]
  /\ draft' = [NoDraft EXCEPT !.route = route, !.mode = "in", !.slip = slip,
                 !.goal = invoice, !.sats = ComputeOnchain(market.pair, invoice), !.since = moves]
  /\ pc' = IF IsOft(route) THEN "options" ELSE "inLeg"
  /\ UNCHANGED cached /\ Frame

Forward(output) ==
  output <= MaxU64
    /\ Prepared(output, quote.invoice, ComputeOnchain(quote.pair, quote.invoice), quote.pair)

FetchQuoteIn ==
  /\ pc = "inLeg"
  /\ \E v \in Quoting :
       LET out == InAt(v, draft.sats * SatsFactor) IN
         /\ BestIn(draft.sats * SatsFactor, v) /\ out > 0
         /\ CASE draft.route = "direct" -> Forward(out)
              [] draft.route = "cctp" -> Step("inFee", [draft EXCEPT !.need = out])
              [] OTHER -> Step("inMsgFee", draft)

SubtractBurnFee ==
  /\ pc = "inFee"
  /\ LET output == SatSub(draft.need, TotalFee(draft.need, GetFee(CctpNeedsSetup))) IN
       output > 0 /\ Forward(output)

QuoteMessagingFeeIn ==
  /\ pc = "inMsgFee"
  /\ Step(IF QuoteSend(draft.setup) = 0 THEN "inAdjusted" ELSE "inEthLeg",
          [draft EXCEPT !.native = QuoteSend(draft.setup)])

SubtractMessagingFee ==
  /\ pc = "inEthLeg" /\ EthOut(draft.native) > 0
  /\ draft.sats > WeiToSats(EthOut(draft.native))
  /\ Step("inAdjusted", [draft EXCEPT !.sats = draft.sats - WeiToSats(EthOut(draft.native))])

QuoteAdjusted ==
  /\ pc = "inAdjusted"
  /\ \E v \in Quoting :
       LET out == InAt(v, draft.sats * SatsFactor) IN
         /\ BestIn(draft.sats * SatsFactor, v) /\ out > 0
         /\ Step("inOft", [draft EXCEPT !.need = out])

QuoteOftReceived == pc = "inOft" /\ Forward(QuoteOft(draft.route, draft.need))

(* A read fails, a quote is zero or missing, an amount is out of range.    *)
PrepareFails ==
  /\ pc \in PreparePoints
  /\ pc' = "idle" /\ draft' = NoDraft /\ quote' = NoQuote /\ UNCHANGED cached /\ Frame

-----------------------------------------------------------------------------
(* create.  Boltz locks what it answered; the quote may expire first.      *)
AmountAccepted(onchain) == onchain >= quote.estimate

Create ==
  /\ pc = "prepared"
  /\ \E onchain \in {quote.estimate - 1, ComputeOnchain(quote.pair, quote.invoice)} :
       \/ /\ onchain >= 0 /\ AmountAccepted(onchain)
          /\ swap' = [route |-> quote.route, expected |-> quote.output, onchain |-> onchain,
                      slip |-> quote.slip, since |-> quote.since]
          /\ pc' = "locked"
       \/ pc' = "idle" /\ UNCHANGED swap
  /\ quote' = NoQuote
  /\ UNCHANGED <<world, cached, draft, order, attempts, delivered>>

(* update_swap_slippage, under the swap's lock: never within an attempt.   *)
UpdateSwapSlippage(slip) ==
  /\ pc \in {"locked", "degraded", "sent", "reverted"} /\ SlippageAllowed(slip)
  /\ swap' = [swap EXCEPT !.slip = slip]
  /\ UNCHANGED <<world, cached, pc, draft, quote, order, attempts, delivered>>

-----------------------------------------------------------------------------
(* One claim attempt: try_claim_same_chain, _cctp, _cross_chain.           *)
OrderStep(point, o) ==
  /\ pc' = point /\ order' = o
  /\ UNCHANGED <<world, cached, draft, quote, swap, attempts, delivered>>
TotalWei == swap.onchain * SatsFactor

TryClaim(accept) ==
  /\ pc \in {"locked", "reverted"} \cup (IF accept THEN {"degraded"} ELSE {})
  /\ attempts < MaxAttempts /\ attempts' = attempts + 1
  /\ order' = [NoOrder EXCEPT !.accepted = accept, !.slip = swap.slip, !.trade = TotalWei,
                            !.since = moves]
  /\ pc' = IF IsOft(swap.route) THEN "cOptions" ELSE "cTrade"
  /\ UNCHANGED <<world, cached, draft, quote, swap, delivered>>

ClaimOptions ==
  /\ pc = "cOptions" /\ pc' = "cFee"
  /\ order' = [order EXCEPT !.setup = NeedsSetup] /\ cached' = (cached \/ ata)
  /\ UNCHANGED <<world, draft, quote, swap, attempts, delivered>>

(* Pass 1: the messaging fee, and its price in tBTC with a buffer.         *)
EstimateMessagingFee ==
  /\ pc = "cFee"
  /\ OrderStep("cEth", [order EXCEPT !.native = QuoteSend(order.setup)])

SplitForFee ==
  /\ pc = "cEth" /\ SlippageFits(order.native, order.slip)
  /\ LET gas == EthOut(SlippageUp(order.native, order.slip)) IN
       /\ gas < TotalWei
       /\ OrderStep("cTrade", [order EXCEPT !.gas = gas, !.trade = TotalWei - gas])

QuoteTrade ==
  /\ pc = "cTrade"
  /\ \E v \in Quoting :
       /\ BestIn(order.trade, v) /\ InAt(v, order.trade) > 0
       /\ OrderStep(CASE swap.route = "direct" -> "cSign" [] swap.route = "cctp" -> "cBurnFee"
                      [] OTHER -> "cOft",
                    [order EXCEPT !.venue = v, !.best = InAt(v, order.trade),
                                  !.fresh = InAt(v, order.trade)])

QuoteBurnFee ==
  /\ pc = "cBurnFee"
  /\ LET maxFee == WithFeeBuffer(TotalFee(order.best, GetFee(CctpNeedsSetup))) IN
       OrderStep("cSign", [order EXCEPT !.setup = CctpNeedsSetup, !.maxFee = maxFee,
                                        !.fresh = SatSub(order.best, maxFee)])

QuoteDelivery ==
  /\ pc = "cOft"
  /\ OrderStep("cSign", [order EXCEPT !.fresh = QuoteOft(swap.route, order.best)])

Degrades == ~order.accepted /\ Drifted(swap.expected, order.fresh, order.slip)

QuoteDegraded == pc = "cSign" /\ Degrades /\ OrderStep("degraded", NoOrder)

(* The least amount the Router may deliver or burn.                        *)
FloorIsMin(floor) == floor   \* mutant: the burn fee is not added
SignedMin(floor) == floor + order.maxFee

SignMin ==
  /\ pc = "cSign" /\ ~Degrades
  /\ LET floor == ClaimFloor(swap.expected, order.fresh, order.slip, order.accepted) IN
       /\ floor > 0
       /\ OrderStep(IF IsOft(swap.route) THEN "cApprove" ELSE "cSubmit",
                    [order EXCEPT !.min = SignedMin(floor)])

(* build_oft_approval_call: only the legacy OFT spends an allowance.       *)
BuildApproval ==
  /\ pc = "cApprove"
  /\ OrderStep("cSubmit", [order EXCEPT !.approve = /\ swap.route = "legacy"
                                                    /\ NeedsTopUp(allowance, order.best)])

Submit == pc = "cSubmit" /\ OrderStep("sent", order)

TryClaimFails == pc \in AttemptPoints /\ OrderStep("locked", NoOrder)

-----------------------------------------------------------------------------
(* The Router, the bridges and the rest of the world.                      *)
Bought == InAt(order.venue, order.trade)
Approved == IF order.approve THEN MaxU128 ELSE allowance

Executes ==
  CASE swap.route \in {"direct", "cctp"} -> Bought >= order.min
    [] OTHER -> /\ Bought >= 1 /\ EthIn(order.gas) >= order.native
                /\ EthIn(order.gas) >= market.lz[order.setup]
                /\ QuoteOft(swap.route, Bought) >= order.min
                /\ swap.route = "legacy" => Approved >= Bought

Arrives ==
  CASE swap.route = "direct" -> Bought
    [] swap.route = "cctp" ->
         Bought - Least(TotalFee(Bought, market.cctp[order.setup]), order.maxFee)
    [] swap.route = "native" -> QuoteOft("native", Bought)
    [] swap.route = "legacy" -> Bought - CeilDiv(Bought * LegacyFeeBps, Bps)

Execute ==
  /\ pc = "sent"
  /\ \/ /\ Executes /\ pc' = "done" /\ delivered' = Arrives
        /\ allowance' = IF swap.route = "legacy" THEN Approved - Bought ELSE allowance
     \/ /\ ~Executes /\ pc' = "reverted" /\ UNCHANGED <<delivered, allowance>>
  /\ UNCHANGED <<market, moves, ata, cached, draft, quote, swap, order, attempts>>

Moves ==
  /\ moves < MaxMoves /\ moves' = moves + 1
  /\ \/ market' \in Markets \ {market} /\ UNCHANGED <<ata, allowance>>
     \/ ata' = ~ata /\ UNCHANGED <<market, allowance>>
     \/ allowance > 0 /\ allowance' = 0 /\ UNCHANGED <<market, ata>>
  /\ UNCHANGED <<cached, pc, draft, quote, swap, order, attempts, delivered>>

Preparing ==
  \/ \E route \in Routes, slip \in Slippages :
       \/ \E target \in Targets : Prepare(route, target, slip)
       \/ \E invoice \in Invoices : PrepareFromSats(route, invoice, slip)
  \/ PrepareFee \/ ComputeExtraOptions \/ SearchGrow \/ SearchSplit \/ QuoteMessagingFee
  \/ FetchQuoteOutTbtc \/ FetchQuoteOutTbtcForEth \/ ApplyBoltzFee
  \/ FetchQuoteIn \/ SubtractBurnFee \/ QuoteMessagingFeeIn \/ SubtractMessagingFee
  \/ QuoteAdjusted \/ QuoteOftReceived \/ PrepareFails

Claiming ==
  \/ \E accept \in BOOLEAN : TryClaim(accept)
  \/ ClaimOptions \/ EstimateMessagingFee \/ SplitForFee \/ QuoteTrade \/ QuoteBurnFee
  \/ QuoteDelivery \/ QuoteDegraded \/ SignMin \/ BuildApproval \/ Submit \/ TryClaimFails

Next ==
  \/ Preparing \/ Create \/ Claiming \/ Execute \/ Moves
  \/ \E slip \in Slippages : UpdateSwapSlippage(slip)
Spec == Init /\ [][Next]_vars

-----------------------------------------------------------------------------
TypeOK ==
  /\ market \in Markets /\ moves \in 0..MaxMoves /\ ata \in BOOLEAN /\ cached \in BOOLEAN
  /\ allowance \in Int /\ delivered \in Int /\ attempts \in 0..MaxAttempts
  /\ pc \in Points
  /\ draft \in Drafts /\ quote \in Quotes /\ swap \in Swaps /\ order \in Orders

(* Unless the user took a degraded quote, what arrives is at least the     *)
(* amount of the prepared quote less the tolerance of the attempt,         *)
(* whatever the DEX, the bridges and Boltz did since (compute_claim_floor, *)
(* check_quote_drift and the minimum the Router signs).  The legacy mesh   *)
(* is the exception: see NoQuietUnderDelivery.                             *)
FloorIsMet ==
  pc = "done" /\ ~order.accepted /\ swap.route # "legacy"
    => delivered >= SlippageDown(swap.expected, order.slip)

(* The same of every route, as BoltzConfig::slippage_bps documents it.     *)
NoQuietUnderDelivery ==
  pc = "done" /\ ~order.accepted => delivered >= SlippageDown(swap.expected, order.slip)

(* A Boltz that takes the fee it published and locks the rest is never     *)
(* refused by create: compute_invoice_amount rounds so that the forward    *)
(* formula gives back at least the estimate.                               *)
HonestAnswerAccepted ==
  pc = "prepared" => ComputeOnchain(quote.pair, quote.invoice) >= quote.estimate

(* While the bridge's fee stands still, the search of prepare ends on the  *)
(* least amount that delivers the target: the user is neither short nor    *)
(* charged for more.                                                       *)
SearchIsLeast ==
  pc = "msgFee" /\ draft.route = "native" /\ draft.since = moves /\ draft.goal > 0
    => Suffices(draft.need) /\ ~Suffices(draft.need - 1)

(* While the world stands still, no claim is reported as degraded: what    *)
(* prepare rounds down to sats is less than two sats, so a tolerance worth *)
(* that, the buffer of the messaging fee and the cushion of the CCTP fee   *)
(* is never used up by the client's own arithmetic.                        *)
FeeBuffer == order.gas - EthOut(order.native)
FeeCushion ==
  IF swap.route = "cctp" THEN order.maxFee - TotalFee(order.best, GetFee(CctpNeedsSetup)) ELSE 0
ToleranceCovers ==
  LET tolerance == swap.expected - SlippageDown(swap.expected, order.slip) IN
    \A v \in Quoting : (tolerance - FeeCushion) * Unit
                        >= (2 * (SatsFactor - 1) + FeeBuffer) * market.dex[v]
QuietMarketClaims == [][QuoteDegraded /\ ToleranceCovers => moves # swap.since]_vars

(* A claim that reverts has met a world that moved since its attempt       *)
(* began: what is signed and approved is executable at the moment it is    *)
(* signed, so the retries of claim_and_swap are not repeats of a failure.  *)
SubmittedIsExecutable == [][pc = "sent" /\ pc' = "reverted" => moves # order.since]_vars

=============================================================================
