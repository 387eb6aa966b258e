-------------------------- MODULE SwapQuoteProofs --------------------------
(***************************************************************************)
(* What holds of quotes and claims for every market, price, fee, amount,   *)
(* tolerance and number of moves.                                          *)
(***************************************************************************)
EXTENDS SwapQuote, TLAPS

USE DEF QuoteSend, GetFee, CctpNeedsSetup

-----------------------------------------------------------------------------
(* Division that rounds up: the least integer whose product covers a.      *)
LEMMA CeilDivCovers ==
  ASSUME NEW a \in Int, NEW b \in Nat \ {0}
  PROVE  CeilDiv(a, b) \in Int /\ CeilDiv(a, b) * b >= a
BY SMTT(30) DEF CeilDiv

LEMMA CeilDivLeast ==
  ASSUME NEW a \in Int, NEW b \in Nat \ {0}, NEW c \in Int, a <= c * b
  PROVE  CeilDiv(a, b) <= c
BY SMTT(30) DEF CeilDiv

-----------------------------------------------------------------------------
(* The helpers return integers.                                            *)
LEMMA SatSubType ==
  ASSUME NEW a \in Int, NEW b \in Int
  PROVE  SatSub(a, b) \in Nat
BY DEF SatSub

LEMMA SatMulType ==
  ASSUME NEW a \in Int, NEW b \in Int
  PROVE  SatMul(a, b) \in Int
BY AmountsAssumption DEF SatMul, Least

LEMMA SlippageTypes ==
  ASSUME NEW a \in Int, NEW s \in Nat
  PROVE  SlippageUp(a, s) \in Int /\ SlippageDown(a, s) \in Int
BY AmountsAssumption DEF SlippageUp, SlippageDown

LEMMA ClaimFloorType ==
  ASSUME NEW e \in Int, NEW f \in Int, NEW s \in Nat, NEW acc \in BOOLEAN
  PROVE  ClaimFloor(e, f, s, acc) \in Int
BY SlippageTypes DEF ClaimFloor

LEMMA InvoiceType ==
  ASSUME NEW pair \in Pairs, pair.pct < Bps, NEW sats \in Int
  PROVE  ComputeInvoice(pair, sats) \in Int
<1>1. (sats + pair.miner) * Bps \in Int /\ Bps - pair.pct \in Nat \ {0}
  BY AmountsAssumption DEF Pairs
<1> QED BY <1>1, CeilDivCovers DEF ComputeInvoice

LEMMA OnchainType ==
  ASSUME NEW pair \in Pairs, NEW invoice \in Int
  PROVE  ComputeOnchain(pair, invoice) \in Int
<1>1. invoice * pair.pct \in Int /\ Bps \in Nat \ {0}
  BY AmountsAssumption DEF Pairs
<1>2. BoltzFee(pair, invoice) \in Int
  BY <1>1, CeilDivCovers DEF BoltzFee
<1> QED BY <1>2 DEF ComputeOnchain, Pairs

LEMMA TotalFeeType ==
  ASSUME NEW a \in Int, NEW fee \in [bps : Nat, fwd : Nat]
  PROVE  TotalFee(a, fee) \in Int
<1>1. SatMul(a, fee.bps) \in Int
  BY SatMulType
<1> QED BY <1>1, AmountsAssumption DEF TotalFee

LEMMA RequiredBurnType ==
  ASSUME NEW a \in Int, NEW fee \in [bps : Nat, fwd : Nat]
  PROVE  RequiredBurn(a, fee) \in Int
<1> DEFINE net == SatSub(FeeDenom, fee.bps)
<1>1. net \in Nat /\ MaxU128 \in Int
  BY SatSubType, AmountsAssumption
<1>2. SatMul(a + fee.fwd, FeeDenom) \in Int
  BY SatMulType, AmountsAssumption
<1>3. CASE net = 0
  BY <1>1, <1>3 DEF RequiredBurn
<1>4. CASE net # 0
  <2>1. net \in Nat \ {0}
    BY <1>1, <1>4
  <2>2. CeilDiv(SatMul(a + fee.fwd, FeeDenom), net) \in Int
    BY <1>2, <2>1, CeilDivCovers
  <2> QED BY <1>4, <2>2 DEF RequiredBurn
<1> QED BY <1>3, <1>4

LEMMA BufferType ==
  ASSUME NEW fee \in Int
  PROVE  WithFeeBuffer(fee) \in Int
<1>1. SatMul(fee, Bps + BufferBps) \in Int /\ Bps \in Nat \ {0}
  BY SatMulType, AmountsAssumption
<1> QED BY <1>1, CeilDivCovers DEF WithFeeBuffer

LEMMA LegacySourceType ==
  ASSUME NEW a \in Int
  PROVE  LegacySource(a) \in Int
<1>1. a * Bps \in Int /\ Bps - LegacyFeeBps \in Nat \ {0}
  BY AmountsAssumption
<1> QED BY <1>1, CeilDivCovers DEF LegacySource

LEMMA MarketTypes ==
  ASSUME market \in Markets
  PROVE  /\ \A v \in Venues : market.dex[v] \in Nat
         /\ market.eth \in Nat \ {0} /\ market.oft \in 0..Bps
         /\ \A s \in BOOLEAN : market.lz[s] \in Nat
         /\ \A s \in BOOLEAN : market.cctp[s] \in [bps : Nat, fwd : Nat]
         /\ market.pair \in Pairs
BY MarketsAssumption DEF Pairs

LEMMA PriceTypes ==
  ASSUME market \in Markets, NEW a \in Int
  PROVE  /\ \A v \in Venues : InAt(v, a) \in Int
         /\ \A v \in Quoting : v \in Venues /\ OutAt(v, a) \in Int
         /\ EthOut(a) \in Int /\ EthIn(a) \in Int
         /\ WeiToSats(a) \in Int
<1>1. Unit \in Nat \ {0} /\ SatsFactor \in Nat \ {0}
  BY QuoteAssumption, AmountsAssumption
<1>2. ASSUME NEW v \in Venues
      PROVE  InAt(v, a) \in Int
  BY <1>1, MarketTypes DEF InAt
<1>3. ASSUME NEW v \in Quoting
      PROVE  v \in Venues /\ OutAt(v, a) \in Int
  <2>1. v \in Venues /\ market.dex[v] \in Nat \ {0} /\ a * Unit \in Int
    BY <1>1, <1>3, MarketTypes DEF Quoting
  <2> QED BY <2>1, CeilDivCovers DEF OutAt
<1>4. EthOut(a) \in Int
  <2>1. a * Unit \in Int /\ market.eth \in Nat \ {0}
    BY <1>1, MarketTypes
  <2> QED BY <2>1, CeilDivCovers DEF EthOut
<1>5. EthIn(a) \in Int /\ WeiToSats(a) \in Int
  BY <1>1, MarketTypes DEF EthIn, WeiToSats
<1> QED BY <1>2, <1>3, <1>4, <1>5

LEMMA QuoteOftType ==
  ASSUME market \in Markets, NEW route, NEW a \in Int
  PROVE  QuoteOft(route, a) \in Int
<1>1. a * market.oft \in Int /\ Bps \in Nat \ {0}
  BY MarketTypes, AmountsAssumption
<1> QED BY <1>1, CeilDivCovers DEF QuoteOft

-----------------------------------------------------------------------------
(* Type correctness.                                                       *)
LEMMA Tolerances ==
  ASSUME NEW slip \in Int, SlippageAllowed(slip)
  PROVE  slip \in 0..MaxSlippage
BY AmountsAssumption DEF SlippageAllowed

LEMMA InitType == Init => TypeOK
<1> SUFFICES ASSUME Init PROVE TypeOK
  OBVIOUS
<1>1. MaxSearch \in Nat /\ MaxMoves \in Nat /\ MaxAttempts \in Nat /\ Allowances \subseteq Nat
      /\ MaxSlippage \in Nat
  BY QuoteAssumption, AmountsAssumption
<1>2. NoDraft \in Drafts
  BY <1>1 DEF NoDraft, Drafts, RouteNames
<1>3. NoQuote \in Quotes /\ NoSwap \in Swaps
  BY <1>1 DEF NoQuote, Quotes, RouteNames, Pairs, NoSwap, Swaps
<1>4. NoOrder \in Orders
  BY <1>1 DEF NoOrder, Orders
<1>5. cached \in BOOLEAN
  BY ZenonT(20) DEF Init
<1>6. 0 \in 0..MaxMoves /\ 0 \in 0..MaxAttempts /\ pc \in Points
  BY <1>1 DEF Init, Points
<1>7. market \in Markets /\ moves = 0 /\ ata \in BOOLEAN /\ allowance \in Int /\ delivered \in Int
      /\ attempts = 0
  BY <1>1 DEF Init
<1> QED BY <1>2, <1>3, <1>4, <1>5, <1>6, <1>7 DEF Init, TypeOK

LEMMA Blanks == NoDraft \in Drafts /\ NoQuote \in Quotes /\ NoOrder \in Orders
<1>1. MaxSearch \in Nat /\ MaxMoves \in Nat /\ MaxSlippage \in Nat
  BY QuoteAssumption, AmountsAssumption
<1>2. NoDraft \in Drafts
  BY <1>1 DEF NoDraft, Drafts, RouteNames
<1>3. NoQuote \in Quotes
  BY <1>1 DEF NoQuote, Quotes, RouteNames, Pairs
<1>4. NoOrder \in Orders
  BY <1>1 DEF NoOrder, Orders
<1> QED BY <1>2, <1>3, <1>4

LEMMA StepType ==
  ASSUME TypeOK, NEW d \in Drafts, NEW point \in Points, Step(point, d)
  PROVE  TypeOK'
BY DEF Step, Frame, TypeOK, world

LEMMA PreparedType ==
  ASSUME TypeOK, NEW output \in Int, NEW invoice \in Int, NEW onchain \in Int,
         NEW pair \in Pairs, Prepared(output, invoice, onchain, pair)
  PROVE  TypeOK'
<1>1. draft \in Drafts
  BY DEF TypeOK
<1>2. quote' \in Quotes
  BY <1>1 DEF Prepared, Quotes, Drafts
<1> QED BY <1>2, Blanks DEF Prepared, Frame, TypeOK, Points, world

LEMMA OrderStepType ==
  ASSUME TypeOK, NEW o \in Orders, NEW point \in Points, OrderStep(point, o)
  PROVE  TypeOK'
BY DEF OrderStep, TypeOK, world

LEMMA PreparingType == TypeOK /\ Preparing => TypeOK'
<1> SUFFICES ASSUME TypeOK, Preparing PROVE TypeOK'
  OBVIOUS
<1>a. market \in Markets /\ draft \in Drafts /\ quote \in Quotes /\ ata \in BOOLEAN
      /\ cached \in BOOLEAN /\ moves \in 0..MaxMoves
  BY DEF TypeOK
<1>b. MaxSearch \in Nat /\ MaxMoves \in Nat /\ MaxU64 \in Nat /\ SatsFactor \in Nat
  BY QuoteAssumption, AmountsAssumption
<1>c. /\ draft.goal \in Int /\ draft.need \in Int /\ draft.sats \in Int /\ draft.native \in Int
      /\ draft.low \in Int /\ draft.high \in Int /\ draft.setup \in BOOLEAN
      /\ draft.tries \in 0..MaxSearch
  BY <1>a DEF Drafts
<1>d. market.pair \in Pairs /\ (\A s \in BOOLEAN : market.lz[s] \in Nat)
      /\ (\A s \in BOOLEAN : market.cctp[s] \in [bps : Nat, fwd : Nat])
  BY <1>a, MarketTypes
<1>e. ASSUME NEW n \in Int
      PROVE  /\ [draft EXCEPT !.need = n] \in Drafts
             /\ [draft EXCEPT !.sats = n] \in Drafts
             /\ [draft EXCEPT !.native = n] \in Drafts
             /\ [draft EXCEPT !.low = n] \in Drafts
             /\ [draft EXCEPT !.high = n] \in Drafts
  BY <1>a DEF Drafts
<1>f. PreparePoints \subseteq Points /\ {"idle", "prepared"} \subseteq Points
  BY DEF Points
<1>g. {"fee", "options", "grow", "split", "msgFee", "leg", "ethLeg", "pair",
       "inLeg", "inFee", "inMsgFee", "inEthLeg", "inAdjusted", "inOft"} \subseteq Points
  BY <1>f DEF PreparePoints
<1>i. NeedsSetup \in BOOLEAN
  BY ZenonT(20) DEF NeedsSetup
<1>j. (~ata) \in BOOLEAN
  BY Zenon
<1>k. market.cctp[~ata] \in [bps : Nat, fwd : Nat]
  BY <1>d, <1>j
<1>1. ASSUME NEW route \in Routes, NEW slip \in Slippages, NEW target \in Targets,
             Prepare(route, target, slip)
      PROVE  TypeOK'
  <2>1. slip \in 0..MaxSlippage /\ target \in Int
    BY <1>1, QuoteAssumption, Tolerances DEF Prepare
  <2> DEFINE d == [NoDraft EXCEPT !.route = route, !.slip = slip, !.goal = target, !.need = target,
                                  !.since = moves]
  <2>2. d \in Drafts
    <3>1. route \in RouteNames /\ moves \in 0..MaxMoves
      BY <1>a DEF RouteNames
    <3> QED BY <2>1, <3>1, Blanks DEF Drafts
  <2> HIDE DEF d
  <2>3. Step("leg", d) \/ Step("fee", d) \/ Step("options", d)
    BY <1>1 DEF Prepare, d
  <2> QED BY <2>2, <2>3, <1>g, StepType
<1>2. ASSUME NEW route \in Routes, NEW slip \in Slippages, NEW invoice \in Invoices,
             PrepareFromSats(route, invoice, slip)
      PROVE  TypeOK'
  <2>1. slip \in 0..MaxSlippage /\ invoice \in Int
    BY <1>2, QuoteAssumption, Tolerances DEF PrepareFromSats
  <2>2. ComputeOnchain(market.pair, invoice) \in Int
    BY <2>1, <1>d, OnchainType
  <2>3. draft' \in Drafts
    BY <2>1, <2>2, <1>a, <1>2, Blanks DEF PrepareFromSats, Drafts, RouteNames
  <2>4. quote' \in Quotes
    <3>1. [NoQuote EXCEPT !.invoice = invoice, !.pair = market.pair] \in Quotes
      BY <2>1, <1>d, Blanks DEF Quotes
    <3> QED BY <3>1, <1>2 DEF PrepareFromSats
  <2>5. pc' \in Points
    BY <1>2, <1>g DEF PrepareFromSats
  <2> QED BY <2>3, <2>4, <2>5, <1>2 DEF PrepareFromSats, Frame, TypeOK, world
<1>3. CASE PrepareFee
  <2> DEFINE burn == RequiredBurn(draft.goal, market.cctp[~ata])
  <2>1. burn \in Int
    BY <1>c, <1>k, RequiredBurnType
  <2>2. Step("leg", [draft EXCEPT !.need = burn])
    BY <1>3 DEF PrepareFee
  <2> QED BY <2>1, <2>2, <1>e, <1>g, StepType
<1>4. CASE ComputeExtraOptions
  <2>1. LegacySource(draft.goal) \in Int /\ NeedsSetup \in BOOLEAN
    BY <1>a, <1>c, LegacySourceType DEF NeedsSetup
  <2>2. draft' \in Drafts
    <3> DEFINE need == IF draft.route = "legacy" THEN LegacySource(draft.goal) ELSE draft.need
    <3>1. need \in Int
      BY <2>1, <1>c
    <3> HIDE DEF need
    <3>2. [draft EXCEPT !.setup = NeedsSetup, !.low = draft.goal, !.high = draft.goal,
                        !.need = need] \in Drafts
      BY <2>1, <3>1, <1>a, <1>c DEF Drafts
    <3> QED BY <3>2, <1>4 DEF ComputeExtraOptions, need
  <2>3. pc' \in Points /\ cached' \in BOOLEAN
    BY <1>a, <1>g, <1>4 DEF ComputeExtraOptions
  <2> QED BY <2>2, <2>3, <1>4 DEF ComputeExtraOptions, Frame, TypeOK, world
<1>5. CASE SearchGrow
  <2>1. CASE Step("split", draft)
    BY <2>1, <1>a, <1>g, StepType
  <2> DEFINE d == [draft EXCEPT !.low = draft.high + 1, !.high = 2 * draft.high,
                                !.tries = draft.tries + 1]
  <2>2. CASE TriesLeft /\ Step("grow", d)
    <3>1. d \in Drafts
      <4>1. draft.high + 1 \in Int /\ 2 * draft.high \in Int /\ draft.tries + 1 \in 0..MaxSearch
        BY <2>2, <1>b, <1>c DEF TriesLeft
      <4> QED BY <4>1, <1>a DEF Drafts
    <3> QED BY <2>2, <3>1, <1>g, StepType
  <2> QED BY <2>1, <2>2, <1>5 DEF SearchGrow
<1>6. CASE SearchSplit
  <2> DEFINE mid == draft.low + (draft.high - draft.low) \div 2
  <2>1. mid \in Int
    BY <1>c
  <2> HIDE DEF mid
  <2>2. Narrowed(mid) \in Drafts
    <3>1. mid + 1 \in Int
      BY <2>1
    <3>2. [draft EXCEPT !.high = mid] \in Drafts /\ [draft EXCEPT !.low = mid + 1] \in Drafts
      BY <2>1, <3>1, <1>e
    <3> QED BY <3>2, Zenon DEF Narrowed
  <2>3. CASE Step("split", Narrowed(mid))
    BY <2>2, <2>3, <1>g, StepType
  <2>4. CASE Step("msgFee", [draft EXCEPT !.need = draft.low])
    BY <2>4, <1>c, <1>e, <1>g, StepType
  <2> QED BY <2>3, <2>4, <1>6 DEF SearchSplit, mid
<1>7. CASE QuoteMessagingFee
  <2>1. market.lz[draft.setup] \in Int
    BY <1>c, <1>d
  <2>2. [draft EXCEPT !.native = market.lz[draft.setup]] \in Drafts
    BY <2>1, <1>e
  <2> QED BY <2>2, <1>7, <1>g, StepType DEF QuoteMessagingFee
<1>8. CASE FetchQuoteOutTbtc
  <2>1. PICK v \in Quoting :
          Step(IF draft.native > 0 THEN "ethLeg" ELSE "pair",
               [draft EXCEPT !.sats = WeiToSats(OutAt(v, draft.need))])
    BY <1>8 DEF FetchQuoteOutTbtc
  <2>2. WeiToSats(OutAt(v, draft.need)) \in Int
    BY <1>a, <1>c, PriceTypes
  <2> QED BY <2>1, <2>2, <1>e, <1>g, StepType
<1>9. CASE FetchQuoteOutTbtcForEth
  <2>1. draft.sats + WeiToSats(EthOut(draft.native)) \in Int
    BY <1>a, <1>c, PriceTypes
  <2> QED BY <2>1, <1>9, <1>e, <1>g, StepType DEF FetchQuoteOutTbtcForEth
<1>10. CASE ApplyBoltzFee
  <2>1. ComputeInvoice(market.pair, draft.sats) \in Int
    BY <1>10, <1>c, <1>d, InvoiceType DEF ApplyBoltzFee
  <2> QED BY <2>1, <1>10, <1>c, <1>d, PreparedType DEF ApplyBoltzFee
<1>h. ASSUME NEW output \in Int, Forward(output)
      PROVE  TypeOK'
  <2>1. quote.pair \in Pairs /\ quote.invoice \in Int
    BY <1>a DEF Quotes
  <2>2. ComputeOnchain(quote.pair, quote.invoice) \in Int
    BY <2>1, OnchainType
  <2> QED BY <1>h, <2>1, <2>2, PreparedType DEF Forward
<1>11. CASE FetchQuoteIn
  <2>1. draft.sats * SatsFactor \in Int
    BY <1>b, <1>c
  <2>2. PICK v \in Quoting :
          LET out == InAt(v, draft.sats * SatsFactor) IN
            CASE draft.route = "direct" -> Forward(out)
              [] draft.route = "cctp" -> Step("inFee", [draft EXCEPT !.need = out])
              [] OTHER -> Step("inMsgFee", draft)
    BY <1>11 DEF FetchQuoteIn
  <2> DEFINE out == InAt(v, draft.sats * SatsFactor)
  <2>3. out \in Int
    BY <2>1, <1>a, PriceTypes DEF Quoting
  <2> HIDE DEF out
  <2>4. CASE draft.route = "direct"
    <3>1. Forward(out)
      BY <2>2, <2>4 DEF out
    <3> QED BY <3>1, <2>3, <1>h
  <2>5. CASE draft.route = "cctp"
    <3>1. Step("inFee", [draft EXCEPT !.need = out])
      BY <2>2, <2>5 DEF out
    <3> QED BY <3>1, <2>3, <1>e, <1>g, StepType
  <2>6. CASE draft.route # "direct" /\ draft.route # "cctp"
    <3>1. Step("inMsgFee", draft)
      BY <2>2, <2>6
    <3> QED BY <3>1, <1>a, <1>g, StepType
  <2> QED BY <2>4, <2>5, <2>6
<1>12. CASE SubtractBurnFee
  <2> DEFINE output == SatSub(draft.need, TotalFee(draft.need, market.cctp[~ata]))
  <2>1. TotalFee(draft.need, market.cctp[~ata]) \in Int
    BY <1>c, <1>k, TotalFeeType
  <2>2. output \in Int
    <3>1. output \in Nat
      BY <2>1, <1>c, SatSubType
    <3> QED BY <3>1
  <2> QED BY <2>2, <1>12, <1>h DEF SubtractBurnFee
<1>13. CASE QuoteMessagingFeeIn
  <2>1. market.lz[draft.setup] \in Int
    BY <1>c, <1>d
  <2>2. [draft EXCEPT !.native = market.lz[draft.setup]] \in Drafts
    BY <2>1, <1>e
  <2> QED BY <2>2, <1>13, <1>g, StepType DEF QuoteMessagingFeeIn
<1>14. CASE SubtractMessagingFee
  <2>1. draft.sats - WeiToSats(EthOut(draft.native)) \in Int
    BY <1>a, <1>c, PriceTypes
  <2> QED BY <2>1, <1>14, <1>e, <1>g, StepType DEF SubtractMessagingFee
<1>15. CASE QuoteAdjusted
  <2>1. draft.sats * SatsFactor \in Int
    BY <1>b, <1>c
  <2>2. PICK v \in Quoting :
          Step("inOft", [draft EXCEPT !.need = InAt(v, draft.sats * SatsFactor)])
    BY <1>15 DEF QuoteAdjusted
  <2>3. InAt(v, draft.sats * SatsFactor) \in Int
    BY <2>1, <1>a, PriceTypes DEF Quoting
  <2> QED BY <2>2, <2>3, <1>e, <1>g, StepType
<1>16. CASE QuoteOftReceived
  BY <1>16, <1>a, <1>c, <1>h, QuoteOftType DEF QuoteOftReceived
<1>17. CASE PrepareFails
  BY <1>17, Blanks, <1>f DEF PrepareFails, Frame, TypeOK, world
<1> QED
  BY <1>1, <1>2, <1>3, <1>4, <1>5, <1>6, <1>7, <1>8, <1>9, <1>10, <1>11, <1>12, <1>13, <1>14,
     <1>15, <1>16, <1>17 DEF Preparing

LEMMA ClaimingType == TypeOK /\ Claiming => TypeOK'
<1> SUFFICES ASSUME TypeOK, Claiming PROVE TypeOK'
  OBVIOUS
<1>a. market \in Markets /\ order \in Orders /\ swap \in Swaps /\ ata \in BOOLEAN
      /\ cached \in BOOLEAN /\ moves \in 0..MaxMoves /\ attempts \in 0..MaxAttempts
  BY DEF TypeOK
<1>b. MaxAttempts \in Nat /\ MaxMoves \in Nat /\ SatsFactor \in Nat
  BY QuoteAssumption, AmountsAssumption
<1>c. /\ order.native \in Int /\ order.gas \in Int /\ order.trade \in Int /\ order.best \in Int
      /\ order.fresh \in Int /\ order.maxFee \in Int /\ order.slip \in Nat
      /\ order.setup \in BOOLEAN /\ order.accepted \in BOOLEAN
      /\ swap.expected \in Int /\ swap.onchain \in Int /\ swap.slip \in 0..MaxSlippage
  BY <1>a, AmountsAssumption DEF Orders, Swaps
<1>d. (\A s \in BOOLEAN : market.lz[s] \in Nat)
      /\ (\A s \in BOOLEAN : market.cctp[s] \in [bps : Nat, fwd : Nat])
  BY <1>a, MarketTypes
<1>e. {"cOptions", "cFee", "cEth", "cTrade", "cBurnFee", "cOft", "cSign", "cApprove", "cSubmit",
       "locked", "degraded", "sent"} \subseteq Points
  BY DEF Points, AttemptPoints
<1>f. NoOrder \in Orders /\ TotalWei \in Int
  BY Blanks, <1>b, <1>c DEF TotalWei
<1>g. ASSUME NEW n \in Int
      PROVE  /\ [order EXCEPT !.native = n] \in Orders
             /\ [order EXCEPT !.fresh = n] \in Orders
             /\ [order EXCEPT !.min = n] \in Orders
  BY <1>a DEF Orders
<1>h. ASSUME NEW b \in BOOLEAN
      PROVE  [order EXCEPT !.setup = b] \in Orders /\ [order EXCEPT !.approve = b] \in Orders
  BY <1>a DEF Orders
<1>i. NeedsSetup \in BOOLEAN /\ (~ata) \in BOOLEAN
  BY ZenonT(20) DEF NeedsSetup
<1>1. ASSUME NEW accept \in BOOLEAN, TryClaim(accept)
      PROVE  TypeOK'
  <2>1. [NoOrder EXCEPT !.accepted = accept, !.slip = swap.slip, !.trade = TotalWei,
                        !.since = moves] \in Orders
    BY <1>a, <1>c, <1>f DEF Orders
  <2>2. attempts' \in 0..MaxAttempts
    BY <1>1, <1>a, <1>b DEF TryClaim
  <2>3. pc' \in Points
    BY <1>1, <1>e DEF TryClaim
  <2> QED BY <1>1, <2>1, <2>2, <2>3 DEF TryClaim, TypeOK, world
<1>2. CASE ClaimOptions
  <2>1. order' \in Orders
    BY <1>2, <1>h, <1>i DEF ClaimOptions
  <2>2. pc' \in Points
    BY <1>2, <1>e DEF ClaimOptions
  <2>3. cached' \in BOOLEAN
    BY <1>2, Zenon DEF ClaimOptions
  <2> QED BY <1>2, <2>1, <2>2, <2>3 DEF ClaimOptions, TypeOK, world
<1>3. CASE EstimateMessagingFee
  <2>1. market.lz[order.setup] \in Int
    BY <1>c, <1>d
  <2> QED BY <2>1, <1>3, <1>e, <1>g, OrderStepType DEF EstimateMessagingFee
<1>4. CASE SplitForFee
  <2> DEFINE gas == EthOut(SlippageUp(order.native, order.slip))
  <2>1. gas \in Int
    <3>1. SlippageUp(order.native, order.slip) \in Int
      BY <1>c, SlippageTypes
    <3> QED BY <3>1, <1>a, PriceTypes
  <2>2. OrderStep("cTrade", [order EXCEPT !.gas = gas, !.trade = TotalWei - gas])
    BY <1>4 DEF SplitForFee
  <2> HIDE DEF gas
  <2>3. TotalWei - gas \in Int
    BY <2>1, <1>f
  <2>4. [order EXCEPT !.gas = gas, !.trade = TotalWei - gas] \in Orders
    BY <2>1, <2>3, <1>a DEF Orders
  <2> QED BY <2>2, <2>4, <1>e, OrderStepType
<1>5. CASE QuoteTrade
  <2>1. PICK v \in Quoting :
          OrderStep(CASE swap.route = "direct" -> "cSign" [] swap.route = "cctp" -> "cBurnFee"
                      [] OTHER -> "cOft",
                    [order EXCEPT !.venue = v, !.best = InAt(v, order.trade),
                                  !.fresh = InAt(v, order.trade)])
    BY <1>5 DEF QuoteTrade
  <2>2. v \in {0} \cup Venues /\ InAt(v, order.trade) \in Int
    BY <1>a, <1>c, PriceTypes
  <2>3. [order EXCEPT !.venue = v, !.best = InAt(v, order.trade),
                      !.fresh = InAt(v, order.trade)] \in Orders
    BY <2>2, <1>a DEF Orders
  <2> QED BY <2>1, <2>3, <1>e, OrderStepType
<1>6. CASE QuoteBurnFee
  <2> DEFINE maxFee == WithFeeBuffer(TotalFee(order.best, market.cctp[~ata]))
  <2>1. maxFee \in Int
    <3>1. TotalFee(order.best, market.cctp[~ata]) \in Int
      BY <1>c, <1>d, <1>i, TotalFeeType
    <3> QED BY <3>1, BufferType
  <2>2. OrderStep("cSign", [order EXCEPT !.setup = ~ata, !.maxFee = maxFee,
                                         !.fresh = SatSub(order.best, maxFee)])
    BY <1>6 DEF QuoteBurnFee
  <2> HIDE DEF maxFee
  <2>3. SatSub(order.best, maxFee) \in Int
    <3>1. SatSub(order.best, maxFee) \in Nat
      BY <2>1, <1>c, SatSubType
    <3> QED BY <3>1
  <2>4. [order EXCEPT !.setup = ~ata, !.maxFee = maxFee,
                      !.fresh = SatSub(order.best, maxFee)] \in Orders
    BY <2>1, <2>3, <1>a, <1>i DEF Orders
  <2> QED BY <2>2, <2>4, <1>e, OrderStepType
<1>7. CASE QuoteDelivery
  <2>1. QuoteOft(swap.route, order.best) \in Int
    BY <1>a, <1>c, QuoteOftType
  <2> QED BY <2>1, <1>7, <1>e, <1>g, OrderStepType DEF QuoteDelivery
<1>8. CASE QuoteDegraded
  BY <1>8, <1>e, <1>f, OrderStepType DEF QuoteDegraded
<1>9. CASE SignMin
  <2> DEFINE floor == ClaimFloor(swap.expected, order.fresh, order.slip, order.accepted)
  <2>1. floor \in Int
    BY <1>c, ClaimFloorType
  <2>2. OrderStep(IF IsOft(swap.route) THEN "cApprove" ELSE "cSubmit",
                  [order EXCEPT !.min = SignedMin(floor)])
    BY <1>9 DEF SignMin
  <2> HIDE DEF floor
  <2>3. SignedMin(floor) \in Int
    BY <2>1, <1>c DEF SignedMin
  <2> QED BY <2>2, <2>3, <1>e, <1>g, OrderStepType
<1>10. CASE BuildApproval
  <2> DEFINE approve == swap.route = "legacy" /\ NeedsTopUp(allowance, order.best)
  <2>1. approve \in BOOLEAN
    BY Zenon
  <2> HIDE DEF approve
  <2>2. [order EXCEPT !.approve = approve] \in Orders
    BY <2>1, <1>h
  <2> QED BY <2>2, <1>10, <1>e, OrderStepType DEF BuildApproval, approve
<1>11. CASE Submit
  BY <1>11, <1>a, <1>e, OrderStepType DEF Submit
<1>12. CASE TryClaimFails
  BY <1>12, <1>e, <1>f, OrderStepType DEF TryClaimFails
<1> QED
  BY <1>1, <1>2, <1>3, <1>4, <1>5, <1>6, <1>7, <1>8, <1>9, <1>10, <1>11, <1>12 DEF Claiming

(* A preparing step leaves the world and the claim alone.                  *)
LEMMA PreparingFrame ==
  ASSUME Preparing
  PROVE  /\ pc \in PreparePoints \cup {"idle"}
         /\ pc' \in PreparePoints \cup {"idle", "prepared"}
         /\ UNCHANGED <<market, moves, ata, allowance, swap, order, attempts, delivered>>
BY DEF Preparing, Prepare, PrepareFee, ComputeExtraOptions, SearchGrow, SearchSplit,
   QuoteMessagingFee, FetchQuoteOutTbtc, FetchQuoteOutTbtcForEth, ApplyBoltzFee,
   PrepareFromSats, Forward, FetchQuoteIn, SubtractBurnFee, QuoteMessagingFeeIn,
   SubtractMessagingFee, QuoteAdjusted, QuoteOftReceived, PrepareFails, Step, Prepared,
   Frame, world, PreparePoints

(* From the DEX quote of an attempt on, its venue is one that quoted.      *)
VenueKnown ==
  pc \in {"cBurnFee", "cOft", "cSign", "cApprove", "cSubmit", "sent"} => order.venue \in Venues

LEMMA VenueNext == TypeOK /\ VenueKnown /\ [Next]_vars => VenueKnown'
<1> SUFFICES ASSUME TypeOK, VenueKnown, [Next]_vars PROVE VenueKnown'
  OBVIOUS
<1>a. order \in Orders
  BY DEF TypeOK
<1>1. CASE Preparing
  <2>1. pc' \in PreparePoints \cup {"idle", "prepared"}
    BY <1>1, PreparingFrame
  <2> QED BY <2>1 DEF VenueKnown, PreparePoints
<1>2. CASE Create \/ Moves \/ (\E slip \in Slippages : UpdateSwapSlippage(slip))
  BY <1>2 DEF Create, Moves, UpdateSwapSlippage, VenueKnown
<1>3. CASE Claiming
  <2>1. ASSUME NEW accept \in BOOLEAN, TryClaim(accept)
        PROVE  VenueKnown'
    BY <2>1 DEF TryClaim, VenueKnown
  <2>2. CASE ClaimOptions \/ EstimateMessagingFee \/ SplitForFee
    BY <2>2 DEF ClaimOptions, EstimateMessagingFee, SplitForFee, OrderStep, VenueKnown
  <2>3. CASE QuoteTrade
    <3>1. PICK v \in Venues : order' = [order EXCEPT !.venue = v, !.best = InAt(v, order.trade),
                                                     !.fresh = InAt(v, order.trade)]
      BY <2>3 DEF QuoteTrade, OrderStep, Quoting
    <3> QED BY <3>1, <1>a DEF VenueKnown, Orders
  <2>4. CASE QuoteBurnFee \/ QuoteDelivery \/ SignMin \/ BuildApproval \/ Submit
    BY <2>4, <1>a DEF QuoteBurnFee, QuoteDelivery, SignMin, BuildApproval, Submit, OrderStep,
       VenueKnown, Orders
  <2>5. CASE QuoteDegraded \/ TryClaimFails
    BY <2>5 DEF QuoteDegraded, TryClaimFails, OrderStep, VenueKnown
  <2> QED BY <1>3, <2>1, <2>2, <2>3, <2>4, <2>5 DEF Claiming
<1>4. CASE Execute
  BY <1>4 DEF Execute, VenueKnown
<1>5. CASE UNCHANGED vars
  BY <1>5 DEF vars, VenueKnown
<1> QED BY <1>1, <1>2, <1>3, <1>4, <1>5 DEF Next

LEMMA NextType == TypeOK /\ VenueKnown /\ [Next]_vars => TypeOK'
<1> SUFFICES ASSUME TypeOK, VenueKnown, [Next]_vars PROVE TypeOK'
  OBVIOUS
<1>a. market \in Markets /\ order \in Orders /\ swap \in Swaps /\ quote \in Quotes
      /\ moves \in 0..MaxMoves
  BY DEF TypeOK
<1>b. MaxMoves \in Nat /\ {"idle", "locked", "done", "reverted"} \subseteq Points
  BY QuoteAssumption DEF Points
<1>1. CASE Preparing
  BY <1>1, PreparingType
<1>2. CASE Create
  <2>1. quote.pair \in Pairs /\ quote.invoice \in Int /\ quote.estimate \in Int
        /\ quote.route \in RouteNames /\ quote.output \in Int /\ quote.slip \in 0..MaxSlippage
        /\ quote.since \in 0..MaxMoves
    BY <1>a DEF Quotes
  <2>2. ComputeOnchain(quote.pair, quote.invoice) \in Int
    BY <2>1, OnchainType
  <2>3. swap' \in Swaps /\ pc' \in Points
    BY <1>2, <1>a, <1>b, <2>1, <2>2 DEF Create, Swaps
  <2> QED BY <1>2, <2>3, Blanks DEF Create, TypeOK, world
<1>3. CASE Claiming
  BY <1>3, ClaimingType
<1>4. CASE Execute
  <2>1. order.venue \in {0} \cup Venues /\ order.trade \in Int /\ order.maxFee \in Int
        /\ order.setup \in BOOLEAN
    BY <1>a DEF Orders
  <2>2. order.venue \in Venues
    BY <1>4 DEF Execute, VenueKnown
  <2>3. Bought \in Int
    BY <2>1, <2>2, <1>a, PriceTypes DEF Bought
  <2>4. MaxU128 \in Int /\ Bps \in Nat \ {0} /\ LegacyFeeBps \in Int /\ allowance \in Int
    BY AmountsAssumption DEF TypeOK
  <2>5. Arrives \in Int
    <3>1. TotalFee(Bought, market.cctp[order.setup]) \in Int
      BY <2>1, <2>3, <1>a, MarketTypes, TotalFeeType
    <3>2. Bought * LegacyFeeBps \in Int
      BY <2>3, <2>4
    <3>3. CeilDiv(Bought * LegacyFeeBps, Bps) \in Int
      BY <3>2, <2>4, CeilDivCovers
    <3>4. QuoteOft("native", Bought) \in Int
      BY <2>3, <1>a, QuoteOftType
    <3>5. swap.route \in {"direct", "cctp", "native", "legacy"}
      BY <1>a, QuoteAssumption DEF Swaps, RouteNames
    <3> QED BY <2>1, <2>3, <3>1, <3>3, <3>4, <3>5 DEF Arrives, Least
  <2>6. Approved \in Int
    BY <2>4 DEF Approved
  <2>7. delivered' \in Int /\ allowance' \in Int /\ pc' \in Points
    BY <1>4, <1>b, <2>3, <2>4, <2>5, <2>6 DEF Execute, TypeOK
  <2> QED BY <1>4, <2>7 DEF Execute, TypeOK
<1>5. CASE Moves
  <2>1. (~ata) \in BOOLEAN
    BY Zenon
  <2>2. moves' \in 0..MaxMoves
    BY <1>5, <1>a, <1>b DEF Moves
  <2>3. market' \in Markets /\ ata' \in BOOLEAN /\ allowance' \in Int
    <3>1. CASE market' \in Markets \ {market} /\ UNCHANGED <<ata, allowance>>
      BY <3>1 DEF TypeOK
    <3>2. CASE ata' = ~ata /\ UNCHANGED <<market, allowance>>
      <4>1. ata' \in BOOLEAN
        BY <2>1, <3>2, Zenon
      <4> QED BY <4>1, <3>2 DEF TypeOK
    <3>3. CASE allowance' = 0 /\ UNCHANGED <<market, ata>>
      BY <3>3 DEF TypeOK
    <3> QED BY <1>5, <3>1, <3>2, <3>3 DEF Moves
  <2> QED BY <1>5, <2>2, <2>3 DEF Moves, TypeOK
<1>6. ASSUME NEW slip \in Slippages, UpdateSwapSlippage(slip)
      PROVE  TypeOK'
  <2>1. slip \in 0..MaxSlippage
    BY <1>6, QuoteAssumption, Tolerances DEF UpdateSwapSlippage
  <2>2. [swap EXCEPT !.slip = slip] \in Swaps
    BY <2>1, <1>a DEF Swaps
  <2> QED BY <1>6, <2>2 DEF UpdateSwapSlippage, TypeOK, world
<1>7. CASE UNCHANGED vars
  BY <1>7 DEF vars, world, TypeOK
<1> QED BY <1>1, <1>2, <1>3, <1>4, <1>5, <1>6, <1>7 DEF Next

(* Every reachable state is well typed.                                    *)
THEOREM TypeCorrect == Spec => []TypeOK
<1>1. Init => TypeOK /\ VenueKnown
  BY InitType DEF Init, VenueKnown
<1>2. TypeOK /\ VenueKnown /\ [Next]_vars => (TypeOK /\ VenueKnown)'
  BY NextType, VenueNext
<1> QED BY <1>1, <1>2, PTL DEF Spec

-----------------------------------------------------------------------------
(* The floor: what an order signs is the tolerated part of the expected    *)
(* amount, above the burn fee, and only a CCTP order has a burn fee.       *)
OrderSound ==
  /\ pc \in PreparePoints \cup {"idle", "prepared"} => order.maxFee = 0
  /\ pc = "cBurnFee" => swap.route = "cctp"
  /\ swap.route # "cctp" => order.maxFee = 0
  /\ pc \in {"cApprove", "cSubmit", "sent"} /\ ~order.accepted
       => order.min = SlippageDown(swap.expected, order.slip) + order.maxFee
  /\ FloorIsMet

LEMMA FloorArrives ==
  ASSUME TypeOK, VenueKnown, OrderSound, pc = "sent", Executes, ~order.accepted,
         swap.route # "legacy"
  PROVE  Arrives >= SlippageDown(swap.expected, order.slip)
<1>1. order.venue \in Venues /\ order.trade \in Int /\ order.maxFee \in Int
      /\ order.setup \in BOOLEAN /\ order.slip \in Nat /\ swap.expected \in Int /\ market \in Markets
  BY AmountsAssumption DEF TypeOK, VenueKnown, Orders, Swaps
<1>2. Bought \in Int
  BY <1>1, PriceTypes DEF Bought
<1>3. SlippageDown(swap.expected, order.slip) \in Int
  BY <1>1, SlippageTypes
<1>4. order.min = SlippageDown(swap.expected, order.slip) + order.maxFee
  BY DEF OrderSound
<1>5. CASE swap.route = "direct"
  BY <1>1, <1>2, <1>3, <1>4, <1>5 DEF Arrives, Executes, OrderSound
<1>6. CASE swap.route = "cctp"
  <2>1. TotalFee(Bought, market.cctp[order.setup]) \in Int
    BY <1>1, <1>2, MarketTypes, TotalFeeType
  <2>2. Least(TotalFee(Bought, market.cctp[order.setup]), order.maxFee) <= order.maxFee
        /\ Least(TotalFee(Bought, market.cctp[order.setup]), order.maxFee) \in Int
    BY <2>1, <1>1 DEF Least
  <2> QED BY <2>2, <1>1, <1>2, <1>3, <1>4, <1>6 DEF Arrives, Executes
<1>7. CASE swap.route = "native"
  <2>1. QuoteOft("native", Bought) \in Int
    BY <1>1, <1>2, QuoteOftType
  <2> QED BY <2>1, <1>3, <1>4, <1>7 DEF Arrives, Executes, OrderSound
<1>8. swap.route \in {"direct", "cctp", "native", "legacy"}
  BY QuoteAssumption DEF TypeOK, Swaps, RouteNames
<1> QED BY <1>5, <1>6, <1>7, <1>8

LEMMA OrderSoundNext == TypeOK /\ VenueKnown /\ OrderSound /\ [Next]_vars => OrderSound'
<1> SUFFICES ASSUME TypeOK, VenueKnown, OrderSound, [Next]_vars PROVE OrderSound'
  OBVIOUS
<1>a. order \in Orders /\ swap \in Swaps
  BY DEF TypeOK
<1>b. NoOrder.maxFee = 0
  BY DEF NoOrder
<1>1. CASE Preparing
  BY <1>1, PreparingFrame DEF OrderSound, FloorIsMet, PreparePoints
<1>2. CASE Create
  <2>1. order.maxFee = 0 /\ order' = order /\ pc' \in {"locked", "idle"}
    BY <1>2 DEF Create, OrderSound
  <2> QED BY <2>1 DEF OrderSound, FloorIsMet
<1>3. CASE Moves
  BY <1>3 DEF Moves, OrderSound, FloorIsMet
<1>4. ASSUME NEW slip \in Slippages, UpdateSwapSlippage(slip)
      PROVE  OrderSound'
  <2>1. swap'.route = swap.route /\ swap'.expected = swap.expected
    BY <1>4, <1>a DEF UpdateSwapSlippage, Swaps
  <2> QED BY <1>4, <2>1 DEF UpdateSwapSlippage, OrderSound, FloorIsMet, PreparePoints
<1>5. CASE Claiming
  <2>1. ASSUME NEW accept \in BOOLEAN, TryClaim(accept)
        PROVE  OrderSound'
    <3>1. order'.maxFee = 0 /\ pc' \in {"cOptions", "cTrade"} /\ swap' = swap
      BY <2>1, <1>b DEF TryClaim, NoOrder
    <3> QED BY <3>1 DEF OrderSound, FloorIsMet, PreparePoints
  <2>2. CASE ClaimOptions \/ EstimateMessagingFee \/ SplitForFee
    <3>1. order'.maxFee = order.maxFee /\ pc' \in {"cFee", "cEth", "cTrade"} /\ swap' = swap
      BY <2>2, <1>a DEF ClaimOptions, EstimateMessagingFee, SplitForFee, OrderStep, Orders
    <3> QED BY <3>1 DEF OrderSound, FloorIsMet, PreparePoints
  <2>3. CASE QuoteTrade
    <3>1. order'.maxFee = order.maxFee /\ swap' = swap
      BY <2>3, <1>a DEF QuoteTrade, OrderStep, Orders
    <3>2. pc' = CASE swap.route = "direct" -> "cSign" [] swap.route = "cctp" -> "cBurnFee"
                  [] OTHER -> "cOft"
      BY <2>3 DEF QuoteTrade, OrderStep
    <3> QED BY <3>1, <3>2 DEF OrderSound, FloorIsMet, PreparePoints
  <2>4. CASE QuoteBurnFee
    <3>1. pc = "cBurnFee" /\ pc' = "cSign" /\ swap' = swap
      BY <2>4 DEF QuoteBurnFee, OrderStep
    <3> QED BY <3>1 DEF OrderSound, FloorIsMet, PreparePoints
  <2>5. CASE QuoteDelivery
    <3>1. order'.maxFee = order.maxFee /\ pc' = "cSign" /\ swap' = swap
      BY <2>5, <1>a DEF QuoteDelivery, OrderStep, Orders
    <3> QED BY <3>1 DEF OrderSound, FloorIsMet, PreparePoints
  <2>6. CASE SignMin
    <3> DEFINE floor == ClaimFloor(swap.expected, order.fresh, order.slip, order.accepted)
    <3>1. order' = [order EXCEPT !.min = SignedMin(floor)] /\ swap' = swap
          /\ pc' \in {"cApprove", "cSubmit"}
      BY <2>6 DEF SignMin, OrderStep
    <3>2. order'.min = floor + order.maxFee /\ order'.maxFee = order.maxFee
          /\ order'.slip = order.slip /\ order'.accepted = order.accepted
      BY <3>1, <1>a DEF Orders, SignedMin
    <3>3. ~order.accepted => floor = SlippageDown(swap.expected, order.slip)
      BY DEF ClaimFloor
    <3> QED BY <3>1, <3>2, <3>3 DEF OrderSound, FloorIsMet, PreparePoints
  <2>7. CASE BuildApproval \/ Submit
    <3>1. order'.min = order.min /\ order'.maxFee = order.maxFee /\ order'.slip = order.slip
          /\ order'.accepted = order.accepted /\ swap' = swap
          /\ pc \in {"cApprove", "cSubmit"} /\ pc' \in {"cSubmit", "sent"}
      BY <2>7, <1>a DEF BuildApproval, Submit, OrderStep, Orders
    <3> QED BY <3>1 DEF OrderSound, FloorIsMet, PreparePoints
  <2>8. CASE QuoteDegraded \/ TryClaimFails
    <3>1. order'.maxFee = 0 /\ pc' \in {"degraded", "locked"} /\ swap' = swap
      BY <2>8, <1>b DEF QuoteDegraded, TryClaimFails, OrderStep
    <3> QED BY <3>1 DEF OrderSound, FloorIsMet, PreparePoints
  <2> QED BY <1>5, <2>1, <2>2, <2>3, <2>4, <2>5, <2>6, <2>7, <2>8 DEF Claiming
<1>6. CASE Execute
  <2>1. swap' = swap /\ order' = order /\ pc = "sent"
    BY <1>6 DEF Execute
  <2>2. CASE Executes /\ pc' = "done" /\ delivered' = Arrives
    <3>1. FloorIsMet'
      BY <2>1, <2>2, FloorArrives DEF FloorIsMet
    <3> QED BY <2>1, <2>2, <3>1 DEF OrderSound, PreparePoints
  <2>3. CASE pc' = "reverted"
    BY <2>1, <2>3 DEF OrderSound, FloorIsMet, PreparePoints
  <2> QED BY <1>6, <2>2, <2>3 DEF Execute
<1>7. CASE UNCHANGED vars
  BY <1>7 DEF vars, OrderSound, FloorIsMet
<1> QED BY <1>1, <1>2, <1>3, <1>4, <1>5, <1>6, <1>7 DEF Next

(* Whatever the prices and fees do after the quote, a claim the user did   *)
(* not accept as degraded delivers the expected amount less the tolerance  *)
(* of its attempt, on every route but the legacy mesh.                     *)
THEOREM FloorMet == Spec => []FloorIsMet
<1>1. Init => TypeOK /\ VenueKnown /\ OrderSound
  <2>1. Init => OrderSound
    BY DEF Init, OrderSound, FloorIsMet, NoOrder, PreparePoints
  <2> QED BY <2>1, InitType DEF Init, VenueKnown
<1>2. TypeOK /\ VenueKnown /\ OrderSound /\ [Next]_vars => (TypeOK /\ VenueKnown /\ OrderSound)'
  BY NextType, VenueNext, OrderSoundNext
<1>3. OrderSound => FloorIsMet
  BY DEF OrderSound
<1> QED BY <1>1, <1>2, <1>3, PTL DEF Spec

-----------------------------------------------------------------------------
(* The invoice of an estimate leaves the estimate: both roundings are up,  *)
(* and the second is the least that covers the fee.                        *)
LEMMA InvoiceCovers ==
  ASSUME NEW pair \in Pairs, pair.pct < Bps, NEW sats \in Int
  PROVE  ComputeOnchain(pair, ComputeInvoice(pair, sats)) >= sats
<1> DEFINE invoice == ComputeInvoice(pair, sats)
<1>1. Bps \in Nat \ {0} /\ pair.pct \in Nat /\ pair.miner \in Nat /\ Bps - pair.pct \in Nat \ {0}
      /\ (sats + pair.miner) * Bps \in Int
  BY AmountsAssumption DEF Pairs
<1>2. invoice \in Int /\ invoice * (Bps - pair.pct) >= (sats + pair.miner) * Bps
  BY <1>1, CeilDivCovers DEF ComputeInvoice
<1> HIDE DEF invoice
<1>3. invoice * pair.pct \in Int /\ invoice - sats - pair.miner \in Int
  BY <1>1, <1>2
<1>4. invoice * pair.pct <= (invoice - sats - pair.miner) * Bps
  BY <1>1, <1>2, SMTT(30)
<1>5. BoltzFee(pair, invoice) <= invoice - sats - pair.miner
  BY <1>1, <1>3, <1>4, CeilDivLeast DEF BoltzFee
<1>6. BoltzFee(pair, invoice) \in Int
  BY <1>1, <1>3, CeilDivCovers DEF BoltzFee
<1>7. ComputeOnchain(pair, invoice) >= sats
  BY <1>1, <1>2, <1>5, <1>6 DEF ComputeOnchain
<1> QED BY <1>7 DEF invoice

(* create never refuses the answer of a Boltz that charges what it         *)
(* published, for every pair, amount and direction of the quote.           *)
THEOREM HonestAccepted == Spec => []HonestAnswerAccepted
<1>1. Init => HonestAnswerAccepted
  BY DEF Init, HonestAnswerAccepted
<1>2. TypeOK /\ HonestAnswerAccepted /\ [Next]_vars => HonestAnswerAccepted'
  <2> SUFFICES ASSUME TypeOK, HonestAnswerAccepted, [Next]_vars PROVE HonestAnswerAccepted'
    OBVIOUS
  <2>a. market.pair \in Pairs /\ quote \in Quotes /\ draft \in Drafts
    BY MarketTypes DEF TypeOK
  <2>1. CASE ApplyBoltzFee
    <3>1. quote'.pair = market.pair /\ quote'.estimate = draft.sats
          /\ quote'.invoice = ComputeInvoice(market.pair, draft.sats) /\ market.pair.pct < Bps
      BY <2>1 DEF ApplyBoltzFee, Prepared
    <3>2. draft.sats \in Int
      BY <2>a DEF Drafts
    <3> QED BY <3>1, <3>2, <2>a, InvoiceCovers DEF HonestAnswerAccepted
  <2>2. ASSUME NEW output, Forward(output)
        PROVE  HonestAnswerAccepted'
    <3>1. quote'.pair = quote.pair /\ quote'.invoice = quote.invoice
          /\ quote'.estimate = ComputeOnchain(quote.pair, quote.invoice)
      BY <2>2 DEF Forward, Prepared
    <3>2. ComputeOnchain(quote.pair, quote.invoice) \in Int
      BY <2>a, OnchainType DEF Quotes
    <3> QED BY <3>1, <3>2 DEF HonestAnswerAccepted
  <2>3. CASE FetchQuoteIn \/ SubtractBurnFee \/ QuoteOftReceived
    <3>1. (\E output : Forward(output)) \/ pc' # "prepared"
      BY <2>3 DEF FetchQuoteIn, SubtractBurnFee, QuoteOftReceived, Step
    <3> QED BY <3>1, <2>2 DEF HonestAnswerAccepted
  <2>4. CASE \E route \in Routes, slip \in Slippages :
               \/ \E target \in Targets : Prepare(route, target, slip)
               \/ \E invoice \in Invoices : PrepareFromSats(route, invoice, slip)
    BY <2>4 DEF Prepare, PrepareFromSats, Step, HonestAnswerAccepted
  <2>5. CASE \/ PrepareFee \/ ComputeExtraOptions \/ SearchGrow \/ SearchSplit
             \/ QuoteMessagingFee \/ FetchQuoteOutTbtc \/ FetchQuoteOutTbtcForEth
             \/ QuoteMessagingFeeIn \/ SubtractMessagingFee \/ QuoteAdjusted \/ PrepareFails
    BY <2>5 DEF PrepareFee, ComputeExtraOptions, SearchGrow, SearchSplit, QuoteMessagingFee,
       FetchQuoteOutTbtc, FetchQuoteOutTbtcForEth, QuoteMessagingFeeIn, SubtractMessagingFee,
       QuoteAdjusted, PrepareFails, Step, HonestAnswerAccepted
  <2>6. CASE Create \/ Claiming
    BY <2>6 DEF Create, Claiming, TryClaim, ClaimOptions, EstimateMessagingFee, SplitForFee,
       QuoteTrade, QuoteBurnFee, QuoteDelivery, QuoteDegraded, SignMin, BuildApproval, Submit,
       TryClaimFails, OrderStep, HonestAnswerAccepted
  <2>7. CASE Execute \/ Moves \/ (\E slip \in Slippages : UpdateSwapSlippage(slip))
             \/ UNCHANGED vars
    BY <2>7 DEF Execute, Moves, UpdateSwapSlippage, vars, HonestAnswerAccepted
  <2> QED BY <2>1, <2>3, <2>4, <2>5, <2>6, <2>7 DEF Next, Preparing
<1> QED BY <1>1, <1>2, TypeCorrect, PTL DEF Spec

-----------------------------------------------------------------------------
(* The search of the send amount: what lies below the interval falls short *)
(* of the target, and once the interval has an end, that end suffices.     *)
SearchSound ==
  /\ draft.since <= moves /\ draft.goal >= 0
  /\ pc \in {"grow", "split"} /\ draft.route = "native" /\ draft.since = moves
       => /\ 1 <= draft.low /\ draft.low <= draft.high /\ ~Suffices(draft.low - 1)
          /\ pc = "split" => Suffices(draft.high)
  /\ SearchIsLeast

LEMMA CeilDivPositive ==
  ASSUME NEW a \in Nat, NEW b \in Nat \ {0}
  PROVE  CeilDiv(a, b) >= 0
<1>1. CeilDiv(a, b) \in Int /\ CeilDiv(a, b) * b >= a
  BY CeilDivCovers
<1> QED BY <1>1, SMTT(30)

LEMMA LessFallsShort ==
  ASSUME market \in Markets, draft.route = "native", draft.goal \in Nat \ {0}
  PROVE  ~Suffices(draft.goal - 1)
<1>1. Bps \in Nat \ {0} /\ market.oft \in Nat /\ (draft.goal - 1) * market.oft \in Nat
  BY AmountsAssumption, MarketTypes
<1>2. CeilDiv((draft.goal - 1) * market.oft, Bps) >= 0
      /\ CeilDiv((draft.goal - 1) * market.oft, Bps) \in Int
  <2> DEFINE a == (draft.goal - 1) * market.oft
  <2> HIDE DEF a
  <2>1. a \in Nat /\ a \in Int
    BY <1>1 DEF a
  <2>2. CeilDiv(a, Bps) >= 0 /\ CeilDiv(a, Bps) \in Int
    BY <1>1, <2>1, CeilDivPositive, CeilDivCovers
  <2> QED BY <2>2 DEF a
<1> QED BY <1>2 DEF Suffices, QuoteOft

LEMMA SearchNext == TypeOK /\ SearchSound /\ [Next]_vars => SearchSound'
<1> SUFFICES ASSUME TypeOK, SearchSound, [Next]_vars PROVE SearchSound'
  OBVIOUS
<1>a. draft \in Drafts /\ market \in Markets /\ moves \in Nat /\ draft.since \in Nat
      /\ draft.low \in Int /\ draft.high \in Int /\ draft.goal \in Nat
  BY QuoteAssumption DEF TypeOK, Drafts, SearchSound
<1>b. NoDraft.since = 0 /\ NoDraft.goal = 0
  BY DEF NoDraft
<1>1. ASSUME NEW route \in Routes, NEW slip \in Slippages, NEW target \in Targets,
             Prepare(route, target, slip)
      PROVE  SearchSound'
  <2>1. draft'.since = moves /\ draft'.goal = target /\ moves' = moves
        /\ pc' \in {"leg", "fee", "options"} /\ target \in Nat
    BY <1>1, QuoteAssumption DEF Prepare, Step, Frame, world, NoDraft
  <2> QED BY <2>1, <1>a DEF SearchSound, SearchIsLeast
<1>2. ASSUME NEW route \in Routes, NEW slip \in Slippages, NEW invoice \in Invoices,
             PrepareFromSats(route, invoice, slip)
      PROVE  SearchSound'
  <2>1. draft'.since = moves /\ draft'.goal = invoice /\ moves' = moves
        /\ pc' \in {"inLeg", "options"} /\ invoice \in Nat
    BY <1>2, QuoteAssumption DEF PrepareFromSats, Frame, world, NoDraft
  <2> QED BY <2>1, <1>a DEF SearchSound, SearchIsLeast
<1>3. CASE ComputeExtraOptions
  <2>1. draft'.since = draft.since /\ draft'.goal = draft.goal /\ draft'.route = draft.route
        /\ draft'.low = draft.goal /\ draft'.high = draft.goal /\ UNCHANGED <<moves, market>>
    BY <1>3, <1>a DEF ComputeExtraOptions, Drafts, Frame, world
  <2>2. pc' = "grow" => draft.goal \in Nat \ {0}
    BY <1>3, <1>a DEF ComputeExtraOptions
  <2>3. pc' = "msgFee" => draft.route = "legacy" \/ draft.goal = 0
    BY <1>3 DEF ComputeExtraOptions
  <2>4. pc' \in {"inLeg", "msgFee", "grow"}
    BY <1>3 DEF ComputeExtraOptions
  <2>5. ASSUME pc' = "grow", draft.route = "native"
        PROVE  ~Suffices(draft.low - 1)'
    <3>1. ~Suffices(draft.goal - 1)
      BY <2>2, <2>5, <1>a, LessFallsShort
    <3> QED BY <3>1, <2>1 DEF Suffices, QuoteOft
  <2> QED BY <2>1, <2>2, <2>3, <2>4, <2>5, <1>a DEF SearchSound, SearchIsLeast
<1>4. CASE SearchGrow
  <2>1. CASE Suffices(draft.high) /\ Step("split", draft)
    BY <2>1, <1>4 DEF SearchGrow, Step, Frame, world, SearchSound, SearchIsLeast, Suffices, QuoteOft
  <2> DEFINE d == [draft EXCEPT !.low = draft.high + 1, !.high = 2 * draft.high,
                                !.tries = draft.tries + 1]
  <2>2. CASE ~Suffices(draft.high) /\ Step("grow", d)
    <3>1. d.low = draft.high + 1 /\ d.high = 2 * draft.high /\ d.route = draft.route
          /\ d.since = draft.since /\ d.goal = draft.goal
      BY <1>a DEF Drafts
    <3> HIDE DEF d
    <3>2. draft' = d /\ pc' = "grow" /\ UNCHANGED <<moves, market>> /\ pc = "grow"
      BY <2>2, <1>4 DEF SearchGrow, Step, Frame, world
    <3>3. draft'.low - 1 = draft.high
      BY <3>1, <3>2, <1>a
    <3>4. ~Suffices(draft.low - 1)'
      BY <2>2, <3>1, <3>2, <3>3 DEF Suffices, QuoteOft
    <3> QED BY <3>1, <3>2, <3>4, <1>a DEF SearchSound, SearchIsLeast
  <2> QED BY <2>1, <2>2, <1>4 DEF SearchGrow
<1>5. CASE SearchSplit
  <2> DEFINE mid == draft.low + (draft.high - draft.low) \div 2
  <2>0. mid \in Int
    BY <1>a
  <2>1. draft.low < draft.high => draft.low <= mid /\ mid < draft.high
    BY <1>a
  <2> HIDE DEF mid
  <2>2. CASE draft.low < draft.high /\ Step("split", Narrowed(mid))
    <3>1. draft' = Narrowed(mid) /\ pc' = "split" /\ UNCHANGED <<moves, market>> /\ pc = "split"
      BY <2>2, <1>5 DEF SearchSplit, Step, Frame, world
    <3>2. CASE Suffices(mid)
      <4>1. draft'.low = draft.low /\ draft'.high = mid /\ draft'.route = draft.route
            /\ draft'.since = draft.since /\ draft'.goal = draft.goal
        BY <3>1, <3>2, <1>a DEF Drafts, Narrowed
      <4>2. Suffices(draft.high)'
        BY <3>1, <3>2, <4>1 DEF Suffices, QuoteOft
      <4>3. Suffices(draft.low - 1)' <=> Suffices(draft.low - 1)
        BY <3>1, <4>1 DEF Suffices, QuoteOft
      <4> QED BY <2>0, <2>1, <2>2, <3>1, <4>1, <4>2, <4>3, <1>a DEF SearchSound, SearchIsLeast
    <3>3. CASE ~Suffices(mid)
      <4>1. draft'.low = mid + 1 /\ draft'.high = draft.high /\ draft'.route = draft.route
            /\ draft'.since = draft.since /\ draft'.goal = draft.goal
        BY <3>1, <3>3, <1>a DEF Drafts, Narrowed
      <4>2. draft'.low - 1 = mid
        BY <2>0, <4>1
      <4>3. ~Suffices(draft.low - 1)'
        BY <3>1, <3>3, <4>1, <4>2 DEF Suffices, QuoteOft
      <4>4. Suffices(draft.high)' <=> Suffices(draft.high)
        BY <3>1, <4>1 DEF Suffices, QuoteOft
      <4> QED BY <2>0, <2>1, <2>2, <3>1, <4>1, <4>3, <4>4, <1>a DEF SearchSound, SearchIsLeast
    <3> QED BY <3>2, <3>3
  <2>3. CASE draft.low >= draft.high /\ Step("msgFee", [draft EXCEPT !.need = draft.low])
    <3>1. pc' = "msgFee" /\ UNCHANGED <<moves, market>> /\ pc = "split"
      BY <2>3, <1>5 DEF SearchSplit, Step, Frame, world
    <3>2. draft'.need = draft.low /\ draft'.route = draft.route /\ draft'.since = draft.since
          /\ draft'.goal = draft.goal
      BY <2>3, <1>a DEF Step, Drafts
    <3>3. (Suffices(draft.need)' <=> Suffices(draft.low))
          /\ (Suffices(draft.need - 1)' <=> Suffices(draft.low - 1))
      BY <3>1, <3>2 DEF Suffices, QuoteOft
    <3>4. draft.low <= draft.high => draft.low = draft.high
      BY <2>3, <1>a
    <3> QED BY <3>1, <3>2, <3>3, <3>4, <1>a DEF SearchSound, SearchIsLeast
  <2> QED BY <2>2, <2>3, <1>5 DEF SearchSplit, mid
<1>6. CASE \/ PrepareFee \/ QuoteMessagingFee \/ FetchQuoteOutTbtc \/ FetchQuoteOutTbtcForEth
           \/ FetchQuoteIn \/ SubtractBurnFee \/ QuoteMessagingFeeIn \/ SubtractMessagingFee
           \/ QuoteAdjusted \/ QuoteOftReceived \/ ApplyBoltzFee \/ PrepareFails
  <2>1. pc' \notin {"grow", "split", "msgFee"} /\ moves' = moves
    BY <1>6 DEF PrepareFee, QuoteMessagingFee, FetchQuoteOutTbtc, FetchQuoteOutTbtcForEth,
       FetchQuoteIn, SubtractBurnFee, QuoteMessagingFeeIn, SubtractMessagingFee, QuoteAdjusted,
       QuoteOftReceived, ApplyBoltzFee, PrepareFails, Step, Prepared, Forward, Frame, world
  <2>2. (draft'.since = draft.since /\ draft'.goal = draft.goal) \/ draft' = NoDraft
    BY <1>6, <1>a DEF PrepareFee, QuoteMessagingFee, FetchQuoteOutTbtc, FetchQuoteOutTbtcForEth,
       FetchQuoteIn, SubtractBurnFee, QuoteMessagingFeeIn, SubtractMessagingFee, QuoteAdjusted,
       QuoteOftReceived, ApplyBoltzFee, PrepareFails, Step, Prepared, Forward, Drafts
  <2> QED BY <2>1, <2>2, <1>a, <1>b DEF SearchSound, SearchIsLeast
<1>7. CASE Create \/ Claiming \/ Execute \/ (\E slip \in Slippages : UpdateSwapSlippage(slip))
  <2>1. pc' \notin {"grow", "split", "msgFee"} /\ moves' = moves /\ draft' = draft
    BY <1>7 DEF Create, Claiming, TryClaim, ClaimOptions, EstimateMessagingFee, SplitForFee,
       QuoteTrade, QuoteBurnFee, QuoteDelivery, QuoteDegraded, SignMin, BuildApproval, Submit,
       TryClaimFails, OrderStep, Execute, UpdateSwapSlippage, world
  <2> QED BY <2>1 DEF SearchSound, SearchIsLeast
<1>8. CASE Moves
  <2>1. moves' = moves + 1 /\ draft' = draft
    BY <1>8 DEF Moves
  <2> QED BY <2>1, <1>a DEF SearchSound, SearchIsLeast
<1>9. CASE UNCHANGED vars
  BY <1>9 DEF vars, world, SearchSound, SearchIsLeast, Suffices, QuoteOft
<1> QED BY <1>1, <1>2, <1>3, <1>4, <1>5, <1>6, <1>7, <1>8, <1>9 DEF Next, Preparing

(* The search of prepare ends on the least amount that delivers the        *)
(* target, for every fee, target and bound on its attempts.                *)
THEOREM SearchLeast == Spec => []SearchIsLeast
<1>1. Init => SearchSound
  BY DEF Init, SearchSound, SearchIsLeast, NoDraft
<1>2. TypeOK /\ SearchSound /\ [Next]_vars => SearchSound'
  BY SearchNext
<1>3. SearchSound => SearchIsLeast
  BY DEF SearchSound
<1> QED BY <1>1, <1>2, <1>3, TypeCorrect, PTL DEF Spec

-----------------------------------------------------------------------------
(* What is signed is executable while the world stands still.              *)
LEMMA DivCovers ==
  ASSUME NEW a \in Int, NEW b \in Nat \ {0}, NEW c \in Int, c * b <= a
  PROVE  c <= a \div b
BY SMTT(30)

LEMMA SlippageUpCovers ==
  ASSUME NEW a \in Nat, NEW s \in Nat
  PROVE  a <= SlippageUp(a, s)
<1>1. Bps \in Nat \ {0} /\ a \in Int /\ a * (Bps + s) \in Int
  BY AmountsAssumption
<1>2. a * Bps <= a * (Bps + s)
  BY <1>1, SMTT(30)
<1> QED BY <1>1, <1>2, DivCovers DEF SlippageUp

LEMMA SlippageDownShrinks ==
  ASSUME NEW a \in Int, NEW s \in 0..MaxSlippage, SlippageDown(a, s) > 0
  PROVE  SlippageDown(a, s) <= a
<1>1. Bps \in Nat \ {0} /\ s \in Nat /\ Bps - s \in Nat /\ a * (Bps - s) \in Int
  BY AmountsAssumption
<1> DEFINE d == SlippageDown(a, s)
<1>2. d \in Int /\ d * Bps <= a * (Bps - s)
  BY <1>1, SMTT(30) DEF SlippageDown
<1>3. d > 0
  OBVIOUS
<1> HIDE DEF d
<1>4. a * (Bps - s) > 0
  BY <1>1, <1>2, <1>3, SMTT(30)
<1>5. a > 0
  BY <1>1, <1>4, SMTT(30)
<1>6. a * (Bps - s) <= a * Bps
  BY <1>1, <1>5, SMTT(30)
<1>7. d * Bps <= a * Bps
  BY <1>1, <1>2, <1>6
<1>8. d <= a
  BY <1>1, <1>2, <1>7, SMTT(30)
<1> QED BY <1>8 DEF d

LEMMA EthCovers ==
  ASSUME market \in Markets, NEW native \in Int
  PROVE  native <= EthIn(EthOut(native))
<1>1. Unit \in Nat \ {0} /\ market.eth \in Nat \ {0} /\ native * Unit \in Int
  BY QuoteAssumption, MarketTypes
<1>2. EthOut(native) \in Int /\ EthOut(native) * market.eth >= native * Unit
  BY <1>1, CeilDivCovers DEF EthOut
<1>3. EthOut(native) * market.eth \in Int
  BY <1>1, <1>2
<1> QED BY <1>1, <1>2, <1>3, DivCovers DEF EthIn

(* While no move has happened since the attempt began: the messaging fee   *)
(* is bought with the tBTC set aside, the trade yields what was quoted,    *)
(* the fresh quote is what arrives, the minimum signed is met and the      *)
(* allowance suffices.                                                     *)
FeeCovered == order.native = market.lz[order.setup] /\ order.native <= EthIn(order.gas)
FreshQuote ==
  order.fresh = CASE swap.route = "direct" -> order.best
                  [] swap.route = "cctp" -> SatSub(order.best, order.maxFee)
                  [] OTHER -> QuoteOft(swap.route, order.best)
MinimumMet ==
  order.min <= IF IsOft(swap.route) THEN QuoteOft(swap.route, order.best) ELSE order.best
Traded == {"cBurnFee", "cOft", "cSign", "cApprove", "cSubmit", "sent"}
ExecutionSound ==
  /\ order.since <= moves
  /\ order.since = moves =>
       /\ pc = "cEth" => order.native = market.lz[order.setup]
       /\ pc \in {"cTrade"} \cup Traded /\ IsOft(swap.route) => FeeCovered
       /\ pc \in Traded => /\ order.best = Bought
                           /\ 1 <= order.best /\ order.best <= MaxU128
       /\ pc = "cSign" => FreshQuote
       /\ pc \in {"cApprove", "cSubmit", "sent"} => MinimumMet
       /\ pc \in {"cSubmit", "sent"} /\ swap.route = "legacy" => order.best <= Approved
  /\ pc \in {"cFee", "cEth", "cOptions"} => IsOft(swap.route)
  /\ pc = "cBurnFee" => swap.route = "cctp"
  /\ pc = "cOft" => IsOft(swap.route)

LEMMA ExecutionClaiming ==
  TypeOK /\ VenueKnown /\ OrderSound /\ ExecutionSound /\ Claiming => ExecutionSound'
<1> SUFFICES ASSUME TypeOK, VenueKnown, OrderSound, ExecutionSound, Claiming PROVE ExecutionSound'
  OBVIOUS
<1>a. order \in Orders /\ swap \in Swaps /\ market \in Markets /\ moves \in Nat
      /\ order.since \in Nat /\ allowance \in Int
  BY QuoteAssumption DEF TypeOK, Orders
<1>b. /\ order.native \in Int /\ order.gas \in Int /\ order.trade \in Int /\ order.best \in Int
      /\ order.fresh \in Int /\ order.maxFee \in Int /\ order.slip \in 0..MaxSlippage
      /\ order.setup \in BOOLEAN /\ order.accepted \in BOOLEAN /\ swap.expected \in Int
      /\ swap.route \in {"direct", "cctp", "native", "legacy"}
  BY <1>a, QuoteAssumption DEF Orders, Swaps, RouteNames
<1>c. NoOrder.since = 0
  BY DEF NoOrder
<1>d. UNCHANGED <<market, moves, ata, allowance, swap>>
  BY DEF Claiming, TryClaim, ClaimOptions, EstimateMessagingFee, SplitForFee, QuoteTrade,
     QuoteBurnFee, QuoteDelivery, QuoteDegraded, SignMin, BuildApproval, Submit, TryClaimFails,
     OrderStep, world
<1>1. ASSUME NEW accept \in BOOLEAN, TryClaim(accept)
      PROVE  ExecutionSound'
  <2>1. order'.since = moves /\ pc' = IF IsOft(swap.route) THEN "cOptions" ELSE "cTrade"
    BY <1>1 DEF TryClaim, NoOrder
  <2> QED BY <2>1, <1>a, <1>d DEF ExecutionSound, Traded, IsOft
<1>2. CASE ClaimOptions
  <2>1. order'.since = order.since /\ pc' = "cFee" /\ pc = "cOptions"
    BY <1>2, <1>a DEF ClaimOptions, Orders
  <2> QED BY <2>1, <1>d DEF ExecutionSound, Traded, IsOft
<1>3. CASE EstimateMessagingFee
  <2>1. order'.since = order.since /\ pc' = "cEth" /\ pc = "cFee"
        /\ order'.native = market.lz[order.setup] /\ order'.setup = order.setup
    BY <1>3, <1>a DEF EstimateMessagingFee, OrderStep, Orders
  <2> QED BY <2>1, <1>d DEF ExecutionSound, Traded, IsOft
<1>4. CASE SplitForFee
  <2>1. order'.since = order.since /\ pc' = "cTrade" /\ pc = "cEth"
        /\ order'.native = order.native /\ order'.setup = order.setup
        /\ order'.gas = EthOut(SlippageUp(order.native, order.slip))
    BY <1>4, <1>a DEF SplitForFee, OrderStep, Orders
  <2>2. ASSUME order.since = moves
        PROVE  FeeCovered'
    <3>1. order.native = market.lz[order.setup] /\ order.native \in Nat /\ order.slip \in Nat
      BY <2>1, <2>2, <1>a, <1>b, MarketTypes, AmountsAssumption DEF ExecutionSound
    <3>2. order.native <= SlippageUp(order.native, order.slip)
          /\ SlippageUp(order.native, order.slip) \in Int
      BY <3>1, <1>b, SlippageUpCovers, SlippageTypes
    <3>3. SlippageUp(order.native, order.slip) <= EthIn(order'.gas)
      BY <2>1, <3>2, <1>a, EthCovers
    <3>4. order'.gas \in Int /\ EthIn(order'.gas) \in Int
      BY <2>1, <3>2, <1>a, PriceTypes
    <3>5. order.native <= EthIn(order'.gas)
      BY <3>1, <3>2, <3>3, <3>4
    <3> QED BY <2>1, <3>1, <3>5, <1>d DEF FeeCovered, EthIn
  <2> QED BY <2>1, <2>2, <1>d DEF ExecutionSound, Traded, IsOft
<1>5. CASE QuoteTrade
  <2>1. PICK v \in Quoting :
          /\ BestIn(order.trade, v) /\ InAt(v, order.trade) > 0
          /\ order' = [order EXCEPT !.venue = v, !.best = InAt(v, order.trade),
                                    !.fresh = InAt(v, order.trade)]
    BY <1>5 DEF QuoteTrade, OrderStep
  <2>2. order'.since = order.since /\ order'.native = order.native /\ order'.setup = order.setup
        /\ order'.gas = order.gas /\ order'.trade = order.trade /\ order'.venue = v
        /\ order'.best = InAt(v, order.trade) /\ order'.fresh = order'.best
        /\ order'.maxFee = order.maxFee
    BY <2>1, <1>a DEF Orders
  <2>3. pc = "cTrade" /\ pc' = CASE swap.route = "direct" -> "cSign"
                               [] swap.route = "cctp" -> "cBurnFee" [] OTHER -> "cOft"
    BY <1>5 DEF QuoteTrade, OrderStep
  <2>4. InAt(v, order.trade) \in Int
    BY <1>a, <1>b, PriceTypes DEF Quoting
  <2>5. order'.best = Bought' /\ 1 <= order'.best /\ order'.best <= MaxU128
    BY <2>1, <2>2, <2>4, <1>d DEF Bought, InAt, BestIn
  <2>6. order.since = moves /\ IsOft(swap.route) => FeeCovered'
    BY <2>2, <2>3, <1>d DEF ExecutionSound, FeeCovered, EthIn
  <2>7. pc' = "cSign" => FreshQuote'
    BY <2>2, <2>3, <1>b, <1>d DEF FreshQuote
  <2> QED BY <2>2, <2>3, <2>5, <2>6, <2>7, <1>b, <1>d DEF ExecutionSound, Traded, IsOft
<1>6. CASE QuoteBurnFee
  <2>1. order'.since = order.since /\ order'.best = order.best /\ order'.venue = order.venue
        /\ order'.trade = order.trade /\ order'.fresh = SatSub(order'.best, order'.maxFee)
        /\ pc = "cBurnFee" /\ pc' = "cSign"
    BY <1>6, <1>a DEF QuoteBurnFee, OrderStep, Orders
  <2>2. swap.route = "cctp" /\ swap' = swap
    BY <2>1, <1>d DEF ExecutionSound
  <2>3. FreshQuote'
    BY <2>1, <2>2 DEF FreshQuote
  <2>4. Bought' = Bought
    BY <2>1, <1>d DEF Bought, InAt
  <2> QED BY <2>1, <2>2, <2>3, <2>4, <1>d DEF ExecutionSound, Traded, IsOft
<1>7. CASE QuoteDelivery
  <2>1. order'.since = order.since /\ order'.best = order.best /\ order'.venue = order.venue
        /\ order'.trade = order.trade /\ order'.fresh = QuoteOft(swap.route, order.best)
        /\ order'.native = order.native /\ order'.gas = order.gas /\ order'.setup = order.setup
        /\ pc = "cOft" /\ pc' = "cSign"
    BY <1>7, <1>a DEF QuoteDelivery, OrderStep, Orders
  <2>2. IsOft(swap.route) /\ swap' = swap
    BY <2>1, <1>d DEF ExecutionSound
  <2>3. FreshQuote'
    BY <2>1, <2>2, <1>d DEF FreshQuote, IsOft, QuoteOft
  <2>4. Bought' = Bought /\ (FeeCovered' <=> FeeCovered)
    BY <2>1, <1>d DEF Bought, InAt, FeeCovered, EthIn
  <2> QED BY <2>1, <2>2, <2>3, <2>4, <1>d DEF ExecutionSound, Traded
<1>8. CASE SignMin
  <2> DEFINE floor == ClaimFloor(swap.expected, order.fresh, order.slip, order.accepted)
  <2>1. /\ order'.since = order.since /\ order'.best = order.best /\ order'.venue = order.venue
        /\ order'.trade = order.trade /\ order'.native = order.native /\ order'.gas = order.gas
        /\ order'.setup = order.setup /\ order'.maxFee = order.maxFee
        /\ order'.min = floor + order.maxFee
        /\ floor > 0 /\ ~Degrades /\ pc = "cSign"
        /\ pc' = IF IsOft(swap.route) THEN "cApprove" ELSE "cSubmit"
    BY <1>8, <1>a DEF SignMin, SignedMin, OrderStep, Orders
  <2>2. floor \in Int
    <3>1. order.slip \in Nat
      BY <1>b, AmountsAssumption
    <3> QED BY <3>1, <1>b, ClaimFloorType
  <2>3. floor <= order.fresh
    <3>1. CASE order.accepted
      <4>1. floor = SlippageDown(order.fresh, order.slip)
        BY <3>1 DEF ClaimFloor
      <4> QED BY <4>1, <2>1, <1>b, SlippageDownShrinks
    <3>2. CASE ~order.accepted
      <4>1. floor = SlippageDown(swap.expected, order.slip)
        BY <3>2 DEF ClaimFloor
      <4>2. ~(order.fresh < floor)
        BY <3>2, <4>1, <2>1 DEF Degrades, Drifted
      <4> HIDE DEF floor
      <4> QED BY <4>2, <2>2, <1>b
    <3> QED BY <3>1, <3>2
  <2> HIDE DEF floor
  <2>4. ASSUME order.since = moves
        PROVE  MinimumMet'
    <3>1. FreshQuote
      BY <2>1, <2>4 DEF ExecutionSound
    <3>2. CASE swap.route = "direct"
      BY <3>1, <3>2, <2>1, <2>2, <2>3, <1>b, <1>d DEF FreshQuote, MinimumMet, IsOft, OrderSound
    <3>3. CASE swap.route = "cctp"
      BY <3>1, <3>3, <2>1, <2>2, <2>3, <1>b, <1>d DEF FreshQuote, MinimumMet, IsOft, SatSub
    <3>4. CASE IsOft(swap.route)
      <4>1. order.fresh = QuoteOft(swap.route, order.best) /\ order.maxFee = 0
        BY <3>1, <3>4 DEF FreshQuote, IsOft, OrderSound
      <4>2. QuoteOft(swap.route, order.best)' = QuoteOft(swap.route, order.best)
        BY <2>1, <1>d DEF QuoteOft
      <4> QED BY <3>4, <4>1, <4>2, <2>1, <2>2, <2>3, <1>b, <1>d DEF MinimumMet
    <3> QED BY <3>2, <3>3, <3>4, <1>b DEF IsOft
  <2>5. Bought' = Bought /\ (FeeCovered' <=> FeeCovered)
    BY <2>1, <1>d DEF Bought, InAt, FeeCovered, EthIn
  <2> QED BY <2>1, <2>4, <2>5, <1>d DEF ExecutionSound, Traded, IsOft
<1>9. CASE BuildApproval
  <2>1. /\ order'.since = order.since /\ order'.best = order.best /\ order'.venue = order.venue
        /\ order'.trade = order.trade /\ order'.native = order.native /\ order'.gas = order.gas
        /\ order'.setup = order.setup /\ order'.min = order.min
        /\ order'.approve = (swap.route = "legacy" /\ NeedsTopUp(allowance, order.best))
        /\ pc = "cApprove" /\ pc' = "cSubmit"
    BY <1>9, <1>a DEF BuildApproval, OrderStep, Orders
  <2>2. Bought' = Bought /\ (FeeCovered' <=> FeeCovered) /\ (MinimumMet' <=> MinimumMet)
    BY <2>1, <1>d DEF Bought, InAt, FeeCovered, EthIn, MinimumMet, QuoteOft
  <2>3. ASSUME order.since = moves, swap.route = "legacy"
        PROVE  order'.best <= Approved'
    <3>1. 1 <= order.best /\ order.best <= MaxU128
      BY <2>1, <2>3 DEF ExecutionSound, Traded
    <3>2. CASE NeedsTopUp(allowance, order.best)
      BY <2>1, <2>3, <3>1, <3>2 DEF Approved
    <3>3. CASE ~NeedsTopUp(allowance, order.best)
      <4>1. order.best <= allowance
        BY <3>1, <3>3, <1>a, <1>b DEF NeedsTopUp
      <4> QED BY <4>1, <3>3, <2>1, <1>d DEF Approved
    <3> QED BY <3>2, <3>3
  <2> QED BY <2>1, <2>2, <2>3, <1>d DEF ExecutionSound, Traded, IsOft
<1>10. CASE Submit
  <2>1. order' = order /\ pc = "cSubmit" /\ pc' = "sent"
    BY <1>10 DEF Submit, OrderStep
  <2> QED BY <2>1, <1>d DEF ExecutionSound, Traded, IsOft, Bought, InAt, FeeCovered, EthIn,
         MinimumMet, QuoteOft, Approved
<1>11. CASE QuoteDegraded \/ TryClaimFails
  <2>1. order'.since = 0 /\ pc' \in {"degraded", "locked"}
    BY <1>11, <1>c DEF QuoteDegraded, TryClaimFails, OrderStep
  <2> QED BY <2>1, <1>a, <1>d DEF ExecutionSound, Traded, IsOft
<1> QED BY <1>1, <1>2, <1>3, <1>4, <1>5, <1>6, <1>7, <1>8, <1>9, <1>10, <1>11 DEF Claiming

LEMMA ExecutionNext ==
  TypeOK /\ VenueKnown /\ OrderSound /\ ExecutionSound /\ [Next]_vars => ExecutionSound'
<1> SUFFICES ASSUME TypeOK, VenueKnown, OrderSound, ExecutionSound, [Next]_vars
             PROVE  ExecutionSound'
  OBVIOUS
<1>a. order \in Orders /\ swap \in Swaps /\ moves \in Nat /\ order.since \in Nat
  BY QuoteAssumption DEF TypeOK, Orders
<1>1. CASE Preparing
  BY <1>1, PreparingFrame DEF ExecutionSound, Traded, PreparePoints
<1>2. CASE Create
  <2>1. order' = order /\ moves' = moves /\ pc' \in {"locked", "idle"}
    BY <1>2 DEF Create, world
  <2> QED BY <2>1 DEF ExecutionSound, Traded
<1>3. CASE Claiming
  BY <1>3, ExecutionClaiming
<1>4. CASE Execute
  <2>1. order' = order /\ moves' = moves /\ pc' \in {"done", "reverted"}
    BY <1>4 DEF Execute
  <2> QED BY <2>1 DEF ExecutionSound, Traded
<1>5. CASE Moves
  <2>1. order' = order /\ moves' = moves + 1 /\ pc' = pc /\ swap' = swap
    BY <1>5 DEF Moves
  <2> QED BY <2>1, <1>a DEF ExecutionSound
<1>6. ASSUME NEW slip \in Slippages, UpdateSwapSlippage(slip)
      PROVE  ExecutionSound'
  <2>1. swap'.route = swap.route /\ order' = order /\ pc' = pc
        /\ UNCHANGED <<market, moves, ata, allowance>>
    BY <1>6, <1>a DEF UpdateSwapSlippage, Swaps, world
  <2> QED BY <2>1 DEF ExecutionSound, Traded, Bought, InAt, FeeCovered, EthIn, FreshQuote,
         MinimumMet, QuoteOft, Approved
<1>7. CASE UNCHANGED vars
  BY <1>7 DEF vars, world, ExecutionSound, Traded, Bought, InAt, FeeCovered, EthIn, FreshQuote,
     MinimumMet, QuoteOft, Approved
<1> QED BY <1>1, <1>2, <1>3, <1>4, <1>5, <1>6, <1>7 DEF Next

LEMMA SentExecutes ==
  ASSUME TypeOK, VenueKnown, ExecutionSound, pc = "sent", order.since = moves
  PROVE  Executes
<1>1. order.best = Bought /\ 1 <= order.best /\ order.best <= MaxU128 /\ MinimumMet
  BY DEF ExecutionSound, Traded
<1>2. order.best \in Int /\ order.native \in Int /\ order.gas \in Int /\ order.min \in Int
      /\ market \in Markets /\ swap.route \in {"direct", "cctp", "native", "legacy"}
  BY QuoteAssumption DEF TypeOK, Orders, Swaps, RouteNames
<1>3. CASE swap.route \in {"direct", "cctp"}
  BY <1>1, <1>2, <1>3 DEF Executes, MinimumMet, IsOft
<1>4. CASE IsOft(swap.route)
  <2>1. order.native = market.lz[order.setup] /\ order.native <= EthIn(order.gas)
    BY <1>4 DEF ExecutionSound, Traded, FeeCovered
  <2>2. EthIn(order.gas) \in Int /\ QuoteOft(swap.route, Bought) \in Int
    BY <1>1, <1>2, PriceTypes, QuoteOftType
  <2>3. order.min <= QuoteOft(swap.route, Bought)
    BY <1>1, <1>4 DEF MinimumMet
  <2>4. swap.route = "legacy" => Bought <= Approved
    BY <1>1 DEF ExecutionSound
  <2>5. swap.route = "legacy" => Approved \in Int
    BY AmountsAssumption DEF Approved, TypeOK
  <2> QED BY <2>1, <2>2, <2>3, <2>4, <2>5, <1>1, <1>2, <1>4 DEF Executes, IsOft
<1> QED BY <1>2, <1>3, <1>4 DEF IsOft

(* A claim that reverts has met a world that moved since its attempt       *)
(* began, for every market, tolerance and allowance.                       *)
THEOREM Executable == Spec => SubmittedIsExecutable
<1> DEFINE IInv == TypeOK /\ VenueKnown /\ OrderSound /\ ExecutionSound
<1>1. Init => IInv
  <2>1. Init => OrderSound
    BY DEF Init, OrderSound, FloorIsMet, NoOrder, PreparePoints
  <2>2. Init => ExecutionSound
    BY DEF Init, ExecutionSound, Traded, NoOrder
  <2> QED BY <2>1, <2>2, InitType DEF Init, VenueKnown
<1>2. IInv /\ [Next]_vars => IInv'
  BY NextType, VenueNext, OrderSoundNext, ExecutionNext
<1>3. IInv /\ [Next]_vars => [pc = "sent" /\ pc' = "reverted" => moves # order.since]_vars
  <2> SUFFICES ASSUME IInv, Next, pc = "sent", pc' = "reverted", moves = order.since
               PROVE  FALSE
    OBVIOUS
  <2>1. Executes
    BY SentExecutes
  <2>2. CASE Execute
    BY <2>1, <2>2 DEF Execute
  <2>3. CASE Preparing
    BY <2>3, PreparingFrame DEF PreparePoints
  <2>4. CASE Create \/ Moves \/ (\E slip \in Slippages : UpdateSwapSlippage(slip))
    BY <2>4 DEF Create, Moves, UpdateSwapSlippage
  <2>5. CASE Claiming
    BY <2>5 DEF Claiming, TryClaim, ClaimOptions, EstimateMessagingFee, SplitForFee, QuoteTrade,
       QuoteBurnFee, QuoteDelivery, QuoteDegraded, SignMin, BuildApproval, Submit, TryClaimFails,
       OrderStep
  <2> QED BY <2>2, <2>3, <2>4, <2>5 DEF Next
<1> QED BY <1>1, <1>2, <1>3, PTL DEF Spec, SubmittedIsExecutable

-----------------------------------------------------------------------------
(* While the world stands still, the quote and the claim are priced alike. *)
(* Products and quotients keep the order.                                  *)
LEMMA ProductMonotone ==
  ASSUME NEW a \in Int, NEW b \in Int, a <= b, NEW c \in Nat
  PROVE  a * c \in Int /\ b * c \in Int /\ a * c <= b * c
BY SMTT(30)

LEMMA DivMonotone ==
  ASSUME NEW a \in Int, NEW b \in Int, a <= b, NEW n \in Nat \ {0}
  PROVE  a \div n \in Int /\ b \div n \in Int /\ a \div n <= b \div n
BY SMTT(30)

LEMMA DivShift ==
  ASSUME NEW a \in Int, NEW k \in Int, NEW n \in Nat \ {0}
  PROVE  (a + k * n) \div n = a \div n + k
BY SMTT(30)

(* A larger burn costs no smaller fee.                                     *)
LEMMA FeeMonotone ==
  ASSUME NEW a \in Int, NEW b \in Int, a <= b, NEW fee \in [bps : Nat, fwd : Nat]
  PROVE  TotalFee(a, fee) <= TotalFee(b, fee)
<1>1. FeeDenom \in Nat \ {0} /\ MaxU128 \in Int /\ fee.bps \in Nat /\ fee.fwd \in Nat
  BY AmountsAssumption
<1>2. a * fee.bps \in Int /\ b * fee.bps \in Int /\ a * fee.bps <= b * fee.bps
  BY <1>1, ProductMonotone
<1>3. SatMul(a, fee.bps) \in Int /\ SatMul(b, fee.bps) \in Int
      /\ SatMul(a, fee.bps) <= SatMul(b, fee.bps)
  BY <1>1, <1>2 DEF SatMul, Least
<1>4. SatMul(a, fee.bps) \div FeeDenom <= SatMul(b, fee.bps) \div FeeDenom
      /\ SatMul(a, fee.bps) \div FeeDenom \in Int /\ SatMul(b, fee.bps) \div FeeDenom \in Int
  BY <1>1, <1>3, DivMonotone
<1> QED BY <1>1, <1>4 DEF TotalFee

(* And what it leaves is no less, for a fee of at most the whole burn or   *)
(* one that no longer grows.                                               *)
LEMMA RemainderMonotone ==
  ASSUME NEW a \in Int, NEW b \in Int, a <= b, NEW fee \in [bps : Nat, fwd : Nat],
         fee.bps <= FeeDenom \/ a * fee.bps >= MaxU128
  PROVE  a - TotalFee(a, fee) <= b - TotalFee(b, fee)
<1>1. FeeDenom \in Nat \ {0} /\ MaxU128 \in Int /\ fee.bps \in Nat /\ fee.fwd \in Nat
  BY AmountsAssumption
<1>2. a * fee.bps \in Int /\ b * fee.bps \in Int /\ a * fee.bps <= b * fee.bps
  BY <1>1, ProductMonotone
<1> DEFINE s == SatMul(a, fee.bps)
           t == SatMul(b, fee.bps)
<1>3. s \in Int /\ t \in Int
  <2>1. fee.bps \in Int
    BY <1>1
  <2> QED BY <2>1, SatMulType
<1>4. t <= s + (b - a) * FeeDenom
  <2>1. (b - a) * FeeDenom \in Int /\ 0 <= (b - a) * FeeDenom
    <3>1. b - a \in Nat /\ FeeDenom \in Nat BY <1>1
    <3> QED BY <3>1
  <2>2. CASE a * fee.bps >= MaxU128
    BY <1>1, <1>2, <2>1, <2>2 DEF SatMul, Least
  <2>3. CASE fee.bps <= FeeDenom
    <3>1. b * fee.bps = a * fee.bps + (b - a) * fee.bps /\ (b - a) * fee.bps <= (b - a) * FeeDenom
          /\ (b - a) * fee.bps \in Int
      <4>1. b - a \in Nat
        OBVIOUS
      <4> QED BY <1>1, <2>3, <4>1, SMTT(30)
    <3> QED BY <1>1, <1>2, <2>1, <3>1 DEF SatMul, Least
  <2> QED BY <2>2, <2>3
<1> HIDE DEF s, t
<1>5. t \div FeeDenom <= s \div FeeDenom + (b - a)
  <2>1. s + (b - a) * FeeDenom \in Int /\ b - a \in Int
    BY <1>1, <1>3
  <2>2. t \div FeeDenom <= (s + (b - a) * FeeDenom) \div FeeDenom
    BY <1>1, <1>3, <1>4, <2>1, DivMonotone
  <2>3. (s + (b - a) * FeeDenom) \div FeeDenom = s \div FeeDenom + (b - a)
    BY <1>1, <1>3, <2>1, DivShift
  <2> QED BY <2>2, <2>3
<1>6. s \div FeeDenom \in Int /\ t \div FeeDenom \in Int
  BY <1>1, <1>3
<1>7. TotalFee(a, fee) = s \div FeeDenom + fee.fwd /\ TotalFee(b, fee) = t \div FeeDenom + fee.fwd
  BY DEF TotalFee, s, t
<1> QED BY <1>1, <1>5, <1>6, <1>7

(* The burn that prepare computes leaves the target, and so does any       *)
(* larger one.                                                             *)
LEMMA BurnLeaves ==
  ASSUME NEW target \in Nat, NEW fee \in [bps : Nat, fwd : Nat],
         RequiredBurn(target, fee) <= MaxU64, NEW x \in Int, x >= RequiredBurn(target, fee)
  PROVE  x - TotalFee(x, fee) >= target
<1> DEFINE burn == RequiredBurn(target, fee)
           net == SatSub(FeeDenom, fee.bps)
           due == SatMul(target + fee.fwd, FeeDenom)
<1>1. /\ FeeDenom \in Nat \ {0} /\ MaxU128 \in Nat \ {0} /\ MaxU64 \in Nat \ {0}
      /\ MaxU64 * FeeDenom < MaxU128 /\ fee.bps \in Nat /\ fee.fwd \in Nat
  BY AmountsAssumption
<1>2. burn \in Int /\ due \in Int
  BY <1>1, RequiredBurnType, SatMulType
<1>3. net # 0
  <2>1. MaxU64 < MaxU128
    BY <1>1, SMTT(30)
  <2> QED BY <1>1, <2>1 DEF RequiredBurn
<1>4. net = FeeDenom - fee.bps /\ net \in Nat \ {0} /\ net <= FeeDenom
  BY <1>1, <1>3 DEF SatSub
<1>5. burn * net >= due
  <2>1. burn = CeilDiv(due, net)
    BY <1>3 DEF RequiredBurn
  <2> HIDE DEF burn, due, net
  <2> QED BY <1>2, <1>4, <2>1, CeilDivCovers
<1>6. burn <= MaxU64 /\ x >= burn
  OBVIOUS
<1>7. due = (target + fee.fwd) * FeeDenom \/ due = MaxU128
  BY DEF SatMul, Least
<1> HIDE DEF burn, due, net
<1>8. due = (target + fee.fwd) * FeeDenom
  <2> SUFFICES ASSUME due = MaxU128 PROVE FALSE
    BY <1>7
  <2>1. burn > 0
    BY <1>1, <1>2, <1>4, <1>5, SMTT(30)
  <2>2. burn * net <= burn * FeeDenom
    BY <1>1, <1>2, <1>4, <2>1, SMTT(30)
  <2>3. burn * FeeDenom <= MaxU64 * FeeDenom
    BY <1>1, <1>2, <1>6, ProductMonotone
  <2>4. burn * net \in Int /\ burn * FeeDenom \in Int /\ MaxU64 * FeeDenom \in Int
    BY <1>1, <1>2, <1>4
  <2> QED BY <1>1, <1>2, <1>5, <2>2, <2>3, <2>4
<1>9. burn * fee.bps <= (burn - target - fee.fwd) * FeeDenom
  BY <1>1, <1>2, <1>4, <1>5, <1>8, SMTT(30)
<1>10. TotalFee(burn, fee) <= burn - target
  <2> DEFINE s == SatMul(burn, fee.bps)
             k == burn - target - fee.fwd
  <2>1. s \in Int /\ k \in Int
    <3>1. fee.bps \in Int
      BY <1>1
    <3>2. s \in Int
      BY <1>2, <3>1, SatMulType
    <3>3. k \in Int
      BY <1>1, <1>2
    <3> QED BY <3>2, <3>3
  <2>2. s <= k * FeeDenom
    <3>1. burn * fee.bps \in Int /\ k * FeeDenom \in Int
      BY <1>1, <1>2
    <3> QED BY <1>1, <1>9, <3>1 DEF SatMul, Least
  <2>4. TotalFee(burn, fee) = s \div FeeDenom + fee.fwd
    BY DEF TotalFee
  <2> HIDE DEF s, k
  <2>3. s \div FeeDenom <= k /\ s \div FeeDenom \in Int
    BY <1>1, <2>1, <2>2, SMTT(30)
  <2> QED BY <1>1, <1>2, <2>3, <2>4 DEF k
<1>11. burn - TotalFee(burn, fee) <= x - TotalFee(x, fee)
  BY <1>1, <1>2, <1>4, <1>6, RemainderMonotone
<1>12. TotalFee(burn, fee) \in Int /\ TotalFee(x, fee) \in Int
  BY <1>2, TotalFeeType
<1> QED BY <1>2, <1>10, <1>11, <1>12

(* What is left of a burn is left of any larger one.                       *)
LEMMA RemainderLeaves ==
  ASSUME NEW need \in Nat \ {0}, NEW fee \in [bps : Nat, fwd : Nat],
         SatSub(need, TotalFee(need, fee)) > 0, NEW x \in Int, x >= need
  PROVE  x - TotalFee(x, fee) >= SatSub(need, TotalFee(need, fee))
<1>1. /\ FeeDenom \in Nat \ {0} /\ MaxU128 \in Nat \ {0} /\ fee.bps \in Nat /\ fee.fwd \in Nat
  BY AmountsAssumption
<1>2. TotalFee(need, fee) \in Int /\ TotalFee(x, fee) \in Int
  BY TotalFeeType
<1>3. SatSub(need, TotalFee(need, fee)) = need - TotalFee(need, fee) /\ TotalFee(need, fee) < need
  BY <1>2 DEF SatSub
<1>4. fee.bps <= FeeDenom \/ need * fee.bps >= MaxU128
  <2> SUFFICES ASSUME fee.bps > FeeDenom, need * fee.bps < MaxU128 PROVE FALSE
    BY <1>1
  <2>1. SatMul(need, fee.bps) = need * fee.bps
    BY <1>1 DEF SatMul, Least
  <2>2. need * FeeDenom <= need * fee.bps /\ need * fee.bps \in Int
    BY <1>1, SMTT(30)
  <2>3. need <= (need * fee.bps) \div FeeDenom
    BY <1>1, <2>2, DivCovers
  <2>4. (need * fee.bps) \div FeeDenom \in Int
    BY <1>1, <2>2
  <2> QED BY <1>1, <1>3, <2>1, <2>3, <2>4 DEF TotalFee
<1>5. need - TotalFee(need, fee) <= x - TotalFee(x, fee)
  BY <1>4, RemainderMonotone
<1> QED BY <1>2, <1>3, <1>5

-----------------------------------------------------------------------------
(* What a quote and a claim both read of the world: the terms of bridges   *)
(* and DEX, and what the messaging fee costs in wei.                       *)
Terms == [fee |-> GetFee(CctpNeedsSetup), oft |-> market.oft, dex |-> market.dex,
          gas |-> EthOut(QuoteSend(NeedsSetup))]
TermsSet == [fee : [bps : Nat, fwd : Nat], oft : 0..Bps, dex : [Venues -> Nat], gas : Int]

(* What is delivered of x bought on the DEX.                               *)
Net(w, route, x) ==
  CASE route = "cctp" -> x - TotalFee(x, w.fee)
    [] route = "native" -> x - CeilDiv(x * w.oft, Bps)
    [] OTHER -> x
Delivers(w, route, need, goal) == \A x \in Int : x >= need => Net(w, route, x) >= goal

(* At the price of some venue, wei buys need.                              *)
Buys(w, wei, need) == \E v \in Venues : w.dex[v] > 0 /\ wei * w.dex[v] >= need * Unit
MessageGas(w, route) == IF IsOft(route) THEN w.gas ELSE 0

(* So many sats, with what two roundings to sats leave out, pay for what   *)
(* delivers goal.                                                          *)
Backed(w, route, sats, goal) ==
  \E need \in Int :
    /\ Delivers(w, route, need, goal)
    /\ Buys(w, sats * SatsFactor + 2 * (SatsFactor - 1) - MessageGas(w, route), need)

LEMMA TermsType ==
  ASSUME market \in Markets
  PROVE  Terms \in TermsSet
<1>1. (~ata) \in BOOLEAN /\ NeedsSetup \in BOOLEAN
  BY ZenonT(20) DEF NeedsSetup
<1> DEFINE s == NeedsSetup
           none == ~ata
<1> HIDE DEF s, none
<1>2. market.cctp[none] \in [bps : Nat, fwd : Nat] /\ market.oft \in 0..Bps
      /\ market.lz[s] \in Nat /\ market.lz[s] \in Int
  <2>1. s \in BOOLEAN /\ none \in BOOLEAN
    BY <1>1 DEF s, none
  <2>2. market.lz[s] \in Nat /\ market.cctp[none] \in [bps : Nat, fwd : Nat]
        /\ market.oft \in 0..Bps
    BY <2>1, MarketTypes
  <2> QED BY <2>2
<1>3. market.dex \in [Venues -> Nat]
  BY MarketsAssumption
<1>4. EthOut(market.lz[s]) \in Int
  BY <1>2, PriceTypes
<1> QED BY <1>2, <1>3, <1>4 DEF Terms, TermsSet, s, none

LEMMA SameTerms ==
  ASSUME UNCHANGED <<market, ata>>, NeedsSetup' = NeedsSetup
  PROVE  Terms' = Terms
BY DEF Terms, EthOut

LEMMA OftNet ==
  ASSUME NEW route, IsOft(route), NEW x
  PROVE  QuoteOft(route, x) = Net(Terms, route, x)
BY DEF QuoteOft, Net, Terms, IsOft

(* The OFT's fee is at most the whole amount, so more sent is not less     *)
(* delivered; and no route delivers more than one unit for one more.       *)
LEMMA OftMonotone ==
  ASSUME NEW w \in TermsSet, NEW a \in Int, NEW b \in Int, a <= b
  PROVE  /\ CeilDiv(a * w.oft, Bps) \in Int /\ CeilDiv(b * w.oft, Bps) \in Int
         /\ CeilDiv(a * w.oft, Bps) <= CeilDiv(b * w.oft, Bps)
         /\ a - CeilDiv(a * w.oft, Bps) <= b - CeilDiv(b * w.oft, Bps)
<1>1. Bps \in Nat \ {0} /\ w.oft \in Nat /\ w.oft <= Bps
  BY AmountsAssumption DEF TermsSet
<1>2. a * w.oft \in Int /\ b * w.oft \in Int /\ a * w.oft <= b * w.oft
  BY <1>1, ProductMonotone
<1> DEFINE c == CeilDiv(a * w.oft, Bps)
           d == CeilDiv(b * w.oft, Bps)
<1>3. c \in Int /\ d \in Int /\ c * Bps >= a * w.oft /\ d * Bps >= b * w.oft
  BY <1>1, <1>2, CeilDivCovers
<1>4. c <= d
  <2>1. d \in Int /\ a * w.oft <= d * Bps
    <3> HIDE DEF d
    <3>1. d * Bps \in Int
      BY <1>1, <1>3
    <3> QED BY <1>2, <1>3, <3>1
  <2> QED BY <1>1, <1>2, <2>1, CeilDivLeast
<1>5. d <= c + (b - a)
  <2>1. c + (b - a) \in Int /\ b * w.oft <= (c + (b - a)) * Bps
    <3> HIDE DEF c
    <3>1. b * w.oft = a * w.oft + (b - a) * w.oft /\ (c + (b - a)) * Bps = c * Bps + (b - a) * Bps
      BY <1>1, <1>3, SMTT(30)
    <3>2. (b - a) * w.oft <= (b - a) * Bps /\ (b - a) * w.oft \in Int /\ (b - a) * Bps \in Int
      BY <1>1, SMTT(30)
    <3>3. c * Bps \in Int
      BY <1>1, <1>3
    <3> QED BY <1>2, <1>3, <3>1, <3>2, <3>3
  <2> QED BY <1>1, <1>2, <2>1, CeilDivLeast
<1> HIDE DEF c, d
<1>6. c <= d /\ a - c <= b - d
  BY <1>3, <1>4, <1>5
<1> QED BY <1>3, <1>6 DEF c, d

LEMMA NetShrinks ==
  ASSUME NEW w \in TermsSet, NEW route, NEW x \in Int, NEW y \in Int, x <= y
  PROVE  Net(w, route, x) >= Net(w, route, y) - (y - x)
<1>1. CASE route = "cctp"
  <2>1. w.fee \in [bps : Nat, fwd : Nat]
    BY DEF TermsSet
  <2>2. TotalFee(x, w.fee) \in Int /\ TotalFee(y, w.fee) \in Int
        /\ TotalFee(x, w.fee) <= TotalFee(y, w.fee)
    BY <2>1, TotalFeeType, FeeMonotone
  <2> QED BY <1>1, <2>2 DEF Net
<1>2. CASE route = "native"
  BY <1>2, OftMonotone DEF Net
<1>3. CASE route \notin {"cctp", "native"}
  BY <1>3 DEF Net
<1> QED BY <1>1, <1>2, <1>3

LEMMA NetType ==
  ASSUME NEW w \in TermsSet, NEW route, NEW x \in Int
  PROVE  Net(w, route, x) \in Int
<1>1. CASE route = "cctp"
  <2>1. w.fee \in [bps : Nat, fwd : Nat]
    BY DEF TermsSet
  <2>2. TotalFee(x, w.fee) \in Int
    BY <2>1, TotalFeeType
  <2> QED BY <1>1, <2>2 DEF Net
<1>2. CASE route = "native"
  BY <1>2, OftMonotone DEF Net
<1>3. CASE route \notin {"cctp", "native"}
  BY <1>3 DEF Net
<1> QED BY <1>1, <1>2, <1>3

(* k less bought is at most k less delivered.                              *)
LEMMA DeliversNearly ==
  ASSUME NEW w \in TermsSet, NEW route, NEW need \in Int, NEW goal \in Int,
         Delivers(w, route, need, goal), NEW k \in Nat, NEW x \in Int, x >= need - k
  PROVE  Net(w, route, x) >= goal - k
<1>1. Net(w, route, x) \in Int /\ Net(w, route, need) \in Int
  BY NetType
<1>2. CASE x >= need
  <2>1. Net(w, route, x) >= goal
    BY <1>2 DEF Delivers
  <2> QED BY <1>1, <2>1
<1>3. CASE x < need
  <2>1. Net(w, route, need) >= goal
    BY DEF Delivers
  <2>2. Net(w, route, x) >= Net(w, route, need) - (need - x)
    BY <1>3, NetShrinks
  <2> QED BY <1>1, <1>3, <2>1, <2>2
<1> QED BY <1>2, <1>3

(* The routes of OFT deliver the target of a send amount that suffices.    *)
LEMMA NativeDelivers ==
  ASSUME NEW w \in TermsSet, NEW need \in Int, NEW goal \in Int, Net(w, "native", need) >= goal
  PROVE  Delivers(w, "native", need, goal)
<1> SUFFICES ASSUME NEW x \in Int, x >= need PROVE Net(w, "native", x) >= goal
  BY DEF Delivers
<1>1. need - CeilDiv(need * w.oft, Bps) <= x - CeilDiv(x * w.oft, Bps)
      /\ CeilDiv(need * w.oft, Bps) \in Int /\ CeilDiv(x * w.oft, Bps) \in Int
  BY OftMonotone
<1> QED BY <1>1 DEF Net

LEMMA PlainDelivers ==
  ASSUME NEW w, NEW route, route \notin {"cctp", "native"}, NEW need \in Int, NEW goal \in Int,
         need >= goal
  PROVE  Delivers(w, route, need, goal)
BY DEF Delivers, Net

(* An output quote, rounded down to sats, lacks less than a sat.           *)
LEMMA SatsCover ==
  ASSUME NEW wei \in Int
  PROVE  /\ WeiToSats(wei) \in Int
         /\ WeiToSats(wei) * SatsFactor + (SatsFactor - 1) >= wei
         /\ WeiToSats(wei) * SatsFactor <= wei
<1>1. SatsFactor \in Nat \ {0}
  BY AmountsAssumption
<1> QED BY <1>1, SMTT(30) DEF WeiToSats

LEMMA BuysMore ==
  ASSUME NEW w \in TermsSet, NEW a \in Int, NEW b \in Int, a <= b, NEW need \in Int,
         Buys(w, a, need)
  PROVE  Buys(w, b, need)
<1>1. PICK v \in Venues : w.dex[v] > 0 /\ a * w.dex[v] >= need * Unit
  BY DEF Buys
<1>2. w.dex[v] \in Nat /\ Unit \in Nat
  BY QuoteAssumption DEF TermsSet
<1>3. a * w.dex[v] <= b * w.dex[v] /\ a * w.dex[v] \in Int /\ b * w.dex[v] \in Int
  BY <1>2, ProductMonotone
<1>4. need * Unit \in Int
  BY <1>2
<1>5. b * w.dex[v] >= need * Unit
  BY <1>1, <1>3, <1>4
<1> QED BY <1>1, <1>5 DEF Buys

LEMMA GasType ==
  ASSUME NEW w \in TermsSet, NEW route
  PROVE  MessageGas(w, route) \in Int
BY DEF MessageGas, TermsSet

(* Wei that pay for need, and are no more than the sats with what two      *)
(* roundings leave out, back the goal.                                     *)
LEMMA BackedBy ==
  ASSUME NEW w \in TermsSet, NEW route, NEW sats \in Int, NEW goal, NEW need \in Int,
         Delivers(w, route, need, goal), NEW wei \in Int, Buys(w, wei, need),
         wei <= sats * SatsFactor + 2 * (SatsFactor - 1) - MessageGas(w, route)
  PROVE  Backed(w, route, sats, goal)
<1> DEFINE more == sats * SatsFactor + 2 * (SatsFactor - 1) - MessageGas(w, route)
<1>1. more \in Int
  BY GasType, AmountsAssumption
<1>2. wei <= more
  OBVIOUS
<1>3. Buys(w, more, need)
  <2> HIDE DEF more
  <2> QED BY <1>1, <1>2, BuysMore
<1> QED BY <1>3 DEF Backed

LEMMA BackedMore ==
  ASSUME NEW w \in TermsSet, NEW route, NEW s \in Int, NEW t \in Int, s <= t, NEW goal,
         Backed(w, route, s, goal)
  PROVE  Backed(w, route, t, goal)
<1> DEFINE a == s * SatsFactor + 2 * (SatsFactor - 1) - MessageGas(w, route)
<1>1. PICK need \in Int : Delivers(w, route, need, goal) /\ Buys(w, a, need)
  BY DEF Backed
<1>2. SatsFactor \in Nat /\ MessageGas(w, route) \in Int
  BY GasType, AmountsAssumption
<1>3. s * SatsFactor \in Int /\ t * SatsFactor \in Int /\ s * SatsFactor <= t * SatsFactor
  BY <1>2, ProductMonotone
<1>4. a \in Int /\ a <= t * SatsFactor + 2 * (SatsFactor - 1) - MessageGas(w, route)
  BY <1>2, <1>3
<1> HIDE DEF a
<1> QED BY <1>1, <1>4, BackedBy

(* The DEX: the input asked for an output buys it, and an input buys the   *)
(* output it is quoted.                                                    *)
LEMMA OutBuys ==
  ASSUME market \in Markets, NEW v \in Quoting, NEW need \in Int
  PROVE  OutAt(v, need) \in Int /\ Buys(Terms, OutAt(v, need), need)
<1>1. v \in Venues /\ market.dex[v] \in Nat \ {0} /\ need * Unit \in Int /\ Terms.dex = market.dex
  BY MarketTypes, QuoteAssumption DEF Quoting, Terms
<1>2. OutAt(v, need) \in Int /\ OutAt(v, need) * market.dex[v] >= need * Unit
  BY <1>1, CeilDivCovers DEF OutAt
<1> QED BY <1>1, <1>2 DEF Buys

LEMMA InBuys ==
  ASSUME market \in Markets, NEW v \in Quoting, NEW wei \in Int
  PROVE  InAt(v, wei) \in Int /\ Buys(Terms, wei, InAt(v, wei))
<1>1. v \in Venues /\ market.dex[v] \in Nat \ {0} /\ Unit \in Nat \ {0} /\ Terms.dex = market.dex
  BY MarketTypes, QuoteAssumption DEF Quoting, Terms
<1>2. wei * market.dex[v] \in Int
  BY <1>1
<1>3. InAt(v, wei) \in Int /\ wei * market.dex[v] >= InAt(v, wei) * Unit
  <2> DEFINE p == wei * market.dex[v]
  <2>1. p \in Int
    BY <1>2
  <2> HIDE DEF p
  <2>2. p \div Unit \in Int /\ p >= (p \div Unit) * Unit
    BY <1>1, <2>1, SMTT(30)
  <2> QED BY <2>2 DEF p, InAt
<1> QED BY <1>1, <1>3 DEF Buys

LEMMA NoEth ==
  ASSUME market \in Markets
  PROVE  EthOut(0) = 0
<1>1. market.eth \in Nat \ {0} /\ Unit \in Nat
  BY MarketTypes, QuoteAssumption
<1> QED BY <1>1, SMTT(30) DEF EthOut, CeilDiv

LEMMA LegacyCovers ==
  ASSUME NEW target \in Nat
  PROVE  LegacySource(target) >= target
<1> DEFINE n == LegacySource(target)
           net == Bps - LegacyFeeBps
<1>1. Bps \in Nat \ {0} /\ net \in Nat \ {0} /\ net <= Bps /\ target * Bps \in Int
  BY AmountsAssumption
<1>2. n \in Int /\ n * net >= target * Bps
  BY <1>1, CeilDivCovers DEF LegacySource
<1> HIDE DEF n, net
<1>3. target * net <= target * Bps /\ target * net \in Int
  BY <1>1, SMTT(30)
<1>4. target * net <= n * net
  BY <1>1, <1>2, <1>3, SMTT(30)
<1>5. target <= n
  BY <1>1, <1>2, <1>4, SMTT(30)
<1> QED BY <1>5 DEF n

-----------------------------------------------------------------------------
(* A claim attempt that finds the world as the quote found it.             *)
Onchain == ComputeOnchain(quote.pair, quote.invoice)
OftPoints == {"options", "grow", "split", "msgFee", "ethLeg",
              "inMsgFee", "inEthLeg", "inAdjusted", "inOft"}

DraftShape ==
  /\ pc \in OftPoints => IsOft(draft.route)
  /\ pc \in {"fee", "inFee"} => draft.route = "cctp"
  /\ pc = "fee" => draft.native = 0
  /\ pc = "leg" /\ ~IsOft(draft.route) => draft.native = 0
  /\ pc \in {"grow", "split"} => draft.route = "native" /\ draft.goal > 0
  /\ pc = "options" /\ draft.mode = "out" => draft.need = draft.goal
  /\ pc = "msgFee" /\ draft.route = "native" /\ draft.goal = 0 => draft.need = 0
  /\ pc = "msgFee" /\ draft.route = "legacy" => draft.need >= draft.goal
  /\ pc = "inFee" => draft.need > 0
DraftQuiet ==
  draft.since = moves =>
    /\ pc \in {"grow", "split", "msgFee", "inMsgFee"} => draft.setup = NeedsSetup
    /\ pc = "inLeg" /\ IsOft(draft.route) => draft.setup = NeedsSetup
    /\ pc \in {"leg", "ethLeg", "inEthLeg"} /\ IsOft(draft.route)
         => draft.native = QuoteSend(NeedsSetup)
    /\ pc = "leg" => Delivers(Terms, draft.route, draft.need, draft.goal)
    /\ pc = "ethLeg" => /\ Delivers(Terms, draft.route, draft.need, draft.goal)
                        /\ Buys(Terms, draft.sats * SatsFactor + (SatsFactor - 1), draft.need)
    /\ pc = "pair" => Backed(Terms, draft.route, draft.sats, draft.goal)
    /\ pc = "options" /\ draft.mode = "in" => draft.sats = Onchain
    /\ pc \in {"inLeg", "inMsgFee", "inEthLeg"} => draft.sats = Onchain
    /\ pc = "inAdjusted" =>
         draft.sats * SatsFactor <= Onchain * SatsFactor + (SatsFactor - 1) - Terms.gas
    /\ pc = "inFee" => Buys(Terms, Onchain * SatsFactor, draft.need)
    /\ pc = "inOft" =>
         Buys(Terms, Onchain * SatsFactor + (SatsFactor - 1) - Terms.gas, draft.need)
QuoteQuiet ==
  /\ quote.since <= moves
  /\ pc = "prepared" /\ quote.since = moves
       => Backed(Terms, quote.route, quote.estimate, quote.output)

SwapPoints == {"locked", "degraded", "sent", "reverted", "done"} \cup AttemptPoints
SwapQuiet ==
  /\ swap.since <= moves
  /\ pc \in SwapPoints /\ swap.since = moves
       => Backed(Terms, swap.route, swap.onchain, swap.expected)

OrderQuiet ==
  swap.since = moves =>
    /\ pc = "cFee" => order.setup = NeedsSetup
    /\ pc = "cEth" => order.native = QuoteSend(NeedsSetup)
    /\ pc \in {"cOptions", "cFee", "cEth", "cOft"} => IsOft(swap.route)
    /\ pc \in {"cTrade", "cBurnFee", "cOft", "cSign"} =>
         /\ order.trade = TotalWei - order.gas
         /\ EthOut(order.native) = MessageGas(Terms, swap.route)
         /\ order.gas >= EthOut(order.native)
    /\ pc = "cBurnFee" => swap.route = "cctp"
    /\ pc \in {"cBurnFee", "cOft", "cSign"} =>
         \A v \in Quoting : InAt(v, order.trade) <= order.best
    /\ pc = "cSign" => FreshQuote
QuietInv == DraftShape /\ DraftQuiet /\ QuoteQuiet /\ SwapQuiet /\ OrderQuiet

LEMMA NotDegraded ==
  ASSUME TypeOK, SwapQuiet, OrderQuiet, swap.since = moves, pc = "cSign", ToleranceCovers
  PROVE  order.fresh >= SlippageDown(swap.expected, order.slip)
<1> DEFINE goal == swap.expected
           down == SlippageDown(swap.expected, order.slip)
           lost == 2 * (SatsFactor - 1) + FeeBuffer
           k == (goal - down) - FeeCushion
           wei == swap.onchain * SatsFactor + 2 * (SatsFactor - 1) - MessageGas(Terms, swap.route)
<1>a. /\ order.gas \in Int /\ order.native \in Int /\ order.best \in Int /\ order.maxFee \in Int
      /\ order.fresh \in Int /\ order.slip \in Nat /\ order.trade \in Int
      /\ swap.onchain \in Int /\ swap.expected \in Int /\ market \in Markets
      /\ swap.route \in {"direct", "cctp", "native", "legacy"}
  <2>1. order \in Orders /\ swap \in Swaps /\ market \in Markets
    BY DEF TypeOK
  <2>2. swap.route \in {"direct", "cctp", "native", "legacy"}
    BY <2>1, QuoteAssumption DEF Swaps, RouteNames
  <2> QED BY <2>1, <2>2, AmountsAssumption DEF Orders, Swaps
<1>b. Unit \in Nat \ {0} /\ SatsFactor \in Nat \ {0} /\ Terms \in TermsSet /\ Terms.dex = market.dex
      /\ down \in Int /\ EthOut(order.native) \in Int /\ MessageGas(Terms, swap.route) \in Int
  <2>1. Terms \in TermsSet /\ Terms.dex = market.dex
    BY <1>a, TermsType DEF Terms
  <2> QED BY <2>1, <1>a, GasType, PriceTypes, SlippageTypes, QuoteAssumption, AmountsAssumption
<1>c. FeeCushion \in Int
  <2>1. TotalFee(order.best, Terms.fee) \in Int
    BY <1>a, <1>b, TotalFeeType DEF TermsSet
  <2> QED BY <2>1, <1>a DEF FeeCushion, Terms
<1>1. /\ order.trade = TotalWei - order.gas
      /\ EthOut(order.native) = MessageGas(Terms, swap.route)
      /\ order.gas >= EthOut(order.native)
      /\ \A v \in Quoting : InAt(v, order.trade) <= order.best
      /\ FreshQuote
  BY DEF OrderQuiet
<1>2. PICK need \in Int : Delivers(Terms, swap.route, need, goal) /\ Buys(Terms, wei, need)
  BY DEF SwapQuiet, SwapPoints, AttemptPoints, Backed
<1>3. PICK v \in Venues : market.dex[v] > 0 /\ wei * market.dex[v] >= need * Unit
  BY <1>2, <1>b DEF Buys
<1>4. wei = order.trade + lost /\ lost \in Nat /\ wei \in Int /\ k \in Int
  BY <1>1, <1>a, <1>b, <1>c DEF TotalWei, FeeBuffer
<1>5. v \in Quoting /\ market.dex[v] \in Nat \ {0}
  BY <1>3, <1>a, MarketTypes DEF Quoting
<1>6. k * Unit >= lost * market.dex[v]
  BY <1>5 DEF ToleranceCovers
<1> HIDE DEF goal, down, lost, k, wei
<1>7. k \in Nat
  <2>1. lost * market.dex[v] \in Nat
    BY <1>4, <1>5
  <2> QED BY <1>4, <1>6, <1>b, <2>1, SMTT(30)
<1>8. (need - k) * Unit <= order.trade * market.dex[v] /\ order.trade * market.dex[v] \in Int
  <2>1. wei * market.dex[v] = order.trade * market.dex[v] + lost * market.dex[v]
    BY <1>4, <1>5, <1>a, SMTT(30)
  <2>2. (need - k) * Unit = need * Unit - k * Unit
    BY <1>4, <1>b, SMTT(30)
  <2>3. /\ order.trade * market.dex[v] \in Int /\ lost * market.dex[v] \in Int
        /\ wei * market.dex[v] \in Int /\ need * Unit \in Int /\ k * Unit \in Int
    BY <1>4, <1>5, <1>a, <1>b
  <2> QED BY <1>3, <1>6, <2>1, <2>2, <2>3
<1>9. need - k <= InAt(v, order.trade)
  BY <1>4, <1>8, <1>b, DivCovers DEF InAt
<1>10. order.best >= need - k
  <2>1. InAt(v, order.trade) \in Int /\ InAt(v, order.trade) <= order.best
    BY <1>1, <1>5, <1>a, PriceTypes
  <2> QED BY <2>1, <1>4, <1>9, <1>a
<1>11. Net(Terms, swap.route, order.best) >= goal - k
  BY <1>2, <1>7, <1>10, <1>a, <1>b, DeliversNearly DEF goal
<1>12. goal - k = down + FeeCushion /\ goal \in Int
  BY <1>a, <1>b, <1>c DEF k, goal
<1>13. CASE swap.route = "cctp"
  <2>1. order.fresh = SatSub(order.best, order.maxFee)
    BY <1>1, <1>13 DEF FreshQuote
  <2>2. FeeCushion = order.maxFee - TotalFee(order.best, Terms.fee)
        /\ Net(Terms, swap.route, order.best) = order.best - TotalFee(order.best, Terms.fee)
    BY <1>13 DEF FeeCushion, Net, Terms
  <2>3. TotalFee(order.best, Terms.fee) \in Int
    BY <1>a, <1>b, TotalFeeType DEF TermsSet
  <2>4. order.best - order.maxFee >= down
    BY <1>11, <1>12, <2>2, <2>3, <1>a, <1>b
  <2>5. order.fresh >= down
    BY <2>1, <2>4, <1>a, <1>b DEF SatSub
  <2> QED BY <2>5 DEF down
<1>14. CASE swap.route # "cctp"
  <2>1. FeeCushion = 0
    BY <1>14 DEF FeeCushion
  <2>2. order.fresh = Net(Terms, swap.route, order.best)
    <3>1. CASE swap.route = "direct"
      BY <1>1, <3>1 DEF FreshQuote, Net
    <3>2. CASE IsOft(swap.route)
      BY <1>1, <3>2, OftNet DEF FreshQuote, IsOft
    <3> QED BY <3>1, <3>2, <1>14, <1>a DEF IsOft
  <2>3. order.fresh >= down
    BY <2>1, <2>2, <1>11, <1>12, <1>b
  <2> QED BY <2>3 DEF down
<1> QED BY <1>13, <1>14

(* A step that is not a move of the world leaves the terms as they are:    *)
(* the cache learns of an account only when the account is there.          *)
LEMMA StandsStill ==
  ASSUME TypeOK, [Next]_vars
  PROVE  \/ moves' = moves + 1 /\ UNCHANGED <<pc, draft, quote, swap, order>>
         \/ UNCHANGED <<moves, market, ata>> /\ NeedsSetup' = NeedsSetup /\ Terms' = Terms
<1>1. CASE Moves
  BY <1>1 DEF Moves
<1>2. CASE ~Moves
  <2>1. UNCHANGED <<moves, market, ata>>
    <3>1. CASE Preparing
      BY <3>1, PreparingFrame
    <3>2. CASE Claiming
      BY <3>2 DEF Claiming, TryClaim, ClaimOptions, EstimateMessagingFee, SplitForFee, QuoteTrade,
         QuoteBurnFee, QuoteDelivery, QuoteDegraded, SignMin, BuildApproval, Submit,
         TryClaimFails, OrderStep, world
    <3>3. CASE Create \/ Execute \/ (\E slip \in Slippages : UpdateSwapSlippage(slip))
      BY <3>3 DEF Create, Execute, UpdateSwapSlippage, world
    <3>4. CASE UNCHANGED vars
      BY <3>4 DEF vars, world
    <3> QED BY <1>2, <3>1, <3>2, <3>3, <3>4 DEF Next
  <2>2. cached' = cached \/ cached' = (cached \/ ata)
    BY <1>2 DEF Next, Preparing, Prepare, PrepareFee, ComputeExtraOptions, SearchGrow, SearchSplit,
       QuoteMessagingFee, FetchQuoteOutTbtc, FetchQuoteOutTbtcForEth, ApplyBoltzFee,
       PrepareFromSats, Forward, FetchQuoteIn, SubtractBurnFee, QuoteMessagingFeeIn,
       SubtractMessagingFee, QuoteAdjusted, QuoteOftReceived, PrepareFails, Step, Prepared,
       Create, Claiming, TryClaim, ClaimOptions, EstimateMessagingFee, SplitForFee, QuoteTrade,
       QuoteBurnFee, QuoteDelivery, QuoteDegraded, SignMin, BuildApproval, Submit,
       TryClaimFails, OrderStep, Execute, UpdateSwapSlippage, vars
  <2>3. NeedsSetup' = NeedsSetup
    <3>1. CASE cached' = cached
      BY <2>1, <3>1 DEF NeedsSetup
    <3>2. CASE cached' = (cached \/ ata)
      <4>1. NeedsSetup' <=> NeedsSetup
        BY <2>1, <3>2, Zenon DEF NeedsSetup
      <4>2. NeedsSetup \in BOOLEAN /\ NeedsSetup' \in BOOLEAN
        BY Zenon DEF NeedsSetup
      <4> HIDE DEF NeedsSetup
      <4> QED BY <4>1, <4>2, Zenon
    <3> QED BY <2>2, <3>1, <3>2
  <2> QED BY <2>1, <2>3, SameTerms
<1> QED BY <1>1, <1>2

LEMMA CreateQuiet ==
  TypeOK /\ QuietInv /\ Create => QuoteQuiet' /\ SwapQuiet'
<1> SUFFICES ASSUME TypeOK, QuietInv, Create PROVE QuoteQuiet' /\ SwapQuiet'
  OBVIOUS
<1>a. Terms' = Terms /\ moves' = moves
  <2>1. moves' = moves /\ [Next]_vars
    BY DEF Create, world, Next
  <2> QED BY <2>1, StandsStill DEF TypeOK
<1>b. quote.since <= moves /\ quote.estimate \in Int /\ moves \in Nat /\ Terms \in TermsSet
      /\ ComputeOnchain(quote.pair, quote.invoice) \in Int
  <2>1. quote \in Quotes /\ market \in Markets
    BY DEF TypeOK
  <2>2. quote.pair \in Pairs /\ quote.invoice \in Int /\ quote.estimate \in Int
    BY <2>1 DEF Quotes
  <2> QED BY <2>1, <2>2, OnchainType, TermsType, QuoteAssumption DEF QuietInv, QuoteQuiet, TypeOK
<1>1. QuoteQuiet'
  BY <1>a, <1>b DEF Create, QuoteQuiet, NoQuote
<1>2. SwapQuiet'
  <2>1. CASE pc' = "idle"
    BY <2>1, <1>a DEF Create, QuietInv, SwapQuiet, SwapPoints, AttemptPoints
  <2>2. CASE pc' = "locked"
    <3>1. PICK onchain \in {quote.estimate - 1, ComputeOnchain(quote.pair, quote.invoice)} :
            /\ onchain >= quote.estimate
            /\ swap' = [route |-> quote.route, expected |-> quote.output, onchain |-> onchain,
                        slip |-> quote.slip, since |-> quote.since]
      BY <2>2 DEF Create, AmountAccepted
    <3>2. onchain \in Int /\ pc = "prepared"
      BY <3>1, <1>b DEF Create
    <3>3. swap'.since = quote.since /\ swap'.route = quote.route /\ swap'.onchain = onchain
          /\ swap'.expected = quote.output
      BY <3>1
    <3>4. ASSUME quote.since = moves
          PROVE  Backed(Terms, quote.route, onchain, quote.output)
      <4>1. Backed(Terms, quote.route, quote.estimate, quote.output)
        BY <3>2, <3>4 DEF QuietInv, QuoteQuiet
      <4> QED BY <4>1, <3>1, <3>2, <1>b, BackedMore
    <3> QED BY <3>3, <3>4, <1>a, <1>b DEF SwapQuiet
  <2> QED BY <2>1, <2>2 DEF Create
<1> QED BY <1>1, <1>2

(* Within a claim attempt.                                                 *)
LEMMA ClaimingQuiet ==
  TypeOK /\ QuietInv /\ Claiming => QuoteQuiet' /\ SwapQuiet' /\ OrderQuiet'
<1> SUFFICES ASSUME TypeOK, QuietInv, Claiming PROVE QuoteQuiet' /\ SwapQuiet' /\ OrderQuiet'
  OBVIOUS
<1>a. UNCHANGED <<moves, market, ata, swap, quote>> /\ NeedsSetup' = NeedsSetup /\ Terms' = Terms
  <2>1. UNCHANGED <<moves, market, swap, quote>>
    BY DEF Claiming, TryClaim, ClaimOptions, EstimateMessagingFee, SplitForFee, QuoteTrade,
       QuoteBurnFee, QuoteDelivery, QuoteDegraded, SignMin, BuildApproval, Submit,
       TryClaimFails, OrderStep, world
  <2>2. moves' # moves + 1
    BY <2>1, QuoteAssumption DEF TypeOK
  <2> QED BY <2>1, <2>2, StandsStill DEF Next
<1>b. /\ order.gas \in Int /\ order.native \in Int /\ order.best \in Int /\ order.slip \in Nat
      /\ order.trade \in Int /\ order.setup \in BOOLEAN /\ order \in Orders
      /\ swap.onchain \in Int /\ market \in Markets
      /\ swap.route \in {"direct", "cctp", "native", "legacy"}
  <2>1. order \in Orders /\ swap \in Swaps /\ market \in Markets
    BY DEF TypeOK
  <2>2. swap.route \in {"direct", "cctp", "native", "legacy"}
    BY <2>1, QuoteAssumption DEF Swaps, RouteNames
  <2> QED BY <2>1, <2>2, AmountsAssumption DEF Orders, Swaps
<1>c. TotalWei' = TotalWei /\ TotalWei \in Int
  BY <1>a, <1>b, AmountsAssumption DEF TotalWei
<1>d. /\ \A route, x : QuoteOft(route, x)' = QuoteOft(route, x)
      /\ \A x : EthOut(x)' = EthOut(x)
      /\ Quoting' = Quoting
  BY <1>a DEF QuoteOft, EthOut, Quoting
<1>1. QuoteQuiet' /\ SwapQuiet'
  <2>1. pc \in SwapPoints /\ pc' \in SwapPoints
    BY DEF Claiming, TryClaim, ClaimOptions, EstimateMessagingFee, SplitForFee, QuoteTrade,
       QuoteBurnFee, QuoteDelivery, QuoteDegraded, SignMin, BuildApproval, Submit,
       TryClaimFails, OrderStep, SwapPoints, AttemptPoints
  <2> QED BY <2>1, <1>a DEF QuietInv, QuoteQuiet, SwapQuiet, SwapPoints, AttemptPoints
<1> SUFFICES ASSUME swap.since = moves PROVE OrderQuiet'
  BY <1>1, <1>a DEF OrderQuiet
<1>2. ASSUME NEW accept \in BOOLEAN, TryClaim(accept)
      PROVE  OrderQuiet'
  <2>1. pc' = IF IsOft(swap.route) THEN "cOptions" ELSE "cTrade"
    BY <1>2 DEF TryClaim
  <2>2. order'.trade = TotalWei /\ order'.gas = 0 /\ order'.native = 0
    BY <1>2 DEF TryClaim, NoOrder
  <2>3. EthOut(0) = 0
    BY <1>b, NoEth
  <2>4. EthOut(order.native)' = 0
    BY <2>2, <2>3, <1>d, <1>a DEF EthOut
  <2>5. ~IsOft(swap.route) => MessageGas(Terms', swap'.route) = 0
    BY <1>a DEF MessageGas
  <2>6. TotalWei = TotalWei - 0
    BY <1>c
  <2> QED BY <2>1, <2>2, <2>4, <2>5, <2>6, <1>a, <1>c DEF OrderQuiet
<1>3. CASE ClaimOptions
  <2>1. order'.setup = NeedsSetup /\ pc' = "cFee" /\ pc = "cOptions"
    <3>1. order' = [order EXCEPT !.setup = NeedsSetup]
      BY <1>3 DEF ClaimOptions
    <3> HIDE DEF NeedsSetup
    <3> QED BY <3>1, <1>3, <1>b DEF ClaimOptions, Orders
  <2> QED BY <2>1, <1>a DEF OrderQuiet, QuietInv
<1>4. CASE EstimateMessagingFee
  <2>1. order'.native = market.lz[order.setup] /\ pc' = "cEth" /\ pc = "cFee"
    BY <1>4, <1>b DEF EstimateMessagingFee, OrderStep, Orders
  <2>2. order.setup = NeedsSetup /\ IsOft(swap.route)
    BY <2>1 DEF QuietInv, OrderQuiet
  <2> QED BY <2>1, <2>2, <1>a DEF OrderQuiet
<1>5. CASE SplitForFee
  <2> DEFINE gas == EthOut(SlippageUp(order.native, order.slip))
  <2>1. /\ order'.native = order.native /\ order'.gas = gas /\ order'.trade = TotalWei - gas
        /\ pc = "cEth" /\ pc' = "cTrade"
    BY <1>5, <1>b DEF SplitForFee, OrderStep, Orders
  <2>2. order.native = QuoteSend(NeedsSetup) /\ IsOft(swap.route)
    BY <2>1 DEF QuietInv, OrderQuiet
  <2>3. EthOut(order.native) = MessageGas(Terms, swap.route)
    BY <2>2 DEF MessageGas, Terms
  <2>4. gas >= EthOut(order.native)
    <3>1. order.native \in Nat
      <4>1. NeedsSetup \in BOOLEAN
        BY Zenon DEF NeedsSetup
      <4> HIDE DEF NeedsSetup
      <4> QED BY <4>1, <2>2, <1>b, MarketTypes
    <3>2. SlippageUp(order.native, order.slip) \in Int
          /\ order.native <= SlippageUp(order.native, order.slip)
      BY <3>1, <1>b, SlippageTypes, SlippageUpCovers
    <3> DEFINE up == SlippageUp(order.native, order.slip)
    <3>3. up \in Int /\ order.native <= up
      BY <3>2
    <3> HIDE DEF up
    <3>4. market.eth \in Nat \ {0} /\ Unit \in Nat
      BY <1>b, MarketTypes, QuoteAssumption
    <3>5. order.native * Unit <= up * Unit /\ order.native * Unit \in Int /\ up * Unit \in Int
      BY <3>3, <3>4, <1>b, ProductMonotone
    <3>6. EthOut(up) \in Int /\ EthOut(up) * market.eth >= up * Unit
      BY <3>4, <3>5, CeilDivCovers DEF EthOut
    <3>7. order.native * Unit <= EthOut(up) * market.eth
      <4>1. EthOut(up) * market.eth \in Int
        BY <3>4, <3>6
      <4> QED BY <4>1, <3>5, <3>6
    <3>8. EthOut(order.native) <= EthOut(up)
      <4> DEFINE c == EthOut(up)
      <4>1. c \in Int /\ order.native * Unit <= c * market.eth
        BY <3>6, <3>7
      <4> HIDE DEF c
      <4>2. CeilDiv(order.native * Unit, market.eth) <= c
        BY <4>1, <3>4, <3>5, CeilDivLeast
      <4> QED BY <4>2 DEF EthOut, c
    <3>9. EthOut(order.native) \in Int
      BY <1>b, PriceTypes
    <3> QED BY <3>6, <3>8, <3>9 DEF up
  <2>5. EthOut(order.native)' = EthOut(order.native)
    BY <2>1, <1>a DEF EthOut
  <2> HIDE DEF gas
  <2> QED BY <2>1, <2>2, <2>3, <2>4, <2>5, <1>a, <1>c DEF OrderQuiet
<1>6. CASE QuoteTrade
  <2>1. PICK v \in Quoting :
          /\ BestIn(order.trade, v)
          /\ order' = [order EXCEPT !.venue = v, !.best = InAt(v, order.trade),
                                    !.fresh = InAt(v, order.trade)]
    BY <1>6 DEF QuoteTrade, OrderStep
  <2>2. /\ order'.native = order.native /\ order'.gas = order.gas /\ order'.trade = order.trade
        /\ order'.best = InAt(v, order.trade) /\ order'.fresh = order'.best
    BY <2>1, <1>b DEF Orders
  <2>3. pc = "cTrade" /\ pc' = CASE swap.route = "direct" -> "cSign"
                               [] swap.route = "cctp" -> "cBurnFee" [] OTHER -> "cOft"
    BY <1>6 DEF QuoteTrade, OrderStep
  <2>4. \A u \in Quoting' : InAt(u, order.trade)' <= order'.best
    BY <2>1, <2>2, <1>a, <1>d DEF BestIn, InAt
  <2>5. pc' = "cSign" => FreshQuote'
    BY <2>2, <2>3, <1>a, <1>b DEF FreshQuote
  <2>6. /\ order.trade = TotalWei - order.gas
        /\ EthOut(order.native) = MessageGas(Terms, swap.route)
        /\ order.gas >= EthOut(order.native)
    BY <2>3 DEF QuietInv, OrderQuiet
  <2>7. EthOut(order.native)' = EthOut(order.native)
    BY <2>2, <1>a DEF EthOut
  <2>8. /\ pc' \in {"cSign", "cBurnFee", "cOft"}
        /\ pc' = "cBurnFee" => swap.route = "cctp"
        /\ pc' = "cOft" => IsOft(swap.route)
    BY <2>3, <1>b DEF IsOft
  <2> QED BY <2>2, <2>4, <2>5, <2>6, <2>7, <2>8, <1>a, <1>c DEF OrderQuiet
<1>7. CASE QuoteBurnFee \/ QuoteDelivery
  <2>1. /\ order'.native = order.native /\ order'.gas = order.gas /\ order'.trade = order.trade
        /\ order'.best = order.best /\ pc \in {"cBurnFee", "cOft"} /\ pc' = "cSign"
    BY <1>7, <1>b DEF QuoteBurnFee, QuoteDelivery, OrderStep, Orders
  <2>2. FreshQuote'
    <3>1. CASE QuoteBurnFee
      <4>1. order'.fresh = SatSub(order'.best, order'.maxFee) /\ swap.route = "cctp"
        BY <3>1, <1>b DEF QuoteBurnFee, OrderStep, Orders, QuietInv, OrderQuiet
      <4> QED BY <4>1, <1>a DEF FreshQuote
    <3>2. CASE QuoteDelivery
      <4>1. order'.fresh = QuoteOft(swap.route, order.best) /\ IsOft(swap.route)
        BY <3>2, <1>b DEF QuoteDelivery, OrderStep, Orders, QuietInv, OrderQuiet
      <4>2. QuoteOft(swap.route, order.best)' = QuoteOft(swap.route, order.best)
        BY <2>1, <1>a DEF QuoteOft
      <4> QED BY <4>1, <4>2, <1>a DEF FreshQuote, IsOft
    <3> QED BY <1>7, <3>1, <3>2
  <2>3. /\ order.trade = TotalWei - order.gas
        /\ EthOut(order.native) = MessageGas(Terms, swap.route)
        /\ order.gas >= EthOut(order.native)
        /\ \A v \in Quoting : InAt(v, order.trade) <= order.best
    BY <2>1 DEF QuietInv, OrderQuiet
  <2>4. EthOut(order.native)' = EthOut(order.native)
    BY <2>1, <1>a DEF EthOut
  <2>5. \A v \in Quoting' : InAt(v, order.trade)' <= order'.best
    BY <2>1, <2>3, <1>a, <1>d DEF InAt
  <2> QED BY <2>1, <2>2, <2>3, <2>4, <2>5, <1>a, <1>c DEF OrderQuiet
<1>8. CASE QuoteDegraded \/ SignMin \/ BuildApproval \/ Submit \/ TryClaimFails
  <2>1. pc' \in {"degraded", "cApprove", "cSubmit", "sent", "locked"}
    BY <1>8 DEF QuoteDegraded, SignMin, BuildApproval, Submit, TryClaimFails, OrderStep
  <2> QED BY <2>1 DEF OrderQuiet
<1> QED BY <1>2, <1>3, <1>4, <1>5, <1>6, <1>7, <1>8 DEF Claiming

(* Within prepare.                                                         *)
LEMMA Undrafted ==
  ASSUME pc' \notin PreparePoints
  PROVE  DraftShape' /\ DraftQuiet'
BY DEF DraftShape, DraftQuiet, PreparePoints, OftPoints

LEMMA QuotedQuiet ==
  ASSUME TypeOK, draft.since <= moves, Terms' = Terms, moves' = moves,
         NEW output, NEW invoice, NEW onchain, NEW pair, Prepared(output, invoice, onchain, pair),
         draft.since = moves => Backed(Terms, draft.route, onchain, output)
  PROVE  DraftShape' /\ DraftQuiet' /\ QuoteQuiet'
<1>1. /\ quote'.since = draft.since /\ quote'.route = draft.route /\ quote'.estimate = onchain
      /\ quote'.output = output /\ pc' = "prepared"
  BY DEF Prepared
<1>2. DraftShape' /\ DraftQuiet'
  BY <1>1, Undrafted DEF PreparePoints
<1> QED BY <1>1, <1>2 DEF QuoteQuiet

LEMMA ForwardQuiet ==
  ASSUME TypeOK, draft.since <= moves, Terms' = Terms, moves' = moves,
         NEW output, Forward(output),
         draft.since = moves =>
           \E need \in Int, wei \in Int :
             /\ Delivers(Terms, draft.route, need, output) /\ Buys(Terms, wei, need)
             /\ wei <= Onchain * SatsFactor + 2 * (SatsFactor - 1)
                         - MessageGas(Terms, draft.route)
  PROVE  DraftShape' /\ DraftQuiet' /\ QuoteQuiet'
<1>1. Prepared(output, quote.invoice, Onchain, quote.pair)
  BY DEF Forward, Onchain
<1>2. Onchain \in Int /\ Terms \in TermsSet
  <2>1. quote.pair \in Pairs /\ quote.invoice \in Int
    BY DEF TypeOK, Quotes
  <2> QED BY <2>1, OnchainType, TermsType DEF Onchain, TypeOK
<1>3. draft.since = moves => Backed(Terms, draft.route, Onchain, output)
  BY <1>2, BackedBy
<1> QED BY <1>1, <1>3, QuotedQuiet

LEMMA PreparingQuiet ==
  TypeOK /\ SearchSound /\ QuietInv /\ Preparing => DraftShape' /\ DraftQuiet' /\ QuoteQuiet'
<1> SUFFICES ASSUME TypeOK, SearchSound, QuietInv, Preparing
             PROVE  DraftShape' /\ DraftQuiet' /\ QuoteQuiet'
  OBVIOUS
<1>a. UNCHANGED <<moves, market, ata>> /\ NeedsSetup' = NeedsSetup /\ Terms' = Terms
  <2>1. moves' = moves
    BY PreparingFrame
  <2>2. moves' # moves + 1
    BY <2>1, QuoteAssumption DEF TypeOK
  <2> QED BY <2>1, <2>2, StandsStill DEF Next
<1>b. /\ draft \in Drafts /\ quote \in Quotes /\ market \in Markets /\ moves \in Nat
      /\ draft.since <= moves /\ quote.since <= moves /\ draft.goal \in Nat
  BY QuoteAssumption DEF TypeOK, SearchSound, QuietInv, QuoteQuiet, Drafts
<1>c. /\ draft.need \in Int /\ draft.sats \in Int /\ draft.native \in Int /\ draft.low \in Int
      /\ draft.setup \in BOOLEAN /\ draft.mode \in {"out", "in"}
      /\ draft.route \in {"direct", "cctp", "native", "legacy"}
      /\ Onchain \in Int /\ SatsFactor \in Nat \ {0} /\ Terms \in TermsSet /\ Terms.gas \in Int
  <2>1. draft.route \in {"direct", "cctp", "native", "legacy"}
    BY <1>b, QuoteAssumption DEF Drafts, RouteNames
  <2>2. Onchain \in Int
    <3>1. quote.pair \in Pairs /\ quote.invoice \in Int
      BY <1>b DEF Quotes
    <3> QED BY <3>1, OnchainType DEF Onchain
  <2>3. Terms \in TermsSet /\ Terms.gas \in Int
    BY <1>b, TermsType DEF TermsSet
  <2> QED BY <2>1, <2>2, <2>3, <1>b, AmountsAssumption DEF Drafts
<1>d. EthOut(QuoteSend(NeedsSetup)) = Terms.gas /\ EthOut(0) = 0
  BY <1>b, NoEth DEF Terms
<1>e. QuoteSend(NeedsSetup)' = QuoteSend(NeedsSetup)
  BY <1>a
<1>s. ASSUME NEW point, NEW d, Step(point, d)
      PROVE  pc' = point /\ draft' = d /\ quote' = quote /\ Onchain' = Onchain
             /\ (point # "prepared" => QuoteQuiet')
  BY <1>s, <1>a, <1>b DEF Step, QuoteQuiet, Onchain
<1>1. ASSUME NEW route \in Routes, NEW slip \in Slippages, NEW target \in Targets,
             Prepare(route, target, slip)
      PROVE  DraftShape' /\ DraftQuiet' /\ QuoteQuiet'
  <2> DEFINE point == IF route = "direct" THEN "leg" ELSE IF route = "cctp" THEN "fee" ELSE "options"
             d == [NoDraft EXCEPT !.route = route, !.slip = slip, !.goal = target, !.need = target,
                                  !.since = moves]
  <2>1. Step(point, d)
    BY <1>1 DEF Prepare
  <2>2. d.route = route /\ d.goal = target /\ d.need = target /\ d.native = 0 /\ d.mode = "out"
    BY DEF NoDraft
  <2> HIDE DEF d
  <2>3. pc' = point /\ draft' = d /\ QuoteQuiet'
    BY <2>1, <1>s
  <2>4. target \in Int /\ route \in {"direct", "cctp", "native", "legacy"}
    BY QuoteAssumption
  <2>5. Delivers(Terms, "direct", target, target)
    BY <2>4, PlainDelivers
  <2> QED BY <2>2, <2>3, <2>4, <2>5, <1>a DEF DraftShape, DraftQuiet, OftPoints, IsOft
<1>2. ASSUME NEW route \in Routes, NEW slip \in Slippages, NEW invoice \in Invoices,
             PrepareFromSats(route, invoice, slip)
      PROVE  DraftShape' /\ DraftQuiet' /\ QuoteQuiet'
  <2>1. /\ draft'.route = route /\ draft'.mode = "in"
        /\ draft'.sats = ComputeOnchain(market.pair, invoice)
        /\ pc' = IF IsOft(route) THEN "options" ELSE "inLeg"
    BY <1>2 DEF PrepareFromSats, NoDraft
  <2>2. quote'.invoice = invoice /\ quote'.pair = market.pair /\ quote'.since = 0
    BY <1>2 DEF PrepareFromSats, NoQuote
  <2>3. draft'.sats = Onchain'
    BY <2>1, <2>2 DEF Onchain
  <2>4. QuoteQuiet'
    BY <2>1, <2>2, <1>a, <1>b DEF QuoteQuiet
  <2> QED BY <2>1, <2>3, <2>4 DEF DraftShape, DraftQuiet, OftPoints, IsOft
<1>3. CASE PrepareFee
  <2> DEFINE burn == RequiredBurn(draft.goal, GetFee(CctpNeedsSetup))
             d == [draft EXCEPT !.need = burn]
  <2>1. Step("leg", d) /\ burn <= MaxU64 /\ pc = "fee"
    BY <1>3 DEF PrepareFee
  <2>2. d.route = draft.route /\ d.goal = draft.goal /\ d.need = burn /\ d.native = draft.native
        /\ d.since = draft.since
    BY <1>b DEF Drafts
  <2>3. draft.route = "cctp" /\ draft.native = 0
    BY <2>1 DEF QuietInv, DraftShape
  <2>4. Delivers(Terms, "cctp", burn, draft.goal)
    <3> SUFFICES ASSUME NEW x \in Int, x >= burn
                 PROVE  x - TotalFee(x, Terms.fee) >= draft.goal
      BY DEF Delivers, Net
    <3>1. Terms.fee \in [bps : Nat, fwd : Nat] /\ burn = RequiredBurn(draft.goal, Terms.fee)
      BY <1>c DEF TermsSet, Terms
    <3> HIDE DEF burn
    <3> QED BY <3>1, <2>1, <1>b, BurnLeaves
  <2> HIDE DEF d, burn
  <2>5. pc' = "leg" /\ draft' = d /\ QuoteQuiet'
    BY <2>1, <1>s
  <2> QED BY <2>2, <2>3, <2>4, <2>5, <1>a DEF DraftShape, DraftQuiet, OftPoints, IsOft
<1>4. CASE ComputeExtraOptions
  <2>1. /\ draft'.route = draft.route /\ draft'.goal = draft.goal /\ draft'.mode = draft.mode
        /\ draft'.sats = draft.sats /\ draft'.since = draft.since /\ draft'.setup = NeedsSetup
        /\ draft'.need = IF draft.route = "legacy" THEN LegacySource(draft.goal) ELSE draft.need
    <3> HIDE DEF NeedsSetup
    <3> QED BY <1>4, <1>b DEF ComputeExtraOptions, Drafts
  <2>2. /\ pc = "options" /\ quote' = quote
        /\ pc' = IF draft.mode = "in" THEN "inLeg"
                 ELSE IF draft.route = "legacy" \/ draft.goal = 0 THEN "msgFee" ELSE "grow"
    BY <1>4 DEF ComputeExtraOptions
  <2>3. /\ IsOft(draft.route)
        /\ draft.mode = "out" => draft.need = draft.goal
        /\ draft.since = moves /\ draft.mode = "in" => draft.sats = Onchain
    BY <2>2 DEF QuietInv, DraftShape, DraftQuiet, OftPoints
  <2>4. LegacySource(draft.goal) >= draft.goal
    BY <1>b, LegacyCovers
  <2>5. Onchain' = Onchain /\ QuoteQuiet'
    BY <2>2, <1>a, <1>b DEF Onchain, QuoteQuiet
  <2>6. DraftShape'
    BY <2>1, <2>2, <2>3, <2>4, <1>b, <1>c DEF DraftShape, OftPoints, IsOft
  <2>7. DraftQuiet'
    BY <2>1, <2>2, <2>3, <2>5, <1>a, <1>c DEF DraftQuiet
  <2> QED BY <2>5, <2>6, <2>7
<1>5. CASE SearchGrow \/ SearchSplit
  <2>1. PICK point, d :
        /\ point \in {"grow", "split", "msgFee"} /\ Step(point, d)
        /\ d.route = draft.route /\ d.goal = draft.goal /\ d.since = draft.since
        /\ d.setup = draft.setup
    <3>1. CASE SearchGrow
      <4>1. CASE Step("split", draft)
        BY <4>1
      <4> DEFINE d == [draft EXCEPT !.low = draft.high + 1, !.high = 2 * draft.high,
                                    !.tries = draft.tries + 1]
      <4>2. CASE Step("grow", d)
        <5>1. d.route = draft.route /\ d.goal = draft.goal /\ d.since = draft.since
              /\ d.setup = draft.setup
          BY <1>b DEF Drafts
        <5> HIDE DEF d
        <5> QED BY <4>2, <5>1
      <4> QED BY <3>1, <4>1, <4>2 DEF SearchGrow
    <3>2. CASE SearchSplit
      <4> DEFINE mid == draft.low + (draft.high - draft.low) \div 2
                 d == Narrowed(mid)
                 e == [draft EXCEPT !.need = draft.low]
      <4>1. CASE Step("split", d)
        <5>1. d.route = draft.route /\ d.goal = draft.goal /\ d.since = draft.since
              /\ d.setup = draft.setup
          BY <1>b DEF Drafts, Narrowed
        <5> HIDE DEF d
        <5> QED BY <4>1, <5>1
      <4>2. CASE Step("msgFee", e)
        <5>1. e.route = draft.route /\ e.goal = draft.goal /\ e.since = draft.since
              /\ e.setup = draft.setup
          BY <1>b DEF Drafts
        <5> HIDE DEF e
        <5> QED BY <4>2, <5>1
      <4> QED BY <3>2, <4>1, <4>2 DEF SearchSplit
    <3> QED BY <1>5, <3>1, <3>2
  <2>2. pc \in {"grow", "split"}
    BY <1>5 DEF SearchGrow, SearchSplit
  <2>3. draft.route = "native" /\ draft.goal > 0 /\ (draft.since = moves => draft.setup = NeedsSetup)
    BY <2>2 DEF QuietInv, DraftShape, DraftQuiet
  <2>4. pc' = point /\ draft' = d /\ QuoteQuiet'
    BY <2>1, <1>s
  <2> QED BY <2>1, <2>3, <2>4, <1>a, <1>b DEF DraftShape, DraftQuiet, OftPoints, IsOft
<1>6. CASE QuoteMessagingFee
  <2> DEFINE d == [draft EXCEPT !.native = QuoteSend(draft.setup)]
  <2>1. Step("leg", d) /\ pc = "msgFee"
    BY <1>6 DEF QuoteMessagingFee
  <2>2. d.route = draft.route /\ d.goal = draft.goal /\ d.need = draft.need
        /\ d.native = QuoteSend(draft.setup) /\ d.since = draft.since
    BY <1>b DEF Drafts
  <2>3. IsOft(draft.route)
    BY <2>1 DEF QuietInv, DraftShape, OftPoints
  <2>4. ASSUME draft.since = moves
        PROVE  Delivers(Terms, draft.route, draft.need, draft.goal)
    <3>1. CASE draft.route = "native"
      <4>1. Net(Terms, "native", draft.need) >= draft.goal
        <5>1. CASE draft.goal > 0
          <6>1. QuoteOft(draft.route, draft.need) >= draft.goal
            BY <2>1, <2>4, <3>1, <5>1 DEF SearchSound, SearchIsLeast, Suffices
          <6> QED BY <6>1, <2>3, <3>1, OftNet
        <5>2. CASE draft.goal = 0
          <6>1. draft.need = 0
            BY <2>1, <3>1, <5>2 DEF QuietInv, DraftShape
          <6>2. Bps \in Nat \ {0} /\ Terms.oft \in Nat
            BY <1>c, AmountsAssumption DEF TermsSet
          <6>3. CeilDiv(0 * Terms.oft, Bps) = 0
            BY <6>2, SMTT(30) DEF CeilDiv
          <6> QED BY <6>1, <6>3, <5>2 DEF Net
        <5> QED BY <5>1, <5>2, <1>b
      <4> QED BY <4>1, <3>1, <1>b, <1>c, NativeDelivers
    <3>2. CASE draft.route = "legacy"
      <4>1. draft.need >= draft.goal
        BY <2>1, <3>2 DEF QuietInv, DraftShape
      <4> QED BY <4>1, <3>2, <1>b, <1>c, PlainDelivers
    <3> QED BY <3>1, <3>2, <2>3 DEF IsOft
  <2>5. draft.since = moves => draft.setup = NeedsSetup
    BY <2>1 DEF QuietInv, DraftQuiet
  <2> HIDE DEF d
  <2>6. pc' = "leg" /\ draft' = d /\ QuoteQuiet'
    BY <2>1, <1>s
  <2>7. DraftShape'
    BY <2>2, <2>3, <2>6 DEF DraftShape, OftPoints
  <2>8. DraftQuiet'
    BY <2>2, <2>4, <2>5, <2>6, <1>a, <1>e DEF DraftQuiet
  <2> QED BY <2>6, <2>7, <2>8
<1>7. CASE FetchQuoteOutTbtc
  <2>1. PICK v \in Quoting :
          Step(IF draft.native > 0 THEN "ethLeg" ELSE "pair",
               [draft EXCEPT !.sats = WeiToSats(OutAt(v, draft.need))])
    BY <1>7 DEF FetchQuoteOutTbtc
  <2> DEFINE wei == OutAt(v, draft.need)
             sats == WeiToSats(wei)
             d == [draft EXCEPT !.sats = sats]
             point == IF draft.native > 0 THEN "ethLeg" ELSE "pair"
             rest == sats * SatsFactor + (SatsFactor - 1)
  <2>2. d.route = draft.route /\ d.goal = draft.goal /\ d.need = draft.need
        /\ d.native = draft.native /\ d.since = draft.since /\ d.sats = sats
    BY <1>b DEF Drafts
  <2>3. wei \in Int /\ Buys(Terms, wei, draft.need)
    BY <1>b, <1>c, OutBuys
  <2>4. sats \in Int /\ rest >= wei /\ rest \in Int
    <3> HIDE DEF wei
    <3>1. sats \in Int /\ rest >= wei
      BY <2>3, SatsCover
    <3> QED BY <3>1, <1>c
  <2>5. pc = "leg"
    BY <1>7 DEF FetchQuoteOutTbtc
  <2>6. Step(point, d)
    BY <2>1
  <2> HIDE DEF d, wei, sats
  <2>7. pc' = point /\ draft' = d /\ QuoteQuiet'
    BY <2>6, <1>s
  <2>8. Buys(Terms, rest, draft.need)
    <3> HIDE DEF rest
    <3> QED BY <2>3, <2>4, <1>c, BuysMore
  <2>9. draft.native > 0 => IsOft(draft.route)
    BY <2>5 DEF QuietInv, DraftShape
  <2>10. ASSUME draft.since = moves
         PROVE  /\ Delivers(Terms, draft.route, draft.need, draft.goal)
                /\ IsOft(draft.route) => draft.native = QuoteSend(NeedsSetup)
    BY <2>5, <2>10 DEF QuietInv, DraftQuiet
  <2>11. ASSUME draft.since = moves, ~(draft.native > 0)
         PROVE  Backed(Terms, draft.route, sats, draft.goal)
    <3>1. MessageGas(Terms, draft.route) = 0
      <4>1. CASE IsOft(draft.route)
        <5>1. market.lz[NeedsSetup] \in Nat
          <6>1. NeedsSetup \in BOOLEAN
            BY Zenon DEF NeedsSetup
          <6> HIDE DEF NeedsSetup
          <6> QED BY <6>1, <1>b, MarketTypes
        <5>2. QuoteSend(NeedsSetup) = 0
          BY <5>1, <4>1, <2>10, <2>11, <1>c
        <5> QED BY <5>2, <1>d DEF MessageGas
      <4> QED BY <4>1 DEF MessageGas
    <3>2. rest <= sats * SatsFactor + 2 * (SatsFactor - 1) - MessageGas(Terms, draft.route)
      <4>1. sats * SatsFactor \in Int
        BY <2>4, <1>c
      <4> QED BY <4>1, <3>1, <1>c
    <3> HIDE DEF rest
    <3> QED BY <2>4, <2>8, <2>10, <2>11, <3>2, <1>b, <1>c, BackedBy
  <2>12. DraftShape'
    BY <2>2, <2>7, <2>9 DEF DraftShape, OftPoints
  <2>13. DraftQuiet'
    BY <2>2, <2>7, <2>8, <2>9, <2>10, <2>11, <1>a, <1>e DEF DraftQuiet
  <2> QED BY <2>7, <2>12, <2>13
<1>8. CASE FetchQuoteOutTbtcForEth
  <2> DEFINE more == WeiToSats(EthOut(draft.native))
             sats == draft.sats + more
             d == [draft EXCEPT !.sats = sats]
             rest == draft.sats * SatsFactor + (SatsFactor - 1)
  <2>1. Step("pair", d) /\ pc = "ethLeg"
    BY <1>8 DEF FetchQuoteOutTbtcForEth
  <2>2. d.route = draft.route /\ d.goal = draft.goal /\ d.since = draft.since /\ d.sats = sats
    BY <1>b DEF Drafts
  <2>3. EthOut(draft.native) \in Int
    BY <1>b, <1>c, PriceTypes
  <2>4. more \in Int /\ more * SatsFactor + (SatsFactor - 1) >= EthOut(draft.native)
    BY <2>3, SatsCover
  <2>5. sats \in Int
    BY <2>4, <1>c
  <2> HIDE DEF d, more
  <2>6. ASSUME draft.since = moves
        PROVE  Backed(Terms, draft.route, sats, draft.goal)
    <3>1. /\ Delivers(Terms, draft.route, draft.need, draft.goal)
          /\ Buys(Terms, rest, draft.need)
          /\ draft.native = QuoteSend(NeedsSetup) /\ IsOft(draft.route)
      BY <2>1, <2>6 DEF QuietInv, DraftShape, DraftQuiet, OftPoints
    <3>2. MessageGas(Terms, draft.route) = EthOut(draft.native)
      BY <3>1, <1>d DEF MessageGas
    <3>3. rest <= sats * SatsFactor + 2 * (SatsFactor - 1) - MessageGas(Terms, draft.route)
          /\ rest \in Int
      <4>1. sats * SatsFactor = draft.sats * SatsFactor + more * SatsFactor
        BY <2>4, <1>c, SMTT(30)
      <4>2. sats * SatsFactor \in Int /\ draft.sats * SatsFactor \in Int /\ more * SatsFactor \in Int
        BY <2>4, <2>5, <1>c
      <4> HIDE DEF sats
      <4> QED BY <4>1, <4>2, <3>2, <2>3, <2>4, <1>c
    <3> HIDE DEF rest, sats
    <3> QED BY <3>1, <3>3, <2>5, <1>b, <1>c, BackedBy
  <2> HIDE DEF sats
  <2>7. pc' = "pair" /\ draft' = d /\ QuoteQuiet'
    BY <2>1, <1>s
  <2> QED BY <2>2, <2>6, <2>7, <1>a DEF DraftShape, DraftQuiet, OftPoints
<1>9. CASE ApplyBoltzFee
  <2>1. /\ Prepared(draft.goal, ComputeInvoice(market.pair, draft.sats), draft.sats, market.pair)
        /\ pc = "pair"
    BY <1>9 DEF ApplyBoltzFee
  <2>2. draft.since = moves => Backed(Terms, draft.route, draft.sats, draft.goal)
    BY <2>1 DEF QuietInv, DraftQuiet
  <2> QED BY <2>1, <2>2, <1>a, <1>b, QuotedQuiet
<1>10. CASE FetchQuoteIn
  <2> DEFINE wei == draft.sats * SatsFactor
  <2>1. PICK v \in Quoting :
          LET out == InAt(v, wei) IN
            /\ out > 0
            /\ CASE draft.route = "direct" -> Forward(out)
                 [] draft.route = "cctp" -> Step("inFee", [draft EXCEPT !.need = out])
                 [] OTHER -> Step("inMsgFee", draft)
    BY <1>10 DEF FetchQuoteIn
  <2> DEFINE out == InAt(v, wei)
  <2>2. wei \in Int /\ pc = "inLeg"
    BY <1>10, <1>c DEF FetchQuoteIn
  <2>3. out \in Int /\ Buys(Terms, wei, out)
    <3> HIDE DEF wei
    <3> QED BY <2>2, <1>b, InBuys
  <2>4. /\ draft.since = moves => draft.sats = Onchain
        /\ draft.since = moves /\ IsOft(draft.route) => draft.setup = NeedsSetup
    BY <2>2 DEF QuietInv, DraftQuiet
  <2>5. CASE draft.route = "direct"
    <3>1. Forward(out)
      BY <2>1, <2>5
    <3>2. Delivers(Terms, draft.route, out, out)
      <4> HIDE DEF out
      <4> QED BY <2>3, <2>5, PlainDelivers
    <3>3. draft.since = moves =>
            wei <= Onchain * SatsFactor + 2 * (SatsFactor - 1) - MessageGas(Terms, draft.route)
      BY <2>2, <2>4, <2>5, <1>c DEF MessageGas, IsOft
    <3> HIDE DEF out, wei
    <3> QED BY <2>2, <2>3, <3>1, <3>2, <3>3, <1>a, <1>b, ForwardQuiet
  <2>6. CASE draft.route = "cctp"
    <3> DEFINE d == [draft EXCEPT !.need = out]
    <3>1. Step("inFee", d)
      BY <2>1, <2>6
    <3>2. d.route = draft.route /\ d.need = out /\ d.since = draft.since
      BY <1>b DEF Drafts
    <3>3. out > 0
      BY <2>1
    <3> HIDE DEF d, out
    <3>4. pc' = "inFee" /\ draft' = d /\ QuoteQuiet' /\ Onchain' = Onchain
      BY <3>1, <1>s
    <3>5. draft.since = moves => Buys(Terms, Onchain * SatsFactor, out)
      BY <2>3, <2>4
    <3> QED BY <2>6, <3>2, <3>3, <3>4, <3>5, <1>a DEF DraftShape, DraftQuiet, OftPoints, IsOft
  <2>7. CASE IsOft(draft.route)
    <3>1. Step("inMsgFee", draft)
      BY <2>1, <2>7 DEF IsOft
    <3>2. pc' = "inMsgFee" /\ draft' = draft /\ QuoteQuiet' /\ Onchain' = Onchain
      BY <3>1, <1>s
    <3> QED BY <2>4, <2>7, <3>2, <1>a DEF DraftShape, DraftQuiet, OftPoints
  <2> QED BY <2>5, <2>6, <2>7, <1>c DEF IsOft
<1>11. CASE SubtractBurnFee
  <2> DEFINE output == SatSub(draft.need, TotalFee(draft.need, Terms.fee))
  <2>1. output > 0 /\ Forward(output) /\ pc = "inFee"
    BY <1>11 DEF SubtractBurnFee, Terms
  <2>2. draft.route = "cctp" /\ draft.need > 0
    BY <2>1 DEF QuietInv, DraftShape
  <2>3. Delivers(Terms, draft.route, draft.need, output)
    <3> SUFFICES ASSUME NEW x \in Int, x >= draft.need
                 PROVE  x - TotalFee(x, Terms.fee) >= output
      BY <2>2 DEF Delivers, Net
    <3>1. Terms.fee \in [bps : Nat, fwd : Nat] /\ draft.need \in Nat \ {0}
      BY <2>2, <1>c DEF TermsSet
    <3> QED BY <2>1, <3>1, RemainderLeaves
  <2>4. draft.since = moves => Buys(Terms, Onchain * SatsFactor, draft.need)
    BY <2>1 DEF QuietInv, DraftQuiet
  <2>5. Onchain * SatsFactor \in Int
        /\ Onchain * SatsFactor <= Onchain * SatsFactor + 2 * (SatsFactor - 1)
                                     - MessageGas(Terms, draft.route)
    <3>1. Onchain * SatsFactor \in Int
      BY <1>c
    <3> QED BY <3>1, <2>2, <1>c DEF MessageGas, IsOft
  <2> HIDE DEF output
  <2> QED BY <2>1, <2>3, <2>4, <2>5, <1>a, <1>b, <1>c, ForwardQuiet
<1>12. CASE QuoteMessagingFeeIn
  <2> DEFINE native == QuoteSend(draft.setup)
             d == [draft EXCEPT !.native = native]
             point == IF native = 0 THEN "inAdjusted" ELSE "inEthLeg"
  <2>1. Step(point, d) /\ pc = "inMsgFee"
    BY <1>12 DEF QuoteMessagingFeeIn
  <2>2. d.route = draft.route /\ d.native = native /\ d.since = draft.since /\ d.sats = draft.sats
    BY <1>b DEF Drafts
  <2> HIDE DEF d
  <2>3. pc' = point /\ draft' = d /\ QuoteQuiet' /\ Onchain' = Onchain
    BY <2>1, <1>s
  <2>4. IsOft(draft.route)
        /\ (draft.since = moves => draft.setup = NeedsSetup /\ draft.sats = Onchain)
    BY <2>1 DEF QuietInv, DraftShape, DraftQuiet, OftPoints
  <2>5. ASSUME draft.since = moves, native = 0
        PROVE  draft.sats * SatsFactor <= Onchain * SatsFactor + (SatsFactor - 1) - Terms.gas
    <3>1. Terms.gas = 0
      BY <2>4, <2>5, <1>d
    <3>2. draft.sats * SatsFactor = Onchain * SatsFactor /\ Onchain * SatsFactor \in Int
      BY <2>4, <2>5, <1>c
    <3> QED BY <3>1, <3>2, <1>c
  <2>6. DraftShape'
    BY <2>2, <2>3, <2>4 DEF DraftShape, OftPoints
  <2>7. draft.since = moves => native = QuoteSend(NeedsSetup)
    BY <2>4
  <2> HIDE DEF native
  <2>8. DraftQuiet'
    BY <2>2, <2>3, <2>4, <2>5, <2>7, <1>a, <1>e DEF DraftQuiet
  <2> QED BY <2>3, <2>6, <2>8
<1>13. CASE SubtractMessagingFee
  <2> DEFINE less == WeiToSats(EthOut(draft.native))
             sats == draft.sats - less
             d == [draft EXCEPT !.sats = sats]
  <2>1. Step("inAdjusted", d) /\ pc = "inEthLeg"
    BY <1>13 DEF SubtractMessagingFee
  <2>2. d.route = draft.route /\ d.since = draft.since /\ d.sats = sats
    BY <1>b DEF Drafts
  <2>3. EthOut(draft.native) \in Int
    BY <1>b, <1>c, PriceTypes
  <2>4. less \in Int /\ less * SatsFactor + (SatsFactor - 1) >= EthOut(draft.native)
    BY <2>3, SatsCover
  <2> HIDE DEF d, less
  <2>5. pc' = "inAdjusted" /\ draft' = d /\ QuoteQuiet' /\ Onchain' = Onchain
    BY <2>1, <1>s
  <2>6. IsOft(draft.route)
        /\ (draft.since = moves => draft.native = QuoteSend(NeedsSetup) /\ draft.sats = Onchain)
    BY <2>1 DEF QuietInv, DraftShape, DraftQuiet, OftPoints
  <2>7. ASSUME draft.since = moves
        PROVE  sats * SatsFactor <= Onchain * SatsFactor + (SatsFactor - 1) - Terms.gas
    <3>1. EthOut(draft.native) = Terms.gas /\ draft.sats = Onchain
      BY <2>6, <2>7, <1>d
    <3>2. sats * SatsFactor = draft.sats * SatsFactor - less * SatsFactor
      BY <2>4, <1>c, SMTT(30)
    <3>3. draft.sats * SatsFactor \in Int /\ less * SatsFactor \in Int
      BY <2>4, <1>c
    <3> HIDE DEF sats
    <3> QED BY <3>1, <3>2, <3>3, <2>3, <2>4, <1>c
  <2> HIDE DEF sats
  <2> QED BY <2>2, <2>5, <2>6, <2>7, <1>a DEF DraftShape, DraftQuiet, OftPoints
<1>14. CASE QuoteAdjusted
  <2> DEFINE wei == draft.sats * SatsFactor
             rest == Onchain * SatsFactor + (SatsFactor - 1) - Terms.gas
  <2>1. PICK v \in Quoting : Step("inOft", [draft EXCEPT !.need = InAt(v, wei)])
    BY <1>14 DEF QuoteAdjusted
  <2> DEFINE out == InAt(v, wei)
             d == [draft EXCEPT !.need = out]
  <2>2. d.route = draft.route /\ d.since = draft.since /\ d.need = out /\ Step("inOft", d)
    BY <2>1, <1>b DEF Drafts
  <2>3. wei \in Int /\ rest \in Int
    BY <1>c
  <2>4. out \in Int /\ Buys(Terms, wei, out)
    <3> HIDE DEF wei
    <3> QED BY <2>3, <1>b, InBuys
  <2> HIDE DEF d
  <2>5. pc' = "inOft" /\ draft' = d /\ QuoteQuiet' /\ Onchain' = Onchain
    BY <2>2, <1>s
  <2>6. IsOft(draft.route) /\ (draft.since = moves => wei <= rest)
    BY <1>14 DEF QuoteAdjusted, QuietInv, DraftShape, DraftQuiet, OftPoints
  <2>7. draft.since = moves => Buys(Terms, rest, out)
    <3> HIDE DEF wei, rest, out
    <3> QED BY <2>3, <2>4, <2>6, <1>c, BuysMore
  <2> HIDE DEF out
  <2> QED BY <2>2, <2>5, <2>6, <2>7, <1>a DEF DraftShape, DraftQuiet, OftPoints
<1>15. CASE QuoteOftReceived
  <2> DEFINE output == QuoteOft(draft.route, draft.need)
             rest == Onchain * SatsFactor + (SatsFactor - 1) - Terms.gas
  <2>1. Forward(output) /\ pc = "inOft"
    BY <1>15 DEF QuoteOftReceived
  <2>2. IsOft(draft.route) /\ (draft.since = moves => Buys(Terms, rest, draft.need))
    BY <2>1 DEF QuietInv, DraftShape, DraftQuiet, OftPoints
  <2>3. output = Net(Terms, draft.route, draft.need) /\ output \in Int
    BY <2>2, <1>b, <1>c, OftNet, QuoteOftType
  <2>4. Delivers(Terms, draft.route, draft.need, output)
    <3> HIDE DEF output
    <3>1. CASE draft.route = "native"
      <4>1. Net(Terms, "native", draft.need) >= output
        BY <2>3, <3>1
      <4> QED BY <4>1, <2>3, <3>1, <1>c, NativeDelivers
    <3>2. CASE draft.route = "legacy"
      <4>1. draft.need >= output
        BY <2>3, <3>2 DEF Net
      <4> QED BY <4>1, <2>3, <3>2, <1>c, PlainDelivers
    <3> QED BY <3>1, <3>2, <2>2 DEF IsOft
  <2>5. rest \in Int /\ rest <= Onchain * SatsFactor + 2 * (SatsFactor - 1)
                                  - MessageGas(Terms, draft.route)
    <3>1. Onchain * SatsFactor \in Int
      BY <1>c
    <3> QED BY <3>1, <2>2, <1>c DEF MessageGas
  <2> HIDE DEF output, rest
  <2> QED BY <2>1, <2>2, <2>4, <2>5, <1>a, <1>b, <1>c, ForwardQuiet
<1>16. CASE PrepareFails
  <2>1. pc' = "idle" /\ quote' = NoQuote
    BY <1>16 DEF PrepareFails
  <2>2. DraftShape' /\ DraftQuiet'
    BY <2>1, Undrafted DEF PreparePoints
  <2> QED BY <2>1, <2>2, <1>a, <1>b DEF QuoteQuiet, NoQuote
<1> QED
  BY <1>1, <1>2, <1>3, <1>4, <1>5, <1>6, <1>7, <1>8, <1>9, <1>10, <1>11, <1>12, <1>13, <1>14,
     <1>15, <1>16 DEF Preparing

LEMMA QuietNext ==
  TypeOK /\ VenueKnown /\ SearchSound /\ QuietInv /\ [Next]_vars => QuietInv'
<1> SUFFICES ASSUME TypeOK, VenueKnown, SearchSound, QuietInv, [Next]_vars
             PROVE  QuietInv'
  OBVIOUS
<1>a. moves \in Nat /\ draft.since \in Nat /\ quote.since \in Nat /\ swap.since \in Nat
      /\ draft.since <= moves /\ quote.since <= moves /\ swap.since <= moves
  BY QuoteAssumption DEF TypeOK, Drafts, Quotes, Swaps, SearchSound, QuietInv, QuoteQuiet, SwapQuiet
<1>1. CASE Preparing
  <2>1. DraftShape' /\ DraftQuiet' /\ QuoteQuiet'
    BY <1>1, PreparingQuiet
  <2>2. /\ pc' \in PreparePoints \cup {"idle", "prepared"}
        /\ swap' = swap /\ moves' = moves
    BY <1>1, PreparingFrame
  <2>3. pc' \notin SwapPoints
    BY <2>2 DEF PreparePoints, SwapPoints, AttemptPoints
  <2>4. SwapQuiet'
    BY <1>a, <2>2, <2>3 DEF SwapQuiet
  <2>5. OrderQuiet'
    BY <2>3 DEF OrderQuiet, SwapPoints, AttemptPoints
  <2> QED BY <2>1, <2>4, <2>5 DEF QuietInv
<1>2. CASE Create
  <2>1. pc' \in {"idle", "locked"}
    BY <1>2 DEF Create
  <2>2. DraftShape' /\ DraftQuiet'
    BY <2>1, Undrafted DEF PreparePoints
  <2>3. QuoteQuiet' /\ SwapQuiet'
    BY <1>2, CreateQuiet
  <2>4. OrderQuiet'
    BY <2>1 DEF OrderQuiet
  <2> QED BY <2>2, <2>3, <2>4 DEF QuietInv
<1>3. CASE Claiming
  <2>1. pc' \in SwapPoints
    BY <1>3 DEF Claiming, TryClaim, ClaimOptions, EstimateMessagingFee, SplitForFee, QuoteTrade,
       QuoteBurnFee, QuoteDelivery, QuoteDegraded, SignMin, BuildApproval, Submit,
       TryClaimFails, OrderStep, SwapPoints, AttemptPoints
  <2>2. DraftShape' /\ DraftQuiet'
    BY <2>1, Undrafted DEF PreparePoints, SwapPoints, AttemptPoints
  <2>3. QuoteQuiet' /\ SwapQuiet' /\ OrderQuiet'
    BY <1>3, ClaimingQuiet
  <2> QED BY <2>2, <2>3 DEF QuietInv
<1>4. CASE Moves
  <2>1. moves' = moves + 1 /\ UNCHANGED <<pc, draft, quote, swap, order>>
    BY <1>4 DEF Moves
  <2>2. draft'.since # moves' /\ quote'.since # moves' /\ swap'.since # moves'
        /\ quote'.since <= moves' /\ swap'.since <= moves'
    BY <1>a, <2>1
  <2>3. DraftShape'
    BY <2>1 DEF QuietInv, DraftShape
  <2> QED BY <2>2, <2>3 DEF QuietInv, DraftQuiet, QuoteQuiet, SwapQuiet, OrderQuiet
<1>5. CASE Execute
  <2>1. pc' \in {"done", "reverted"} /\ pc = "sent" /\ UNCHANGED <<moves, quote, swap>>
    BY <1>5 DEF Execute
  <2>2. Terms' = Terms
    <3>1. moves' # moves + 1
      BY <2>1, <1>a
    <3> QED BY <3>1, StandsStill
  <2>3. DraftShape' /\ DraftQuiet'
    BY <2>1, Undrafted DEF PreparePoints
  <2>4. QuoteQuiet'
    BY <2>1, <1>a DEF QuoteQuiet
  <2>5. SwapQuiet'
    BY <2>1, <2>2 DEF QuietInv, SwapQuiet, SwapPoints
  <2>6. OrderQuiet'
    BY <2>1 DEF OrderQuiet
  <2> QED BY <2>3, <2>4, <2>5, <2>6 DEF QuietInv
<1>6. ASSUME NEW slip \in Slippages, UpdateSwapSlippage(slip)
      PROVE  QuietInv'
  <2>1. /\ pc \in {"locked", "degraded", "sent", "reverted"}
        /\ UNCHANGED <<moves, pc, quote, order>>
        /\ swap' = [swap EXCEPT !.slip = slip]
    BY <1>6 DEF UpdateSwapSlippage, world
  <2>2. Terms' = Terms
    <3>1. moves' # moves + 1
      BY <2>1, <1>a
    <3> QED BY <3>1, <1>6, StandsStill DEF Next
  <2>3. swap'.since = swap.since /\ swap'.route = swap.route /\ swap'.onchain = swap.onchain
        /\ swap'.expected = swap.expected
    BY <2>1 DEF TypeOK, Swaps
  <2>4. DraftShape' /\ DraftQuiet'
    BY <2>1, Undrafted DEF PreparePoints
  <2>5. QuoteQuiet' /\ OrderQuiet'
    BY <2>1, <1>a DEF QuoteQuiet, OrderQuiet
  <2>6. SwapQuiet'
    BY <2>1, <2>2, <2>3 DEF QuietInv, SwapQuiet
  <2> QED BY <2>4, <2>5, <2>6 DEF QuietInv
<1>7. CASE UNCHANGED vars
  <2>1. UNCHANGED <<moves, pc, draft, quote, swap, order, market, ata>>
    BY <1>7 DEF vars, world
  <2>2. Terms' = Terms /\ NeedsSetup' = NeedsSetup
    <3>1. moves' # moves + 1
      BY <2>1, <1>a
    <3> QED BY <3>1, StandsStill
  <2>3. DraftShape' /\ QuoteQuiet' /\ SwapQuiet'
    BY <2>1, <2>2 DEF QuietInv, DraftShape, QuoteQuiet, SwapQuiet
  <2>4. DraftQuiet'
    <3>1. Onchain' = Onchain /\ QuoteSend(NeedsSetup)' = QuoteSend(NeedsSetup)
      BY <2>1, <2>2 DEF Onchain
    <3> QED BY <2>1, <2>2, <3>1 DEF QuietInv, DraftQuiet
  <2>5. OrderQuiet'
    <3>1. /\ TotalWei' = TotalWei /\ EthOut(order.native)' = EthOut(order.native)
          /\ QuoteSend(NeedsSetup)' = QuoteSend(NeedsSetup)
          /\ (\A v \in Quoting : InAt(v, order.trade) <= order.best)'
               = (\A v \in Quoting : InAt(v, order.trade) <= order.best)
          /\ FreshQuote' = FreshQuote
      BY <2>1, <2>2 DEF TotalWei, EthOut, Quoting, InAt, FreshQuote, QuoteOft
    <3> QED BY <2>1, <2>2, <3>1 DEF QuietInv, OrderQuiet
  <2> QED BY <2>3, <2>4, <2>5 DEF QuietInv
<1> QED BY <1>1, <1>2, <1>3, <1>4, <1>5, <1>6, <1>7 DEF Next

(* While the world stands still from the preparation to the claim, no      *)
(* claim is reported as degraded, whatever the amounts, prices and fees:   *)
(* a tolerance worth two sats, the buffer of the messaging fee and the     *)
(* cushion of the CCTP fee covers all that the client's own roundings      *)
(* (prepare_oft, compute_invoice_amount, split_for_fee, check_quote_drift) *)
(* can take from the amount it promised.                                   *)
THEOREM QuietClaims == Spec => QuietMarketClaims
<1> DEFINE IInv == TypeOK /\ VenueKnown /\ SearchSound /\ QuietInv
<1>1. Init => IInv
  <2> SUFFICES ASSUME Init PROVE IInv
    OBVIOUS
  <2>1. SearchSound
    BY DEF Init, SearchSound, SearchIsLeast, NoDraft
  <2>2. DraftShape /\ DraftQuiet /\ QuoteQuiet /\ SwapQuiet /\ OrderQuiet
    BY DEF Init, DraftShape, DraftQuiet, QuoteQuiet, SwapQuiet, OrderQuiet, OftPoints, SwapPoints,
       AttemptPoints, NoQuote, NoSwap
  <2> QED BY <2>1, <2>2, InitType DEF Init, VenueKnown, QuietInv
<1>2. IInv /\ [Next]_vars => IInv'
  BY NextType, VenueNext, SearchNext, QuietNext
<1>3. IInv /\ [Next]_vars => [QuoteDegraded /\ ToleranceCovers => moves # swap.since]_vars
  <2> SUFFICES ASSUME IInv, QuoteDegraded, ToleranceCovers, moves = swap.since
               PROVE  FALSE
    OBVIOUS
  <2>1. pc = "cSign" /\ order.fresh < SlippageDown(swap.expected, order.slip)
    BY DEF QuoteDegraded, Degrades, Drifted
  <2>2. order.fresh >= SlippageDown(swap.expected, order.slip)
    BY <2>1, NotDegraded DEF QuietInv
  <2>3. order.fresh \in Int /\ SlippageDown(swap.expected, order.slip) \in Int
    <3>1. order \in Orders /\ swap \in Swaps
      BY DEF TypeOK
    <3>2. order.slip \in Nat /\ swap.expected \in Int /\ order.fresh \in Int
      BY <3>1, AmountsAssumption DEF Orders, Swaps
    <3> QED BY <3>2, SlippageTypes
  <2> QED BY <2>1, <2>2, <2>3
<1> QED BY <1>1, <1>2, <1>3, PTL DEF Spec, QuietMarketClaims

=============================================================================
