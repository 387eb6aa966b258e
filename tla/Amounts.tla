------------------------------ MODULE Amounts ------------------------------
(***************************************************************************)
(* The amount arithmetic of quotes and claims: the basis-point helpers of  *)
(* src/crates/lib/src/swap/reverse.rs, the CCTP fee of evm/cctp.rs and the *)
(* legacy mesh fee of evm/oft.rs.  Divisions round as the code rounds.     *)
(* Products that pass MaxU128 are an error (checked_mul) or saturate       *)
(* (saturating_mul); the operators named ...Fits say which do not.         *)
(***************************************************************************)
EXTENDS Integers

CONSTANTS
  Bps,           \* 10000
  MinSlippage,   \* lower bound of slippage_bps
  MaxSlippage,   \* MAX_SLIPPAGE_BPS
  SatsFactor,    \* SATS_TO_TBTC_FACTOR
  FeeDenom,      \* CCTP_FEE_BPS_DENOMINATOR
  BufferBps,     \* CCTP_MAX_FEE_BUFFER_BPS
  LegacyFeeBps,  \* LEGACY_MESH_FEE_BPS
  MaxU64, MaxU128

ASSUME AmountsAssumption ==
  /\ {Bps, SatsFactor, FeeDenom, MaxU64, MaxU128} \subseteq Nat \ {0}
  /\ {MinSlippage, MaxSlippage, BufferBps, LegacyFeeBps} \subseteq Nat
  /\ MaxSlippage <= Bps /\ LegacyFeeBps < Bps
  /\ MaxU64 * FeeDenom < MaxU128

Least(a, b) == IF a <= b THEN a ELSE b
CeilDiv(a, b) == (a + b - 1) \div b

(* saturating_sub, saturating_mul.                                         *)
SatSub(a, b) == IF a >= b THEN a - b ELSE 0
SatMul(a, b) == Least(a * b, MaxU128)

-----------------------------------------------------------------------------
(* slippage_mul_div, apply_slippage_up, apply_slippage_down.               *)
SlippageFits(amount, slip) == amount * (Bps + slip) <= MaxU128
SlippageUp(amount, slip) == (amount * (Bps + slip)) \div Bps
SlippageDown(amount, slip) == (amount * (Bps - slip)) \div Bps

(* resolve_slippage_bps.                                                   *)
SlippageAllowed(slip) == slip \in MinSlippage..MaxSlippage

(* check_quote_drift: the fresh quote is below the tolerance.              *)
Drifted(expected, fresh, slip) == fresh < SlippageDown(expected, slip)

(* compute_claim_floor: anchored on the amount of the prepared quote, or   *)
(* on the fresh quote when the user took a degraded one.                   *)
ClaimFloor(expected, fresh, slip, accepted) ==
  SlippageDown(IF accepted THEN fresh ELSE expected, slip)

-----------------------------------------------------------------------------
(* Boltz's fee.  A pair is the fee in basis points, the two miner fees in  *)
(* one, and the limits.                                                    *)
FloorInvoice(pair, sats) ==        \* mutant: the invoice is rounded down
  ((sats + pair.miner) * Bps) \div (Bps - pair.pct)
ComputeInvoice(pair, sats) == CeilDiv((sats + pair.miner) * Bps, Bps - pair.pct)
BoltzFee(pair, invoice) == CeilDiv(invoice * pair.pct, Bps)
ComputeOnchain(pair, invoice) == invoice - BoltzFee(pair, invoice) - pair.miner
InLimits(pair, invoice) == invoice \in pair.min..pair.max

(* tbtc_wei_to_sats_u64.                                                   *)
WeiToSats(wei) == wei \div SatsFactor

-----------------------------------------------------------------------------
(* The CCTP burn fee: bps in units of FeeDenom, and the forwarding fee.    *)
TotalFee(amount, fee) == SatMul(amount, fee.bps) \div FeeDenom + fee.fwd

(* cctp_required_burn: the burn that leaves target after the fee.          *)
NoForwardFee(target, fee) ==       \* mutant: the forwarding fee is left out
  CeilDiv(SatMul(target, FeeDenom), FeeDenom - fee.bps)
RequiredBurn(target, fee) ==
  LET net == SatSub(FeeDenom, fee.bps) IN
    IF net = 0 THEN MaxU128 ELSE CeilDiv(SatMul(target + fee.fwd, FeeDenom), net)

(* add_fee_buffer.                                                         *)
WithFeeBuffer(fee) == CeilDiv(SatMul(fee, Bps + BufferBps), Bps)

(* legacy_mesh_source_amount, the inverse of the legacy bridge's fee.      *)
LegacySource(target) == CeilDiv(target * Bps, Bps - LegacyFeeBps)

(* decide_oft_approval_top_up: a runway of ten sends.                      *)
TopsUpEmpty(allowance, amount) == allowance = 0   \* mutant: the amount is ignored
NeedsTopUp(allowance, amount) == allowance < 10 * amount

=============================================================================
