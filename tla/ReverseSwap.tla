---------------------------- MODULE ReverseSwap ----------------------------
(***************************************************************************)
(* What a reverse swap promises its user, whatever happens inside: the     *)
(* preimage is given away only for tBTC that was locked; a swap reported   *)
(* as settling was claimed; one reported as completed has delivered; one   *)
(* blamed on a refund was refunded; and a swap is given up only when Boltz *)
(* will not lock the tBTC or may take it back.  A report that is final     *)
(* stays.                                                                  *)
(***************************************************************************)
VARIABLES
  report,    \* what the swap says of itself
  tbtc,      \* Boltz's tBTC in the contract
  due,       \* the timeout has passed
  revealed,  \* the preimage has left
  arrived,   \* the recipient has the tokens
  bridged    \* delivery is over a bridge

vars == <<report, tbtc, due, revealed, arrived, bridged>>

Init ==
  /\ report = "open" /\ tbtc = "none" /\ due \in BOOLEAN
  /\ revealed = FALSE /\ arrived = FALSE /\ bridged \in BOOLEAN

-----------------------------------------------------------------------------
(* What happens to the money.                                              *)
OnceLocked == tbtc \notin {"none", "never"}

Lock ==
  /\ tbtc = "none" /\ \/ ~due /\ tbtc' = "locked"
                      \/ tbtc' = "never"
  /\ UNCHANGED <<report, due, revealed, arrived, bridged>>

Expire ==
  /\ ~due /\ due' = TRUE
  /\ UNCHANGED <<report, tbtc, revealed, arrived, bridged>>

Refund ==
  /\ tbtc = "locked" /\ due /\ tbtc' = "refunded"
  /\ UNCHANGED <<report, due, revealed, arrived, bridged>>

Reveal ==
  /\ OnceLocked /\ revealed' = TRUE
  /\ UNCHANGED <<report, tbtc, due, arrived, bridged>>

(* Without a bridge the claim is the delivery.                             *)
Claim ==
  /\ tbtc = "locked" /\ tbtc' = "claimed"
  /\ revealed' = TRUE /\ arrived' = ~bridged
  /\ UNCHANGED <<report, due, bridged>>

Arrive ==
  /\ tbtc = "claimed" /\ arrived' = TRUE
  /\ UNCHANGED <<report, tbtc, due, revealed, bridged>>

-----------------------------------------------------------------------------
(* What the swap reports.                                                  *)
Report(stage) ==
  /\ report' = stage
  /\ UNCHANGED <<tbtc, due, revealed, arrived, bridged>>

Settle       == report = "open" /\ bridged /\ tbtc = "claimed" /\ Report("settling")
Complete     == report \in {"open", "settling"} /\ arrived /\ Report("completed")
ReportRefund == report = "open" /\ tbtc = "refunded" /\ Report("refunded")
GiveUp       == report = "open" /\ (tbtc = "never" \/ due) /\ Report("failed")

Next ==
  \/ Lock \/ Expire \/ Refund \/ Reveal \/ Claim \/ Arrive
  \/ Settle \/ Complete \/ ReportRefund \/ GiveUp
Spec == Init /\ [][Next]_vars

=============================================================================
