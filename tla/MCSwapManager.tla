--------------------------- MODULE MCSwapManager ---------------------------
(***************************************************************************)
(* SwapManager for TLC: the kinds of delivery the runs consider, and what  *)
(* the repository's comments say of the program that a run refutes.        *)
(***************************************************************************)
EXTENDS SwapManager

BridgedOnly == {"Oft", "Cctp"}
CctpOnly == {"Cctp"}
DirectAndCctp == {"Direct", "Cctp"}

-----------------------------------------------------------------------------
(* A terminal event never finalizes a swap whose claim goes through.       *)
ClaimedNeverFailed == store.status \in {"Failed", "Expired"} => lock # "claimed"

=============================================================================
