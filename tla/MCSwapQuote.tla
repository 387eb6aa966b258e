---------------------------- MODULE MCSwapQuote ----------------------------
(***************************************************************************)
(* SwapQuote for TLC: a base market and departures from it in everything   *)
(* that can move.  A sat is worth 4 units of output.                 *)
(***************************************************************************)
EXTENDS SwapQuote, TLC

Dex(p, q) == (1 :> p @@ 2 :> q)
Base == [dex |-> Dex(400, 397), eth |-> 50, oft |-> 7,
         lz |-> [s \in BOOLEAN |-> IF s THEN 60 ELSE 11],
         cctp |-> [s \in BOOLEAN |-> [bps |-> 13, fwd |-> IF s THEN 90 ELSE 21]],
         pair |-> [pct |-> 25, miner |-> 17, min |-> 100, max |-> 5000]]

AllMarkets == {
  Base,
  [Base EXCEPT !.dex = Dex(398, 399)],             \* within a tolerance of 100 bps
  [Base EXCEPT !.dex = Dex(0, 371)],               \* beyond it, one route gone
  [Base EXCEPT !.lz = [s \in BOOLEAN |-> IF s THEN 64 ELSE 14], !.oft = 31],
  [Base EXCEPT !.cctp = [s \in BOOLEAN |-> [bps |-> 17, fwd |-> IF s THEN 97 ELSE 22]]],
  [Base EXCEPT !.oft = 10000, !.pair.pct = 33, !.pair.min = 3000] }
LegacyMarkets == {Base, [Base EXCEPT !.dex = Dex(396, 396)]}

=============================================================================
