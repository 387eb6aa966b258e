----------------------------- MODULE MCDelivery -----------------------------
(***************************************************************************)
(* Delivery for TLC: a deployments feed in the style of USDT0's, what it   *)
(* may become, and the requests of callers.                                *)
(***************************************************************************)
EXTENDS Delivery, TLC

Contracts(names, at) == [n \in names |-> <<at, n>>]
Entry(name, id, contracts) == [name |-> name, id |-> id, eid |-> TRUE, contracts |-> contracts]

PinOf == [mesh \in {"native", "legacy"} |-> <<"pin", mesh>>]
Tokens == [usdt |-> <<"usdt", "arbitrum">>, usdc |-> <<"usdc", "arbitrum">>, tbtc |-> <<"tbtc", "arbitrum">>]
Mint == <<"solana", "Token">>

SourceEntry(name, mesh) == Entry(name, 42161, "OFT" :> <<"pin", mesh>>)
Ethereum == Entry("ethereum", 1, Contracts({"OFT Adapter"}, "ethereum"))
Ink == Entry("ink", 57073, Contracts({"OFT", "Token"}, "ink"))
Solana == Entry("solana", 0, Contracts({"OFT Program", "Token"}, "solana"))
Tron == Entry("tron", 0, Contracts({"OFT", "Token"}, "tron"))
Ton == Entry("ton", 0, Contracts({"OFT"}, "ton"))

Base == [native |-> <<SourceEntry("arbitrum one", "native"), Ethereum>>,
         legacy |-> <<SourceEntry("arbitrum", "legacy"), Solana, Ink, Tron, Ton>>]
AllFeeds == {
  Base,
  [Base EXCEPT !.native = Append(@, Ink)],                            \* on both meshes
  [Base EXCEPT !.native = <<@[1]>>, !.legacy[1] = Tron],              \* chains and a mesh dropped
  [Base EXCEPT !.legacy[1] = Entry("arbitrum", 42161, "OFT" :> <<"other", "oft">>)],
  [Base EXCEPT !.native[1].name = "arbitrum"] }                       \* source renamed

Evm(names) == [form |-> "hex", bytes |-> 20, prefixed |-> TRUE, checked |-> FALSE, names |-> names]
Base58(names, bytes) == [form |-> "base58", bytes |-> bytes, prefixed |-> FALSE, checked |-> TRUE, names |-> names]
Wallet == <<"user", "wallet">>
Ask(label, asset, addr) == [label |-> label, asset |-> asset, addr |-> addr]

AllRequests == {
  Ask("arbitrum one", "USDT", Evm(Wallet)),
  Ask("ethereum", "USDT", Evm(Wallet)), Ask("ink", "USDT0", Evm(Wallet)),
  Ask("ink", "USDT0", Evm(<<"ink", "Token">>)), Ask("ink", "USDC", Base58(Wallet, 32)),
  Ask("base", "USDC", [Evm(Wallet) EXCEPT !.prefixed = FALSE]),
  Ask("solana", "USDT0", Base58(Wallet, 32)), Ask("solana", "USDC", Base58(Wallet, 32)),
  Ask("solana", "USDC", Base58(Mint, 32)),
  Ask("tron", "USDT0", Base58(Wallet, 25)), Ask("tron", "USDT0", [Base58(Wallet, 25) EXCEPT !.checked = FALSE]) }

=============================================================================
