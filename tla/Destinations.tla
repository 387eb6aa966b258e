---------------------------- MODULE Destinations ----------------------------
(***************************************************************************)
(* The registry of destinations: src/crates/lib/src/evm/oft.rs builds it   *)
(* from the USDT0 deployments feed, the table of CCTP chains in models.rs  *)
(* and the source chain; evm/recipient.rs encodes recipients for it.       *)
(*                                                                         *)
(* Chain labels are compared without case, so a label is written in one    *)
(* case here.  A feed entry is [name, id, eid, contracts]: id is 0 for     *)
(* null, eid says that lzEid is present and parses, contracts maps the     *)
(* contract names to addresses.                                            *)
(***************************************************************************)
EXTENDS Integers, Sequences, FiniteSetsExt

CONSTANTS
  None,         \* no address, no mesh, no destination
  SourceId,     \* the chain id of Arbitrum in the configuration
  Pin,          \* the pinned source OFT of each mesh
  SourceTokens, \* Arbitrum's USDT, USDC and tBTC
  SolanaMint    \* SOLANA_USDT0_MINT

Meshes == {"native", "legacy"}

ASSUME DestinationsAssumption ==
  /\ SourceId \in Nat \ {0} /\ Pin["native"] # Pin["legacy"]
  /\ \A mesh \in Meshes : Pin[mesh] # None
  /\ None \notin Meshes \cup {"direct", "oft", "cctp", "evm", "solana", "tron"}

-----------------------------------------------------------------------------
(* One entry of the feed.                                                  *)
Has(entry, contract) == contract \in DOMAIN entry.contracts

(* find_primary_contract and the parts of resolve_chain_info.              *)
PrimaryNames == <<"OFT", "OFT Adapter", "OFT Program">>
Primaries(entry) == {n \in DOMAIN PrimaryNames : Has(entry, PrimaryNames[n])}
Resolves(entry) == entry.eid /\ Primaries(entry) # {}
OftAddress(entry) == entry.contracts[PrimaryNames[Min(Primaries(entry))]]
Published(entry, contract) == IF Has(entry, contract) THEN entry.contracts[contract] ELSE None

(* classify_transport.                                                     *)
Transport(entry) ==
  IF entry.id # 0 THEN "evm"
  ELSE IF entry.name \in {"solana", "tron"} THEN entry.name ELSE None

(* build_destination.                                                      *)
IsBuilt(entry) == Transport(entry) # None /\ Resolves(entry)
Build(entry, mesh, source) ==
  LET token == Published(entry, "Token") IN
  [label |-> entry.name, transport |-> Transport(entry), id |-> entry.id, token |-> token,
   asset |-> IF entry.name = source \/ token = None THEN "USDT" ELSE "USDT0",
   kind |-> IF entry.name = source THEN "direct" ELSE "oft",
   mesh |-> IF entry.name = source THEN None ELSE mesh]

-----------------------------------------------------------------------------
(* parse_chain_registry.                                                   *)
OfSource(section) == {i \in DOMAIN section : section[i].id = SourceId}
Own(section) == section[Min(OfSource(section))]
SourceOft(section) ==
  IF OfSource(section) # {} /\ Resolves(Own(section)) THEN OftAddress(Own(section)) ELSE None

(* verify_pinned_source_oft: an address the feed gives must be the pin.    *)
PinUnchecked(published, mesh) == TRUE   \* mutant: the feed is believed
PinHolds(published, mesh) == SourceOft(published[mesh]) \in {None, Pin[mesh]}

(* Both sections in one pass, native first: what is built of each entry,   *)
(* by its position.                                                        *)
Listed(published) == published["native"] \o published["legacy"]
Candidates(published, source) ==
  LET listed == Listed(published) IN
    [i \in {j \in DOMAIN listed : IsBuilt(listed[j])} |->
       Build(listed[i], IF i <= Len(published["native"]) THEN "native" ELSE "legacy", source)]

(* The chain ids and the labels seen when the pass comes to position i: a  *)
(* candidate whose id was seen is left before its label is looked at.      *)
Earlier(cands, i) == {j \in DOMAIN cands : j < i}
SeenChainIds(cands, i) == {cands[j].id : j \in Earlier(cands, i)} \ {0}
IdNotCompared(cands, i) == FALSE   \* mutant: aliases of a chain are kept
IdIsTaken(cands, i) == cands[i].id \in SeenChainIds(cands, i)
SeenLabels(cands, i) ==
  {cands[j].label : j \in {k \in Earlier(cands, i) : ~IdIsTaken(cands, k)}}
IsKept(cands, i) == ~IdIsTaken(cands, i) /\ cands[i].label \notin SeenLabels(cands, i)

UsdtDestinations(published, source) ==
  LET cands == Candidates(published, source) IN
    [i \in {j \in DOMAIN cands : IsKept(cands, j)} |-> cands[i]]

(* CCTP_DESTINATIONS, and USDC on the source chain itself.                 *)
Usdc(label, transport, id, token, kind) ==
  [label |-> label, transport |-> transport, id |-> id, token |-> token,
   asset |-> "USDC", kind |-> kind, mesh |-> None]
CctpChains == <<
  <<"base", 8453>>, <<"ethereum", 1>>, <<"avalanche", 43114>>, <<"optimism", 10>>,
  <<"polygon pos", 137>>, <<"unichain", 130>>, <<"linea", 59144>>, <<"codex", 81224>>,
  <<"sonic", 146>>, <<"world chain", 480>>, <<"monad", 143>>, <<"sei", 1329>>, <<"xdc", 50>>,
  <<"ink", 57073>>, <<"plume", 98866>> >>
ASSUME SourceIsNotCctp == \A i \in DOMAIN CctpChains : CctpChains[i][2] # SourceId

CctpUsdc(label, transport, id) == Usdc(label, transport, id, <<"USDC", label>>, "cctp")
UsdcDestinations(source) ==
  [i \in DOMAIN CctpChains |-> CctpUsdc(CctpChains[i][1], "evm", CctpChains[i][2])]
    \o << CctpUsdc("solana", "solana", 0),
          Usdc(source, "evm", SourceId, SourceTokens.usdc, "direct") >>

(* The list of destinations, with a gap where an entry was left out.       *)
AllDestinations(published, source) ==
  LET usdt == UsdtDestinations(published, source)
      usdc == UsdcDestinations(source)
      last == Len(Listed(published)) IN
  [i \in DOMAIN usdt \cup {last + n : n \in DOMAIN usdc} |->
     IF i <= last THEN usdt[i] ELSE usdc[i - last]]

NoRegistry == [source |-> None, oft |-> [mesh \in Meshes |-> None], dests |-> <<>>]

SourceIsListed(dests, source) ==
  \E i \in DOMAIN dests : dests[i].asset = "USDT" /\ dests[i].label = source

Registry(published) ==
  LET source == Own(published["native"]).name IN
  IF /\ OfSource(published["native"]) # {} /\ \A mesh \in Meshes : PinHolds(published, mesh)
     /\ SourceIsListed(UsdtDestinations(published, source), source)
  THEN [source |-> source, oft |-> [mesh \in Meshes |-> SourceOft(published[mesh])],
        dests |-> AllDestinations(published, source)]
  ELSE NoRegistry

(* DestinationRegistry::find: the first match.                             *)
NotFound == [kind |-> None]
Matching(dests, label, asset) ==
  {i \in DOMAIN dests : dests[i].label = label /\ dests[i].asset = asset}
Find(reg, label, asset) ==
  LET found == Matching(reg.dests, label, asset) IN
    IF found = {} THEN NotFound ELSE reg.dests[Min(found)]

(* The token that the DEX leg buys on Arbitrum.                            *)
DexOutput(dest) == IF dest.asset = "USDC" THEN SourceTokens.usdc ELSE SourceTokens.usdt

-----------------------------------------------------------------------------
(* An address as typed: its alphabet, the number of bytes it decodes to,   *)
(* whether a "0x" stands in front and a checksum holds, and what it names. *)
Recipient(transport, addr) ==
  CASE transport = "evm" -> addr.form = "hex" /\ addr.bytes = 20
    [] transport = "solana" -> addr.form = "base58" /\ addr.bytes = 32
    [] transport = "tron" -> addr.form = "base58" /\ addr.bytes = 25 /\ addr.checked
    [] OTHER -> FALSE

(* is_known_token_address compares the text, of which EVM case alone is    *)
(* folded: a token without its "0x" is another text.                       *)
SourceTokensOnly(reg, transport) ==   \* mutant: destination tokens are not gathered
  {SourceTokens.usdt, SourceTokens.tbtc}
KnownTokens(reg, transport) ==
  (CASE transport = "evm" -> {SourceTokens.usdt, SourceTokens.tbtc}
     [] transport = "solana" -> {SolanaMint}
     [] OTHER -> {})
    \cup {reg.dests[i].token : i \in {j \in DOMAIN reg.dests :
             reg.dests[j].transport = transport /\ reg.dests[j].token # None}}
IsKnownToken(reg, transport, addr) ==
  /\ addr.form = "hex" => addr.prefixed
  /\ addr.names \in KnownTokens(reg, transport)

(* validate_destination.                                                   *)
Accepts(reg, dest, addr) ==
  Recipient(dest.transport, addr) /\ ~IsKnownToken(reg, dest.transport, addr)

=============================================================================
