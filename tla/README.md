# Boltz client: formal models

TLA+ models of `src/crates/lib`, a client for Lightning to stablecoin reverse
swaps. Boltz locks tBTC in the ERC20Swap contract on Arbitrum; the client
reveals the preimage in a gas-sponsored transaction that claims the tBTC, swaps
it on a DEX and delivers it, directly or over a bridge (OFT, CCTP). The models
say what happens to one swap, to its money, to the locks around it and to the
channels that feed it, when events come late or twice, connections drop, reads
are stale, prices move, writes fail, answers get lost and the process dies.

## The system

| Part | State | Operations | What is hard |
|---|---|---|---|
| `SwapManager` (`swap/manager.rs`) | tracked ids, tasks | event loop, WebSocket handlers, claim, recovery, tick, delivery | events against the claim, stale reads, crash between steps, failed writes |
| `ReverseSwapExecutor` (`swap/reverse.rs`) | none of its own | `create`, `claim_and_swap`, `submit_claim`, delivery status | retries, lost answers, lockup and timeout checks before the reveal |
| Quotes and amounts (`swap/reverse.rs`, `evm/cctp.rs`, `evm/oft.rs`) | the prepared quote, the record's expected amount and slippage | `prepare`, `prepare_from_sats`, `create`, `try_claim` | the world moves between any two reads; every division rounds |
| Lockup reads (`evm/lockup.rs`) | the contract | `is_swap_still_locked`, `classify_spent_lockup` | `false` means claimed, refunded or not there yet |
| Gas sponsor (`evm/alchemy.rs`) | calls in flight | `submit_calls`, `poll_call_status` | a 0x1 receipt hides an inner revert |
| Destinations (`evm/oft.rs`, `models.rs`, `evm/recipient.rs`) | the registry, built at each start | build, `find`, address checks | the feed changes between quote, creation, claim and receipt |
| Bridges (`evm/cctp.rs`, `evm/lz_scan.rs`, `solana/`) | remote | delivery status, probe | failed forward, delivery by hand, explorers that lag |
| `SwapLocks` (`swap/locks.rs`) | map of reference-counted mutexes | `lock`, guard drop | prune against clone, cancellation |
| `BoltzService` (`lib.rs`) | handles to all of them | create, accept a degraded quote, slippage, refresh, resume, shutdown | callers compete with the event loop |
| `SwapStatusSubscriber` (`api/ws.rs`) | subscriptions, channels | connect, subscribe, read loop | bounded channels, reconnect |
| Secrets, keys (`secrets.rs`, `keys.rs`) | index counter | `issue`, derivation | an index must not be used twice |
| Store (`store.rs`) | swap records | whole-record upsert, list | last write wins, replication |
| Events, REST, codecs, config, CLI | | | |

The event loop receives updates from the WebSocket client over a channel and
spawns one task per update. The task takes the swap's lock, loads the record,
and works on it to the end. The tick does the same for every active swap that
is settling or claiming, and callers do so for a degraded quote or a slippage
change. All of them write the whole record. The chain, the sponsor, the bridge
and Boltz move at any time in between.

What makes the parts correct: the preimage leaves only for a lockup that
exists; a final status agrees with the chain; a bridged swap completes only on
delivery; nothing that is broadcast is forgotten; the user gets the quoted amount
less the tolerance or is asked; tokens go to the right chain through the right
contract; a swap does not get stuck; one task at a time works on a swap.

## Modules

| Module | Models |
|---|---|
| `SwapManager` | one swap from creation to its final status, with the contract, sponsor, bridge and Boltz as its environment |
| `ReverseSwap` | what a swap promises its user: the abstract specification of `SwapManager` |
| `MCSwapManager` | the kinds of delivery for the runs, and a claim of the comments that a run refutes |
| `SwapManagerProofs`, `SwapRecoveryProofs` | theorems about `SwapManager`; the second that a broadcast claim is not forgotten and that the promise is kept |
| `Amounts` | the arithmetic of fees, slippage, floors and limits, with the code's roundings |
| `SwapQuote` | the money of one swap: quote, creation, claim attempts, what arrives |
| `MCSwapQuote`, `SwapQuoteProofs` | markets for the runs; theorems |
| `Destinations` | the registry built from the deployments feed, and the recipient checks |
| `Delivery` | one swap across registries and bridges, and the pollers that confirm it |
| `MCDelivery`, `DeliveryProofs` | feeds and requests for the run; theorems |
| `GasSponsor`, `GasSponsorProofs` | the sponsor's client: prepare, sign, send, poll; theorems |
| `KeyedMutex` | what the per-swap lock promises |
| `SwapLocks`, `SwapLocksProofs` | how `swap/locks.rs` keeps it, reference counts included; theorems |
| `WsChannels`, `WsChannelsProofs` | how status updates reach the handlers: WebSocket reader, event loop, its tasks, the two channels; theorems |
| `SwapCreation`, `SwapCreationProofs` | how a swap comes to be: preimage, Boltz's answer, record, invoice; theorems |

`SwapManager` is the middle. It takes from the others what they establish: its
events come because `WsChannels` brings them, its handlers are alone because
`SwapLocks` keeps them apart, its `Confirms` is the verdict of `GasSponsor`, its
`bridge` is `Delivery` without amounts and registries, and the attempt that may
fail, degrade or be submitted is the claim of `SwapQuote`.

### SwapManager

A handler holds its swap's lock for its whole run, so at most one handler is in
progress: `pc` is where it stands, `job` what started it (an event, the tick, a
degraded quote; `retry` from `check_on_chain_and_retry` on, whose callers do not
clean up), `mem` the record it holds and `attempt` the retry counter. `store` is
the persisted record. A step makes at most one remote read and one write. A
verdict that fails a swap is read in one step and written in another
(`FinalizeSwap`), so that a claim may show in between; where a step reads and
writes, the chain moving in between is a read through a laggard node.

- `Persist` is `upsert_swap`: a write may fail, and the handlers log that and go on.
- `Reads` is a read of the contract through a node that may lag (`seen` against
  `lock`). `ReadsUnlocked` is the `false` of `swaps()`, true also of a lockup
  that is not there.
- `txs` is what became of each claim: `mined` claimed the lockup, `reverted`
  has a 0x0 receipt, `noop` has a 0x1 receipt without the claim's logs.
  `Confirms` is the sponsor's verdict.
- A claim's number stands for its call_id and its transaction hash.
  `evidence` stands for `delivered_amount` and `bridge_ref`, by the transaction
  they were read from; `reason` for the text of `Failed`.
- The record keeps the fields the control depends on. Amounts, addresses, keys
  and time stamps are left out.
- `Deliverable` says what an honest Boltz reports. With `HonestBoltz` false any
  event comes at any time. Each event may come again, and in any order.

`ReverseSwap` forgets handlers, records, transactions and retries. It has what the
swap reports (`open`, `settling`, `completed`, `refunded`, `failed`), the tBTC,
whether the timeout has passed, the preimage has left and the tokens arrived.
`SwapManager` implements it under `Stage`, `lock`, `Due`, `Revealed` and
`Arrived`: a write of a handler is a report or does not show, a submission is
`Reveal`, the steps of chain and bridge are the money's. `GiveUp` needs a reason:
Boltz will not lock, or may take the tBTC back.

The environment is external: Boltz locks, gives up or refunds after the
timeout; sponsored claims mine or revert; another instance claims; the bridge
delivers, fails to forward or is helped by hand; blocks are mined.

### Amounts and SwapQuote

`Amounts` has one operator per helper of the code; products that pass a `u128`
are an error or saturate, as there. In `SwapQuote` a step is one remote read with
the computation after it, and `pc` is the place in `prepare` (`fee` to `pair`), in
`prepare_from_sats` (`inLeg` to `inOft`) or in a claim attempt (`cOptions` to
`cSubmit`). `draft` holds the local variables of a quote, `quote` the
`PreparedSwap`, `swap` the record's amounts, `order` the attempt and then what the
Router was signed to do.

- `market` is all that remote quotes answer: prices of the DEX venues, the OFT's
  fee, the messaging fee, the CCTP fee, Boltz's pair. `Moves` replaces it between
  any two steps, opens or closes the recipient's token account or spends the
  Router's allowance. `since` is the count of moves when a quote or attempt
  began, so that a property can say "the world stood still".
- Boltz answers `create` with the amount its own fee leaves, or with less.
- Prices are rational over `Unit`; gas is bought at `eth`. Fees that Boltz lists
  apart are one.
- `Execute` is the Router, the OFT or CCTP contract and the legacy bridge's own
  fee: external, as the code's calldata and comments describe them. `Executes`
  holds what the calldata demands: the minimum signed, enough gas for the message,
  an allowance for the legacy adapter.

### Destinations and Delivery

`Destinations` builds the registry as `parse_chain_registry` does: entries of the
two sections in order, native first, the source chain and its pins, aliases
dropped by chain id and label, then the table of CCTP chains. A feed entry is
a name, a chain id and the contracts that are there; an address is what it
decodes to. The code carries the ids and labels it has seen along one pass; here an
entry looks back at those before it, and the list keeps a gap where one was left
out. `Find` takes the first match, as the code's iterators do, so the gaps do not
show.

`Delivery` runs a swap through it. `registry` is that of the running process and
`built` the feed it came from, so that a quote, a creation, a claim and a receipt
may each be under another one. `sent` is what the Router emitted, with the contract
used; the receipt decodes it by the registry it finds. `task` is where each
poller of `poll_pending_swaps` stands: it lists without the lock, takes it, asks
Iris, Scan or Solana, reads the record again and writes. `bridge` is what those
services show: `hash` is `forwardTxHash`, `landed` the tokens' arrival, `scan` the
status of LayerZero Scan. Circle's forward, a receive by hand after a failed one,
and an explorer that shows a failure before a delivery are its steps.

### GasSponsor

Claims of one gas signer. `prepared` is the shape of what `wallet_prepareCalls`
asks to sign (an authorization first, a user operation alone, out of order, cut
short, or unknown), and the sponsor takes it only signed as asked. `op` is what
became of the user operation, `Answers` what its status may show then or later,
`verdict` what the client returns. `CodesGiven` says that the answer for a reverted
call carries its code: the receipt of such a call is 0x1, so nothing else tells.

### SwapLocks and KeyedMutex

`Lookup` and the body of `drop` run under the map's own mutex and are one step
each. A task then waits (`queued`), is handed the permit (`granted`), runs
(`holding`), runs the body of `drop` (`pruned`), gives the permit up
(`released`) and drops its reference. `StrongCount` is `Arc::strong_count`: the
map's reference and one for each task. The async mutex is first in, first out.
`SwapLocks` implements `KeyedMutex` under the mapping `Section`: a task is in
the section of a swap while it is `holding`.

### WsChannels

`SwapManager` takes its events from a swap that is tracked; `WsChannels` is
about whether they come. A swap is only done or not here (final or Settling: it
needs no more events), and a status is a number that grows.

- `reader` is where `reader_loop` stands, `local` its `local_ids`, `out` the
  updates of the message it is sending on. `session` and `wire` are Boltz's side
  of the connection: a disconnect empties both.
- `cmds` and `updates` are the channels between reader and loop. A send waits
  for room; the reader takes no command while it sends updates.
- `pc` holds the places of the loop (`Main`) and of its tasks, `at` the swap each
  works on, `tracked` the shared `tracked_ids`. `start_tracking` inserts, then
  subscribes; `cleanup_terminal` unsubscribes, then removes: `After` is that order.
- A handler reads its record under the swap's lock (`Begin`), and ends with the
  swap open, or done with or without clean-up (`Finish`; the clean-up of
  `handle_terminal_ws_event` is not made by every path). `PollFinalizes` is the
  tick, a caller or another instance making a swap final, `Replicate` a stale
  record that comes back over a final one.
- `requests` is the channel of `track_swap`, as a set: its 64 places and its
  order are left out. Tasks come from a bounded pool; an idle one stands for one
  that is not spawned. A sender finds no channel closed, as the reader is closed
  after loop and tasks have ended.

### SwapCreation

Tasks of one or two processes run `create_reverse_swap` at once. The deployment
is chosen at the start: the secret provider (`mode`), whether the embedder's
store reserves an index atomically or reads and then writes it (`atomic`), and
which task runs where (`home`). `StoreContract` is what store.rs asks of the
embedder: an atomic counter when processes share it. `indexLock` is the
`index_lock` of each process.

A preimage is a number: the index it is derived from, or any number nobody has.
`offers` are the swaps Boltz has made, `records` the store by swap, `payable` the
invoices that were returned. Boltz may answer with other terms than asked for;
the checks of the answer (id, on-chain amount, lockup address, invoice amount)
are one, and the timeout margin passes or not, as its heights are in
`SwapManager`. A failing `increment_key_index` may have moved the counter, a
failing `upsert_swap` may have written the record. Boltz gives each swap a fresh
id. Its refusal of a known preimage (409) is left out, as the code does not rely
on it. The store is the embedder's; the counter (`ReserveIndex`, `IndexLeft`) follows
the implementation that the repository's own tests use.

## Runs

All runs of `SwapManager` use 2 claim attempts (5 in the code; the second is the
retry), a timeout at height 1 with margin 1, heights 0 to 2 (before, at and
after the timeout) and unless noted 2 submissions, 1 failed write and 1 crash.
Deadlock is not checked: a finished swap stops, and so does a swap at the bounds.

| Run | Assumes | Shows |
|---|---|---|
| `swap_honest` | honest Boltz, final sponsor | status agrees with the chain, bridged swaps complete on delivery, failures blamed on a refund are refunds, status does not regress, a claim that shows everywhere is not given up by any later handler; together with reveal and giving up, the refinement of `ReverseSwap` |
| `swap_hostile` | any events; the sponsor also confirms pending calls and no-ops; no lost answer | no reveal without a lockup, a receipt completes only claimed swaps, evidence is the winner's, the record names the last claim under way, the tick never claims |
| `swap_live` | bridged kinds, 1 submission, no failed write | the tick resolves spent lockups |
| `quote` | 4 routes, 6 markets, 2 venues, 2 targets, 2 invoices, 3 slippages (one too small), 2 attempts, 2 moves | the floor is met but on the legacy mesh, an honest answer is taken, the search ends on the least amount, a quiet market degrades no quote and reverts no claim |
| `delivery` | 5 feeds (base, alias, chains dropped, wrong pin, renamed source), 11 requests, 2 pollers, 1 move of the feed, 2 stops | routes, pins and addresses; one completion, with the right amount, on delivery; what landed completes |
| `sponsor` | 2 claims, 3 poll attempts; codes given | verdicts are true |
| `ws_tracking` | 1 swap, 2 handlers, 1 reconciler; 1 each of status change, track request, lost connection, revival; room for 1 command and 1 update | tracked means subscribed; unless the channels jam for ever, statuses reach a handler and a shutdown ends |
| `creation` | 2 tasks, 1 or 2 processes, 3 indices, 3 swaps at Boltz, 1 crash | preimages are not reused, invoices are backed by records, calls end |
| `locks` | 3 tasks, 2 swaps, 5 mutexes; each task takes its next step | keyed mutual exclusion, no entry dropped from under a waiter, every waiter is served |

Two submissions let a first claim compete with a second. One crash and one failed
write place either at every step; more of them repeat what a stale record
already shows. Five mutexes are as many as 3 tasks and 2 entries can hold, so memory never runs
out; the third task is the one that makes a second mutex for a swap when an
entry goes too early, and that overtakes a waiter when the queue is unfair.

`ws_tracking` has one place in each channel, so that the reader, the loop and the
tasks all come to wait. With both channels full they may wait for each other: the
reader for the loop, and the loop for the reader or, once it joins its tasks and
takes no update, for a task that waits for the reader (`find_jam`).
`Jammed` is these states and no other, and nothing ends one. `StatusIsHandled` and
`OnlyJamStopsShutdown` say that nothing else loses a status or a shutdown: a full
update channel, a slow handler, a lost connection do not. The run reaches jams of
each kind, with the loop, a handler and a reconciler waiting; a loop that waits in its
`select!` is never excused. Swaps share the channels and nothing else; one swap
with two handlers and a reconciler has every race of insert, subscribe,
unsubscribe and remove. A status counts as handled when a handler starts on it or
a later one; what the handler makes of it is `SwapManager`.

`ClaimSeenNotFailed` starts where no handler is at work: one that read the lock
before the claim showed may still write its verdict. From there on it speaks of
every later event, tick, accepted quote, failed write and crash. `TypeOK` bounds
the retry counter. `RevealNeedsLockup` counts a call handed to
the sponsor as a reveal. `ImplementsReverseSwap` needs the honest Boltz and the
final sponsor: without the first, the settled event finalizes a swap by itself
(see "Observed"); without the second a bridged swap may wait in Settling for a
claim that never happened. That a settling or completed swap was claimed is part
of `ReverseSwap`, not an invariant of its own. `BroadcastIsRecoverable` is
checked where a handler ends or polls, until a crash or a failed write; these,
like a lost answer, leave the claim to the chain reads alone, which is the
fallback the code names.

In `creation` two tasks are enough to race for an index, within a process or
across two; three swaps leave one task a second try after a crash or an error,
and three indices make the counter run out.

In `quote`, amounts are small and fees large, so that every rounding shows: a sat
is 4 units of output, targets and invoices are odd, the search's three tries can
run out, and `MaxU64` and `MaxU128` are in reach of the inputs. One market each
departs from the base in one thing (a price within the tolerance, one beyond it
with a venue gone, the messaging fee, the CCTP fee, Boltz's terms with an OFT fee
of everything), which two moves combine. Two attempts make a retry after a revert
or a degraded quote. `QuietMarketClaims` is about tolerances that cover, at the
price of every venue, two sats less two wei (the two roundings of `prepare`), the
buffer that pass 1 puts on the messaging fee and the cushion on the CCTP fee:
below that, the client's own arithmetic can degrade a quote.

In `delivery` two stops put the quote, the creation, the claim and the receipt
under registries of two feeds in any division; two pollers are the tick and one
forced refresh, which may be cancelled. In `sponsor` three attempts have a first,
a middle and a last, and two claims a first delegation and a later one.

### Fairness

`Fairness` assumes no event from Boltz. Handlers run to their end (each wait
has a bound in the code) and blocks are mined: weak fairness. The tick comes
back for ever and takes the swap's lock in its turn among the event handlers,
and a remote read that is asked for ever succeeds some time: strong fairness of
`TickClaiming`, `ConfirmDelivery` and of the successful outcome of each read on
the tick's path. In `locks` each task takes its next step (weak fairness);
that the queue is first in, first out does the rest. In `WsChannels` tasks, loop
and reader take their steps (weak fairness); each ready branch of the loop's
`select!` gets its turn, as it picks at random; and attempts to connect do not
fail for ever (strong fairness of `Connect`). Nothing is assumed of Boltz but
that it answers a subscription with the current status, which the comments at
ws.rs:211 and manager.rs:346 rely on. In `creation` tasks go on (weak fairness) and
the index lock, first in, first out, lets each of them in (strong fairness).

In `Delivery` the tick lists again (weak fairness), tasks finish, the swap's lock
and each read come in the end (strong fairness, as others compete for the lock and
reads fail now and then), and a forward that Circle submitted lands, which is what
completing on `forwardTxHash` rests on. `LandedCompletes` asks that the service is
up and the swap has a reference to ask for.

`SpentIsResolved` is about swaps with a claim hash and a lockup transaction on
record. A swap without the first is not ticked; without the second, the lockup
cannot be classified and every tick leaves the swap for later.

### Runs that end in a violation

| Run | The comment or doc | What the code does |
|---|---|---|
| `find_terminal` | "Claim never happened" (manager.rs:719, decisions.md:198) | still locked, but a broadcast claim is pending; it mines after the swap is final |
| `find_legacy` | "guaranteed to receive at least `expected * (1 - slippage_bps / 10000)`", "never as a quiet under-delivery" (config.rs:19) | `quoteOFT` of the legacy mesh leaves the bridge's own fee out, so a floor met at the quote is missed on arrival, without a warning |
| `find_jam` | "The loop only dispatches" (manager.rs:172) | the loop waits to send a command while the reader waits to send an update; both channels are full (16 and 256 in the code, 1 and 1 here), and a shutdown is not seen |

`NeverJams` has a second way to fail, "Graceful shutdown: let in-flight per-swap work
finish." (manager.rs:277): a stopped loop joins its tasks while it owns the update
channel and no longer reads it (manager.rs:280), the reader waits for room there
(ws.rs:361), a task waits for room in the command channel, and `shutdown` hangs.
The trace of `find_jam` is the first, which takes fewer steps. With one swap, two
handlers, one track request and the rest as in `find_jam.cfg` it is the second. The
cause is one: the reader awaits the loop, and the loop, directly or through its
tasks, the reader.

## Proofs

For every value of the constants, under the assumptions on them in the modules.

`SwapManagerProofs` shows type correctness and three invariants, each inductive
with those before it:

1. `ChainInv`: a laggard read never shows an end of the lockup that did not
   happen; a mined claim is the winner; past the lockup check the lockup was made.
   This gives `RevealNeedsLockup`. `RevealNeedsLockup` alone is not inductive: it
   needs the points between the check and the submission.
2. `ControlInv`: a handler runs on a swap that is not past its claim; where it
   waits for a receipt or a call, the record in memory names one; where it is
   about to finalize, it says why; the tick stays on its own points. This gives
   `TickNeverClaims` and, with the ranks of the statuses, `NoRegress`.
3. `RecordInv`: what the record says is backed by the chain, for the persisted
   record and the one in memory, as either may be written back. This gives
   `EvidenceIsOfWinner`, `RefundVerdict`, `CompletionIsDelivery` and
   `ReceiptIsClaim`.

`ClaimSeenNotFailed` does not follow from an invariant of all runs. `SafelyClaimed`
holds once the claim shows with no handler at work, and no step ends it: every
node shows the claim, the record is Claiming or past it, and each handler since then
stays on the points from which no verdict of failure is reached.

`SwapRecoveryProofs` adds `RecoverInv` for `BroadcastIsRecoverable`: as long as
nothing was lost and the last claim can win, the record in memory names it too,
since any handler may write that one back; a hash is dropped only when its
receipt is a revert, and a call_id only in favour of the hash it led to.

The same module proves that `SwapManager` implements `ReverseSwap`
(`PromiseIsKept`), with an honest Boltz and a final sponsor. Most steps follow
from the invariants above on either side of a step; what they lack is who may
write a failure: a handler of a swap not past its claim (`Excused`), and for a
cause that lasts (`CauseInv`: while a terminal event is looked into, Boltz has
given up or the timeout has passed).

`SwapQuoteProofs` shows, for any prices, fees, pairs, routes and slippages: what
arrives is at least the floor (`FloorMet`: the floor is carried from `SignMin`
through `SignedMin` to `Executes`, with lemmas on the roundings); create never
refuses an honest answer (`HonestAccepted`: ceiling division against floor
division); the bisection ends on the least amount while the fee stands still
(`SearchLeast`: the upper end suffices and nothing below the lower end does, by
monotonicity of the OFT's fee); and a claim reverts only if the world moved since
its attempt began (`Executable`: what is signed is executable where it is signed).

It also shows that a market that stands still degrades no claim (`QuietClaims`).
The invariant, `QuietInv`, follows the amounts from `prepare` to the drift check
under the terms of the moment (`Terms`: prices, fees, gas). Its core is `Backed`:
the sats of the quote, and then those that Boltz locked, with what two roundings up
leave out and without the price of the message, buy at some venue an input that
delivers the promised amount. On the way there is one clause for each place of
`prepare` and `prepare_from_sats`; on the way back `QuoteTrade` takes the best
venue for what is left after the fee's buffer (`OrderQuiet`), and the two meet in
`NotDegraded`. This needs that any input above one that delivers the goal delivers
it too (`BurnLeaves`, `RemainderLeaves`, `NativeDelivers`) and that `k` less bought is
at most `k` less delivered (`DeliversNearly`), which for the saturating CCTP fee rests on `MaxU64 * FeeDenom <
MaxU128` in `AmountsAssumption`, true of the code's `u64`, `u128` and denominator.

`DeliveryProofs` shows, for any feeds, requests and pollers, in two invariants:

1. `Inv`: what each poller has found out and what a receipt left in the record.
   It gives types, `CompletedOnce`, `AmountIsDelivered` and, with `EvidenceInv`,
   `CompletedIsShown`: however many pollers ask, a bridged swap completes only
   when its tokens landed or their forward was submitted.
2. `RouteInv`: the prepared swap, the record and what was sent are each what the
   registry of their moment gives (`PreparedInv`, `AcceptedInv`, `SentInv`). It
   gives `SendsThroughPin`, `ClaimableOnceAccepted`, `NeverToAToken` and
   `LeavesATrace`; `OffersEachChainOnce` is about the registry itself.

Its lemmas on the registry say what is built from any feed: the source contract of
a mesh is the pinned one or none, what `Find` gives has a kind, a transport and a
mesh that fit, and no two kept entries share asset and chain id or asset and label. Three assumptions on constants carry them.
`FeedAssumption`: a feed does not call its source chain like a chain that CCTP burns
to, as then "that label, USDC" would name two destinations. `AddressAssumption`: a
text that decodes to a token's address passes the format check of that token's
chain. `SourceIsNotCctp`: the configured source chain, Arbitrum, is not among
`CCTP_DESTINATIONS`. TLC evaluates all three on the instance of the run.

`GasSponsorProofs` shows types and `VerdictIsTrue` under `CodesGiven`, which is
needed: without codes, a reverted call classifies as confirmed.

`SwapLocksProofs` shows that a waiting task has the entry's mutex and that the
permit is with the task that says so; from this that no entry is dropped from
under a waiter, mutual exclusion, and the refinement of `KeyedMutex`.

`WsChannelsProofs` shows that a tracked swap is subscribed for any number of
swaps, tasks and handlers and any capacities. The invariant speaks of the last
command about a swap in the queue, or else of the reader's own set, or else of a
task between its two steps; it is inductive once each process that works on a
swap is known to have one. Its lemmas say what a send, a receive and a skip do to
the last command about a swap.

`SwapCreationProofs` shows `NoPreimageReuse` and `InvoiceIsBacked`. Neither is
inductive alone: the first needs that an issued preimage is below the counter and
unknown to Boltz until it is posted, and that a task about to write the counter
is the only one at it; the second that a task's swap is the one Boltz made for
its preimage, and that the record is written before the invoice is returned.

Only model-checked are the liveness properties (`SpentIsResolved`, `WaiterServed`,
`StatusIsHandled`, `OnlyJamStopsShutdown`, `CreationEnds`, `CompletedArrives`,
`LandedCompletes`), as liveness under fairness is out of the prover's reach. Every
safety property of a passing run is stated by a theorem.

## Observed

What the models showed beside the findings, where the code is not plainly wrong:

- A degraded quote puts a swap back to `TbtcLocked` with "NOT attempted on-chain"
  (manager.rs:652). A retry after the sponsor took the call and its answer was lost
  gets there with a claim broadcast.
- The settled event completes a `Direct` swap whose lockup reads as unlocked
  without evidence of a claim (manager.rs:557), although "a spoofed/buggy one
  mustn't finalize a swap" (manager.rs:510).
- A `Direct` swap whose receipt is a success without the claim's logs is not
  finalized by the tick after the timeout (manager.rs:1148 against 1168).
- `is_known_token_address` compares text: an EVM token address without `0x`
  passes. `NotAToken` is about addresses with their prefix.
- `cctp_completion_amount` (manager.rs:1698) takes `forwardTxHash` for a mint;
  cctp.rs:386 has it once the forward "has been submitted". The model assumes
  that a submitted forward lands.
- A feed without the native section's source contract keeps the service up, as
  intended (oft.rs:161), but `create` may then accept a destination of that mesh,
  and the claim refuses it: the exception in `AcceptedIsClaimable`.
- A source chain renamed, or a contract dropped, between a claim and its receipt
  leaves a swap in Settling without a reference to trace (`DeliveryTraceable`).
- The same when a feed gives the source chain the label of a bridged destination,
  or the other way round: a swap quoted as bridged and claimed as `Direct` stays in
  Settling, one quoted as `Direct` and sent over OFT completes at the receipt.
- A failed CCTP forward to an EVM chain that is received by hand is not seen
  (reverse.rs:1749 says so); the swap stays in Settling.
- `update_swap_slippage` after a claim was sent does not change that claim's floor.

## Not modelled

- In `SwapManager` tracking is one flag; its two steps are in `WsChannels`.
- Keep-alive pings (a failed one is a lost connection), dialing and parsing.
- More than one store. A stale record that replication brings back is why
  `advance_via_winning_claim` returns early for a final record; with one store
  under the swap's lock that branch is not reached, and it is left out.
- Errors of a store read: a handler that cannot load its record returns, which
  is a handler that did not start, or one that a failed write left without effect.
- The age of the timeout check: it is made once before all attempts.
- Several swaps of one signer at once in `SwapQuote`: the allowance of the legacy
  adapter is moved by the world instead.
- In `GasSponsor`, the sponsor's pricing and the calls' contents.
- Event listeners, which get copies and have no state a swap depends on; the
  probe invoice, the accessors of `BoltzService`, key derivation.
- What encodes, signs, parses or talks HTTP: ABI and EIP-712 layouts, executor
  options, Solana account derivation, REST requests, the command line, and the
  wasm and native shims. They are functions of bytes without a step in between.

## Left to do

1. `ReplicatedSwap`: two instances with replicated stores, and the convergence
   that `reconcile_tracking` promises.
2. The theorem that a swap which is `Direct` in the record was sent directly, under
   feeds that keep their labels.
