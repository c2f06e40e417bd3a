# A TLA+ model of sol-gateway-dcc

The repository is a bridge between Solana and DecentralChain. SOL and SPL tokens are locked in a vault on Solana
and wrapped tokens are minted on DecentralChain; burning a wrapped token asks for the locked one back. A group of
validators watches both chains, agrees on each transfer and submits its signatures to the other chain.

This directory holds a specification of its core in TLA+, the instances TLC model-checks, and theorems TLAPS proves.
Names follow the code; every module says at its top what it models, and `PROJECT.json` maps each definition to lines.

## 1. The system

| Component | State | Operations | Module |
|---|---|---|---|
| Lock program `programs/sol-bridge-lock` (Rust, Anchor) | `BridgeConfig`, the vault, `DepositRecord`, `UnlockRecord`, `UserState`, `ValidatorEntry`, `PendingConfigChange` accounts | deposit, deposit_spl, unlock, execute_scheduled_unlock, pause, resume, register/remove validator, update_config, propose/execute/cancel config change | `BridgeLock` |
| Bridge controller `dcc-contracts/bridge-controller` (RIDE) | data entries: registry, validators, processed and pending mints, burn records, counters, keys | registerToken, setTokenEnabled, register/removeValidator, mintToken, mint, executePendingMint, cancelPendingMint, burnToken, burn, pause, resume, limits, admin and guardian transfers | `BridgeController` |
| Consensus engine `validator/src/consensus` | `pendingConsensus`, `processedTransfers`, timers | proposeAttestation, receiveAttestation, checkConsensus, checkConsensusTimeout | `Consensus` |
| Watchers `validator/src/watchers` | `pendingEvents`, `pendingBurns`, last height | log subscription, polling, finality loops | `SolanaWatcher`, `DccWatcher`, with the loop both run in `Sweep` |
| Validator process `validator/src/main.ts`, `signer`, `utils` | the key's two files and the key in memory, the engine's map as this process sees it, submissions under way | start in its order, crash, event hand-over, consensus reached or failed, submitMintToDcc, submitUnlockToSolana | `ValidatorNode` |
| P2P transport `validator/src/p2p` | peer map, dials and reconnections | start, stop, dial, close, error, heartbeats, gossip, pruning | `Transport`; what is broadcast over it is in `Consensus` |
| Telegram bot `telegram-bot`: `bridge/`, `store.cjs`, `chains/` | SQLite rows and cursors, their copies in memory, running polls and relays | polls of both chains, relay with retries and confirmation, restart | `BotDeposits`, `BotBurns` |
| Telegram bot: wizard, commands, middleware | session and scene of a chat, handlers under way, the user table, rate-limiter buckets | buttons, texts, commands, createTransfer; let an update through, prune | `Conversation`, `RateLimiter` |
| API `api` | transfer table, event-stream subscriptions, requests between two awaits | GET status, event stream, operator's PATCH, POST deposit and redeem | `TransferStatus`, `BridgePage` |
| Frontend `frontend` | form fields, `isSubmitting`, the store's direction and active transfer | type, switch, submit, show, reload | `BridgePage` |
| Monitoring `monitoring` | checks between two requests, pauses under way | supply, validator and chain checks, alerts, pause of both chains | `Monitor` |
| wSOL token contract, deployment and end-to-end scripts, infra | - | - | not modelled |

How they interact: users call the two chains, by the page's instructions or by the bot's; the watchers read the chains
and hand finalized events to the engine; engines exchange attestations over the transport; what an engine reports is
submitted to the other chain, which checks the signatures itself. Monitoring, bot and API read both chains; the bot also
relays transfers on its own, and the monitoring pauses the bridge.

### What is hard

- **Sequences of legal calls.** Each chain executes one call at a time, so there is no race inside a call. What can
  go wrong is the order of calls: a delayed withdrawal executed after the caps moved, a pending change applied after
  its parameter moved by another way, a mint cancelled and then executed, two entry points for one transfer id.
- **Windows.** Daily and hourly limits are kept as a counter and the time of the last reset, both lazily updated and
  from several calls; what the counter bounds is not what the window seems to say.
- **Concurrency and failure off chain.** Attestations arrive before the event, after the round, twice or not at all;
  timers race them; every map of the engine is lost with the process. A finality loop goes through a map that
  notifications change between its awaits, over blocks that may be replaced.
- **Events out of order.** A socket reports an error, a close or nothing; entries are renamed and deleted by names that
  are not unique; a response closes after others have subscribed; an answer arrives after the form has changed.
- **A bot that is restarted.** The bot keeps a row per transaction and a cursor per wallet. Its polls overlap, its lists
  are newest first, and what a row or a cursor has passed nothing looks at again. Its handlers of one chat overlap too.
- **Readings of different moments.** The monitor and the API read several entries one after the other, any of which
  may fail or move meanwhile, and draw one conclusion.

The full list, each at its line and with the properties that look at it, is `hazards` in `PROJECT.json`.

### What makes each part correct

- *Lock program*: lamports are booked when they move and only then; each burn is paid at most once, as attested, by
  a quorum of different keys; large withdrawals wait; a pause stops every path of funds; the quorum and the
  daily cap are loosened, and the keys changed, on notice only; nonces have no gaps.
- *Controller*: the supply of each token is what its counters say; each transfer is credited at most once, as
  accepted, and never after it was cancelled; delayed mints wait; the keys change on notice only.
- *Engine*: a report is backed by a quorum of signatures on the reported message; a transfer is reported once by a
  process; a process signs one message per transfer; agreement is not missed when all agree.
- *Validator process*: it attests only what its chain keeps; it loses a transfer only for a reason that can be named;
  it keeps its key.
- *Transport*: no dead connection is counted as connected; whatever happened, every node ends up linked to its
  bootstrap peers once faults are over.
- *Bot*: a deposit or burn is relayed once and minted once; no row is left without somebody to drive it; the cursor
  passes no deposit that has no row; a stored order has every choice it needs, and is what the user was told.
- *API and page*: a status is completed only with ground, and no client misses a change; what the page shows is what
  the instruction was made for.
- *Monitoring*: a check that stays quiet proves something about the vault; a danger that lasts ends in a pause.

## 2. Modules

`BridgeLock` - one action per instruction. A transaction either succeeds or leaves nothing, so the guards of an action
are the `require!`s and account constraints of the handler. The accounts of a kind are a function from the seed of
their address to the record; an account exists when its seed is in the domain (`Put` and `Close` create and close).
`Init` is the state after `initialize` with any accepted parameters. An unlock takes a list of keys whose signatures
the runtime verified. Each of them must be found active in one of the accounts the caller passes along, and an account is
known by its bytes alone: `FoundActive` are the registered validators and the keys of `Shown`, for which some account of
another kind has such bytes. `update_config` gets the whole new parameter record: a field that differs is one that was given.
Rust's checked arithmetic (and `overflow-checks = true`) turns overflow into a failed transaction, so amounts are
natural numbers. The history variables `received`, `payouts`, `backing` and `gifts` record what a property needs.

`BridgeController` - one action per `@Callable`; an invocation that throws leaves nothing. Entries of a kind are a
function or a set. Of the holders' balances only the total of each token is kept, and `BurnDirectly` lets holders
burn outside the contract. Admin and guardian transfers have the same code and share the actions over `Roles`.

`Consensus` - all engines and the messages between them. A message is identified by its transfer and the clock
reading in it: everything else in it comes from the event. A round opens, collects, is resolved by agreement or by its
timer, and an agreed one is deleted a minute later. `Restart` empties a node. Messages are a set: any order, bounded
losses and repetitions.

`BotDeposits`, `BotBurns` - the two directions of the bot. Node runs a handler up to its next `await`, so an action is
the code between two awaits: a poll starts, has its list, has announced a transfer; a relay's request returns, its
confirmation ends. The ledgers are append-only and hold what the node lists for an address, which is more than what
the bot looks for: of a wallet's transactions some bring it no token, of the bridge's many are no burns of users; the
list is cut before it is filtered (`Recent`, `scanBurnRecords`). The n-th transaction of the wallets is in slot n,
which is its signature and its row too (a confirmed slot does not grow, so that a list has all of its transactions or
none); burns may share a block, as the comparison of heights in `pollDcc` asks for. A relay needs consensus or a
validator key (`CanRelay`); the default configuration has neither. recordDeposit and createTransfer are two
synchronous writes without an await between them and one step here: a process killed between the two is not told from
one killed after both, when nobody takes the row up either. What survives `Restart` is what SQLite keeps. `Mine` is
the other chain: it includes an invocation that waits, executes an id once, and may also never include it.

`SolanaWatcher`, `DccWatcher`, `Sweep` - the two watchers next to the chain each one watches, whose unfinalized blocks
may be replaced. A deposit is one transaction of many that mention the bridge: the node announces all of them, and what any
program logged in one is decoded as an event with the id and the slot it tells (`SlotsTold`), for neither the program nor
the event's discriminator is compared. A transaction logs one event. `Sweep` is the loop over the Map of pending events that both run: it visits the entries, those added
meanwhile too, and awaits a request for each; an action is one visit. A notification or a request may be lost or fail.

`ValidatorNode` - one process: its start in the order of `main`, the writes of its two key files, the watchers, the
engine's map as far as this process sees it, and the single submission of each result. It instantiates nothing: it
EXTENDS both watchers and composes their steps. Rounds across nodes are in `Consensus`; here the others may agree or
not. A crash leaves the files and the chains. `signAndBroadcastMint` may land whatever the engine signed, although the
contract verifies signatures of a string that the engine's binary message is not: more than the code can do today. `excused` and `unseen` record why a transfer was lost track of.

`Transport` - sockets and peer maps of all nodes. A connection has two ends; each is listed in its node's map under a
temporary name and, after the first message, under the other node's id. Names are not unique, so one connection's
handler may replace or delete another's entry. `dials` counts the dials under way or scheduled for an address.

`Conversation` - one chat. The bot starts a handler per update without waiting for the previous one, so `MaxHandlers` of
them are between two awaits at a time. The middleware, the scene, and the commands that store the user are actions; a
text is one of a few kinds, with what `parseFloat` and the address checks say of it. `RateLimiter` - the rolling window.

`TransferStatus` - what `GET /transfer/:id` and its event stream tell, read by read, next to the chain's entries and the
table that the operator's PATCH moves. `BridgePage` - the page's forms, the store, and the two routes they post to,
await by await; a reload mounts new forms, and the pause may change at any time.

`Monitor` - the cron tasks, request by request, next to a bridge that deposits, mints, burns, unlocks, and may lose
lamports. Two supply checks may overlap. The pause of each chain and the alerts may fail.

`Custody`, `Issuance`, `Timelock` - what a custodian, an issuer and a timelocked parameter promise, in a page each.
`BridgeLock` implements `Custody` (unlock records are claims, executed ones are settled) and `Timelock` for the quorum
and for the daily cap; `BridgeController` implements `Issuance` and `Timelock` for both keys. The refinements are
`INSTANCE ... WITH` in the concrete modules, and their specifications are properties of the runs.

`MC...` - the instances for TLC. `...Proofs` - the theorems.

Operators commented "Variant" differ from the definition after them in the way a plausible mistake would. They are in
no specification; substituting one for its original must make TLC refute the property `PROJECT.json` names with it,
which shows that the property depends on that line of the code.

## 3. Runs

| Run | Question | Instance |
|---|---|---|
| `lock` | Do the books agree with the accounts, is each burn paid once, what do the windows guarantee, and is nothing loosened without notice? | four parts: *custody* (2 depositors, SOL and an SPL token, one burn under two terms, one expiring, one for another chain, 5 ticks), *limits* (4 withdrawals, hour = 1 and day = 2 of 4 ticks, caps lowered and raised), *governance* (2 keys, 2 validators, 4 kinds of change), *quorum* (one burn, 2 validators that come and go, a third key that is never registered and is `Shown`, quorum 1 to 2) |
| `controller` | Does the supply agree with records and acceptances, is each transfer credited once, do delays and keys hold? | three parts: *supply* (2 tokens, both mint calls and both burn calls, a delayed mint), *limits* (3 transfers, window 2 of 6 heights, limits moved by the admin), *keys* (both transfers, 3 validators for 2 places) |
| `validator` | Is a report backed, unique and unchanged, and is agreement never missed? Does a process attest only what stays, and lose a transfer only for a reason? | two parts: *engine* (3 nodes, quorum 2, 2 clock readings, 2 events, 1 loss, 1 repetition, 1 restart; symmetric in nodes and readings), *node* (2 deposits, one of an SPL token; 2 other transactions with the first one's id, one of them failed; 2 burns in 4 heights; 1 fork of each chain, 1 fault, 1 crash, at most two troubles together (`TwoTroubles`); one chain moves at a time (`OneChain`)) |
| `deposits_relay` | Is a deposit relayed and minted once, and is none lost for another reason than the named ones? | 1 user, 3 transactions with SOL, a token, both or neither, a list of 2, 2 overlapping calls, with consensus and without anything, 2 attempts; a failed request or a restart, and then one mint of two; a second attempt only of a lone deposit, the third transaction only where nothing is relayed (`OneTrouble`); symmetric in the calls |
| `burns_relay` | Is a burn relayed once, and is each settled unless a named cause comes in between? | 2 users and others, 3 transactions in one to three blocks, a list of 2, 2 overlapping calls, 2 attempts, with and without consensus, a failed request or a restart (`OneTrouble`), fair timers and answers |
| `operations` | Are maps free of ghosts, and does every node end up linked? What does a quiet check prove, and does danger pause the bridge? | three parts: *links* (2 nodes that dial each other, 4 connections, 2 faults, stops or rounds of gossip), *supply* (2 overlapping checks, 2 deposits, one loss), *health* (3 validators, minimum 2, drifting heights); 2 failures, 1 resumption |
| `orders` | Is what users are told true? | four parts without common state: *wizard* (2 handlers, 2 conversations, 2 orders, eight texts), *limiter* (2 users, 2 updates per 3 ticks, 7 ticks), *status* (1 transfer, 1 request, 2 clients), *page* (2 posts, 3 forms, the pause changes twice) |
| `lock_registered`, `controller_signers`, `node_events`, `consensus_same_message`, `burns_skipped` | Does a document's or a comment's statement hold? | each finds it violated; see section 5 |

*Parts.* A variable `part` of the MC module, chosen at first, says which slice a behaviour of `lock`, `controller`,
`validator`, `operations` and `orders` explores: it cuts products of activities that hardly touch each other, and each
part keeps everything it reads or writes. `Within` states what a part leaves out. The parts of `validator` and of `orders`
have nothing in common, those of `operations` at most the pause. `LinksRestored` is `BootstrapLinked` of the part in which
the nodes run.

*Why the bounds suffice.* Amounts are chosen around the thresholds: a large withdrawal is one of exactly the
threshold, two withdrawals fill a daily cap exactly, SOL amounts leave a remainder when they are divided. Clocks run
long enough for two windows, or for a delay to be announced, replaced and to elapse. Three nodes are the least for
which a third can disagree, come late or be missing when two agree. For the bot two transactions and two calls are the
least that can be listed in one order and handled in another, and a list of two is the least that can be handled in the
wrong order and be overflown by a third. Two other transactions with a deposit's id are one that stays and one that is
refused. Two connections of one pair and one more on the way are what a name can be replaced, renamed and deleted
between; four are enough for both sides to have a dead and a live one. Two handlers are the least that overlap. Two posts
are the least of which one answers after the other's form. Two overlapping checks show that none relies on being alone.
The bounds in guards are `MaxTime`, `MaxHeight`, `MaxNonce`, `MaxGifts`, `MaxDeposits`, `MaxTransactions`, `MaxAttestations`,
`MaxEmits`, `MaxLost`, `MaxDuplicated`, `MaxRestarts`, `MaxFaults`, `MaxCrashes`, `MaxSlot`, `MaxForks`, `MaxReorgs`, `MaxConnections`,
`MaxIncidents`, `MaxHandlers`, `MaxConversations`, `MaxOrders`, `MaxUpdates`, `MaxMounts`, `MaxHalts`, `MaxResumes` and
`MaxFailures`; every one limits what the environment does or how long the run goes on. Deadlock is not checked where
these bounds, or a stopped process, end a behaviour.

*Fairness.* `BotBurns`: the interval timer starts a poll again and again, and requests and announcements return, for
`fetch`, axios and the Telegram client end a request by an answer or an error. `Transport`: a stopped node is started
again, timers dial, and while closes of broken connections are to be reported or heartbeats to be heard, one of them is. `Monitor`: the cron
ticks come, and every request returns. All of it is weak. Losing, repeating, failing, burning, gossip, changes of the
world and restarts are never fair; where the failures of a run are bounded, so that they end, the property says "once
they are over".

## 4. Proofs

All for every value of the constants, from the named assumptions of the modules (`ConstantsAssumption`: constants are
of the types the code gives them; `ConsensusAssumption`: finitely many nodes and a positive quorum;
`BotDepositsAssumption`, `BotBurnsAssumption`, `TransportAssumption`, `PageAssumption`: the limits are naturals, native SOL
is a token, sets of inputs are of their kinds; `NoneAssumption`: no connection is the absence of one). Where a theorem
needs more than that, its statement says so.

- `SumProofs`. The specifications total amounts with `SumFunctionOnSet`, a recursion over subsets. Its lemmas (a sum
  over a set with one more member, over a union, of a function that changed in one place, of one that is smaller in
  every place) are inductions over a finite set, done without an operator as a parameter: the claim is a set of the
  subsets for which it holds, and a minimal subset outside it would be a contradiction.

- `BridgeLockProofs`. `TypeCorrect` needs that the vault covers what is subtracted, which the guard of `PayOut`
  gives. `VaultAlwaysBalances` is inductive with types. `NoncesHaveNoGaps` is proved for all nonces
  (`NoncesContiguous`); the run checks its finite form, a conjunct of `BooksMatchRecords`.
  `PendingChangesStayValid` is inductive: `update_config` moves the two parameters away from the pending value only,
  and a second proposal of the type is refused while one is pending. `ImplementsCustody` maps every step to a step of
  the custodian or a stutter; it uses that a payment is made for a record that is not yet executed.
  `EveryUnlockBacked` counts signers (`DistinctSigners`: a list without repetition is a bijection onto its signers), whoever
they are: that a signer was registered does not follow (section 5). `LargeUnlocksWait` needs that the record keeps the wait its acceptance gave it (`RecordsWait`). `ImplementsTimelocks`
  treats the four instances at once (`LockStep`); that a loosening is still one when it is executed is
  `PendingChangesStayValid`, and `PendingDelays` ties `execute_after` to the moment of the proposal.
  `BooksAgree` follows a record through `Books`: what each counter must be the sum of, after a record was added, paid or
  left as it is. `OutflowCounted` and `OutflowCapped` rest on `WindowBooks`: every acceptance and every payment has a date
  that is not in the future (`Dated`), the hourly amount is the sum of what was accepted since its reset
  (`HourlyBooks`), the daily one of what was paid since its own (`DailyBooks`), and any day splits into two intervals
  whose payments are each within a cap that was in force at one of them (`Windows`): a window keeps this for its own end
  and for the end of the one before. The hour and the day are the code's 3600 and 86400 seconds or any other positive
  numbers.
- `BridgeControllerProofs`. `PendingMintsFaithful` is the strengthening the others rest on: what a `pending_` entry
  says is what was accepted, and it was not credited. `SupplyAccounted`, `DelayedMintsWait` and `ImplementsIssuance`
  follow with it. `ImplementsTimelocks` does for the two keys what its namesake does for the lock program.
  `CountersAgree` and `DailyMintsCounted` go through the records as in the lock program; the amounts are rounded on the
  way (`Converted`), and what a window holds is summed by the height of the acceptance.
- `ConsensusProofs`. The inductive invariant `IInv` says, beside types, that attestations under way and in rounds
  were signed (`SentAreSigned`, `RoundsBacked`), that a reported transfer stays marked as processed
  (`ProcessedRemembers`), and that a node that has signed and not restarted still remembers it in a round or as
  processed (`SignersRemember`). Without the last two, uniqueness is lost when the cleanup timer deletes a round.
  `ResolvedRoundsStay` is an action property and needs types only.
  `LastDeliveryDecides` looks at the node that proposed a transfer first: whatever is signed of it afterwards finds a
  round there, so of every attestation it can say that it is counted, under way, of another message, or too late for a
  round that was over (`FirstHears`). An open round has fewer than minValidators attestations (`ShortWhileOpen`). When
  nothing is under way any more it has counted everybody and cannot be open.
- `BotDepositsProofs`. The inductive invariant ties the calls to the store: lists and rows tell what is on the ledger
  (`ListsOnLedger`, `RowsOnLedger`); a pending row has one call at most that announces it (`OneClaim`), which is
  what the unique key gives when calls overlap; a relay runs only for a row that left pending, once (`OneRelay`); what
  was minted is the token of that row (`OneMint`). `RelaysOnce` and `MintsOnce` follow; `CompletesOnChain` needs types only.
  `EveryRowIsDriven` hands a row from the call that announces it to its relay (`Driven`), or leaves it pending where there
is no relay to be had. `NothingPassedOver` has no hypothesis about the list: a deposit that more transactions of its
wallet have pushed out of it (`PushedOut`) is one of the named causes, and stays pushed out. `CursorInv` says that below what a list goes on with nothing of its kind is missing
  (`ListsWhole`), so that what a cursor passes has a row, is still seen by a call, or was overtaken (`PassedCovered`).
- `BotBurnsProofs`. Who may still start a relay: nobody while the burn has no row (`NoRowNoRelay`), and afterwards the
  one poll that inserted it while its announcement is out (`OneAnnouncer`). Cursors play no part in it, which is why
  `RelayedAtMostOnce` holds although the cursor goes back.
- `ValidatorProofs`. Of the process: a sweep that waits for an answer waits at an entry whose depth was enough at a
  position its chain has reached; so what it emits is final, and what it drops was replaced. `DepositInv` says where each
  announcement, entry, round and submission was said to be (`Places`), that a mint is final (`MintsFinal`), and that a
  deposit which is not excused is in somebody's hands (`ReachedInHand`, `AllTracked`): `DepositsStayTracked`.
  `BurnsStayTracked` needs that the poll of DecentralChain reads every height between the last one processed and the one
  it goes to (`PollAhead`). `OnlyWhatStaysIsAttested` holds of a configuration that waits for at least as many blocks as
  the chain may replace (`requiredBlocks >= ReorgDepth`, in its statement): nothing else in the code keeps it.
  `OneIdentity` relates the two key files to the key in memory (`KeyInv`). An event that is no deposit's may come first with a
  deposit's id: it takes the deposit's place in the map, before the engine or on the other chain (`OtherPending`,
  `OtherRound`, `OtherLanded`), and that the deposit is then lost is all that is excused. The constants are as in `SolanaAssumption`,
  `DccAssumption` and `NodeAssumption`: finitely many burns, deposits whose ids are none of burns, and a `FarSlot`
  beyond every slot.
  Of the transport: `MapsHaveNoGhosts` needs that an alive connection has both its ends (`AliveHasEnds`), for otherwise a
  message could list an end whose close was handled already. An entry goes with its end because an end is listed under
  one name; that names clash does not matter.
- `ServiceProofs`. `QuietChecksCover` ties each reading of a check to the state of its moment: the vault is read first
  and the counter never falls. `AnswersTrue` carries what a request knows from read to read (`ReadSoFar`), and uses that
  an id is a deposit's or a burn's, not both. `EveryStreamHears` relates subscriptions to responses one by one
  (`Subscribed`). `ShowsWhatWasInstructed` carries what a route has checked of a post (`Checked`); the forms do not occur
  in it, since the page shows what it posted and not what is in the fields. `OrdersAlwaysWellFormed` and
  `OrdersMatchInstructions` follow every handler under way by what it still may do to the one session they share
  (`HandlersAtWork`): two of them may confirm the same data, and none confirms what was not shown.
  `WindowAlwaysRespected` says that a bucket is an end of the list of what was let through, since what `filter` drops is
  the oldest, and that any `maxRequests` + 1 consecutive ones are a window apart (`SpreadOut`).

Only model-checked: liveness (`BurnsSettle`, `BootstrapLinked`, `DangerPauses`), which the prover does not reach. The
five runs of section 5 are counterexamples and need no proof.

## 5. Where the code and its documents disagree

Each of the first five is a run that TLC must find violated.

1. `consensus_same_message`: the canonical message "ensures deterministic message construction across all nodes"
   (engine.ts:252) and ends with each node's own `Date.now()`. Nodes agree only if they read the same millisecond.
2. `controller_signers`: the quorum is documented over different signers (BRIDGE_SPEC.md:201, AUDIT_CHECKLIST.md:76);
   the fold counts entries of the list.
3. `burns_skipped`: a burn that matches a user is relayed (monitor.cjs:8-10); the loop goes through the list newest first
   and passes over each burn that is not above a cursor it moves itself, so of two burns of a user between two polls, or
   in one block, only one gets a row.
4. `lock_registered`: "no account confusion attacks possible" (AUDIT_CHECKLIST.md:20), "we verify the validator is in the
   active set" (unlock.rs:140). The handler takes an account it is passed for a validator's entry when it has 66 bytes, the
   key from byte 8 and a byte 40 that is not zero (unlock.rs:146-161); owner, discriminator and address are not compared,
   so a key that was never registered counts. What `BackedByQuorum` says of the quorum is the rest: as many different
   keys, each of which signed.
5. `node_events`: "events cannot be forged by other programs" (AUDIT_CHECKLIST.md:50). The watcher reads the discriminator of
   an event and compares it with nothing, nor asks who logged it (solana-watcher.ts:132-147), so a node attests an event of
   a transaction that made no deposit. What `AttestsWhatStays` says is the rest: the transaction succeeded and stays.
   An event with the id of a deposit that comes before the deposit's own takes its place (`DepositsTracked`).

Met on the way and not run.

*Chains.* Large mints are documented to wait (BRIDGE_SPEC.md:122-130), and the legacy `mint`, which the validators call,
credits them at once; `total_minted - total_burned` is documented as the circulating supply (SECURITY_RUNBOOK.md:34), and
`mintToken`, `executePendingMint` and `burnToken` do not write these entries; BRIDGE_SPEC.md:38 states the daily cap for
every 24 hours, and the window restarts, as :149-155 says, so the bound is `TwoWindowsCap`; the hourly cap (state.rs:76)
charges a delayed withdrawal when it is scheduled and not when it flows out; `update_config` given `min_deposit` alone
does not compare it with `max_deposit`, as initialize.rs:67 does; lib.rs:70 calls resume a guardian's call and the handler
wants the authority.

*Validators.* "Store for later" (engine.ts:147) stands before a return that drops the attestation. With a quorum of one,
which the deployment scripts give the contract, a round is counted only when a peer's attestation arrives (engine.ts:125),
so that every round ends by its timer. config.maxRetries is read by nobody, and a failed round is never retried
(VALIDATOR_BOOTSTRAP.md:169). dcc-watcher.ts:157-167 takes a burn record to have five fields and `burnToken` writes six:
its third field is not a number, the parse throws and every such burn is passed over (`fields` in `DccWatcher`);
`getBurnRecord` of the validator's helpers makes the same mistake. "Past the reorg protection window"
(solana-watcher.ts:211) is decided without reorgProtectionSlots; an SPL deposit is decoded with the layout of a native
one, and lands at `FarSlot`. submitUnlockToSolana parses `privateKeyPath` as JSON (main.ts:345) where the signer has written
encrypted bytes, so that it always throws (`PayerReadable`). A crash between the two writes of threshold-signer.ts:229-238
leaves a key that cannot be decrypted. "To all connected peers" (transport.ts:133) does not hold after a late close has
deleted the live connection's entry; gossip makes a node dial itself and addresses it dials already.

*Bot.* As the excuses in `NonePassedOver`, `NobodyAbandonsARow` and `BurnsSettle` say: a deposit whose details could not be
read may be passed over when a newer one of the list is relayed; a token deposit that arrives after the token scan of a
call and before a native one of the same call is overtaken; a deposit or a burn that 50 other transactions follow before
its scan is never listed, whatever these are (solana.cjs:94, dcc.cjs:178); without consensus and without a validator key,
which is what config.cjs gives when nothing is set, relaySolToDcc throws before its first update (relay.cjs:127-129) and the
monitor only logs it (monitor.cjs:131, 174), so that every row stays pending; a row whose poll or relay a restart ended stays as it is, because
nobody calls `getPendingTransfers` and `getUnprocessedDeposits`; of two tokens in one transaction one is relayed; a transfer to a
token account the wallet has already need not name the wallet, and then getSignaturesForAddress does not list it; the scan
of burns does not ask whether the invocation succeeded, so that a failed burnToken is relayed like another; a mint
that was accepted although its answer was lost ends as `failed`; and the user is told "complete" for a row that is
`pending_confirmation` (relay.cjs:193-204). In the wizard `/cancel` and `/start` are taken as texts ("/cancel anywhere",
bot.cjs:70); a direction is accepted at any step (the comment above it says step 0), so that an order may be confirmed
without an amount and is stored with 'NaN', on which `/history` throws; an address typed for an amount counts as the
digits it begins with; a double Confirm stores two rows; wizard rows stay pending for good, and their destination is not
where the monitor mints to (monitor.cjs:106-126).

*API and page.* Nobody calls `createTransfer`, so the table is empty, the operator's PATCH always answers 404 and the
event stream never has anything to send; the model inserts rows all the same, to ask what the routes would say. A redeem
is answered completed as soon as its burn record exists (transfer.ts:85-86), before anything is unlocked, and a large mint
when it is only scheduled. The page posts instructions and never signs them; its transfer id stays 'pending', which the
status route refuses. `deposit/limits` reads the configuration at offsets that are not its own; the pause is not checked
when the node cannot be reached, and never for a redeem; redeem amounts are scaled by nine decimals where the wrapped
token has eight. createDeposit always posts to `/deposit`, also for another token than SOL.

*Monitoring.* The supply check compares lamports with `total_minted`, which is in units of ten lamports, is cumulative,
and which only the legacy `mint` moves: QuietMeansCovered is as much as it proves, a shortfall of up to nine tenths raises
a drift warning only (anomaly-detector.ts:10), and after enough burns the emergency is a false one. A supply that cannot
be read counts as 0. The pause of DecentralChain invokes `pause`, which the contract does not have (main.ts:81), so that
only Solana is ever paused. Validators are asked one after the other, and may all be found up while they take turns being
down. The checks of volume and of rates are called by nobody.

## 6. Not modelled, and why

Signatures and hashes (a verified signature is a key in a list; a hash is the tuple it is taken of), rent, account
layout, token names, addresses' syntax, event logs, metrics, texts. SPL tokens can be deposited and nothing unlocks them,
as in the program. The engine does not verify signatures of attestations, the chains do. Signing settles within the
microtasks of a step, because the signer works in process; with a remote signer the window between the checks of
`proposeAttestation` and its writes would have to be opened. Code nobody calls: rotateKey, the HSM mode, which throws,
verifyFn, the monitor's volume and rate checks, the bot's sends and swaps. Calls that keep no state: health, statistics and
limits of the API, the bot's commands that only read. POST /deposit/spl, which the page never uses. Infrastructure,
deployment, gateway and end-to-end scripts run once and hold no logic of the bridge; they are most of the lines the map
does not cover. The wSOL token contract is never called by the controller, which issues assets of its own.

No module composes the two chains. With the burn record misread and the unlock's payer unreadable (section 5) the path
from a burn to its unlock ends inside the validator, so that a theorem about circulation across both chains would hold of
a system that is not this one; each chain's end of the promise is in `Custody` and `Issuance`.

## 7. What could follow

The liveness properties as theorems, when a prover reaches them. Once the watcher reads burn records as they are
written, a module that composes `BridgeLock`, `BridgeController` and the reports of `Consensus`.
