---------------------------- MODULE DccWatcher ----------------------------
(***************************************************************************)
(* The validator's watcher of DecentralChain (watchers/dcc-watcher.ts): a  *)
(* poll loop scans each new height once for burns of the bridge contract,  *)
(* a finality loop emits the pending ones that are deep enough and still   *)
(* in the contract's data. The loops interleave at their requests.         *)
(*                                                                         *)
(* DecentralChain is external. Its tip is the block at `height`, and takes *)
(* transactions until the next block; the last ReorgDepth blocks may be    *)
(* replaced. A burn id is a hash over the height among others, so a burn   *)
(* that is included again has another id: <<burn, height>> stands for it.  *)
(*                                                                         *)
(* The watcher takes the third field of a burn record for the amount. The  *)
(* records of bridge_controller.ride have the token's address there, which *)
(* BigInt refuses; fields tells which records of the configured contract   *)
(* are of which form.                                                      *)
(***************************************************************************)
EXTENDS Sweep

CONSTANTS
  Burns,                  \* invocations of burn and burnToken
  fields,                 \* Burns -> 5 or 6, the fields of the record
  requiredBlocks,         \* DccWatcherConfig.requiredConfirmations
  ReorgDepth,             \* how many of the last blocks may be replaced
  StartHeight, MaxHeight, MaxReorgs   \* bounds

ASSUME DccAssumption ==
  /\ IsFiniteSet(Burns) /\ fields \in [Burns -> {5, 6}]
  /\ {requiredBlocks, ReorgDepth, StartHeight, MaxHeight, MaxReorgs} \subseteq Nat

VARIABLES
  height,
  burnAt,                 \* burn -> its height, 0 while in no block
  reorgs,
  lastProcessedHeight,
  poll,                   \* [at: "sleep" or "scan", h, upto]
  pendingBurns,           \* the Map, in insertion order
  burnSweep,
  unseen                  \* history: burns in a block that was scanned before they came

dcc_chain_vars == <<height, burnAt, reorgs>>
poll_vars == <<lastProcessedHeight, poll>>
dcc_vars == <<dcc_chain_vars, poll_vars, pendingBurns, burnSweep, unseen>>

Idle == [at |-> "sleep", h |-> 0, upto |-> 0]

DccInit ==
  /\ height = StartHeight /\ reorgs = 0
  /\ burnAt = [b \in Burns |-> 0]
  /\ lastProcessedHeight = 0 /\ poll = Idle
  /\ pendingBurns = <<>> /\ burnSweep = Sleeping
  /\ unseen = {}

\* The watcher asks for no block at or below this height any more.
Scanned == IF poll.at = "scan" THEN poll.h - 1 ELSE lastProcessedHeight

-----------------------------------------------------------------------------
(* DecentralChain. *)

DccBlock ==
  /\ height < MaxHeight
  /\ height' = height + 1
  /\ UNCHANGED <<burnAt, reorgs, poll_vars, pendingBurns, burnSweep, unseen>>

IncludeBurn(b) ==
  /\ burnAt[b] = 0
  /\ burnAt' = [burnAt EXCEPT ![b] = height]
  /\ unseen' = IF height <= Scanned THEN unseen \cup {b} ELSE unseen
  /\ UNCHANGED <<height, reorgs, poll_vars, pendingBurns, burnSweep>>

\* The block of the burn is replaced by one without it.
DccReorg(b) ==
  /\ burnAt[b] > height - ReorgDepth /\ burnAt[b] # 0
  /\ reorgs < MaxReorgs /\ reorgs' = reorgs + 1
  /\ burnAt' = [burnAt EXCEPT ![b] = 0]
  /\ unseen' = unseen \ {b}
  /\ UNCHANGED <<height, poll_vars, pendingBurns, burnSweep>>

-----------------------------------------------------------------------------
(* The watcher. *)

BurnEvent(b) == [id |-> <<b, burnAt[b]>>, burn |-> b, position |-> burnAt[b]]

\* start: from the present height on.
StartDccWatcher ==
  /\ lastProcessedHeight' = height
  /\ unseen' = {b \in Burns : burnAt[b] # 0}
  /\ UNCHANGED <<dcc_chain_vars, poll, pendingBurns, burnSweep>>

\* runPollLoop wakes up and gets the height.
StartPoll ==
  /\ poll.at = "sleep"
  /\ height > lastProcessedHeight
  /\ poll' = [at |-> "scan", h |-> lastProcessedHeight + 1, upto |-> height]
  /\ UNCHANGED <<dcc_chain_vars, lastProcessedHeight, pendingBurns, burnSweep, unseen>>

\* Variant: the height moves to what the chain has by now.
NextBlockToTip ==
  IF poll.h < poll.upto
  THEN poll' = [poll EXCEPT !.h = @ + 1] /\ UNCHANGED lastProcessedHeight
  ELSE poll' = Idle /\ lastProcessedHeight' = height

NextBlock ==
  IF poll.h < poll.upto
  THEN poll' = [poll EXCEPT !.h = @ + 1] /\ UNCHANGED lastProcessedHeight
  ELSE poll' = Idle /\ lastProcessedHeight' = poll.upto

\* checkForBurnEvent and parseBurnEvent, for each burn of the block: a record
\* that is not read, and an id that is pending, are dropped.
NewBurns(h) ==
  {e \in {BurnEvent(b) : b \in {c \in Burns : burnAt[c] = h /\ fields[c] = 5}} :
     ~ Has(pendingBurns, e.id)}

\* scanBlock. A block that cannot be read is passed over.
ScanBlock(failed) ==
  /\ poll.at = "scan"
  /\ NextBlock
  /\ pendingBurns' = IF failed THEN pendingBurns ELSE pendingBurns \o SetToSeq(NewBurns(poll.h))
  /\ UNCHANGED <<dcc_chain_vars, burnSweep, unseen>>

\* runFinalityLoop wakes up and gets the height.
StartBurnSweep ==
  /\ burnSweep.at = "sleep"
  /\ burnSweep' = Advance(pendingBurns, 1, height, requiredBlocks)
  /\ burnSweep' # burnSweep
  /\ UNCHANGED <<dcc_chain_vars, poll_vars, pendingBurns, unseen>>

AtVerifyBurn(e) == burnSweep.at = "verify" /\ e = pendingBurns[burnSweep.cursor]

DropBurn ==
  /\ pendingBurns' = RemoveAt(pendingBurns, burnSweep.cursor)
  /\ burnSweep' = Advance(pendingBurns', burnSweep.cursor, burnSweep.now, requiredBlocks)

\* verifyBurnOnChain, when the request is answered: the entry burn_<id>.
BurnOnChain(e) == burnAt[e.burn] # 0 /\ e.id = <<e.burn, burnAt[e.burn]>>

BurnFinalized(e) ==
  /\ AtVerifyBurn(e) /\ BurnOnChain(e)
  /\ DropBurn
  /\ UNCHANGED <<dcc_chain_vars, poll_vars, unseen>>

\* The entry is not there, or the request failed.
BurnInvalidated(e, failed) ==
  /\ AtVerifyBurn(e) /\ (failed \/ ~ BurnOnChain(e))
  /\ DropBurn
  /\ UNCHANGED <<dcc_chain_vars, poll_vars, unseen>>

StopDccWatcher ==
  /\ poll' = Idle /\ pendingBurns' = <<>> /\ burnSweep' = Sleeping
  /\ UNCHANGED <<dcc_chain_vars, lastProcessedHeight, unseen>>
=============================================================================
