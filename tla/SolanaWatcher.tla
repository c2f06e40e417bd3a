--------------------------- MODULE SolanaWatcher ---------------------------
(***************************************************************************)
(* The validator's watcher of Solana (watchers/solana-watcher.ts): deposit *)
(* events come over a websocket at 'confirmed', wait in pendingEvents and  *)
(* are emitted when the finalized slot is far enough past theirs and the   *)
(* transaction is still where the event said.                              *)
(*                                                                         *)
(* Solana itself is external: blocks that are confirmed and not finalized  *)
(* may be replaced, and a replaced transaction may be included once more.  *)
(* A transfer id is the hash of sender and nonce, so two transactions of   *)
(* one sender share it when the first was replaced: transferId tells.      *)
(* An event of deposit_spl is decoded with the layout of deposit: its slot *)
(* is read out of the token's address, a number far beyond any slot.       *)
(*                                                                         *)
(* The node tells of every transaction that mentions the bridge program,   *)
(* and the watcher decodes whatever a program logged in it: it looks at    *)
(* neither the program nor the event's discriminator. Transactions that    *)
(* are no deposits log events too, with any id and any slot in them.       *)
(***************************************************************************)
EXTENDS Sweep

CONSTANTS
  Transactions,           \* that mention the program and log an event, by signature
  Deposits,               \* those that are deposits
  SplDeposits,            \* of these, those made by deposit_spl
  Failed,                 \* transactions that failed, with what they logged before
  transferId,             \* transaction -> the id in its event
  requiredConfirmations,
  FarSlot,                \* what eight bytes of a token's address read as, or more
  MaxSlot, MaxForks       \* bounds: slots, replaced blocks

ASSUME SolanaAssumption ==
  /\ SplDeposits \subseteq Deposits /\ Deposits \subseteq Transactions
  /\ Failed \subseteq Transactions \ Deposits
  /\ requiredConfirmations \in Nat /\ MaxSlot \in Nat \ {0} /\ MaxForks \in Nat
  /\ FarSlot \in Nat /\ FarSlot > MaxSlot

VARIABLES
  slot, finalized,        \* the tip and the finalized slot
  included,               \* transaction -> its slot, 0 while in no block
  forks,
  logs,                   \* notifications under way to this watcher
  pendingEvents,          \* the Map, in insertion order
  sweep

chain_vars == <<slot, finalized, included, forks>>
watcher_vars == <<logs, pendingEvents, sweep>>
sol_vars == <<chain_vars, watcher_vars>>

Log == [tx: Transactions, slot: Nat, told: Nat]
Event == [id: {transferId[t] : t \in Transactions}, tx: Transactions, position: Nat]

SolInit ==
  /\ slot = 1 /\ finalized = 0 /\ forks = 0
  /\ included = [t \in Transactions |-> 0]
  /\ logs = {} /\ pendingEvents = <<>> /\ sweep = Sleeping

-----------------------------------------------------------------------------
(* Solana. *)

SolanaBlock ==
  /\ slot < MaxSlot
  /\ slot' = slot + 1
  /\ UNCHANGED <<finalized, included, forks, watcher_vars>>

Finalize ==
  /\ finalized < slot
  /\ finalized' = finalized + 1
  /\ UNCHANGED <<slot, included, forks, watcher_vars>>

\* The slot an event tells of itself.
SlotsTold(t) ==
  CASE t \in SplDeposits           -> {FarSlot}
    [] t \in Deposits \ SplDeposits -> {slot}
    [] t \notin Deposits           -> 0 .. FarSlot

\* The transaction is in the block of the present slot, and the node's websocket
\* tells a watcher that is subscribed. The program makes one deposit of an id.
IncludeTransaction(t, subscribed) ==
  /\ included[t] = 0 /\ slot > finalized
  /\ t \in Deposits =>
       \A d \in Deposits : transferId[d] = transferId[t] => included[d] = 0
  /\ included' = [included EXCEPT ![t] = slot]
  /\ IF subscribed
     THEN \E told \in SlotsTold(t) : logs' = logs \cup {[tx |-> t, slot |-> slot, told |-> told]}
     ELSE UNCHANGED logs
  /\ UNCHANGED <<slot, finalized, forks, pendingEvents, sweep>>

\* A block past the finalized slot is replaced by one without the transaction.
SolanaFork(t) ==
  /\ included[t] > finalized
  /\ forks < MaxForks /\ forks' = forks + 1
  /\ included' = [included EXCEPT ![t] = 0]
  /\ UNCHANGED <<slot, finalized, watcher_vars>>

-----------------------------------------------------------------------------
(* The watcher. *)

\* parseDepositEvents and decodeBridgeDeposit: id and slot are the event's own.
Decode(l) == [id |-> transferId[l.tx], tx |-> l.tx, position |-> l.told]

\* Variant: duplicates are not looked for.
ProcessAllLogs(l) == pendingEvents' = Append(pendingEvents, Decode(l))

\* processLogs: an event whose id is pending is dropped.
processLogs(l) ==
  LET e == Decode(l) IN
  pendingEvents' = IF Has(pendingEvents, e.id) THEN pendingEvents ELSE Append(pendingEvents, e)

ReceiveLogs(l) ==
  /\ l \in logs
  /\ logs' = logs \ {l}
  /\ processLogs(l)
  /\ UNCHANGED <<chain_vars, sweep>>

\* The websocket was down when the node announced it.
LoseLogs(l) ==
  /\ l \in logs
  /\ logs' = logs \ {l}
  /\ UNCHANGED <<chain_vars, pendingEvents, sweep>>

\* runFinalityLoop wakes up and gets the finalized slot.
StartSweep ==
  /\ sweep.at = "sleep"
  /\ sweep' = Advance(pendingEvents, 1, finalized, requiredConfirmations)
  /\ sweep' # sweep
  /\ UNCHANGED <<chain_vars, logs, pendingEvents>>

AtVerify(e) == sweep.at = "verify" /\ e = pendingEvents[sweep.cursor]

\* Variant: the Map is cleared.
DropAll == pendingEvents' = <<>> /\ sweep' = Sleeping

\* The entry is deleted and the sweep goes on with the one that follows it.
Drop ==
  /\ pendingEvents' = RemoveAt(pendingEvents, sweep.cursor)
  /\ sweep' = Advance(pendingEvents', sweep.cursor, sweep.now, requiredConfirmations)

\* Variant: any slot will do.
TransactionFound(e) == included[e.tx] \in 1 .. finalized /\ e.tx \notin Failed

\* verifyTransactionFinality, when the request is answered.
TransactionValid(e) ==
  /\ included[e.tx] \in 1 .. finalized
  /\ included[e.tx] = e.position
  /\ e.tx \notin Failed

\* The answer confirms the event: 'deposit_finalized' is emitted.
DepositFinalized(e) ==
  /\ AtVerify(e) /\ TransactionValid(e)
  /\ Drop
  /\ UNCHANGED <<chain_vars, logs>>

\* The transaction is not there, or the request failed, which counts the same:
\* 'deposit_invalidated', which nobody listens to.
DepositInvalidated(e, failed) ==
  /\ AtVerify(e) /\ (failed \/ ~ TransactionValid(e))
  /\ Drop
  /\ UNCHANGED <<chain_vars, logs>>

\* The process ends: the subscription and the Map go with it.
StopSolanaWatcher ==
  /\ logs' = {} /\ pendingEvents' = <<>> /\ sweep' = Sleeping
  /\ UNCHANGED chain_vars
=============================================================================
