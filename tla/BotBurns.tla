------------------------------ MODULE BotBurns ------------------------------
(***************************************************************************)
(* The Telegram bot's path from DecentralChain to Solana: pollDcc scans    *)
(* the burns of its users from a cursor per sender (bridge/monitor.cjs),   *)
(* relayDccToSol asks the validators for the unlock (bridge/relay.cjs). As *)
(* in BotDeposits an action is the code between two awaits.                *)
(*                                                                         *)
(* The ledger holds the transactions of the bridge's address, which are    *)
(* those the node lists: burnToken invocations of users (the scan does not *)
(* ask whether they succeeded), and all others, which the scan drops. The  *)
(* number of a transaction in the ledger stands for its id and its row. A  *)
(* block holds any number of them, and the last one may still grow.        *)
(*                                                                         *)
(* Operators commented "Variant: ..." are deviations from the code that    *)
(* the model checker refutes in place of the definition they precede; no   *)
(* specification uses them.                                                *)
(***************************************************************************)
EXTENDS Integers, Sequences

CONSTANTS
  Users,
  Others,                    \* who sent what is no burn of a user
  Polls,                     \* calls of pollDcc that may overlap
  ScanLimit,                 \* transactions the node lists per request
  MAX_RETRIES,
  MaxTransactions,           \* bound: length of the ledger
  MaxFaults,                 \* bound: requests of a scan that fail
  MaxCrashes                 \* bound: restarts of the bot

ASSUME BotBurnsAssumption ==
  /\ Others \notin Users
  /\ {MaxTransactions, MaxFaults, MaxCrashes} \subseteq Nat
  /\ {ScanLimit, MAX_RETRIES} \subseteq Nat \ {0}

VARIABLES
  ledger,                    \* transactions of the bridge, oldest first
  unlocks,                   \* status of the row of each burn
  dccHeightMap,              \* sender -> height, with its copy in scan_cursors
  dccPoll, relay,            \* calls of pollDcc and relayDccToSol
  useConsensus,              \* config.useConsensus
  faults, crashes,           \* counters for the bounds
  relays                     \* history: relays started

vars == <<ledger, unlocks, dccHeightMap, dccPoll, relay, useConsensus, faults, crashes, relays>>

BurnIds == 1..MaxTransactions
Heights == 1..MaxTransactions

\* A row that does not exist is "none".
Settled == {"pending_unlock", "failed"}
Statuses == {"none", "pending", "dcc_confirmed"} \cup Settled

Idle == [pc |-> "idle"]
DccPoll == {Idle} \cup [pc: {"list"}, todo: SUBSET BurnIds] \cup
  [pc: {"notify"}, now: BurnIds, todo: SUBSET BurnIds]
Relay == {Idle} \cup [pc: {"calling", "notifying"}, attempt: 1..MAX_RETRIES]

-----------------------------------------------------------------------------
\* The height of the last block with a transaction of the bridge.
Last == IF ledger = <<>> THEN 0 ELSE ledger[Len(ledger)].height

\* A user burns, or there is another transaction, in the last block or in a new one.
Transact(sender, height) ==
  /\ Len(ledger) < MaxTransactions
  /\ height \in {Last, Last + 1}
  /\ ledger' = Append(ledger, [sender |-> sender, height |-> height])
  /\ UNCHANGED <<unlocks, dccHeightMap, dccPoll, relay, useConsensus, faults, crashes, relays>>

\* Variant: the table has no unique index.
IsAlwaysNew(rows, b) == TRUE

\* recordDeposit inserts a transaction once.
IsNew(rows, b) == rows[b] = "none"

\* The rest of a list, newest first: a burn at or below its sender's cursor is
\* passed over, and so is one that has a row; the next one gets a row and an
\* announcement to wait for.
Continue(p, todo, rows, cursor) ==
  LET new == {b \in todo : ledger[b].height > cursor[ledger[b].sender] /\ IsNew(rows, b)} IN
  \/ /\ new = {}
     /\ unlocks' = rows
     /\ dccPoll' = [dccPoll EXCEPT ![p] = Idle]
  \/ \E b \in new :
       /\ \A c \in new : c <= b
       /\ unlocks' = [rows EXCEPT ![b] = "pending"]
       /\ dccPoll' = [dccPoll EXCEPT ![p] =
            [pc |-> "notify", now |-> b, todo |-> {c \in todo : c < b}]]

\* The burns of users among the newest transactions, which are what the node
\* lists, whatever the cursors (minHeight is always 0).
scanBurnRecords ==
  {b \in 1..Len(ledger) : b + ScanLimit > Len(ledger) /\ ledger[b].sender \in Users}

\* The timer does not wait for the previous call. Up to the node's answer a call
\* reads nothing that changes; an error is an empty list.
pollDcc(p) ==
  /\ dccPoll[p] = Idle
  /\ \/ /\ dccPoll' = [dccPoll EXCEPT ![p] = [pc |-> "list", todo |-> scanBurnRecords]]
        /\ UNCHANGED faults
     \/ /\ faults < MaxFaults
        /\ faults' = faults + 1
        /\ dccPoll' = [dccPoll EXCEPT ![p] = [pc |-> "list", todo |-> {}]]
  /\ UNCHANGED <<ledger, unlocks, dccHeightMap, relay, useConsensus, crashes, relays>>

\* The answer is there: the loop runs up to its first announcement. The ledger
\* and the cursors may have moved since the node made the list.
Scanned(p) ==
  /\ dccPoll[p].pc = "list"
  /\ Continue(p, dccPoll[p].todo, unlocks, dccHeightMap)
  /\ UNCHANGED <<ledger, dccHeightMap, relay, useConsensus, faults, crashes, relays>>

\* Variant: the cursor is the next height to scan.
NextHeightNext(height) == height + 1

\* A burn sets its sender's cursor to its height, be it higher or not.
NextHeight(height) == height

\* The announcement is out: the relay starts and runs up to its request or,
\* without consensus, up to an announcement of its own; the sender's cursor is
\* set to this burn, and the list goes on.
Announced(p) ==
  LET q == dccPoll[p]
      burn == ledger[q.now]
      cursor == [dccHeightMap EXCEPT ![burn.sender] = NextHeight(burn.height)]
  IN
  /\ q.pc = "notify"
  /\ relay' = [relay EXCEPT ![q.now] =
       [pc |-> IF useConsensus THEN "calling" ELSE "notifying", attempt |-> 1]]
  /\ relays' = [relays EXCEPT ![q.now] = @ + 1]
  /\ dccHeightMap' = cursor
  /\ Continue(p, q.todo, [unlocks EXCEPT ![q.now] = "dcc_confirmed"], cursor)
  /\ UNCHANGED <<ledger, useConsensus, faults, crashes>>

MoreAttempts(r) == r.attempt < MAX_RETRIES

\* The validators acknowledge the unlock, or none of them does and the request
\* is repeated up to MAX_RETRIES times. Without consensus the user is told
\* that the unlock waits.
relayDccToSol(b) ==
  LET r == relay[b] IN
  /\ r.pc \in {"calling", "notifying"}
  /\ \/ /\ unlocks' = [unlocks EXCEPT ![b] = "pending_unlock"]
        /\ relay' = [relay EXCEPT ![b] = Idle]
     \/ /\ r.pc = "calling" /\ MoreAttempts(r)
        /\ relay' = [relay EXCEPT ![b].attempt = @ + 1]
        /\ UNCHANGED unlocks
     \/ /\ r.pc = "calling" /\ ~ MoreAttempts(r)
        /\ unlocks' = [unlocks EXCEPT ![b] = "failed"]
        /\ relay' = [relay EXCEPT ![b] = Idle]
  /\ UNCHANGED <<ledger, dccHeightMap, dccPoll, useConsensus, faults, crashes, relays>>

\* The rows and the cursors survive (loadCursors); calls and relays do not.
Restart ==
  /\ crashes < MaxCrashes
  /\ crashes' = crashes + 1
  /\ dccPoll' = [p \in Polls |-> Idle]
  /\ relay' = [b \in BurnIds |-> Idle]
  /\ UNCHANGED <<ledger, unlocks, dccHeightMap, useConsensus, faults, relays>>

Init ==
  /\ ledger = <<>>
  /\ unlocks = [b \in BurnIds |-> "none"]
  /\ dccHeightMap = [u \in Users |-> 0]
  /\ dccPoll = [p \in Polls |-> Idle]
  /\ relay = [b \in BurnIds |-> Idle]
  /\ useConsensus \in BOOLEAN
  /\ faults = 0 /\ crashes = 0
  /\ relays = [b \in BurnIds |-> 0]

Next ==
  \/ \E sender \in Users \cup {Others}, height \in Heights : Transact(sender, height)
  \/ \E p \in Polls : pollDcc(p) \/ Scanned(p) \/ Announced(p)
  \/ \E b \in BurnIds : relayDccToSol(b)
  \/ Restart

Spec == Init /\ [][Next]_vars

\* The timer fires, requests and announcements return. Nobody has to burn.
Fairness ==
  /\ WF_vars(\E p \in Polls : pollDcc(p))
  /\ \A p \in Polls : WF_vars(Scanned(p)) /\ WF_vars(Announced(p))
  /\ \A b \in BurnIds : WF_vars(relayDccToSol(b))

FairSpec == Spec /\ Fairness

-----------------------------------------------------------------------------
(* Properties. *)

\* All variables have the types the code gives them.
TypeOK ==
  /\ ledger \in Seq([sender: Users \cup {Others}, height: Heights])
  /\ Len(ledger) <= MaxTransactions
  /\ unlocks \in [BurnIds -> Statuses]
  /\ dccHeightMap \in [Users -> 0..MaxTransactions]
  /\ dccPoll \in [Polls -> DccPoll] /\ relay \in [BurnIds -> Relay]
  /\ useConsensus \in BOOLEAN /\ faults \in 0..MaxFaults /\ crashes \in 0..MaxCrashes
  /\ relays \in [BurnIds -> Nat]

\* Overlapping polls, a cursor that goes back and restarts relay a burn at most
\* once: the insert of recordDeposit is the only claim on it (store.cjs).
RelayedOnce == \A b \in BurnIds : relays[b] <= 1

IsBurn(b) == b <= Len(ledger) /\ ledger[b].sender \in Users

\* Another burn of the sender that takes the cursor to the height of b or past
\* it: a newer one, or an older one of the same block.
PassedBy(b) ==
  IsBurn(b) /\ \E c \in 1..Len(ledger) \ {b} :
    ledger[c].sender = ledger[b].sender /\ ledger[c].height >= ledger[b].height

\* As many transactions came after b as the node lists.
PushedOut(b) == b + ScanLimit <= Len(ledger)

\* A burn gets a row and is taken to its end by the polls and the retries. Only
\* a restart, another burn of the sender that moves the cursor to its height, or
\* traffic of the bridge that moves it out of the list keeps one from it; a
\* failed request is made good by the next call.
BurnsSettle ==
  \A b \in BurnIds :
    IsBurn(b) ~> crashes > 0 \/ PassedBy(b) \/ PushedOut(b) \/ unlocks[b] \in Settled

\* Disagreement: on a match the monitor calls the relay (monitor.cjs). Of two
\* burns of a user between two polls, or in one block, one gets no row.
EveryBurnRelayed ==
  \A b \in BurnIds : IsBurn(b) ~> crashes > 0 \/ relays[b] > 0
=============================================================================
