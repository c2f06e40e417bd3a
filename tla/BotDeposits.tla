---------------------------- MODULE BotDeposits ----------------------------
(***************************************************************************)
(* The Telegram bot's path from Solana to DecentralChain: pollSolanaUser   *)
(* scans a custodial wallet from a persistent cursor (bridge/monitor.cjs), *)
(* relaySolToDcc asks for the mint, with retries, and waits for it         *)
(* (bridge/relay.cjs); both write the rows of store.cjs. Node runs a       *)
(* handler up to its next await: an action is the code between two awaits. *)
(*                                                                         *)
(* The ledger holds the transactions that name the address of a custodial  *)
(* wallet, which are those the node lists. The n-th one is in slot n, so   *)
(* that n is its signature, its slot and its row. It brings the wallet     *)
(* tokens the monitor takes up, or none: what the user or anybody else     *)
(* does with the address, a failed transaction, an unknown token, SOL      *)
(* below the dust limit.                                                   *)
(*                                                                         *)
(* Operators commented "Variant: ..." are deviations from the code that    *)
(* the model checker refutes in place of the definition they precede; no   *)
(* specification uses them.                                                *)
(***************************************************************************)
EXTENDS Integers, Sequences, FiniteSets

CONSTANTS
  Users, Tokens, NativeSol,
  Polls,                     \* calls of pollSolanaUser that may overlap
  ScanLimit,                 \* transactions the node lists per request
  MAX_RETRIES,
  Configurations,            \* useConsensus and dccValidatorSeed, as set or not
  MaxDeposits,               \* bound: length of the ledger
  MaxFaults,                 \* bound: requests of a scan that fail
  MaxCrashes                 \* bound: restarts of the bot

ASSUME BotDepositsAssumption ==
  /\ NativeSol \in Tokens
  /\ {MaxDeposits, MaxFaults, MaxCrashes} \subseteq Nat
  /\ {ScanLimit, MAX_RETRIES} \subseteq Nat \ {0}
  /\ Configurations \subseteq [useConsensus: BOOLEAN, dccValidatorSeed: BOOLEAN]

VARIABLES
  config,                    \* read from the environment when the process starts
  deposits,                  \* transactions of the wallets, oldest first
  utx, onchain,              \* mint invocations waiting and included
  processed,                 \* transfer ids the controller has accepted
  transfers,                 \* the row of each signature
  solSlotMap,                \* wallet -> slot, with its copy in scan_cursors
  poll, relay,               \* calls of pollSolanaUser and relaySolToDcc
  faults, crashes,           \* counters for the bounds
  mints, relays              \* history: executed mints, relays started

chains == <<deposits, utx, onchain, processed, mints>>
vars == <<config, chains, transfers, solSlotMap, poll, relay, faults, crashes, relays>>

Sigs == 1..MaxDeposits
Attempts == 1..MAX_RETRIES

\* A row that does not exist is "none".
Settled == {"complete", "pending_confirmation", "failed"}
Statuses == {"none", "pending", "sol_confirmed", "dcc_minted"} \cup Settled
Row == [status: Statuses, token: Tokens]

Transfer == [sig: Sigs, token: Tokens]
Idle == [pc |-> "idle"]
Poll == {Idle} \cup
  [pc: {"spl", "sol"}, user: Users, since: 0..MaxDeposits] \cup
  [pc: {"list_spl", "list_sol"}, user: Users, since: 0..MaxDeposits, todo: SUBSET Transfer] \cup
  [pc: {"notify_spl", "notify_sol"}, user: Users, since: 0..MaxDeposits,
   now: Sigs, todo: SUBSET Transfer]
Relay == {Idle} \cup [pc: {"calling", "confirming"}, attempt: Attempts]

Larger(m, n) == IF m < n THEN n ELSE m

-----------------------------------------------------------------------------
(* The chains. *)

\* Variant: the id is drawn per attempt, as generateTransferId falls back to.
transferIdDrawn(s, n) == s + n * MaxDeposits

\* sha256 of the signature: the same for every attempt.
transferId(s, n) == s

\* A transaction with the wallet of u, which raises none, one or several of its
\* balances.
Transact(u, carried) ==
  /\ Len(deposits) < MaxDeposits
  /\ deposits' = Append(deposits, [user |-> u, tokens |-> carried])
  /\ UNCHANGED <<config, utx, onchain, processed, mints, transfers, solSlotMap, poll, relay, faults, crashes, relays>>

\* An invocation is included, executed or as a failed one: the controller
\* executes an id once (isProcessed), and may refuse it for its own reasons.
\* One that the node drops is one that waits forever.
Mine(x) ==
  LET s == x[1]  id == transferId(s, x[2]) IN
  /\ x \in utx
  /\ utx' = utx \ {x}
  /\ onchain' = onchain \cup {x}
  /\ \/ /\ id \notin processed
        /\ processed' = processed \cup {id}
        /\ mints' = [mints EXCEPT ![s] = Append(@, transfers[s].token)]
     \/ UNCHANGED <<processed, mints>>
  /\ UNCHANGED <<config, deposits, transfers, solSlotMap, poll, relay, faults, crashes, relays>>

-----------------------------------------------------------------------------
(* pollSolanaUser: SPL transfers, then native ones, newest first. *)

\* The list a node answers with: the newest ScanLimit transactions of the wallet,
\* whatever they are. What is no deposit is passed over afterwards.
Recent(u) ==
  {s \in 1..Len(deposits) :
     /\ deposits[s].user = u
     /\ Cardinality({r \in s + 1 .. Len(deposits) : deposits[r].user = u}) < ScanLimit}

\* What a scan lists of the transactions it could read.
Listed(kind, readable) ==
  {t \in [sig: readable, token: Tokens] :
     /\ t.token \in deposits[t.sig].tokens
     /\ (t.token = NativeSol) = (kind = "sol")}

\* Variant: the table has no unique index.
IsAlwaysNew(rows, s) == TRUE

\* recordDeposit inserts a signature once: it is the unique key of the table.
IsNew(rows, s) == rows[s].status = "none"

\* The rest of a list, up to the next new transfer, which gets a row and an
\* announcement to wait for; at its end the native scan or the end of the call.
Continue(p, kind, q, todo, rows) ==
  LET new == {t \in todo : IsNew(rows, t.sig)} IN
  \/ /\ new = {}
     /\ transfers' = rows
     /\ poll' = [poll EXCEPT ![p] =
          IF kind = "spl" THEN [pc |-> "sol", user |-> q.user, since |-> q.since] ELSE Idle]
  \/ \E t \in new :
       /\ \A r \in new : r.sig <= t.sig
       /\ transfers' = [rows EXCEPT ![t.sig] = [status |-> "pending", token |-> t.token]]
       /\ poll' = [poll EXCEPT ![p] =
            [pc |-> IF kind = "spl" THEN "notify_spl" ELSE "notify_sol",
             user |-> q.user, since |-> q.since, now |-> t.sig,
             todo |-> {r \in todo : r.sig <= t.sig} \ {t}]]

\* The timer of pollSolana does not wait for the previous call.
pollSolanaUser(p, u) ==
  /\ poll[p] = Idle
  /\ poll' = [poll EXCEPT ![p] = [pc |-> "spl", user |-> u, since |-> solSlotMap[u]]]
  /\ UNCHANGED <<config, chains, transfers, solSlotMap, relay, faults, crashes, relays>>

\* A scan lists what is past the cursor; a transaction whose details cannot be
\* read is skipped. When the list itself fails the call ends. Reading the
\* details takes time: the ledger may have grown when the list is gone through.
scanIncoming(p) ==
  LET q == poll[p]
      past == {s \in Recent(q.user) : s > q.since}
  IN
  /\ q.pc \in {"spl", "sol"}
  /\ \/ \E unreadable \in SUBSET past :
          /\ faults + Cardinality(unreadable) <= MaxFaults
          /\ faults' = faults + Cardinality(unreadable)
          /\ poll' = [poll EXCEPT ![p] =
               [pc |-> IF q.pc = "spl" THEN "list_spl" ELSE "list_sol", user |-> q.user,
                since |-> q.since, todo |-> Listed(q.pc, past \ unreadable)]]
     \/ /\ faults < MaxFaults
        /\ faults' = faults + 1
        /\ poll' = [poll EXCEPT ![p] = Idle]
  /\ UNCHANGED <<config, chains, transfers, solSlotMap, relay, crashes, relays>>

\* The two kinds of transfers have a list and a loop each.
Kind(q) == IF q.pc \in {"list_spl", "notify_spl"} THEN "spl" ELSE "sol"

\* All details are read: the loop runs up to its first announcement.
Scanned(p) ==
  LET q == poll[p] IN
  /\ q.pc \in {"list_spl", "list_sol"}
  /\ Continue(p, Kind(q), q, q.todo, transfers)
  /\ UNCHANGED <<config, chains, solSlotMap, relay, faults, crashes, relays>>

\* Variant: the cursor is the next slot to scan.
NextCursorNext(kind, cursor, s) == s + 1

\* An SPL transfer sets the cursor, a native one only raises it.
NextCursor(kind, cursor, s) == IF kind = "spl" THEN s ELSE Larger(cursor, s)

\* A relay needs the validators' consensus or a key of its own.
CanRelay == config.useConsensus \/ config.dccValidatorSeed

\* The announcement is out: the relay starts and runs up to its request, or is
\* refused at once and only logged, and the row stays pending. Either way the
\* cursor moves and the list goes on.
Announced(p) ==
  LET q == poll[p] IN
  /\ q.pc \in {"notify_spl", "notify_sol"}
  /\ solSlotMap' = [solSlotMap EXCEPT ![q.user] = NextCursor(Kind(q), @, q.now)]
  /\ \/ /\ CanRelay
        /\ relay' = [relay EXCEPT ![q.now] = [pc |-> "calling", attempt |-> 1]]
        /\ relays' = [relays EXCEPT ![q.now] = @ + 1]
        /\ Continue(p, Kind(q), q, q.todo, [transfers EXCEPT ![q.now].status = "sol_confirmed"])
     \/ /\ ~ CanRelay
        /\ UNCHANGED <<relay, relays>>
        /\ Continue(p, Kind(q), q, q.todo, transfers)
  /\ UNCHANGED <<config, chains, faults, crashes>>

-----------------------------------------------------------------------------
(* relaySolToDcc. *)

MoreAttempts(r) == r.attempt < MAX_RETRIES

\* Variant: what was thrown last is not written to the row.
RetryThenDrop(s) ==
  /\ relay' = [relay EXCEPT ![s] =
       IF MoreAttempts(@) THEN [@ EXCEPT !.attempt = @ + 1] ELSE Idle]
  /\ UNCHANGED transfers

\* The end of an attempt of withRetry: another one, or the row is failed.
Retry(s) ==
  \/ /\ MoreAttempts(relay[s])
     /\ relay' = [relay EXCEPT ![s].attempt = @ + 1]
     /\ UNCHANGED transfers
  \/ /\ ~ MoreAttempts(relay[s])
     /\ transfers' = [transfers EXCEPT ![s].status = "failed"]
     /\ relay' = [relay EXCEPT ![s] = Idle]

\* The request of validatorMintToken or consensusMint returns. An invocation
\* may have reached the node although the caller sees an error. The
\* validators' answer usually holds no transaction id to wait for.
mintCall(s) ==
  LET x == <<s, relay[s].attempt>> IN
  /\ relay[s].pc = "calling"
  /\ \/ /\ utx' = utx \cup {x}
        /\ \/ /\ transfers' = [transfers EXCEPT ![s].status = "dcc_minted"]
              /\ relay' = [relay EXCEPT ![s].pc = "confirming"]
           \/ /\ config.useConsensus
              /\ transfers' = [transfers EXCEPT ![s].status = "pending_confirmation"]
              /\ relay' = [relay EXCEPT ![s] = Idle]
     \/ utx' \in {utx, utx \cup {x}} /\ Retry(s)
  /\ UNCHANGED <<config, deposits, onchain, processed, mints, solSlotMap, poll, faults, crashes, relays>>

\* waitForTx finds the invocation on the chain, or gives up after 30 requests.
waitForTx(s) ==
  /\ relay[s].pc = "confirming"
  /\ \/ /\ <<s, relay[s].attempt>> \in onchain
        /\ transfers' = [transfers EXCEPT ![s].status = "complete"]
     \/ transfers' = [transfers EXCEPT ![s].status = "pending_confirmation"]
  /\ relay' = [relay EXCEPT ![s] = Idle]
  /\ UNCHANGED <<config, chains, solSlotMap, poll, faults, crashes, relays>>

-----------------------------------------------------------------------------
(* The process. *)

\* The rows and the cursors survive (loadCursors); calls and relays do not, and
\* a request that was under way may still arrive.
Restart ==
  /\ crashes < MaxCrashes
  /\ crashes' = crashes + 1
  /\ poll' = [p \in Polls |-> Idle]
  /\ relay' = [s \in Sigs |-> Idle]
  /\ \E sent \in SUBSET {s \in Sigs : relay[s].pc = "calling"} :
       utx' = utx \cup {<<s, relay[s].attempt>> : s \in sent}
  /\ UNCHANGED <<config, deposits, onchain, processed, mints, transfers, solSlotMap, faults, relays>>

Init ==
  /\ config \in Configurations
  /\ deposits = <<>>
  /\ utx = {} /\ onchain = {} /\ processed = {}
  /\ transfers = [s \in Sigs |-> [status |-> "none", token |-> NativeSol]]
  /\ solSlotMap = [u \in Users |-> 0]
  /\ poll = [p \in Polls |-> Idle]
  /\ relay = [s \in Sigs |-> Idle]
  /\ faults = 0 /\ crashes = 0
  /\ mints = [s \in Sigs |-> <<>>] /\ relays = [s \in Sigs |-> 0]

Next ==
  \/ \E u \in Users, carried \in SUBSET Tokens : Transact(u, carried)
  \/ \E x \in utx : Mine(x)
  \/ \E p \in Polls, u \in Users : pollSolanaUser(p, u)
  \/ \E p \in Polls : scanIncoming(p) \/ Scanned(p) \/ Announced(p)
  \/ \E s \in Sigs : mintCall(s) \/ waitForTx(s)
  \/ Restart

Spec == Init /\ [][Next]_vars

-----------------------------------------------------------------------------
(* Properties. *)

\* All variables have the types the code gives them.
TypeOK ==
  /\ config \in [useConsensus: BOOLEAN, dccValidatorSeed: BOOLEAN]
  /\ deposits \in Seq([user: Users, tokens: SUBSET Tokens]) /\ Len(deposits) <= MaxDeposits
  /\ utx \subseteq Sigs \X Attempts /\ onchain \subseteq Sigs \X Attempts
  /\ processed \subseteq Sigs
  /\ transfers \in [Sigs -> Row] /\ solSlotMap \in [Users -> 0..MaxDeposits]
  /\ poll \in [Polls -> Poll] /\ relay \in [Sigs -> Relay]
  /\ faults \in 0..MaxFaults /\ crashes \in 0..MaxCrashes
  /\ mints \in [Sigs -> Seq(Tokens)] /\ relays \in [Sigs -> Nat]

\* Overlapping polls and restarts relay a deposit at most once: the insert of
\* recordDeposit is the only claim on a signature (store.cjs).
RelayedOnce == \A s \in Sigs : relays[s] <= 1

\* Whatever was retried, lost or repeated, a deposit is minted at most once and
\* in the token of its row, and only a deposit that was relayed: the transfer
\* id is the hash of the signature on every attempt.
MintedOnce ==
  \A s \in Sigs :
    /\ Len(mints[s]) <= relays[s] /\ Len(mints[s]) <= 1
    /\ \A n \in DOMAIN mints[s] :
         mints[s][n] = transfers[s].token /\ mints[s][n] \in deposits[s].tokens

\* A row says complete only when an invocation for it is on the chain, also
\* when attempts overlap: a timeout is not falsely complete (relay.cjs).
CompleteIsOnChain ==
  \A s \in Sigs : transfers[s].status = "complete" => \E n \in Attempts : <<s, n>> \in onchain

\* A row that is not settled has somebody driving it, a poll that announces it
\* or a relay, unless the bot was restarted: no step leaves a row behind. A bot
\* without consensus and without a validator key is the exception: its rows stay
\* pending, all of them and from the announcement on, and it relays nothing.
NobodyAbandonsARow ==
  crashes = 0 =>
    \A s \in Sigs :
      \/ transfers[s].status \in Settled \cup {"none"}
      \/ relay[s] # Idle
      \/ \E p \in Polls : poll[p].pc \in {"notify_spl", "notify_sol"} /\ poll[p].now = s
      \/ ~ CanRelay /\ transfers[s].status = "pending" /\ relays[s] = 0

\* A later native deposit moves the cursor past an SPL one that arrived after
\* the SPL scan of the same call.
Overtaken(s) ==
  \E r \in s + 1 .. Len(deposits) :
    /\ deposits[r].user = deposits[s].user
    /\ NativeSol \in deposits[r].tokens /\ NativeSol \notin deposits[s].tokens

\* A call that has yet to list transaction s, or is going through a list with it.
Sees(q, s) ==
  \/ q.pc \in {"list_spl", "list_sol", "notify_spl", "notify_sol"} /\ \E t \in q.todo : t.sig = s
  \/ /\ q.pc \in {"spl", "sol", "list_spl", "notify_spl"} /\ q.since < s
     /\ q.pc = "spl" \/ NativeSol \in deposits[s].tokens

\* As many transactions of the wallet came after s as the node lists.
PushedOut(s) == s \notin Recent(deposits[s].user)

\* The cursor never leaves a deposit behind that the node still lists: one at or
\* below it has a row, or a running call will give it one. Only a restart, a
\* failed request or being overtaken comes in between; then, and when it has left
\* the list before it got a row, nothing looks for the deposit again.
NonePassedOver ==
  \A s \in 1..Len(deposits) :
    (/\ deposits[s].tokens # {} /\ s <= solSlotMap[deposits[s].user]
     /\ transfers[s].status = "none") =>
      \/ faults > 0 \/ crashes > 0 \/ Overtaken(s) \/ PushedOut(s)
      \/ \E p \in Polls : Sees(poll[p], s) /\ poll[p].user = deposits[s].user
=============================================================================
