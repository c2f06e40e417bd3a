----------------------------- MODULE ServiceProofs -----------------------------
(***************************************************************************)
(* Proofs about the services around the bridge: what a supply check of the *)
(* monitor that raises nothing has established; the API's status routes;   *)
(* the web page and the routes it posts to; the bot's conversation and its *)
(* rate limiter. They have no state in common. Each holds for any number   *)
(* of checks, transfers, requests, clients, posts, handlers and updates.   *)
(***************************************************************************)
EXTENDS Monitor, TransferStatus, BridgePage, Conversation, RateLimiter,
        SumProofs, FiniteSetTheorems, TLAPS

-----------------------------------------------------------------------------
(* The monitor.                                                            *)

\* The alerts of a step are among the severities, so counting those that were
\* lost yields a number and the bound on failures stays a number.
LEMMA DispatchType ==
  ASSUME MonitorTypeOK, NEW n \in Nat, NEW S \in SUBSET Severities, Dispatch(S, n)
  PROVE  failures' \in Nat /\ alarmed' \in BOOLEAN
PROOF
  <1>1. PICK lost \in SUBSET S :
          /\ Fails(n + Cardinality(lost))
          /\ alarmed' = (alarmed \/ \E s \in S \ lost : s # "warning" /\ ChannelsFor(s) # {})
    BY DEF Dispatch
  <1>2. IsFiniteSet(Severities)
    <2>1. Severities = ({"warning"} \cup {"critical"}) \cup {"emergency"}
      BY DEF Severities
    <2> QED BY <2>1, FS_Singleton, FS_Union
  <1>3. Cardinality(lost) \in Nat
    BY <1>1, <1>2, FS_Subset, FS_CardinalityType
  <1>4. failures' \in Nat
    BY <1>1, <1>3 DEF Fails, MonitorTypeOK
  <1>5. alarmed' \in BOOLEAN
    BY <1>1
  <1> QED BY <1>4, <1>5

LEMMA RaiseType ==
  ASSUME MonitorTypeOK, NEW t \in Tasks, NEW n \in Nat, NEW S \in SUBSET Severities,
         NEW autoPause \in BOOLEAN, Raise(t, S, autoPause, n)
  PROVE  /\ failures' \in Nat /\ alarmed' \in BOOLEAN
         /\ halting' \in [Tasks -> {"no", "solana", "dcc"}]
PROOF
  <1>1. Dispatch(S, n)
    BY DEF Raise
  <1>2. failures' \in Nat /\ alarmed' \in BOOLEAN
    BY <1>1, DispatchType
  <1>3. halting' \in [Tasks -> {"no", "solana", "dcc"}]
    BY DEF Raise, MonitorTypeOK
  <1> QED BY <1>2, <1>3

LEMMA PauseType ==
  ASSUME MonitorTypeOK, NEW t \in Tasks, PauseSolana(t) \/ PauseDcc(t)
  PROVE  MonitorTypeOK'
PROOF
  <1>1. paused' \in BOOLEAN
    <2>1. CASE paused' = TRUE
      BY <2>1, Zenon
    <2>2. CASE UNCHANGED paused
      BY <2>2 DEF MonitorTypeOK
    <2> QED BY <2>1, <2>2 DEF PauseSolana, PauseDcc, chain_vars
  <1>2. failures' \in Nat
    BY DEF PauseSolana, PauseDcc, Fails, MonitorTypeOK
  <1>3. halting' \in [Tasks -> {"no", "solana", "dcc"}]
    BY DEF PauseSolana, PauseDcc, MonitorTypeOK
  <1>4. /\ UNCHANGED <<vault, supply, total_minted, deposits, due, owed, resumes>>
        /\ UNCHANGED <<up, apart, check, poll, alarmed>>
    BY DEF PauseSolana, PauseDcc, chain_vars, token_vars, world_vars
  <1> QED BY <1>1, <1>2, <1>3, <1>4 DEF MonitorTypeOK

\* A reading leaves a well-formed check.
LEMMA ReadVaultType ==
  ASSUME MonitorTypeOK, NEW c \in Checks, ReadVault(c)
  PROVE  check' \in [Checks -> Check] /\ failures' \in Nat
PROOF
  <1> DEFINE r == [step |-> "supply", lockedSol |-> vault, wsolSupply |-> 0, then |-> total_minted]
  <1>1. r \in Check
    BY DEF MonitorTypeOK, Check
  <1>2. check' = [check EXCEPT ![c] = r] \/ UNCHANGED check
    BY DEF ReadVault
  <1>3. failures' \in Nat
    BY DEF ReadVault, Fails, MonitorTypeOK
  <1> HIDE DEF r
  <1> QED BY <1>1, <1>2, <1>3 DEF MonitorTypeOK

LEMMA ReadSupplyType ==
  ASSUME MonitorTypeOK, NEW c \in Checks, ReadSupply(c)
  PROVE  check' \in [Checks -> Check] /\ failures' \in Nat
PROOF
  <1> DEFINE r(n, then) == [step |-> "config", lockedSol |-> check[c].lockedSol,
                            wsolSupply |-> n, then |-> then]
  <1>1. check[c] \in Check
    BY DEF MonitorTypeOK
  <1>2. r(total_minted, check[c].then) \in Check /\ r(0, 0) \in Check
    BY <1>1 DEF MonitorTypeOK, Check
  <1>3. \/ check' = [check EXCEPT ![c] = r(total_minted, check[c].then)]
        \/ check' = [check EXCEPT ![c] = r(0, 0)]
    BY DEF ReadSupply, HasSupply
  <1>4. failures' \in Nat
    BY DEF ReadSupply, Fails, MonitorTypeOK
  <1> HIDE DEF r
  <1> QED BY <1>2, <1>3, <1>4 DEF MonitorTypeOK

\* The monitor's own tasks.
LEMMA SupplyTaskType ==
  ASSUME MonitorTypeOK, NEW c \in Checks, SupplyTask(c)
  PROVE  MonitorTypeOK'
PROOF
  <1> USE ConstantsAssumption
  <1>t. c \in Tasks
    BY DEF Tasks
  <1>1. CASE ReadVault(c)
    <2>1. check' \in [Checks -> Check] /\ failures' \in Nat
      BY <1>1, ReadVaultType
    <2>2. UNCHANGED <<vault, supply, total_minted, deposits, due, owed, paused, resumes>>
      BY <1>1 DEF ReadVault, chain_vars, token_vars
    <2> QED BY <1>1, <2>1, <2>2 DEF ReadVault, MonitorTypeOK, world_vars
  <1>2. CASE ReadSupply(c)
    <2>1. check' \in [Checks -> Check] /\ failures' \in Nat
      BY <1>2, ReadSupplyType
    <2>2. UNCHANGED <<vault, supply, total_minted, deposits, due, owed, paused, resumes>>
      BY <1>2 DEF ReadSupply, chain_vars, token_vars
    <2> QED BY <1>2, <2>1, <2>2 DEF ReadSupply, MonitorTypeOK, world_vars
  <1>3. CASE ReadConfig(c)
    <2>1. check' \in [Checks -> Check]
      BY <1>3 DEF ReadConfig, MonitorTypeOK, Check, Idle
    <2>2. /\ failures' \in Nat /\ alarmed' \in BOOLEAN
          /\ halting' \in [Tasks -> {"no", "solana", "dcc"}]
      <3>1. CASE Compare(c)
        <4>1. CASE Raise(c, {"emergency"}, TRUE, 0)
          BY <4>1, <1>t, RaiseType DEF Severities
        <4>2. CASE Raise(c, IF Drifts(c) THEN {"warning"} ELSE {}, FALSE, 0)
          BY <4>2, <1>t, RaiseType DEF Severities
        <4> QED BY <3>1, <4>1, <4>2 DEF Compare
      <3>2. CASE Fails(1) /\ UNCHANGED <<halting, alarmed>>
        BY <3>2 DEF Fails, MonitorTypeOK
      <3> QED BY <1>3, <3>1, <3>2 DEF ReadConfig
    <2> QED BY <1>3, <2>1, <2>2 DEF ReadConfig, MonitorTypeOK, chain_vars, token_vars, world_vars
  <1>4. CASE PauseSolana(c) \/ PauseDcc(c)
    BY <1>4, <1>t, PauseType
  <1> QED BY <1>1, <1>2, <1>3, <1>4 DEF SupplyTask

LEMMA HealthTaskType ==
  ASSUME MonitorTypeOK, ValidatorTask \/ ChainTask
  PROVE  MonitorTypeOK'
PROOF
  <1> USE ConstantsAssumption
  <1>1. CASE PollValidator
    <2> DEFINE e == IF poll.next = 0 THEN 1 ELSE poll.next
               reporting(ok) == poll.active + (IF ok THEN 1 ELSE 0)
               raised(ok) == (IF reporting(ok) < minActiveValidators THEN {"critical"} ELSE {})
                               \cup (IF reporting(ok) < Endpoints THEN {"warning"} ELSE {})
    <2>1. \E ok \in BOOLEAN, n \in 0 .. 1 :
            \/ /\ e < Endpoints /\ poll' = [next |-> e + 1, active |-> reporting(ok)]
               /\ Fails(n) /\ UNCHANGED <<halting, alarmed>>
            \/ /\ poll' = NoPoll
               /\ Raise("validators", raised(ok), reporting(ok) < minActiveValidators, n)
      <3>1. up[e] \in BOOLEAN
        BY DEF MonitorTypeOK, Poll
      <3>2. \E ok \in BOOLEAN, n \in 0 .. 1 :
              \/ /\ e < Endpoints /\ poll' = [next |-> e + 1, active |-> reporting(ok)]
                 /\ Fails(n) /\ UNCHANGED <<halting, alarmed>>
              \/ /\ e = Endpoints /\ poll' = NoPoll
                 /\ Raise("validators", raised(ok), reporting(ok) < minActiveValidators, n)
        <4>1. ASSUME NEW ok \in BOOLEAN, NEW n \in 0 .. 1,
                     \/ /\ e < Endpoints /\ poll' = [next |-> e + 1, active |-> reporting(ok)]
                        /\ Fails(n) /\ UNCHANGED <<halting, alarmed>>
                     \/ /\ e = Endpoints /\ poll' = NoPoll
                        /\ Raise("validators", raised(ok), reporting(ok) < minActiveValidators, n)
              PROVE  \E k \in BOOLEAN, j \in 0 .. 1 :
                       \/ /\ e < Endpoints /\ poll' = [next |-> e + 1, active |-> reporting(k)]
                          /\ Fails(j) /\ UNCHANGED <<halting, alarmed>>
                       \/ /\ e = Endpoints /\ poll' = NoPoll
                          /\ Raise("validators", raised(k), reporting(k) < minActiveValidators, j)
          BY <4>1, Zenon
        <4> QED BY <1>1, <3>1, <4>1, 0 \in 0 .. 1, 1 \in 0 .. 1, FALSE \in BOOLEAN, Zenon
               DEF PollValidator, CompareValidators, TooFew
      <3> QED BY <3>2, Zenon
    <2>2. PICK ok \in BOOLEAN, n \in 0 .. 1 :
            \/ /\ e < Endpoints /\ poll' = [next |-> e + 1, active |-> reporting(ok)]
               /\ Fails(n) /\ UNCHANGED <<halting, alarmed>>
            \/ /\ poll' = NoPoll
               /\ Raise("validators", raised(ok), reporting(ok) < minActiveValidators, n)
      BY <2>1
    <2>3. poll' \in Poll
      BY <2>2 DEF MonitorTypeOK, Poll, NoPoll
    <2>4. /\ failures' \in Nat /\ alarmed' \in BOOLEAN
          /\ halting' \in [Tasks -> {"no", "solana", "dcc"}]
      <3>1. CASE Fails(n) /\ UNCHANGED <<halting, alarmed>>
        BY <3>1 DEF Fails, MonitorTypeOK
      <3>2. CASE Raise("validators", raised(ok), reporting(ok) < minActiveValidators, n)
        <4>1. raised(ok) \in SUBSET Severities
          BY DEF Severities
        <4>2. "validators" \in Tasks /\ n \in Nat /\ (reporting(ok) < minActiveValidators) \in BOOLEAN
          BY DEF Tasks
        <4> HIDE DEF raised, reporting
        <4> QED BY <3>2, <4>1, <4>2, RaiseType
      <3> QED BY <2>2, <3>1, <3>2
    <2> QED BY <1>1, <2>3, <2>4 DEF PollValidator, MonitorTypeOK, chain_vars, token_vars, world_vars
  <1>2. CASE CheckChains
    <2>1. /\ failures' \in Nat /\ alarmed' \in BOOLEAN
          /\ halting' \in [Tasks -> {"no", "solana", "dcc"}]
      <3>1. CASE Fails(1) /\ UNCHANGED <<halting, alarmed>>
        BY <3>1 DEF Fails, MonitorTypeOK
      <3>2. ASSUME NEW n \in 0 .. 1, NEW slow \in BOOLEAN,
                   Raise("chains", (IF slow THEN {"warning"} ELSE {})
                                     \cup (IF apart \/ n = 1 THEN {"critical"} ELSE {}),
                         apart \/ n = 1, n)
            PROVE  /\ failures' \in Nat /\ alarmed' \in BOOLEAN
                   /\ halting' \in [Tasks -> {"no", "solana", "dcc"}]
        <4>1. "chains" \in Tasks /\ n \in Nat /\ (apart \/ n = 1) \in BOOLEAN
          BY DEF Tasks
        <4>2. ((IF slow THEN {"warning"} ELSE {})
                 \cup (IF apart \/ n = 1 THEN {"critical"} ELSE {})) \in SUBSET Severities
          BY DEF Severities
        <4> QED BY <3>2, <4>1, <4>2, RaiseType
      <3> QED BY <1>2, <3>1, <3>2 DEF CheckChains, CompareChains
    <2> QED BY <1>2, <2>1 DEF CheckChains, MonitorTypeOK, chain_vars, token_vars, world_vars
  <1>3. "validators" \in Tasks /\ "chains" \in Tasks
    BY DEF Tasks
  <1> QED BY <1>1, <1>2, <1>3, PauseType DEF ValidatorTask, ChainTask

LEMMA BridgeType ==
  ASSUME MonitorTypeOK, BridgeNext \/ Change
  PROVE  MonitorTypeOK'
PROOF
  <1> USE ConstantsAssumption
  <1>u. Unit \in Nat
    BY DEF Unit
  <1>1. CASE Deposit
    BY <1>1 DEF Deposit, MonitorTypeOK, world_vars, task_vars
  <1>2. CASE Burn
    BY <1>2, <1>u DEF Burn, MonitorTypeOK, world_vars, task_vars
  <1>3. CASE Unlock
    BY <1>3 DEF Unlock, MonitorTypeOK, world_vars, task_vars
  <1>4. CASE Resume
    <2>1. paused' \in BOOLEAN
      <3>1. paused' = FALSE
        BY <1>4 DEF Resume
      <3> QED BY <3>1, Zenon
    <2>2. resumes' \in Nat
      BY <1>4 DEF Resume, MonitorTypeOK
    <2> QED BY <1>4, <2>1, <2>2 DEF Resume, MonitorTypeOK, token_vars, world_vars, task_vars
  <1>5. ASSUME NEW entry \in {"mint", "mintToken"}, Mint(entry)
        PROVE  MonitorTypeOK'
    BY <1>5, <1>u DEF Mint, MonitorTypeOK, world_vars, task_vars
  <1>6. ASSUME NEW n \in Losses, Loss(n)
        PROVE  MonitorTypeOK'
    BY <1>6 DEF Loss, MonitorTypeOK, token_vars, world_vars, task_vars
  <1>7. CASE Change
    BY <1>7 DEF Change, MonitorTypeOK, chain_vars, token_vars, task_vars
  <1> QED BY <1>1, <1>2, <1>3, <1>4, <1>5, <1>6, <1>7 DEF BridgeNext

\* Every variable of the monitor and of its surroundings keeps its type.
THEOREM MonitorTypeCorrect == MonitorSpec => []MonitorTypeOK
PROOF
  <1>1. MonitorInit => MonitorTypeOK
    <2> SUFFICES ASSUME MonitorInit PROVE MonitorTypeOK
      OBVIOUS
    <2>1. paused \in BOOLEAN /\ apart \in BOOLEAN /\ alarmed \in BOOLEAN
      BY Zenon DEF MonitorInit
    <2>2. up \in [1 .. Endpoints -> BOOLEAN]
      BY Zenon DEF MonitorInit
    <2>3. poll \in Poll
      BY ConstantsAssumption DEF MonitorInit, Poll, NoPoll
    <2>4. check \in [Checks -> Check]
      BY DEF MonitorInit, Check, Idle
    <2> QED BY <2>1, <2>2, <2>3, <2>4 DEF MonitorInit, MonitorTypeOK
  <1>2. MonitorTypeOK /\ [MonitorNext]_monitor_vars => MonitorTypeOK'
    <2> SUFFICES ASSUME MonitorTypeOK, [MonitorNext]_monitor_vars
                 PROVE  MonitorTypeOK'
      OBVIOUS
    <2>1. CASE UNCHANGED monitor_vars
      BY <2>1 DEF monitor_vars, chain_vars, token_vars, world_vars, task_vars, MonitorTypeOK
    <2>2. CASE MonitorNext
      BY <2>2, SupplyTaskType, HealthTaskType, BridgeType DEF MonitorNext
    <2> QED BY <2>1, <2>2
  <1> QED BY <1>1, <1>2, PTL DEF MonitorSpec

-----------------------------------------------------------------------------
\* What a check has read is never ahead of the chain: the counter at the reading
\* of the vault is a lower bound of the counter now, and of the one it read.
ReadingsOrdered ==
  \A c \in Checks :
    /\ check[c].step # "idle" => check[c].then <= total_minted
    /\ check[c].step = "config" => check[c].then <= check[c].wsolSupply

\* The counter never falls, whoever acts.
LEMMA CounterGrows ==
  ASSUME MonitorTypeOK, [MonitorNext]_monitor_vars
  PROVE  total_minted <= total_minted'
PROOF
  <1> USE ConstantsAssumption
  <1>u. Unit \in Nat
    BY DEF Unit
  <1>1. ASSUME NEW entry \in {"mint", "mintToken"}, Mint(entry)
        PROVE  total_minted <= total_minted'
    BY <1>1, <1>u DEF Mint, MonitorTypeOK
  <1>2. CASE UNCHANGED total_minted
    BY <1>2 DEF MonitorTypeOK
  <1>3. ~ (\E entry \in {"mint", "mintToken"} : Mint(entry)) => UNCHANGED total_minted
    BY DEF MonitorNext, monitor_vars, BridgeNext, Deposit, Burn, Unlock, Resume, Loss, Change,
       SupplyTask, ReadVault, ReadSupply, ReadConfig, PauseSolana, PauseDcc,
       ValidatorTask, PollValidator, ChainTask, CheckChains,
       chain_vars, token_vars, world_vars, task_vars
  <1> QED BY <1>1, <1>2, <1>3

LEMMA ReadingsStep ==
  ASSUME MonitorTypeOK, MonitorTypeOK', ReadingsOrdered, [MonitorNext]_monitor_vars
  PROVE  ReadingsOrdered'
PROOF
  <1>g. total_minted <= total_minted' /\ total_minted \in Nat /\ total_minted' \in Nat
    BY CounterGrows DEF MonitorTypeOK
  <1>1. CASE UNCHANGED check
    BY <1>1, <1>g DEF ReadingsOrdered, MonitorTypeOK, Check
  <1>2. ASSUME NEW c \in Checks, ReadVault(c)
        PROVE  ReadingsOrdered'
    BY <1>2, <1>g DEF ReadVault, ReadingsOrdered, MonitorTypeOK, Check, Idle, chain_vars, token_vars
  <1>3. ASSUME NEW c \in Checks, ReadSupply(c)
        PROVE  ReadingsOrdered'
    <2>1. /\ check[c].step = "supply" /\ check[c].then \in Nat
          /\ check[c].then <= total_minted /\ UNCHANGED total_minted
      BY <1>3 DEF ReadSupply, ReadingsOrdered, MonitorTypeOK, Check, chain_vars, token_vars
    <2>2. \/ HasSupply(c, total_minted, check[c].then)
          \/ HasSupply(c, 0, 0)
      BY <1>3 DEF ReadSupply
    <2>3. \A d \in Checks : d # c => check'[d] = check[d]
      BY <2>2 DEF HasSupply, MonitorTypeOK
    <2>4. /\ check'[c].then <= total_minted
          /\ check'[c].then <= check'[c].wsolSupply
      BY <2>1, <2>2, <1>g DEF HasSupply, MonitorTypeOK
    <2> QED BY <2>1, <2>3, <2>4 DEF ReadingsOrdered
  <1>4. ASSUME NEW c \in Checks, ReadConfig(c)
        PROVE  ReadingsOrdered'
    BY <1>4, <1>g DEF ReadConfig, ReadingsOrdered, MonitorTypeOK, Check, Idle, chain_vars, token_vars
  <1>5. \/ UNCHANGED check
        \/ \E c \in Checks : ReadVault(c) \/ ReadSupply(c) \/ ReadConfig(c)
    BY DEF MonitorNext, monitor_vars, BridgeNext, Deposit, Mint, Burn, Unlock, Resume, Loss, Change,
       SupplyTask, PauseSolana, PauseDcc, ValidatorTask, PollValidator, ChainTask, CheckChains,
       chain_vars, token_vars, world_vars, task_vars
  <1> QED BY <1>1, <1>2, <1>3, <1>4, <1>5

\* A supply check that has its readings and raises no emergency proves that the
\* vault, when it was read, covered the counter of that moment unit by lamport.
THEOREM QuietChecksCover == MonitorSpec => []QuietMeansCovered
PROOF
  <1>1. MonitorInit => ReadingsOrdered
    BY DEF MonitorInit, Idle, ReadingsOrdered
  <1>2. MonitorTypeOK /\ MonitorTypeOK' /\ ReadingsOrdered /\ [MonitorNext]_monitor_vars => ReadingsOrdered'
    BY ReadingsStep
  <1>3. MonitorTypeOK /\ ReadingsOrdered => QuietMeansCovered
    BY DEF MonitorTypeOK, Check, ReadingsOrdered, QuietMeansCovered, Exceeds
  <1>4. MonitorSpec => []MonitorTypeOK
    BY MonitorTypeCorrect
  <1> QED BY <1>1, <1>2, <1>3, <1>4, PTL DEF MonitorSpec

-----------------------------------------------------------------------------
(* The status routes.                                                      *)

\* What is known of a request between its reads: an id is of one kind, so that a
\* read that finds nothing leaves the other kind.
ReadSoFar ==
  /\ processed \cap burned = {}
  /\ \A q \in Lookups : LET l == lookup[q] IN
       /\ l.step # "idle" =>
            /\ l.id \in TransferIds
            /\ l.status = "completed" =>
                 l.row = "completed" \/ l.id \in processed \cup burned
            /\ l.before => l.id \in processed \cup burned
       /\ l.step = "burn" /\ l.before /\ ~ l.unread =>
            l.status = "completed" \/ l.id \in burned
       /\ l.step = "answered" /\ l.before /\ ~ l.unread => l.status = "completed"

\* A response is subscribed to its own transfer only, and not once it was ended.
Subscribed ==
  /\ \A c \in Clients, i \in TransferIds :
       c \in sseClients[i] => stream[c].id = i /\ stream[c].state \in {"open", "left"}
  /\ \A c \in Clients :
       LET s == stream[c] IN
       /\ s.state # "free" => s.id \in TransferIds
       /\ s.state = "open" =>
            /\ c \in sseClients[s.id]
            /\ s.told = table[s.id] \/ (s.told = NoRow /\ table[s.id] = "pending_confirmation")
       /\ s.state = "ended" => s.told \in Final

LEMMA StatusTypes == StatusTypeOK /\ [StatusNext]_status_vars => StatusTypeOK'
PROOF
  <1> SUFFICES ASSUME StatusTypeOK, [StatusNext]_status_vars PROVE StatusTypeOK'
    OBVIOUS
  <1> USE DEF StatusTypeOK
  <1>1. ASSUME NEW i \in TransferIds, EntryWritten(i) PROVE StatusTypeOK'
    BY <1>1 DEF EntryWritten
  <1>2. ASSUME NEW i \in TransferIds, InsertTransfer(i) PROVE StatusTypeOK'
    BY <1>2 DEF InsertTransfer, ValidStatuses, entry_vars
  <1>3. ASSUME NEW i \in TransferIds, NEW q \in Lookups, GetTransfer(q, i) PROVE StatusTypeOK'
    <2>1. table[i] \in ValidStatuses \cup {NoRow}
      OBVIOUS
    <2>2. [step |-> IF table[i] = "completed" THEN "answered" ELSE "processed", id |-> i,
        status |-> IF table[i] = NoRow THEN "pending_confirmation" ELSE table[i],
        row |-> table[i], before |-> i \in processed \cup burned, unread |-> FALSE] \in Lookup
      BY <2>1 DEF Lookup, ValidStatuses
    <2>3. QED BY <1>3, <2>2 DEF GetTransfer, entry_vars
  <1>4. ASSUME NEW q \in Lookups, isTransferProcessed(q) \/ getBurnRecord(q) PROVE StatusTypeOK'
    <2>1. ASSUME NEW r \in BOOLEAN, NEW then \in {"burn", "answered"}, NEW S,
            lookup' = [lookup EXCEPT ![q] = [lookup[q] EXCEPT !.step = then,
              !.status = IF r /\ lookup[q].id \in S THEN "completed" ELSE lookup[q].status,
              !.unread = lookup[q].unread \/ ~ r]]
          PROVE lookup' \in [Lookups -> Lookup]
      <3> DEFINE status == IF r /\ lookup[q].id \in S THEN "completed" ELSE lookup[q].status
                 unread == lookup[q].unread \/ ~ r
      <3>1. unread \in BOOLEAN
        OBVIOUS
      <3>2. status \in ValidStatuses \cup {NoRow}
        BY DEF Lookup, ValidStatuses, Final
      <3> DEFINE new == [lookup[q] EXCEPT !.step = then, !.status = status, !.unread = unread]
      <3>3. new \in Lookup
        <4> HIDE DEF status, unread
        <4> QED BY <3>1, <3>2 DEF Lookup
      <3>4. lookup' = [lookup EXCEPT ![q] = new]
        BY <2>1
      <3> HIDE DEF new
      <3> QED BY <3>3, <3>4
    <2>2. lookup' \in [Lookups -> Lookup]
      <3>1. CASE isTransferProcessed(q)
        <4>1. PICK r \in BOOLEAN :
            lookup' = [lookup EXCEPT ![q] = [lookup[q] EXCEPT !.step = "burn",
              !.status = IF r /\ lookup[q].id \in processed THEN "completed" ELSE lookup[q].status,
              !.unread = lookup[q].unread \/ ~ r]]
          BY <3>1, Zenon DEF isTransferProcessed, Reads
        <4> QED BY <4>1, <2>1, Zenon
      <3>2. CASE getBurnRecord(q)
        <4>1. PICK r \in BOOLEAN :
            lookup' = [lookup EXCEPT ![q] = [lookup[q] EXCEPT !.step = "answered",
              !.status = IF r /\ lookup[q].id \in burned THEN "completed" ELSE lookup[q].status,
              !.unread = lookup[q].unread \/ ~ r]]
          BY <3>2, Zenon DEF getBurnRecord, Reads
        <4> QED BY <4>1, <2>1, Zenon
      <3> QED BY <1>4, <3>1, <3>2
    <2> QED BY <1>4, <2>2 DEF isTransferProcessed, getBurnRecord, entry_vars
  <1>5. ASSUME NEW c \in Clients, NEW i \in TransferIds, Subscribe(c, i) PROVE StatusTypeOK'
    <2>1. [state |-> "open", id |-> i, told |-> table[i]] \in Stream
      BY DEF Stream
    <2> QED BY <1>5, <2>1 DEF Subscribe, entry_vars
  <1>6. ASSUME NEW i \in TransferIds, NEW s \in ValidStatuses, updateTransferStatus(i, s)
        PROVE StatusTypeOK'
    <2>1. stream' \in [Clients -> Stream]
      <3>1. ASSUME NEW c \in Clients
            PROVE  [stream[c] EXCEPT !.told = s,
               !.state = IF s \in Final /\ @ = "open" THEN "ended" ELSE @] \in Stream
        BY DEF Stream
      <3> QED BY <1>6, <3>1 DEF updateTransferStatus, broadcastTransferUpdate
    <2> QED BY <1>6, <2>1 DEF updateTransferStatus, broadcastTransferUpdate, entry_vars
  <1>7. ASSUME NEW c \in Clients, ClientLeaves(c) PROVE StatusTypeOK'
    BY <1>7 DEF ClientLeaves, Stream, entry_vars
  <1>8. ASSUME NEW c \in Clients, OnClose(c) PROVE StatusTypeOK'
    <2>1. NoStream \in Stream
      BY DEF Stream, NoStream
    <2> QED BY <1>8, <2>1 DEF OnClose, entry_vars
  <1>9. CASE UNCHANGED status_vars
    BY <1>9 DEF status_vars, entry_vars
  <1> QED
    BY <1>1, <1>2, <1>3, <1>4, <1>5, <1>6, <1>7, <1>8, <1>9 DEF StatusNext

-----------------------------------------------------------------------------
(* A lookup tells what it read.                                            *)

\* One read: the request keeps what it was asked and what it has found; if the
\* read was answered, it has found the entry.
LEMMA ReadStep ==
  ASSUME StatusTypeOK, NEW q \in Lookups, NEW S, NEW then, Reads(q, S, then)
  PROVE  /\ \A p \in Lookups : p # q => lookup'[p] = lookup[p]
         /\ lookup'[q].step = then
         /\ lookup'[q].id = lookup[q].id /\ lookup'[q].row = lookup[q].row
         /\ lookup'[q].before <=> lookup[q].before
         /\ lookup'[q].status = "completed" => lookup[q].status = "completed" \/ lookup[q].id \in S
         /\ ~ lookup'[q].unread =>
              /\ ~ lookup[q].unread
              /\ lookup[q].id \in S => lookup'[q].status = "completed"
         /\ lookup[q].status = "completed" => lookup'[q].status = "completed"
PROOF
  <1>1. PICK r \in BOOLEAN :
          lookup' = [lookup EXCEPT ![q] = [lookup[q] EXCEPT !.step = then,
            !.status = IF r /\ lookup[q].id \in S THEN "completed" ELSE lookup[q].status,
            !.unread = lookup[q].unread \/ ~ r]]
    BY Zenon DEF Reads
  <1> DEFINE status == IF r /\ lookup[q].id \in S THEN "completed" ELSE lookup[q].status
             unread == lookup[q].unread \/ ~ r
             new == [lookup[q] EXCEPT !.step = then, !.status = status, !.unread = unread]
  <1>2. lookup' = [lookup EXCEPT ![q] = new]
    BY <1>1
  <1>3. /\ new.step = then /\ new.id = lookup[q].id /\ new.row = lookup[q].row
        /\ new.before = lookup[q].before /\ new.status = status /\ new.unread = unread
    <2> HIDE DEF status, unread
    <2> QED BY DEF StatusTypeOK, Lookup
  <1>4. lookup'[q] = new /\ \A p \in Lookups : p # q => lookup'[p] = lookup[p]
    <2> HIDE DEF new
    <2> QED BY <1>2 DEF StatusTypeOK
  <1>5. unread => lookup[q].unread \/ ~ r
    OBVIOUS
  <1>6. ~ unread => ~ lookup[q].unread /\ r
    OBVIOUS
  <1>7. /\ status = "completed" => lookup[q].status = "completed" \/ lookup[q].id \in S
        /\ r /\ lookup[q].id \in S => status = "completed"
        /\ lookup[q].status = "completed" => status = "completed"
    OBVIOUS
  <1> HIDE DEF new, status, unread
  <1> QED BY <1>3, <1>4, <1>6, <1>7, Zenon

LEMMA ReadsKept ==
  StatusTypeOK /\ ReadSoFar /\ [StatusNext]_status_vars => ReadSoFar'
PROOF
  <1> SUFFICES ASSUME StatusTypeOK, ReadSoFar, [StatusNext]_status_vars PROVE ReadSoFar'
    OBVIOUS
  <1>1. ASSUME NEW i \in TransferIds, EntryWritten(i) PROVE ReadSoFar'
    BY <1>1 DEF EntryWritten, ReadSoFar
  <1>2. ASSUME NEW i \in TransferIds, NEW q \in Lookups, GetTransfer(q, i) PROVE ReadSoFar'
    <2> DEFINE step == IF table[i] = "completed" THEN "answered" ELSE "processed"
               status == IF table[i] = NoRow THEN "pending_confirmation" ELSE table[i]
               entry == i \in processed \cup burned
    <2>a. step \in {"answered", "processed"} /\ (step = "answered" => table[i] = "completed")
      OBVIOUS
    <2>b. /\ table[i] = "completed" => status = "completed"
          /\ status = "completed" => table[i] = "completed"
      BY DEF NoRow
    <2>1. lookup'[q] = [step |-> step, id |-> i, status |-> status,
                        row |-> table[i], before |-> entry, unread |-> FALSE]
      BY <1>2 DEF GetTransfer, StatusTypeOK
    <2> HIDE DEF step, status, entry
    <2>2. \A p \in Lookups : p # q => lookup'[p] = lookup[p]
      BY <1>2 DEF GetTransfer, StatusTypeOK
    <2>3. UNCHANGED <<processed, burned>>
      BY <1>2 DEF GetTransfer, entry_vars
    <2>4. /\ lookup'[q].step \in {"answered", "processed"} /\ lookup'[q].id = i
          /\ lookup'[q].step = "answered" => lookup'[q].status = "completed"
          /\ lookup'[q].status = "completed" => lookup'[q].row = "completed"
      BY <2>1, <2>a, <2>b
    <2>5. lookup'[q].before <=> i \in processed \cup burned
      <3>1. lookup'[q].before = entry
        BY <2>1
      <3> QED BY <3>1, Zenon DEF entry
    <2> QED BY <2>2, <2>3, <2>4, <2>5 DEF ReadSoFar
  <1>3. ASSUME NEW q \in Lookups, isTransferProcessed(q) PROVE ReadSoFar'
    <2>1. lookup[q].step = "processed" /\ Reads(q, processed, "burn") /\ UNCHANGED <<processed, burned>>
      BY <1>3 DEF isTransferProcessed, entry_vars
    <2> QED BY <2>1, ReadStep DEF ReadSoFar
  <1>4. ASSUME NEW q \in Lookups, getBurnRecord(q) PROVE ReadSoFar'
    <2>1. lookup[q].step = "burn" /\ Reads(q, burned, "answered") /\ UNCHANGED <<processed, burned>>
      BY <1>4 DEF getBurnRecord, entry_vars
    <2> QED BY <2>1, ReadStep DEF ReadSoFar
  <1>5. CASE UNCHANGED <<processed, burned, lookup>>
    BY <1>5 DEF ReadSoFar
  <1>6. ASSUME NEW c \in Clients,
               (\E i \in TransferIds : Subscribe(c, i)) \/ ClientLeaves(c) \/ OnClose(c)
        PROVE  UNCHANGED <<processed, burned, lookup>>
    BY <1>6 DEF Subscribe, ClientLeaves, OnClose, entry_vars
  <1>7. ASSUME NEW i \in TransferIds,
               InsertTransfer(i) \/ \E s \in ValidStatuses : updateTransferStatus(i, s)
        PROVE  UNCHANGED <<processed, burned, lookup>>
    BY <1>7 DEF InsertTransfer, updateTransferStatus, entry_vars
  <1> QED
    BY <1>1, <1>2, <1>3, <1>4, <1>5, <1>6, <1>7 DEF StatusNext, status_vars, entry_vars

-----------------------------------------------------------------------------
(* A stream hears of every change.                                         *)

LEMMA SubscribedKept ==
  StatusTypeOK /\ Subscribed /\ [StatusNext]_status_vars => Subscribed'
PROOF
  <1> SUFFICES ASSUME StatusTypeOK, Subscribed, [StatusNext]_status_vars PROVE Subscribed'
    OBVIOUS
  <1>1. ASSUME NEW i \in TransferIds, InsertTransfer(i) PROVE Subscribed'
    <2>1. UNCHANGED <<sseClients, stream>> /\ table[i] = NoRow
      BY <1>1 DEF InsertTransfer
    <2>2. \A j \in TransferIds :
            table'[j] = IF j = i THEN "pending_confirmation" ELSE table[j]
      BY <1>1 DEF InsertTransfer, StatusTypeOK
    <2> QED BY <2>1, <2>2 DEF Subscribed, NoRow
  <1>2. ASSUME NEW c \in Clients, NEW i \in TransferIds, Subscribe(c, i) PROVE Subscribed'
    <2>0. stream[c].state = "free" /\ UNCHANGED table
      BY <1>2 DEF Subscribe, NoStream
    <2>1. \A j \in TransferIds :
            /\ j # i => sseClients'[j] = sseClients[j]
            /\ j = i => sseClients'[j] = sseClients[j] \cup {c}
      BY <1>2 DEF Subscribe, StatusTypeOK
    <2>2. /\ stream'[c].state = "open" /\ stream'[c].id = i /\ stream'[c].told = table[i]
          /\ \A d \in Clients : d # c => stream'[d] = stream[d]
      BY <1>2 DEF Subscribe, StatusTypeOK
    <2>3. ASSUME NEW d \in Clients, NEW j \in TransferIds, d \in sseClients'[j]
          PROVE  stream'[d].id = j /\ stream'[d].state \in {"open", "left"}
      BY <2>0, <2>1, <2>2, <2>3 DEF Subscribed
    <2>4. ASSUME NEW d \in Clients, d # c
          PROVE  LET s == stream'[d] IN
                 /\ s.state # "free" => s.id \in TransferIds
                 /\ s.state = "open" =>
                      /\ d \in sseClients'[s.id]
                      /\ s.told = table'[s.id]
                           \/ (s.told = NoRow /\ table'[s.id] = "pending_confirmation")
                 /\ s.state = "ended" => s.told \in Final
      BY <2>0, <2>1, <2>2, <2>4 DEF Subscribed
    <2>5. c \in sseClients'[i] /\ stream'[c].told = table'[i]
      BY <2>0, <2>1, <2>2
    <2> QED BY <2>2, <2>3, <2>4, <2>5 DEF Subscribed
  <1>3. ASSUME NEW i \in TransferIds, NEW s \in ValidStatuses, updateTransferStatus(i, s)
        PROVE  Subscribed'
    <2>1. /\ \A j \in TransferIds : table'[j] = IF j = i THEN s ELSE table[j]
          /\ \A j \in TransferIds :
               sseClients'[j] = IF s \in Final /\ j = i THEN {} ELSE sseClients[j]
      BY <1>3 DEF updateTransferStatus, broadcastTransferUpdate, StatusTypeOK
    <2>2. \A c \in Clients :
            /\ c \notin sseClients[i] => stream'[c] = stream[c]
            /\ c \in sseClients[i] =>
                 /\ stream'[c].id = stream[c].id /\ stream'[c].told = s
                 /\ stream'[c].state =
                      IF s \in Final /\ stream[c].state = "open" THEN "ended" ELSE stream[c].state
      BY <1>3 DEF updateTransferStatus, broadcastTransferUpdate, StatusTypeOK, Stream
    <2>3. \A c \in Clients, j \in TransferIds :
            c \in sseClients'[j] => stream'[c].id = j /\ stream'[c].state \in {"open", "left"}
      BY <2>1, <2>2 DEF Subscribed
    <2>4. ASSUME NEW c \in Clients
          PROVE  /\ stream'[c].state # "free" => stream'[c].id \in TransferIds
                 /\ stream'[c].state = "ended" => stream'[c].told \in Final
      BY <2>2 DEF Subscribed
    <2>5. ASSUME NEW c \in Clients, stream'[c].state = "open"
          PROVE  /\ c \in sseClients'[stream'[c].id]
                 /\ \/ stream'[c].told = table'[stream'[c].id]
                    \/ stream'[c].told = NoRow /\ table'[stream'[c].id] = "pending_confirmation"
      <3>1. CASE c \in sseClients[i]
        BY <2>1, <2>2, <2>5, <3>1 DEF Subscribed
      <3>2. CASE c \notin sseClients[i]
        BY <2>1, <2>2, <2>5, <3>2 DEF Subscribed
      <3> QED BY <3>1, <3>2
    <2> QED BY <2>3, <2>4, <2>5 DEF Subscribed
  <1>4. ASSUME NEW c \in Clients, ClientLeaves(c) PROVE Subscribed'
    <2>1. /\ UNCHANGED <<table, sseClients>> /\ stream[c].state \in {"open", "ended"}
          /\ stream'[c].state = "left" /\ stream'[c].id = stream[c].id
          /\ \A d \in Clients : d # c => stream'[d] = stream[d]
      BY <1>4 DEF ClientLeaves, StatusTypeOK, Stream
    <2> QED BY <2>1 DEF Subscribed
  <1>5. ASSUME NEW c \in Clients, OnClose(c) PROVE Subscribed'
    <2>1. stream[c].state = "left" /\ stream[c].id \in TransferIds
      BY <1>5 DEF OnClose, Subscribed
    <2>2. /\ UNCHANGED table /\ stream'[c].state = "free"
          /\ \A d \in Clients : d # c => stream'[d] = stream[d]
          /\ \A j \in TransferIds :
               sseClients'[j] = IF j = stream[c].id THEN sseClients[j] \ {c} ELSE sseClients[j]
      BY <1>5, <2>1 DEF OnClose, NoStream, StatusTypeOK
    <2>3. ASSUME NEW d \in Clients, NEW j \in TransferIds, d \in sseClients'[j]
          PROVE  stream'[d].id = j /\ stream'[d].state \in {"open", "left"}
      <3>1. d \in sseClients[j] /\ (j = stream[c].id => d # c)
        BY <2>2, <2>3
      <3>2. d # c
        BY <2>1, <3>1 DEF Subscribed
      <3> QED BY <2>2, <3>1, <3>2 DEF Subscribed
    <2>4. ASSUME NEW d \in Clients, d # c
          PROVE  LET s == stream'[d] IN
                 /\ s.state # "free" => s.id \in TransferIds
                 /\ s.state = "open" =>
                      /\ d \in sseClients'[s.id]
                      /\ s.told = table'[s.id]
                           \/ (s.told = NoRow /\ table'[s.id] = "pending_confirmation")
                 /\ s.state = "ended" => s.told \in Final
      <3>1. stream'[d] = stream[d] /\ UNCHANGED table
        BY <2>2, <2>4
      <3>2. \A j \in TransferIds : d \in sseClients[j] => d \in sseClients'[j]
        BY <2>2, <2>4
      <3> QED BY <3>1, <3>2 DEF Subscribed
    <2> QED BY <2>2, <2>3, <2>4 DEF Subscribed
  <1>6. CASE UNCHANGED <<table, sseClients, stream>>
    BY <1>6 DEF Subscribed
  <1>7. ASSUME NEW i \in TransferIds, EntryWritten(i) \/ \E q \in Lookups : GetTransfer(q, i)
        PROVE  UNCHANGED <<table, sseClients, stream>>
    BY <1>7 DEF EntryWritten, GetTransfer
  <1>8. ASSUME NEW q \in Lookups, isTransferProcessed(q) \/ getBurnRecord(q)
        PROVE  UNCHANGED <<table, sseClients, stream>>
    BY <1>8 DEF isTransferProcessed, getBurnRecord
  <1> QED
    BY <1>1, <1>2, <1>3, <1>4, <1>5, <1>6, <1>7, <1>8 DEF StatusNext, status_vars

-----------------------------------------------------------------------------
LEMMA StatusStarts == StatusInit => StatusTypeOK /\ ReadSoFar /\ Subscribed
PROOF
  <1>1. NoLookup \in Lookup /\ NoStream \in Stream
    BY DEF NoLookup, Lookup, NoStream, Stream
  <1>2. StatusInit => StatusTypeOK
    BY <1>1 DEF StatusInit, StatusTypeOK
  <1>3. StatusInit => ReadSoFar
    BY DEF StatusInit, ReadSoFar, NoLookup
  <1>4. StatusInit => Subscribed
    BY DEF StatusInit, Subscribed, NoStream
  <1> QED BY <1>2, <1>3, <1>4

\* Rows, requests and streams keep their types, for any number of each.
THEOREM StatusTypeCorrect == StatusSpec => []StatusTypeOK
PROOF
  <1> QED BY StatusStarts, StatusTypes, PTL DEF StatusSpec

\* An answer of completed has a row or an entry behind it, and an entry that was
\* there before the request is answered unless a read failed.
THEOREM AnswersTrue == StatusSpec => []StatusTrue
PROOF
  <1>1. ReadSoFar => StatusTrue
    BY DEF ReadSoFar, StatusTrue
  <1> QED BY <1>1, StatusStarts, StatusTypes, ReadsKept, PTL DEF StatusSpec

\* An open response is subscribed and was last told what its row says.
THEOREM EveryStreamHears == StatusSpec => []StreamsHear
PROOF
  <1>1. Subscribed => StreamsHear
    BY DEF Subscribed, StreamsHear
  <1> QED BY <1>1, StatusStarts, StatusTypes, SubscribedKept, PTL DEF StatusSpec

-----------------------------------------------------------------------------
(* The page and the routes it posts to.                                    *)

Good(typed) == typed.amount \in 1 .. MaxAmount /\ typed.address \in ValidDccAddresses

\* What a route has checked of a post, by the step it is at.
Checked ==
  \A r \in Requests : LET q == request[r] IN
    /\ q.step # "free" => q.typed.amount > 0
    /\ q.step \in {"getBridgeStats", "getSlot", "answered"} => Good(q.typed)
    /\ q.step = "getBridgeStats" /\ ~ halted => q.open
    /\ q.step = "getSlot" => q.open
    /\ q.step = "answered" /\ q.direction = "sol_to_dcc" => q.open

LEMMA GoesStep ==
  ASSUME PageTypeOK, NEW r \in Requests, NEW open \in BOOLEAN,
         NEW step \in {"posted", "getBridgeStats", "getSlot", "answered", "refused"},
         Goes(r, step, open)
  PROVE  /\ request' \in [Requests -> Post]
         /\ \A p \in Requests : p # r => request'[p] = request[p]
         /\ request'[r].step = step /\ request'[r].open = open
         /\ request'[r].typed = request[r].typed /\ request'[r].direction = request[r].direction
PROOF
  <1> DEFINE new == [request[r] EXCEPT !.step = step, !.open = open]
  <1>1. request' = [request EXCEPT ![r] = new]
    BY DEF Goes
  <1>2. new \in Post
    BY DEF PageTypeOK, Post
  <1>3. /\ new.step = step /\ new.open = open
        /\ new.typed = request[r].typed /\ new.direction = request[r].direction
    BY DEF PageTypeOK, Post
  <1> HIDE DEF new
  <1> QED BY <1>1, <1>2, <1>3 DEF PageTypeOK

\* The steps of a route, in one form.
LEMMA RouteStep ==
  ASSUME PageTypeOK, NEW r \in Requests,
         PostDeposit(r) \/ PostRedeem(r) \/ CheckPaused(r) \/ AnswerDeposit(r)
  PROVE  /\ UNCHANGED OnServer
         /\ \E step \in {"getBridgeStats", "getSlot", "answered", "refused"}, open \in BOOLEAN :
              /\ Goes(r, step, open)
              /\ step # "refused" =>
                   \/ /\ request[r].step = "posted" /\ Accepted(r)
                      /\ \/ step = "getBridgeStats" /\ (~ halted => open)
                         \/ step = "answered" /\ request[r].direction = "dcc_to_sol"
                   \/ /\ request[r].step = "getBridgeStats" /\ step = "getSlot"
                      /\ open \/ (~ halted /\ (request[r].open => open))
                   \/ request[r].step = "getSlot" /\ step = "answered" /\ (request[r].open => open)
PROOF
  <1>0. request[r].open \in BOOLEAN /\ (~ halted) \in BOOLEAN
    BY DEF PageTypeOK, Post
  <1>1. CASE PostDeposit(r)
    <2>1. CASE Accepted(r)
      BY <1>1, <2>1, <1>0, Zenon DEF PostDeposit, At
    <2>2. CASE ~ Accepted(r)
      BY <1>1, <2>2, <1>0, Zenon DEF PostDeposit
    <2> QED BY <2>1, <2>2
  <1>2. CASE PostRedeem(r)
    <2>1. CASE Accepted(r)
      BY <1>2, <2>1, <1>0, Zenon DEF PostRedeem, At
    <2>2. CASE ~ Accepted(r)
      BY <1>2, <2>2, <1>0, Zenon DEF PostRedeem
    <2> QED BY <2>1, <2>2
  <1>3. CASE CheckPaused(r)
    <2>0. UNCHANGED OnServer /\ request[r].step = "getBridgeStats"
      BY <1>3 DEF CheckPaused, At
    <2>1. CASE Goes(r, IF halted THEN "refused" ELSE "getSlot", request[r].open)
      <3>1. CASE halted
        <4>1. Goes(r, "refused", request[r].open)
          BY <2>1, <3>1, Zenon
        <4> QED BY <2>0, <4>1, <1>0, Zenon
      <3>2. CASE ~ halted
        <4>1. Goes(r, "getSlot", request[r].open)
          BY <2>1, <3>2, Zenon
        <4> QED BY <2>0, <3>2, <4>1, <1>0, Zenon
      <3> QED BY <3>1, <3>2
    <2>2. CASE Goes(r, "getSlot", TRUE)
      <3>1. TRUE \in BOOLEAN
        OBVIOUS
      <3> QED BY <2>0, <2>2, <3>1, Zenon
    <2> QED BY <1>3, <2>1, <2>2 DEF CheckPaused
  <1>4. CASE AnswerDeposit(r)
    <2>1. CASE Goes(r, "refused", request[r].open)
      BY <1>4, <2>1, <1>0, Zenon DEF AnswerDeposit
    <2>2. CASE Goes(r, "answered", request[r].open)
      BY <1>4, <2>2, <1>0, Zenon DEF AnswerDeposit, At
    <2> QED BY <1>4, <2>1, <2>2 DEF AnswerDeposit
  <1> QED BY <1>1, <1>2, <1>3, <1>4

\* A post leaves the page, with or without an answer.
LEMMA FinishStep ==
  ASSUME PageTypeOK, NEW r \in Requests, Finish(r)
  PROVE  /\ request' \in [Requests -> Post] /\ submitting' \in BOOLEAN
         /\ \A p \in Requests : p # r => request'[p] = request[p]
         /\ request'[r].step = "free"
         /\ UNCHANGED <<direction, fields, mount, halted, halts>>
PROOF
  <1>1. NoRequest \in Post /\ NoRequest.step = "free"
    BY DEF NoRequest, Post, Empty, Typed
  <1>2. request' = [request EXCEPT ![r] = NoRequest]
    BY DEF Finish
  <1>3. submitting' \in BOOLEAN
    BY Zenon DEF Finish
  <1>4. UNCHANGED <<direction, fields, mount, halted, halts>>
    BY DEF Finish
  <1> HIDE DEF NoRequest
  <1> QED BY <1>1, <1>2, <1>3, <1>4 DEF PageTypeOK

Inductive == PageTypeOK /\ Checked /\ ShownAsInstructed

LEMMA PageKept == Inductive /\ [PageNext]_page_vars => Inductive'
PROOF
  <1> SUFFICES ASSUME PageTypeOK, Checked, ShownAsInstructed, [PageNext]_page_vars
               PROVE  Inductive'
    BY DEF Inductive
  <1> USE PageAssumption
  <1>e. Empty \in Typed /\ NoRequest \in Post /\ NoRequest.step = "free"
    BY DEF Empty, Typed, NoRequest, Post
  <1>n. NoTransfer \in [direction: Ways \cup {Nothing}, typed: Typed]
    BY <1>e DEF NoTransfer
  <1>k. ASSUME UNCHANGED <<active, instruction>> PROVE ShownAsInstructed'
    BY <1>k DEF ShownAsInstructed
  <1>1. ASSUME NEW a \in Amounts, NEW x \in Addresses, TypeIn(a, x) PROVE Inductive'
    <2>1. fields' \in Typed
      BY <1>1 DEF TypeIn, Typed
    <2>2. PageTypeOK'
      BY <1>1, <2>1 DEF TypeIn, PageTypeOK
    <2>3. Checked'
      BY <1>1 DEF TypeIn, Checked
    <2> QED BY <1>1, <1>k, <2>2, <2>3 DEF TypeIn, Inductive
  <1>2. ASSUME NEW d \in Ways, setDirection(d) PROVE Inductive'
    <2>1. PageTypeOK'
      <3>1. fields' \in Typed /\ submitting' \in BOOLEAN
        BY <1>2, <1>e, FALSE \in BOOLEAN, Zenon DEF setDirection, NewForm
      <3>2. mount' \in Nat
        BY <1>2 DEF setDirection, NewForm, PageTypeOK
      <3> QED BY <1>2, <3>1, <3>2 DEF setDirection, PageTypeOK
    <2>2. Checked'
      BY <1>2 DEF setDirection, Checked
    <2> QED BY <1>2, <1>k, <2>1, <2>2 DEF setDirection, Inductive
  <1>3. CASE Reload
    <2>1. /\ active' = NoTransfer /\ instruction' = NoRequest /\ UNCHANGED <<halted, halts>>
          /\ request' = [r \in Requests |-> NoRequest]
          /\ direction' \in Ways /\ fields' = Empty /\ submitting' = FALSE /\ mount' = mount + 1
      BY <1>3 DEF Reload, NewForm, Ways
    <2>2. PageTypeOK'
      <3>1. fields' \in Typed /\ submitting' \in BOOLEAN
        BY <2>1, <1>e, FALSE \in BOOLEAN, Zenon
      <3>2. mount' \in Nat /\ request' \in [Requests -> Post]
        BY <2>1, <1>e DEF PageTypeOK
      <3>3. /\ active' \in [direction: Ways \cup {Nothing}, typed: Typed]
            /\ instruction' \in Post /\ direction' \in Ways
        BY <2>1, <1>e, <1>n, Zenon
      <3> QED BY <2>1, <3>1, <3>2, <3>3 DEF PageTypeOK
    <2>3. Checked'
      <3> HIDE DEF NoRequest
      <3> QED BY <2>1, <1>e DEF Checked
    <2>4. ShownAsInstructed'
      BY <2>1 DEF ShownAsInstructed
    <2> QED BY <2>2, <2>3, <2>4 DEF Inductive
  <1>4. CASE ChangePaused
    <2>0. /\ halted' = (~ halted) /\ halts' = halts + 1 /\ UNCHANGED <<form_vars, active, instruction>>
          /\ request' = [r \in Requests |->
               IF request[r].step \in {"getBridgeStats", "getSlot"}
               THEN [request[r] EXCEPT !.open = request[r].open \/ ~ halted'] ELSE request[r]]
      BY <1>4 DEF ChangePaused
    <2>1. halted' \in BOOLEAN
      BY <2>0, Zenon
    <2>2. ASSUME NEW r \in Requests
          PROVE  /\ request'[r] \in Post
                 /\ request'[r].step = request[r].step /\ request'[r].typed = request[r].typed
                 /\ request'[r].direction = request[r].direction
                 /\ request[r].open => request'[r].open
                 /\ request[r].step = "getBridgeStats" /\ ~ halted' => request'[r].open
      <3> DEFINE open == request[r].open \/ ~ halted'
                 new == [request[r] EXCEPT !.open = open]
      <3>1. open \in BOOLEAN
        BY Zenon
      <3>2. /\ new \in Post /\ new.step = request[r].step /\ new.typed = request[r].typed
            /\ new.direction = request[r].direction /\ new.open = open
        <4> HIDE DEF open
        <4> QED BY <3>1 DEF PageTypeOK, Post
      <3>3. request'[r] = IF request[r].step \in {"getBridgeStats", "getSlot"} THEN new ELSE request[r]
        BY <2>0
      <3>4. request[r] \in Post
        BY DEF PageTypeOK
      <3>5. (request[r].open => open) /\ (~ halted' => open)
        OBVIOUS
      <3> HIDE DEF new, open
      <3>6. CASE request[r].step \in {"getBridgeStats", "getSlot"}
        <4>1. request'[r] = new
          BY <3>3, <3>6
        <4> QED BY <4>1, <3>2, <3>5, Zenon
      <3>7. CASE request[r].step \notin {"getBridgeStats", "getSlot"}
        BY <3>3, <3>4, <3>7
      <3> QED BY <3>6, <3>7
    <2>3. request' \in [Requests -> Post]
      BY <2>0, <2>2
    <2>4. PageTypeOK'
      BY <2>0, <2>1, <2>3 DEF PageTypeOK, form_vars
    <2>5. Checked'
      <3> SUFFICES ASSUME NEW r \in Requests
                   PROVE  LET q == request'[r] IN
                     /\ q.step # "free" => q.typed.amount > 0
                     /\ q.step \in {"getBridgeStats", "getSlot", "answered"} => Good(q.typed)
                     /\ q.step = "getBridgeStats" /\ ~ halted' => q.open
                     /\ q.step = "getSlot" => q.open
                     /\ q.step = "answered" /\ q.direction = "sol_to_dcc" => q.open
        BY DEF Checked, Good
      <3> QED BY <2>2 DEF Checked
    <2> QED BY <2>0, <1>k, <2>4, <2>5 DEF Inductive
  <1>5. ASSUME NEW r \in Requests, Submit(r) PROVE Inductive'
    <2> DEFINE new == [step |-> "posted", direction |-> direction, typed |-> fields,
                       mount |-> mount, open |-> FALSE]
    <2>1. new \in Post /\ new.step = "posted" /\ new.typed.amount > 0
      BY <1>5 DEF Submit, PageTypeOK, Post
    <2>2. /\ request' = [request EXCEPT ![r] = new] /\ submitting' = TRUE
          /\ UNCHANGED <<direction, fields, mount, active, halted, halts, instruction>>
      BY <1>5 DEF Submit
    <2> HIDE DEF new
    <2>3. PageTypeOK'
      BY <2>1, <2>2 DEF PageTypeOK
    <2>4. Checked'
      BY <2>1, <2>2 DEF Checked, PageTypeOK
    <2> QED BY <2>2, <1>k, <2>3, <2>4 DEF Inductive
  <1>6. ASSUME NEW r \in Requests,
               PostDeposit(r) \/ PostRedeem(r) \/ CheckPaused(r) \/ AnswerDeposit(r)
        PROVE  Inductive'
    <2>1. UNCHANGED OnServer
      BY <1>6, RouteStep
    <2>2. PICK step \in {"getBridgeStats", "getSlot", "answered", "refused"}, open \in BOOLEAN :
            /\ Goes(r, step, open)
            /\ step # "refused" =>
                 \/ /\ request[r].step = "posted" /\ Accepted(r)
                    /\ \/ step = "getBridgeStats" /\ (~ halted => open)
                       \/ step = "answered" /\ request[r].direction = "dcc_to_sol"
                 \/ /\ request[r].step = "getBridgeStats" /\ step = "getSlot"
                    /\ open \/ (~ halted /\ (request[r].open => open))
                 \/ request[r].step = "getSlot" /\ step = "answered" /\ (request[r].open => open)
      BY <1>6, RouteStep
    <2>3. /\ request' \in [Requests -> Post]
          /\ \A p \in Requests : p # r => request'[p] = request[p]
          /\ request'[r].step = step /\ request'[r].open = open
          /\ request'[r].typed = request[r].typed /\ request'[r].direction = request[r].direction
      BY <2>2, GoesStep
    <2>4. PageTypeOK'
      BY <2>1, <2>3 DEF OnServer, form_vars, PageTypeOK
    <2>5. request[r].step # "free"
      BY <1>6 DEF PostDeposit, PostRedeem, CheckPaused, AnswerDeposit, At
    <2>6. Accepted(r) => Good(request[r].typed)
      <3>1. request[r].typed.amount \in Nat /\ request[r].typed.amount > 0
        <4>1. request[r].typed \in Typed
          BY DEF PageTypeOK, Post
        <4>2. request[r].typed.amount \in Amounts \cup {0}
          BY <4>1 DEF Typed
        <4>3. \A a \in Amounts \cup {0} : a \in Nat
          BY PageAssumption DEF PageAssumption
        <4>4. request[r].typed.amount \in Nat
          BY <4>2, <4>3
        <4>5. request[r].typed.amount > 0
          BY <2>5 DEF Checked
        <4> QED BY <4>4, <4>5
      <3> QED BY <3>1 DEF Accepted, Good
    <2>7. Checked'
      <3>1. ASSUME NEW p \in Requests, p # r
            PROVE  LET q == request'[p] IN
              /\ q.step # "free" => q.typed.amount > 0
              /\ q.step \in {"getBridgeStats", "getSlot", "answered"} => Good(q.typed)
              /\ q.step = "getBridgeStats" /\ ~ halted' => q.open
              /\ q.step = "getSlot" => q.open
              /\ q.step = "answered" /\ q.direction = "sol_to_dcc" => q.open
        BY <2>1, <2>3, <3>1 DEF Checked, OnServer
      <3>2. LET q == request'[r] IN
              /\ q.step # "free" => q.typed.amount > 0
              /\ q.step \in {"getBridgeStats", "getSlot", "answered"} => Good(q.typed)
              /\ q.step = "getBridgeStats" /\ ~ halted' => q.open
              /\ q.step = "getSlot" => q.open
              /\ q.step = "answered" /\ q.direction = "sol_to_dcc" => q.open
        BY <2>1, <2>2, <2>3, <2>5, <2>6 DEF Checked, OnServer
      <3> QED BY <3>1, <3>2 DEF Checked, Good
    <2> QED BY <2>1, <1>k, <2>4, <2>7 DEF OnServer, Inductive
  <1>7. ASSUME NEW r \in Requests, setActiveTransfer(r) PROVE Inductive'
    <2>1. /\ request[r].step = "answered" /\ Finish(r) /\ instruction' = request[r]
          /\ active' = [direction |-> request[r].direction, typed |-> request[r].typed]
      BY <1>7 DEF setActiveTransfer, At, Show
    <2>2. active' \in [direction: Ways \cup {Nothing}, typed: Typed] /\ instruction' \in Post
      BY <2>1 DEF PageTypeOK, Post
    <2>3. PageTypeOK'
      BY <2>1, <2>2, FinishStep DEF PageTypeOK
    <2>4. Checked'
      BY <2>1, FinishStep DEF Checked
    <2>5. ShownAsInstructed'
      BY <2>1 DEF ShownAsInstructed, Checked, Good
    <2> QED BY <2>3, <2>4, <2>5 DEF Inductive
  <1>8. ASSUME NEW r \in Requests, PostFails(r) PROVE Inductive'
    <2>1. Finish(r) /\ UNCHANGED <<active, instruction>>
      BY <1>8 DEF PostFails
    <2>2. PageTypeOK'
      BY <2>1, FinishStep DEF PageTypeOK
    <2>3. Checked'
      BY <2>1, FinishStep DEF Checked
    <2> QED BY <2>1, <1>k, <2>2, <2>3 DEF Inductive
  <1>9. CASE UNCHANGED page_vars
    BY <1>9 DEF page_vars, form_vars, PageTypeOK, Checked, ShownAsInstructed, Inductive, Accepted
  <1> QED
    BY <1>1, <1>2, <1>3, <1>4, <1>5, <1>6, <1>7, <1>8, <1>9 DEF PageNext

LEMMA PageStarts == PageInit => Inductive
PROOF
  <1>1. /\ Empty \in Typed /\ NoRequest \in Post /\ NoRequest.step = "free"
        /\ NoTransfer \in [direction: Ways \cup {Nothing}, typed: Typed]
    BY DEF Empty, Typed, NoRequest, Post, NoTransfer
  <1>2. PageInit => PageTypeOK
    <2> SUFFICES ASSUME PageInit PROVE PageTypeOK
      OBVIOUS
    <2>1. fields \in Typed /\ submitting \in BOOLEAN /\ halted \in BOOLEAN
      BY <1>1, FALSE \in BOOLEAN, Zenon DEF PageInit
    <2>2. mount \in Nat /\ halts \in Nat /\ request \in [Requests -> Post]
      BY <1>1 DEF PageInit
    <2>3. /\ active \in [direction: Ways \cup {Nothing}, typed: Typed]
          /\ instruction \in Post
      BY <1>1, Zenon DEF PageInit
    <2>4. direction \in Ways
      BY DEF PageInit, Ways
    <2> QED BY <2>1, <2>2, <2>3, <2>4 DEF PageTypeOK
  <1>3. PageInit => Checked /\ ShownAsInstructed
    <2> HIDE DEF NoRequest
    <2> QED BY <1>1 DEF PageInit, Checked, ShownAsInstructed
  <1> QED BY <1>2, <1>3 DEF Inductive

\* The form, the posts and the active transfer keep their types.
THEOREM PageTypeCorrect == PageSpec => []PageTypeOK
PROOF
  <1>1. Inductive => PageTypeOK
    BY DEF Inductive
  <1> QED BY <1>1, PageStarts, PageKept, PTL DEF PageSpec

\* The transfer shown is one the API made an instruction for, as it was typed
\* when it was posted, and a deposit was not paused all the while.
THEOREM ShowsWhatWasInstructed == PageSpec => []ShownAsInstructed
PROOF
  <1>1. Inductive => ShownAsInstructed
    BY DEF Inductive
  <1> QED BY <1>1, PageStarts, PageKept, PTL DEF PageSpec

-----------------------------------------------------------------------------
(* The conversation.                                                       *)

Slots == 1 .. MaxHandlers
Allowed == {n \in Int : minAmountUsdc <= n /\ n <= maxAmountUsdc}
Destinations == {t \in Texts : AddressOf[t] \in Directions}

WizardData ==
  [direction: Directions \cup {None}, token: BOOLEAN, amount: Allowed \cup {NaN},
   destination: Destinations \cup {None}]
Handler ==
  [step: {"answer", "next", "execute"}, update: Buttons \cup {None},
   conversation: Conversations \cup {None}, amount: Allowed \cup {NaN}]
Order == [direction: Directions, destination: Destinations, amount: Allowed \cup {NaN}]

WizardType ==
  /\ session \in [scene: BOOLEAN, cursor: Nat, conversation: Conversations \cup {None}]
  /\ data \in [Conversations -> WizardData \cup {None}]
  /\ conversations \in 0 .. MaxConversations
  /\ handlers \in [Slots -> Handler \cup {None}]
  /\ orders \in Seq(Order)

\* Inside the scene there is a conversation, one that was started.
SceneHasConversation == session.scene => session.conversation \in 1 .. conversations

\* What a handler at work relies on: an answer is to a button of a conversation,
\* unless it is the one that starts a conversation; a conversation that was
\* confirmed is past the steps that ask for its amount, as long as it lasts; and
\* the order being executed is for the amount its conversation holds.
Confirmed(h) == handlers[h].step = "execute" \/ handlers[h].update = "confirm"

WorksOn(h) ==
  handlers[h] # None =>
    /\ handlers[h].update \notin {"do:bridge", None} \/ handlers[h].step = "execute" =>
         handlers[h].conversation \in 1 .. conversations
    /\ Confirmed(h) /\ session.scene /\ session.conversation = handlers[h].conversation =>
         session.cursor >= 4
    /\ handlers[h].step = "execute" =>
         /\ registered /\ data[handlers[h].conversation] \in WizardData
         /\ data[handlers[h].conversation].amount = handlers[h].amount

HandlersAtWork == \A h \in Slots : WorksOn(h)

OrdersAreUsers == orders # <<>> => registered

WizardInv ==
  WizardType /\ SceneHasConversation /\ registered \in BOOLEAN /\ HandlersAtWork /\ OrdersAreUsers

\* The scene and the cursor.
LEMMA LeaveStep ==
  ASSUME WizardType, leave
  PROVE  /\ session' \in [scene: BOOLEAN, cursor: Nat, conversation: Conversations \cup {None}]
         /\ ~ session'.scene
BY DEF WizardType, leave, AfterLeave, Outside

LEMMA NextStep ==
  ASSUME WizardType, next
  PROVE  /\ session' \in [scene: BOOLEAN, cursor: Nat, conversation: Conversations \cup {None}]
         /\ session'.scene = session.scene /\ session'.conversation = session.conversation
         /\ session'.cursor >= session.cursor
BY DEF WizardType, next

LEMMA EnterStep ==
  ASSUME WizardType, enter
  PROVE  /\ session' \in [scene: BOOLEAN, cursor: Nat, conversation: Conversations \cup {None}]
         /\ conversations' = conversations + 1 /\ conversations' \in Conversations
         /\ session'.scene => session'.conversation = conversations'
         /\ data' = data \/ data' = [data EXCEPT ![conversations'] = NoData]
<1>1. MaxConversations \in Nat
  BY ConversationAssumption DEF ConversationAssumption
<1>2. conversations + 1 \in Conversations
  BY <1>1 DEF WizardType, enter, Conversations
<1>3. AfterLeave(session).cursor \in Nat
  BY DEF WizardType, AfterLeave, Outside
<1> QED BY <1>2, <1>3 DEF enter, Outside

LEMMA NoDataType == NoData \in WizardData
BY DEF NoData, WizardData

\* A conversation's data is replaced, and the others' stay.
LEMMA ReplacedData ==
  ASSUME WizardType, NEW c, NEW d \in WizardData, data' = [data EXCEPT ![c] = d]
  PROVE  /\ data' \in [Conversations -> WizardData \cup {None}]
         /\ \A e \in Conversations : e # c => data'[e] = data[e]
         /\ \A e \in Conversations : e = c => data'[e] = d
         /\ \A e \in Conversations : data[e] \in WizardData => data'[e] \in WizardData
<1>1. data \in [Conversations -> WizardData \cup {None}]
  BY DEF WizardType
<1> QED BY <1>1

\* What is typed as an amount or as a destination is stored when it was checked.
LEMMA TypedData ==
  ASSUME WizardInv, session.scene, NEW h \in Slots, NEW u \in Texts,
         TypeAmount(h, u) \/ TypeDestination(h, u)
  PROVE  /\ data' \in [Conversations -> WizardData \cup {None}]
         /\ \A c \in Conversations : data[c] \in WizardData => data'[c] \in WizardData
         /\ \A c \in Conversations :
              c # session.conversation \/ session.cursor >= 4 => data'[c].amount = data[c].amount
<1> DEFINE s == session.conversation
           d == data[s]
<1>1. WizardType /\ s \in Conversations /\ d \in WizardData \cup {None} /\ session.cursor \in Nat
  BY ConversationAssumption
  DEF ConversationAssumption, WizardInv, WizardType, SceneHasConversation, Conversations
<1>2. CASE TypeAmount(h, u)
  <2> DEFINE e == [d EXCEPT !.amount = parseFloat[u]]
  <2>1. parseFloat[u] \in Allowed
    BY <1>2, ConversationAssumption DEF ConversationAssumption, TypeAmount, AmountAllowed, Allowed
  <2>2. session.cursor = 2 /\ d # None /\ data' = [data EXCEPT ![s] = e]
    BY <1>2 DEF TypeAmount, AmountIsAsked, Data
  <2>3. e \in WizardData
    BY <1>1, <2>1, <2>2 DEF WizardData
  <2> HIDE DEF e, d, s
  <2>4. ~ (session.cursor >= 4)
    BY <1>1, <2>2
  <2> QED BY <1>1, <2>2, <2>3, <2>4, ReplacedData DEF s
<1>3. CASE TypeDestination(h, u)
  <2> DEFINE e == [d EXCEPT !.destination = u]
  <2>1. u \in Destinations
    BY <1>3, ConversationAssumption
    DEF ConversationAssumption, TypeDestination, DestinationAllowed, Destinations
  <2>2. d # None /\ data' = [data EXCEPT ![s] = e]
    BY <1>3 DEF TypeDestination, Data
  <2>3. e \in WizardData /\ e.amount = d.amount
    BY <1>1, <2>1, <2>2 DEF WizardData
  <2>4. d = data[s]
    OBVIOUS
  <2> HIDE DEF e, d
  <2>5. \A c \in Conversations : data'[c].amount = data[c].amount
    BY <1>1, <2>2, <2>3, <2>4, ReplacedData
  <2> QED BY <1>1, <2>2, <2>3, <2>5, ReplacedData
<1> QED BY <1>2, <1>3

\* A choice is stored, and leaves every amount alone.
LEMMA ChosenData ==
  ASSUME WizardInv, NEW h \in Slots, handlers[h] # None, handlers[h].step = "answer", Choose(h)
  PROVE  /\ data' \in [Conversations -> WizardData \cup {None}]
         /\ \A c \in Conversations : data[c] \in WizardData => data'[c] \in WizardData
         /\ \A c \in Conversations : data'[c].amount = data[c].amount
<1> DEFINE s == handlers[h].conversation
           d == data[s]
           u == handlers[h].update
<1>1. u \in Directions \cup {"token"} /\ d # None
  BY DEF Choose
<1>2. u \notin {"do:bridge", None}
  BY <1>1, ConversationAssumption DEF ConversationAssumption, Updates, Buttons, Directions
<1>3. s \in 1 .. conversations
  BY <1>2 DEF WizardInv, HandlersAtWork, WorksOn
<1>4. WizardType /\ s \in Conversations /\ d \in WizardData
  BY <1>1, <1>3, ConversationAssumption
  DEF ConversationAssumption, WizardInv, WizardType, Conversations
<1>5. PICK e \in WizardData : e.amount = d.amount /\ data' = [data EXCEPT ![s] = e]
  <2>1. CASE u = "token"
    <3>1. data' = [data EXCEPT ![s] = [d EXCEPT !.token = TRUE]]
      BY <2>1 DEF Choose
    <3>2. /\ [d EXCEPT !.token = TRUE] \in WizardData
          /\ [d EXCEPT !.token = TRUE].amount = d.amount
      BY <1>4 DEF WizardData
    <3> HIDE DEF d, s
    <3> QED BY <3>1, <3>2
  <2>2. CASE u # "token"
    <3>1. data' = [data EXCEPT ![s] = [d EXCEPT !.direction = u]]
      BY <2>2 DEF Choose
    <3>2. /\ [d EXCEPT !.direction = u] \in WizardData
          /\ [d EXCEPT !.direction = u].amount = d.amount
      BY <1>1, <1>4, <2>2 DEF WizardData
    <3> HIDE DEF d, s, u
    <3> QED BY <3>1, <3>2
  <2> QED BY <2>1, <2>2
<1>6. d = data[s]
  OBVIOUS
<1> HIDE DEF d, s, u
<1>7. \A c \in Conversations : data'[c].amount = data[c].amount
  BY <1>4, <1>5, <1>6, ReplacedData
<1> QED BY <1>4, <1>5, <1>7, ReplacedData

\* A step of one handler leaves the others what they rely on: conversations and
\* users stay, a scene that lasts is not moved back before the confirmation, and
\* an amount only changes before it.
LEMMA OthersKept ==
  ASSUME WizardInv, NEW h \in Slots, conversations' \in Nat, conversations' >= conversations,
         registered => registered',
         \A g \in Slots : g # h => handlers'[g] = handlers[g],
         session'.scene /\ session'.conversation \in 1 .. conversations =>
           /\ session.scene /\ session'.conversation = session.conversation
           /\ session.cursor >= 4 => session'.cursor >= 4,
         \A c \in Conversations : data[c] \in WizardData => data'[c] \in WizardData,
         \A c \in 1 .. conversations :
           \/ data'[c].amount = data[c].amount
           \/ session.scene /\ session.conversation = c /\ ~ session.cursor >= 4,
         WorksOn(h)' \/ handlers'[h] = handlers[h]
  PROVE  HandlersAtWork'
<1> SUFFICES ASSUME NEW g \in Slots, handlers'[g] = handlers[g], handlers[g] # None
             PROVE  WorksOn(g)'
  BY DEF HandlersAtWork, WorksOn
<1> DEFINE c == handlers[g].conversation
<1>1. WorksOn(g) /\ handlers'[g] = handlers[g]
  BY DEF WizardInv, HandlersAtWork
<1>2. conversations \in 0 .. MaxConversations /\ MaxConversations \in Nat
  BY ConversationAssumption DEF ConversationAssumption, WizardInv, WizardType
<1>3. handlers[g].update \notin {"do:bridge", None} \/ handlers[g].step = "execute" =>
        c \in 1 .. conversations /\ c \in 1 .. conversations' /\ c \in Conversations
  BY <1>1, <1>2 DEF WorksOn, Conversations
<1>4. Confirmed(g) => c \in 1 .. conversations
  BY <1>3, ConversationAssumption DEF Confirmed, ConversationAssumption, Updates, Buttons
<1>5. Confirmed(g) /\ session'.scene /\ session'.conversation = c => session'.cursor >= 4
  BY <1>1, <1>4 DEF WorksOn
<1>6. handlers[g].step = "execute" =>
        registered' /\ data'[c] \in WizardData /\ data'[c].amount = handlers[g].amount
  <2> SUFFICES ASSUME handlers[g].step = "execute"
               PROVE  registered' /\ data'[c] \in WizardData /\ data'[c].amount = handlers[g].amount
    OBVIOUS
  <2>1. Confirmed(g)
    BY DEF Confirmed
  <2>2. ~ (session.scene /\ session.conversation = c /\ ~ session.cursor >= 4)
    BY <1>1, <2>1 DEF WorksOn
  <2>3. data'[c].amount = data[c].amount
    BY <1>3, <2>2
  <2>4. registered /\ data[c] \in WizardData /\ data[c].amount = handlers[g].amount
    BY <1>1 DEF WorksOn
  <2>5. registered'
    BY <2>4
  <2> QED BY <1>3, <2>3, <2>4, <2>5
<1> QED BY <1>1, <1>3, <1>5, <1>6 DEF WorksOn, Confirmed

LEMMA WorkingStep ==
  ASSUME WizardInv, NEW h \in Slots, NEW step \in {"answer", "next"},
         NEW update \in Buttons \cup {None}, Working(h, step, update)
  PROVE  /\ handlers' \in [Slots -> Handler \cup {None}]
         /\ \A g \in Slots : g # h => handlers'[g] = handlers[g]
         /\ handlers'[h] = [step |-> step, update |-> update,
                            conversation |-> session.conversation, amount |-> NaN]
<1> DEFINE w == [step |-> step, update |-> update,
                 conversation |-> session.conversation, amount |-> NaN]
<1>1. w \in Handler
  BY DEF WizardInv, WizardType, Handler
<1>2. handlers' = [handlers EXCEPT ![h] = w] /\ handlers \in [Slots -> Handler \cup {None}]
  BY DEF Working, WizardInv, WizardType
<1>3. w = [step |-> step, update |-> update,
           conversation |-> session.conversation, amount |-> NaN]
  OBVIOUS
<1> HIDE DEF w
<1>4. handlers'[h] = w
  BY <1>2
<1> QED BY <1>1, <1>2, <1>3, <1>4

LEMMA EndsStep ==
  ASSUME WizardInv, NEW h \in Slots, Ends(h)
  PROVE  /\ handlers' \in [Slots -> Handler \cup {None}]
         /\ \A g \in Slots : g # h => handlers'[g] = handlers[g]
         /\ WorksOn(h)'
BY DEF Ends, WizardInv, WizardType, WorksOn

LEMMA EnsureStep ==
  ASSUME WizardInv, ensureUser \/ upsertUser
  PROVE  registered'
<1>1. registered' = TRUE
  BY Zenon DEF ensureUser, upsertUser, WizardInv
<1> QED BY <1>1

\* The handler of an update that does nothing but wait for an answer.
LEMMA AnswerKept ==
  ASSUME WizardInv, NEW h \in Slots, NEW u \in Buttons, Working(h, "answer", u),
         UNCHANGED <<session, data, conversations, registered, orders>>,
         u # "do:bridge" => session.scene, u = "confirm" => session.cursor >= 4
  PROVE  WizardInv'
<1> DEFINE w == [step |-> "answer", update |-> u,
                 conversation |-> session.conversation, amount |-> NaN]
<1>1. /\ handlers' \in [Slots -> Handler \cup {None}]
      /\ \A g \in Slots : g # h => handlers'[g] = handlers[g]
      /\ handlers'[h] = w
  BY WorkingStep
<1>2. u # None
  BY ConversationAssumption DEF ConversationAssumption, Updates
<1>3. WorksOn(h)'
  BY <1>1, <1>2 DEF WorksOn, Confirmed, WizardInv, SceneHasConversation
<1>4. conversations \in Nat
  BY ConversationAssumption DEF ConversationAssumption, WizardInv, WizardType
<1> HIDE DEF w
<1>5. HandlersAtWork'
  BY <1>1, <1>3, <1>4, OthersKept
<1> QED BY <1>1, <1>5 DEF WizardInv, WizardType, SceneHasConversation, OrdersAreUsers

\* A handler that stores what was typed goes on to the next step after its call.
LEMMA TypedKept ==
  ASSUME WizardInv, NEW h \in Slots, NEW u \in Texts, session.scene,
         TypeAmount(h, u) \/ TypeDestination(h, u), UNCHANGED orders
  PROVE  WizardInv'
<1>1. /\ data' \in [Conversations -> WizardData \cup {None}]
      /\ \A c \in Conversations : data[c] \in WizardData => data'[c] \in WizardData
      /\ \A c \in Conversations :
           c # session.conversation \/ session.cursor >= 4 => data'[c].amount = data[c].amount
  BY TypedData
<1>2. Working(h, "next", None) /\ UNCHANGED <<session, conversations>>
  BY DEF TypeAmount, TypeDestination
<1>3. /\ handlers' \in [Slots -> Handler \cup {None}]
      /\ \A g \in Slots : g # h => handlers'[g] = handlers[g]
      /\ handlers'[h] = [step |-> "next", update |-> None,
                         conversation |-> session.conversation, amount |-> NaN]
  BY <1>2, WorkingStep
<1>4. WorksOn(h)'
  BY <1>3, ConversationAssumption
  DEF WorksOn, Confirmed, ConversationAssumption, Updates, Buttons
<1>5. (registered => registered') /\ registered' \in BOOLEAN
  <2>1. CASE UNCHANGED registered
    BY <2>1 DEF WizardInv
  <2>2. CASE ensureUser
    <3>1. registered' = TRUE
      BY <2>2, Zenon DEF ensureUser, upsertUser, WizardInv
    <3> QED BY <3>1
  <2> QED BY <2>1, <2>2 DEF TypeAmount, TypeDestination
<1>6. conversations \in Nat /\ 1 .. conversations \subseteq Conversations
  BY ConversationAssumption
  DEF ConversationAssumption, WizardInv, WizardType, Conversations
<1>7. HandlersAtWork'
  BY <1>1, <1>2, <1>3, <1>4, <1>5, <1>6, OthersKept
<1> QED BY <1>1, <1>2, <1>3, <1>5, <1>7
        DEF WizardInv, WizardType, SceneHasConversation, OrdersAreUsers

\* The handlers that changed nothing but the session left it, entered it anew, or
\* went on to its next step: whatever happens to the data a scene starts with.
LEMMA SessionKept ==
  ASSUME WizardInv, NEW h \in Slots, Ends(h) \/ UNCHANGED handlers,
         UNCHANGED <<registered, orders>>,
         \/ (leave \/ next) /\ UNCHANGED <<data, conversations>>
         \/ enter
  PROVE  WizardInv'
<1>1. WizardType
  BY DEF WizardInv
<1>2. /\ conversations \in Nat /\ 1 .. conversations \subseteq Conversations
      /\ MaxConversations \in Nat
  BY ConversationAssumption
  DEF ConversationAssumption, WizardInv, WizardType, Conversations
<1>3. /\ session' \in [scene: BOOLEAN, cursor: Nat, conversation: Conversations \cup {None}]
      /\ conversations' \in 0 .. MaxConversations /\ conversations' >= conversations
      /\ SceneHasConversation'
      /\ session'.scene /\ session'.conversation \in 1 .. conversations =>
           /\ session.scene /\ session'.conversation = session.conversation
           /\ session.cursor >= 4 => session'.cursor >= 4
  <2>1. CASE leave /\ UNCHANGED conversations
    BY <1>1, <2>1, LeaveStep DEF SceneHasConversation, WizardType
  <2>2. CASE next /\ UNCHANGED conversations
    <3>1. session.cursor \in Nat /\ session'.cursor \in Nat
      BY <1>1, <2>2, NextStep DEF WizardType
    <3>2. session.cursor >= 4 => session'.cursor >= 4
      BY <1>1, <2>2, <3>1, NextStep
    <3> QED BY <1>1, <1>2, <2>2, <3>2, NextStep DEF SceneHasConversation, WizardInv, WizardType
  <2>3. CASE enter
    <3>1. conversations' = conversations + 1 /\ conversations' \in Conversations
      BY <1>1, <2>3, EnterStep
    <3>2. conversations' \notin 1 .. conversations /\ conversations' \in 0 .. MaxConversations
          /\ conversations' \in 1 .. conversations' /\ conversations' >= conversations
      BY <1>2, <3>1 DEF Conversations
    <3> QED BY <1>1, <2>3, <3>2, EnterStep DEF SceneHasConversation
  <2> QED BY <2>1, <2>2, <2>3
<1>4. /\ data' \in [Conversations -> WizardData \cup {None}]
      /\ \A c \in Conversations : data[c] \in WizardData => data'[c] \in WizardData
      /\ \A c \in 1 .. conversations : data'[c].amount = data[c].amount
  <2>1. CASE UNCHANGED data
    BY <1>1, <2>1 DEF WizardType
  <2>2. CASE enter
    <3>1. /\ conversations' = conversations + 1
          /\ data' = data \/ data' = [data EXCEPT ![conversations'] = NoData]
      BY <1>1, <2>2, EnterStep
    <3>2. \A c \in 1 .. conversations : c # conversations'
      BY <1>2, <3>1
    <3> QED BY <1>1, <1>2, <2>1, <3>1, <3>2, NoDataType, ReplacedData
  <2> QED BY <2>1, <2>2
<1>5. /\ handlers' \in [Slots -> Handler \cup {None}]
      /\ \A g \in Slots : g # h => handlers'[g] = handlers[g]
      /\ Ends(h) => WorksOn(h)'
  BY <1>1, EndsStep DEF WizardType
<1>6. HandlersAtWork'
  <2>1. CASE Ends(h)
    BY <1>2, <1>3, <1>4, <1>5, <2>1, OthersKept
  <2>2. CASE UNCHANGED handlers
    BY <1>2, <1>3, <1>4, <1>5, <2>2, OthersKept
  <2> QED BY <2>1, <2>2
<1> QED BY <1>3, <1>4, <1>5, <1>6 DEF WizardInv, WizardType, OrdersAreUsers

\* The first step starts the data of its conversation again.
LEMMA AskKept ==
  ASSUME WizardInv, session.scene, AskDirection, UNCHANGED orders, NEW h \in Slots
  PROVE  WizardInv'
<1> DEFINE s == session.conversation
<1>1. session.cursor = 0 /\ data' = [data EXCEPT ![s] = NoData]
      /\ UNCHANGED <<session, conversations, handlers, registered>>
  BY DEF AskDirection
<1>2. WizardType /\ s \in 1 .. conversations /\ ~ session.cursor >= 4
  BY <1>1 DEF WizardInv, SceneHasConversation
<1>3. conversations \in Nat /\ 1 .. conversations \subseteq Conversations
  BY <1>2, ConversationAssumption DEF ConversationAssumption, WizardType, Conversations
<1> HIDE DEF s
<1>4. /\ data' \in [Conversations -> WizardData \cup {None}]
      /\ \A c \in Conversations : data[c] \in WizardData => data'[c] \in WizardData
      /\ \A c \in Conversations : c # s => data'[c].amount = data[c].amount
  BY <1>1, <1>2, NoDataType, ReplacedData
<1>5. HandlersAtWork'
  BY <1>1, <1>2, <1>3, <1>4, OthersKept DEF s
<1> QED BY <1>1, <1>2, <1>4, <1>5
        DEF WizardInv, WizardType, SceneHasConversation, OrdersAreUsers

LEMMA DispatchKept ==
  ASSUME WizardInv, NEW h \in Slots, NEW u \in Updates, DispatchUpdate(h, u)
  PROVE  WizardInv'
<1>1. UNCHANGED orders
  BY DEF DispatchUpdate
<1>2. CASE DispatchInside(h, u)
  <2>1. session.scene
    BY <1>2 DEF DispatchInside
  <2>2. CASE /\ u \in Directions \cup {"cancel"} /\ Working(h, "answer", u)
             /\ UNCHANGED <<session, data, conversations, registered>>
    BY <1>1, <2>1, <2>2, AnswerKept DEF Buttons, Directions
  <2>3. CASE session.cursor > 4 /\ leave /\ UNCHANGED <<data, conversations, handlers, registered>>
    BY <1>1, <2>3, SessionKept
  <2>4. CASE AskDirection
    BY <1>1, <2>1, <2>4, AskKept
  <2>5. CASE /\ u = "token" /\ Working(h, "answer", u)
             /\ UNCHANGED <<session, data, conversations, registered>>
    BY <1>1, <2>1, <2>5, AnswerKept DEF Buttons
  <2>6. CASE /\ u = "confirm" /\ session.cursor = 4 /\ Working(h, "answer", u)
             /\ UNCHANGED <<session, data, conversations, registered>>
    BY <1>1, <2>1, <2>6, AnswerKept DEF Buttons
  <2>7. CASE u \in Texts /\ (TypeAmount(h, u) \/ TypeDestination(h, u))
    BY <1>1, <2>1, <2>7, TypedKept
  <2> QED BY <1>2, <2>2, <2>3, <2>4, <2>5, <2>6, <2>7 DEF DispatchInside
<1>3. CASE DispatchOutside(h, u)
  <2>1. CASE enter /\ UNCHANGED <<handlers, registered>>
    BY <1>1, <2>1, SessionKept
  <2>2. CASE /\ u = "do:bridge" /\ Working(h, "answer", u)
             /\ UNCHANGED <<session, data, conversations, registered>>
    BY <1>1, <2>2, AnswerKept DEF Buttons
  <2>3. CASE handleStart \/ handleWallet
    <3>1. registered' = TRUE
      BY <2>3, Zenon DEF handleStart, handleWallet, ensureUser, upsertUser, WizardInv
    <3>2. UNCHANGED <<session, data, conversations, handlers>>
      BY <2>3 DEF handleStart, handleWallet
    <3>3. HandlersAtWork' /\ OrdersAreUsers'
      BY <1>1, <3>1, <3>2 DEF WizardInv, HandlersAtWork, WorksOn, Confirmed, OrdersAreUsers
    <3> QED BY <1>1, <3>1, <3>2, <3>3 DEF WizardInv, WizardType, SceneHasConversation
  <2> QED BY <1>3, <2>1, <2>2, <2>3 DEF DispatchOutside
<1> QED BY <1>2, <1>3 DEF DispatchUpdate

\* A button's handler, once its question to Telegram was answered.
LEMMA AnsweredKept ==
  ASSUME WizardInv, NEW h \in Slots, Answered(h)
  PROVE  WizardInv'
<1>1. /\ WizardType /\ WorksOn(h) /\ handlers[h] # None /\ handlers[h].step = "answer"
      /\ handlers \in [Slots -> Handler \cup {None}] /\ UNCHANGED orders
  BY DEF Answered, WizardInv, WizardType, HandlersAtWork
<1>2. conversations \in Nat /\ 1 .. conversations \subseteq Conversations
  BY <1>1, ConversationAssumption DEF ConversationAssumption, WizardType, Conversations
<1>3. CASE Cancel(h)
  BY <1>1, <1>3, SessionKept DEF Cancel
<1>4. CASE EnterAgain(h)
  BY <1>1, <1>4, SessionKept DEF EnterAgain
<1>5. CASE Choose(h)
  <2> DEFINE w == [handlers[h] EXCEPT !.step = "next", !.update = None]
  <2>1. /\ data' \in [Conversations -> WizardData \cup {None}]
        /\ \A c \in Conversations : data[c] \in WizardData => data'[c] \in WizardData
        /\ \A c \in Conversations : data'[c].amount = data[c].amount
    BY <1>1, <1>5, ChosenData
  <2>2. w \in Handler /\ w.step = "next" /\ w.update = None
    BY <1>1 DEF Handler
  <2>3. handlers' = [handlers EXCEPT ![h] = w] /\ UNCHANGED <<session, conversations>>
    BY <1>5 DEF Choose
  <2> HIDE DEF w
  <2>4. /\ handlers' \in [Slots -> Handler \cup {None}] /\ handlers'[h] = w
        /\ \A g \in Slots : g # h => handlers'[g] = handlers[g]
    BY <1>1, <2>2, <2>3
  <2>5. WorksOn(h)'
    BY <2>2, <2>4, ConversationAssumption
    DEF WorksOn, Confirmed, ConversationAssumption, Updates, Buttons
  <2>6. (registered => registered') /\ registered' \in BOOLEAN
    <3>1. registered' = TRUE \/ UNCHANGED registered
      BY <1>5, Zenon DEF Choose, ensureUser, upsertUser
    <3> QED BY <3>1 DEF WizardInv
  <2>7. HandlersAtWork'
    BY <1>2, <2>1, <2>3, <2>4, <2>5, <2>6, OthersKept
  <2> QED BY <1>1, <2>1, <2>3, <2>4, <2>6, <2>7
          DEF WizardInv, WizardType, SceneHasConversation, OrdersAreUsers
<1>6. CASE StartExecute(h)
  <2> DEFINE c == handlers[h].conversation
             w == [handlers[h] EXCEPT !.step = "execute", !.update = None,
                                      !.amount = data[c].amount]
  <2>1. handlers[h].update = "confirm" /\ data[c] # None
    BY <1>6 DEF StartExecute
  <2>2. c \in 1 .. conversations /\ Confirmed(h)
    BY <1>1, <2>1, ConversationAssumption
    DEF WorksOn, Confirmed, ConversationAssumption, Updates, Buttons
  <2>3. data[c] \in WizardData
    BY <1>1, <1>2, <2>1, <2>2 DEF WizardType
  <2>4. /\ w \in Handler /\ w.step = "execute" /\ w.amount = data[c].amount
        /\ w.conversation = c
    BY <1>1, <2>3 DEF Handler, WizardData
  <2>5. handlers' = [handlers EXCEPT ![h] = w] /\ UNCHANGED <<session, data, conversations>>
    BY <1>6 DEF StartExecute
  <2>6. registered' = TRUE
    BY <1>6, Zenon DEF StartExecute, ensureUser, upsertUser, WizardInv
  <2> HIDE DEF w
  <2>7. /\ handlers' \in [Slots -> Handler \cup {None}] /\ handlers'[h] = w
        /\ \A g \in Slots : g # h => handlers'[g] = handlers[g]
    BY <1>1, <2>4, <2>5
  <2>8. session.scene /\ session.conversation = c => session.cursor >= 4
    BY <1>1, <2>2 DEF WorksOn
  <2>9. WorksOn(h)'
    BY <2>2, <2>3, <2>4, <2>5, <2>6, <2>7, <2>8 DEF WorksOn
  <2>10. HandlersAtWork'
    BY <1>2, <2>5, <2>6, <2>7, <2>9, OthersKept
  <2> QED BY <1>1, <2>5, <2>6, <2>7, <2>10
          DEF WizardInv, WizardType, SceneHasConversation, OrdersAreUsers
<1> QED BY <1>3, <1>4, <1>5, <1>6 DEF Answered

\* The order a handler stores is one of a conversation's data, which holds the
\* amount the handler computed.
LEMMA OrderStored ==
  ASSUME WizardInv, NEW h \in Slots, createTransfer(h)
  PROVE  /\ orders' \in Seq(Order) /\ registered
         /\ orders'[Len(orders')].amount = data'[handlers[h].conversation].amount
<1> DEFINE d == data[handlers[h].conversation]
           o == [direction |-> d.direction, destination |-> d.destination,
                 amount |-> handlers[h].amount]
<1>1. /\ handlers[h] # None /\ handlers[h].step = "execute"
      /\ d.direction # None /\ d.destination # None
      /\ orders' = Append(orders, o) /\ UNCHANGED data
  BY DEF createTransfer
<1>2. registered /\ d \in WizardData /\ d.amount = handlers[h].amount
  BY <1>1 DEF WizardInv, HandlersAtWork, WorksOn
<1>3. o \in Order /\ o.amount = d.amount
  BY <1>1, <1>2 DEF WizardData, Order
<1>4. orders \in Seq(Order)
  BY DEF WizardInv, WizardType
<1> HIDE DEF o
<1>5. orders' \in Seq(Order) /\ orders'[Len(orders')] = o
  BY <1>1, <1>3, <1>4
<1> QED BY <1>1, <1>2, <1>3, <1>5

LEMMA CreateKept ==
  ASSUME WizardInv, NEW h \in Slots, createTransfer(h)
  PROVE  WizardInv'
<1>1. orders' \in Seq(Order) /\ registered
  BY OrderStored
<1>2. leave /\ Ends(h) /\ UNCHANGED <<data, conversations, registered>>
  BY DEF createTransfer
<1>3. WizardType /\ conversations \in Nat
  BY ConversationAssumption DEF ConversationAssumption, WizardInv, WizardType
<1>4. /\ session' \in [scene: BOOLEAN, cursor: Nat, conversation: Conversations \cup {None}]
      /\ ~ session'.scene
  BY <1>2, <1>3, LeaveStep
<1>5. /\ handlers' \in [Slots -> Handler \cup {None}]
      /\ \A g \in Slots : g # h => handlers'[g] = handlers[g]
      /\ WorksOn(h)'
  BY <1>2, EndsStep
<1>6. HandlersAtWork'
  BY <1>2, <1>3, <1>4, <1>5, OthersKept
<1>7. registered'
  BY <1>1, <1>2
<1> QED BY <1>1, <1>2, <1>3, <1>4, <1>5, <1>6, <1>7
        DEF WizardInv, WizardType, SceneHasConversation, OrdersAreUsers

LEMMA FailsKept ==
  ASSUME WizardInv, NEW h \in Slots, CallFails(h)
  PROVE  WizardInv'
<1>1. Ends(h) /\ UNCHANGED <<session, data, conversations, registered, orders>>
  BY DEF CallFails
<1>2. conversations \in Nat
  BY ConversationAssumption DEF ConversationAssumption, WizardInv, WizardType
<1>3. /\ handlers' \in [Slots -> Handler \cup {None}]
      /\ \A g \in Slots : g # h => handlers'[g] = handlers[g]
      /\ WorksOn(h)'
  BY <1>1, EndsStep
<1>4. HandlersAtWork'
  BY <1>1, <1>2, <1>3, OthersKept
<1> QED BY <1>1, <1>3, <1>4 DEF WizardInv, WizardType, SceneHasConversation, OrdersAreUsers

LEMMA WizardKept == WizardInv /\ [Next]_vars => WizardInv'
<1> SUFFICES ASSUME WizardInv, [Next]_vars
             PROVE  WizardInv'
  OBVIOUS
<1>1. ASSUME NEW h \in Slots, Advance(h)
      PROVE  WizardInv'
  BY <1>1, SessionKept DEF Advance
<1>2. CASE UNCHANGED vars
  BY <1>2 DEF vars, WizardInv, WizardType, SceneHasConversation, HandlersAtWork, WorksOn,
              Confirmed, OrdersAreUsers
<1> QED BY <1>1, <1>2, DispatchKept, AnsweredKept, CreateKept, FailsKept DEF Next, Slots

LEMMA WizardStarts == Init => WizardInv
<1> SUFFICES ASSUME Init
             PROVE  WizardInv
  OBVIOUS
<1>1. WizardType
  BY ConversationAssumption
  DEF ConversationAssumption, Init, WizardType, Outside, Slots
<1>2. SceneHasConversation /\ HandlersAtWork /\ OrdersAreUsers
  BY DEF Init, Outside, SceneHasConversation, HandlersAtWork, WorksOn, Slots, OrdersAreUsers
<1> QED BY <1>1, <1>2 DEF Init, WizardInv

\* OrdersWellFormed: whatever is typed, pressed and answered, in any order and by
\* any number of handlers at work, an order that scenes/bridge-wizard.cjs stores
\* has a direction, a destination that was checked and an allowed amount or none.
THEOREM OrdersAlwaysWellFormed == Spec => []OrdersWellFormed
<1>1. WizardInv => OrdersWellFormed
  <2> SUFFICES ASSUME WizardInv
               PROVE  OrdersWellFormed
    OBVIOUS
  <2>1. \A i \in 1 .. Len(orders) : orders[i] \in Order
    BY DEF WizardInv, WizardType
  <2>2. \A o \in Order : /\ o.direction \in Directions /\ AddressOf[o.destination] \in Directions
                         /\ o.amount # NaN => minAmountUsdc <= o.amount /\ o.amount <= maxAmountUsdc
    BY DEF Order, Destinations, Allowed
  <2> QED BY <2>1, <2>2 DEF WizardInv, OrdersAreUsers, OrdersWellFormed
<1> QED BY <1>1, WizardStarts, WizardKept, PTL DEF Spec

\* InstructionsMatchOrder: between the amount that stepExecute computes and the
\* row it stores, no other handler changes the amount of the conversation, so
\* that the user is told to send what the row says.
THEOREM OrdersMatchInstructions == Spec => InstructionsMatchOrder
<1>1. WizardInv /\ [Next]_vars =>
        [\A h \in 1 .. MaxHandlers : createTransfer(h) =>
           orders'[Len(orders')].amount = data'[handlers[h].conversation].amount]_vars
  BY OrderStored DEF Slots
<1> QED BY <1>1, WizardStarts, WizardKept, PTL DEF Spec, InstructionsMatchOrder

-----------------------------------------------------------------------------
(* The rate limiter.                                                       *)

Ascending(s) == \A i, j \in 1 .. Len(s) : i <= j => s[i] <= s[j]

\* Updates that are maxRequests apart are a window apart.
SpreadOut(p) == \A i \in 1 .. Len(p) - maxRequests : p[i + maxRequests] - p[i] >= windowMs

\* A bucket is what is left of the times let through when the first k, all stale,
\* are dropped.
Dropped(b, p, k) ==
  /\ b = SubSeq(p, k + 1, Len(p))
  /\ \A i \in 1 .. k : p[i] <= time - windowMs

LimiterInv ==
  /\ time \in Nat
  /\ buckets \in [Users -> Seq(Nat)]
  /\ passed \in [Users -> Seq(Nat)]
  /\ \A u \in Users :
       /\ \A i \in 1 .. Len(passed[u]) : passed[u][i] <= time
       /\ Ascending(passed[u])
       /\ SpreadOut(passed[u])
       /\ \E k \in 0 .. Len(passed[u]) : Dropped(buckets[u], passed[u], k)

\* A set of positions that holds all the positions before each of its own is an
\* interval.
LEMMA PrefixIsInterval ==
  ASSUME NEW n \in Nat, NEW S \in SUBSET (1 .. n),
         \A i \in S : \A j \in 1 .. n : j <= i => j \in S
  PROVE  Cardinality(S) \in 0 .. n /\ S = 1 .. Cardinality(S)
<1>1. CASE S = {}
  BY <1>1, FS_EmptySet
<1>2. CASE S # {}
  <2>1. IsFiniteSet(S) /\ S \in SUBSET Nat
    <3>1. IsFiniteSet(1 .. n)
      BY FS_Interval
    <3>2. IsFiniteSet(S)
      BY <3>1, FS_Subset
    <3> QED BY <3>2
  <2>2. PICK m \in S : \A x \in S : x <= m
    BY <1>2, <2>1, MaxBounds
  <2>3. S = 1 .. m /\ m \in 1 .. n
    <3>1. m \in 1 .. n /\ m \in Nat
      OBVIOUS
    <3>2. ASSUME NEW x \in S
          PROVE  x \in 1 .. m
      <4>1. x \in 1 .. n /\ x <= m
        BY <2>2
      <4> QED BY <3>1, <4>1
    <3>3. ASSUME NEW x \in 1 .. m
          PROVE  x \in S
      <4>1. x \in 1 .. n /\ x <= m
        BY <3>1
      <4> QED BY <4>1
    <3> QED BY <3>1, <3>2, <3>3
  <2>4. Cardinality(1 .. m) = m
    BY <2>3, FS_Interval
  <2> QED BY <2>3, <2>4
<1> QED BY <1>1, <1>2

\* Suffixes of sequences of times.
LEMMA Suffix ==
  ASSUME NEW s \in Seq(Nat), NEW k \in 0 .. Len(s)
  PROVE  /\ SubSeq(s, k + 1, Len(s)) \in Seq(Nat)
         /\ Len(SubSeq(s, k + 1, Len(s))) = Len(s) - k
         /\ \A i \in 1 .. Len(s) - k : SubSeq(s, k + 1, Len(s))[i] = s[k + i]
OBVIOUS

LEMMA SameTimes ==
  ASSUME NEW s \in Seq(Nat), NEW t \in Seq(Nat), Len(s) = Len(t),
         \A i \in 1 .. Len(s) : s[i] = t[i]
  PROVE  s = t
OBVIOUS

LEMMA SuffixOfSuffix ==
  ASSUME NEW s \in Seq(Nat), NEW k \in 0 .. Len(s), NEW j \in 0 .. Len(s) - k,
         NEW t \in Seq(Nat), t = SubSeq(s, k + 1, Len(s))
  PROVE  SubSeq(t, j + 1, Len(t)) = SubSeq(s, k + j + 1, Len(s))
<1>1. Len(t) = Len(s) - k /\ \A i \in 1 .. Len(s) - k : t[i] = s[k + i]
  BY Suffix
<1>2. j \in 0 .. Len(t) /\ k + j \in 0 .. Len(s)
  BY <1>1
<1> DEFINE x == SubSeq(t, j + 1, Len(t))
           y == SubSeq(s, k + j + 1, Len(s))
<1>3. x \in Seq(Nat) /\ Len(x) = Len(s) - k - j /\ \A i \in 1 .. Len(s) - k - j : x[i] = t[j + i]
  BY <1>1, <1>2, Suffix
<1>4. /\ y \in Seq(Nat) /\ Len(y) = Len(s) - (k + j)
      /\ \A i \in 1 .. Len(s) - (k + j) : y[i] = s[k + j + i]
  BY <1>2, Suffix
<1>5. ASSUME NEW i \in 1 .. Len(x)
      PROVE  x[i] = y[i]
  <2>1. /\ i \in 1 .. Len(s) - k - j /\ i \in 1 .. Len(s) - (k + j)
        /\ j + i \in 1 .. Len(s) - k /\ k + (j + i) = k + j + i
    BY <1>3
  <2> QED BY <1>1, <1>3, <1>4, <2>1
<1>6. Len(x) = Len(y)
  BY <1>3, <1>4
<1> HIDE DEF x, y
<1>7. x = y
  BY <1>3, <1>4, <1>5, <1>6, SameTimes
<1> QED BY <1>7 DEF x, y

LEMMA AppendToSuffix ==
  ASSUME NEW s \in Seq(Nat), NEW k \in 0 .. Len(s), NEW n \in Nat
  PROVE  Append(SubSeq(s, k + 1, Len(s)), n) = SubSeq(Append(s, n), k + 1, Len(s) + 1)
<1> DEFINE t == SubSeq(s, k + 1, Len(s))
           x == Append(t, n)
           z == Append(s, n)
           y == SubSeq(z, k + 1, Len(z))
<1>1. t \in Seq(Nat) /\ Len(t) = Len(s) - k /\ \A i \in 1 .. Len(s) - k : t[i] = s[k + i]
  BY Suffix
<1>2. /\ z \in Seq(Nat) /\ Len(z) = Len(s) + 1 /\ z[Len(s) + 1] = n
      /\ \A i \in 1 .. Len(s) : z[i] = s[i]
  OBVIOUS
<1> HIDE DEF t, z
<1>3. /\ x \in Seq(Nat) /\ Len(x) = Len(s) - k + 1 /\ x[Len(s) - k + 1] = n
      /\ \A i \in 1 .. Len(s) - k : x[i] = t[i]
  BY <1>1
<1>4. k \in 0 .. Len(z)
  BY <1>2
<1>5. y \in Seq(Nat) /\ Len(y) = Len(z) - k /\ \A i \in 1 .. Len(z) - k : y[i] = z[k + i]
  BY <1>2, <1>4, Suffix
<1>6. ASSUME NEW i \in 1 .. Len(x)
      PROVE  x[i] = y[i]
  <2>1. i \in 1 .. Len(z) - k /\ y[i] = z[k + i]
    BY <1>2, <1>3, <1>5
  <2>2. CASE i = Len(s) - k + 1
    <3>1. k + i = Len(s) + 1
      BY <2>2
    <3> QED BY <1>2, <1>3, <2>1, <2>2, <3>1
  <2>3. CASE i # Len(s) - k + 1
    <3>1. i \in 1 .. Len(s) - k /\ k + i \in 1 .. Len(s)
      <4>1. Len(s) \in Nat /\ k \in Nat /\ i \in 1 .. Len(s) - k + 1
        BY <1>3
      <4> QED BY <2>3, <4>1
    <3>2. y[i] = s[k + i] /\ x[i] = t[i] /\ t[i] = s[k + i]
      BY <1>1, <1>2, <1>3, <2>1, <3>1
    <3> QED BY <3>2
  <2> QED BY <2>2, <2>3
<1>7. Len(x) = Len(y)
  BY <1>2, <1>3, <1>5
<1> HIDE DEF x, y
<1>8. x = y
  BY <1>3, <1>5, <1>6, <1>7, SameTimes
<1> QED BY <1>2, <1>8 DEF x, y, t, z

\* What Fresh keeps of such a bucket is such a bucket, and nothing in it is stale.
LEMMA FreshDrops ==
  ASSUME time \in Nat, NEW p \in Seq(Nat), Ascending(p), NEW b, NEW k \in 0 .. Len(p),
         Dropped(b, p, k)
  PROVE  /\ \E m \in 0 .. Len(p) : Dropped(Fresh(b), p, m) /\ Len(Fresh(b)) = Len(p) - m
         /\ Fresh(b) \in Seq(Nat)
<1> DEFINE n == Len(p)
           j == Cardinality(Stale(b))
<1>1. n \in Nat /\ windowMs \in Nat
  BY LimiterAssumption DEF LimiterAssumption
<1>2. b = SubSeq(p, k + 1, n)
  BY DEF Dropped
<1>3. b \in Seq(Nat) /\ Len(b) = n - k /\ \A i \in 1 .. n - k : b[i] = p[k + i]
  BY <1>2, Suffix
<1>4. j \in 0 .. n - k /\ Stale(b) = 1 .. j
  <2>1. Stale(b) \in SUBSET (1 .. n - k)
    BY <1>3 DEF Stale
  <2>2. ASSUME NEW i \in Stale(b), NEW e \in 1 .. n - k, e <= i
        PROVE  e \in Stale(b)
    <3>1. i \in 1 .. n - k /\ b[i] = p[k + i] /\ b[e] = p[k + e] /\ p[k + i] <= time - windowMs
      BY <1>3, <2>2 DEF Stale
    <3>2. k + i \in 1 .. n /\ k + e \in 1 .. n /\ k + e <= k + i
      BY <1>1, <2>2, <3>1
    <3>3. p[k + e] <= p[k + i] /\ p[k + e] \in Nat /\ p[k + i] \in Nat
      BY <3>2 DEF Ascending
    <3>4. time - windowMs \in Int
      BY <1>1
    <3>5. b[e] <= time - windowMs
      BY <3>1, <3>3, <3>4
    <3> QED BY <1>3, <3>5 DEF Stale
  <2> DEFINE S == Stale(b)
             l == n - k
  <2>3. l \in Nat /\ S \in SUBSET (1 .. l)
    BY <1>1, <2>1
  <2>4. \A i \in S : \A e \in 1 .. l : e <= i => e \in S
    BY <2>2
  <2> HIDE DEF S, l
  <2>5. Cardinality(S) \in 0 .. l /\ S = 1 .. Cardinality(S)
    BY <2>3, <2>4, PrefixIsInterval
  <2> QED BY <2>5 DEF S, l
<1> DEFINE m == k + j
<1>5. m \in 0 .. n
  BY <1>1, <1>4
<1>6. Fresh(b) = SubSeq(p, m + 1, n)
  BY <1>2, <1>3, <1>4, SuffixOfSuffix DEF Fresh
<1>7. \A i \in 1 .. m : p[i] <= time - windowMs
  <2> SUFFICES ASSUME NEW i \in 1 .. m, i > k
               PROVE  p[i] <= time - windowMs
    BY DEF Dropped
  <2>1. i - k \in 1 .. j
    BY <1>4
  <2>2. b[i - k] <= time - windowMs /\ i - k \in 1 .. n - k
    BY <1>3, <1>4, <2>1 DEF Stale
  <2>3. b[i - k] = p[i]
    BY <1>3, <2>2
  <2> QED BY <2>2, <2>3
<1> HIDE DEF j, m
<1>8. Len(Fresh(b)) = n - m /\ Fresh(b) \in Seq(Nat)
  BY <1>1, <1>5, <1>6
<1> QED BY <1>5, <1>6, <1>7, <1>8 DEF Dropped

LEMMA LimiterStarts == LimiterInit => LimiterInv
<1> SUFFICES ASSUME LimiterInit
             PROVE  LimiterInv
  OBVIOUS
<1>1. /\ time \in Nat /\ buckets \in [Users -> Seq(Nat)] /\ passed \in [Users -> Seq(Nat)]
  BY DEF LimiterInit
<1>2. ASSUME NEW u \in Users
      PROVE  /\ \A i \in 1 .. Len(passed[u]) : passed[u][i] <= time
             /\ Ascending(passed[u]) /\ SpreadOut(passed[u])
             /\ \E k \in 0 .. Len(passed[u]) : Dropped(buckets[u], passed[u], k)
  <2>1. passed[u] = <<>> /\ buckets[u] = <<>> /\ Len(passed[u]) = 0
    BY DEF LimiterInit
  <2>2. Ascending(passed[u])
    BY <2>1 DEF Ascending
  <2>3. \A i \in 1 .. 0 - maxRequests : FALSE
    BY LimiterAssumption DEF LimiterAssumption
  <2>4. SpreadOut(passed[u])
    BY <2>1, <2>3 DEF SpreadOut
  <2>5. SubSeq(<<>>, 1, 0) = <<>>
    OBVIOUS
  <2>6. Dropped(<<>>, <<>>, 0)
    BY <2>5 DEF Dropped
  <2> QED BY <2>1, <2>2, <2>4, <2>6
<1> QED BY <1>1, <1>2 DEF LimiterInv

\* Time passes, and what was stale still is.
LEMMA TickKept ==
  ASSUME LimiterInv, Tick
  PROVE  LimiterInv'
<1>1. time' = time + 1 /\ UNCHANGED <<buckets, passed>> /\ windowMs \in Nat
  BY LimiterAssumption DEF LimiterAssumption, Tick
<1>2. time' \in Nat /\ buckets' \in [Users -> Seq(Nat)] /\ passed' \in [Users -> Seq(Nat)]
  BY <1>1 DEF LimiterInv
<1>3. ASSUME NEW u \in Users
      PROVE  /\ \A i \in 1 .. Len(passed[u]) : passed[u][i] <= time'
             /\ \A k \in 0 .. Len(passed[u]) :
                  Dropped(buckets[u], passed[u], k) => Dropped(buckets[u], passed[u], k)'
  <2>1. passed[u] \in Seq(Nat) /\ time \in Nat
    BY DEF LimiterInv
  <2>2. \A i \in 1 .. Len(passed[u]) : passed[u][i] \in Nat /\ passed[u][i] <= time
    BY <2>1 DEF LimiterInv
  <2>3. \A i \in 1 .. Len(passed[u]) : passed[u][i] <= time'
    BY <1>1, <2>1, <2>2
  <2>4. ASSUME NEW k \in 0 .. Len(passed[u]), Dropped(buckets[u], passed[u], k)
        PROVE  Dropped(buckets[u], passed[u], k)'
    <3>1. \A i \in 1 .. k : i \in 1 .. Len(passed[u]) /\ passed[u][i] <= time - windowMs
      BY <2>1, <2>4 DEF Dropped
    <3>2. \A i \in 1 .. k : passed[u][i] <= time' - windowMs
      BY <1>1, <2>1, <2>2, <3>1
    <3> QED BY <1>1, <2>4, <3>2 DEF Dropped
  <2> QED BY <2>3, <2>4
<1> QED BY <1>1, <1>2, <1>3 DEF LimiterInv, Ascending, SpreadOut

LEMMA PruneKept ==
  ASSUME LimiterInv, Prune
  PROVE  LimiterInv'
<1>1. UNCHANGED <<time, passed>> /\ buckets' = [u \in Users |-> Fresh(buckets[u])]
  BY DEF Prune
<1>2. ASSUME NEW u \in Users
      PROVE  /\ Fresh(buckets[u]) \in Seq(Nat)
             /\ \E k \in 0 .. Len(passed[u]) : Dropped(Fresh(buckets[u]), passed[u], k)
  BY FreshDrops DEF LimiterInv
<1> QED BY <1>1, <1>2 DEF LimiterInv, Ascending, SpreadOut, Dropped

\* An update is let through when fewer than maxRequests of its window were, so the
\* one maxRequests before it is stale.
LEMMA LetThroughKept ==
  ASSUME LimiterInv, NEW u \in Users, LetThrough(u)
  PROVE  LimiterInv'
<1> DEFINE p == passed[u]
           f == Fresh(buckets[u])
           n == Len(p)
<1>1. /\ time \in Nat /\ p \in Seq(Nat) /\ Ascending(p) /\ SpreadOut(p)
      /\ \A i \in 1 .. n : p[i] <= time /\ p[i] \in Nat
      /\ n \in Nat /\ maxRequests \in Nat \ {0} /\ windowMs \in Nat
  BY LimiterAssumption DEF LimiterAssumption, LimiterInv
<1>2. /\ Len(f) < maxRequests /\ UNCHANGED time
      /\ buckets' = [buckets EXCEPT ![u] = Append(f, time)]
      /\ passed' = [passed EXCEPT ![u] = Append(p, time)]
  BY DEF LetThrough
<1>3. PICK m \in 0 .. n : Dropped(f, p, m) /\ Len(f) = n - m /\ f \in Seq(Nat)
  BY <1>1, FreshDrops DEF LimiterInv
<1> DEFINE q == Append(p, time)
<1>4. /\ q \in Seq(Nat) /\ Len(q) = n + 1 /\ q[n + 1] = time
      /\ \A i \in 1 .. n : q[i] = p[i]
  BY <1>1
<1> HIDE DEF p, f, q
<1>5. \A i \in 1 .. n + 1 : q[i] \in Nat /\ q[i] <= time
  <2> SUFFICES ASSUME NEW i \in 1 .. n + 1
               PROVE  q[i] \in Nat /\ q[i] <= time
    OBVIOUS
  <2>1. CASE i = n + 1
    BY <1>1, <1>4, <2>1
  <2>2. CASE i \in 1 .. n
    BY <1>1, <1>4, <2>2
  <2> QED BY <1>1, <2>1, <2>2
<1>6. Ascending(q)
  <2> SUFFICES ASSUME NEW i \in 1 .. n + 1, NEW j \in 1 .. n + 1, i <= j
               PROVE  q[i] <= q[j]
    BY <1>4 DEF Ascending
  <2>1. CASE j = n + 1
    BY <1>4, <1>5, <2>1
  <2>2. CASE j # n + 1
    <3>1. i \in 1 .. n /\ j \in 1 .. n
      BY <1>1, <2>2
    <3>2. p[i] <= p[j]
      BY <1>1, <3>1 DEF Ascending, n
    <3> QED BY <1>4, <3>1, <3>2
  <2> QED BY <2>1, <2>2
<1>7. SpreadOut(q)
  <2> SUFFICES ASSUME NEW i \in 1 .. n + 1 - maxRequests
               PROVE  q[i + maxRequests] - q[i] >= windowMs
    <3>1. Len(q) - maxRequests = n + 1 - maxRequests
      BY <1>1, <1>4
    <3> QED BY <3>1 DEF SpreadOut
  <2>1. CASE i + maxRequests = n + 1
    <3>1. i \in 1 .. m /\ i \in 1 .. n
      BY <1>1, <1>2, <1>3, <2>1
    <3>2. p[i] <= time - windowMs /\ p[i] \in Nat /\ q[i] = p[i]
      BY <1>1, <1>3, <1>4, <3>1 DEF Dropped
    <3>3. q[i + maxRequests] = time
      BY <1>4, <2>1
    <3> QED BY <1>1, <3>2, <3>3
  <2>2. CASE i + maxRequests # n + 1
    <3>1. i \in 1 .. n - maxRequests /\ i \in 1 .. n /\ i + maxRequests \in 1 .. n
      BY <1>1, <2>2
    <3>2. p[i + maxRequests] - p[i] >= windowMs
      BY <1>1, <3>1 DEF SpreadOut, n
    <3>3. q[i] = p[i] /\ q[i + maxRequests] = p[i + maxRequests]
      BY <1>4, <3>1
    <3> QED BY <3>2, <3>3
  <2> QED BY <2>1, <2>2
<1>8. m \in 0 .. Len(q) /\ Dropped(Append(f, time), q, m)
  <2>1. f = SubSeq(p, m + 1, n) /\ \A i \in 1 .. m : p[i] <= time - windowMs
    BY <1>3 DEF Dropped, n
  <2>2. Append(f, time) = SubSeq(q, m + 1, n + 1)
    BY <1>1, <2>1, AppendToSuffix DEF q, n
  <2>3. m \in 0 .. n + 1 /\ \A i \in 1 .. m : i \in 1 .. n
    BY <1>1
  <2>4. \A i \in 1 .. m : q[i] <= time - windowMs
    BY <1>4, <2>1, <2>3
  <2> QED BY <1>4, <2>2, <2>3, <2>4 DEF Dropped
<1>12. Append(f, time) \in Seq(Nat)
  BY <1>1, <1>3
<1> DEFINE g == Append(f, time)
<1>9. buckets' = [buckets EXCEPT ![u] = g] /\ passed' = [passed EXCEPT ![u] = q]
  BY <1>2 DEF q
<1> HIDE DEF g
<1>10. buckets' \in [Users -> Seq(Nat)] /\ passed' \in [Users -> Seq(Nat)]
  BY <1>4, <1>12, <1>9 DEF LimiterInv, g
<1>11. ASSUME NEW v \in Users
       PROVE  /\ \A i \in 1 .. Len(passed'[v]) : passed'[v][i] <= time
              /\ Ascending(passed'[v])
              /\ SpreadOut(passed'[v])
              /\ \E k \in 0 .. Len(passed'[v]) : Dropped(buckets'[v], passed'[v], k)
  <2>1. CASE v = u
    <3>1. passed'[v] = q /\ buckets'[v] = g
      BY <1>9, <2>1 DEF LimiterInv
    <3> QED BY <1>4, <1>5, <1>6, <1>7, <1>8, <3>1 DEF g
  <2>2. CASE v # u
    <3>1. passed'[v] = passed[v] /\ buckets'[v] = buckets[v]
      BY <1>9, <2>2 DEF LimiterInv
    <3> QED BY <3>1 DEF LimiterInv
  <2> QED BY <2>1, <2>2
<1> QED BY <1>1, <1>2, <1>10, <1>11 DEF LimiterInv, Ascending, SpreadOut, Dropped

LEMMA LimiterKept == LimiterInv /\ [LimiterNext]_limiter_vars => LimiterInv'
<1> SUFFICES ASSUME LimiterInv, [LimiterNext]_limiter_vars
             PROVE  LimiterInv'
  OBVIOUS
<1>1. CASE UNCHANGED limiter_vars
  BY <1>1 DEF limiter_vars, LimiterInv, Ascending, SpreadOut, Dropped
<1> QED BY <1>1, TickKept, PruneKept, LetThroughKept DEF LimiterNext

\* Of updates that are spread out, no window holds more than maxRequests: the last
\* one in it and those less than maxRequests before it.
LEMMA SpreadOutWindow == LimiterInv => WindowRespected
<1> SUFFICES ASSUME LimiterInv, NEW u \in Users, NEW t \in 0 .. time
             PROVE  Cardinality({i \in 1 .. Len(passed[u]) :
                                   t - windowMs < passed[u][i] /\ passed[u][i] <= t})
                      <= maxRequests
  BY DEF WindowRespected
<1> DEFINE p == passed[u]
           I == {i \in 1 .. Len(p) : t - windowMs < p[i] /\ p[i] <= t}
<1>1. /\ time \in Nat /\ t \in Nat /\ Ascending(p) /\ SpreadOut(p) /\ Len(p) \in Nat
      /\ \A i \in 1 .. Len(p) : p[i] \in Nat
      /\ maxRequests \in Nat \ {0} /\ windowMs \in Nat
  BY LimiterAssumption DEF LimiterAssumption, LimiterInv
<1>2. CASE I = {}
  <2>1. Cardinality(I) = 0
    BY <1>2, FS_EmptySet
  <2> QED BY <1>1, <2>1
<1>3. CASE I # {}
  <2>1. IsFiniteSet(I) /\ I \in SUBSET Nat
    <3>1. IsFiniteSet(1 .. Len(p))
      BY <1>1, FS_Interval
    <3>2. I \subseteq 1 .. Len(p)
      OBVIOUS
    <3>3. IsFiniteSet(I)
      BY <3>1, <3>2, FS_Subset
    <3> QED BY <3>2, <3>3
  <2>2. PICK j \in I : \A i \in I : i <= j
    BY <1>3, <2>1, MaxBounds
  <2> DEFINE e == j - maxRequests
  <2>3. ASSUME NEW i \in I, i <= e
        PROVE  FALSE
    <3>1. /\ i \in 1 .. Len(p) /\ j \in 1 .. Len(p)
          /\ p[j] <= t /\ t - windowMs < p[i]
      OBVIOUS
    <3>2. e \in 1 .. Len(p) /\ e \in 1 .. Len(p) - maxRequests /\ e + maxRequests = j
      BY <1>1, <2>3, <3>1
    <3> HIDE DEF p, I, e
    <3>3. p[j] - p[e] >= windowMs
      BY <1>1, <3>2 DEF SpreadOut
    <3>4. p[i] <= p[e]
      BY <1>1, <2>3, <3>1, <3>2 DEF Ascending
    <3>5. p[i] \in Nat /\ p[j] \in Nat /\ p[e] \in Nat
      BY <1>1, <3>1, <3>2
    <3> QED BY <1>1, <3>1, <3>3, <3>4, <3>5
  <2>4. j \in Nat /\ I \subseteq Nat
    BY <2>1
  <2> HIDE DEF I
  <2>5. I \subseteq e + 1 .. j
    BY <1>1, <2>2, <2>3, <2>4
  <2>6. IsFiniteSet(e + 1 .. j) /\ Cardinality(e + 1 .. j) = maxRequests
    <3>1. e + 1 \in Int /\ ~ e + 1 > j /\ j - (e + 1) + 1 = maxRequests
      BY <1>1, <2>4
    <3> QED BY <2>4, <3>1, FS_Interval
  <2>7. Cardinality(I) <= Cardinality(e + 1 .. j)
    BY <2>5, <2>6, FS_Subset
  <2> QED BY <2>6, <2>7 DEF I
<1> QED BY <1>2, <1>3

\* WindowRespected: the rolling window of middleware/rateLimiter.cjs lets no more
\* than maxRequests updates of a user through in any window of windowMs, at
\* whatever times they come and whenever the timer prunes.
THEOREM WindowAlwaysRespected == LimiterSpec => []WindowRespected
BY LimiterStarts, LimiterKept, SpreadOutWindow, PTL DEF LimiterSpec
=================================================================================
