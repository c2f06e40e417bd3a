------------------------------ MODULE Monitor ------------------------------
(***************************************************************************)
(* The monitoring service (monitoring/src): cron tasks that compare the    *)
(* vault with the controller's counter of minted tokens, watch the         *)
(* validators and the heights of the chains, raise alerts, and on a        *)
(* serious one try to pause the bridge with the guardian's key.            *)
(*                                                                         *)
(* Every await of a task is a step of its own, so that the chains move     *)
(* between two readings of one check, and a slow check overlaps the next   *)
(* tick. A reading may fail at any time. Sending the alerts of a step is   *)
(* part of it: a channel that fails is caught on its own and holds up      *)
(* nothing. The list behind /monitor/alerts, which no check reads, and the *)
(* detector's volume and rate checks, which nothing calls, are left out.   *)
(*                                                                         *)
(* Operators commented "Variant: ..." are deviations from the code that    *)
(* the model checker refutes in place of the definition they precede; no   *)
(* specification uses them.                                                *)
(***************************************************************************)
EXTENDS Integers, FiniteSets

CONSTANTS
  Checks,         \* overlapping runs of the supply check
  Endpoints,      \* number of VALIDATOR_HEALTH_ENDPOINTS
  minActiveValidators,
  Channels,       \* channels that are configured
  Deposited,      \* lamports of a deposit
  Divisor,        \* lamports per unit of wSOL on DecentralChain
  Losses,         \* lamports that leave the vault without a burn
  MaxDeposits,    \* bound: deposits
  MaxResumes,     \* bound: resumptions by the authority
  MaxFailures     \* bound: requests and transactions that fail

VARIABLES
  vault,          \* lamports of the vault
  supply,         \* wSOL units in circulation
  total_minted,   \* the controller's data entry "total_minted"
  deposits,       \* deposits made
  due,            \* deposits not minted yet
  owed,           \* burns not unlocked yet
  paused,         \* BridgeConfig.paused
  resumes,        \* resumptions by the authority
  up,             \* endpoint -> its /health would answer ok
  apart,          \* the heights are further apart than maxChainDesyncBlocks
  check,          \* the supply checks
  poll,           \* the loop of checkValidatorHealth
  halting,        \* task -> the call of triggerEmergencyPause it is in
  failures,       \* failed requests and transactions
  alarmed         \* history: someone received a critical or emergency alert

token_vars == <<supply, total_minted, due, owed>>
chain_vars == <<vault, token_vars, deposits, paused, resumes>>
world_vars == <<up, apart>>
task_vars == <<check, poll, halting>>
monitor_vars == <<chain_vars, world_vars, task_vars, failures, alarmed>>

-----------------------------------------------------------------------------
\* The instance is one the service can be configured for.
ASSUME ConstantsAssumption ==
  /\ Endpoints \in Nat \ {0} /\ minActiveValidators \in Nat
  /\ Deposited \in Nat /\ Divisor \in Nat \ {0} /\ Losses \subseteq Nat
  /\ MaxDeposits \in Nat /\ MaxResumes \in Nat /\ MaxFailures \in Nat

Tasks == Checks \cup {"validators", "chains"}
Unit == Deposited \div Divisor

\* The locals of checkSupplyInvariant. `then` is history: the counter at the
\* moment the vault was read, 0 when the check could not read the counter.
Check == [step: {"idle", "supply", "config"}, lockedSol: Nat, wsolSupply: Nat, then: Nat]
Idle == [step |-> "idle", lockedSol |-> 0, wsolSupply |-> 0, then |-> 0]

\* The locals of checkValidatorHealth; next is 0 between two ticks.
Poll == [next: 0 .. Endpoints, active: Nat]
NoPoll == [next |-> 0, active |-> 0]

Severities == {"warning", "critical", "emergency"}

MonitorInit ==
  /\ vault = 0 /\ supply = 0 /\ total_minted = 0
  /\ deposits = 0 /\ due = 0 /\ owed = 0
  /\ paused = FALSE /\ resumes = 0
  /\ up = [e \in 1 .. Endpoints |-> TRUE] /\ apart = FALSE
  /\ check = [c \in Checks |-> Idle]
  /\ poll = NoPoll
  /\ halting = [t \in Tasks |-> "no"]
  /\ failures = 0 /\ alarmed = FALSE

Fails(n) == failures + n <= MaxFailures /\ failures' = failures + n

-----------------------------------------------------------------------------
(* Alerts                                                                  *)

ChannelsFor(severity) ==
  {ch \in Channels :
     \/ ch \in {"slack", "webhook"}
     \/ ch = "telegram" /\ severity \in {"critical", "emergency"}
     \/ ch = "pagerduty" /\ severity = "emergency"}

\* dispatch: every channel for the severity is tried, each on its own. `lost` are
\* the alerts of which no channel took its message; n requests failed before.
Dispatch(severities, n) ==
  \E lost \in SUBSET severities :
    /\ Fails(n + Cardinality(lost))
    /\ alarmed' = (alarmed \/ \E s \in severities \ lost : s # "warning" /\ ChannelsFor(s) # {})

\* Variant: the alert is sent, and the pause is left to whoever reads it.
RaiseOnly(t, severities, autoPause, n) ==
  /\ Dispatch(severities, n)
  /\ UNCHANGED halting

\* raiseAlert: 'alert' is emitted, then 'auto_pause'; neither handler is awaited.
Raise(t, severities, autoPause, n) ==
  /\ Dispatch(severities, n)
  /\ halting' = IF autoPause THEN [halting EXCEPT ![t] = "solana"] ELSE halting

\* The guardian's transaction is sent once and may not land. The guardian's key
\* is taken to be configured: without one nothing is attempted.
PauseSolana(t) ==
  /\ halting[t] = "solana"
  /\ halting' = [halting EXCEPT ![t] = "dcc"]
  /\ \/ paused' = TRUE /\ UNCHANGED failures
     \/ Fails(1) /\ UNCHANGED paused
  /\ UNCHANGED <<vault, token_vars, deposits, resumes, world_vars, check, poll, alarmed>>

\* The controller has no function "pause": the invocation is refused.
PauseDcc(t) ==
  /\ halting[t] = "dcc"
  /\ halting' = [halting EXCEPT ![t] = "no"]
  /\ UNCHANGED <<chain_vars, world_vars, check, poll, failures, alarmed>>

-----------------------------------------------------------------------------
(* The supply check, every 30 seconds                                      *)

\* A tick: getBalance of the vault. The check ends when it cannot be read.
ReadVault(c) ==
  /\ check[c].step = "idle" /\ halting[c] = "no"
  /\ \/ /\ check' = [check EXCEPT ![c] = [step |-> "supply", lockedSol |-> vault,
                                           wsolSupply |-> 0, then |-> total_minted]]
        /\ UNCHANGED failures
     \/ Fails(1) /\ UNCHANGED check
  /\ UNCHANGED <<chain_vars, world_vars, poll, halting, alarmed>>

HasSupply(c, n, then) ==
  check' = [check EXCEPT ![c] = [step |-> "config", lockedSol |-> check[c].lockedSol,
                                 wsolSupply |-> n, then |-> then]]

\* Variant: the reading is net of what was burnt.
ReadSupplyNet(c) ==
  /\ check[c].step = "supply"
  /\ \/ /\ HasSupply(c, IF supply < total_minted THEN supply ELSE total_minted, check[c].then)
        /\ UNCHANGED failures
     \/ Fails(1) /\ HasSupply(c, 0, 0)
  /\ UNCHANGED <<chain_vars, world_vars, poll, halting, alarmed>>

\* The counter total_minted; an unreachable node leaves 0.
ReadSupply(c) ==
  /\ check[c].step = "supply"
  /\ \/ HasSupply(c, total_minted, check[c].then) /\ UNCHANGED failures
     \/ Fails(1) /\ HasSupply(c, 0, 0)
  /\ UNCHANGED <<chain_vars, world_vars, poll, halting, alarmed>>

Exceeds(c) == check[c].wsolSupply > check[c].lockedSol

\* More than 0.1% of the vault is not matched by the reading.
Drifts(c) == (check[c].lockedSol - check[c].wsolSupply) * 1000 > check[c].lockedSol

\* checkSupplyInvariant of the detector, once the config account was read.
Compare(c) ==
  /\ \/ Exceeds(c) /\ Raise(c, {"emergency"}, TRUE, 0)
     \/ ~ Exceeds(c) /\ Raise(c, IF Drifts(c) THEN {"warning"} ELSE {}, FALSE, 0)

\* The account is read for the log; a check that cannot read it compares nothing.
ReadConfig(c) ==
  /\ check[c].step = "config"
  /\ \/ Compare(c)
     \/ Fails(1) /\ UNCHANGED <<halting, alarmed>>
  /\ check' = [check EXCEPT ![c] = Idle]
  /\ UNCHANGED <<chain_vars, world_vars, poll>>

-----------------------------------------------------------------------------
(* The health checks                                                       *)

\* checkValidatorHealth of the detector: too few pause, any fault is a warning.
TooFew(active) == active < minActiveValidators

CompareValidators(active, n) ==
  Raise("validators",
        (IF TooFew(active) THEN {"critical"} ELSE {})
          \cup (IF active < Endpoints THEN {"warning"} ELSE {}), TooFew(active), n)

\* One round of the loop over the endpoints; the last one compares. An endpoint
\* that answers anything else than ok, or not at all, counts as a fault.
PollValidator ==
  LET e == IF poll.next = 0 THEN 1 ELSE poll.next
      Answer(ok, n) ==
        LET active == poll.active + (IF ok THEN 1 ELSE 0)
        IN \/ /\ e < Endpoints
              /\ poll' = [next |-> e + 1, active |-> active]
              /\ Fails(n) /\ UNCHANGED <<halting, alarmed>>
           \/ /\ e = Endpoints
              /\ poll' = NoPoll
              /\ CompareValidators(active, n)
  IN
  /\ halting["validators"] = "no"
  /\ Answer(up[e], 0) \/ Answer(FALSE, 1)
  /\ UNCHANGED <<chain_vars, world_vars, check>>

\* checkChainSync of the detector: chains that are apart pause, a slow one is a
\* warning.
CompareChains(slow, desync, n) ==
  Raise("chains", (IF slow THEN {"warning"} ELSE {})
                    \cup (IF desync THEN {"critical"} ELSE {}), desync, n)

\* checkChainHealth: no slot, no comparison; no height, height 0 and a difference
\* that is always too large.
CheckChains ==
  /\ halting["chains"] = "no"
  /\ \/ Fails(1) /\ UNCHANGED <<halting, alarmed>>
     \/ \E n \in 0 .. 1, slow \in BOOLEAN : CompareChains(slow, apart \/ n = 1, n)
  /\ UNCHANGED <<chain_vars, world_vars, check, poll>>

-----------------------------------------------------------------------------
(* The bridge and the validators, as the monitor sees them                 *)

Deposit ==
  /\ ~ paused /\ deposits < MaxDeposits
  /\ deposits' = deposits + 1
  /\ vault' = vault + Deposited
  /\ due' = due + 1
  /\ UNCHANGED <<supply, total_minted, owed, paused, resumes, world_vars, task_vars,
                 failures, alarmed>>

\* `mint` adds to total_minted, `mintToken` only to the token's own counter.
Mint(entry) ==
  /\ due > 0
  /\ due' = due - 1
  /\ supply' = supply + Unit
  /\ total_minted' = IF entry = "mint" THEN total_minted + Unit ELSE total_minted
  /\ UNCHANGED <<vault, deposits, owed, paused, resumes, world_vars, task_vars,
                 failures, alarmed>>

Burn ==
  /\ supply >= Unit
  /\ supply' = supply - Unit
  /\ owed' = owed + 1
  /\ UNCHANGED <<vault, total_minted, deposits, due, paused, resumes, world_vars, task_vars,
                 failures, alarmed>>

Unlock ==
  /\ ~ paused /\ owed > 0 /\ vault >= Deposited
  /\ owed' = owed - 1
  /\ vault' = vault - Deposited
  /\ UNCHANGED <<supply, total_minted, deposits, due, paused, resumes, world_vars, task_vars,
                 failures, alarmed>>

\* What the monitor is there for: lamports leave the vault without a burn.
Loss(n) ==
  /\ n <= vault
  /\ vault' = vault - n
  /\ UNCHANGED <<token_vars, deposits, paused, resumes, world_vars, task_vars, failures, alarmed>>

Resume ==
  /\ paused /\ resumes < MaxResumes
  /\ paused' = FALSE /\ resumes' = resumes + 1
  /\ UNCHANGED <<vault, token_vars, deposits, world_vars, task_vars, failures, alarmed>>

\* A validator stops or starts again; the heights drift apart or meet again.
Change ==
  /\ \/ \E e \in 1 .. Endpoints : up' = [up EXCEPT ![e] = ~ @] /\ UNCHANGED apart
     \/ apart' = ~ apart /\ UNCHANGED up
  /\ UNCHANGED <<chain_vars, task_vars, failures, alarmed>>

SupplyTask(c) ==
  ReadVault(c) \/ ReadSupply(c) \/ ReadConfig(c) \/ PauseSolana(c) \/ PauseDcc(c)
ValidatorTask == PollValidator \/ PauseSolana("validators") \/ PauseDcc("validators")
ChainTask == CheckChains \/ PauseSolana("chains") \/ PauseDcc("chains")

BridgeNext ==
  \/ Deposit \/ Burn \/ Unlock \/ Resume
  \/ \E entry \in {"mint", "mintToken"} : Mint(entry)
  \/ \E n \in Losses : Loss(n)

MonitorNext == BridgeNext \/ Change \/ (\E c \in Checks : SupplyTask(c)) \/ ValidatorTask \/ ChainTask

MonitorSpec == MonitorInit /\ [][MonitorNext]_monitor_vars

\* The cron ticks and the event loop go on.
Fairness ==
  /\ \A c \in Checks : WF_monitor_vars(SupplyTask(c))
  /\ WF_monitor_vars(ValidatorTask) /\ WF_monitor_vars(ChainTask)

MonitorFairSpec == MonitorSpec /\ Fairness

-----------------------------------------------------------------------------
(* Properties                                                              *)

\* Every variable has its type.
MonitorTypeOK ==
  /\ vault \in Nat /\ supply \in Nat /\ total_minted \in Nat
  /\ deposits \in Nat /\ due \in Nat /\ owed \in Nat /\ resumes \in Nat /\ failures \in Nat
  /\ paused \in BOOLEAN /\ apart \in BOOLEAN /\ alarmed \in BOOLEAN
  /\ up \in [1 .. Endpoints -> BOOLEAN]
  /\ check \in [Checks -> Check]
  /\ poll \in Poll
  /\ halting \in [Tasks -> {"no", "solana", "dcc"}]

\* A supply check that has all its readings and will raise no emergency proves
\* that, when it read the vault, there was a lamport for every unit the counter
\* had, whatever was deposited, minted, burnt or unlocked between its readings:
\* the vault is read first and the counter never falls. (A unit stands for
\* Divisor lamports: what the check does not prove is in the README.)
QuietMeansCovered ==
  \A c \in Checks :
    check[c].step = "config" /\ ~ Exceeds(c) => check[c].then <= check[c].lockedSol

\* Endpoints without which the minimum is missed.
Needed == {down \in SUBSET (1 .. Endpoints) : Endpoints - Cardinality(down) < minActiveValidators}

\* A condition the monitor watches for that lasts ends with the program paused
\* for good and someone alarmed, though requests, transactions and messages
\* fail, checks overlap, and the authority resumes the bridge meanwhile. Of the
\* validators the same ones must stay away: they are asked one after the other,
\* and validators that take turns can all be found at work.
DangerPauses ==
  /\ <>[](total_minted > vault) => <>[](paused /\ alarmed)
  /\ <>[]apart => <>[](paused /\ alarmed)
  /\ \A down \in Needed : <>[](\A e \in down : ~ up[e]) => <>[](paused /\ alarmed)
=============================================================================
