----------------------------- MODULE BridgeLock -----------------------------
(***************************************************************************)
(* The Solana program programs/sol-bridge-lock: deposits into the vault,   *)
(* unlocks backed by validator attestations, delayed execution of large    *)
(* withdrawals, the daily and hourly outflow limits, the validator set,    *)
(* pause and resume, and the configuration with its timelocked changes.    *)
(*                                                                         *)
(* Every instruction is one atomic transaction: it either runs to Ok(())   *)
(* or leaves no effect, so each is one action whose guards are the         *)
(* require!s and account constraints of the handler.                       *)
(*                                                                         *)
(* Operators commented "Variant: ..." are deviations from the code that    *)
(* the model checker refutes in place of the definition they precede; no   *)
(* specification uses them.                                                *)
(***************************************************************************)
EXTENDS Integers, Sequences, FiniteSets, Functions, FiniteSetsExt

CONSTANTS
  Keys,            \* keys that call authority-only instructions
  Users,           \* depositors
  Validators,      \* keys that sign unlock messages and may be registered as validators
  Shown,           \* keys that an account other than a ValidatorEntry shows as active
  Recipients,      \* accounts an unlock can pay
  SplMints,        \* SPL token mints that can be deposited
  BurnIds,         \* transfer ids of burns on DecentralChain
  Messages,        \* unlock messages validators may have signed
  DccChainId,      \* config.dcc_chain_id
  Amounts,         \* amounts offered to deposit and deposit_spl
  Gifts,           \* lamports sent to the vault outside the program
  InitConfigs,     \* parameters offered to initialize
  ConfigInputs,    \* parameters offered to update_config
  Proposals,       \* changes offered to propose_config_change
  Hour, Day,       \* 3600 and 86400 seconds
  MaxTime,         \* bound: the clock stops here
  MaxNonce,        \* bound: deposits per user
  MaxGifts,        \* bound: lamports sent to the vault outside the program
  MaxAttestations  \* bound: length of an attestation list

VARIABLES
  authority, guardian, paused,
  config,                      \* the numeric parameters of BridgeConfig
  validator_count,             \* BridgeConfig.validator_count
  validators,                  \* ValidatorEntry accounts that exist
  vault,                       \* lamports of the vault PDA
  spl_vault,                   \* mint -> balance of the vault's token account
  total_locked, total_unlocked, global_nonce,
  user_state,                  \* user -> UserState
  deposits,                    \* transfer id -> DepositRecord
  unlocks,                     \* transfer id -> UnlockRecord
  current_daily_outflow, last_daily_reset,
  current_hourly_outflow, last_hourly_reset,
  pending,                     \* change type -> PendingConfigChange
  now,                         \* Clock::get()?.unix_timestamp
  \* history, read by the properties only
  received,                    \* lamports each recipient was paid
  gifts,                       \* lamports that reached the vault outside the program
  payouts,                     \* transfer id -> time of the payment, daily cap then
  backing                      \* transfer id -> signers and terms at acceptance

admin_vars == <<authority, guardian, paused, config, pending>>
validator_vars == <<validators, validator_count>>
deposit_vars == <<total_locked, global_nonce, user_state, deposits, spl_vault>>
unlock_vars == <<unlocks, total_unlocked, received, payouts, backing>>
limit_vars == <<current_daily_outflow, last_daily_reset,
                current_hourly_outflow, last_hourly_reset>>
vars == <<admin_vars, validator_vars, deposit_vars, unlock_vars, limit_vars,
          vault, gifts, now>>

-----------------------------------------------------------------------------
ConfigParams ==
  [min_validators: Nat, max_validators: Nat, min_deposit: Nat, max_deposit: Nat,
   max_daily_outflow: Nat, max_unlock_amount: Nat, max_hourly_outflow: Nat,
   required_confirmations: Nat,
   large_withdrawal_delay: Int, large_withdrawal_threshold: Nat]

UnlockMessage ==
  [transfer_id: BurnIds, recipient: Recipients, amount: Nat,
   dcc_chain_id: Nat, expiration: Nat]

UnlockRecord ==
  [recipient: Recipients, amount: Nat, timestamp: Nat,
   executed: BOOLEAN, scheduled_time: Int]

SOL == "SOL"
TransferIds == Users \X Nat
UserState == [next_nonce: Nat, total_deposited: Nat]
Payout == [at: Nat, cap: Nat]
Backing ==
  [signers: SUBSET Validators, registered: SUBSET Validators,
   quorum: Nat, threshold: Nat, delay: Int]
DepositRecord == [amount: Nat, asset: {SOL} \cup SplMints]

ChangeTypes == {"AuthorityTransfer", "GuardianTransfer",
                "MinValidatorsDecrease", "MaxDailyOutflowIncrease"}
KeyChanges == {"AuthorityTransfer", "GuardianTransfer"}
ChangeValues == Keys \cup Nat
PendingChange == [new_value: ChangeValues, proposed_at: Nat, execute_after: Nat]

\* Solana timestamps and amounts are unsigned; the constants are inputs of those
\* types, and a pubkey is never mistaken for a number.
ASSUME ConstantsAssumption ==
  /\ InitConfigs \subseteq ConfigParams /\ ConfigInputs \subseteq ConfigParams
  /\ Messages \subseteq UnlockMessage
  /\ Amounts \subseteq Nat /\ Gifts \subseteq Nat
  /\ Hour \in Nat \ {0} /\ Day \in Nat \ {0}
  /\ MaxTime \in Nat /\ MaxNonce \in Nat /\ MaxGifts \in Nat /\ MaxAttestations \in Nat
  /\ SOL \notin SplMints /\ Shown \subseteq Validators

delay_for(t) == IF t = "MaxDailyOutflowIncrease" THEN Day ELSE 2 * Day

\* An account created under a key that had none.
Put(f, k, v) == [x \in DOMAIN f \cup {k} |-> IF x = k THEN v ELSE f[x]]
\* An account closed.
Close(f, k) == Restrict(f, DOMAIN f \ {k})

-----------------------------------------------------------------------------
\* initialize: the parameter checks, and the account as it leaves the handler.
ValidInit(c) ==
  /\ c.min_validators \in 1 .. c.max_validators
  /\ c.max_validators <= 20
  /\ c.min_deposit > 0
  /\ c.max_deposit > c.min_deposit
  /\ c.max_daily_outflow > 0
  /\ c.required_confirmations >= 32

Init ==
  /\ \E c \in InitConfigs : ValidInit(c) /\ config = c
  /\ authority \in Keys
  /\ guardian \in Keys
  /\ paused = FALSE
  /\ validators = {} /\ validator_count = 0
  /\ vault = 0 /\ gifts = 0
  /\ spl_vault = [m \in SplMints |-> 0]
  /\ total_locked = 0 /\ total_unlocked = 0 /\ global_nonce = 0
  /\ user_state = [u \in Users |-> [next_nonce |-> 0, total_deposited |-> 0]]
  /\ deposits = [i \in {} |-> 0] /\ unlocks = [i \in {} |-> 0]
  /\ now = 1
  /\ current_daily_outflow = 0 /\ last_daily_reset = now
  /\ current_hourly_outflow = 0 /\ last_hourly_reset = now
  /\ pending = [t \in {} |-> 0]
  /\ received = [r \in Recipients |-> 0]
  /\ payouts = [i \in {} |-> 0] /\ backing = [i \in {} |-> 0]

-----------------------------------------------------------------------------
(* Deposits                                                                *)

DepositAllowed(u, amount) ==
  /\ ~ paused
  /\ amount \in config.min_deposit .. config.max_deposit
  /\ user_state[u].next_nonce < MaxNonce

\* The bookkeeping deposit and deposit_spl share. The transfer id is the hash
\* of (sender, nonce), represented by the pair; `init` of the record's PDA
\* fails when one exists.
RecordDeposit(u, amount, asset) ==
  LET id == <<u, user_state[u].next_nonce>> IN
  /\ id \notin DOMAIN deposits
  /\ deposits' = Put(deposits, id, [amount |-> amount, asset |-> asset])
  /\ global_nonce' = global_nonce + 1
  /\ user_state' = [user_state EXCEPT ![u] =
                      [next_nonce |-> @.next_nonce + 1,
                       total_deposited |-> @.total_deposited + amount]]

Deposit(u, amount) ==
  /\ DepositAllowed(u, amount)
  /\ RecordDeposit(u, amount, SOL)
  /\ vault' = vault + amount
  /\ total_locked' = total_locked + amount
  /\ UNCHANGED <<admin_vars, validator_vars, unlock_vars, limit_vars,
                 spl_vault, gifts, now>>

\* Variant: token deposits are added to the counter of locked lamports.
DepositSplLocked(u, amount, m) ==
  /\ DepositAllowed(u, amount)
  /\ RecordDeposit(u, amount, m)
  /\ spl_vault' = [spl_vault EXCEPT ![m] = @ + amount]
  /\ total_locked' = total_locked + amount
  /\ UNCHANGED <<admin_vars, validator_vars, unlock_vars, limit_vars, vault, gifts, now>>

DepositSpl(u, amount, m) ==
  /\ DepositAllowed(u, amount)
  /\ RecordDeposit(u, amount, m)
  /\ spl_vault' = [spl_vault EXCEPT ![m] = @ + amount]
  /\ UNCHANGED <<admin_vars, validator_vars, unlock_vars, limit_vars,
                 vault, total_locked, gifts, now>>

-----------------------------------------------------------------------------
(* Unlocks                                                                 *)

\* The tumbling windows: what the handler sees after its reset check.
DayOver == now - last_daily_reset >= Day
HourOver == now - last_hourly_reset >= Hour
DailyOutflow == IF DayOver THEN 0 ELSE current_daily_outflow

HourlyOutflow == IF HourOver THEN 0 ELSE current_hourly_outflow

ResetDaily == last_daily_reset' = (IF DayOver THEN now ELSE last_daily_reset)
ResetHourly == last_hourly_reset' = (IF HourOver THEN now ELSE last_hourly_reset)

\* The hourly breaker is disabled by 0; scheduling a withdrawal also counts.
ChargeHourly(amount) ==
  /\ ResetHourly
  /\ IF config.max_hourly_outflow > 0
     THEN /\ HourlyOutflow + amount <= config.max_hourly_outflow
          /\ current_hourly_outflow' = HourlyOutflow + amount
     ELSE current_hourly_outflow' = HourlyOutflow

\* The attestations of an unlock: keys whose Ed25519 signature of the message
\* the runtime verified, in the order they were passed.
AttestationLists == UNION {[1 .. n -> Validators] : n \in 0 .. MaxAttestations}

Signers(att) == {att[k] : k \in DOMAIN att}

\* Variant: a key that attests twice counts twice.
Repeatable(att) == Signers(att) # {}

\* The keys found active in an account the caller passes. The account is known by
\* its bytes alone: at least ValidatorEntry::LEN of them, the key from byte 8, a
\* byte 40 that is not zero. Every ValidatorEntry has that form; other accounts may
\* have it too, for neither the owner nor the discriminator is compared.
FoundActive == validators \cup Shown

Distinct(att) == \A j, k \in DOMAIN att : att[j] = att[k] => j = k

Attested(att) ==
  /\ Len(att) >= config.min_validators
  /\ Distinct(att)
  /\ Signers(att) \subseteq FoundActive

\* CPI transfer from the vault, with the total the handler keeps.
PayOut(id, to, amount) ==
  /\ vault >= amount
  /\ vault' = vault - amount
  /\ received' = [received EXCEPT ![to] = @ + amount]
  /\ total_unlocked' = total_unlocked + amount
  /\ payouts' = Put(payouts, id, [at |-> now, cap |-> config.max_daily_outflow])

NewRecord(m, executed, scheduled_time) ==
  unlocks' = Put(unlocks, m.transfer_id,
                 [recipient |-> m.recipient, amount |-> m.amount, timestamp |-> now,
                  executed |-> executed, scheduled_time |-> scheduled_time])

UnlockAllowed(m, att) ==
  /\ ~ paused
  /\ m.transfer_id \notin DOMAIN unlocks
  /\ m.dcc_chain_id = DccChainId
  /\ m.expiration > now
  /\ m.amount <= config.max_unlock_amount
  /\ Attested(att)
  /\ DailyOutflow + m.amount <= config.max_daily_outflow

\* Variant: a withdrawal of exactly the threshold is not large.
IsLargeStrictly(m) == m.amount > config.large_withdrawal_threshold

IsLarge(m) == m.amount >= config.large_withdrawal_threshold

Unlock(m, att) ==
  /\ UnlockAllowed(m, att)
  /\ ResetDaily
  /\ ChargeHourly(m.amount)
  /\ backing' = Put(backing, m.transfer_id,
                    [signers |-> Signers(att), registered |-> validators,
                     quorum |-> config.min_validators,
                     threshold |-> config.large_withdrawal_threshold,
                     delay |-> config.large_withdrawal_delay])
  /\ \/ /\ IsLarge(m)
        /\ NewRecord(m, FALSE, now + config.large_withdrawal_delay)
        /\ current_daily_outflow' = DailyOutflow
        /\ UNCHANGED <<vault, received, total_unlocked, payouts>>
     \/ /\ ~ IsLarge(m)
        /\ PayOut(m.transfer_id, m.recipient, m.amount)
        /\ NewRecord(m, TRUE, 0)
        /\ current_daily_outflow' = DailyOutflow + m.amount
  /\ UNCHANGED <<admin_vars, validator_vars, deposit_vars, gifts, now>>

\* Variant: the recipient account is not compared with the record.
ExecuteToAnyone(id, recipient) ==
  /\ id \in DOMAIN unlocks
  /\ ~ unlocks[id].executed
  /\ unlocks[id].scheduled_time > 0
  /\ ~ paused
  /\ now >= unlocks[id].scheduled_time
  /\ PayOut(id, recipient, unlocks[id].amount)
  /\ ResetDaily
  /\ current_daily_outflow' = DailyOutflow + unlocks[id].amount
  /\ current_daily_outflow' <= config.max_daily_outflow
  /\ unlocks' = [unlocks EXCEPT ![id].executed = TRUE]
  /\ UNCHANGED <<admin_vars, validator_vars, deposit_vars, backing,
                 current_hourly_outflow, last_hourly_reset, gifts, now>>

\* Variant: the executed flag is not looked at.
ExecuteAgain(id, recipient) ==
  /\ id \in DOMAIN unlocks
  /\ unlocks[id].scheduled_time > 0
  /\ recipient = unlocks[id].recipient
  /\ ~ paused
  /\ now >= unlocks[id].scheduled_time
  /\ PayOut(id, recipient, unlocks[id].amount)
  /\ ResetDaily
  /\ current_daily_outflow' = DailyOutflow + unlocks[id].amount
  /\ current_daily_outflow' <= config.max_daily_outflow
  /\ unlocks' = [unlocks EXCEPT ![id].executed = TRUE]
  /\ UNCHANGED <<admin_vars, validator_vars, deposit_vars, backing,
                 current_hourly_outflow, last_hourly_reset, gifts, now>>

\* Variant: the daily window is restarted without clearing the counter.
ExecuteWithoutReset(id, recipient) ==
  /\ id \in DOMAIN unlocks
  /\ ~ unlocks[id].executed
  /\ unlocks[id].scheduled_time > 0
  /\ recipient = unlocks[id].recipient
  /\ ~ paused
  /\ now >= unlocks[id].scheduled_time
  /\ PayOut(id, recipient, unlocks[id].amount)
  /\ ResetDaily
  /\ current_daily_outflow' = current_daily_outflow + unlocks[id].amount
  /\ current_daily_outflow' <= config.max_daily_outflow
  /\ unlocks' = [unlocks EXCEPT ![id].executed = TRUE]
  /\ UNCHANGED <<admin_vars, validator_vars, deposit_vars, backing,
                 current_hourly_outflow, last_hourly_reset, gifts, now>>

\* Variant: a delayed withdrawal is not charged against the daily cap.
ExecuteUncapped(id, recipient) ==
  /\ id \in DOMAIN unlocks
  /\ ~ unlocks[id].executed
  /\ unlocks[id].scheduled_time > 0
  /\ recipient = unlocks[id].recipient
  /\ ~ paused
  /\ now >= unlocks[id].scheduled_time
  /\ PayOut(id, recipient, unlocks[id].amount)
  /\ UNCHANGED <<current_daily_outflow, last_daily_reset>>
  /\ unlocks' = [unlocks EXCEPT ![id].executed = TRUE]
  /\ UNCHANGED <<admin_vars, validator_vars, deposit_vars, backing,
                 current_hourly_outflow, last_hourly_reset, gifts, now>>

\* Anyone may call it, with any recipient account.
ExecuteScheduledUnlock(id, recipient) ==
  LET record == unlocks[id] IN
  /\ id \in DOMAIN unlocks
  /\ ~ record.executed
  /\ record.scheduled_time > 0
  /\ recipient = record.recipient
  /\ ~ paused
  /\ now >= record.scheduled_time
  /\ PayOut(id, recipient, record.amount)
  /\ ResetDaily
  /\ current_daily_outflow' = DailyOutflow + record.amount
  /\ current_daily_outflow' <= config.max_daily_outflow
  /\ unlocks' = [unlocks EXCEPT ![id].executed = TRUE]
  /\ UNCHANGED <<admin_vars, validator_vars, deposit_vars, backing,
                 current_hourly_outflow, last_hourly_reset, gifts, now>>

-----------------------------------------------------------------------------
(* Administration                                                          *)

EmergencyPause(caller) ==
  /\ caller \in {authority, guardian}
  /\ paused' = TRUE
  /\ UNCHANGED <<authority, guardian, config, pending, validator_vars, deposit_vars,
                 unlock_vars, limit_vars, vault, gifts, now>>

EmergencyResume(caller) ==
  /\ caller = authority
  /\ paused' = FALSE
  /\ UNCHANGED <<authority, guardian, config, pending, validator_vars, deposit_vars,
                 unlock_vars, limit_vars, vault, gifts, now>>

RegisterValidator(caller, v) ==
  /\ caller = authority
  /\ validator_count < config.max_validators
  /\ v \notin validators
  /\ validators' = validators \cup {v}
  /\ validator_count' = validator_count + 1
  /\ UNCHANGED <<admin_vars, deposit_vars, unlock_vars, limit_vars, vault, gifts, now>>

RemoveValidator(caller, v) ==
  /\ caller = authority
  /\ v \in validators
  /\ validator_count > config.min_validators
  /\ validators' = validators \ {v}
  /\ validator_count' = validator_count - 1
  /\ UNCHANGED <<admin_vars, deposit_vars, unlock_vars, limit_vars, vault, gifts, now>>

\* Variant: update_config does not refuse a higher daily cap.
UpdateAllowedRaising(p) ==
  /\ p.max_daily_outflow > 0
  /\ p.min_validators \in config.min_validators .. config.max_validators
  /\ p.max_validators = config.max_validators

\* update_config takes an Option per field. p holds the value of a given field
\* and the current value of an omitted one, so a check applies where p differs;
\* max_deposit is compared with the min_deposit assigned just before it.
UpdateAllowed(p) ==
  /\ p.min_deposit # config.min_deposit => p.min_deposit > 0
  /\ p.max_deposit # config.max_deposit => p.max_deposit > p.min_deposit
  /\ p.max_daily_outflow # config.max_daily_outflow
       => p.max_daily_outflow \in 1 .. config.max_daily_outflow
  /\ p.max_unlock_amount # config.max_unlock_amount => p.max_unlock_amount > 0
  /\ p.required_confirmations # config.required_confirmations
       => p.required_confirmations >= 32
  /\ p.large_withdrawal_delay # config.large_withdrawal_delay
       => p.large_withdrawal_delay >= 0
  /\ p.min_validators # config.min_validators
       => p.min_validators \in config.min_validators .. config.max_validators
  /\ p.max_hourly_outflow # config.max_hourly_outflow => p.max_hourly_outflow > 0
  /\ p.max_validators = config.max_validators

UpdateConfig(caller, p) ==
  /\ caller = authority
  /\ UpdateAllowed(p)
  /\ config' = p
  /\ UNCHANGED <<authority, guardian, paused, pending, validator_vars, deposit_vars,
                 unlock_vars, limit_vars, vault, gifts, now>>

ProposalAllowed(t, v) ==
  \/ t \in KeyChanges /\ v \in Keys
  \/ t = "MinValidatorsDecrease" /\ v \in Nat /\ v >= 1 /\ v < config.min_validators
  \/ t = "MaxDailyOutflowIncrease" /\ v \in Nat /\ v > config.max_daily_outflow

\* The PDA is seeded by the change type: one proposal per type at a time.
ProposeConfigChange(caller, t, v) ==
  /\ caller = authority
  /\ t \notin DOMAIN pending
  /\ ProposalAllowed(t, v)
  /\ pending' = Put(pending, t, [new_value |-> v, proposed_at |-> now,
                                 execute_after |-> now + delay_for(t)])
  /\ UNCHANGED <<authority, guardian, paused, config, validator_vars, deposit_vars,
                 unlock_vars, limit_vars, vault, gifts, now>>

ApplyChange(t, v) ==
  \/ /\ t = "AuthorityTransfer"
     /\ authority' = v
     /\ UNCHANGED <<guardian, config>>
  \/ /\ t = "GuardianTransfer"
     /\ guardian' = v
     /\ UNCHANGED <<authority, config>>
  \/ /\ t = "MinValidatorsDecrease"
     /\ v >= 1 /\ v <= config.max_validators
     /\ config' = [config EXCEPT !.min_validators = v]
     /\ UNCHANGED <<authority, guardian>>
  \/ /\ t = "MaxDailyOutflowIncrease"
     /\ v > 0
     /\ config' = [config EXCEPT !.max_daily_outflow = v]
     /\ UNCHANGED <<authority, guardian>>

\* Variant: the account of an executed change is not closed.
ExecuteConfigChangeKeeping(t) ==
  /\ t \in DOMAIN pending
  /\ now >= pending[t].execute_after
  /\ ApplyChange(t, pending[t].new_value)
  /\ UNCHANGED <<paused, pending, validator_vars, deposit_vars, unlock_vars, limit_vars,
                 vault, gifts, now>>

\* Anyone may call it.
ExecuteConfigChange(t) ==
  /\ t \in DOMAIN pending
  /\ now >= pending[t].execute_after
  /\ ApplyChange(t, pending[t].new_value)
  /\ pending' = Close(pending, t)
  /\ UNCHANGED <<paused, validator_vars, deposit_vars, unlock_vars, limit_vars,
                 vault, gifts, now>>

CancelConfigChange(caller, t) ==
  /\ caller = authority
  /\ t \in DOMAIN pending
  /\ pending' = Close(pending, t)
  /\ UNCHANGED <<authority, guardian, paused, config, validator_vars, deposit_vars,
                 unlock_vars, limit_vars, vault, gifts, now>>

-----------------------------------------------------------------------------
(* Environment                                                             *)

\* The vault is a system account: anyone can send lamports to it directly.
Gift(n) ==
  /\ gifts + n <= MaxGifts
  /\ vault' = vault + n
  /\ gifts' = gifts + n
  /\ UNCHANGED <<admin_vars, validator_vars, deposit_vars, unlock_vars, limit_vars, now>>

Tick ==
  /\ now < MaxTime
  /\ now' = now + 1
  /\ UNCHANGED <<admin_vars, validator_vars, deposit_vars, unlock_vars, limit_vars,
                 vault, gifts>>

UserNext ==
  \E u \in Users, a \in Amounts : Deposit(u, a) \/ \E m \in SplMints : DepositSpl(u, a, m)

UnlockNext ==
  \/ \E m \in Messages, att \in AttestationLists : Unlock(m, att)
  \/ \E id \in BurnIds, r \in Recipients : ExecuteScheduledUnlock(id, r)

ValidatorNext ==
  \E k \in Keys, v \in Validators : RegisterValidator(k, v) \/ RemoveValidator(k, v)

AdminNext ==
  \/ \E k \in Keys : EmergencyPause(k) \/ EmergencyResume(k)
  \/ \E k \in Keys, p \in ConfigInputs : UpdateConfig(k, p)
  \/ \E k \in Keys, p \in Proposals : ProposeConfigChange(k, p.type, p.value)
  \/ \E t \in ChangeTypes :
       ExecuteConfigChange(t) \/ \E k \in Keys : CancelConfigChange(k, t)

Next == UserNext \/ UnlockNext \/ ValidatorNext \/ AdminNext
          \/ (\E n \in Gifts : Gift(n)) \/ Tick

Spec == Init /\ [][Next]_vars

-----------------------------------------------------------------------------
(* Properties                                                              *)

AdminType ==
  /\ authority \in Keys /\ guardian \in Keys /\ paused \in BOOLEAN
  /\ config \in ConfigParams
  /\ DOMAIN pending \subseteq ChangeTypes
  /\ pending \in [DOMAIN pending -> PendingChange]
  /\ \A t \in DOMAIN pending :
       pending[t].new_value \in (IF t \in KeyChanges THEN Keys ELSE Nat)

ValidatorType == validators \subseteq Validators /\ validator_count \in Nat

DepositType ==
  /\ total_locked \in Nat /\ global_nonce \in Nat
  /\ user_state \in [Users -> UserState]
  /\ DOMAIN deposits \subseteq TransferIds
  /\ deposits \in [DOMAIN deposits -> DepositRecord]
  /\ spl_vault \in [SplMints -> Nat]

UnlockType ==
  /\ DOMAIN unlocks \subseteq BurnIds
  /\ unlocks \in [DOMAIN unlocks -> UnlockRecord]
  /\ total_unlocked \in Nat
  /\ received \in [Recipients -> Nat]
  /\ DOMAIN payouts \subseteq DOMAIN unlocks
  /\ payouts \in [DOMAIN payouts -> Payout]
  /\ DOMAIN backing = DOMAIN unlocks
  /\ backing \in [DOMAIN backing -> Backing]

LimitType ==
  /\ current_daily_outflow \in Nat /\ current_hourly_outflow \in Nat
  /\ last_daily_reset \in Nat /\ last_hourly_reset \in Nat

\* Every variable has its type: the accounts of the program hold what their
\* structs declare, and no checked subtraction ever went below zero.
TypeOK ==
  /\ AdminType /\ ValidatorType /\ DepositType /\ UnlockType /\ LimitType
  /\ vault \in Nat /\ gifts \in Nat /\ now \in Nat

\* The vault holds what was locked, less what was unlocked, plus what was sent
\* to it outside the program: no instruction moves lamports without booking
\* them, nor books what it did not move (BRIDGE_SPEC 2.2, invariant 1).
VaultBalances == vault + total_unlocked = total_locked + gifts

SumAmount(records, ids) ==
  SumFunctionOnSet([i \in DOMAIN records |-> records[i].amount], ids)

Executed == {i \in DOMAIN unlocks : unlocks[i].executed}

\* The counters of BridgeConfig are the totals of the accounts they count: every
\* native deposit in total_locked, every executed unlock in total_unlocked and
\* with its recipient, every SPL deposit in its token account, every deposit in
\* the global nonce and in its sender's total, and under a nonce below the
\* sender's next one, without a gap; every ValidatorEntry in validator_count,
\* within the maximum.
BooksMatchRecords ==
  LET OfAsset(a) == {i \in DOMAIN deposits : deposits[i].asset = a}
      OfUser(u) == {i \in DOMAIN deposits : i[1] = u}
      PaidTo(r) == {i \in Executed : unlocks[i].recipient = r}
  IN
  /\ total_locked = SumAmount(deposits, OfAsset(SOL))
  /\ \A m \in SplMints : spl_vault[m] = SumAmount(deposits, OfAsset(m))
  /\ total_unlocked = SumAmount(unlocks, Executed)
  /\ \A r \in Recipients : received[r] = SumAmount(unlocks, PaidTo(r))
  /\ global_nonce = Cardinality(DOMAIN deposits)
  /\ \A u \in Users :
       /\ user_state[u].total_deposited = SumAmount(deposits, OfUser(u))
       /\ OfUser(u) = {<<u, n>> : n \in 0 .. user_state[u].next_nonce - 1}
  /\ validator_count = Cardinality(validators) /\ validator_count <= config.max_validators

\* The nonces a user's deposits used are exactly those below next_nonce: no gap
\* and no reuse, whichever of deposit and deposit_spl consumed them, so the
\* transfer id of the next deposit is never taken (BRIDGE_SPEC 2.2, invariant 6).
NoncesContiguous ==
  \A u \in Users, n \in Nat :
    <<u, n>> \in DOMAIN deposits <=> n < user_state[u].next_nonce

PaidIn(from, to) == {i \in DOMAIN payouts : payouts[i].at >= from /\ payouts[i].at < to}
CapsIn(from, to) == {payouts[i].cap : i \in PaidIn(from, to)}

\* current_daily_outflow is the sum of the payments since the last daily reset,
\* immediate and scheduled ones, and of nothing else. current_hourly_outflow is
\* the sum of the withdrawals accepted since the last hourly reset, scheduled
\* ones at their acceptance, when the breaker was configured by initialize
\* (update_config cannot disable it afterwards).
WindowAccounting ==
  /\ current_daily_outflow = SumAmount(unlocks, PaidIn(last_daily_reset, now + 1))
  /\ (\A c \in InitConfigs : c.max_hourly_outflow > 0) =>
       current_hourly_outflow =
         SumAmount(unlocks, {i \in DOMAIN unlocks : unlocks[i].timestamp >= last_hourly_reset})

\* Whatever the interleaving of unlocks, delayed executions, resets and changes
\* of the cap, no 24 hours see more than twice the highest cap in force at one
\* of their payments: what the tumbling window really guarantees.
TwoWindowsCap ==
  \A s \in 0 .. now :
    PaidIn(s, s + Day) # {} =>
      SumAmount(unlocks, PaidIn(s, s + Day)) <= 2 * Max(CapsIn(s, s + Day))

\* A withdrawal that was large when it was accepted is paid no earlier than the
\* delay in force at its acceptance, whatever happens to the threshold and the
\* delay meanwhile; and no record is paid before it exists.
LargeWithdrawalsWait ==
  \A i \in DOMAIN payouts :
    /\ payouts[i].at >= unlocks[i].timestamp
    /\ unlocks[i].amount >= backing[i].threshold
         => payouts[i].at >= unlocks[i].timestamp + backing[i].delay

\* Every unlock record, and so every payment, was attested by at least as many
\* different keys as the quorum at its acceptance, and a key that counted was then
\* registered or shown by another account: one that was removed while attestations
\* were collected, or was never registered, counts in no other way.
BackedByQuorum ==
  \A i \in DOMAIN backing :
    /\ Cardinality(backing[i].signers) >= backing[i].quorum
    /\ backing[i].signers \ backing[i].registered \subseteq Shown

\* "we verify the validator is in the active set" (unlock.rs:140): a key that
\* counted was registered when the unlock was accepted.
SignersRegistered ==
  \A i \in DOMAIN backing : backing[i].signers \subseteq backing[i].registered

\* A pending change is still a change of the announced kind when its delay is
\* over: update_config moves the two parameters only away from it and a second
\* proposal of the type is refused, so the checks made at the proposal need not
\* be repeated at the execution.
PendingStillValid ==
  /\ "MinValidatorsDecrease" \in DOMAIN pending =>
       pending["MinValidatorsDecrease"].new_value \in 1 .. config.min_validators - 1
  /\ "MaxDailyOutflowIncrease" \in DOMAIN pending =>
       /\ pending["MaxDailyOutflowIncrease"].new_value \in Nat
       /\ pending["MaxDailyOutflowIncrease"].new_value > config.max_daily_outflow

\* The vault as a custodian: unlock records are its claims, executed ones settled.
C == INSTANCE Custody WITH
       ClaimIds <- BurnIds,
       held <- vault,
       claims <- [i \in DOMAIN unlocks |->
                    [recipient |-> unlocks[i].recipient, amount |-> unlocks[i].amount]],
       settled <- Executed

\* Each burn is accepted once and paid at most once, to the attested recipient
\* and in the attested amount, also when the payment is delayed.
PaysEachBurnOnce == C!CSpec

Announced(t) ==
  {[value |-> pending[u].new_value, since |-> pending[u].proposed_at] :
     u \in DOMAIN pending \cap {t}}
Lower(v, w) == v < w
Higher(v, w) == v > w
Always(v, w) == TRUE

MinLock == INSTANCE Timelock WITH
             Delay <- 2 * Day, Looser <- Lower, clock <- now,
             value <- config.min_validators,
             proposal <- Announced("MinValidatorsDecrease")
CapLock == INSTANCE Timelock WITH
             Delay <- Day, Looser <- Higher, clock <- now,
             value <- config.max_daily_outflow,
             proposal <- Announced("MaxDailyOutflowIncrease")

AuthorityLock == INSTANCE Timelock WITH
                   Delay <- 2 * Day, Looser <- Always, clock <- now,
                   value <- authority, proposal <- Announced("AuthorityTransfer")
GuardianLock == INSTANCE Timelock WITH
                  Delay <- 2 * Day, Looser <- Always, clock <- now,
                  value <- guardian, proposal <- Announced("GuardianTransfer")

\* The quorum is lowered, the authority and the guardian replaced only 48 hours
\* after this very value was announced, the daily cap raised only 24 hours after:
\* through update_config, proposals that are replaced or cancelled, and executions
\* by anyone, in any order.
ChangesAreTimelocked ==
  MinLock!TSpec /\ CapLock!TSpec /\ AuthorityLock!TSpec /\ GuardianLock!TSpec
=============================================================================
