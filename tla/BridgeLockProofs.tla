-------------------------- MODULE BridgeLockProofs --------------------------
(***************************************************************************)
(* Theorems about BridgeLock for every value of its constants: the types,  *)
(* the balance of the vault, the nonces, the pending changes, the quorum   *)
(* and the delay of what is paid, that the program implements Custody and  *)
(* the timelocks, and that its counters are the sums over its records.     *)
(***************************************************************************)
EXTENDS BridgeLock, SumProofs, FiniteSetTheorems, TLAPS

(***************************************************************************)
(* Type correctness                                                        *)
(***************************************************************************)
LEMMA TypeInit == Init => TypeOK
<1> SUFFICES ASSUME Init PROVE TypeOK
  OBVIOUS
<1> USE ConstantsAssumption
<1>1. AdminType
  BY DEF Init, AdminType
<1>2. ValidatorType
  BY DEF Init, ValidatorType
<1>3. DepositType
  BY DEF Init, DepositType, UserState
<1>4. UnlockType
  BY DEF Init, UnlockType
<1>5. LimitType
  BY DEF Init, LimitType
<1>6. vault \in Nat /\ gifts \in Nat /\ now \in Nat
  BY DEF Init
<1>7. QED
  BY <1>1, <1>2, <1>3, <1>4, <1>5, <1>6 DEF TypeOK

LEMMA TypeDeposits ==
  ASSUME TypeOK, NEW u \in Users, NEW a \in Amounts,
         Deposit(u, a) \/ \E m \in SplMints : DepositSpl(u, a, m)
  PROVE  TypeOK'
<1> USE ConstantsAssumption
<1>1. AdminType' /\ ValidatorType' /\ UnlockType' /\ LimitType'
  BY DEF TypeOK, Deposit, DepositSpl, AdminType, ValidatorType, UnlockType, LimitType,
         admin_vars, validator_vars, unlock_vars, limit_vars
<1>2. a \in Nat
  OBVIOUS
<1>3. ASSUME NEW asset \in {SOL} \cup SplMints, RecordDeposit(u, a, asset)
      PROVE  /\ global_nonce' \in Nat
             /\ user_state' \in [Users -> UserState]
             /\ DOMAIN deposits' \subseteq TransferIds
             /\ deposits' \in [DOMAIN deposits' -> DepositRecord]
  <2> DEFINE id == <<u, user_state[u].next_nonce>>
             r == [amount |-> a, asset |-> asset]
  <2>1. user_state[u].next_nonce \in Nat /\ user_state[u].total_deposited \in Nat
    BY DEF TypeOK, DepositType, UserState
  <2>2. id \in TransferIds
    BY <2>1 DEF TransferIds
  <2>3. r \in DepositRecord
    BY <1>2 DEF DepositRecord
  <2>4. deposits' = Put(deposits, id, r)
    BY <1>3 DEF RecordDeposit
  <2> HIDE DEF id, r
  <2>5. deposits \in [DOMAIN deposits -> DepositRecord]
    BY DEF TypeOK, DepositType
  <2>7. /\ DOMAIN Put(deposits, id, r) = DOMAIN deposits \cup {id}
        /\ Put(deposits, id, r) \in [DOMAIN Put(deposits, id, r) -> DepositRecord]
    BY <2>3, <2>5 DEF Put
  <2>6. global_nonce' \in Nat /\ user_state' \in [Users -> UserState]
    BY <1>2, <1>3, <2>1 DEF RecordDeposit, TypeOK, DepositType, UserState
  <2>8. deposits' \in [DOMAIN deposits' -> DepositRecord]
    BY <2>4, <2>7
  <2>9. DOMAIN deposits' \subseteq TransferIds
    BY <2>2, <2>4, <2>7 DEF TypeOK, DepositType
  <2>10. global_nonce' \in Nat /\ user_state' \in [Users -> UserState]
    BY <2>6
  <2>11. QED
    BY <2>8, <2>9, <2>10
<1>4. CASE Deposit(u, a)
  <2>1. total_locked' \in Nat /\ vault' \in Nat /\ gifts' \in Nat /\ now' \in Nat
        /\ spl_vault' \in [SplMints -> Nat]
    BY <1>2, <1>4 DEF Deposit, TypeOK, DepositType
  <2>2. QED
    BY <1>1, <1>3, <1>4, <2>1 DEF Deposit, TypeOK, DepositType
<1>5. ASSUME NEW m \in SplMints, DepositSpl(u, a, m)
      PROVE  TypeOK'
  <2>1. total_locked' \in Nat /\ vault' \in Nat /\ gifts' \in Nat /\ now' \in Nat
        /\ spl_vault' \in [SplMints -> Nat]
    BY <1>2, <1>5 DEF DepositSpl, TypeOK, DepositType
  <2>2. QED
    BY <1>1, <1>3, <1>5, <2>1 DEF DepositSpl, TypeOK, DepositType
<1>6. QED
  BY <1>4, <1>5

LEMMA TypeUnlock ==
  ASSUME TypeOK, NEW m \in Messages, NEW att \in AttestationLists, Unlock(m, att)
  PROVE  TypeOK'
<1> USE ConstantsAssumption
<1> DEFINE id == m.transfer_id
<1>1. AdminType' /\ ValidatorType' /\ DepositType' /\ gifts' \in Nat /\ now' \in Nat
  BY DEF TypeOK, Unlock, AdminType, ValidatorType, DepositType,
         admin_vars, validator_vars, deposit_vars
<1>2. /\ id \in BurnIds /\ m.recipient \in Recipients /\ m.amount \in Nat
      /\ id \notin DOMAIN unlocks
  BY DEF UnlockMessage, Unlock, UnlockAllowed
<1>3. /\ config.min_validators \in Nat /\ config.max_daily_outflow \in Nat
      /\ config.large_withdrawal_threshold \in Nat /\ config.large_withdrawal_delay \in Int
  BY DEF TypeOK, AdminType, ConfigParams
<1>4. DailyOutflow \in Nat /\ HourlyOutflow \in Nat
  BY DEF TypeOK, LimitType, DailyOutflow, HourlyOutflow
<1>5. LimitType'
  <2>. \/ current_daily_outflow' = DailyOutflow
       \/ current_daily_outflow' = DailyOutflow + m.amount
    BY DEF Unlock
  <2>1. current_daily_outflow' \in Nat
    BY <1>2, <1>4
  <2>2. current_hourly_outflow' \in Nat
    BY <1>2, <1>4 DEF Unlock, ChargeHourly
  <2>3. last_daily_reset' \in Nat /\ last_hourly_reset' \in Nat
    BY DEF Unlock, ChargeHourly, ResetDaily, ResetHourly, TypeOK, LimitType
  <2>4. QED
    BY <2>1, <2>2, <2>3 DEF LimitType
<1>6. DOMAIN backing' = DOMAIN unlocks \cup {id} /\ backing' \in [DOMAIN backing' -> Backing]
  <2> DEFINE b == [signers |-> Signers(att), registered |-> validators,
                   quorum |-> config.min_validators,
                   threshold |-> config.large_withdrawal_threshold,
                   delay |-> config.large_withdrawal_delay]
  <2>1. Signers(att) \subseteq Validators /\ validators \subseteq Validators
    BY DEF Signers, AttestationLists, TypeOK, ValidatorType
  <2>2. b \in Backing
    BY <1>3, <2>1 DEF Backing
  <2>3. backing' = Put(backing, id, b)
    BY DEF Unlock
  <2> HIDE DEF id, b
  <2>4. backing \in [DOMAIN backing -> Backing] /\ DOMAIN backing = DOMAIN unlocks
    BY DEF TypeOK, UnlockType
  <2>5. QED
    BY <2>2, <2>3, <2>4 DEF Put
<1>7. ASSUME NEW e \in BOOLEAN, NEW t \in Int, NewRecord(m, e, t)
      PROVE  DOMAIN unlocks' = DOMAIN unlocks \cup {id} /\ unlocks' \in [DOMAIN unlocks' -> UnlockRecord]
  <2> DEFINE r == [recipient |-> m.recipient, amount |-> m.amount, timestamp |-> now,
                   executed |-> e, scheduled_time |-> t]
  <2>1. r \in UnlockRecord
    BY <1>2, <1>7 DEF UnlockRecord, TypeOK
  <2>2. unlocks' = Put(unlocks, id, r)
    BY <1>7 DEF NewRecord
  <2> HIDE DEF id, r
  <2>3. unlocks \in [DOMAIN unlocks -> UnlockRecord]
    BY DEF TypeOK, UnlockType
  <2>4. QED
    BY <2>1, <2>2, <2>3 DEF Put
<1>8. CASE /\ NewRecord(m, FALSE, now + config.large_withdrawal_delay)
           /\ UNCHANGED <<vault, received, total_unlocked, payouts>>
  <2>1. now + config.large_withdrawal_delay \in Int
    BY <1>3 DEF TypeOK
  <2>2. /\ DOMAIN unlocks' = DOMAIN unlocks \cup {id}
        /\ unlocks' \in [DOMAIN unlocks' -> UnlockRecord]
    BY <1>7, <1>8, <2>1
  <2>3. UnlockType'
    BY <1>2, <1>6, <1>8, <2>2 DEF UnlockType, TypeOK
  <2>4. vault' \in Nat
    BY <1>8 DEF TypeOK
  <2>5. QED
    BY <1>1, <1>5, <2>3, <2>4 DEF TypeOK
<1>9. CASE PayOut(id, m.recipient, m.amount) /\ NewRecord(m, TRUE, 0)
  <2>1. /\ DOMAIN unlocks' = DOMAIN unlocks \cup {id}
        /\ unlocks' \in [DOMAIN unlocks' -> UnlockRecord]
    BY <1>7, <1>9, TRUE \in BOOLEAN, 0 \in Int
  <2>2. /\ DOMAIN payouts' = DOMAIN payouts \cup {id}
        /\ payouts' \in [DOMAIN payouts' -> Payout]
    BY <1>3, <1>9 DEF PayOut, Put, Payout, TypeOK, UnlockType
  <2>3. vault' \in Nat /\ received' \in [Recipients -> Nat] /\ total_unlocked' \in Nat
    BY <1>2, <1>9 DEF PayOut, TypeOK, UnlockType
  <2>4. UnlockType'
    BY <1>2, <1>6, <2>1, <2>2, <2>3 DEF UnlockType, TypeOK
  <2>5. QED
    BY <1>1, <1>5, <2>3, <2>4 DEF TypeOK
<1>10. QED
  BY <1>8, <1>9 DEF Unlock

LEMMA TypeExecuteScheduledUnlock ==
  ASSUME TypeOK, NEW id \in BurnIds, NEW to \in Recipients, ExecuteScheduledUnlock(id, to)
  PROVE  TypeOK'
<1>1. AdminType' /\ ValidatorType' /\ DepositType' /\ gifts' \in Nat /\ now' \in Nat
  BY DEF TypeOK, ExecuteScheduledUnlock, AdminType, ValidatorType, DepositType,
         admin_vars, validator_vars, deposit_vars
<1>2. id \in DOMAIN unlocks /\ unlocks[id] \in UnlockRecord /\ unlocks[id].amount \in Nat
  BY DEF ExecuteScheduledUnlock, TypeOK, UnlockType, UnlockRecord
<1>3. DailyOutflow \in Nat
  BY DEF TypeOK, LimitType, DailyOutflow
<1>4. LimitType'
  BY <1>2, <1>3 DEF ExecuteScheduledUnlock, ResetDaily, TypeOK, LimitType
<1>5. DOMAIN unlocks' = DOMAIN unlocks /\ unlocks' \in [DOMAIN unlocks' -> UnlockRecord]
  BY <1>2 DEF ExecuteScheduledUnlock, TypeOK, UnlockType, UnlockRecord
<1>6. /\ DOMAIN payouts' = DOMAIN payouts \cup {id}
      /\ payouts' \in [DOMAIN payouts' -> Payout]
  BY DEF ExecuteScheduledUnlock, PayOut, Put, Payout, TypeOK, UnlockType, AdminType, ConfigParams
<1>7. vault' \in Nat /\ received' \in [Recipients -> Nat] /\ total_unlocked' \in Nat
  BY <1>2 DEF ExecuteScheduledUnlock, PayOut, TypeOK, UnlockType
<1>8. UnlockType'
  BY <1>2, <1>5, <1>6, <1>7 DEF ExecuteScheduledUnlock, UnlockType, TypeOK
<1>9. QED
  BY <1>1, <1>4, <1>7, <1>8 DEF TypeOK

\* Instructions that leave deposits, unlocks, limits and the vault alone.
LEMMA TypeAdministration ==
  ASSUME TypeOK,
         UNCHANGED <<deposit_vars, unlock_vars, limit_vars, vault, gifts, now>>,
         AdminType', ValidatorType'
  PROVE  TypeOK'
BY DEF TypeOK, DepositType, UnlockType, LimitType, deposit_vars, unlock_vars, limit_vars

LEMMA TypeAdminNext == TypeOK /\ (AdminNext \/ ValidatorNext) => TypeOK'
<1> SUFFICES ASSUME TypeOK, AdminNext \/ ValidatorNext PROVE TypeOK'
  OBVIOUS
<1> USE ConstantsAssumption DEF TypeOK
<1>1. ASSUME NEW k \in Keys, EmergencyPause(k) \/ EmergencyResume(k)
      PROVE  TypeOK'
  BY <1>1, TypeAdministration DEF EmergencyPause, EmergencyResume, AdminType,
     ValidatorType, validator_vars
<1>2. ASSUME NEW k \in Keys, NEW p \in ConfigInputs, UpdateConfig(k, p)
      PROVE  TypeOK'
  BY <1>2, TypeAdministration DEF UpdateConfig, AdminType, ValidatorType, validator_vars
<1>3. ASSUME NEW k \in Keys, NEW p \in Proposals, ProposeConfigChange(k, p.type, p.value)
      PROVE  TypeOK'
  <2> DEFINE c == [new_value |-> p.value, proposed_at |-> now,
                   execute_after |-> now + delay_for(p.type)]
  <2>1. p.type \in ChangeTypes /\ p.value \in ChangeValues
    BY <1>3 DEF ProposeConfigChange, ProposalAllowed, ChangeTypes, KeyChanges, ChangeValues
  <2>2. c \in PendingChange
    BY <2>1 DEF PendingChange, delay_for
  <2>3. pending' = Put(pending, p.type, c)
    BY <1>3 DEF ProposeConfigChange
  <2> HIDE DEF c
  <2>4. DOMAIN pending' \subseteq ChangeTypes /\ pending' \in [DOMAIN pending' -> PendingChange]
    BY <2>1, <2>2, <2>3 DEF Put, AdminType
  <2>. c.new_value \in (IF p.type \in KeyChanges THEN Keys ELSE Nat)
    BY <1>3 DEF c, ProposeConfigChange, ProposalAllowed, KeyChanges
  <2>5. QED
    BY <1>3, <2>3, <2>4, TypeAdministration
    DEF ProposeConfigChange, Put, AdminType, ValidatorType, validator_vars
<1>4. ASSUME NEW t \in ChangeTypes, pending' = Close(pending, t)
      PROVE  /\ DOMAIN pending' \subseteq ChangeTypes
             /\ pending' \in [DOMAIN pending' -> PendingChange]
             /\ \A u \in DOMAIN pending' :
                  pending'[u].new_value \in (IF u \in KeyChanges THEN Keys ELSE Nat)
  BY <1>4 DEF AdminType, Close, Restrict
<1>5. ASSUME NEW t \in ChangeTypes, ExecuteConfigChange(t)
      PROVE  TypeOK'
  <2> DEFINE v == pending[t].new_value
  <2>1. v \in (IF t \in KeyChanges THEN Keys ELSE Nat)
    BY <1>5 DEF ExecuteConfigChange, AdminType
  <2>2. ApplyChange(t, v)
    BY <1>5 DEF ExecuteConfigChange
  <2>3. authority' \in Keys /\ guardian' \in Keys
    BY <2>1, <2>2 DEF ApplyChange, KeyChanges, AdminType
  <2>4. config' \in ConfigParams
    BY <2>1, <2>2 DEF ApplyChange, KeyChanges, AdminType, ConfigParams
  <2>5. AdminType' /\ ValidatorType'
    BY <1>4, <1>5, <2>3, <2>4
    DEF ExecuteConfigChange, AdminType, ValidatorType, validator_vars
  <2>6. QED
    BY <1>5, <2>5, TypeAdministration DEF ExecuteConfigChange
<1>6. ASSUME NEW k \in Keys, NEW t \in ChangeTypes, CancelConfigChange(k, t)
      PROVE  TypeOK'
  BY <1>4, <1>6, TypeAdministration
  DEF CancelConfigChange, AdminType, ValidatorType, validator_vars
<1>7. ASSUME NEW k \in Keys, NEW v \in Validators,
             RegisterValidator(k, v) \/ RemoveValidator(k, v)
      PROVE  TypeOK'
  BY <1>7, TypeAdministration DEF RegisterValidator, RemoveValidator, AdminType,
     ConfigParams, ValidatorType, admin_vars
<1>8. QED
  BY <1>1, <1>2, <1>3, <1>5, <1>6, <1>7 DEF AdminNext, ValidatorNext

LEMMA TypeNext == TypeOK /\ [Next]_vars => TypeOK'
<1> SUFFICES ASSUME TypeOK, [Next]_vars PROVE TypeOK'
  OBVIOUS
<1> USE ConstantsAssumption
<1>1. CASE UserNext
  BY <1>1, TypeDeposits DEF UserNext
<1>2. CASE UnlockNext
  BY <1>2, TypeUnlock, TypeExecuteScheduledUnlock DEF UnlockNext
<1>3. CASE ValidatorNext \/ AdminNext
  BY <1>3, TypeAdminNext
<1>4. ASSUME NEW n \in Gifts, Gift(n)
      PROVE  TypeOK'
  BY <1>4 DEF Gift, TypeOK, AdminType, ValidatorType, DepositType, UnlockType, LimitType,
     admin_vars, validator_vars, deposit_vars, unlock_vars, limit_vars
<1>5. CASE Tick
  BY <1>5 DEF Tick, TypeOK, AdminType, ValidatorType, DepositType, UnlockType, LimitType,
     admin_vars, validator_vars, deposit_vars, unlock_vars, limit_vars
<1>6. CASE UNCHANGED vars
  BY <1>6 DEF vars, TypeOK, AdminType, ValidatorType, DepositType, UnlockType, LimitType,
     admin_vars, validator_vars, deposit_vars, unlock_vars, limit_vars
<1>7. QED
  BY <1>1, <1>2, <1>3, <1>4, <1>5, <1>6 DEF Next

\* Every account and counter keeps its type, the pending changes included: a
\* timelocked value is a key for the two transfers and a number for the others.
THEOREM TypeCorrect == Spec => []TypeOK
BY TypeInit, TypeNext, PTL DEF Spec

(***************************************************************************)
(* The vault                                                               *)
(***************************************************************************)

\* Only deposits, payments and gifts touch the four sums, and each touches one
\* on either side of the equation by the same amount.
LEMMA BalancesNext == TypeOK /\ VaultBalances /\ [Next]_vars => VaultBalances'
<1> SUFFICES ASSUME TypeOK, VaultBalances, [Next]_vars PROVE VaultBalances'
  OBVIOUS
<1> USE ConstantsAssumption DEF VaultBalances
<1>0. vault \in Nat /\ gifts \in Nat /\ total_locked \in Nat /\ total_unlocked \in Nat
  BY DEF TypeOK, DepositType, UnlockType
<1>1. ASSUME NEW u \in Users, NEW a \in Amounts, Deposit(u, a)
      PROVE  VaultBalances'
  <2>1. /\ vault' = vault + a /\ total_locked' = total_locked + a
        /\ UNCHANGED <<total_unlocked, gifts>>
    BY <1>1 DEF Deposit, unlock_vars
  <2>2. QED
    BY <1>0, <2>1
<1>2. ASSUME NEW u \in Users, NEW a \in Amounts, NEW m \in SplMints, DepositSpl(u, a, m)
      PROVE  VaultBalances'
  BY <1>2 DEF DepositSpl, unlock_vars
<1>3. ASSUME NEW id, NEW to, NEW n \in Nat, PayOut(id, to, n),
             UNCHANGED <<deposit_vars, gifts>>
      PROVE  VaultBalances'
  <2>1. /\ vault' = vault - n /\ total_unlocked' = total_unlocked + n
        /\ UNCHANGED <<total_locked, gifts>>
    BY <1>3 DEF PayOut, deposit_vars
  <2>2. QED
    BY <1>0, <2>1
<1>4. ASSUME NEW m \in Messages, NEW att \in AttestationLists, Unlock(m, att)
      PROVE  VaultBalances'
  <2>1. m.amount \in Nat /\ UNCHANGED <<deposit_vars, gifts>>
    BY <1>4 DEF Unlock, UnlockMessage
  <2>2. \/ UNCHANGED <<vault, total_unlocked>>
        \/ PayOut(m.transfer_id, m.recipient, m.amount)
    BY <1>4 DEF Unlock
  <2>3. CASE UNCHANGED <<vault, total_unlocked>>
    BY <2>1, <2>3 DEF deposit_vars
  <2>4. QED
    BY <1>3, <2>1, <2>2, <2>3
<1>5. ASSUME NEW id \in BurnIds, NEW to \in Recipients, ExecuteScheduledUnlock(id, to)
      PROVE  VaultBalances'
  <2>1. unlocks[id].amount \in Nat
    BY <1>5 DEF ExecuteScheduledUnlock, TypeOK, UnlockType, UnlockRecord
  <2>2. PayOut(id, to, unlocks[id].amount) /\ UNCHANGED <<deposit_vars, gifts>>
    BY <1>5 DEF ExecuteScheduledUnlock
  <2>3. QED
    BY <1>3, <2>1, <2>2
<1>6. CASE AdminNext \/ ValidatorNext
  BY <1>6 DEF AdminNext, ValidatorNext, EmergencyPause, EmergencyResume, UpdateConfig,
     ProposeConfigChange, ExecuteConfigChange, CancelConfigChange, RegisterValidator,
     RemoveValidator, deposit_vars, unlock_vars
<1>7. ASSUME NEW n \in Gifts, Gift(n)
      PROVE  VaultBalances'
  <2>1. /\ vault' = vault + n /\ gifts' = gifts + n
        /\ UNCHANGED <<total_locked, total_unlocked>>
    BY <1>7 DEF Gift, deposit_vars, unlock_vars
  <2>2. QED
    BY <1>0, <2>1
<1>8. CASE Tick \/ UNCHANGED vars
  BY <1>8 DEF Tick, vars, deposit_vars, unlock_vars
<1>9. QED
  BY <1>1, <1>2, <1>4, <1>5, <1>6, <1>7, <1>8 DEF Next, UserNext, UnlockNext

\* In every state the vault's lamports are what was locked, minus what was
\* unlocked, plus what reached it outside the program.
THEOREM VaultAlwaysBalances == Spec => []VaultBalances
<1>1. Init => VaultBalances
  BY DEF Init, VaultBalances
<1>2. QED
  BY <1>1, BalancesNext, TypeCorrect, PTL DEF Spec

(***************************************************************************)
(* Custody                                                                 *)
(***************************************************************************)

\* What the refinement reads does not move in the other instructions.
LEMMA CustodyStutter ==
  ASSUME UNCHANGED <<vault, unlocks, received>>
  PROVE  UNCHANGED C!cvars
BY DEF C!cvars, Executed

LEMMA CustodyUnlock ==
  ASSUME TypeOK, NEW m \in Messages, NEW att \in AttestationLists, Unlock(m, att)
  PROVE  C!Accept(m.transfer_id) \/ C!AcceptAndSettle(m.transfer_id)
<1> USE ConstantsAssumption
<1> DEFINE id == m.transfer_id
<1>1. id \in BurnIds /\ m.recipient \in Recipients /\ m.amount \in Nat /\ id \notin DOMAIN unlocks
  BY DEF UnlockMessage, Unlock, UnlockAllowed
<1>2. ASSUME NEW e \in BOOLEAN, NEW t, NewRecord(m, e, t)
      PROVE  /\ C!AddClaim(id)
             /\ unlocks'[id].recipient = m.recipient /\ unlocks'[id].amount = m.amount
             /\ id \in DOMAIN unlocks'
             /\ Executed' = IF e THEN Executed \cup {id} ELSE Executed
  <2> DEFINE r == [recipient |-> m.recipient, amount |-> m.amount, timestamp |-> now,
                   executed |-> e, scheduled_time |-> t]
  <2>1. /\ r.recipient = m.recipient /\ r.amount = m.amount /\ r.executed = e
    OBVIOUS
  <2>2. unlocks' = Put(unlocks, id, r)
    BY <1>2 DEF NewRecord
  <2> HIDE DEF r
  <2>3. /\ DOMAIN unlocks' = DOMAIN unlocks \cup {id} /\ unlocks'[id] = r
        /\ \A j \in DOMAIN unlocks : unlocks'[j] = unlocks[j]
    BY <1>1, <2>2 DEF Put
  <2>4. Executed' = IF e THEN Executed \cup {id} ELSE Executed
    BY <1>1, <2>1, <2>3 DEF Executed
  <2>5. C!AddClaim(id)
    BY <1>1, <2>1, <2>3 DEF C!AddClaim, C!Claim
  <2>6. QED
    BY <2>1, <2>3, <2>4, <2>5
<1>3. CASE NewRecord(m, FALSE, now + config.large_withdrawal_delay)
             /\ UNCHANGED <<vault, received>>
  BY <1>2, <1>3, FALSE \in BOOLEAN DEF C!Accept
<1>4. CASE NewRecord(m, TRUE, 0) /\ PayOut(id, m.recipient, m.amount)
  <2>1. /\ C!AddClaim(id) /\ Executed' = Executed \cup {id}
        /\ unlocks'[id].recipient = m.recipient /\ unlocks'[id].amount = m.amount
        /\ id \in DOMAIN unlocks'
    BY <1>2, <1>4, TRUE \in BOOLEAN
  <2>2. id \notin Executed
    BY <1>1 DEF Executed
  <2>3. QED
    BY <1>4, <2>1, <2>2 DEF PayOut, C!AcceptAndSettle, C!Pay
<1>5. QED
  BY <1>3, <1>4 DEF Unlock

LEMMA CustodyExecute ==
  ASSUME TypeOK, NEW id \in BurnIds, NEW to \in Recipients, ExecuteScheduledUnlock(id, to)
  PROVE  C!Settle(id)
<1>1. /\ id \in DOMAIN unlocks /\ ~ unlocks[id].executed /\ to = unlocks[id].recipient
      /\ PayOut(id, to, unlocks[id].amount)
      /\ unlocks' = [unlocks EXCEPT ![id].executed = TRUE]
  BY DEF ExecuteScheduledUnlock
<1>2. unlocks \in [DOMAIN unlocks -> UnlockRecord]
  BY DEF TypeOK, UnlockType
<1>3. /\ DOMAIN unlocks' = DOMAIN unlocks
      /\ \A j \in DOMAIN unlocks : /\ unlocks'[j].recipient = unlocks[j].recipient
                                   /\ unlocks'[j].amount = unlocks[j].amount
                                   /\ unlocks'[j].executed = IF j = id THEN TRUE ELSE unlocks[j].executed
  BY <1>1, <1>2 DEF UnlockRecord
<1>4. Executed' = Executed \cup {id} /\ id \notin Executed
  BY <1>1, <1>3 DEF Executed
<1>5. QED
  BY <1>1, <1>3, <1>4 DEF C!Settle, C!Pay, PayOut

\* The program implements Custody: each burn is accepted at most once and paid
\* at most once, to the recipient and in the amount it was accepted with.
THEOREM ImplementsCustody == Spec => PaysEachBurnOnce
<1> USE ConstantsAssumption
<1>1. Init => C!CInit
  BY DEF Init, C!CInit, Executed
<1>2. ASSUME TypeOK, TypeOK', [Next]_vars
      PROVE  [C!CNext]_(C!cvars)
  <2>1. ASSUME NEW u \in Users, NEW a \in Amounts,
               Deposit(u, a)
        PROVE  C!Fund
    BY <1>2, <2>1 DEF Deposit, TypeOK, C!Fund, Executed, unlock_vars
  <2>2. CASE UnlockNext
    BY <1>2, <2>2, CustodyUnlock, CustodyExecute DEF UnlockNext, C!CNext, UnlockMessage
  <2>3. ASSUME NEW n \in Gifts, Gift(n)
        PROVE  C!Fund
    BY <1>2, <2>3 DEF Gift, TypeOK, C!Fund, Executed, unlock_vars
  <2>4. ASSUME NEW u \in Users, NEW a \in Amounts, NEW m \in SplMints, DepositSpl(u, a, m)
        PROVE  UNCHANGED C!cvars
    BY <2>4, CustodyStutter DEF DepositSpl, unlock_vars
  <2>5. CASE AdminNext \/ ValidatorNext
    BY <2>5, CustodyStutter
    DEF AdminNext, ValidatorNext, EmergencyPause, EmergencyResume, UpdateConfig,
       ProposeConfigChange, ExecuteConfigChange, CancelConfigChange, RegisterValidator,
       RemoveValidator, unlock_vars
  <2>6. CASE Tick \/ UNCHANGED vars
    BY <2>6, CustodyStutter DEF Tick, vars, unlock_vars
  <2>7. QED
    BY <1>2, <2>1, <2>2, <2>3, <2>4, <2>5, <2>6 DEF Next, UserNext, C!CNext
<1>3. QED
  BY <1>1, <1>2, TypeCorrect, PTL DEF Spec, PaysEachBurnOnce, C!CSpec

(***************************************************************************)
(* Nonces                                                                  *)
(***************************************************************************)

\* Only RecordDeposit touches the records and the nonces: it adds the record
\* <<u, next_nonce>> and moves next_nonce past it.
LEMMA NoncesNext == TypeOK /\ NoncesContiguous /\ [Next]_vars => NoncesContiguous'
<1> SUFFICES ASSUME TypeOK, NoncesContiguous, [Next]_vars PROVE NoncesContiguous'
  OBVIOUS
<1>1. ASSUME NEW u \in Users, NEW a, NEW asset, RecordDeposit(u, a, asset)
      PROVE  NoncesContiguous'
  <2> DEFINE k == user_state[u].next_nonce
  <2>1. k \in Nat /\ user_state \in [Users -> UserState]
    BY DEF TypeOK, DepositType, UserState
  <2>2. /\ DOMAIN deposits' = DOMAIN deposits \cup {<<u, k>>}
        /\ user_state'[u].next_nonce = k + 1
        /\ \A v \in Users : v # u => user_state'[v] = user_state[v]
    BY <1>1, <2>1 DEF RecordDeposit, Put
  <2> HIDE DEF k
  <2>3. ASSUME NEW v \in Users, NEW n \in Nat
        PROVE  <<v, n>> \in DOMAIN deposits' <=> n < user_state'[v].next_nonce
    <3>1. <<v, n>> \in DOMAIN deposits <=> n < user_state[v].next_nonce
      BY DEF NoncesContiguous
    <3>2. CASE v = u
      BY <2>1, <2>2, <3>1, <3>2 DEF k
    <3>3. CASE v # u
      BY <2>2, <3>1, <3>3
    <3>4. QED
      BY <3>2, <3>3
  <2>4. QED
    BY <2>3 DEF NoncesContiguous
<1>2. CASE UNCHANGED <<deposits, user_state>>
  BY <1>2 DEF NoncesContiguous
<1>3. CASE UserNext
  BY <1>1, <1>3 DEF UserNext, Deposit, DepositSpl
<1>4. CASE UnlockNext \/ (\E n \in Gifts : Gift(n)) \/ Tick \/ UNCHANGED vars
  BY <1>2, <1>4 DEF UnlockNext, Unlock, ExecuteScheduledUnlock, Gift, Tick, vars, deposit_vars
<1>5. CASE AdminNext \/ ValidatorNext
  BY <1>2, <1>5 DEF AdminNext, ValidatorNext, EmergencyPause, EmergencyResume, UpdateConfig,
     ProposeConfigChange, ExecuteConfigChange, CancelConfigChange, RegisterValidator,
     RemoveValidator, deposit_vars
<1>6. QED
  BY <1>3, <1>4, <1>5 DEF Next

\* A user's deposits carry exactly the nonces below next_nonce, without a gap
\* and without reuse, so the transfer id of the next deposit is free.
THEOREM NoncesHaveNoGaps == Spec => []NoncesContiguous
<1>1. Init => NoncesContiguous
  <2> SUFFICES ASSUME Init PROVE NoncesContiguous
    OBVIOUS
  <2>1. DOMAIN deposits = {} /\ \A u \in Users : user_state[u].next_nonce = 0
    BY DEF Init
  <2>2. QED
    BY <2>1 DEF NoncesContiguous
<1>2. QED
  BY <1>1, NoncesNext, TypeCorrect, PTL DEF Spec

(***************************************************************************)
(* Pending changes                                                         *)
(***************************************************************************)

\* update_config moves the quorum up and the cap down, the changes that move
\* them the other way close their own account.
LEMMA PendingNext == TypeOK /\ PendingStillValid /\ [Next]_vars => PendingStillValid'
<1> SUFFICES ASSUME TypeOK, PendingStillValid, [Next]_vars PROVE PendingStillValid'
  OBVIOUS
<1>0. /\ config \in ConfigParams /\ pending \in [DOMAIN pending -> PendingChange]
      /\ config.min_validators \in Nat /\ config.max_daily_outflow \in Nat
  BY DEF TypeOK, AdminType, ConfigParams
<1>1. CASE UNCHANGED <<config, pending>>
  BY <1>1 DEF PendingStillValid
<1>2. ASSUME NEW k \in Keys, NEW p \in ConfigInputs, UpdateConfig(k, p)
      PROVE  PendingStillValid'
  <2>1. /\ config' = p /\ pending' = pending
        /\ p.min_validators \in Nat /\ p.max_daily_outflow \in Nat
    BY <1>2, ConstantsAssumption DEF UpdateConfig, ConfigParams
  <2>2. /\ p.min_validators >= config.min_validators
        /\ p.max_daily_outflow <= config.max_daily_outflow
    BY <1>0, <1>2, <2>1 DEF UpdateConfig, UpdateAllowed
  <2>3. QED
    BY <1>0, <2>1, <2>2 DEF PendingStillValid
<1>3. ASSUME NEW k \in Keys, NEW t, NEW v, ProposeConfigChange(k, t, v)
      PROVE  PendingStillValid'
  <2> DEFINE c == [new_value |-> v, proposed_at |-> now, execute_after |-> now + delay_for(t)]
  <2>1. config' = config /\ pending' = Put(pending, t, c) /\ ProposalAllowed(t, v) /\ c.new_value = v
    BY <1>3 DEF ProposeConfigChange
  <2> HIDE DEF c
  <2>2. /\ DOMAIN pending' = DOMAIN pending \cup {t} /\ pending'[t] = c
        /\ \A u \in DOMAIN pending : u # t => pending'[u] = pending[u]
    BY <2>1 DEF Put
  <2>3. t = "MinValidatorsDecrease" => v \in 1 .. config.min_validators - 1
    BY <1>0, <2>1 DEF ProposalAllowed, KeyChanges
  <2>4. t = "MaxDailyOutflowIncrease" => v \in Nat /\ v > config.max_daily_outflow
    BY <2>1 DEF ProposalAllowed, KeyChanges
  <2>5. QED
    BY <2>1, <2>2, <2>3, <2>4 DEF PendingStillValid
<1>4. ASSUME NEW t \in ChangeTypes, ExecuteConfigChange(t)
      PROVE  PendingStillValid'
  <2>1. /\ DOMAIN pending' = DOMAIN pending \ {t}
        /\ \A u \in DOMAIN pending' : pending'[u] = pending[u]
    BY <1>4 DEF ExecuteConfigChange, Close, Restrict
  <2>2. t # "MinValidatorsDecrease" => config'.min_validators = config.min_validators
    BY <1>0, <1>4 DEF ExecuteConfigChange, ApplyChange, ConfigParams
  <2>3. t # "MaxDailyOutflowIncrease" => config'.max_daily_outflow = config.max_daily_outflow
    BY <1>0, <1>4 DEF ExecuteConfigChange, ApplyChange, ConfigParams
  <2>4. QED
    BY <2>1, <2>2, <2>3 DEF PendingStillValid
<1>5. ASSUME NEW k \in Keys, NEW t \in ChangeTypes, CancelConfigChange(k, t)
      PROVE  PendingStillValid'
  <2>1. /\ DOMAIN pending' = DOMAIN pending \ {t} /\ config' = config
        /\ \A u \in DOMAIN pending' : pending'[u] = pending[u]
    BY <1>5 DEF CancelConfigChange, Close, Restrict
  <2>2. QED
    BY <2>1 DEF PendingStillValid
<1>6. CASE UserNext \/ UnlockNext \/ ValidatorNext \/ (\E n \in Gifts : Gift(n)) \/ Tick
             \/ UNCHANGED vars
  BY <1>1, <1>6 DEF UserNext, UnlockNext, ValidatorNext, Deposit, DepositSpl, Unlock,
     ExecuteScheduledUnlock, RegisterValidator, RemoveValidator, Gift, Tick, vars, admin_vars
<1>7. CASE AdminNext
  BY <1>1, <1>2, <1>3, <1>4, <1>5, <1>7 DEF AdminNext, EmergencyPause, EmergencyResume
<1>8. QED
  BY <1>6, <1>7 DEF Next

\* When the delay of a pending change ends, the change is still one of the
\* announced kind: the quorum would go down to at least 1, the cap up.
THEOREM PendingChangesStayValid == Spec => []PendingStillValid
<1>1. Init => PendingStillValid
  <2> SUFFICES ASSUME Init PROVE PendingStillValid
    OBVIOUS
  <2>1. DOMAIN pending = {}
    BY DEF Init
  <2>2. QED
    BY <2>1 DEF PendingStillValid
<1>2. QED
  BY <1>1, PendingNext, TypeCorrect, PTL DEF Spec

(***************************************************************************)
(* The quorum and the delays                                               *)
(***************************************************************************)

\* A list without repetition has as many signers as entries.
LEMMA DistinctSigners ==
  ASSUME NEW att \in AttestationLists, Distinct(att)
  PROVE  Len(att) \in Nat /\ Cardinality(Signers(att)) = Len(att)
<1>1. PICK n \in 0 .. MaxAttestations : att \in [1 .. n -> Validators]
  BY DEF AttestationLists
<1>2. n \in Nat /\ Len(att) = n
  BY <1>1, ConstantsAssumption DEF ConstantsAssumption
<1>3. att \in Surjection(1 .. n, Signers(att))
  BY <1>1 DEF Surjection, Signers
<1>4. att \in Injection(1 .. n, Signers(att))
  BY <1>1, <1>2, <1>3 DEF Injection, IsInjective, Surjection, Distinct
<1>5. IsFiniteSet(1 .. n) /\ Cardinality(1 .. n) = n
  BY <1>2, FS_Interval
<1>6. Cardinality(Signers(att)) = n
  BY <1>3, <1>4, <1>5, FS_Surjection
<1> QED BY <1>2, <1>6

\* What a record says of the wait of a large withdrawal, until it is paid.
RecordsWait ==
  \A i \in DOMAIN unlocks :
    /\ unlocks[i].timestamp <= now
    /\ unlocks[i].amount >= backing[i].threshold
         => unlocks[i].scheduled_time = unlocks[i].timestamp + backing[i].delay

Backed == BackedByQuorum /\ RecordsWait /\ LargeWithdrawalsWait

\* An accepted unlock brings its quorum, and a record that waits if it is large.
LEMMA BackedUnlock ==
  ASSUME TypeOK, Backed, NEW m \in Messages, NEW att \in AttestationLists, Unlock(m, att)
  PROVE  Backed'
<1> USE ConstantsAssumption
<1> DEFINE id == m.transfer_id
           b == [signers |-> Signers(att), registered |-> validators,
                 quorum |-> config.min_validators,
                 threshold |-> config.large_withdrawal_threshold,
                 delay |-> config.large_withdrawal_delay]
<1>1. /\ m.amount \in Nat /\ id \notin DOMAIN unlocks /\ Attested(att)
      /\ backing' = Put(backing, id, b) /\ now' = now
  BY DEF UnlockMessage, Unlock, UnlockAllowed
<1>2. /\ b.signers = Signers(att) /\ b.registered = validators
      /\ b.quorum = config.min_validators /\ b.threshold = config.large_withdrawal_threshold
      /\ b.delay = config.large_withdrawal_delay
  OBVIOUS
<1>3. now \in Nat /\ DOMAIN backing = DOMAIN unlocks /\ DOMAIN payouts \subseteq DOMAIN unlocks
      /\ config.min_validators \in Nat /\ config.large_withdrawal_threshold \in Nat
      /\ config.large_withdrawal_delay \in Int
  BY DEF TypeOK, UnlockType, AdminType, ConfigParams
<1> HIDE DEF b, id
<1>4. /\ DOMAIN backing' = DOMAIN unlocks \cup {id} /\ backing'[id] = b
      /\ \A i \in DOMAIN unlocks : i # id /\ backing'[i] = backing[i]
  BY <1>1, <1>3 DEF Put
<1>5. BackedByQuorum'
  <2>1. Cardinality(b.signers) >= b.quorum
    BY <1>1, <1>2, <1>3, DistinctSigners DEF Attested
  <2>2. b.signers \ b.registered \subseteq Shown
    BY <1>1, <1>2 DEF Attested, FoundActive
  <2> QED BY <1>3, <1>4, <2>1, <2>2 DEF Backed, BackedByQuorum
<1>6. ASSUME NEW executed, NEW scheduled_time, NewRecord(m, executed, scheduled_time),
             m.amount >= config.large_withdrawal_threshold =>
               scheduled_time = now + config.large_withdrawal_delay
      PROVE  /\ RecordsWait' /\ unlocks'[id].timestamp = now /\ unlocks'[id].amount = m.amount
             /\ \A i \in DOMAIN unlocks : unlocks'[i] = unlocks[i]
  <2> DEFINE r == [recipient |-> m.recipient, amount |-> m.amount, timestamp |-> now,
                   executed |-> executed, scheduled_time |-> scheduled_time]
  <2>1. r.amount = m.amount /\ r.timestamp = now /\ r.scheduled_time = scheduled_time
    OBVIOUS
  <2>2. unlocks' = Put(unlocks, id, r)
    BY <1>6 DEF NewRecord, id
  <2> HIDE DEF r
  <2>3. /\ DOMAIN unlocks' = DOMAIN unlocks \cup {id} /\ unlocks'[id] = r
        /\ \A i \in DOMAIN unlocks : i # id /\ unlocks'[i] = unlocks[i]
    BY <1>1, <2>2 DEF Put, id
  <2>4. RecordsWait'
    BY <1>1, <1>2, <1>3, <1>4, <1>6, <2>1, <2>3 DEF Backed, RecordsWait
  <2> QED BY <2>1, <2>3, <2>4
<1>7. CASE /\ NewRecord(m, FALSE, now + config.large_withdrawal_delay)
           /\ UNCHANGED payouts
  <2>1. RecordsWait' /\ \A i \in DOMAIN unlocks : unlocks'[i] = unlocks[i]
    BY <1>6, <1>7
  <2>2. LargeWithdrawalsWait'
    BY <1>3, <1>4, <1>7, <2>1 DEF Backed, LargeWithdrawalsWait
  <2> QED BY <1>5, <2>1, <2>2 DEF Backed
<1>8. CASE ~ IsLarge(m) /\ PayOut(id, m.recipient, m.amount) /\ NewRecord(m, TRUE, 0)
  <2>1. /\ RecordsWait' /\ unlocks'[id].timestamp = now /\ unlocks'[id].amount = m.amount
        /\ \A i \in DOMAIN unlocks : unlocks'[i] = unlocks[i]
    BY <1>1, <1>3, <1>6, <1>8 DEF IsLarge
  <2>2. /\ DOMAIN payouts' = DOMAIN payouts \cup {id} /\ payouts'[id].at = now
        /\ \A i \in DOMAIN payouts : i # id => payouts'[i] = payouts[i]
    BY <1>8 DEF PayOut, Put
  <2>3. \A i \in DOMAIN payouts : i # id /\ unlocks'[i] = unlocks[i] /\ backing'[i] = backing[i]
    BY <1>3, <1>4, <2>1
  <2>4. ~ (unlocks'[id].amount >= backing'[id].threshold) /\ payouts'[id].at >= unlocks'[id].timestamp
    BY <1>1, <1>2, <1>3, <1>4, <1>8, <2>1, <2>2 DEF IsLarge
  <2>5. LargeWithdrawalsWait'
    BY <2>2, <2>3, <2>4 DEF Backed, LargeWithdrawalsWait
  <2> QED BY <1>5, <2>1, <2>5 DEF Backed
<1> QED BY <1>7, <1>8 DEF Unlock, id

\* A scheduled unlock is paid when its record allows it.
LEMMA BackedExecute ==
  ASSUME TypeOK, Backed, NEW id \in BurnIds, NEW to \in Recipients,
         ExecuteScheduledUnlock(id, to)
  PROVE  Backed'
<1>1. /\ id \in DOMAIN unlocks /\ now >= unlocks[id].scheduled_time
      /\ PayOut(id, to, unlocks[id].amount)
      /\ unlocks' = [unlocks EXCEPT ![id].executed = TRUE]
      /\ UNCHANGED <<backing, now>>
  BY DEF ExecuteScheduledUnlock
<1>2. unlocks \in [DOMAIN unlocks -> UnlockRecord] /\ now \in Nat
      /\ backing \in [DOMAIN unlocks -> Backing] /\ DOMAIN payouts \subseteq DOMAIN unlocks
  BY DEF TypeOK, UnlockType
<1>3. /\ DOMAIN unlocks' = DOMAIN unlocks
      /\ \A i \in DOMAIN unlocks : /\ unlocks'[i].amount = unlocks[i].amount
                                   /\ unlocks'[i].timestamp = unlocks[i].timestamp
                                   /\ unlocks'[i].scheduled_time = unlocks[i].scheduled_time
  BY <1>1, <1>2 DEF UnlockRecord
<1>4. /\ DOMAIN payouts' = DOMAIN payouts \cup {id} /\ payouts'[id].at = now
      /\ \A i \in DOMAIN payouts : i # id => payouts'[i] = payouts[i]
  BY <1>1 DEF PayOut, Put
<1>5. BackedByQuorum' /\ RecordsWait'
  BY <1>1, <1>3 DEF Backed, BackedByQuorum, RecordsWait
<1>6. /\ payouts'[id].at >= unlocks'[id].timestamp
      /\ unlocks'[id].amount >= backing'[id].threshold
           => payouts'[id].at >= unlocks'[id].timestamp + backing'[id].delay
  BY <1>1, <1>3, <1>4 DEF Backed, RecordsWait
<1>7. LargeWithdrawalsWait'
  <2> SUFFICES ASSUME NEW i \in DOMAIN payouts'
               PROVE  /\ payouts'[i].at >= unlocks'[i].timestamp
                      /\ unlocks'[i].amount >= backing'[i].threshold
                           => payouts'[i].at >= unlocks'[i].timestamp + backing'[i].delay
    BY DEF LargeWithdrawalsWait
  <2>1. CASE i = id
    BY <1>6, <2>1
  <2>2. CASE i # id
    BY <1>1, <1>2, <1>3, <1>4, <2>2 DEF Backed, LargeWithdrawalsWait
  <2> QED BY <2>1, <2>2
<1> QED BY <1>5, <1>7 DEF Backed

\* The other instructions write no unlock, payment or backing, and time passes.
LEMMA BackedNext == TypeOK /\ Backed /\ [Next]_vars => Backed'
<1> SUFFICES ASSUME TypeOK, Backed, [Next]_vars PROVE Backed'
  OBVIOUS
<1>1. ASSUME UNCHANGED unlock_vars, now' >= now, now' \in Nat
      PROVE  Backed'
  <2>1. now \in Nat /\ \A i \in DOMAIN unlocks : unlocks[i].timestamp \in Nat
    BY DEF TypeOK, UnlockType, UnlockRecord
  <2> QED BY <1>1, <2>1 DEF unlock_vars, Backed, BackedByQuorum, RecordsWait,
             LargeWithdrawalsWait
<1>2. CASE UnlockNext
  BY <1>2, BackedUnlock, BackedExecute DEF UnlockNext
<1>3. CASE UserNext \/ AdminNext \/ ValidatorNext
  <2>1. UNCHANGED <<unlock_vars, now>>
    BY <1>3 DEF UserNext, Deposit, DepositSpl, AdminNext, ValidatorNext, EmergencyPause,
       EmergencyResume, UpdateConfig, ProposeConfigChange, ExecuteConfigChange,
       CancelConfigChange, RegisterValidator, RemoveValidator, RecordDeposit
  <2> QED BY <1>1, <2>1 DEF TypeOK
<1>4. ASSUME NEW n \in Gifts, Gift(n) PROVE Backed'
  BY <1>1, <1>4 DEF Gift, TypeOK
<1>5. CASE Tick
  BY <1>1, <1>5 DEF Tick, TypeOK
<1>6. CASE UNCHANGED vars
  BY <1>1, <1>6 DEF vars, TypeOK
<1> QED BY <1>2, <1>3, <1>4, <1>5, <1>6 DEF Next

\* Backed holds after initialize.
LEMMA BackedInit == Init => Backed
BY DEF Init, Backed, BackedByQuorum, RecordsWait, LargeWithdrawalsWait

\* Every unlock was attested by as many different keys as the quorum at its
\* acceptance, each of them registered then or shown by an account that is no
\* ValidatorEntry, whichever keys such accounts show (unlock.rs: Attested).
THEOREM EveryUnlockBacked == Spec => []BackedByQuorum
<1>1. Backed => BackedByQuorum
  BY DEF Backed
<1> QED BY <1>1, BackedInit, BackedNext, TypeCorrect, PTL DEF Spec

\* A withdrawal that was large at its acceptance waits the delay of that moment,
\* wherever threshold and delay move meanwhile (execute_scheduled_unlock).
THEOREM LargeUnlocksWait == Spec => []LargeWithdrawalsWait
<1>1. Backed => LargeWithdrawalsWait
  BY DEF Backed
<1> QED BY <1>1, BackedInit, BackedNext, TypeCorrect, PTL DEF Spec

(***************************************************************************)
(* The timelocks                                                           *)
(***************************************************************************)

\* The parameter that a change of type t replaces, and what loosens it.
Value(t) ==
  IF t = "AuthorityTransfer" THEN authority
  ELSE IF t = "GuardianTransfer" THEN guardian
  ELSE IF t = "MinValidatorsDecrease" THEN config.min_validators
  ELSE config.max_daily_outflow

LooserFor(t, v, w) ==
  /\ t = "MinValidatorsDecrease" => v < w
  /\ t = "MaxDailyOutflowIncrease" => v > w

\* What Timelock allows of one change type, for the four instances at once.
LockStep(t) ==
  \/ Value(t)' = Value(t) /\ Announced(t)' = Announced(t) /\ (now' = now \/ now' > now)
  \/ ~ LooserFor(t, Value(t)', Value(t)) /\ Announced(t)' = Announced(t) /\ now' = now
  \/ Announced(t)' = {} /\ Value(t)' = Value(t) /\ now' = now
  \/ \E p \in Announced(t) :
       /\ now - p.since >= delay_for(t) /\ LooserFor(t, p.value, Value(t))
       /\ Value(t)' = p.value /\ Announced(t)' = {} /\ now' = now
  \/ \E v : /\ LooserFor(t, v, Value(t)) /\ Announced(t)' = {[value |-> v, since |-> now]}
            /\ Value(t)' = Value(t) /\ now' = now

\* A proposal can be executed when its whole delay is over.
PendingDelays ==
  \A t \in DOMAIN pending : pending[t].execute_after = pending[t].proposed_at + delay_for(t)

LEMMA DelaysInit == Init => PendingDelays
BY DEF Init, PendingDelays

LEMMA DelaysNext == TypeOK /\ PendingDelays /\ [Next]_vars => PendingDelays'
<1> SUFFICES ASSUME TypeOK, PendingDelays, [Next]_vars PROVE PendingDelays'
  OBVIOUS
<1>1. CASE pending' = pending
  BY <1>1 DEF PendingDelays
<1>2. ASSUME NEW k \in Keys, NEW t, NEW v, ProposeConfigChange(k, t, v) PROVE PendingDelays'
  <2> DEFINE e == [new_value |-> v, proposed_at |-> now, execute_after |-> now + delay_for(t)]
  <2>1. pending' = Put(pending, t, e) /\ e.execute_after = e.proposed_at + delay_for(t)
    BY <1>2 DEF ProposeConfigChange
  <2> HIDE DEF e
  <2>2. ASSUME NEW u \in DOMAIN pending'
        PROVE  pending'[u].execute_after = pending'[u].proposed_at + delay_for(u)
    <3>1. DOMAIN pending' = DOMAIN pending \cup {t} /\ pending'[t] = e
      BY <2>1 DEF Put
    <3>2. u # t => u \in DOMAIN pending /\ pending'[u] = pending[u]
      BY <2>1, <2>2, <3>1 DEF Put
    <3>3. QED
      BY <2>1, <3>1, <3>2 DEF PendingDelays
  <2>3. QED
    BY <2>2 DEF PendingDelays
<1>3. ASSUME NEW t, pending' = Close(pending, t) PROVE PendingDelays'
  <2>1. ASSUME NEW u \in DOMAIN pending'
        PROVE  pending'[u].execute_after = pending'[u].proposed_at + delay_for(u)
    <3>1. u \in DOMAIN pending /\ u # t
      BY <1>3, <2>1 DEF Close, Restrict
    <3>2. pending'[u] = pending[u]
      BY <1>3, <3>1 DEF Close, Restrict
    <3>3. QED
      BY <3>1, <3>2 DEF PendingDelays
  <2>2. QED
    BY <2>1 DEF PendingDelays
<1>4. CASE UserNext \/ UnlockNext \/ ValidatorNext \/ (\E n \in Gifts : Gift(n)) \/ Tick
             \/ UNCHANGED vars
  BY <1>1, <1>4 DEF UserNext, UnlockNext, ValidatorNext, Deposit, DepositSpl, Unlock,
     ExecuteScheduledUnlock, RegisterValidator, RemoveValidator, Gift, Tick, vars, admin_vars
<1>5. CASE AdminNext
  BY <1>1, <1>2, <1>3, <1>5 DEF AdminNext, EmergencyPause, EmergencyResume, UpdateConfig,
     ExecuteConfigChange, CancelConfigChange
<1>6. QED
  BY <1>4, <1>5 DEF Next

\* The one announcement of a type, or none.
LEMMA AnnouncedFacts ==
  ASSUME NEW t
  PROVE  /\ t \notin DOMAIN pending => Announced(t) = {}
         /\ t \in DOMAIN pending =>
              Announced(t) = {[value |-> pending[t].new_value, since |-> pending[t].proposed_at]}
BY DEF Announced

LEMMA AnnouncedNext ==
  ASSUME NEW t
  PROVE  /\ t \notin DOMAIN pending' => Announced(t)' = {}
         /\ t \in DOMAIN pending' =>
              Announced(t)' = {[value |-> pending'[t].new_value, since |-> pending'[t].proposed_at]}
BY DEF Announced

\* A step that leaves the entry of t alone leaves its announcement.
LEMMA SameAnnouncement ==
  ASSUME NEW t, t \in DOMAIN pending' <=> t \in DOMAIN pending,
         t \in DOMAIN pending => pending'[t] = pending[t]
  PROVE  Announced(t)' = Announced(t)
BY AnnouncedFacts, AnnouncedNext

\* Every step of the program is one that the timelock of t allows.
LEMMA StepIsLocked ==
  ASSUME TypeOK, PendingDelays, PendingStillValid, [Next]_vars, NEW t \in ChangeTypes
  PROVE  LockStep(t)
<1>0. /\ now \in Nat /\ config \in ConfigParams /\ DOMAIN pending \subseteq ChangeTypes
      /\ \A u \in DOMAIN pending : pending[u] \in PendingChange
  BY DEF TypeOK, AdminType
<1>1. CASE UNCHANGED <<authority, guardian, config, pending>> /\ (now' = now \/ now' > now)
  <2>1. Value(t)' = Value(t)
    BY <1>1 DEF Value
  <2>2. Announced(t)' = Announced(t)
    BY <1>1, SameAnnouncement
  <2>3. QED
    BY <1>1, <2>1, <2>2 DEF LockStep
<1>2. ASSUME NEW k \in Keys, NEW p \in ConfigInputs, UpdateConfig(k, p) PROVE LockStep(t)
  <2>1. /\ config' = p /\ UpdateAllowed(p) /\ p \in ConfigParams
        /\ UNCHANGED <<authority, guardian, pending, now>>
    BY <1>2, ConstantsAssumption DEF UpdateConfig, ConstantsAssumption
  <2>2. Announced(t)' = Announced(t)
    BY <2>1, SameAnnouncement
  <2>3. CASE t \in KeyChanges
    <3>1. Value(t)' = Value(t)
      BY <2>1, <2>3 DEF Value, KeyChanges
    <3>2. QED
      BY <2>1, <2>2, <3>1 DEF LockStep
  <2>4. CASE t = "MinValidatorsDecrease"
    <3>1. Value(t) = config.min_validators /\ Value(t)' = p.min_validators
      BY <2>1, <2>4 DEF Value
    <3>2. ~ p.min_validators < config.min_validators
      BY <1>0, <2>1 DEF UpdateAllowed, ConfigParams
    <3>3. ~ LooserFor(t, Value(t)', Value(t))
      BY <2>4, <3>1, <3>2 DEF LooserFor, KeyChanges
    <3>4. QED
      BY <2>1, <2>2, <3>3 DEF LockStep
  <2>5. CASE t = "MaxDailyOutflowIncrease"
    <3>1. Value(t) = config.max_daily_outflow /\ Value(t)' = p.max_daily_outflow
      BY <2>1, <2>5 DEF Value
    <3>2. ~ p.max_daily_outflow > config.max_daily_outflow
      BY <1>0, <2>1 DEF UpdateAllowed, ConfigParams
    <3>3. ~ LooserFor(t, Value(t)', Value(t))
      BY <2>5, <3>1, <3>2 DEF LooserFor, KeyChanges
    <3>4. QED
      BY <2>1, <2>2, <3>3 DEF LockStep
  <2>6. QED
    BY <2>3, <2>4, <2>5 DEF ChangeTypes, KeyChanges
<1>3. ASSUME NEW k \in Keys, NEW u, NEW v, ProposeConfigChange(k, u, v) PROVE LockStep(t)
  <2> DEFINE e == [new_value |-> v, proposed_at |-> now, execute_after |-> now + delay_for(u)]
  <2>1. /\ pending' = Put(pending, u, e) /\ e.new_value = v /\ e.proposed_at = now
        /\ ProposalAllowed(u, v) /\ u \notin DOMAIN pending
        /\ UNCHANGED <<authority, guardian, config, now>>
    BY <1>3 DEF ProposeConfigChange
  <2> HIDE DEF e
  <2>2. Value(t)' = Value(t)
    BY <2>1 DEF Value
  <2>3. CASE u = t
    <3>1. Announced(t)' = {[value |-> v, since |-> now]}
      BY <2>1, <2>3, AnnouncedNext DEF Put
    <3>2. LooserFor(t, v, Value(t))
      BY <2>1, <2>3 DEF ProposalAllowed, LooserFor, Value, KeyChanges
    <3>3. QED
      BY <2>1, <2>2, <3>1, <3>2 DEF LockStep
  <2>4. CASE u # t
    <3>1. (t \in DOMAIN pending' <=> t \in DOMAIN pending)
          /\ (t \in DOMAIN pending => pending'[t] = pending[t])
      BY <2>1, <2>4 DEF Put
    <3>2. Announced(t)' = Announced(t)
      BY <3>1, SameAnnouncement
    <3>3. QED
      BY <2>1, <2>2, <3>2 DEF LockStep
  <2>5. QED
    BY <2>3, <2>4
<1>4. ASSUME NEW u, pending' = Close(pending, u), now' = now,
             Value(t)' = Value(t)
      PROVE  LockStep(t)
  <2>1. Value(t)' = Value(t)
    BY <1>4
  <2>2. CASE u = t
    <3>1. Announced(t)' = {}
      BY <1>4, <2>2, AnnouncedNext DEF Close, Restrict
    <3>2. QED
      BY <1>4, <2>1, <3>1 DEF LockStep
  <2>3. CASE u # t
    <3>1. (t \in DOMAIN pending' <=> t \in DOMAIN pending)
          /\ (t \in DOMAIN pending => pending'[t] = pending[t])
      BY <1>4, <2>3 DEF Close, Restrict
    <3>2. Announced(t)' = Announced(t)
      BY <3>1, SameAnnouncement
    <3>3. QED
      BY <1>4, <2>1, <3>2 DEF LockStep
  <2>4. QED
    BY <2>2, <2>3
<1>5. ASSUME NEW u \in ChangeTypes, ExecuteConfigChange(u) PROVE LockStep(t)
  <2>1. /\ u \in DOMAIN pending /\ now >= pending[u].execute_after
        /\ ApplyChange(u, pending[u].new_value)
        /\ pending' = Close(pending, u) /\ now' = now
    BY <1>5 DEF ExecuteConfigChange
  <2>2. CASE u # t
    <3>1. Value(t)' = Value(t)
      BY <1>0, <2>1, <2>2 DEF ApplyChange, Value, ConfigParams, ChangeTypes
    <3>2. QED
      BY <1>4, <2>1, <2>2, <3>1
  <2>3. CASE u = t
    <3> DEFINE p == [value |-> pending[t].new_value, since |-> pending[t].proposed_at]
    <3>1. Value(t)' = p.value /\ p.since = pending[t].proposed_at
      BY <1>0, <2>1, <2>3 DEF ApplyChange, Value, ConfigParams
    <3>2. p \in Announced(t) /\ Announced(t)' = {}
      BY <2>1, <2>3, AnnouncedFacts, AnnouncedNext DEF Close, Restrict
    <3>3. now - p.since >= delay_for(t)
      <4>1. pending[t].execute_after = p.since + delay_for(t)
        BY <2>1, <2>3, <3>1 DEF PendingDelays
      <4>2. p.since \in Nat /\ delay_for(t) \in Nat
        BY <1>0, <2>1, <2>3, <3>1, ConstantsAssumption
        DEF PendingChange, delay_for, ConstantsAssumption
      <4> HIDE DEF p
      <4>3. QED
        BY <1>0, <2>1, <2>3, <4>1, <4>2
    <3>4. LooserFor(t, p.value, Value(t))
      BY <1>0, <2>1, <2>3 DEF PendingStillValid, LooserFor, Value, KeyChanges, ChangeTypes, ConfigParams
    <3> HIDE DEF p
    <3>5. QED
      BY <2>1, <3>1, <3>2, <3>3, <3>4 DEF LockStep
  <2>4. QED
    BY <2>2, <2>3
<1>6. ASSUME NEW k \in Keys, NEW u \in ChangeTypes, CancelConfigChange(k, u) PROVE LockStep(t)
  BY <1>4, <1>6 DEF CancelConfigChange, Value
<1>7. CASE UserNext \/ UnlockNext \/ ValidatorNext \/ (\E n \in Gifts : Gift(n)) \/ Tick
             \/ UNCHANGED vars
  <2>1. UNCHANGED admin_vars /\ (now' = now \/ now' = now + 1)
    BY <1>7 DEF UserNext, UnlockNext, ValidatorNext, Deposit, DepositSpl, Unlock,
       ExecuteScheduledUnlock, RegisterValidator, RemoveValidator, Gift, Tick, vars
  <2>2. QED
    BY <1>0, <1>1, <2>1 DEF admin_vars
<1>8. CASE AdminNext
  BY <1>1, <1>2, <1>3, <1>5, <1>6, <1>8 DEF AdminNext, EmergencyPause, EmergencyResume
<1>9. QED
  BY <1>7, <1>8 DEF Next

\* The four timelocks, one step at a time.
LEMMA LockSteps ==
  ASSUME TypeOK, PendingDelays, PendingStillValid, [Next]_vars
  PROVE  /\ [MinLock!TNext]_(MinLock!tvars) /\ [CapLock!TNext]_(CapLock!tvars)
         /\ [AuthorityLock!TNext]_(AuthorityLock!tvars)
         /\ [GuardianLock!TNext]_(GuardianLock!tvars)
<1>1. [MinLock!TNext]_(MinLock!tvars)
  <2>1. LockStep("MinValidatorsDecrease")
    BY StepIsLocked DEF ChangeTypes
  <2>2. QED
    BY <2>1 DEF LockStep, Value, LooserFor, KeyChanges, delay_for, Lower, MinLock!TNext,
       MinLock!tvars, MinLock!Pass, MinLock!Tighten, MinLock!Withdraw, MinLock!Loosen, MinLock!Announce
<1>2. [CapLock!TNext]_(CapLock!tvars)
  <2>1. LockStep("MaxDailyOutflowIncrease")
    BY StepIsLocked DEF ChangeTypes
  <2>2. QED
    BY <2>1 DEF LockStep, Value, LooserFor, KeyChanges, delay_for, Higher, CapLock!TNext,
       CapLock!tvars, CapLock!Pass, CapLock!Tighten, CapLock!Withdraw, CapLock!Loosen, CapLock!Announce
<1>3. [AuthorityLock!TNext]_(AuthorityLock!tvars)
  <2>1. LockStep("AuthorityTransfer")
    BY StepIsLocked DEF ChangeTypes
  <2>2. QED
    BY <2>1 DEF LockStep, Value, LooserFor, KeyChanges, delay_for, Always, AuthorityLock!TNext,
       AuthorityLock!tvars, AuthorityLock!Pass, AuthorityLock!Tighten, AuthorityLock!Withdraw,
       AuthorityLock!Loosen, AuthorityLock!Announce
<1>4. [GuardianLock!TNext]_(GuardianLock!tvars)
  <2>1. LockStep("GuardianTransfer")
    BY StepIsLocked DEF ChangeTypes
  <2>2. QED
    BY <2>1 DEF LockStep, Value, LooserFor, KeyChanges, delay_for, Always, GuardianLock!TNext,
       GuardianLock!tvars, GuardianLock!Pass, GuardianLock!Tighten, GuardianLock!Withdraw,
       GuardianLock!Loosen, GuardianLock!Announce
<1>5. QED
  BY <1>1, <1>2, <1>3, <1>4

\* The lock program implements the four timelocks: the quorum is lowered, a key
\* replaced and the cap raised only after the whole delay of the proposal that
\* named this very value.
THEOREM ImplementsTimelocks == Spec => ChangesAreTimelocked
<1>1. Init => MinLock!TInit /\ CapLock!TInit /\ AuthorityLock!TInit /\ GuardianLock!TInit
  BY AnnouncedFacts
  DEF Init, MinLock!TInit, CapLock!TInit, AuthorityLock!TInit, GuardianLock!TInit
<1>2. Spec => []PendingDelays
  BY DelaysInit, DelaysNext, TypeCorrect, PTL DEF Spec
<1>3. QED
  BY <1>1, <1>2, LockSteps, TypeCorrect, PendingChangesStayValid, PTL
  DEF Spec, ChangesAreTimelocked, MinLock!TSpec, CapLock!TSpec, AuthorityLock!TSpec, GuardianLock!TSpec

(***************************************************************************)
(* The books                                                               *)
(***************************************************************************)

\* Totals of records that keep their amounts, and of a file with one more record.
LEMMA AmountsKept ==
  ASSUME NEW f, NEW g, NEW D, IsFiniteSet(D), D \subseteq DOMAIN f, D \subseteq DOMAIN g,
         \A i \in D : g[i].amount = f[i].amount
  PROVE  SumAmount(g, D) = SumAmount(f, D)
<1> DEFINE F == [i \in DOMAIN f |-> f[i].amount]
           H == [i \in DOMAIN g |-> g[i].amount]
<1>1. \A i \in D : H[i] = F[i]
  OBVIOUS
<1> HIDE DEF F, H
<1>2. SumFunctionOnSet(H, D) = SumFunctionOnSet(F, D)
  BY <1>1, SumSame
<1> QED BY <1>2 DEF SumAmount, F, H

\* The total of amounts is a number.
LEMMA AmountsType ==
  ASSUME NEW f, NEW D, IsFiniteSet(D), D \subseteq DOMAIN f, \A i \in D : f[i].amount \in Nat
  PROVE  SumAmount(f, D) \in Nat
<1> DEFINE F == [i \in DOMAIN f |-> f[i].amount]
<1>1. \A i \in D : F[i] \in Nat
  OBVIOUS
<1> HIDE DEF F
<1>2. SumFunctionOnSet(F, D) \in Nat
  BY <1>1, SumType
<1> QED BY <1>2 DEF SumAmount, F

\* One more record adds its amount.
LEMMA AmountsAdd ==
  ASSUME NEW f, NEW D, IsFiniteSet(D), NEW k, k \notin D, D \cup {k} \subseteq DOMAIN f,
         \A i \in D \cup {k} : f[i].amount \in Nat
  PROVE  SumAmount(f, D \cup {k}) = SumAmount(f, D) + f[k].amount
<1> DEFINE F == [i \in DOMAIN f |-> f[i].amount]
<1>1. (\A i \in D \cup {k} : F[i] \in Nat) /\ F[k] = f[k].amount
  OBVIOUS
<1> HIDE DEF F
<1>2. SumFunctionOnSet(F, D \cup {k}) = SumFunctionOnSet(F, D) + F[k]
  BY <1>1, SumAdd
<1> QED BY <1>1, <1>2 DEF SumAmount, F

\* Fewer records total no more.
LEMMA AmountsSubset ==
  ASSUME NEW f, NEW D, IsFiniteSet(D), D \subseteq DOMAIN f, NEW B \in SUBSET D,
         \A i \in D : f[i].amount \in Nat
  PROVE  SumAmount(f, B) <= SumAmount(f, D)
<1> DEFINE F == [i \in DOMAIN f |-> f[i].amount]
<1>1. \A i \in D : F[i] \in Nat
  OBVIOUS
<1> HIDE DEF F
<1>2. SumFunctionOnSet(F, B) <= SumFunctionOnSet(F, D)
  BY <1>1, SumSubset
<1> QED BY <1>2 DEF SumAmount, F

\* Two sets of records without one in common total the sum of their totals.
LEMMA AmountsUnion ==
  ASSUME NEW f, NEW A, NEW B, IsFiniteSet(A), IsFiniteSet(B), A \cap B = {},
         A \cup B \subseteq DOMAIN f, \A i \in A \cup B : f[i].amount \in Nat
  PROVE  SumAmount(f, A \cup B) = SumAmount(f, A) + SumAmount(f, B)
<1> DEFINE F == [i \in DOMAIN f |-> f[i].amount]
<1>1. \A i \in A \cup B : F[i] \in Nat
  OBVIOUS
<1> HIDE DEF F
<1>2. SumFunctionOnSet(F, A \cup B) = SumFunctionOnSet(F, A) + SumFunctionOnSet(F, B)
  BY <1>1, SumUnion
<1> QED BY <1>2 DEF SumAmount, F

\* A record that is put into the file under a new key.
LEMMA AmountsPut ==
  ASSUME NEW f, NEW D, IsFiniteSet(D), D \subseteq DOMAIN f, \A i \in D : f[i].amount \in Nat,
         NEW k, k \notin DOMAIN f, NEW v, v.amount \in Nat
  PROVE  /\ SumAmount(Put(f, k, v), D) = SumAmount(f, D)
         /\ SumAmount(Put(f, k, v), D \cup {k}) = SumAmount(f, D) + v.amount
<1> DEFINE g == Put(f, k, v)
<1>1. /\ DOMAIN g = DOMAIN f \cup {k} /\ g[k] = v /\ k \notin D
      /\ \A i \in D : g[i] = f[i]
  BY DEF Put
<1> HIDE DEF g
<1>2. SumAmount(g, D) = SumAmount(f, D)
  BY <1>1, AmountsKept
<1>3. SumAmount(g, D \cup {k}) = SumAmount(g, D) + g[k].amount
  BY <1>1, AmountsAdd
<1> QED BY <1>1, <1>2, <1>3 DEF g

OfAsset(a) == {i \in DOMAIN deposits : deposits[i].asset = a}
OfUser(u) == {i \in DOMAIN deposits : i[1] = u}
PaidTo(r) == {i \in Executed : unlocks[i].recipient = r}

DepositBooks ==
  /\ IsFiniteSet(DOMAIN deposits)
  /\ total_locked = SumAmount(deposits, OfAsset(SOL))
  /\ \A m \in SplMints : spl_vault[m] = SumAmount(deposits, OfAsset(m))
  /\ global_nonce = Cardinality(DOMAIN deposits)
  /\ \A u \in Users : user_state[u].total_deposited = SumAmount(deposits, OfUser(u))

\* A record is executed when it has been paid, and in no other case.
UnlockBooks ==
  /\ IsFiniteSet(DOMAIN unlocks)
  /\ DOMAIN payouts = Executed
  /\ total_unlocked = SumAmount(unlocks, Executed)
  /\ \A r \in Recipients : received[r] = SumAmount(unlocks, PaidTo(r))

ValidatorBooks ==
  /\ IsFiniteSet(validators)
  /\ validator_count = Cardinality(validators)
  /\ validator_count <= config.max_validators

Books == DepositBooks /\ UnlockBooks /\ ValidatorBooks

\* Nothing is in the books when the program is initialized.
LEMMA BooksInit == Init => Books
<1> SUFFICES ASSUME Init PROVE Books
  OBVIOUS
<1>1. SumAmount([i \in {} |-> 0], {}) = 0
  BY SumEmpty DEF SumAmount
<1>2. IsFiniteSet({}) /\ Cardinality({}) = 0
  BY FS_EmptySet
<1>3. \A a : OfAsset(a) = {}
  BY DEF Init, OfAsset
<1>4. \A u : OfUser(u) = {}
  BY DEF Init, OfUser
<1>5. Executed = {} /\ \A r : PaidTo(r) = {}
  BY DEF Init, Executed, PaidTo
<1>6. DepositBooks
  BY <1>1, <1>2, <1>3, <1>4 DEF Init, DepositBooks
<1>7. UnlockBooks
  BY <1>1, <1>2, <1>5 DEF Init, UnlockBooks
<1>8. ValidatorBooks
  <2>1. \A c \in InitConfigs : ValidInit(c) => 0 <= c.max_validators
    BY ConstantsAssumption DEF ConstantsAssumption, ConfigParams, ValidInit
  <2> QED BY <1>2, <2>1 DEF Init, ValidatorBooks
<1> QED BY <1>6, <1>7, <1>8 DEF Books

\* One deposit adds its amount to the total of its asset and of its user.
LEMMA BooksDeposit ==
  ASSUME TypeOK, DepositBooks, NEW u \in Users, NEW a \in Nat, NEW s \in {SOL} \cup SplMints,
         RecordDeposit(u, a, s),
         total_locked' = total_locked + (IF s = SOL THEN a ELSE 0),
         spl_vault' = [m \in SplMints |-> spl_vault[m] + (IF s = m THEN a ELSE 0)]
  PROVE  DepositBooks'
<1> DEFINE id == <<u, user_state[u].next_nonce>>
           rec == [amount |-> a, asset |-> s]
<1>1. /\ id \notin DOMAIN deposits /\ deposits' = Put(deposits, id, rec)
      /\ global_nonce' = global_nonce + 1
      /\ user_state' = [user_state EXCEPT ![u] =
                          [next_nonce |-> @.next_nonce + 1,
                           total_deposited |-> @.total_deposited + a]]
  BY DEF RecordDeposit
<1>2. rec.amount = a /\ rec.asset = s /\ id[1] = u
  OBVIOUS
<1> HIDE DEF id, rec
<1>3. /\ DOMAIN deposits' = DOMAIN deposits \cup {id} /\ deposits'[id] = rec
      /\ \A i \in DOMAIN deposits : deposits'[i] = deposits[i]
  BY <1>1 DEF Put
<1>4. /\ IsFiniteSet(DOMAIN deposits)
      /\ \A i \in DOMAIN deposits : deposits[i].amount \in Nat
  BY DEF DepositBooks, TypeOK, DepositType, DepositRecord
<1>5. ASSUME NEW D \in SUBSET DOMAIN deposits
      PROVE  /\ SumAmount(deposits', D) = SumAmount(deposits, D)
             /\ SumAmount(deposits', D \cup {id}) = SumAmount(deposits, D) + a
             /\ SumAmount(deposits, D) \in Nat
  <2>1. IsFiniteSet(D)
    BY <1>4, FS_Subset
  <2> QED BY <1>1, <1>2, <1>4, <2>1, AmountsPut, AmountsType
<1>6. ASSUME NEW t
      PROVE  /\ OfAsset(t)' = IF t = s THEN OfAsset(t) \cup {id} ELSE OfAsset(t)
             /\ OfAsset(t) \subseteq DOMAIN deposits
  BY <1>1, <1>2, <1>3 DEF OfAsset
<1>7. ASSUME NEW v
      PROVE  /\ OfUser(v)' = IF v = u THEN OfUser(v) \cup {id} ELSE OfUser(v)
             /\ OfUser(v) \subseteq DOMAIN deposits
  BY <1>1, <1>2, <1>3 DEF OfUser
<1>8. ASSUME NEW t
      PROVE  SumAmount(deposits', OfAsset(t)') =
               SumAmount(deposits, OfAsset(t)) + (IF s = t THEN a ELSE 0)
  <2> DEFINE D == OfAsset(t)
             E == OfAsset(t)'
  <2>1. D \in SUBSET DOMAIN deposits /\ (s = t => E = D \cup {id}) /\ (s # t => E = D)
    BY <1>6
  <2> HIDE DEF D, E
  <2>2. /\ SumAmount(deposits', D) = SumAmount(deposits, D)
        /\ SumAmount(deposits', D \cup {id}) = SumAmount(deposits, D) + a
        /\ SumAmount(deposits, D) \in Nat
    BY <1>5, <2>1
  <2>3. ASSUME s = t PROVE SumAmount(deposits', E) = SumAmount(deposits, D) + a
    BY <2>1, <2>2, <2>3
  <2>4. ASSUME s # t PROVE SumAmount(deposits', E) = SumAmount(deposits, D) + 0
    BY <2>1, <2>2, <2>4
  <2> QED BY <2>3, <2>4 DEF D, E
<1>9. ASSUME NEW v
      PROVE  SumAmount(deposits', OfUser(v)') =
               SumAmount(deposits, OfUser(v)) + (IF v = u THEN a ELSE 0)
  <2> DEFINE D == OfUser(v)
             E == OfUser(v)'
  <2>1. D \in SUBSET DOMAIN deposits /\ (v = u => E = D \cup {id}) /\ (v # u => E = D)
    BY <1>7
  <2> HIDE DEF D, E
  <2>2. /\ SumAmount(deposits', D) = SumAmount(deposits, D)
        /\ SumAmount(deposits', D \cup {id}) = SumAmount(deposits, D) + a
        /\ SumAmount(deposits, D) \in Nat
    BY <1>5, <2>1
  <2>3. ASSUME v = u PROVE SumAmount(deposits', E) = SumAmount(deposits, D) + a
    BY <2>1, <2>2, <2>3
  <2>4. ASSUME v # u PROVE SumAmount(deposits', E) = SumAmount(deposits, D) + 0
    BY <2>1, <2>2, <2>4
  <2> QED BY <2>3, <2>4 DEF D, E
<1>10. IsFiniteSet(DOMAIN deposits') /\ global_nonce' = Cardinality(DOMAIN deposits')
  BY <1>1, <1>3, FS_AddElement DEF DepositBooks
<1>11. total_locked' = SumAmount(deposits', OfAsset(SOL)')
  BY <1>8 DEF DepositBooks
<1>12. ASSUME NEW m \in SplMints PROVE spl_vault'[m] = SumAmount(deposits', OfAsset(m)')
  BY <1>8 DEF DepositBooks
<1>13. ASSUME NEW v \in Users
       PROVE  user_state'[v].total_deposited = SumAmount(deposits', OfUser(v)')
  <2>1. user_state \in [Users -> UserState] /\ user_state[v].total_deposited \in Nat
    BY DEF TypeOK, DepositType, UserState
  <2>2. user_state'[v].total_deposited =
          user_state[v].total_deposited + (IF v = u THEN a ELSE 0)
    BY <1>1, <2>1
  <2>3. user_state[v].total_deposited = SumAmount(deposits, OfUser(v))
    BY DEF DepositBooks
  <2> QED BY <1>9, <2>2, <2>3
<1> QED BY <1>10, <1>11, <1>12, <1>13 DEF DepositBooks

\* What a step of UnlockNext does to the records and the payments: records keep
\* their terms, and at most one of them is paid.
KeepsTerms ==
  /\ DOMAIN unlocks \subseteq DOMAIN unlocks'
  /\ \A i \in DOMAIN unlocks :
       /\ unlocks'[i].amount = unlocks[i].amount
       /\ unlocks'[i].recipient = unlocks[i].recipient
       /\ unlocks'[i].timestamp = unlocks[i].timestamp

Pays(id) ==
  /\ id \in DOMAIN unlocks' /\ id \notin Executed /\ Executed' = Executed \cup {id}
  /\ unlocks'[id].amount \in Nat
  /\ PayOut(id, unlocks'[id].recipient, unlocks'[id].amount)
  /\ current_daily_outflow' = DailyOutflow + unlocks'[id].amount
  /\ current_daily_outflow' <= config.max_daily_outflow

PaysNone ==
  /\ Executed' = Executed
  /\ UNCHANGED <<vault, received, total_unlocked, payouts>>
  /\ current_daily_outflow' = DailyOutflow

\* What the acceptance of a burn does to the hourly window.
Accepts(id) ==
  /\ id \notin DOMAIN unlocks /\ DOMAIN unlocks' = DOMAIN unlocks \cup {id}
  /\ unlocks'[id].timestamp = now /\ unlocks'[id].amount \in Nat
  /\ ChargeHourly(unlocks'[id].amount)

AcceptsNone ==
  DOMAIN unlocks' = DOMAIN unlocks /\ UNCHANGED <<current_hourly_outflow, last_hourly_reset>>

LEMMA UnlockSteps ==
  ASSUME TypeOK, UnlockNext
  PROVE  /\ KeepsTerms /\ ResetDaily
         /\ PaysNone \/ \E id \in BurnIds : Pays(id)
         /\ AcceptsNone \/ \E id \in BurnIds : Accepts(id)
<1>0. unlocks \in [DOMAIN unlocks -> UnlockRecord]
  BY DEF TypeOK, UnlockType
<1>1. ASSUME NEW m \in Messages, NEW att \in AttestationLists, Unlock(m, att)
      PROVE  /\ KeepsTerms /\ ResetDaily
             /\ PaysNone \/ \E id \in BurnIds : Pays(id)
             /\ AcceptsNone \/ \E id \in BurnIds : Accepts(id)
  <2> DEFINE id == m.transfer_id
  <2>1. id \in BurnIds /\ m.amount \in Nat /\ id \notin DOMAIN unlocks
    BY <1>1, ConstantsAssumption DEF ConstantsAssumption, UnlockMessage, Unlock, UnlockAllowed
  <2>2. ASSUME NEW e \in BOOLEAN, NEW t, NewRecord(m, e, t)
        PROVE  /\ DOMAIN unlocks' = DOMAIN unlocks \cup {id}
               /\ unlocks'[id].recipient = m.recipient /\ unlocks'[id].amount = m.amount
               /\ unlocks'[id].timestamp = now
               /\ KeepsTerms
               /\ Executed' = IF e THEN Executed \cup {id} ELSE Executed
    <3> DEFINE r == [recipient |-> m.recipient, amount |-> m.amount, timestamp |-> now,
                     executed |-> e, scheduled_time |-> t]
    <3>1. /\ r.recipient = m.recipient /\ r.amount = m.amount /\ r.executed = e
          /\ r.timestamp = now
      OBVIOUS
    <3>2. unlocks' = Put(unlocks, id, r)
      BY <2>2 DEF NewRecord
    <3> HIDE DEF r, id
    <3>3. /\ DOMAIN unlocks' = DOMAIN unlocks \cup {id} /\ unlocks'[id] = r
          /\ \A j \in DOMAIN unlocks : unlocks'[j] = unlocks[j]
      BY <2>1, <3>2 DEF Put
    <3>4. Executed' = IF e THEN Executed \cup {id} ELSE Executed
      BY <2>1, <3>1, <3>3 DEF Executed
    <3> QED BY <3>1, <3>3, <3>4 DEF KeepsTerms
  <2>3. ResetDaily /\ ChargeHourly(m.amount)
    BY <1>1 DEF Unlock
  <2>4. CASE /\ NewRecord(m, FALSE, now + config.large_withdrawal_delay)
             /\ current_daily_outflow' = DailyOutflow
             /\ UNCHANGED <<vault, received, total_unlocked, payouts>>
    <3>1. /\ DOMAIN unlocks' = DOMAIN unlocks \cup {id}
          /\ unlocks'[id].amount = m.amount /\ unlocks'[id].timestamp = now
          /\ KeepsTerms /\ Executed' = Executed
      BY <2>2, <2>4, FALSE \in BOOLEAN
    <3>2. PaysNone
      BY <2>4, <3>1 DEF PaysNone
    <3>3. Accepts(id)
      BY <2>1, <2>3, <3>1 DEF Accepts
    <3> HIDE DEF id
    <3> QED BY <2>1, <2>3, <3>1, <3>2, <3>3
  <2>5. CASE /\ PayOut(id, m.recipient, m.amount) /\ NewRecord(m, TRUE, 0)
             /\ current_daily_outflow' = DailyOutflow + m.amount
    <3>1. /\ DOMAIN unlocks' = DOMAIN unlocks \cup {id} /\ unlocks'[id].recipient = m.recipient
          /\ unlocks'[id].amount = m.amount /\ unlocks'[id].timestamp = now
          /\ KeepsTerms /\ Executed' = Executed \cup {id}
      BY <2>2, <2>5, TRUE \in BOOLEAN
    <3>2. DailyOutflow + m.amount <= config.max_daily_outflow
      BY <1>1 DEF Unlock, UnlockAllowed
    <3>3. id \notin Executed
      BY <2>1 DEF Executed
    <3>4. Pays(id)
      BY <2>1, <2>5, <3>1, <3>2, <3>3 DEF Pays
    <3>5. Accepts(id)
      BY <2>1, <2>3, <3>1 DEF Accepts
    <3> HIDE DEF id
    <3> QED BY <2>1, <2>3, <3>1, <3>4, <3>5
  <2> QED BY <1>1, <2>4, <2>5 DEF Unlock
<1>2. ASSUME NEW id \in BurnIds, NEW to \in Recipients, ExecuteScheduledUnlock(id, to)
      PROVE  KeepsTerms /\ ResetDaily /\ Pays(id) /\ AcceptsNone
  <2>1. /\ id \in DOMAIN unlocks /\ ~ unlocks[id].executed /\ to = unlocks[id].recipient
        /\ PayOut(id, to, unlocks[id].amount) /\ ResetDaily
        /\ current_daily_outflow' = DailyOutflow + unlocks[id].amount
        /\ current_daily_outflow' <= config.max_daily_outflow
        /\ unlocks' = [unlocks EXCEPT ![id].executed = TRUE]
        /\ UNCHANGED <<current_hourly_outflow, last_hourly_reset>>
    BY <1>2 DEF ExecuteScheduledUnlock
  <2>2. /\ DOMAIN unlocks' = DOMAIN unlocks
        /\ \A j \in DOMAIN unlocks : /\ unlocks'[j].recipient = unlocks[j].recipient
                                     /\ unlocks'[j].amount = unlocks[j].amount
                                     /\ unlocks'[j].timestamp = unlocks[j].timestamp
                                     /\ unlocks'[j].executed = IF j = id THEN TRUE ELSE unlocks[j].executed
    BY <1>0, <2>1 DEF UnlockRecord
  <2>3. Executed' = Executed \cup {id} /\ id \notin Executed
    BY <2>1, <2>2 DEF Executed
  <2>4. unlocks[id].amount \in Nat
    BY <1>0, <2>1 DEF UnlockRecord
  <2> QED BY <2>1, <2>2, <2>3, <2>4 DEF KeepsTerms, Pays, AcceptsNone
<1> QED BY <1>1, <1>2 DEF UnlockNext

\* A payment adds its amount to the total and to its recipient's.
LEMMA BooksUnlock ==
  ASSUME TypeOK, UnlockBooks, UnlockNext
  PROVE  UnlockBooks'
<1>1. /\ KeepsTerms
      /\ PaysNone \/ \E id \in BurnIds : Pays(id)
      /\ AcceptsNone \/ \E id \in BurnIds : Accepts(id)
  BY UnlockSteps
<1>2. /\ IsFiniteSet(DOMAIN unlocks) /\ Executed \subseteq DOMAIN unlocks
      /\ \A r : PaidTo(r) \subseteq Executed
      /\ \A i \in DOMAIN unlocks : unlocks[i].amount \in Nat
  BY DEF UnlockBooks, Executed, PaidTo, TypeOK, UnlockType, UnlockRecord
<1>3. IsFiniteSet(DOMAIN unlocks')
  BY <1>1, <1>2, FS_AddElement DEF AcceptsNone, Accepts
<1>4. ASSUME NEW D \in SUBSET DOMAIN unlocks
      PROVE  /\ IsFiniteSet(D) /\ D \subseteq DOMAIN unlocks'
             /\ SumAmount(unlocks', D) = SumAmount(unlocks, D)
             /\ SumAmount(unlocks, D) \in Nat
  <2>1. IsFiniteSet(D)
    BY <1>2, FS_Subset
  <2>2. D \subseteq DOMAIN unlocks' /\ \A i \in D : unlocks'[i].amount = unlocks[i].amount
    BY <1>1 DEF KeepsTerms
  <2>3. SumAmount(unlocks', D) = SumAmount(unlocks, D)
    BY <2>1, <2>2, AmountsKept
  <2>4. SumAmount(unlocks, D) \in Nat
    BY <1>2, <2>1, AmountsType
  <2> QED BY <2>1, <2>2, <2>3, <2>4
<1>5. CASE PaysNone
  <2>1. Executed' = Executed /\ UNCHANGED <<received, total_unlocked, payouts>>
    BY <1>5 DEF PaysNone
  <2>2. ASSUME NEW r PROVE PaidTo(r)' = PaidTo(r)
    BY <1>1, <1>2, <2>1 DEF PaidTo, KeepsTerms
  <2>3. DOMAIN payouts' = Executed' /\ total_unlocked' = SumAmount(unlocks', Executed')
    BY <1>2, <1>4, <2>1 DEF UnlockBooks
  <2>4. ASSUME NEW r \in Recipients PROVE received'[r] = SumAmount(unlocks', PaidTo(r)')
    <3>1. SumAmount(unlocks', PaidTo(r)) = SumAmount(unlocks, PaidTo(r))
      BY <1>2, <1>4
    <3> QED BY <2>1, <2>2, <3>1 DEF UnlockBooks
  <2> QED BY <1>3, <2>3, <2>4 DEF UnlockBooks
<1>6. ASSUME NEW id \in BurnIds, Pays(id) PROVE UnlockBooks'
  <2> DEFINE n == unlocks'[id].amount
             to == unlocks'[id].recipient
  <2>1. /\ id \in DOMAIN unlocks' /\ id \notin Executed /\ Executed' = Executed \cup {id}
        /\ n \in Nat
        /\ received' = [received EXCEPT ![to] = @ + n]
        /\ total_unlocked' = total_unlocked + n
        /\ DOMAIN payouts' = DOMAIN payouts \cup {id}
    BY <1>6 DEF Pays, PayOut, Put
  <2>2. ASSUME NEW D \in SUBSET Executed
        PROVE  SumAmount(unlocks', D \cup {id}) = SumAmount(unlocks, D) + n
    <3>1. /\ IsFiniteSet(D) /\ D \subseteq DOMAIN unlocks'
          /\ SumAmount(unlocks', D) = SumAmount(unlocks, D)
      BY <1>2, <1>4
    <3>2. \A i \in D \cup {id} : unlocks'[i].amount \in Nat
      BY <1>1, <1>2, <2>1 DEF KeepsTerms
    <3>3. id \notin D /\ D \cup {id} \subseteq DOMAIN unlocks'
      BY <2>1, <3>1
    <3> HIDE DEF n
    <3>4. SumAmount(unlocks', D \cup {id}) = SumAmount(unlocks', D) + unlocks'[id].amount
      BY <3>1, <3>2, <3>3, AmountsAdd
    <3> QED BY <3>1, <3>4 DEF n
  <2>3. DOMAIN payouts' = Executed' /\ total_unlocked' = SumAmount(unlocks', Executed')
    BY <2>1, <2>2 DEF UnlockBooks
  <2>4. ASSUME NEW r PROVE PaidTo(r)' = IF r = to THEN PaidTo(r) \cup {id} ELSE PaidTo(r)
    <3>1. \A i \in Executed : unlocks'[i].recipient = unlocks[i].recipient
      BY <1>1, <1>2 DEF KeepsTerms
    <3> QED BY <2>1, <3>1 DEF PaidTo
  <2>5. ASSUME NEW r \in Recipients PROVE received'[r] = SumAmount(unlocks', PaidTo(r)')
    <3> DEFINE D == PaidTo(r)
    <3>1. /\ SumAmount(unlocks', D) = SumAmount(unlocks, D)
          /\ SumAmount(unlocks', D \cup {id}) = SumAmount(unlocks, D) + n
          /\ received[r] = SumAmount(unlocks, D)
      BY <1>2, <1>4, <2>2 DEF UnlockBooks
    <3>2. received'[r] = IF r = to THEN received[r] + n ELSE received[r]
      BY <2>1 DEF TypeOK, UnlockType
    <3> HIDE DEF D, n, to
    <3>3. CASE r = to
      <4>1. PaidTo(r)' = D \cup {id}
        BY <2>4, <3>3 DEF D
      <4> QED BY <3>1, <3>2, <3>3, <4>1
    <3>4. CASE r # to
      <4>1. PaidTo(r)' = D
        BY <2>4, <3>4 DEF D
      <4> QED BY <3>1, <3>2, <3>4, <4>1
    <3> QED BY <3>3, <3>4
  <2> QED BY <1>3, <2>3, <2>5 DEF UnlockBooks
<1> QED BY <1>1, <1>5, <1>6

\* The counter of validators follows the accounts, and the cap never falls below it.
LEMMA BooksValidators ==
  ASSUME TypeOK, ValidatorBooks, [Next]_vars
  PROVE  ValidatorBooks'
<1>1. /\ IsFiniteSet(validators) /\ validator_count = Cardinality(validators)
      /\ validator_count \in Nat /\ validator_count <= config.max_validators
      /\ config \in ConfigParams
  BY DEF ValidatorBooks, TypeOK, ValidatorType, AdminType
<1>2. config.max_validators \in Nat
  BY <1>1 DEF ConfigParams
<1>3. CASE ValidatorNext
  <2>1. ASSUME NEW k \in Keys, NEW v \in Validators, RegisterValidator(k, v)
        PROVE  ValidatorBooks'
    BY <1>1, <1>2, <2>1, FS_AddElement DEF RegisterValidator, ValidatorBooks, admin_vars
  <2>2. ASSUME NEW k \in Keys, NEW v \in Validators, RemoveValidator(k, v)
        PROVE  ValidatorBooks'
    BY <1>1, <1>2, <2>2, FS_RemoveElement DEF RemoveValidator, ValidatorBooks, admin_vars
  <2> QED BY <1>3, <2>1, <2>2 DEF ValidatorNext
<1>4. CASE UNCHANGED validator_vars /\ config'.max_validators = config.max_validators
  BY <1>1, <1>4 DEF ValidatorBooks, validator_vars
<1>5. ASSUME NEW k \in Keys, NEW p \in ConfigInputs, UpdateConfig(k, p)
      PROVE  ValidatorBooks'
  BY <1>4, <1>5 DEF UpdateConfig, UpdateAllowed
<1>6. ASSUME NEW t \in ChangeTypes, ExecuteConfigChange(t) PROVE ValidatorBooks'
  BY <1>1, <1>4, <1>6 DEF ExecuteConfigChange, ApplyChange, ConfigParams
<1>7. CASE AdminNext
  BY <1>4, <1>5, <1>6, <1>7 DEF AdminNext, EmergencyPause, EmergencyResume, ProposeConfigChange,
     CancelConfigChange
<1>8. CASE UserNext \/ UnlockNext \/ (\E n \in Gifts : Gift(n)) \/ Tick \/ UNCHANGED vars
  BY <1>4, <1>8 DEF UserNext, UnlockNext, Deposit, DepositSpl, Unlock, ExecuteScheduledUnlock,
     Gift, Tick, vars, admin_vars
<1> QED BY <1>3, <1>7, <1>8 DEF Next

\* Every step keeps the books.
LEMMA BooksNext == TypeOK /\ Books /\ [Next]_vars => Books'
<1> SUFFICES ASSUME TypeOK, Books, [Next]_vars PROVE Books'
  OBVIOUS
<1>1. ValidatorBooks'
  BY BooksValidators DEF Books
<1>2. ASSUME UNCHANGED deposit_vars PROVE DepositBooks'
  BY <1>2 DEF Books, deposit_vars, DepositBooks, OfAsset, OfUser
<1>3. ASSUME UNCHANGED unlock_vars PROVE UnlockBooks'
  BY <1>3 DEF Books, unlock_vars, UnlockBooks, Executed, PaidTo
<1>4. CASE UserNext
  <2>1. ASSUME NEW u \in Users, NEW a \in Amounts, Deposit(u, a) PROVE DepositBooks'
    <3>1. a \in Nat /\ RecordDeposit(u, a, SOL) /\ total_locked' = total_locked + a
      BY <2>1, ConstantsAssumption DEF Deposit, ConstantsAssumption
    <3>2. spl_vault' = [m \in SplMints |-> spl_vault[m] + (IF SOL = m THEN a ELSE 0)]
      BY <2>1, ConstantsAssumption DEF Deposit, ConstantsAssumption, TypeOK, DepositType
    <3> QED BY <3>1, <3>2, BooksDeposit DEF Books
  <2>2. ASSUME NEW u \in Users, NEW a \in Amounts, NEW m \in SplMints, DepositSpl(u, a, m)
        PROVE  DepositBooks'
    <3>1. a \in Nat /\ m # SOL
      BY ConstantsAssumption DEF ConstantsAssumption
    <3>3. RecordDeposit(u, a, m) /\ total_locked' = total_locked + 0
      BY <2>2 DEF DepositSpl, TypeOK, DepositType
    <3>2. spl_vault' = [t \in SplMints |-> spl_vault[t] + (IF m = t THEN a ELSE 0)]
      <4>1. spl_vault \in [SplMints -> Nat] /\ spl_vault' = [spl_vault EXCEPT ![m] = @ + a]
        BY <2>2 DEF DepositSpl, TypeOK, DepositType
      <4>2. \A t \in SplMints : spl_vault'[t] = spl_vault[t] + (IF m = t THEN a ELSE 0)
        BY <3>1, <4>1
      <4>3. spl_vault' \in [SplMints -> Nat]
        BY <3>1, <4>1
      <4> QED BY <4>2, <4>3
    <3> QED BY <3>1, <3>2, <3>3, BooksDeposit DEF Books
  <2>3. UNCHANGED unlock_vars
    BY <1>4 DEF UserNext, Deposit, DepositSpl
  <2> QED BY <1>1, <1>3, <1>4, <2>1, <2>2, <2>3 DEF Books, UserNext
<1>5. CASE UnlockNext
  <2>1. UNCHANGED deposit_vars
    BY <1>5 DEF UnlockNext, Unlock, ExecuteScheduledUnlock
  <2>2. UnlockBooks'
    BY <1>5, BooksUnlock DEF Books
  <2> QED BY <1>1, <1>2, <2>1, <2>2 DEF Books
<1>6. CASE ValidatorNext \/ AdminNext \/ (\E n \in Gifts : Gift(n)) \/ Tick \/ UNCHANGED vars
  <2>1. UNCHANGED <<deposit_vars, unlock_vars>>
    BY <1>6 DEF AdminNext, ValidatorNext, EmergencyPause, EmergencyResume, UpdateConfig,
       ProposeConfigChange, ExecuteConfigChange, CancelConfigChange, RegisterValidator,
       RemoveValidator, Gift, Tick, vars
  <2> QED BY <1>1, <1>2, <1>3, <2>1 DEF Books
<1> QED BY <1>4, <1>5, <1>6 DEF Next

(* The counters of the accounts are the sums over their records, whatever    *)
(* order deposits, unlocks and registrations come in: what is locked and     *)
(* unlocked, what each user deposited and each recipient received, the       *)
(* nonces and the number of validators.                                      *)
THEOREM BooksAgree == Spec => []BooksMatchRecords
<1>1. ASSUME TypeOK, Books, NoncesContiguous PROVE BooksMatchRecords
  <2>1. ASSUME NEW u \in Users
        PROVE  OfUser(u) = {<<u, n>> : n \in 0 .. user_state[u].next_nonce - 1}
    <3>1. DOMAIN deposits \subseteq Users \X Nat /\ user_state[u].next_nonce \in Nat
      BY <1>1 DEF TypeOK, DepositType, TransferIds, UserState
    <3>2. ASSUME NEW i \in OfUser(u)
          PROVE  i \in {<<u, n>> : n \in 0 .. user_state[u].next_nonce - 1}
      BY <1>1, <3>1, <3>2 DEF OfUser, NoncesContiguous
    <3>3. ASSUME NEW n \in 0 .. user_state[u].next_nonce - 1
          PROVE  <<u, n>> \in OfUser(u)
      BY <1>1, <3>1, <3>3 DEF OfUser, NoncesContiguous
    <3> QED BY <3>2, <3>3
  <2>2. DepositBooks /\ UnlockBooks /\ ValidatorBooks
    BY <1>1 DEF Books
  <2> QED BY <2>1, <2>2 DEF BooksMatchRecords, DepositBooks, UnlockBooks, ValidatorBooks,
             OfAsset, OfUser, PaidTo
<1>2. Spec => []Books
  BY BooksInit, BooksNext, TypeCorrect, PTL DEF Spec
<1> QED BY <1>1, <1>2, TypeCorrect, NoncesHaveNoGaps, PTL

(***************************************************************************)
(* The windows                                                             *)
(***************************************************************************)

\* No payment is later than now, or in a window later than the current one; the
\* same of acceptances and the hourly window.
Dated ==
  /\ last_daily_reset <= now /\ last_hourly_reset <= now
  /\ \A i \in DOMAIN payouts :
       payouts[i].at <= now /\ payouts[i].at < last_daily_reset + Day
  /\ \A i \in DOMAIN unlocks :
       unlocks[i].timestamp <= now /\ unlocks[i].timestamp < last_hourly_reset + Hour

AcceptedSince(t) == {i \in DOMAIN unlocks : unlocks[i].timestamp >= t}

HourlyBooks ==
  (\A c \in InitConfigs : c.max_hourly_outflow > 0) =>
    /\ config.max_hourly_outflow > 0
    /\ current_hourly_outflow = SumAmount(unlocks, AcceptedSince(last_hourly_reset))

DailyBooks == current_daily_outflow = SumAmount(unlocks, PaidIn(last_daily_reset, now + 1))

\* The payments from a to b are within a cap that was in force at one of them.
Within(a, b) ==
  PaidIn(a, b) # {} =>
    \E i \in PaidIn(a, b) : SumAmount(unlocks, PaidIn(a, b)) <= payouts[i].cap

\* What the tumbling window keeps: the payments at the end of the previous window
\* and at the end of the current one are within a cap, and any 24 hours split
\* into two such intervals.
Windows ==
  /\ \A s \in Nat : last_daily_reset < s + Day => Within(s, last_daily_reset)
  /\ \A s \in Nat : last_daily_reset <= s => Within(s, now + 1)
  /\ \A s \in Nat : \E t \in s .. s + Day : Within(s, t) /\ Within(t, s + Day)

WindowBooks == Dated /\ HourlyBooks /\ DailyBooks /\ Windows

\* The start of the window once the handler has made its reset.
Start == IF DayOver THEN now ELSE last_daily_reset

\* PaidIn and Within in the next state, as operators of the instants alone.
PaidAfter(a, b) == {i \in DOMAIN payouts' : payouts'[i].at >= a /\ payouts'[i].at < b}
WithinAfter(a, b) ==
  PaidAfter(a, b) # {} =>
    \E i \in PaidAfter(a, b) : SumAmount(unlocks', PaidAfter(a, b)) <= payouts'[i].cap

\* The types the windows are reckoned in.
LEMMA WindowTypes ==
  ASSUME TypeOK, UnlockBooks
  PROVE  /\ now \in Nat /\ Day \in Nat /\ Day > 0 /\ Start \in Nat /\ last_daily_reset \in Nat
         /\ \A i \in DOMAIN payouts : payouts[i].at \in Nat /\ payouts[i].cap \in Nat
         /\ \A i \in DOMAIN unlocks : unlocks[i].amount \in Nat /\ unlocks[i].timestamp \in Nat
         /\ DOMAIN payouts \subseteq DOMAIN unlocks
         /\ \A D \in SUBSET DOMAIN unlocks : IsFiniteSet(D) /\ SumAmount(unlocks, D) \in Nat
         /\ \A a, b \in Nat : PaidIn(a, b) \subseteq DOMAIN payouts
<1>1. /\ now \in Nat /\ Day \in Nat /\ Day > 0 /\ Start \in Nat /\ last_daily_reset \in Nat
  BY ConstantsAssumption DEF ConstantsAssumption, TypeOK, LimitType, Start
<1>2. \A i \in DOMAIN payouts : payouts[i].at \in Nat /\ payouts[i].cap \in Nat
  BY DEF TypeOK, UnlockType, Payout
<1>3. \A i \in DOMAIN unlocks : unlocks[i].amount \in Nat /\ unlocks[i].timestamp \in Nat
  BY DEF TypeOK, UnlockType, UnlockRecord
<1>4. DOMAIN payouts \subseteq DOMAIN unlocks
  BY DEF TypeOK, UnlockType
<1>5. ASSUME NEW D \in SUBSET DOMAIN unlocks
      PROVE  IsFiniteSet(D) /\ SumAmount(unlocks, D) \in Nat
  <2>1. IsFiniteSet(D)
    BY FS_Subset DEF UnlockBooks
  <2> QED BY <1>3, <2>1, AmountsType
<1>6. \A a, b \in Nat : PaidIn(a, b) \subseteq DOMAIN payouts
  BY DEF PaidIn
<1> QED BY <1>1, <1>2, <1>3, <1>4, <1>5, <1>6

\* The reset moves the window on without losing what it keeps.
LEMMA WindowReset ==
  ASSUME TypeOK, UnlockBooks, WindowBooks
  PROVE  /\ Start <= now /\ now < Start + Day
         /\ \A i \in DOMAIN payouts : payouts[i].at <= now /\ payouts[i].at < Start + Day
         /\ DailyOutflow = SumAmount(unlocks, PaidIn(Start, now + 1))
         /\ \A s \in Nat : Start < s + Day => Within(s, Start)
         /\ \A s \in Nat : Start <= s => Within(s, now + 1)
<1>1. /\ now \in Nat /\ Day \in Nat /\ Day > 0 /\ last_daily_reset \in Nat
      /\ \A i \in DOMAIN payouts : payouts[i].at \in Nat
  BY WindowTypes
<1>2. /\ last_daily_reset <= now
      /\ \A i \in DOMAIN payouts : payouts[i].at <= now /\ payouts[i].at < last_daily_reset + Day
  BY DEF WindowBooks, Dated
<1>3. /\ \A s \in Nat : last_daily_reset < s + Day => Within(s, last_daily_reset)
      /\ \A s \in Nat : last_daily_reset <= s => Within(s, now + 1)
  BY DEF WindowBooks, Windows
<1>4. CASE ~ DayOver
  <2>1. Start = last_daily_reset /\ DailyOutflow = current_daily_outflow
        /\ now < last_daily_reset + Day
    BY <1>1, <1>4 DEF Start, DailyOutflow, DayOver
  <2> QED BY <1>2, <1>3, <2>1 DEF WindowBooks, DailyBooks
<1>5. CASE DayOver
  <2>1. Start = now /\ DailyOutflow = 0 /\ last_daily_reset + Day <= now
    BY <1>1, <1>5 DEF Start, DailyOutflow, DayOver
  <2>2. \A i \in DOMAIN payouts : payouts[i].at < now
    BY <1>1, <1>2, <2>1
  <2>3. \A s \in Nat : PaidIn(s, now) = PaidIn(s, now + 1) /\ (now <= s => PaidIn(s, now + 1) = {})
    BY <1>1, <2>2 DEF PaidIn
  <2>4. ASSUME NEW s \in Nat, now < s + Day PROVE Within(s, now)
    <3>1. Within(s, now + 1)
      BY <1>1, <1>3, <2>1, <2>4
    <3> QED BY <2>3, <3>1 DEF Within
  <2>5. ASSUME NEW s \in Nat, now <= s PROVE Within(s, now + 1)
    BY <2>3, <2>5 DEF Within
  <2>6. SumAmount(unlocks, PaidIn(now, now + 1)) = 0
    <3>1. PaidIn(now, now + 1) = {}
      BY <1>1, <2>3
    <3>2. SumAmount(unlocks, {}) = 0
      BY SumEmpty DEF SumAmount
    <3> QED BY <3>1, <3>2
  <2> QED BY <1>1, <1>2, <2>1, <2>2, <2>4, <2>5, <2>6
<1> QED BY <1>4, <1>5

\* A payment that the daily check let through keeps the windows.
LEMMA WindowPays ==
  ASSUME TypeOK, UnlockBooks, WindowBooks, KeepsTerms, ResetDaily, now' = now,
         NEW id \in BurnIds, Pays(id)
  PROVE  DailyBooks' /\ Windows'
<1> DEFINE n == unlocks'[id].amount
<1>1. /\ now \in Nat /\ Day \in Nat /\ Day > 0 /\ Start \in Nat
      /\ \A i \in DOMAIN payouts : payouts[i].at \in Nat
      /\ DOMAIN payouts \subseteq DOMAIN unlocks
      /\ \A D \in SUBSET DOMAIN unlocks : IsFiniteSet(D) /\ SumAmount(unlocks, D) \in Nat
      /\ \A i \in DOMAIN unlocks : unlocks[i].amount \in Nat
      /\ \A a, b \in Nat : PaidIn(a, b) \subseteq DOMAIN payouts
  BY WindowTypes
<1>2. /\ Start <= now /\ now < Start + Day
      /\ \A i \in DOMAIN payouts : payouts[i].at <= now
      /\ DailyOutflow = SumAmount(unlocks, PaidIn(Start, now + 1))
      /\ \A s \in Nat : Start < s + Day => Within(s, Start)
      /\ \A s \in Nat : Start <= s => Within(s, now + 1)
  BY WindowReset
<1>3. /\ id \in DOMAIN unlocks' /\ id \notin DOMAIN payouts /\ n \in Nat
      /\ DOMAIN payouts' = DOMAIN payouts \cup {id}
      /\ payouts'[id].at = now /\ payouts'[id].cap = config.max_daily_outflow
      /\ \A i \in DOMAIN payouts : payouts'[i] = payouts[i]
      /\ current_daily_outflow' = DailyOutflow + n
      /\ DailyOutflow + n <= config.max_daily_outflow
      /\ last_daily_reset' = Start
  BY DEF Pays, PayOut, Put, UnlockBooks, ResetDaily, Start
<1> HIDE DEF n
<1>4. ASSUME NEW D \in SUBSET DOMAIN payouts
      PROVE  /\ SumAmount(unlocks', D) = SumAmount(unlocks, D)
             /\ SumAmount(unlocks', D \cup {id}) = SumAmount(unlocks, D) + n
  <2>1. /\ IsFiniteSet(D) /\ D \subseteq DOMAIN unlocks /\ D \subseteq DOMAIN unlocks'
        /\ id \notin D /\ D \cup {id} \subseteq DOMAIN unlocks'
    BY <1>1, <1>3 DEF KeepsTerms
  <2>2. SumAmount(unlocks', D) = SumAmount(unlocks, D)
    BY <2>1, AmountsKept DEF KeepsTerms
  <2>3. \A i \in D \cup {id} : unlocks'[i].amount \in Nat
    BY <1>1, <1>3, <2>1 DEF KeepsTerms, n
  <2>4. SumAmount(unlocks', D \cup {id}) = SumAmount(unlocks', D) + unlocks'[id].amount
    BY <2>1, <2>3, AmountsAdd
  <2> QED BY <2>2, <2>4 DEF n
<1>5. ASSUME NEW a \in Nat, NEW b \in Nat
      PROVE  /\ a <= now /\ now < b => PaidAfter(a, b) = PaidIn(a, b) \cup {id}
             /\ ~ (a <= now /\ now < b) => PaidAfter(a, b) = PaidIn(a, b)
             /\ PaidIn(a, b) \in SUBSET DOMAIN payouts
             /\ now < b => PaidAfter(a, b) = PaidAfter(a, now + 1)
  <2>1. \A i \in DOMAIN payouts' : payouts'[i].at \in Nat /\ payouts'[i].at <= now
    BY <1>1, <1>2, <1>3
  <2>2. now < b => PaidAfter(a, b) = PaidAfter(a, now + 1)
    BY <1>1, <2>1 DEF PaidAfter
  <2> QED BY <1>1, <1>3, <2>2 DEF PaidAfter, PaidIn
<1>6. ASSUME NEW a \in Nat, NEW b \in Nat, ~ (a <= now /\ now < b), Within(a, b)
      PROVE  WithinAfter(a, b)
  <2>1. PaidAfter(a, b) = PaidIn(a, b) /\ PaidIn(a, b) \in SUBSET DOMAIN payouts
    BY <1>5, <1>6
  <2>2. SumAmount(unlocks', PaidAfter(a, b)) = SumAmount(unlocks, PaidIn(a, b))
    BY <1>4, <2>1
  <2> QED BY <1>3, <1>6, <2>1, <2>2 DEF Within, WithinAfter
<1>7. ASSUME NEW s \in Nat, Start <= s PROVE WithinAfter(s, now + 1)
  <2>1. CASE s > now
    BY <1>1, <1>2, <1>6, <1>7, <2>1
  <2>2. CASE s <= now
    <3>1. PaidAfter(s, now + 1) = PaidIn(s, now + 1) \cup {id}
      BY <1>1, <1>5, <2>2
    <3>2. /\ PaidIn(s, now + 1) \subseteq PaidIn(Start, now + 1)
          /\ PaidIn(Start, now + 1) \subseteq DOMAIN unlocks
      BY <1>1, <1>7 DEF PaidIn
    <3>3. SumAmount(unlocks, PaidIn(s, now + 1)) <= SumAmount(unlocks, PaidIn(Start, now + 1))
      BY <1>1, <3>2, AmountsSubset
    <3>4. SumAmount(unlocks', PaidAfter(s, now + 1)) = SumAmount(unlocks, PaidIn(s, now + 1)) + n
      <4> DEFINE D == PaidIn(s, now + 1)
      <4>1. D \in SUBSET DOMAIN payouts /\ PaidAfter(s, now + 1) = D \cup {id}
        BY <1>1, <3>1
      <4> HIDE DEF D
      <4>2. SumAmount(unlocks', D \cup {id}) = SumAmount(unlocks, D) + n
        BY <1>4, <4>1
      <4> QED BY <4>1, <4>2 DEF D
    <3>5. SumAmount(unlocks, PaidIn(s, now + 1)) \in Nat
          /\ SumAmount(unlocks, PaidIn(Start, now + 1)) \in Nat
      BY <1>1, <3>2
    <3>6. SumAmount(unlocks', PaidAfter(s, now + 1)) <= payouts'[id].cap
      <4>1. config.max_daily_outflow \in Nat
        BY DEF TypeOK, AdminType, ConfigParams
      <4> QED BY <1>2, <1>3, <3>3, <3>4, <3>5, <4>1
    <3> QED BY <3>1, <3>6 DEF WithinAfter
  <2> QED BY <1>1, <2>1, <2>2
<1>8. ASSUME NEW s \in Nat, Start < s + Day PROVE WithinAfter(s, Start)
  BY <1>1, <1>2, <1>6, <1>8
<1>9. ASSUME NEW s \in Nat PROVE \E t \in s .. s + Day : WithinAfter(s, t) /\ WithinAfter(t, s + Day)
  <2>1. CASE ~ (s <= now /\ now < s + Day)
    <3>1. PICK t \in s .. s + Day : Within(s, t) /\ Within(t, s + Day)
      BY DEF WindowBooks, Windows
    <3>2. WithinAfter(s, t) /\ WithinAfter(t, s + Day)
      BY <1>1, <1>6, <2>1, <3>1
    <3> QED BY <3>2
  <2>2. CASE s <= now /\ now < s + Day /\ Start <= s
    <3>1. WithinAfter(s, s)
      BY <1>1, <1>3 DEF WithinAfter, PaidAfter
    <3>2. WithinAfter(s, now + 1)
      BY <1>7, <2>2
    <3>3. WithinAfter(s, s + Day)
      BY <1>1, <1>5, <2>2, <3>2 DEF WithinAfter
    <3> QED BY <1>1, <3>1, <3>3
  <2>3. CASE s <= now /\ now < s + Day /\ ~ Start <= s
    <3>1. WithinAfter(s, Start)
      BY <1>1, <1>2, <1>8, <2>3
    <3>2. WithinAfter(Start, now + 1)
      BY <1>1, <1>7
    <3>3. WithinAfter(Start, s + Day)
      BY <1>1, <1>5, <2>3, <3>2 DEF WithinAfter
    <3>4. Start \in s .. s + Day
      BY <1>1, <1>2, <2>3
    <3> QED BY <3>1, <3>3, <3>4
  <2> QED BY <2>1, <2>2, <2>3
<1>10. current_daily_outflow' = SumAmount(unlocks', PaidAfter(Start, now + 1))
  <2>1. PaidAfter(Start, now + 1) = PaidIn(Start, now + 1) \cup {id}
    BY <1>1, <1>2, <1>5
  <2>2. SumAmount(unlocks', PaidAfter(Start, now + 1)) = SumAmount(unlocks, PaidIn(Start, now + 1)) + n
    <3> DEFINE D == PaidIn(Start, now + 1)
    <3>1. D \in SUBSET DOMAIN payouts /\ PaidAfter(Start, now + 1) = D \cup {id}
      BY <1>1, <2>1
    <3> HIDE DEF D
    <3>2. SumAmount(unlocks', D \cup {id}) = SumAmount(unlocks, D) + n
      BY <1>4, <3>1
    <3> QED BY <3>1, <3>2 DEF D
  <2> QED BY <1>2, <1>3, <2>2
<1>11. Windows'
  BY <1>3, <1>7, <1>8, <1>9 DEF Windows, Within, PaidIn, WithinAfter, PaidAfter
<1>12. DailyBooks'
  BY <1>3, <1>10 DEF DailyBooks, PaidIn, PaidAfter
<1> QED BY <1>11, <1>12

\* A step of an unlock that pays nothing keeps them as well.
LEMMA WindowPaysNone ==
  ASSUME TypeOK, UnlockBooks, WindowBooks, KeepsTerms, ResetDaily, now' = now, PaysNone
  PROVE  DailyBooks' /\ Windows'
<1>1. /\ now \in Nat /\ Start \in Nat
      /\ DOMAIN payouts \subseteq DOMAIN unlocks
      /\ \A D \in SUBSET DOMAIN unlocks : IsFiniteSet(D)
      /\ \A a, b \in Nat : PaidIn(a, b) \subseteq DOMAIN payouts
      /\ Day \in Nat
  BY WindowTypes
<1>2. /\ payouts' = payouts /\ current_daily_outflow' = DailyOutflow /\ last_daily_reset' = Start
  BY DEF PaysNone, ResetDaily, Start
<1>3. ASSUME NEW a \in Nat, NEW b \in Nat
      PROVE  /\ PaidAfter(a, b) = PaidIn(a, b)
             /\ SumAmount(unlocks', PaidIn(a, b)) = SumAmount(unlocks, PaidIn(a, b))
             /\ Within(a, b) => WithinAfter(a, b)
  <2>1. PaidAfter(a, b) = PaidIn(a, b)
    BY <1>2 DEF PaidAfter, PaidIn
  <2> DEFINE D == PaidIn(a, b)
  <2>2. IsFiniteSet(D) /\ D \subseteq DOMAIN unlocks /\ D \subseteq DOMAIN unlocks'
    BY <1>1 DEF KeepsTerms
  <2> HIDE DEF D
  <2>3. SumAmount(unlocks', D) = SumAmount(unlocks, D)
    BY <2>2, AmountsKept DEF KeepsTerms
  <2> QED BY <1>2, <2>1, <2>3 DEF Within, WithinAfter, D
<1>4. /\ \A s \in Nat : Start < s + Day => WithinAfter(s, Start)
      /\ \A s \in Nat : Start <= s => WithinAfter(s, now + 1)
  <2>1. /\ \A s \in Nat : Start < s + Day => Within(s, Start)
        /\ \A s \in Nat : Start <= s => Within(s, now + 1)
    BY WindowReset
  <2>2. \A c, b \in Nat : Within(c, b) => WithinAfter(c, b)
    BY <1>3
  <2>3. Start \in Nat /\ now + 1 \in Nat
    BY <1>1
  <2> QED BY <2>1, <2>2, <2>3, Zenon
<1>5. ASSUME NEW s \in Nat PROVE \E t \in s .. s + Day : WithinAfter(s, t) /\ WithinAfter(t, s + Day)
  <2>1. PICK t \in s .. s + Day : Within(s, t) /\ Within(t, s + Day)
    BY DEF WindowBooks, Windows
  <2>2. WithinAfter(s, t) /\ WithinAfter(t, s + Day)
    BY <1>1, <1>3, <2>1
  <2> QED BY <2>2
<1>6. current_daily_outflow' = SumAmount(unlocks', PaidAfter(Start, now + 1))
  BY <1>1, <1>2, <1>3, WindowReset
<1>7. Windows'
  BY <1>2, <1>4, <1>5 DEF Windows, Within, PaidIn, WithinAfter, PaidAfter
<1>8. DailyBooks'
  BY <1>2, <1>6 DEF DailyBooks, PaidIn, PaidAfter
<1> QED BY <1>7, <1>8

\* The hourly counter is charged when a burn is accepted.
LEMMA WindowAccepts ==
  ASSUME TypeOK, UnlockBooks, WindowBooks, UnlockNext
  PROVE  HourlyBooks'
<1> SUFFICES ASSUME \A c \in InitConfigs : c.max_hourly_outflow > 0
    PROVE  /\ config'.max_hourly_outflow > 0
           /\ current_hourly_outflow' = SumAmount(unlocks', AcceptedSince(last_hourly_reset)')
  BY DEF HourlyBooks
<1>1. /\ config' = config /\ now' = now
  BY DEF UnlockNext, Unlock, ExecuteScheduledUnlock, admin_vars
<1>2. config.max_hourly_outflow > 0
      /\ current_hourly_outflow = SumAmount(unlocks, AcceptedSince(last_hourly_reset))
  BY DEF WindowBooks, HourlyBooks
<1>3. KeepsTerms /\ (AcceptsNone \/ \E id \in BurnIds : Accepts(id))
  BY UnlockSteps
<1>4. /\ \A D \in SUBSET DOMAIN unlocks : IsFiniteSet(D) /\ SumAmount(unlocks, D) \in Nat
      /\ \A i \in DOMAIN unlocks : unlocks[i].amount \in Nat /\ unlocks[i].timestamp \in Nat
      /\ now \in Nat
  BY WindowTypes
<1>5. ASSUME NEW D \in SUBSET DOMAIN unlocks
      PROVE  D \subseteq DOMAIN unlocks' /\ SumAmount(unlocks', D) = SumAmount(unlocks, D)
  <2>1. D \subseteq DOMAIN unlocks'
    BY <1>3 DEF KeepsTerms
  <2> QED BY <1>3, <1>4, <2>1, AmountsKept DEF KeepsTerms
<1>6. CASE AcceptsNone
  <2> DEFINE D == AcceptedSince(last_hourly_reset)
             E == AcceptedSince(last_hourly_reset)'
  <2>1. E = D /\ D \in SUBSET DOMAIN unlocks
    BY <1>3, <1>6 DEF AcceptedSince, AcceptsNone, KeepsTerms
  <2>2. current_hourly_outflow' = current_hourly_outflow
    BY <1>6 DEF AcceptsNone
  <2>3. SumAmount(unlocks', D) = SumAmount(unlocks, D)
    BY <1>5, <2>1
  <2> QED BY <1>1, <1>2, <2>1, <2>2, <2>3
<1>7. ASSUME NEW id \in BurnIds, Accepts(id)
      PROVE  current_hourly_outflow' = SumAmount(unlocks', AcceptedSince(last_hourly_reset)')
  <2> DEFINE n == unlocks'[id].amount
             R == last_hourly_reset'
             D == {i \in DOMAIN unlocks : unlocks[i].timestamp >= R}
             E == AcceptedSince(last_hourly_reset)'
  <2>1. /\ id \notin DOMAIN unlocks /\ DOMAIN unlocks' = DOMAIN unlocks \cup {id}
        /\ unlocks'[id].timestamp = now /\ n \in Nat
        /\ current_hourly_outflow' = HourlyOutflow + n
        /\ R = (IF HourOver THEN now ELSE last_hourly_reset)
    BY <1>2, <1>7 DEF Accepts, ChargeHourly, ResetHourly
  <2>2. last_hourly_reset \in Nat /\ last_hourly_reset <= now /\ Hour \in Nat
        /\ \A i \in DOMAIN unlocks : unlocks[i].timestamp < last_hourly_reset + Hour
    BY ConstantsAssumption DEF WindowBooks, Dated, TypeOK, LimitType, ConstantsAssumption
  <2>3. R <= now /\ R \in Nat
    BY <1>4, <2>1, <2>2
  <2>4. E = D \cup {id} /\ D \in SUBSET DOMAIN unlocks
    BY <1>3, <1>4, <2>1, <2>3 DEF AcceptedSince, KeepsTerms
  <2>5. HourlyOutflow = SumAmount(unlocks, D)
    <3>1. CASE HourOver
      <4>1. D = {}
        BY <1>4, <2>1, <2>2, <3>1 DEF HourOver
      <4>2. SumAmount(unlocks, {}) = 0
        BY SumEmpty DEF SumAmount
      <4> QED BY <3>1, <4>1, <4>2 DEF HourlyOutflow
    <3>2. CASE ~ HourOver
      <4>1. D = AcceptedSince(last_hourly_reset)
        BY <2>1, <3>2 DEF AcceptedSince
      <4> QED BY <1>2, <3>2, <4>1 DEF HourlyOutflow
    <3> QED BY <3>1, <3>2
  <2> HIDE DEF D, E, n, R
  <2>6. SumAmount(unlocks', E) = SumAmount(unlocks, D) + n
    <3>1. IsFiniteSet(D) /\ D \subseteq DOMAIN unlocks' /\ SumAmount(unlocks', D) = SumAmount(unlocks, D)
      BY <1>4, <1>5, <2>4
    <3>2. id \notin D /\ D \cup {id} \subseteq DOMAIN unlocks'
      BY <2>1, <2>4, <3>1
    <3>3. \A i \in D \cup {id} : unlocks'[i].amount \in Nat
      BY <1>3, <1>4, <2>1, <2>4 DEF KeepsTerms, n
    <3>4. SumAmount(unlocks', D \cup {id}) = SumAmount(unlocks', D) + unlocks'[id].amount
      BY <3>1, <3>2, <3>3, AmountsAdd
    <3> QED BY <2>4, <3>1, <3>4 DEF n
  <2> QED BY <2>1, <2>5, <2>6 DEF E
<1> QED BY <1>1, <1>2, <1>3, <1>6, <1>7

\* No unlock is dated later than the windows allow.
LEMMA WindowDates ==
  ASSUME TypeOK, UnlockBooks, WindowBooks, UnlockNext
  PROVE  Dated'
<1>1. KeepsTerms /\ ResetDaily /\ now' = now
      /\ (PaysNone \/ \E id \in BurnIds : Pays(id))
      /\ (AcceptsNone \/ \E id \in BurnIds : Accepts(id))
  BY UnlockSteps DEF UnlockNext, Unlock, ExecuteScheduledUnlock
<1>2. /\ Start <= now /\ now < Start + Day
      /\ \A i \in DOMAIN payouts : payouts[i].at <= now /\ payouts[i].at < Start + Day
  BY WindowReset
<1>3. last_daily_reset' = Start
  BY <1>1 DEF ResetDaily, Start
<1>4. \A i \in DOMAIN payouts' : payouts'[i].at <= now /\ payouts'[i].at < Start + Day
  <2>1. CASE PaysNone
    BY <1>2, <2>1 DEF PaysNone
  <2>2. ASSUME NEW id \in BurnIds, Pays(id)
        PROVE  \A i \in DOMAIN payouts' : payouts'[i].at <= now /\ payouts'[i].at < Start + Day
    <3>1. /\ DOMAIN payouts' = DOMAIN payouts \cup {id} /\ payouts'[id].at = now
          /\ \A i \in DOMAIN payouts : i # id => payouts'[i] = payouts[i]
      BY <2>2 DEF Pays, PayOut, Put
    <3>2. now \in Nat
      BY WindowTypes
    <3> QED BY <1>2, <3>1, <3>2
  <2> QED BY <1>1, <2>1, <2>2
<1>5. /\ last_hourly_reset' <= now
      /\ \A i \in DOMAIN unlocks' :
           unlocks'[i].timestamp <= now /\ unlocks'[i].timestamp < last_hourly_reset' + Hour
  <2>1. /\ now \in Nat /\ Hour \in Nat /\ Hour > 0 /\ last_hourly_reset \in Nat
        /\ last_hourly_reset <= now
        /\ \A i \in DOMAIN unlocks :
             /\ unlocks[i].timestamp \in Nat /\ unlocks[i].timestamp <= now
             /\ unlocks[i].timestamp < last_hourly_reset + Hour
             /\ unlocks'[i].timestamp = unlocks[i].timestamp
    BY <1>1, WindowTypes, ConstantsAssumption
    DEF WindowBooks, Dated, TypeOK, LimitType, ConstantsAssumption, KeepsTerms
  <2>2. CASE AcceptsNone
    BY <2>1, <2>2 DEF AcceptsNone
  <2>3. ASSUME NEW id \in BurnIds, Accepts(id)
        PROVE  /\ last_hourly_reset' <= now
               /\ \A i \in DOMAIN unlocks' :
                    unlocks'[i].timestamp <= now /\ unlocks'[i].timestamp < last_hourly_reset' + Hour
    <3>1. /\ DOMAIN unlocks' = DOMAIN unlocks \cup {id} /\ unlocks'[id].timestamp = now
          /\ last_hourly_reset' = (IF HourOver THEN now ELSE last_hourly_reset)
      BY <2>3 DEF Accepts, ChargeHourly, ResetHourly
    <3>2. /\ last_hourly_reset' \in Nat /\ last_hourly_reset' <= now
          /\ last_hourly_reset <= last_hourly_reset' /\ now < last_hourly_reset' + Hour
      BY <2>1, <3>1 DEF HourOver
    <3> QED BY <2>1, <3>1, <3>2
  <2> QED BY <1>1, <2>2, <2>3
<1> QED BY <1>1, <1>2, <1>3, <1>4, <1>5 DEF Dated

\* A step that neither accepts nor pays: the clock may move.
LEMMA WindowElsewhere ==
  ASSUME TypeOK, UnlockBooks, WindowBooks, UNCHANGED <<unlock_vars, limit_vars>>,
         now' = now \/ now' = now + 1,
         config.max_hourly_outflow > 0 => config'.max_hourly_outflow > 0
  PROVE  WindowBooks'
<1>1. /\ now \in Nat /\ last_daily_reset \in Nat /\ last_hourly_reset \in Nat
      /\ \A i \in DOMAIN payouts : payouts[i].at \in Nat /\ payouts[i].at <= now
      /\ \A i \in DOMAIN unlocks : unlocks[i].timestamp \in Nat /\ unlocks[i].timestamp <= now
  BY WindowTypes DEF TypeOK, LimitType, WindowBooks, Dated
<1>2. /\ unlocks' = unlocks /\ payouts' = payouts
      /\ last_daily_reset' = last_daily_reset /\ last_hourly_reset' = last_hourly_reset
      /\ current_daily_outflow' = current_daily_outflow
      /\ current_hourly_outflow' = current_hourly_outflow
      /\ now' \in Nat /\ now <= now'
  BY <1>1 DEF unlock_vars, limit_vars
<1>3. Dated'
  BY <1>1, <1>2 DEF WindowBooks, Dated
<1>4. HourlyBooks'
  BY <1>2 DEF WindowBooks, HourlyBooks, AcceptedSince
<1>5. \A a \in Nat : PaidIn(a, now + 1) = PaidIn(a, now' + 1)
  BY <1>1, <1>2 DEF PaidIn
<1>6. \A a, b \in Nat : WithinAfter(a, b) <=> Within(a, b)
  BY <1>2 DEF WithinAfter, Within, PaidIn, PaidAfter
<1>7. DailyBooks'
  <2>1. current_daily_outflow' = SumAmount(unlocks', PaidAfter(last_daily_reset', now' + 1))
    BY <1>1, <1>2, <1>5 DEF PaidIn, PaidAfter, WindowBooks, DailyBooks
  <2> QED BY <2>1 DEF DailyBooks, PaidIn, PaidAfter
<1>8. Windows'
  <2>1. \A s \in Nat : last_daily_reset < s + Day => WithinAfter(s, last_daily_reset)
    BY <1>1, <1>6 DEF WindowBooks, Windows
  <2>2. ASSUME NEW s \in Nat, last_daily_reset <= s PROVE WithinAfter(s, now' + 1)
    <3>1. Within(s, now + 1)
      BY <2>2 DEF WindowBooks, Windows
    <3>2. Within(s, now' + 1)
      BY <1>5, <3>1 DEF Within
    <3> QED BY <1>2, <1>6, <3>2
  <2>3. ASSUME NEW s \in Nat
        PROVE  \E t \in s .. s + Day : WithinAfter(s, t) /\ WithinAfter(t, s + Day)
    <3>1. PICK t \in s .. s + Day : Within(s, t) /\ Within(t, s + Day)
      BY DEF WindowBooks, Windows
    <3>2. t \in Nat /\ s + Day \in Nat
      BY <3>1, ConstantsAssumption DEF ConstantsAssumption
    <3>3. WithinAfter(s, t) /\ WithinAfter(t, s + Day)
      BY <1>6, <3>1, <3>2
    <3> QED BY <3>3
  <2>4. /\ \A s \in Nat : last_daily_reset' < s + Day => WithinAfter(s, last_daily_reset')
        /\ \A s \in Nat : last_daily_reset' <= s => WithinAfter(s, now' + 1)
    BY <1>2, <2>1, <2>2
  <2> QED BY <2>3, <2>4 DEF Windows, Within, PaidIn, WithinAfter, PaidAfter
<1> QED BY <1>3, <1>4, <1>7, <1>8 DEF WindowBooks

\* The windows begin empty.
LEMMA WindowInit == Init => WindowBooks
<1> SUFFICES ASSUME Init PROVE WindowBooks
  OBVIOUS
<1>1. /\ DOMAIN payouts = {} /\ DOMAIN unlocks = {} /\ now = 1
      /\ last_daily_reset = now /\ last_hourly_reset = now
      /\ current_daily_outflow = 0 /\ current_hourly_outflow = 0
  BY DEF Init
<1>2. SumAmount(unlocks, {}) = 0
  BY SumEmpty DEF SumAmount
<1>3. \A a, b : PaidIn(a, b) = {}
  BY <1>1 DEF PaidIn
<1>4. AcceptedSince(last_hourly_reset) = {}
  BY <1>1 DEF AcceptedSince
<1>5. Windows
  <2>1. \A s \in Nat : s \in s .. s + Day
    BY ConstantsAssumption DEF ConstantsAssumption
  <2> QED BY <1>3, <2>1 DEF Windows, Within
<1>6. Dated
  BY <1>1 DEF Dated
<1>7. HourlyBooks
  <2>1. (\A c \in InitConfigs : c.max_hourly_outflow > 0) => config.max_hourly_outflow > 0
    BY DEF Init
  <2> QED BY <1>1, <1>2, <1>4, <2>1 DEF HourlyBooks
<1>8. DailyBooks
  BY <1>1, <1>2, <1>3 DEF DailyBooks
<1> QED BY <1>5, <1>6, <1>7, <1>8 DEF WindowBooks

\* Every step keeps the windows.
LEMMA WindowNext == TypeOK /\ UnlockBooks /\ WindowBooks /\ [Next]_vars => WindowBooks'
<1> SUFFICES ASSUME TypeOK, UnlockBooks, WindowBooks, [Next]_vars PROVE WindowBooks'
  OBVIOUS
<1>1. CASE UnlockNext
  <2>1. KeepsTerms /\ ResetDaily /\ now' = now
        /\ (PaysNone \/ \E id \in BurnIds : Pays(id))
    BY <1>1, UnlockSteps DEF UnlockNext, Unlock, ExecuteScheduledUnlock
  <2>2. DailyBooks' /\ Windows'
    BY <2>1, WindowPays, WindowPaysNone
  <2> QED BY <1>1, <2>2, WindowAccepts, WindowDates DEF WindowBooks
<1>2. ASSUME NEW k \in Keys, NEW p \in ConfigInputs, UpdateConfig(k, p) PROVE WindowBooks'
  <2>1. /\ UNCHANGED <<unlock_vars, limit_vars>> /\ now' = now
        /\ config.max_hourly_outflow > 0 => config'.max_hourly_outflow > 0
    BY <1>2 DEF UpdateConfig, UpdateAllowed
  <2> QED BY <2>1, WindowElsewhere
<1>3. ASSUME NEW t \in ChangeTypes, ExecuteConfigChange(t) PROVE WindowBooks'
  <2>1. /\ UNCHANGED <<unlock_vars, limit_vars>> /\ now' = now
        /\ config'.max_hourly_outflow = config.max_hourly_outflow
    BY <1>3 DEF ExecuteConfigChange, ApplyChange, TypeOK, AdminType, ConfigParams
  <2> QED BY <2>1, WindowElsewhere
<1>4. CASE /\ UNCHANGED <<unlock_vars, limit_vars, config>>
           /\ now' = now \/ now' = now + 1
  BY <1>4, WindowElsewhere
<1>5. CASE AdminNext
  BY <1>2, <1>3, <1>4, <1>5 DEF AdminNext, EmergencyPause, EmergencyResume, ProposeConfigChange,
     CancelConfigChange
<1>6. CASE UserNext \/ ValidatorNext \/ (\E n \in Gifts : Gift(n)) \/ Tick \/ UNCHANGED vars
  <2>1. UNCHANGED <<unlock_vars, limit_vars, config>> /\ (now' = now \/ now' = now + 1)
    BY <1>6 DEF UserNext, ValidatorNext, Deposit, DepositSpl, RegisterValidator, RemoveValidator,
       Gift, Tick, vars, admin_vars
  <2> QED BY <2>1, <1>4
<1> QED BY <1>1, <1>5, <1>6 DEF Next

\* The windows rest on the types and on the books of the unlocks, and on nothing else.
LEMMA WindowsHold == Spec => [](TypeOK /\ UnlockBooks /\ WindowBooks)
<1>1. TypeOK /\ Books /\ WindowBooks /\ [Next]_vars => WindowBooks'
  BY WindowNext DEF Books
<1>2. Books => UnlockBooks
  BY DEF Books
<1> QED BY <1>1, <1>2, BooksInit, BooksNext, WindowInit, TypeCorrect, PTL DEF Spec

(* The two outflow counters are exact: what was paid since the daily reset,  *)
(* and what was accepted since the hourly one while an hourly cap is set.    *)
THEOREM OutflowCounted == Spec => []WindowAccounting
<1>1. WindowBooks => WindowAccounting
  BY DEF WindowBooks, DailyBooks, HourlyBooks, WindowAccounting, AcceptedSince
<1> QED BY <1>1, WindowsHold, PTL

(* Tumbling windows let at most twice a cap out in any 24 hours: a payment is *)
(* in the window that holds its own moment or in the one before.             *)
THEOREM OutflowCapped == Spec => []TwoWindowsCap
<1>1. ASSUME TypeOK, UnlockBooks, WindowBooks, NEW s \in 0 .. now, PaidIn(s, s + Day) # {}
      PROVE  SumAmount(unlocks, PaidIn(s, s + Day)) <= 2 * Max(CapsIn(s, s + Day))
  <2> DEFINE M == Max(CapsIn(s, s + Day))
  <2>1. /\ s \in Nat /\ Day \in Nat
        /\ \A i \in DOMAIN payouts : payouts[i].at \in Nat /\ payouts[i].cap \in Nat
        /\ \A i \in DOMAIN unlocks : unlocks[i].amount \in Nat
        /\ DOMAIN payouts \subseteq DOMAIN unlocks
        /\ \A D \in SUBSET DOMAIN unlocks : IsFiniteSet(D) /\ SumAmount(unlocks, D) \in Nat
    BY <1>1, WindowTypes
  <2>2. /\ PaidIn(s, s + Day) \in SUBSET DOMAIN unlocks
        /\ \A i \in PaidIn(s, s + Day) : payouts[i].cap \in CapsIn(s, s + Day)
        /\ CapsIn(s, s + Day) \in SUBSET Nat /\ CapsIn(s, s + Day) # {}
    BY <1>1, <2>1 DEF PaidIn, CapsIn
  <2>3. IsFiniteSet(CapsIn(s, s + Day))
    <3> DEFINE P == PaidIn(s, s + Day)
               f == [i \in P |-> payouts[i].cap]
    <3>1. IsFiniteSet(P)
      BY <2>1, <2>2
    <3>2. f \in Surjection(P, CapsIn(s, s + Day))
      BY DEF CapsIn, Surjection
    <3> HIDE DEF f, P
    <3> QED BY <3>1, <3>2, FS_Surjection
  <2>4. M \in Nat /\ \A i \in PaidIn(s, s + Day) : payouts[i].cap <= M
    BY <2>1, <2>2, <2>3, MaxBounds
  <2> HIDE DEF M
  <2>5. PICK t \in s .. s + Day : Within(s, t) /\ Within(t, s + Day)
    BY <1>1, <2>1 DEF WindowBooks, Windows
  <2> DEFINE A == PaidIn(s, t)
             B == PaidIn(t, s + Day)
  <2>6. /\ A \cup B = PaidIn(s, s + Day) /\ A \cap B = {}
        /\ A \in SUBSET DOMAIN unlocks /\ B \in SUBSET DOMAIN unlocks
        /\ A \subseteq PaidIn(s, s + Day) /\ B \subseteq PaidIn(s, s + Day)
    BY <2>1, <2>5 DEF PaidIn
  <2>7. SumAmount(unlocks, A) <= M
    <3>1. CASE A = {}
      BY <2>4, <3>1, SumEmpty DEF SumAmount
    <3>2. CASE A # {}
      <4>1. PICK i \in A : SumAmount(unlocks, A) <= payouts[i].cap
        BY <2>5, <3>2 DEF Within
      <4>2. payouts[i].cap <= M /\ payouts[i].cap \in Nat
        BY <2>1, <2>4, <2>6, <4>1 DEF PaidIn
      <4>3. SumAmount(unlocks, A) \in Nat
        BY <2>1, <2>6
      <4> QED BY <2>4, <4>1, <4>2, <4>3
    <3> QED BY <3>1, <3>2
  <2>8. SumAmount(unlocks, B) <= M
    <3>1. CASE B = {}
      BY <2>4, <3>1, SumEmpty DEF SumAmount
    <3>2. CASE B # {}
      <4>1. PICK i \in B : SumAmount(unlocks, B) <= payouts[i].cap
        BY <2>5, <3>2 DEF Within
      <4>2. payouts[i].cap <= M /\ payouts[i].cap \in Nat
        BY <2>1, <2>4, <2>6, <4>1 DEF PaidIn
      <4>3. SumAmount(unlocks, B) \in Nat
        BY <2>1, <2>6
      <4> QED BY <2>4, <4>1, <4>2, <4>3
    <3> QED BY <3>1, <3>2
  <2> HIDE DEF A, B
  <2>9. SumAmount(unlocks, A \cup B) = SumAmount(unlocks, A) + SumAmount(unlocks, B)
    <3>1. IsFiniteSet(A) /\ IsFiniteSet(B) /\ A \cup B \subseteq DOMAIN unlocks
          /\ \A i \in A \cup B : unlocks[i].amount \in Nat
      BY <2>1, <2>6
    <3> QED BY <2>6, <3>1, AmountsUnion
  <2>10. SumAmount(unlocks, A) \in Nat /\ SumAmount(unlocks, B) \in Nat
    BY <2>1, <2>6
  <2>11. SumAmount(unlocks, A \cup B) <= 2 * M
    BY <2>4, <2>7, <2>8, <2>9, <2>10
  <2> QED BY <2>6, <2>11 DEF M
<1>2. TypeOK /\ UnlockBooks /\ WindowBooks => TwoWindowsCap
  BY <1>1 DEF TwoWindowsCap
<1> QED BY <1>2, WindowsHold, PTL
=============================================================================
