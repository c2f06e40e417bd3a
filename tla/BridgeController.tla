-------------------------- MODULE BridgeController --------------------------
(***************************************************************************)
(* The DecentralChain contract bridge_controller.ride: the token registry, *)
(* the validator set, minting against attestations of Solana deposits with *)
(* the delay of large mints, the daily limit, burning for redemption,      *)
(* pause and resume, and the delayed transfers of the two keys.            *)
(*                                                                         *)
(* An invocation either throws and leaves nothing, or applies all the      *)
(* entries and token operations it returns, so each @Callable is one       *)
(* action whose guards are the conditions that do not throw.               *)
(*                                                                         *)
(* Operators commented "Variant: ..." are deviations from the code that    *)
(* the model checker refutes in place of the definition they precede; no   *)
(* specification uses them.                                                *)
(***************************************************************************)
EXTENDS Integers, Sequences, FiniteSets, Functions, FiniteSetsExt

CONSTANTS
  Keys,                  \* addresses that call admin and guardian functions
  Users,                 \* addresses that burn
  Validators,            \* public keys of validators
  Recipients,            \* addresses that can be credited
  SplMints,              \* SPL mints, nativeSolMint among them
  nativeSolMint,
  nativeDivisor,         \* 10: SOL has 9 decimals, SOL.DCC 8
  TransferIds,
  MintRequests,          \* V2 mint messages that validators may have signed
  LegacyRequests,        \* V1 mint messages that validators may have signed
  Registrations,         \* arguments offered to registerToken
  BurnAmounts,           \* payments offered to burnToken and burn
  NewLimits,             \* arguments of updateMaxDailyMint, updateMaxSingleMint
  minValidators,         \* argument of initialize
  maxDailyMint, maxSingleMint, minMintAmount, largeTxThreshold,
  largeTxDelayBlocks, rateLimitWindow, maxValidators, maxRegisteredTokens,
  adminTransferDelayBlocks,
  MaxHeight,             \* bound: the chain stops here
  MaxBurns,              \* bound: burns per user
  MaxAttestations        \* bound: length of an attestation list

VARIABLES
  keys,                  \* admin, guardian
  pending_transfer,      \* pending_admin_transfer, pending_guardian_transfer
  paused,
  validator_active,      \* the keys whose validator_active_ entry is true
  validator_count,
  tokens,                \* token registry: splMint -> TokenInfo
  max_daily_mint, max_single_mint,
  daily_minted, daily_reset_height,
  processed,             \* transfer ids with a processed_ entry
  pending_large,         \* transfer id -> the pending_ entries
  total_minted, total_burned, global_nonce,
  burn_nonce,            \* user -> next nonce
  burns,                 \* burn id -> burn record
  circulating,           \* splMint -> wrapped tokens held outside the contract
  height,
  \* history, read by the properties only
  accepted,              \* transfer id -> what the mint call accepted
  credits,               \* transfer id -> what was reissued and sent
  burned_directly        \* splMint -> burned by holders outside the contract

role_vars == <<keys, pending_transfer, paused>>
validator_vars == <<validator_active, validator_count>>
limit_vars == <<max_daily_mint, max_single_mint>>
window_vars == <<daily_minted, daily_reset_height>>
mint_vars == <<processed, pending_large, global_nonce, accepted, credits>>
burn_vars == <<total_burned, burn_nonce, burns, burned_directly>>
vars == <<role_vars, validator_vars, limit_vars, window_vars, mint_vars, burn_vars,
          tokens, total_minted, circulating, height>>

-----------------------------------------------------------------------------
TokenInfo == [divisor: Nat \ {0}, enabled: BOOLEAN, total_minted: Nat, total_burned: Nat]
MintRequest == [transferId: TransferIds, recipient: Recipients, amount: Nat, splMint: SplMints]
Credit == [recipient: Recipients, asset: SplMints, amount: Nat]
PendingMint == [height: Nat, credit: Credit]
Accepted == [credit: Credit, raw: Nat, divisor: Nat \ {0}, height: Nat, delayed: BOOLEAN,
             signers: SUBSET Validators]
Credited == [credit: Credit, height: Nat]
BurnRecord == [splMint: SplMints, amount: Nat, height: Nat]
BurnIds == Users \X Nat \X Nat \X Nat
Registration == [splMint: SplMints, solDecimals: 0 .. 18, dccDecimals: 0 .. 8]
Transfer == [to: Keys, height: Nat]
Roles == {"admin", "guardian"}

ASSUME ConstantsAssumption ==
  /\ nativeSolMint \in SplMints /\ nativeDivisor \in Nat \ {0}
  /\ MintRequests \subseteq MintRequest /\ LegacyRequests \subseteq MintRequest
  /\ Registrations \subseteq Registration
  /\ BurnAmounts \subseteq Nat /\ NewLimits \subseteq Int
  /\ minValidators \in Nat \ {0}
  /\ maxDailyMint \in Nat /\ maxSingleMint \in Nat
  /\ minMintAmount \in Nat \ {0} /\ largeTxThreshold \in Nat
  /\ largeTxDelayBlocks \in Nat /\ rateLimitWindow \in Nat \ {0}
  /\ maxValidators \in Nat /\ maxRegisteredTokens \in Nat
  /\ adminTransferDelayBlocks \in Nat
  /\ MaxHeight \in Nat /\ MaxBurns \in Nat /\ MaxAttestations \in Nat

\* An entry is written; the keys are those it had and this one.
Put(f, k, v) == [x \in DOMAIN f \cup {k} |-> IF x = k THEN v ELSE f[x]]
Delete(f, k) == Restrict(f, DOMAIN f \ {k})

NewToken(divisor) ==
  [divisor |-> divisor, enabled |-> TRUE, total_minted |-> 0, total_burned |-> 0]

\* The state initialize leaves; its caller becomes the admin.
Init ==
  /\ keys \in [Roles -> Keys]
  /\ pending_transfer = [r \in {} |-> 0]
  /\ paused = FALSE
  /\ validator_active = {} /\ validator_count = 0
  /\ tokens = [m \in {nativeSolMint} |-> NewToken(nativeDivisor)]
  /\ max_daily_mint = maxDailyMint /\ max_single_mint = maxSingleMint
  /\ height = 1
  /\ daily_minted = 0 /\ daily_reset_height = height
  /\ processed = {} /\ pending_large = [i \in {} |-> 0]
  /\ total_minted = 0 /\ total_burned = 0 /\ global_nonce = 0
  /\ burn_nonce = [u \in Users |-> 0] /\ burns = [b \in {} |-> 0]
  /\ circulating = [m \in SplMints |-> 0] /\ burned_directly = [m \in SplMints |-> 0]
  /\ accepted = [i \in {} |-> 0] /\ credits = [i \in {} |-> 0]

-----------------------------------------------------------------------------
(* Token registry                                                          *)

registerToken(caller, r) ==
  LET diff == r.solDecimals - r.dccDecimals IN
  /\ caller = keys.admin
  /\ r.splMint \notin DOMAIN tokens
  /\ Cardinality(DOMAIN tokens) < maxRegisteredTokens
  /\ diff <= 10
  /\ tokens' = Put(tokens, r.splMint, NewToken(IF diff <= 0 THEN 1 ELSE 10 ^ diff))
  /\ UNCHANGED <<role_vars, validator_vars, limit_vars, window_vars, mint_vars, burn_vars,
                 total_minted, circulating, height>>

setTokenEnabled(caller, m, enabled) ==
  /\ caller = keys.admin
  /\ m \in DOMAIN tokens
  /\ tokens' = [tokens EXCEPT ![m].enabled = enabled]
  /\ UNCHANGED <<role_vars, validator_vars, limit_vars, window_vars, mint_vars, burn_vars,
                 total_minted, circulating, height>>

-----------------------------------------------------------------------------
(* Validators                                                              *)

registerValidator(caller, v) ==
  /\ caller = keys.admin
  /\ v \notin validator_active
  /\ validator_count < maxValidators
  /\ validator_active' = validator_active \cup {v}
  /\ validator_count' = validator_count + 1
  /\ UNCHANGED <<role_vars, limit_vars, window_vars, mint_vars, burn_vars,
                 tokens, total_minted, circulating, height>>

removeValidator(caller, v) ==
  /\ caller = keys.admin
  /\ v \in validator_active
  /\ validator_count - 1 >= minValidators
  /\ validator_active' = validator_active \ {v}
  /\ validator_count' = validator_count - 1
  /\ UNCHANGED <<role_vars, limit_vars, window_vars, mint_vars, burn_vars,
                 tokens, total_minted, circulating, height>>

-----------------------------------------------------------------------------
(* Minting                                                                 *)

\* Public keys with their signatures of the mint message, in the order passed.
AttestationLists == UNION {[1 .. n -> Validators] : n \in 0 .. MaxAttestations}

\* The fold looks at the first twenty; a key may occur more than once.
verifyValidatorSignatures(att) ==
  LET verified == DOMAIN att \cap 1 .. 20 IN
  /\ Len(att) >= minValidators
  /\ \A k \in verified : att[k] \in validator_active
  /\ Cardinality(verified) >= minValidators

WindowOver == height - daily_reset_height >= rateLimitWindow

\* Variant: the reset height is not moved with the counter.
checkDailyLimitSameHeight(amount) ==
  LET dailyMinted == IF WindowOver THEN 0 ELSE daily_minted IN
  /\ dailyMinted + amount <= max_daily_mint
  /\ daily_minted' = dailyMinted + amount
  /\ UNCHANGED daily_reset_height

checkDailyLimit(amount) ==
  LET dailyMinted == IF WindowOver THEN 0 ELSE daily_minted IN
  /\ dailyMinted + amount <= max_daily_mint
  /\ daily_minted' = dailyMinted + amount
  /\ daily_reset_height' = IF WindowOver THEN height ELSE daily_reset_height

\* Solana units to units of the wrapped token, the remainder dropped.
CreditOf(r) ==
  [recipient |-> r.recipient, asset |-> r.splMint,
   amount |-> r.amount \div tokens[r.splMint].divisor]

\* What mint and mintToken have in common.
AcceptMint(r, att, delayed) ==
  /\ ~ paused
  /\ r.transferId \notin processed
  /\ r.amount >= minMintAmount
  /\ r.amount <= max_single_mint
  /\ verifyValidatorSignatures(att)
  /\ checkDailyLimit(r.amount)
  /\ CreditOf(r).amount > 0
  /\ processed' = processed \cup {r.transferId}
  /\ accepted' = Put(accepted, r.transferId,
                     [credit |-> CreditOf(r), raw |-> r.amount, height |-> height,
                      divisor |-> tokens[r.splMint].divisor, delayed |-> delayed,
                      signers |-> {att[k] : k \in DOMAIN att}])

\* Reissue and ScriptTransfer, with the counters written next to them.
MintTo(id, c) ==
  /\ circulating' = [circulating EXCEPT ![c.asset] = @ + c.amount]
  /\ tokens' = [tokens EXCEPT ![c.asset].total_minted = @ + c.amount]
  /\ global_nonce' = global_nonce + 1
  /\ credits' = Put(credits, id, [credit |-> c, height |-> height])

mintToken(r, att) ==
  /\ r.splMint \in DOMAIN tokens
  /\ tokens[r.splMint].enabled
  /\ AcceptMint(r, att, r.amount >= largeTxThreshold)
  /\ \/ /\ r.amount >= largeTxThreshold
        /\ pending_large' = Put(pending_large, r.transferId,
                                [height |-> height, credit |-> CreditOf(r)])
        /\ UNCHANGED <<circulating, tokens, global_nonce, credits>>
     \/ /\ r.amount < largeTxThreshold
        /\ MintTo(r.transferId, CreditOf(r))
        /\ UNCHANGED pending_large
  /\ UNCHANGED <<role_vars, validator_vars, limit_vars, burn_vars, total_minted, height>>

\* The legacy entry point, for native SOL: no registry check and no delay.
mint(r, att) ==
  /\ r.splMint = nativeSolMint
  /\ AcceptMint(r, att, FALSE)
  /\ MintTo(r.transferId, CreditOf(r))
  /\ total_minted' = total_minted + CreditOf(r).amount
  /\ UNCHANGED <<role_vars, validator_vars, limit_vars, burn_vars, pending_large, height>>

\* Variant: the pending_ entries of an executed mint stay.
executePendingMintKeeping(id) ==
  /\ ~ paused
  /\ id \in DOMAIN pending_large
  /\ height - pending_large[id].height >= largeTxDelayBlocks
  /\ MintTo(id, pending_large[id].credit)
  /\ UNCHANGED <<role_vars, validator_vars, limit_vars, window_vars, burn_vars,
                 processed, pending_large, accepted, total_minted, height>>

\* Variant: the delay ends one block early.
executePendingMintSooner(id) ==
  /\ ~ paused
  /\ id \in DOMAIN pending_large
  /\ height - pending_large[id].height >= largeTxDelayBlocks - 1
  /\ MintTo(id, pending_large[id].credit)
  /\ pending_large' = Delete(pending_large, id)
  /\ UNCHANGED <<role_vars, validator_vars, limit_vars, window_vars, burn_vars,
                 processed, accepted, total_minted, height>>

\* Anyone may call it.
executePendingMint(id) ==
  /\ ~ paused
  /\ id \in DOMAIN pending_large
  /\ height - pending_large[id].height >= largeTxDelayBlocks
  /\ MintTo(id, pending_large[id].credit)
  /\ pending_large' = Delete(pending_large, id)
  /\ UNCHANGED <<role_vars, validator_vars, limit_vars, window_vars, burn_vars,
                 processed, accepted, total_minted, height>>

\* Variant: cancelling gives the transfer id free again.
cancelPendingMintReopening(caller, id) ==
  /\ caller \in {keys.admin, keys.guardian}
  /\ pending_large' = Delete(pending_large, id)
  /\ processed' = processed \ {id}
  /\ accepted' = Delete(accepted, id)
  /\ UNCHANGED <<role_vars, validator_vars, limit_vars, window_vars, burn_vars,
                 credits, global_nonce, tokens, total_minted, circulating, height>>

\* DeleteEntry of a missing key is allowed, so any id may be cancelled.
cancelPendingMint(caller, id) ==
  /\ caller \in {keys.admin, keys.guardian}
  /\ pending_large' = Delete(pending_large, id)
  /\ UNCHANGED <<role_vars, validator_vars, limit_vars, window_vars, burn_vars,
                 processed, accepted, credits, global_nonce, tokens, total_minted,
                 circulating, height>>

-----------------------------------------------------------------------------
(* Burning                                                                 *)

\* Variant: a burn is recorded and not counted in the registry.
BurnPaymentUncounted(u, m, n) ==
  LET id == <<u, burn_nonce[u], height, n>> IN
  /\ ~ paused
  /\ n >= minMintAmount
  /\ n <= circulating[m]
  /\ burn_nonce[u] < MaxBurns
  /\ circulating' = [circulating EXCEPT ![m] = @ - n]
  /\ burns' = Put(burns, id, [splMint |-> m, amount |-> n, height |-> height])
  /\ burn_nonce' = [burn_nonce EXCEPT ![u] = @ + 1]
  /\ UNCHANGED tokens

\* Variant: the caller's nonce is not advanced.
BurnPaymentSameNonce(u, m, n) ==
  LET id == <<u, burn_nonce[u], height, n>> IN
  /\ ~ paused
  /\ n >= minMintAmount
  /\ n <= circulating[m]
  /\ burn_nonce[u] < MaxBurns
  /\ circulating' = [circulating EXCEPT ![m] = @ - n]
  /\ burns' = Put(burns, id, [splMint |-> m, amount |-> n, height |-> height])
  /\ tokens' = [tokens EXCEPT ![m].total_burned = @ + n]
  /\ UNCHANGED burn_nonce

\* burnToken and burn: the payment comes from the caller's holdings. The burn
\* id hashes (caller, nonce, height, amount); writing an entry replaces one.
BurnPayment(u, m, n) ==
  LET id == <<u, burn_nonce[u], height, n>> IN
  /\ ~ paused
  /\ n >= minMintAmount
  /\ n <= circulating[m]
  /\ burn_nonce[u] < MaxBurns
  /\ circulating' = [circulating EXCEPT ![m] = @ - n]
  /\ burns' = Put(burns, id, [splMint |-> m, amount |-> n, height |-> height])
  /\ burn_nonce' = [burn_nonce EXCEPT ![u] = @ + 1]
  /\ tokens' = [tokens EXCEPT ![m].total_burned = @ + n]

burnToken(u, m, n) ==
  /\ m \in DOMAIN tokens
  /\ BurnPayment(u, m, n)
  /\ UNCHANGED <<role_vars, validator_vars, limit_vars, window_vars, mint_vars,
                 total_minted, total_burned, burned_directly, height>>

burn(u, n) ==
  /\ BurnPayment(u, nativeSolMint, n)
  /\ total_burned' = total_burned + n
  /\ UNCHANGED <<role_vars, validator_vars, limit_vars, window_vars, mint_vars,
                 total_minted, burned_directly, height>>

-----------------------------------------------------------------------------
(* Emergency controls and configuration                                    *)

emergencyPause(caller) ==
  /\ caller \in {keys.admin, keys.guardian}
  /\ paused' = TRUE
  /\ UNCHANGED <<keys, pending_transfer, validator_vars, limit_vars, window_vars, mint_vars,
                 burn_vars, tokens, total_minted, circulating, height>>

emergencyResume(caller) ==
  /\ caller = keys.admin
  /\ paused' = FALSE
  /\ UNCHANGED <<keys, pending_transfer, validator_vars, limit_vars, window_vars, mint_vars,
                 burn_vars, tokens, total_minted, circulating, height>>

updateMaxDailyMint(caller, n) ==
  /\ caller = keys.admin
  /\ n > 0
  /\ max_daily_mint' = n
  /\ UNCHANGED <<role_vars, validator_vars, max_single_mint, window_vars, mint_vars,
                 burn_vars, tokens, total_minted, circulating, height>>

updateMaxSingleMint(caller, n) ==
  /\ caller = keys.admin
  /\ n > 0
  /\ max_single_mint' = n
  /\ UNCHANGED <<role_vars, validator_vars, max_daily_mint, window_vars, mint_vars,
                 burn_vars, tokens, total_minted, circulating, height>>

\* proposeAdminTransfer and proposeGuardianTransfer; a new proposal replaces
\* the pending one, its height too.
proposeTransfer(caller, role, k) ==
  /\ caller = keys.admin
  /\ pending_transfer' = Put(pending_transfer, role, [to |-> k, height |-> height])
  /\ UNCHANGED <<keys, paused, validator_vars, limit_vars, window_vars, mint_vars,
                 burn_vars, tokens, total_minted, circulating, height>>

\* Variant: the delay is read from whichever proposal is pending.
executeTransferAnyRole(role) ==
  /\ role \in DOMAIN pending_transfer
  /\ \E r \in DOMAIN pending_transfer :
       height - pending_transfer[r].height >= adminTransferDelayBlocks
  /\ keys' = [keys EXCEPT ![role] = pending_transfer[role].to]
  /\ pending_transfer' = Delete(pending_transfer, role)
  /\ UNCHANGED <<paused, validator_vars, limit_vars, window_vars, mint_vars,
                 burn_vars, tokens, total_minted, circulating, height>>

\* executeAdminTransfer and executeGuardianTransfer; anyone may call them.
executeTransfer(role) ==
  /\ role \in DOMAIN pending_transfer
  /\ height - pending_transfer[role].height >= adminTransferDelayBlocks
  /\ keys' = [keys EXCEPT ![role] = pending_transfer[role].to]
  /\ pending_transfer' = Delete(pending_transfer, role)
  /\ UNCHANGED <<paused, validator_vars, limit_vars, window_vars, mint_vars,
                 burn_vars, tokens, total_minted, circulating, height>>

\* cancelAdminTransfer and cancelGuardianTransfer.
cancelTransfer(caller, role) ==
  /\ caller = keys.admin
  /\ pending_transfer' = Delete(pending_transfer, role)
  /\ UNCHANGED <<keys, paused, validator_vars, limit_vars, window_vars, mint_vars,
                 burn_vars, tokens, total_minted, circulating, height>>

-----------------------------------------------------------------------------
(* Environment                                                             *)

\* A holder of the wrapped asset can burn it with a transaction of the chain.
BurnDirectly(m, n) ==
  /\ n <= circulating[m]
  /\ circulating' = [circulating EXCEPT ![m] = @ - n]
  /\ burned_directly' = [burned_directly EXCEPT ![m] = @ + n]
  /\ UNCHANGED <<role_vars, validator_vars, limit_vars, window_vars, mint_vars,
                 total_burned, burn_nonce, burns, tokens, total_minted, height>>

NextBlock ==
  /\ height < MaxHeight
  /\ height' = height + 1
  /\ UNCHANGED <<role_vars, validator_vars, limit_vars, window_vars, mint_vars,
                 burn_vars, tokens, total_minted, circulating>>

MintNext ==
  \/ \E r \in MintRequests, att \in AttestationLists : mintToken(r, att)
  \/ \E r \in LegacyRequests, att \in AttestationLists : mint(r, att)
  \/ \E id \in TransferIds : executePendingMint(id) \/ \E k \in Keys : cancelPendingMint(k, id)

BurnNext ==
  \/ \E u \in Users, n \in BurnAmounts : burn(u, n) \/ \E m \in SplMints : burnToken(u, m, n)
  \/ \E m \in SplMints, n \in BurnAmounts : BurnDirectly(m, n)

AdminNext == \E k \in Keys :
  \/ \E r \in Registrations : registerToken(k, r)
  \/ \E m \in SplMints, e \in BOOLEAN : setTokenEnabled(k, m, e)
  \/ \E v \in Validators : registerValidator(k, v) \/ removeValidator(k, v)
  \/ emergencyPause(k) \/ emergencyResume(k)
  \/ \E n \in NewLimits : updateMaxDailyMint(k, n) \/ updateMaxSingleMint(k, n)
  \/ \E role \in Roles : cancelTransfer(k, role) \/ \E to \in Keys : proposeTransfer(k, role, to)

Next == MintNext \/ BurnNext \/ AdminNext \/ (\E role \in Roles : executeTransfer(role)) \/ NextBlock

Spec == Init /\ [][Next]_vars

-----------------------------------------------------------------------------
(* Properties                                                              *)

AdminType ==
  /\ keys \in [Roles -> Keys] /\ paused \in BOOLEAN
  /\ DOMAIN pending_transfer \subseteq Roles
  /\ pending_transfer \in [DOMAIN pending_transfer -> Transfer]
  /\ validator_active \subseteq Validators /\ validator_count \in Int
  /\ max_daily_mint \in Nat /\ max_single_mint \in Nat
  /\ height \in Nat

TokenType ==
  /\ nativeSolMint \in DOMAIN tokens /\ DOMAIN tokens \subseteq SplMints
  /\ tokens \in [DOMAIN tokens -> TokenInfo]
  /\ total_minted \in Nat

MintType ==
  /\ daily_minted \in Nat /\ daily_reset_height \in Nat /\ global_nonce \in Nat
  /\ processed \subseteq TransferIds
  /\ DOMAIN pending_large \subseteq TransferIds
  /\ pending_large \in [DOMAIN pending_large -> PendingMint]
  /\ accepted \in [processed -> Accepted]
  /\ DOMAIN credits \subseteq processed
  /\ credits \in [DOMAIN credits -> Credited]

BurnType ==
  /\ total_burned \in Nat
  /\ burn_nonce \in [Users -> Nat]
  /\ DOMAIN burns \subseteq BurnIds /\ burns \in [DOMAIN burns -> BurnRecord]
  /\ burned_directly \in [SplMints -> Nat] /\ circulating \in [SplMints -> Nat]

\* Every variable has its type: the entries of the contract hold what their
\* readers expect, and every accepted transfer is marked processed.
TypeOK == AdminType /\ TokenType /\ MintType /\ BurnType

\* Amounts by record, in the units the record is in.
Minted == [i \in DOMAIN credits |-> credits[i].credit.amount]
Burned == [b \in DOMAIN burns |-> burns[b].amount]
Raw == [i \in processed |-> accepted[i].raw]

CreditsOf(m) == {i \in DOMAIN credits : credits[i].credit.asset = m}
BurnsOf(m) == {b \in DOMAIN burns : burns[b].splMint = m}
AcceptedFor(m) == {i \in processed : accepted[i].credit.asset = m}

\* The registry's counters account for every wrapped token in existence: what
\* circulates is what was minted, less what was burned through the contract and
\* by holders; an asset that is not registered has no supply.
TokenSupply ==
  \A m \in SplMints :
    IF m \in DOMAIN tokens
    THEN circulating[m] + burned_directly[m] + tokens[m].total_burned = tokens[m].total_minted
    ELSE circulating[m] = 0 /\ burned_directly[m] = 0

\* The counters agree with the transfers, the burn records and the validators
\* one by one: every credit is in its token's total and in the nonce, no burn
\* record was ever overwritten by another of the same id, and validator_count
\* is the number of active validators. In Solana units, a token never circulates
\* beyond the deposits accepted for it: the conversion drops remainders and never
\* rounds up (the contract's side of BRIDGE_SPEC 2.2, invariant 2), whichever
\* entry point or delay was used.
CountersMatchRecords ==
  /\ \A m \in DOMAIN tokens :
       /\ tokens[m].total_minted = SumFunctionOnSet(Minted, CreditsOf(m))
       /\ tokens[m].total_burned = SumFunctionOnSet(Burned, BurnsOf(m))
       /\ tokens[m].total_minted * tokens[m].divisor <= SumFunctionOnSet(Raw, AcceptedFor(m))
  /\ global_nonce = Cardinality(DOMAIN credits)
  /\ validator_count = Cardinality(validator_active) /\ validator_count <= maxValidators

\* daily_minted is the sum of the transfers accepted since the last reset, the
\* delayed and the cancelled ones included, of all tokens in their own units.
DailyAccounting ==
  daily_minted = SumFunctionOnSet(Raw, {i \in processed : accepted[i].height >= daily_reset_height})

\* A mint that was delayed is credited only largeTxDelayBlocks later.
LargeMintsWait ==
  \A i \in DOMAIN credits :
    accepted[i].delayed => credits[i].height - accepted[i].height >= largeTxDelayBlocks

\* What the pending_ entries say is what was accepted: the id stays processed,
\* was not credited, and its token is still registered, so nothing that
\* executePendingMint reads can have changed since the quorum signed.
PendingMatchesAccepted ==
  \A i \in DOMAIN pending_large :
    /\ i \in processed \ DOMAIN credits
    /\ accepted[i].delayed
    /\ pending_large[i] = [height |-> accepted[i].height, credit |-> accepted[i].credit]
    /\ accepted[i].credit.asset \in DOMAIN tokens

Waiting == DOMAIN pending_large
CreditTerms == [i \in DOMAIN credits |-> credits[i].credit]

I == INSTANCE Issuance WITH
       Ids <- TransferIds, Assets <- SplMints,
       claims <- [i \in processed |-> accepted[i].credit],
       credited <- CreditTerms,
       withdrawn <- processed \ (DOMAIN credits \cup Waiting),
       supply <- circulating

\* Every accepted transfer is credited at most once, as it was accepted, and
\* never after it was cancelled.
CreditsEachTransferOnce == I!ISpec

Always(v, w) == TRUE
Announced(role) ==
  {[value |-> pending_transfer[r].to, since |-> pending_transfer[r].height] :
     r \in DOMAIN pending_transfer \cap {role}}

AdminLock == INSTANCE Timelock WITH
               Delay <- adminTransferDelayBlocks, Looser <- Always, clock <- height,
               value <- keys.admin, proposal <- Announced("admin")
GuardianLock == INSTANCE Timelock WITH
                  Delay <- adminTransferDelayBlocks, Looser <- Always, clock <- height,
                  value <- keys.guardian, proposal <- Announced("guardian")

\* The admin and the guardian change only to the address of the latest proposal
\* for that key, and only after the whole delay since that one, whoever executes
\* it and however often the proposals were replaced.
KeysAreTimelocked == AdminLock!TSpec /\ GuardianLock!TSpec

\* BRIDGE_SPEC 6.2: the quorum is counted over different public keys. The fold
\* counts list entries, so a key passed twice counts twice.
QuorumOfDifferentSigners ==
  \A i \in processed : Cardinality(accepted[i].signers) >= minValidators
=============================================================================
