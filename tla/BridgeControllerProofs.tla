----------------------- MODULE BridgeControllerProofs -----------------------
(***************************************************************************)
(* Theorems about BridgeController for every value of its constants: the   *)
(* types, the supply of the wrapped tokens, the pending mints with their   *)
(* delay, that the contract implements Issuance and the timelocks, and     *)
(* that its counters are the sums over its transfers and burns.            *)
(***************************************************************************)
EXTENDS BridgeController, SumProofs, FiniteSetTheorems, TLAPS

(***************************************************************************)
(* Type correctness                                                        *)
(***************************************************************************)
LEMMA TypeInit == Init => TypeOK
<1> SUFFICES ASSUME Init PROVE TypeOK
  OBVIOUS
<1> USE ConstantsAssumption
<1>1. AdminType
  <2>1. DOMAIN pending_transfer = {}
    BY DEF Init
  <2>2. pending_transfer \in [DOMAIN pending_transfer -> Transfer]
    BY DEF Init
  <2>3. keys \in [Roles -> Keys] /\ paused \in BOOLEAN
    BY Zenon DEF Init
  <2>6. /\ validator_active \subseteq Validators /\ validator_count \in Int
    BY DEF Init
  <2>4. max_daily_mint \in Nat /\ max_single_mint \in Nat /\ height \in Nat
    BY DEF Init
  <2>5. QED
    BY <2>1, <2>2, <2>3, <2>4, <2>6 DEF AdminType
<1>2. TokenType
  BY DEF Init, TokenType, NewToken, TokenInfo
<1>3. MintType
  BY DEF Init, MintType
<1>4. BurnType
  BY DEF Init, BurnType
<1>5. QED
  BY <1>1, <1>2, <1>3, <1>4 DEF TypeOK

\* The entries and the supply that a credit leaves.
LEMMA TypeMintTo ==
  ASSUME TypeOK, NEW id, NEW c \in Credit, MintTo(id, c)
  PROVE  /\ circulating' \in [SplMints -> Nat]
         /\ DOMAIN tokens' = DOMAIN tokens /\ tokens' \in [DOMAIN tokens' -> TokenInfo]
         /\ global_nonce' \in Nat
         /\ DOMAIN credits' = DOMAIN credits \cup {id}
         /\ credits' \in [DOMAIN credits' -> Credited]
<1>1. c.asset \in SplMints /\ c.amount \in Nat
  BY DEF Credit
<1>2. circulating' \in [SplMints -> Nat] /\ global_nonce' \in Nat
  BY <1>1 DEF MintTo, TypeOK, BurnType, MintType
<1>3. DOMAIN tokens' = DOMAIN tokens /\ tokens' \in [DOMAIN tokens' -> TokenInfo]
  <2>1. tokens' = [tokens EXCEPT ![c.asset].total_minted = @ + c.amount]
    BY DEF MintTo
  <2>2. tokens \in [DOMAIN tokens -> TokenInfo]
    BY DEF TypeOK, TokenType
  <2>3. ASSUME NEW m \in DOMAIN tokens
        PROVE  tokens[m].total_minted + c.amount \in Nat
    BY <1>1, <2>2 DEF TokenInfo
  <2>4. QED
    BY <2>1, <2>2, <2>3 DEF TokenInfo
<1>4. DOMAIN credits' = DOMAIN credits \cup {id} /\ credits' \in [DOMAIN credits' -> Credited]
  BY DEF MintTo, Put, Credited, TypeOK, MintType, AdminType
<1>5. QED
  BY <1>2, <1>3, <1>4

\* What AcceptMint writes, and the credit it computes.
LEMMA TypeAcceptMint ==
  ASSUME TypeOK, NEW r \in MintRequest, r.splMint \in DOMAIN tokens,
         NEW att \in AttestationLists, NEW delayed \in BOOLEAN, AcceptMint(r, att, delayed)
  PROVE  /\ CreditOf(r) \in Credit
         /\ processed' = processed \cup {r.transferId} /\ processed' \subseteq TransferIds
         /\ accepted' \in [processed' -> Accepted]
         /\ daily_minted' \in Nat /\ daily_reset_height' \in Nat
<1>1. /\ r.transferId \in TransferIds /\ r.recipient \in Recipients
      /\ r.amount \in Nat /\ r.splMint \in SplMints
  BY DEF MintRequest
<1>2. tokens[r.splMint].divisor \in Nat \ {0}
  BY DEF TypeOK, TokenType, TokenInfo
<1>3. r.amount \div tokens[r.splMint].divisor \in Nat
  BY <1>1, <1>2
<1>4. CreditOf(r) \in Credit
  BY <1>1, <1>3 DEF CreditOf, Credit
<1>5. processed' = processed \cup {r.transferId} /\ processed' \subseteq TransferIds
  BY <1>1 DEF AcceptMint, TypeOK, MintType
<1>6. daily_minted' \in Nat /\ daily_reset_height' \in Nat
  BY <1>1 DEF AcceptMint, checkDailyLimit, TypeOK, MintType, AdminType
<1>7. accepted' \in [processed' -> Accepted]
  <2> DEFINE id == r.transferId
             a == [credit |-> CreditOf(r), raw |-> r.amount, height |-> height,
                   divisor |-> tokens[r.splMint].divisor, delayed |-> delayed,
                   signers |-> {att[k] : k \in DOMAIN att}]
  <2>1. {att[k] : k \in DOMAIN att} \subseteq Validators
    BY DEF AttestationLists
  <2>2. a \in Accepted
    BY <1>1, <1>2, <1>4, <2>1 DEF Accepted, TypeOK, AdminType
  <2>3. accepted' = Put(accepted, id, a) /\ processed' = processed \cup {id}
    BY <1>5 DEF AcceptMint
  <2> HIDE DEF a, id
  <2>4. accepted \in [processed -> Accepted]
    BY DEF TypeOK, MintType
  <2>5. QED
    BY <2>2, <2>3, <2>4 DEF Put
<1>8. QED
  BY <1>4, <1>5, <1>6, <1>7

LEMMA TypeMints ==
  ASSUME TypeOK, PendingMatchesAccepted, MintNext
  PROVE  TypeOK'
<1> USE ConstantsAssumption
<1>1. ASSUME NEW r \in MintRequests, NEW att \in AttestationLists, mintToken(r, att)
      PROVE  TypeOK'
  <2>1. r \in MintRequest /\ r.splMint \in DOMAIN tokens /\ r.transferId \in TransferIds
        /\ r.amount \in Nat
    BY <1>1 DEF mintToken, MintRequest
  <2>2. (r.amount >= largeTxThreshold) \in BOOLEAN
    BY <2>1
  <2>3. AcceptMint(r, att, r.amount >= largeTxThreshold)
    BY <1>1 DEF mintToken
  <2>4. /\ CreditOf(r) \in Credit
        /\ processed' = processed \cup {r.transferId} /\ processed' \subseteq TransferIds
        /\ accepted' \in [processed' -> Accepted]
        /\ daily_minted' \in Nat /\ daily_reset_height' \in Nat
    BY <2>1, <2>2, <2>3, TypeAcceptMint
  <2>5. AdminType' /\ total_minted' \in Nat
    BY <1>1 DEF mintToken, TypeOK, AdminType, TokenType, role_vars, validator_vars, limit_vars
  <2>6. CASE /\ pending_large' = Put(pending_large, r.transferId,
                                     [height |-> height, credit |-> CreditOf(r)])
             /\ UNCHANGED <<circulating, tokens, global_nonce, credits>>
    <3> DEFINE id == r.transferId
               q == [height |-> height, credit |-> CreditOf(r)]
    <3>1. q \in PendingMint
      BY <2>4 DEF PendingMint, TypeOK, AdminType
    <3>2. pending_large' = Put(pending_large, id, q) /\ id \in TransferIds
      BY <2>1, <2>6
    <3> HIDE DEF q, id
    <3>3. DOMAIN pending_large' \subseteq TransferIds
          /\ pending_large' \in [DOMAIN pending_large' -> PendingMint]
      BY <3>1, <3>2 DEF Put, TypeOK, MintType
    <3>4. MintType'
      BY <2>4, <2>6, <3>3 DEF TypeOK, MintType
    <3>5. TokenType' /\ BurnType'
      BY <1>1, <2>5, <2>6 DEF mintToken, TypeOK, TokenType, BurnType, burn_vars
    <3>6. QED
      BY <2>5, <3>4, <3>5 DEF TypeOK
  <2>7. CASE MintTo(r.transferId, CreditOf(r)) /\ UNCHANGED pending_large
    <3>1. /\ circulating' \in [SplMints -> Nat] /\ global_nonce' \in Nat
          /\ DOMAIN tokens' = DOMAIN tokens /\ tokens' \in [DOMAIN tokens' -> TokenInfo]
          /\ DOMAIN credits' = DOMAIN credits \cup {r.transferId}
          /\ credits' \in [DOMAIN credits' -> Credited]
      BY <2>4, <2>7, TypeMintTo
    <3>2. MintType' /\ TokenType'
      BY <2>4, <2>5, <2>7, <3>1 DEF TypeOK, MintType, TokenType
    <3>3. BurnType'
      BY <1>1, <3>1 DEF mintToken, TypeOK, BurnType, burn_vars
    <3>4. QED
      BY <2>5, <3>2, <3>3 DEF TypeOK
  <2>8. QED
    BY <1>1, <2>6, <2>7 DEF mintToken
<1>2. ASSUME NEW r \in LegacyRequests, NEW att \in AttestationLists, mint(r, att)
      PROVE  TypeOK'
  <2>1. r \in MintRequest /\ r.splMint \in DOMAIN tokens /\ FALSE \in BOOLEAN
    BY <1>2 DEF mint, TypeOK, TokenType
  <2>2. AcceptMint(r, att, FALSE) /\ MintTo(r.transferId, CreditOf(r))
        /\ total_minted' = total_minted + CreditOf(r).amount
    BY <1>2 DEF mint
  <2>3. /\ CreditOf(r) \in Credit
        /\ processed' = processed \cup {r.transferId} /\ processed' \subseteq TransferIds
        /\ accepted' \in [processed' -> Accepted]
        /\ daily_minted' \in Nat /\ daily_reset_height' \in Nat
    BY <2>1, <2>2, TypeAcceptMint
  <2>4. /\ circulating' \in [SplMints -> Nat] /\ global_nonce' \in Nat
        /\ DOMAIN tokens' = DOMAIN tokens /\ tokens' \in [DOMAIN tokens' -> TokenInfo]
        /\ DOMAIN credits' = DOMAIN credits \cup {r.transferId}
        /\ credits' \in [DOMAIN credits' -> Credited]
    BY <2>2, <2>3, TypeMintTo
  <2>5. CreditOf(r).amount \in Nat
    BY <2>3 DEF Credit
  <2>6. AdminType' /\ BurnType'
    BY <1>2, <2>4 DEF mint, TypeOK, AdminType, BurnType, role_vars, validator_vars, limit_vars,
       burn_vars
  <2>7. TokenType' /\ MintType'
    BY <1>2, <2>2, <2>3, <2>4, <2>5 DEF mint, TypeOK, TokenType, MintType
  <2>8. QED
    BY <2>6, <2>7 DEF TypeOK
<1>3. ASSUME NEW id \in TransferIds, executePendingMint(id)
      PROVE  TypeOK'
  <2>1. id \in DOMAIN pending_large /\ id \in processed
        /\ MintTo(id, pending_large[id].credit) /\ pending_large[id].credit \in Credit
    BY <1>3 DEF executePendingMint, PendingMatchesAccepted, TypeOK, MintType, PendingMint
  <2>2. /\ circulating' \in [SplMints -> Nat] /\ global_nonce' \in Nat
        /\ DOMAIN tokens' = DOMAIN tokens /\ tokens' \in [DOMAIN tokens' -> TokenInfo]
        /\ DOMAIN credits' = DOMAIN credits \cup {id}
        /\ credits' \in [DOMAIN credits' -> Credited]
    BY <2>1, TypeMintTo
  <2>3. DOMAIN pending_large' \subseteq TransferIds
        /\ pending_large' \in [DOMAIN pending_large' -> PendingMint]
    BY <1>3 DEF executePendingMint, Delete, Restrict, TypeOK, MintType
  <2>4. AdminType' /\ TokenType' /\ MintType' /\ BurnType'
    BY <1>3, <2>1, <2>2, <2>3
    DEF executePendingMint, TypeOK, AdminType, TokenType, MintType, BurnType, role_vars,
        validator_vars, limit_vars, window_vars, burn_vars
  <2>5. QED
    BY <2>4 DEF TypeOK
<1>4. ASSUME NEW id \in TransferIds, NEW k \in Keys, cancelPendingMint(k, id)
      PROVE  TypeOK'
  <2>1. DOMAIN pending_large' \subseteq TransferIds
        /\ pending_large' \in [DOMAIN pending_large' -> PendingMint]
    BY <1>4 DEF cancelPendingMint, Delete, Restrict, TypeOK, MintType
  <2>2. QED
    BY <1>4, <2>1
    DEF cancelPendingMint, TypeOK, AdminType, TokenType, MintType, BurnType, role_vars,
        validator_vars, limit_vars, window_vars, burn_vars
<1>5. QED
  BY <1>1, <1>2, <1>3, <1>4 DEF MintNext

LEMMA TypeBurns == TypeOK /\ BurnNext => TypeOK'
<1> SUFFICES ASSUME TypeOK, BurnNext PROVE TypeOK'
  OBVIOUS
<1> USE ConstantsAssumption
<1>1. ASSUME NEW u \in Users, NEW m \in DOMAIN tokens, NEW n \in Nat, BurnPayment(u, m, n)
      PROVE  /\ circulating' \in [SplMints -> Nat] /\ burn_nonce' \in [Users -> Nat]
             /\ DOMAIN burns' \subseteq BurnIds /\ burns' \in [DOMAIN burns' -> BurnRecord]
             /\ DOMAIN tokens' = DOMAIN tokens /\ tokens' \in [DOMAIN tokens' -> TokenInfo]
  <2> DEFINE id == <<u, burn_nonce[u], height, n>>
             b == [splMint |-> m, amount |-> n, height |-> height]
  <2>1. m \in SplMints /\ height \in Nat /\ burn_nonce[u] \in Nat
    BY DEF TypeOK, TokenType, AdminType, BurnType
  <2>2. circulating' \in [SplMints -> Nat] /\ burn_nonce' \in [Users -> Nat]
    BY <1>1, <2>1 DEF BurnPayment, TypeOK, BurnType
  <2>3. tokens' = [tokens EXCEPT ![m].total_burned = @ + n]
        /\ tokens \in [DOMAIN tokens -> TokenInfo]
    BY <1>1 DEF BurnPayment, TypeOK, TokenType
  <2>4. tokens[m].total_burned + n \in Nat
    BY <2>3 DEF TokenInfo
  <2>5. DOMAIN tokens' = DOMAIN tokens /\ tokens' \in [DOMAIN tokens' -> TokenInfo]
    BY <2>3, <2>4 DEF TokenInfo
  <2>6. id \in BurnIds /\ b \in BurnRecord
    BY <2>1 DEF BurnIds, BurnRecord
  <2>7. burns' = Put(burns, id, b)
    BY <1>1 DEF BurnPayment
  <2> HIDE DEF id, b
  <2>8. DOMAIN burns' \subseteq BurnIds /\ burns' \in [DOMAIN burns' -> BurnRecord]
    BY <2>6, <2>7 DEF Put, TypeOK, BurnType
  <2>9. QED
    BY <2>2, <2>5, <2>8
<1>2. ASSUME NEW u \in Users, NEW n \in BurnAmounts, burn(u, n)
      PROVE  TypeOK'
  <2>1. n \in Nat /\ nativeSolMint \in DOMAIN tokens /\ BurnPayment(u, nativeSolMint, n)
    BY <1>2 DEF burn, TypeOK, TokenType
  <2>2. total_burned' \in Nat
    BY <1>2, <2>1 DEF burn, TypeOK, BurnType
  <2>3. QED
    BY <1>1, <1>2, <2>1, <2>2
    DEF burn, TypeOK, AdminType, TokenType, MintType, BurnType, role_vars,
        validator_vars, limit_vars, window_vars, mint_vars
<1>3. ASSUME NEW u \in Users, NEW n \in BurnAmounts, NEW m \in SplMints, burnToken(u, m, n)
      PROVE  TypeOK'
  <2>1. n \in Nat /\ m \in DOMAIN tokens /\ BurnPayment(u, m, n)
    BY <1>3 DEF burnToken
  <2>2. QED
    BY <1>1, <1>3, <2>1
    DEF burnToken, TypeOK, AdminType, TokenType, MintType, BurnType, role_vars,
        validator_vars, limit_vars, window_vars, mint_vars
<1>4. ASSUME NEW m \in SplMints, NEW n \in BurnAmounts, BurnDirectly(m, n)
      PROVE  TypeOK'
  <2>1. circulating' \in [SplMints -> Nat] /\ burned_directly' \in [SplMints -> Nat]
    BY <1>4 DEF BurnDirectly, TypeOK, BurnType
  <2>2. QED
    BY <1>4, <2>1
    DEF BurnDirectly, TypeOK, AdminType, TokenType, MintType, BurnType, role_vars,
        validator_vars, limit_vars, window_vars, mint_vars
<1>5. QED
  BY <1>2, <1>3, <1>4 DEF BurnNext

\* Every variable that the administration leaves alone.
funds_vars == <<window_vars, mint_vars, burn_vars, total_minted, circulating>>

LEMMA TypeFundsKept ==
  ASSUME TypeOK, UNCHANGED funds_vars, AdminType',
         DOMAIN tokens \subseteq DOMAIN tokens', DOMAIN tokens' \subseteq SplMints,
         tokens' \in [DOMAIN tokens' -> TokenInfo]
  PROVE  TypeOK'
BY DEF funds_vars, TypeOK, TokenType, MintType, BurnType, window_vars, mint_vars, burn_vars

\* The administration: roles, validators, limits and the registry.
AdminStep == AdminNext \/ (\E role \in Roles : executeTransfer(role)) \/ NextBlock

LEMMA TypeAdmin == TypeOK /\ AdminStep => TypeOK'
<1> SUFFICES ASSUME TypeOK, AdminStep PROVE TypeOK'
  OBVIOUS
<1> USE ConstantsAssumption DEF TypeOK, funds_vars
<1>0. tokens \in [DOMAIN tokens -> TokenInfo] /\ DOMAIN tokens \subseteq SplMints
  BY DEF TokenType
<1>1. ASSUME NEW k \in Keys, NEW r \in Registrations, registerToken(k, r)
      PROVE  TypeOK'
  <2> DEFINE diff == r.solDecimals - r.dccDecimals
             t == NewToken(IF diff <= 0 THEN 1 ELSE 10 ^ diff)
  <2>1. r.splMint \in SplMints /\ r.solDecimals \in 0 .. 18 /\ r.dccDecimals \in 0 .. 8
    BY DEF Registration
  <2>2. diff <= 10 /\ diff \in Int
    BY <1>1, <2>1 DEF registerToken
  <2>3. t \in TokenInfo
    <3>1. CASE diff <= 0
      BY <3>1 DEF NewToken, TokenInfo
    <3>2. ASSUME NEW p \in Nat \ {0}, t = NewToken(p)
          PROVE  t \in TokenInfo
      BY <3>2 DEF NewToken, TokenInfo
    <3>3. \/ diff = 1 \/ diff = 2 \/ diff = 3 \/ diff = 4 \/ diff = 5
          \/ diff = 6 \/ diff = 7 \/ diff = 8 \/ diff = 9 \/ diff = 10 \/ diff <= 0
      BY <2>2
    <3>4. /\ 10 ^ 1 \in Nat \ {0} /\ 10 ^ 2 \in Nat \ {0} /\ 10 ^ 3 \in Nat \ {0}
          /\ 10 ^ 4 \in Nat \ {0} /\ 10 ^ 5 \in Nat \ {0} /\ 10 ^ 6 \in Nat \ {0}
          /\ 10 ^ 7 \in Nat \ {0} /\ 10 ^ 8 \in Nat \ {0} /\ 10 ^ 9 \in Nat \ {0}
          /\ 10 ^ 10 \in Nat \ {0}
      OBVIOUS
    <3>5. CASE ~ (diff <= 0)
      BY <3>2, <3>3, <3>4, <3>5
    <3>6. QED
      BY <3>1, <3>5
  <2>4. tokens' = Put(tokens, r.splMint, t)
    BY <1>1 DEF registerToken
  <2> HIDE DEF t
  <2>5. DOMAIN tokens \subseteq DOMAIN tokens' /\ DOMAIN tokens' \subseteq SplMints
        /\ tokens' \in [DOMAIN tokens' -> TokenInfo]
    BY <1>0, <2>1, <2>3, <2>4 DEF Put
  <2>6. AdminType'
    BY <1>1 DEF registerToken, AdminType, role_vars, validator_vars, limit_vars
  <2>7. QED
    BY <1>1, <2>5, <2>6, TypeFundsKept DEF registerToken
<1>2. ASSUME NEW k \in Keys, NEW m \in SplMints, NEW e \in BOOLEAN, setTokenEnabled(k, m, e)
      PROVE  TypeOK'
  <2>1. DOMAIN tokens' = DOMAIN tokens /\ tokens' \in [DOMAIN tokens' -> TokenInfo]
    BY <1>0, <1>2 DEF setTokenEnabled, TokenInfo
  <2>2. AdminType'
    BY <1>2 DEF setTokenEnabled, AdminType, role_vars, validator_vars, limit_vars
  <2>3. QED
    BY <1>0, <1>2, <2>1, <2>2, TypeFundsKept DEF setTokenEnabled
<1>3. ASSUME NEW k \in Keys, NEW v \in Validators,
             registerValidator(k, v) \/ removeValidator(k, v)
      PROVE  TypeOK'
  <2>1. AdminType'
    BY <1>3 DEF registerValidator, removeValidator, AdminType, role_vars, limit_vars
  <2>2. QED
    BY <1>0, <1>3, <2>1, TypeFundsKept DEF registerValidator, removeValidator
<1>4. ASSUME NEW k \in Keys, emergencyPause(k) \/ emergencyResume(k)
      PROVE  TypeOK'
  <2>1. AdminType'
    BY <1>4 DEF emergencyPause, emergencyResume, AdminType, validator_vars, limit_vars
  <2>2. QED
    BY <1>0, <1>4, <2>1, TypeFundsKept DEF emergencyPause, emergencyResume
<1>5. ASSUME NEW k \in Keys, NEW n \in NewLimits,
             updateMaxDailyMint(k, n) \/ updateMaxSingleMint(k, n)
      PROVE  TypeOK'
  <2>1. AdminType'
    BY <1>5 DEF updateMaxDailyMint, updateMaxSingleMint, AdminType, role_vars, validator_vars
  <2>2. QED
    BY <1>0, <1>5, <2>1, TypeFundsKept DEF updateMaxDailyMint, updateMaxSingleMint
<1>6. ASSUME NEW k \in Keys, NEW role \in Roles, NEW to \in Keys, proposeTransfer(k, role, to)
      PROVE  TypeOK'
  <2> DEFINE t == [to |-> to, height |-> height]
  <2>1. t \in Transfer
    BY DEF Transfer, AdminType
  <2>2. pending_transfer' = Put(pending_transfer, role, t)
    BY <1>6 DEF proposeTransfer
  <2> HIDE DEF t
  <2>3. DOMAIN pending_transfer' \subseteq Roles
        /\ pending_transfer' \in [DOMAIN pending_transfer' -> Transfer]
    BY <2>1, <2>2 DEF Put, AdminType
  <2>4. AdminType'
    BY <1>6, <2>3 DEF proposeTransfer, AdminType, validator_vars, limit_vars
  <2>5. QED
    BY <1>0, <1>6, <2>4, TypeFundsKept DEF proposeTransfer
<1>7. ASSUME NEW role \in Roles, pending_transfer' = Delete(pending_transfer, role)
      PROVE  /\ DOMAIN pending_transfer' \subseteq Roles
             /\ pending_transfer' \in [DOMAIN pending_transfer' -> Transfer]
  BY <1>7 DEF Delete, Restrict, AdminType
<1>8. ASSUME NEW k \in Keys, NEW role \in Roles, cancelTransfer(k, role)
      PROVE  TypeOK'
  <2>1. AdminType'
    BY <1>7, <1>8 DEF cancelTransfer, AdminType, validator_vars, limit_vars
  <2>2. QED
    BY <1>0, <1>8, <2>1, TypeFundsKept DEF cancelTransfer
<1>9. ASSUME NEW role \in Roles, executeTransfer(role)
      PROVE  TypeOK'
  <2>1. pending_transfer[role].to \in Keys
    BY <1>9 DEF executeTransfer, AdminType, Transfer
  <2>2. AdminType'
    BY <1>7, <1>9, <2>1 DEF executeTransfer, AdminType, validator_vars, limit_vars
  <2>3. QED
    BY <1>0, <1>9, <2>2, TypeFundsKept DEF executeTransfer
<1>10. CASE NextBlock
  <2>1. AdminType'
    BY <1>10 DEF NextBlock, AdminType, role_vars, validator_vars, limit_vars
  <2>2. QED
    BY <1>0, <1>10, <2>1, TypeFundsKept DEF NextBlock
<1>11. QED
  BY <1>1, <1>2, <1>3, <1>4, <1>5, <1>6, <1>8, <1>9, <1>10 DEF AdminStep, AdminNext

(***************************************************************************)
(* Pending mints                                                           *)
(***************************************************************************)

\* Steps that touch neither the transfers nor their entries.
LEMMA PendingKept ==
  ASSUME PendingMatchesAccepted, DOMAIN tokens \subseteq DOMAIN tokens',
         UNCHANGED <<processed, pending_large, accepted, credits>>
  PROVE  PendingMatchesAccepted'
BY DEF PendingMatchesAccepted

\* The registry only grows.
LEMMA TokensGrow == TypeOK /\ [Next]_vars => DOMAIN tokens \subseteq DOMAIN tokens'
BY DEF TypeOK, TokenType, vars, Next, MintNext, BurnNext, AdminNext, mintToken, mint, MintTo,
   executePendingMint, cancelPendingMint, BurnPayment, burn, burnToken, BurnDirectly,
   registerToken, Put, setTokenEnabled, registerValidator, removeValidator, emergencyPause,
   emergencyResume, updateMaxDailyMint, updateMaxSingleMint, proposeTransfer, cancelTransfer,
   executeTransfer, NextBlock

\* What accepting a transfer adds, and that the earlier ones stay as they are.
LEMMA AcceptFacts ==
  ASSUME TypeOK, NEW r \in MintRequest, r.splMint \in DOMAIN tokens, NEW att,
         NEW d \in BOOLEAN, AcceptMint(r, att, d), DOMAIN tokens \subseteq DOMAIN tokens'
  PROVE  /\ r.transferId \notin processed
         /\ processed' = processed \cup {r.transferId}
         /\ accepted'[r.transferId].credit = CreditOf(r) /\ CreditOf(r).asset \in DOMAIN tokens'
         /\ accepted'[r.transferId].height = height
         /\ accepted'[r.transferId].delayed = d
         /\ accepted'[r.transferId].raw = r.amount
         /\ accepted'[r.transferId].divisor = tokens[r.splMint].divisor
         /\ \A i \in processed : accepted'[i] = accepted[i]
<1> DEFINE id == r.transferId
           a == [credit |-> CreditOf(r), raw |-> r.amount, height |-> height,
                 divisor |-> tokens[r.splMint].divisor, delayed |-> d,
                 signers |-> {att[k] : k \in DOMAIN att}]
<1>1. accepted' = Put(accepted, id, a) /\ id \notin processed
      /\ processed' = processed \cup {id}
  BY DEF AcceptMint
<1>2. a.credit = CreditOf(r) /\ a.height = height /\ a.delayed = d
      /\ a.raw = r.amount /\ a.divisor = tokens[r.splMint].divisor
      /\ CreditOf(r).asset = r.splMint
  BY DEF CreditOf
<1> HIDE DEF a, id
<1>3. DOMAIN accepted = processed
  BY DEF TypeOK, MintType
<1>4. accepted'[id] = a /\ \A i \in processed : accepted'[i] = accepted[i]
  BY <1>1, <1>3 DEF Put
<1>5. QED
  BY <1>1, <1>2, <1>4 DEF id

LEMMA PendingNext ==
  TypeOK /\ TypeOK' /\ PendingMatchesAccepted /\ [Next]_vars => PendingMatchesAccepted'
<1> SUFFICES ASSUME TypeOK, TypeOK', PendingMatchesAccepted, [Next]_vars
             PROVE  PendingMatchesAccepted'
  OBVIOUS
<1> USE ConstantsAssumption
<1>1. ASSUME NEW r \in MintRequests, NEW att \in AttestationLists, mintToken(r, att)
      PROVE  PendingMatchesAccepted'
  <2> DEFINE d == r.amount >= largeTxThreshold
             q == [height |-> height, credit |-> CreditOf(r)]
             id == r.transferId
  <2>1. r \in MintRequest /\ r.splMint \in DOMAIN tokens /\ AcceptMint(r, att, d)
        /\ d \in BOOLEAN
    BY <1>1 DEF mintToken, MintRequest
  <2>2. DOMAIN tokens \subseteq DOMAIN tokens' /\ DOMAIN credits \subseteq processed
    BY <1>1, TokensGrow DEF Next, MintNext, TypeOK, MintType
  <2>3. /\ id \notin processed /\ processed' = processed \cup {id}
        /\ accepted'[id].credit = CreditOf(r) /\ CreditOf(r).asset \in DOMAIN tokens'
        /\ accepted'[id].height = height /\ accepted'[id].delayed = d
        /\ \A i \in processed : accepted'[i] = accepted[i]
    BY <2>1, <2>2, AcceptFacts
  <2>4. CASE /\ d /\ pending_large' = Put(pending_large, id, q)
             /\ UNCHANGED <<circulating, tokens, global_nonce, credits>>
    <3>1. q = [height |-> accepted'[id].height, credit |-> accepted'[id].credit]
      BY <2>3
    <3> HIDE DEF q, id, d
    <3>2. QED
      BY <2>2, <2>3, <2>4, <3>1 DEF PendingMatchesAccepted, Put
  <2>5. CASE MintTo(id, CreditOf(r)) /\ UNCHANGED pending_large
    <3>1. DOMAIN credits' = DOMAIN credits \cup {id}
      BY <2>5 DEF MintTo, Put
    <3> HIDE DEF id, d
    <3>2. QED
      BY <2>2, <2>3, <2>5, <3>1 DEF PendingMatchesAccepted
  <2>6. QED
    BY <1>1, <2>4, <2>5 DEF mintToken
<1>2. ASSUME NEW r \in LegacyRequests, NEW att \in AttestationLists, mint(r, att)
      PROVE  PendingMatchesAccepted'
  <2>1. r \in MintRequest /\ r.splMint \in DOMAIN tokens /\ AcceptMint(r, att, FALSE)
        /\ FALSE \in BOOLEAN /\ MintTo(r.transferId, CreditOf(r)) /\ UNCHANGED pending_large
    BY <1>2 DEF mint, TypeOK, TokenType
  <2>2. DOMAIN tokens \subseteq DOMAIN tokens' /\ DOMAIN credits \subseteq processed
    BY <1>2, TokensGrow DEF Next, MintNext, TypeOK, MintType
  <2> DEFINE id == r.transferId
  <2>3. /\ id \notin processed /\ processed' = processed \cup {id}
        /\ \A i \in processed : accepted'[i] = accepted[i]
    BY <2>1, <2>2, AcceptFacts
  <2>4. DOMAIN credits' = DOMAIN credits \cup {id}
    BY <2>1 DEF MintTo, Put
  <2> HIDE DEF id
  <2>5. QED
    BY <2>1, <2>2, <2>3, <2>4 DEF PendingMatchesAccepted
<1>3. ASSUME NEW id \in TransferIds, executePendingMint(id)
      PROVE  PendingMatchesAccepted'
  <2>1. DOMAIN tokens \subseteq DOMAIN tokens'
    BY <1>3, TokensGrow DEF Next, MintNext
  <2>2. QED
    BY <1>3, <2>1
    DEF executePendingMint, PendingMatchesAccepted, MintTo, Put, Delete, Restrict
<1>4. ASSUME NEW id \in TransferIds, NEW k \in Keys, cancelPendingMint(k, id)
      PROVE  PendingMatchesAccepted'
  BY <1>4 DEF cancelPendingMint, PendingMatchesAccepted, Delete, Restrict
<1>5. CASE BurnNext \/ AdminStep
  <2>1. UNCHANGED <<processed, pending_large, accepted, credits>>
    BY <1>5 DEF BurnNext, AdminStep, AdminNext, burn, burnToken, BurnDirectly, mint_vars,
       registerToken, setTokenEnabled, registerValidator, removeValidator, emergencyPause,
       emergencyResume, updateMaxDailyMint, updateMaxSingleMint, proposeTransfer,
       cancelTransfer, executeTransfer, NextBlock
  <2>2. QED
    BY <2>1, TokensGrow, PendingKept
<1>6. CASE UNCHANGED vars
  BY <1>6, PendingKept DEF vars, mint_vars
<1>7. QED
  BY <1>1, <1>2, <1>3, <1>4, <1>5, <1>6 DEF Next, MintNext, AdminStep

\* The two invariants the others rest on, together inductive: the types need
\* the pending entries to be those of accepted transfers.
LEMMA Foundations == Spec => [](TypeOK /\ PendingMatchesAccepted)
<1>1. Init => TypeOK /\ PendingMatchesAccepted
  BY TypeInit DEF Init, PendingMatchesAccepted
<1>2. TypeOK /\ PendingMatchesAccepted /\ [Next]_vars => TypeOK'
  <2> SUFFICES ASSUME TypeOK, PendingMatchesAccepted, [Next]_vars PROVE TypeOK'
    OBVIOUS
  <2>1. CASE UNCHANGED vars
    BY <2>1 DEF vars, role_vars, validator_vars, limit_vars, window_vars, mint_vars,
       burn_vars, TypeOK, AdminType, TokenType, MintType, BurnType
  <2>2. QED
    BY <2>1, TypeMints, TypeBurns, TypeAdmin DEF Next, AdminStep
<1>3. QED
  BY <1>1, <1>2, PendingNext, PTL DEF Spec

\* Every entry, counter and supply keeps its type.
THEOREM TypeCorrect == Spec => []TypeOK
BY Foundations, PTL

\* Until it is executed or cancelled, a pending mint is what the quorum signed,
\* its id stays processed and its token registered.
THEOREM PendingMintsFaithful == Spec => []PendingMatchesAccepted
BY Foundations, PTL

(***************************************************************************)
(* Supply                                                                  *)
(***************************************************************************)

\* A registered token is credited: its supply and its total grow together.
LEMMA SupplyMint ==
  ASSUME TypeOK, TokenSupply, NEW id, NEW c \in Credit, c.asset \in DOMAIN tokens,
         MintTo(id, c), UNCHANGED burned_directly
  PROVE  TokenSupply'
<1> DEFINE n == c.amount
           a == c.asset
<1>1. n \in Nat /\ a \in DOMAIN tokens /\ DOMAIN tokens \subseteq SplMints
  BY DEF Credit, TypeOK, TokenType
<1>2. /\ circulating' = [circulating EXCEPT ![a] = @ + n]
      /\ tokens' = [tokens EXCEPT ![a].total_minted = @ + n]
  BY DEF MintTo
<1> HIDE DEF n, a
<1>3. /\ circulating \in [SplMints -> Nat] /\ burned_directly \in [SplMints -> Nat]
      /\ tokens \in [DOMAIN tokens -> TokenInfo]
  BY DEF TypeOK, TokenType, BurnType
<1>4. /\ DOMAIN tokens' = DOMAIN tokens
      /\ \A m \in DOMAIN tokens :
           /\ tokens'[m].total_burned = tokens[m].total_burned
           /\ tokens'[m].total_minted = tokens[m].total_minted + (IF m = a THEN n ELSE 0)
           /\ circulating'[m] = circulating[m] + (IF m = a THEN n ELSE 0)
      /\ \A m \in SplMints \ DOMAIN tokens : circulating'[m] = circulating[m]
  BY <1>1, <1>2, <1>3 DEF TokenInfo
<1>5. \A m \in DOMAIN tokens : tokens[m].total_minted \in Nat /\ tokens[m].total_burned \in Nat
  BY <1>3 DEF TokenInfo
<1>6. QED
  BY <1>1, <1>3, <1>4, <1>5 DEF TokenSupply

\* A burn through the contract moves an amount from the supply to its total.
LEMMA SupplyBurn ==
  ASSUME TypeOK, TokenSupply, NEW u \in Users, NEW a \in DOMAIN tokens, NEW n \in Nat,
         BurnPayment(u, a, n), UNCHANGED burned_directly
  PROVE  TokenSupply'
<1>1. /\ circulating' = [circulating EXCEPT ![a] = @ - n]
      /\ tokens' = [tokens EXCEPT ![a].total_burned = @ + n]
  BY DEF BurnPayment
<1>2. /\ circulating \in [SplMints -> Nat] /\ burned_directly \in [SplMints -> Nat]
      /\ tokens \in [DOMAIN tokens -> TokenInfo] /\ DOMAIN tokens \subseteq SplMints
  BY DEF TypeOK, TokenType, BurnType
<1>3. /\ DOMAIN tokens' = DOMAIN tokens
      /\ \A m \in DOMAIN tokens :
           /\ tokens'[m].total_minted = tokens[m].total_minted
           /\ tokens'[m].total_burned = tokens[m].total_burned + (IF m = a THEN n ELSE 0)
           /\ circulating'[m] = circulating[m] - (IF m = a THEN n ELSE 0)
      /\ \A m \in SplMints \ DOMAIN tokens : circulating'[m] = circulating[m]
  BY <1>1, <1>2 DEF TokenInfo
<1>4. \A m \in DOMAIN tokens : tokens[m].total_minted \in Nat /\ tokens[m].total_burned \in Nat
  BY <1>2 DEF TokenInfo
<1>5. QED
  BY <1>2, <1>3, <1>4 DEF TokenSupply

LEMMA SupplyNext ==
  TypeOK /\ PendingMatchesAccepted /\ TokenSupply /\ [Next]_vars => TokenSupply'
<1> SUFFICES ASSUME TypeOK, PendingMatchesAccepted, TokenSupply, [Next]_vars
             PROVE  TokenSupply'
  OBVIOUS
<1> USE ConstantsAssumption
<1>1. ASSUME NEW r \in MintRequests, NEW att \in AttestationLists, mintToken(r, att)
      PROVE  TokenSupply'
  <2>1. r \in MintRequest /\ r.splMint \in DOMAIN tokens
        /\ AcceptMint(r, att, r.amount >= largeTxThreshold)
        /\ (r.amount >= largeTxThreshold) \in BOOLEAN
    BY <1>1 DEF mintToken, MintRequest
  <2>2. CreditOf(r) \in Credit /\ CreditOf(r).asset \in DOMAIN tokens
    BY <2>1, TypeAcceptMint DEF CreditOf
  <2>3. CASE UNCHANGED <<circulating, tokens, global_nonce, credits>>
    BY <1>1, <2>3 DEF mintToken, burn_vars, TokenSupply
  <2>4. CASE MintTo(r.transferId, CreditOf(r))
    BY <1>1, <2>2, <2>4, SupplyMint DEF mintToken, burn_vars
  <2>5. QED
    BY <1>1, <2>3, <2>4 DEF mintToken
<1>2. ASSUME NEW r \in LegacyRequests, NEW att \in AttestationLists, mint(r, att)
      PROVE  TokenSupply'
  <2>1. r \in MintRequest /\ r.splMint \in DOMAIN tokens /\ AcceptMint(r, att, FALSE)
        /\ FALSE \in BOOLEAN /\ MintTo(r.transferId, CreditOf(r)) /\ UNCHANGED burned_directly
    BY <1>2 DEF mint, TypeOK, TokenType, burn_vars
  <2>2. CreditOf(r) \in Credit /\ CreditOf(r).asset \in DOMAIN tokens
    BY <2>1, TypeAcceptMint DEF CreditOf
  <2>3. QED
    BY <2>1, <2>2, SupplyMint
<1>3. ASSUME NEW id \in TransferIds, executePendingMint(id)
      PROVE  TokenSupply'
  <2> DEFINE c == pending_large[id].credit
  <2>1. id \in DOMAIN pending_large /\ MintTo(id, c) /\ UNCHANGED burned_directly
    BY <1>3 DEF executePendingMint, burn_vars
  <2>2. c \in Credit
    BY <2>1 DEF TypeOK, MintType, PendingMint
  <2>3. c = accepted[id].credit /\ c.asset \in DOMAIN tokens
    BY <2>1 DEF PendingMatchesAccepted
  <2> HIDE DEF c
  <2>4. QED
    BY <2>1, <2>2, <2>3, SupplyMint
<1>4. ASSUME NEW u \in Users, NEW n \in BurnAmounts, burn(u, n)
      PROVE  TokenSupply'
  <2>1. nativeSolMint \in DOMAIN tokens /\ BurnPayment(u, nativeSolMint, n)
        /\ UNCHANGED burned_directly
    BY <1>4 DEF burn, TypeOK, TokenType
  <2>2. QED
    BY <2>1, SupplyBurn
<1>5. ASSUME NEW u \in Users, NEW n \in BurnAmounts, NEW m \in SplMints, burnToken(u, m, n)
      PROVE  TokenSupply'
  <2>1. m \in DOMAIN tokens /\ BurnPayment(u, m, n) /\ UNCHANGED burned_directly
    BY <1>5 DEF burnToken
  <2>2. QED
    BY <2>1, SupplyBurn
<1>6. ASSUME NEW m \in SplMints, NEW n \in BurnAmounts, BurnDirectly(m, n)
      PROVE  TokenSupply'
  <2>1. /\ circulating \in [SplMints -> Nat] /\ burned_directly \in [SplMints -> Nat]
        /\ \A k \in DOMAIN tokens :
             tokens[k].total_minted \in Nat /\ tokens[k].total_burned \in Nat
    BY DEF TypeOK, TokenType, BurnType, TokenInfo
  <2>2. /\ n \in Nat /\ n <= circulating[m]
        /\ circulating' = [circulating EXCEPT ![m] = @ - n]
        /\ burned_directly' = [burned_directly EXCEPT ![m] = @ + n]
        /\ UNCHANGED tokens
    BY <1>6 DEF BurnDirectly
  <2>3. QED
    BY <2>1, <2>2 DEF TokenSupply
<1>7. ASSUME NEW k \in Keys, NEW r \in Registrations, registerToken(k, r)
      PROVE  TokenSupply'
  <2> DEFINE t == NewToken(IF r.solDecimals - r.dccDecimals <= 0 THEN 1
                           ELSE 10 ^ (r.solDecimals - r.dccDecimals))
  <2>1. t.total_minted = 0 /\ t.total_burned = 0
    BY DEF NewToken
  <2>2. tokens' = Put(tokens, r.splMint, t) /\ UNCHANGED <<circulating, burned_directly>>
        /\ r.splMint \notin DOMAIN tokens
    BY <1>7 DEF registerToken, burn_vars
  <2> HIDE DEF t
  <2>3. QED
    BY <2>1, <2>2 DEF TokenSupply, Put, TypeOK, TokenType
<1>8. ASSUME NEW k \in Keys, NEW m \in SplMints, NEW e \in BOOLEAN, setTokenEnabled(k, m, e)
      PROVE  TokenSupply'
  <2>1. /\ DOMAIN tokens' = DOMAIN tokens
        /\ \A x \in DOMAIN tokens : /\ tokens'[x].total_minted = tokens[x].total_minted
                                    /\ tokens'[x].total_burned = tokens[x].total_burned
    BY <1>8 DEF setTokenEnabled, TypeOK, TokenType, TokenInfo
  <2>2. QED
    BY <1>8, <2>1 DEF setTokenEnabled, burn_vars, TokenSupply
<1>9. CASE UNCHANGED <<tokens, circulating, burned_directly>>
  BY <1>9 DEF TokenSupply
<1>10. QED
  BY <1>1, <1>2, <1>3, <1>4, <1>5, <1>6, <1>7, <1>8, <1>9
  DEF Next, MintNext, BurnNext, AdminNext, vars, burn_vars, cancelPendingMint,
      registerValidator, removeValidator, emergencyPause, emergencyResume, updateMaxDailyMint,
      updateMaxSingleMint, proposeTransfer, cancelTransfer, executeTransfer, NextBlock

\* In every state, for every token: circulating, burned by holders and burned
\* through the contract add up to what was minted.
THEOREM SupplyAccounted == Spec => []TokenSupply
<1>1. Init => TokenSupply
  BY DEF Init, TokenSupply, NewToken
<1>2. QED
  BY <1>1, SupplyNext, Foundations, PTL DEF Spec

(***************************************************************************)
(* Delay and issuance                                                      *)
(***************************************************************************)

\* A credit is added and the earlier ones stay; nothing else is added by a mint.
LEMMA CreditFacts ==
  ASSUME TypeOK, NEW id, id \notin DOMAIN credits, NEW c, MintTo(id, c)
  PROVE  /\ DOMAIN credits' = DOMAIN credits \cup {id}
         /\ credits'[id].credit = c /\ credits'[id].height = height
         /\ \A i \in DOMAIN credits : credits'[i] = credits[i]
BY DEF MintTo, Put

LEMMA LargeMintsNext ==
  TypeOK /\ PendingMatchesAccepted /\ LargeMintsWait /\ [Next]_vars => LargeMintsWait'
<1> SUFFICES ASSUME TypeOK, PendingMatchesAccepted, LargeMintsWait, [Next]_vars
             PROVE  LargeMintsWait'
  OBVIOUS
<1> USE ConstantsAssumption
<1>0. DOMAIN tokens \subseteq DOMAIN tokens' /\ DOMAIN credits \subseteq processed
  BY TokensGrow DEF TypeOK, MintType
<1>1. ASSUME NEW r \in MintRequests, NEW att \in AttestationLists, mintToken(r, att)
      PROVE  LargeMintsWait'
  <2> DEFINE d == r.amount >= largeTxThreshold
             id == r.transferId
  <2>1. r \in MintRequest /\ r.splMint \in DOMAIN tokens /\ AcceptMint(r, att, d)
        /\ d \in BOOLEAN
    BY <1>1 DEF mintToken, MintRequest
  <2>2. /\ id \notin processed /\ accepted'[id].delayed = d
        /\ \A i \in processed : accepted'[i] = accepted[i]
    BY <1>0, <2>1, AcceptFacts
  <2>3. CASE UNCHANGED <<circulating, tokens, global_nonce, credits>>
    BY <1>0, <2>2, <2>3 DEF LargeMintsWait
  <2>4. CASE ~ d /\ MintTo(id, CreditOf(r))
    <3>1. /\ DOMAIN credits' = DOMAIN credits \cup {id}
          /\ \A i \in DOMAIN credits : credits'[i] = credits[i]
      BY <1>0, <2>2, <2>4, CreditFacts
    <3> HIDE DEF id, d
    <3>2. QED
      BY <1>0, <2>2, <2>4, <3>1 DEF LargeMintsWait
  <2>5. r.amount < largeTxThreshold => ~ d
    BY <2>1 DEF MintRequest
  <2>6. QED
    BY <1>1, <2>3, <2>4, <2>5 DEF mintToken
<1>2. ASSUME NEW r \in LegacyRequests, NEW att \in AttestationLists, mint(r, att)
      PROVE  LargeMintsWait'
  <2> DEFINE id == r.transferId
  <2>1. r \in MintRequest /\ r.splMint \in DOMAIN tokens /\ AcceptMint(r, att, FALSE)
        /\ FALSE \in BOOLEAN /\ MintTo(id, CreditOf(r))
    BY <1>2 DEF mint, TypeOK, TokenType
  <2>2. /\ id \notin processed /\ accepted'[id].delayed = FALSE
        /\ \A i \in processed : accepted'[i] = accepted[i]
    BY <1>0, <2>1, AcceptFacts
  <2>3. /\ DOMAIN credits' = DOMAIN credits \cup {id}
        /\ \A i \in DOMAIN credits : credits'[i] = credits[i]
    BY <1>0, <2>1, <2>2, CreditFacts
  <2> HIDE DEF id
  <2>4. QED
    BY <1>0, <2>2, <2>3 DEF LargeMintsWait
<1>3. ASSUME NEW id \in TransferIds, executePendingMint(id)
      PROVE  LargeMintsWait'
  <2>1. /\ id \in DOMAIN pending_large /\ MintTo(id, pending_large[id].credit)
        /\ height - pending_large[id].height >= largeTxDelayBlocks /\ UNCHANGED accepted
    BY <1>3 DEF executePendingMint
  <2>2. id \notin DOMAIN credits /\ pending_large[id].height = accepted[id].height
    BY <2>1 DEF PendingMatchesAccepted
  <2>3. /\ DOMAIN credits' = DOMAIN credits \cup {id} /\ credits'[id].height = height
        /\ \A i \in DOMAIN credits : credits'[i] = credits[i]
    BY <2>1, <2>2, CreditFacts
  <2>4. QED
    BY <2>1, <2>2, <2>3 DEF LargeMintsWait
<1>4. CASE UNCHANGED <<accepted, credits>>
  BY <1>4 DEF LargeMintsWait
<1>5. QED
  BY <1>1, <1>2, <1>3, <1>4
  DEF Next, MintNext, BurnNext, AdminNext, vars, mint_vars, cancelPendingMint, burn, burnToken,
      BurnDirectly, registerToken, setTokenEnabled, registerValidator, removeValidator,
      emergencyPause, emergencyResume, updateMaxDailyMint, updateMaxSingleMint,
      proposeTransfer, cancelTransfer, executeTransfer, NextBlock

\* A mint that mintToken delayed is credited only after the whole delay.
THEOREM DelayedMintsWait == Spec => []LargeMintsWait
<1>1. Init => LargeMintsWait
  BY DEF Init, LargeMintsWait
<1>2. QED
  BY <1>1, LargeMintsNext, Foundations, PTL DEF Spec

LEMMA IssuanceAccepts ==
  ASSUME TypeOK, NEW r \in MintRequest, r.splMint \in DOMAIN tokens,
         NEW att \in AttestationLists, NEW d \in BOOLEAN, AcceptMint(r, att, d),
         DOMAIN tokens \subseteq DOMAIN tokens'
  PROVE  I!Extends([i \in processed' |-> accepted'[i].credit],
                   [i \in processed |-> accepted[i].credit], r.transferId)
BY AcceptFacts DEF I!Extends

LEMMA IssuanceMints ==
  ASSUME TypeOK, TypeOK', PendingMatchesAccepted, MintNext,
         DOMAIN tokens \subseteq DOMAIN tokens'
  PROVE  I!INext \/ UNCHANGED I!ivars
<1> USE ConstantsAssumption
<1> DEFINE Claims == [i \in processed |-> accepted[i].credit]
           Gone == processed \ (DOMAIN credits \cup Waiting)
<1>0. DOMAIN credits \subseteq processed
  BY DEF TypeOK, MintType
<1>1. ASSUME NEW id, id \notin DOMAIN credits, id \notin Gone, NEW c, MintTo(id, c), Gone' = Gone
      PROVE  I!Issue(id, c)
  <2>1. /\ DOMAIN credits' = DOMAIN credits \cup {id} /\ credits'[id].credit = c
        /\ \A i \in DOMAIN credits : credits'[i] = credits[i]
    BY <1>1, CreditFacts
  <2>2. I!Extends(CreditTerms', CreditTerms, id) /\ CreditTerms'[id] = c
    BY <1>1, <2>1 DEF I!Extends, CreditTerms
  <2>3. circulating' = [circulating EXCEPT ![c.asset] = @ + c.amount]
    BY <1>1 DEF MintTo
  <2>4. QED
    BY <1>1, <2>2, <2>3 DEF I!Issue
<1>2. ASSUME NEW r \in MintRequests, NEW att \in AttestationLists, mintToken(r, att)
      PROVE  I!Accept(r.transferId) \/ I!AcceptAndCredit(r.transferId)
  <2> DEFINE d == r.amount >= largeTxThreshold
             id == r.transferId
             q == [height |-> height, credit |-> CreditOf(r)]
  <2>1. r \in MintRequest /\ r.splMint \in DOMAIN tokens /\ AcceptMint(r, att, d)
        /\ d \in BOOLEAN
    BY <1>2 DEF mintToken, MintRequest
  <2>2. I!Extends(Claims', Claims, id)
    BY <2>1, IssuanceAccepts
  <2>3. /\ id \notin processed /\ processed' = processed \cup {id}
        /\ accepted'[id].credit = CreditOf(r)
    BY <2>1, AcceptFacts
  <2>4. CASE /\ pending_large' = Put(pending_large, id, q)
             /\ UNCHANGED <<circulating, tokens, global_nonce, credits>>
    <3>1. Waiting' = Waiting \cup {id}
      BY <2>4 DEF Waiting, Put
    <3> HIDE DEF id
    <3>2. Gone' = Gone
      BY <1>0, <2>3, <2>4, <3>1
    <3>3. CreditTerms' = CreditTerms /\ circulating' = circulating
      BY <2>4 DEF CreditTerms
    <3>4. QED
      BY <2>2, <3>2, <3>3 DEF I!Accept, id
  <2>5. CASE MintTo(id, CreditOf(r)) /\ UNCHANGED pending_large
    <3>1. DOMAIN credits' = DOMAIN credits \cup {id} /\ Waiting' = Waiting
      BY <1>0, <2>3, <2>5, CreditFacts DEF Waiting
    <3>2. Gone' = Gone /\ id \notin Gone
      BY <1>0, <2>3, <3>1
    <3>3. I!Issue(id, CreditOf(r))
      BY <1>0, <1>1, <2>3, <2>5, <3>2
    <3>4. Claims'[id] = CreditOf(r)
      BY <2>3
    <3>5. QED
      BY <2>2, <3>3, <3>4 DEF I!AcceptAndCredit
  <2>6. QED
    BY <1>2, <2>4, <2>5 DEF mintToken
<1>3. ASSUME NEW r \in LegacyRequests, NEW att \in AttestationLists, mint(r, att)
      PROVE  I!AcceptAndCredit(r.transferId)
  <2> DEFINE id == r.transferId
  <2>1. r \in MintRequest /\ r.splMint \in DOMAIN tokens /\ AcceptMint(r, att, FALSE)
        /\ FALSE \in BOOLEAN /\ MintTo(id, CreditOf(r)) /\ UNCHANGED pending_large
    BY <1>3 DEF mint, TypeOK, TokenType
  <2>2. I!Extends(Claims', Claims, id)
    BY <2>1, IssuanceAccepts
  <2>3. /\ id \notin processed /\ processed' = processed \cup {id}
        /\ accepted'[id].credit = CreditOf(r)
    BY <2>1, AcceptFacts
  <2>4. DOMAIN credits' = DOMAIN credits \cup {id} /\ Waiting' = Waiting
    BY <1>0, <2>1, <2>3, CreditFacts DEF Waiting
  <2>5. Gone' = Gone /\ id \notin Gone
    BY <1>0, <2>3, <2>4
  <2>6. I!Issue(id, CreditOf(r))
    BY <1>0, <1>1, <2>1, <2>3, <2>5
  <2>7. Claims'[id] = CreditOf(r)
    BY <2>3
  <2>8. QED
    BY <2>2, <2>6, <2>7 DEF I!AcceptAndCredit
<1>4. ASSUME NEW id \in TransferIds, executePendingMint(id)
      PROVE  I!Credit(id)
  <2> DEFINE c == pending_large[id].credit
  <2>1. /\ id \in Waiting /\ MintTo(id, c)
        /\ Waiting' = Waiting \ {id} /\ UNCHANGED <<processed, accepted>>
    BY <1>4 DEF executePendingMint, Waiting, Delete, Restrict
  <2>2. id \in processed \ DOMAIN credits /\ c = accepted[id].credit
    BY <2>1 DEF PendingMatchesAccepted, Waiting
  <2> HIDE DEF c
  <2>3. DOMAIN credits' = DOMAIN credits \cup {id}
    BY <2>1, <2>2, CreditFacts
  <2>4. Gone' = Gone /\ id \notin Gone
    BY <2>1, <2>2, <2>3
  <2>5. I!Issue(id, c)
    BY <1>1, <2>1, <2>2, <2>4
  <2>6. QED
    BY <2>1, <2>2, <2>5 DEF I!Credit
<1>5. ASSUME NEW id \in TransferIds, NEW k \in Keys, cancelPendingMint(k, id)
      PROVE  I!Withdraw(id) \/ UNCHANGED I!ivars
  <2>1. /\ Waiting' = Waiting \ {id}
        /\ UNCHANGED <<processed, accepted, credits, circulating>>
    BY <1>5 DEF cancelPendingMint, Waiting, Delete, Restrict
  <2>2. CASE id \in Waiting
    <3>1. id \in processed \ DOMAIN credits
      BY <2>2 DEF PendingMatchesAccepted, Waiting
    <3>2. Gone' = Gone \cup {id}
      BY <2>1, <2>2, <3>1
    <3>3. QED
      BY <2>1, <3>1, <3>2 DEF I!Withdraw, CreditTerms
  <2>3. CASE id \notin Waiting
    BY <2>1, <2>3 DEF I!ivars, CreditTerms
  <2>4. QED
    BY <2>2, <2>3
<1>6. ASSUME NEW r \in MintRequest PROVE r.transferId \in TransferIds
  BY DEF MintRequest
<1>7. QED
  BY <1>2, <1>3, <1>4, <1>5, <1>6 DEF MintNext, I!INext

LEMMA IssuanceBurns ==
  ASSUME TypeOK, BurnNext
  PROVE  I!INext \/ UNCHANGED I!ivars
<1> USE ConstantsAssumption
<1>1. ASSUME NEW m \in SplMints, NEW n \in Nat, n <= circulating[m],
             circulating' = [circulating EXCEPT ![m] = @ - n], UNCHANGED mint_vars
      PROVE  I!Redeem(m) \/ UNCHANGED I!ivars
  <2>1. circulating \in [SplMints -> Nat]
    BY DEF TypeOK, BurnType
  <2>2. UNCHANGED <<[i \in processed |-> accepted[i].credit], CreditTerms,
                    processed \ (DOMAIN credits \cup Waiting)>>
    BY <1>1 DEF mint_vars, CreditTerms, Waiting
  <2>3. CASE n = 0
    BY <1>1, <2>1, <2>2, <2>3 DEF I!ivars
  <2>4. CASE n # 0
    <3>1. n \in 1 .. circulating[m]
      BY <1>1, <2>1, <2>4
    <3>2. QED
      BY <1>1, <2>2, <3>1 DEF I!Redeem
  <2>5. QED
    BY <2>3, <2>4
<1>2. ASSUME NEW u \in Users, NEW n \in BurnAmounts, burn(u, n)
      PROVE  I!Redeem(nativeSolMint) \/ UNCHANGED I!ivars
  BY <1>1, <1>2 DEF burn, BurnPayment
<1>3. ASSUME NEW u \in Users, NEW n \in BurnAmounts, NEW m \in SplMints, burnToken(u, m, n)
      PROVE  I!Redeem(m) \/ UNCHANGED I!ivars
  BY <1>1, <1>3 DEF burnToken, BurnPayment
<1>4. ASSUME NEW m \in SplMints, NEW n \in BurnAmounts, BurnDirectly(m, n)
      PROVE  I!Redeem(m) \/ UNCHANGED I!ivars
  BY <1>1, <1>4 DEF BurnDirectly
<1>5. QED
  BY <1>2, <1>3, <1>4 DEF BurnNext, I!INext

\* The contract implements Issuance: an accepted transfer is credited at most
\* once, as accepted, and never after it was cancelled.
THEOREM ImplementsIssuance == Spec => CreditsEachTransferOnce
<1> USE ConstantsAssumption
<1>1. Init => I!IInit
  BY DEF Init, I!IInit, CreditTerms, Waiting
<1>2. ASSUME TypeOK, TypeOK', PendingMatchesAccepted, [Next]_vars
      PROVE  [I!INext]_(I!ivars)
  <2>1. CASE MintNext
    BY <1>2, <2>1, IssuanceMints, TokensGrow
  <2>2. CASE BurnNext
    BY <1>2, <2>2, IssuanceBurns
  <2>3. CASE AdminStep \/ UNCHANGED vars
    <3>1. UNCHANGED <<processed, pending_large, accepted, credits, circulating>>
      BY <2>3 DEF AdminStep, AdminNext, mint_vars, vars, registerToken, setTokenEnabled,
         registerValidator, removeValidator, emergencyPause, emergencyResume,
         updateMaxDailyMint, updateMaxSingleMint, proposeTransfer, cancelTransfer,
         executeTransfer, NextBlock
    <3>2. QED
      BY <3>1 DEF I!ivars, CreditTerms, Waiting
  <2>4. QED
    BY <1>2, <2>1, <2>2, <2>3 DEF Next, AdminStep
<1>3. QED
  BY <1>1, <1>2, Foundations, PTL DEF Spec, CreditsEachTransferOnce, I!ISpec

(***************************************************************************)
(* The timelocks of the keys                                               *)
(***************************************************************************)

\* What Timelock allows of one role, for its two instances at once.
LockStep(role) ==
  \/ /\ keys'[role] = keys[role] /\ Announced(role)' = Announced(role)
     /\ height' = height \/ height' > height
  \/ Announced(role)' = {} /\ keys'[role] = keys[role] /\ height' = height
  \/ \E p \in Announced(role) :
       /\ height - p.since >= adminTransferDelayBlocks
       /\ keys'[role] = p.value /\ Announced(role)' = {} /\ height' = height
  \/ \E k : /\ Announced(role)' = {[value |-> k, since |-> height]}
            /\ keys'[role] = keys[role] /\ height' = height

\* The one announcement of a role, or none, now and after the step.
LEMMA AnnouncedFacts ==
  ASSUME NEW role
  PROVE  /\ role \notin DOMAIN pending_transfer => Announced(role) = {}
         /\ role \in DOMAIN pending_transfer =>
              Announced(role) = {[value |-> pending_transfer[role].to,
                                  since |-> pending_transfer[role].height]}
BY DEF Announced

LEMMA AnnouncedNext ==
  ASSUME NEW role
  PROVE  /\ role \notin DOMAIN pending_transfer' => Announced(role)' = {}
         /\ role \in DOMAIN pending_transfer' =>
              Announced(role)' = {[value |-> pending_transfer'[role].to,
                                   since |-> pending_transfer'[role].height]}
BY DEF Announced

\* A step that leaves the proposal of a role leaves its announcement.
LEMMA SameAnnouncement ==
  ASSUME NEW role, role \in DOMAIN pending_transfer' <=> role \in DOMAIN pending_transfer,
         role \in DOMAIN pending_transfer => pending_transfer'[role] = pending_transfer[role]
  PROVE  Announced(role)' = Announced(role)
BY AnnouncedFacts, AnnouncedNext

\* Every step of the contract is one that the timelock of the role allows.
LEMMA StepIsLocked ==
  ASSUME TypeOK, [Next]_vars, NEW role \in Roles
  PROVE  LockStep(role)
<1>0. keys \in [Roles -> Keys] /\ height \in Nat
  BY DEF TypeOK, AdminType
<1>1. CASE UNCHANGED <<keys, pending_transfer>> /\ (height' = height \/ height' > height)
  BY <1>1, SameAnnouncement DEF LockStep
<1>2. ASSUME NEW c \in Keys, NEW other \in Roles, NEW k \in Keys, proposeTransfer(c, other, k)
      PROVE  LockStep(role)
  <2> DEFINE e == [to |-> k, height |-> height]
  <2>1. /\ pending_transfer' = Put(pending_transfer, other, e)
        /\ e.to = k /\ e.height = height /\ UNCHANGED <<keys, height>>
    BY <1>2 DEF proposeTransfer
  <2> HIDE DEF e
  <2>2. CASE other = role
    <3>1. Announced(role)' = {[value |-> k, since |-> height]}
      BY <2>1, <2>2, AnnouncedNext DEF Put
    <3>2. QED
      BY <2>1, <3>1 DEF LockStep
  <2>3. CASE other # role
    <3>1. (role \in DOMAIN pending_transfer' <=> role \in DOMAIN pending_transfer)
          /\ (role \in DOMAIN pending_transfer => pending_transfer'[role] = pending_transfer[role])
      BY <2>1, <2>3 DEF Put
    <3>2. Announced(role)' = Announced(role)
      BY <3>1, SameAnnouncement
    <3>3. QED
      BY <2>1, <3>2 DEF LockStep
  <2>4. QED
    BY <2>2, <2>3
<1>3. ASSUME NEW other, other # role, pending_transfer' = Delete(pending_transfer, other)
      PROVE  Announced(role)' = Announced(role)
  <2>1. (role \in DOMAIN pending_transfer' <=> role \in DOMAIN pending_transfer)
        /\ (role \in DOMAIN pending_transfer => pending_transfer'[role] = pending_transfer[role])
    BY <1>3 DEF Delete, Restrict
  <2>2. QED
    BY <2>1, SameAnnouncement
<1>4. ASSUME pending_transfer' = Delete(pending_transfer, role) PROVE Announced(role)' = {}
  BY <1>4, AnnouncedNext DEF Delete, Restrict
<1>5. ASSUME NEW c \in Keys, NEW other \in Roles, cancelTransfer(c, other)
      PROVE  LockStep(role)
  <2>1. /\ pending_transfer' = Delete(pending_transfer, other)
        /\ UNCHANGED <<keys, height>>
    BY <1>5 DEF cancelTransfer
  <2>2. Announced(role)' = {} \/ Announced(role)' = Announced(role)
    BY <1>3, <1>4, <2>1
  <2>3. QED
    BY <2>1, <2>2 DEF LockStep
<1>6. ASSUME NEW other \in Roles, executeTransfer(other) PROVE LockStep(role)
  <2>1. /\ other \in DOMAIN pending_transfer
        /\ height - pending_transfer[other].height >= adminTransferDelayBlocks
        /\ keys' = [keys EXCEPT ![other] = pending_transfer[other].to]
        /\ pending_transfer' = Delete(pending_transfer, other) /\ height' = height
    BY <1>6 DEF executeTransfer
  <2>2. CASE other = role
    <3> DEFINE p == [value |-> pending_transfer[role].to, since |-> pending_transfer[role].height]
    <3>1. p \in Announced(role) /\ Announced(role)' = {}
      BY <1>4, <2>1, <2>2, AnnouncedFacts
    <3>2. height - p.since >= adminTransferDelayBlocks /\ keys'[role] = p.value
      BY <1>0, <2>1, <2>2
    <3> HIDE DEF p
    <3>3. QED
      BY <2>1, <3>1, <3>2 DEF LockStep
  <2>3. CASE other # role
    <3>1. keys'[role] = keys[role] /\ Announced(role)' = Announced(role)
      BY <1>0, <1>3, <2>1, <2>3
    <3>2. QED
      BY <2>1, <3>1 DEF LockStep
  <2>4. QED
    BY <2>2, <2>3
<1>7. CASE \/ MintNext \/ BurnNext \/ NextBlock \/ UNCHANGED vars
           \/ \E k \in Keys :
                \/ \E r \in Registrations : registerToken(k, r)
                \/ \E m \in SplMints, e \in BOOLEAN : setTokenEnabled(k, m, e)
                \/ \E v \in Validators : registerValidator(k, v) \/ removeValidator(k, v)
                \/ emergencyPause(k) \/ emergencyResume(k)
                \/ \E n \in NewLimits : updateMaxDailyMint(k, n) \/ updateMaxSingleMint(k, n)
  <2>1. UNCHANGED <<keys, pending_transfer>> /\ (height' = height \/ height' = height + 1)
    BY <1>7 DEF MintNext, mintToken, mint, AcceptMint, executePendingMint, cancelPendingMint,
       BurnNext, burn, burnToken, BurnDirectly, NextBlock, vars, role_vars, registerToken,
       setTokenEnabled, registerValidator, removeValidator, emergencyPause, emergencyResume,
       updateMaxDailyMint, updateMaxSingleMint
  <2>2. QED
    BY <1>0, <1>1, <2>1
<1>8. QED
  BY <1>2, <1>5, <1>6, <1>7 DEF Next, AdminNext

\* The contract implements the two timelocks: a key changes only to the address
\* of its latest proposal and only after the whole delay since that one.
THEOREM ImplementsTimelocks == Spec => KeysAreTimelocked
<1>1. Init => AdminLock!TInit /\ GuardianLock!TInit
  BY AnnouncedFacts DEF Init, AdminLock!TInit, GuardianLock!TInit
<1>2. TypeOK /\ [Next]_vars => [AdminLock!TNext]_(AdminLock!tvars)
  <2>1. TypeOK /\ [Next]_vars => LockStep("admin")
    BY StepIsLocked DEF Roles
  <2>2. QED
    BY <2>1 DEF LockStep, Always, AdminLock!TNext, AdminLock!tvars, AdminLock!Pass,
       AdminLock!Tighten, AdminLock!Withdraw, AdminLock!Loosen, AdminLock!Announce
<1>3. TypeOK /\ [Next]_vars => [GuardianLock!TNext]_(GuardianLock!tvars)
  <2>1. TypeOK /\ [Next]_vars => LockStep("guardian")
    BY StepIsLocked DEF Roles
  <2>2. QED
    BY <2>1 DEF LockStep, Always, GuardianLock!TNext, GuardianLock!tvars, GuardianLock!Pass,
       GuardianLock!Tighten, GuardianLock!Withdraw, GuardianLock!Loosen, GuardianLock!Announce
<1>4. QED
  BY <1>1, <1>2, <1>3, TypeCorrect, PTL
  DEF Spec, KeysAreTimelocked, AdminLock!TSpec, GuardianLock!TSpec

(***************************************************************************)
(* The books                                                               *)
(***************************************************************************)

\* Every credit is of an accepted transfer, as it was accepted, and counted.
CreditBooks ==
  /\ IsFiniteSet(processed)
  /\ \A i \in DOMAIN credits : credits[i].credit = accepted[i].credit
  /\ \A m \in DOMAIN tokens : tokens[m].total_minted = SumFunctionOnSet(Minted, CreditsOf(m))
  /\ global_nonce = Cardinality(DOMAIN credits)

\* Each was converted with the divisor its token has to this day.
Converted ==
  \A i \in processed :
    /\ accepted[i].credit.asset \in DOMAIN tokens
    /\ accepted[i].credit.amount * tokens[accepted[i].credit.asset].divisor <= accepted[i].raw

\* The nonce in a burn's id is one its user has used up.
BurnBooks ==
  /\ IsFiniteSet(DOMAIN burns)
  /\ \A b \in DOMAIN burns : b[2] < burn_nonce[b[1]] /\ burns[b].splMint \in DOMAIN tokens
  /\ \A m \in DOMAIN tokens : tokens[m].total_burned = SumFunctionOnSet(Burned, BurnsOf(m))

ValidatorBooks ==
  /\ IsFiniteSet(validator_active)
  /\ validator_count = Cardinality(validator_active)
  /\ validator_count <= maxValidators

\* The window holds whatever was accepted since it began, and nothing later.
DailyBooks ==
  /\ daily_reset_height <= height
  /\ \A i \in processed :
       accepted[i].height <= height /\ accepted[i].height < daily_reset_height + rateLimitWindow
  /\ DailyAccounting

Books == CreditBooks /\ Converted /\ BurnBooks /\ ValidatorBooks /\ DailyBooks

\* The books are empty to begin with.
LEMMA BooksInit == Init => Books
<1> SUFFICES ASSUME Init PROVE Books
  OBVIOUS
<1>1. IsFiniteSet({}) /\ Cardinality({}) = 0
  BY FS_EmptySet
<1>2. processed = {} /\ DOMAIN credits = {} /\ DOMAIN burns = {}
  BY DEF Init
<1>3. \A m : CreditsOf(m) = {} /\ BurnsOf(m) = {}
  BY <1>2 DEF CreditsOf, BurnsOf
<1>4. SumFunctionOnSet(Minted, {}) = 0 /\ SumFunctionOnSet(Burned, {}) = 0
      /\ SumFunctionOnSet(Raw, {}) = 0
  BY SumEmpty
<1>5. \A m \in DOMAIN tokens : tokens[m].total_minted = 0 /\ tokens[m].total_burned = 0
  BY DEF Init, NewToken
<1>6. CreditBooks
  BY <1>1, <1>2, <1>3, <1>4, <1>5 DEF Init, CreditBooks
<1>7. Converted /\ BurnBooks
  BY <1>1, <1>2, <1>3, <1>4, <1>5 DEF Converted, BurnBooks
<1>8. ValidatorBooks
  BY <1>1, ConstantsAssumption DEF Init, ValidatorBooks, ConstantsAssumption
<1>9. DailyBooks
  <2>1. {i \in processed : accepted[i].height >= daily_reset_height} = {}
    BY <1>2
  <2>2. DailyAccounting
    BY <1>4, <2>1 DEF Init, DailyAccounting
  <2> QED BY <1>2, <2>2 DEF Init, DailyBooks
<1> QED BY <1>6, <1>7, <1>8, <1>9 DEF Books

\* A registered token keeps its divisor.
LEMMA DivisorsKept ==
  ASSUME TypeOK, [Next]_vars
  PROVE  \A m \in DOMAIN tokens : m \in DOMAIN tokens' /\ tokens'[m].divisor = tokens[m].divisor
<1> USE DEF TypeOK, TokenType, TokenInfo
<1>1. ASSUME NEW id, NEW c, MintTo(id, c)
      PROVE  \A m \in DOMAIN tokens : m \in DOMAIN tokens' /\ tokens'[m].divisor = tokens[m].divisor
  BY <1>1 DEF MintTo
<1>2. ASSUME NEW u, NEW a, NEW n, BurnPayment(u, a, n)
      PROVE  \A m \in DOMAIN tokens : m \in DOMAIN tokens' /\ tokens'[m].divisor = tokens[m].divisor
  BY <1>2 DEF BurnPayment
<1>3. ASSUME NEW k, NEW r, registerToken(k, r)
      PROVE  \A m \in DOMAIN tokens : m \in DOMAIN tokens' /\ tokens'[m].divisor = tokens[m].divisor
  BY <1>3 DEF registerToken, Put
<1>4. ASSUME NEW k, NEW t, NEW e, setTokenEnabled(k, t, e)
      PROVE  \A m \in DOMAIN tokens : m \in DOMAIN tokens' /\ tokens'[m].divisor = tokens[m].divisor
  BY <1>4 DEF setTokenEnabled
<1>5. CASE UNCHANGED tokens
  BY <1>5
<1> QED BY <1>1, <1>2, <1>3, <1>4, <1>5
   DEF Next, MintNext, BurnNext, AdminNext, vars, mintToken, mint, executePendingMint,
       cancelPendingMint, burn, burnToken, BurnDirectly, registerValidator, removeValidator,
       emergencyPause, emergencyResume, updateMaxDailyMint, updateMaxSingleMint,
       proposeTransfer, cancelTransfer, executeTransfer, NextBlock

\* What a mint call does to the transfers: it accepts one or none, and it credits
\* one that is accepted or none.
AcceptsOne(r, att, d) == r.splMint \in DOMAIN tokens /\ AcceptMint(r, att, d)
AcceptsNone == UNCHANGED <<processed, accepted, window_vars>>

CreditsOne(id) ==
  /\ id \in processed' /\ id \notin DOMAIN credits
  /\ MintTo(id, accepted'[id].credit)
CreditsNone == UNCHANGED <<tokens, credits, global_nonce>>

LEMMA MintSteps ==
  ASSUME TypeOK, PendingMatchesAccepted, MintNext
  PROVE  /\ AcceptsNone \/ \E r \in MintRequest, att \in AttestationLists, d \in BOOLEAN :
                             AcceptsOne(r, att, d)
         /\ CreditsNone \/ \E id \in TransferIds : CreditsOne(id)
         /\ UNCHANGED <<validator_vars, burn_nonce, burns, height>>
         /\ \A m \in DOMAIN tokens : tokens'[m].total_burned = tokens[m].total_burned
<1> USE ConstantsAssumption
<1>0. DOMAIN tokens \subseteq DOMAIN tokens' /\ DOMAIN credits \subseteq processed
  BY TokensGrow DEF Next, TypeOK, MintType
<1>1. ASSUME NEW r \in MintRequests, NEW att \in AttestationLists, mintToken(r, att)
      PROVE  /\ \E d \in BOOLEAN : AcceptsOne(r, att, d)
             /\ CreditsNone \/ CreditsOne(r.transferId)
  <2> DEFINE d == r.amount >= largeTxThreshold
  <2>1. r \in MintRequest /\ d \in BOOLEAN /\ AcceptsOne(r, att, d)
    BY <1>1 DEF mintToken, MintRequest, AcceptsOne
  <2>2. /\ r.transferId \notin processed /\ r.transferId \in processed'
        /\ accepted'[r.transferId].credit = CreditOf(r)
    BY <1>0, <2>1, AcceptFacts DEF AcceptsOne
  <2>3. CreditsNone \/ CreditsOne(r.transferId)
    BY <1>0, <1>1, <2>2 DEF mintToken, CreditsNone, CreditsOne
  <2> QED BY <2>1, <2>3
<1>2. ASSUME NEW r \in LegacyRequests, NEW att \in AttestationLists, mint(r, att)
      PROVE  AcceptsOne(r, att, FALSE) /\ CreditsOne(r.transferId)
  <2>1. r \in MintRequest /\ FALSE \in BOOLEAN /\ AcceptsOne(r, att, FALSE)
    BY <1>2 DEF mint, AcceptsOne, TypeOK, TokenType
  <2>2. /\ r.transferId \notin processed /\ r.transferId \in processed'
        /\ accepted'[r.transferId].credit = CreditOf(r)
    BY <1>0, <2>1, AcceptFacts DEF AcceptsOne
  <2> QED BY <1>0, <1>2, <2>1, <2>2 DEF mint, CreditsOne
<1>3. ASSUME NEW id \in TransferIds, executePendingMint(id)
      PROVE  AcceptsNone /\ CreditsOne(id)
  BY <1>3 DEF executePendingMint, AcceptsNone, CreditsOne, PendingMatchesAccepted
<1>4. ASSUME NEW id \in TransferIds, NEW k \in Keys, cancelPendingMint(k, id)
      PROVE  AcceptsNone /\ CreditsNone
  BY <1>4 DEF cancelPendingMint, AcceptsNone, CreditsNone
<1>5. ASSUME NEW r \in MintRequest
      PROVE  r.transferId \in TransferIds
  BY <1>5 DEF MintRequest
<1>6. UNCHANGED <<validator_vars, burn_nonce, burns, height>>
  BY DEF MintNext, mintToken, mint, executePendingMint, cancelPendingMint, burn_vars
<1>7. \A m \in DOMAIN tokens : tokens'[m].total_burned = tokens[m].total_burned
  <2>1. ASSUME NEW id, NEW c, MintTo(id, c)
        PROVE  \A m \in DOMAIN tokens : tokens'[m].total_burned = tokens[m].total_burned
    BY <2>1 DEF MintTo, TypeOK, TokenType, TokenInfo
  <2> QED BY <2>1 DEF MintNext, mintToken, mint, executePendingMint, cancelPendingMint
<1>8. AcceptsNone \/ \E r \in MintRequest, att \in AttestationLists, d \in BOOLEAN :
                       AcceptsOne(r, att, d)
  BY <1>1, <1>2, <1>3, <1>4 DEF MintNext
<1>9. CreditsNone \/ \E id \in TransferIds : CreditsOne(id)
  BY <1>1, <1>2, <1>3, <1>4, <1>5 DEF MintNext
<1> QED BY <1>6, <1>7, <1>8, <1>9

\* Steps outside MintNext leave the transfers and their window alone.
LEMMA OtherSteps ==
  ASSUME [Next]_vars, ~ MintNext
  PROVE  UNCHANGED <<mint_vars, window_vars>>
BY DEF Next, BurnNext, AdminNext, vars, burn, burnToken, BurnDirectly, registerToken,
   setTokenEnabled, registerValidator, removeValidator, emergencyPause, emergencyResume,
   updateMaxDailyMint, updateMaxSingleMint, proposeTransfer, cancelTransfer, executeTransfer,
   NextBlock

\* The remainder of the conversion is dropped, and the divisor is kept.
LEMMA ConvertedNext ==
  ASSUME TypeOK, PendingMatchesAccepted, Converted, [Next]_vars
  PROVE  Converted'
<1>1. \A m \in DOMAIN tokens : m \in DOMAIN tokens' /\ tokens'[m].divisor = tokens[m].divisor
  BY DivisorsKept
<1>2. CASE UNCHANGED <<processed, accepted>>
  BY <1>1, <1>2 DEF Converted
<1>3. ASSUME NEW r \in MintRequest, NEW att \in AttestationLists, NEW d \in BOOLEAN,
             AcceptsOne(r, att, d)
      PROVE  Converted'
  <2> DEFINE id == r.transferId
             m == r.splMint
             n == r.amount \div tokens[m].divisor
  <2>1. DOMAIN tokens \subseteq DOMAIN tokens'
    BY TokensGrow
  <2>2. /\ processed' = processed \cup {id}
        /\ accepted'[id].credit = CreditOf(r) /\ accepted'[id].raw = r.amount
        /\ \A i \in processed : accepted'[i] = accepted[i]
    BY <1>3, <2>1, AcceptFacts DEF AcceptsOne
  <2>3. m \in DOMAIN tokens /\ tokens[m].divisor \in Nat \ {0} /\ r.amount \in Nat
    BY <1>3 DEF AcceptsOne, TypeOK, TokenType, TokenInfo, MintRequest
  <2>4. n * tokens[m].divisor <= r.amount
    BY <2>3
  <2>5. accepted'[id].credit.asset = m /\ accepted'[id].credit.amount = n
    BY <2>2 DEF CreditOf
  <2>6. /\ accepted'[id].credit.asset \in DOMAIN tokens'
        /\ accepted'[id].credit.amount * tokens'[accepted'[id].credit.asset].divisor
             <= accepted'[id].raw
    BY <1>1, <2>2, <2>3, <2>4, <2>5
  <2> HIDE DEF id
  <2> QED BY <1>1, <2>2, <2>6 DEF Converted
<1>4. CASE ~ MintNext
  BY <1>2, <1>4, OtherSteps DEF mint_vars
<1> QED BY <1>2, <1>3, <1>4, MintSteps DEF AcceptsNone

\* An accepted amount is counted in the window, which begins anew when it is over.
LEMMA DailyAccepts ==
  ASSUME TypeOK, IsFiniteSet(processed), DailyBooks, DOMAIN tokens \subseteq DOMAIN tokens',
         NEW r \in MintRequest, NEW att \in AttestationLists, NEW d \in BOOLEAN,
         AcceptsOne(r, att, d), height' = height
  PROVE  DailyBooks'
<1> DEFINE id == r.transferId
           S == {i \in processed : accepted[i].height >= daily_reset_height}
           T == {i \in processed : accepted[i].height >= daily_reset_height'}
           T2 == {i \in processed' : accepted'[i].height >= daily_reset_height'}
           R2 == Raw'
<1>1. /\ id \notin processed /\ processed' = processed \cup {id}
      /\ accepted'[id].raw = r.amount /\ accepted'[id].height = height
      /\ \A i \in processed : accepted'[i] = accepted[i]
  BY AcceptFacts DEF AcceptsOne
<1>2. /\ r.amount \in Nat /\ height \in Nat /\ daily_reset_height \in Nat
      /\ rateLimitWindow \in Nat /\ rateLimitWindow > 0
      /\ \A i \in processed : accepted[i].raw \in Nat /\ accepted[i].height \in Nat
  BY ConstantsAssumption
  DEF ConstantsAssumption, MintRequest, TypeOK, AdminType, MintType, Accepted
<1>3. /\ daily_minted' = (IF WindowOver THEN 0 ELSE daily_minted) + r.amount
      /\ daily_reset_height' = IF WindowOver THEN height ELSE daily_reset_height
  BY DEF AcceptsOne, AcceptMint, checkDailyLimit
<1>4. /\ daily_reset_height <= height
      /\ \A i \in processed : accepted[i].height <= height
                              /\ accepted[i].height < daily_reset_height + rateLimitWindow
      /\ daily_minted = SumFunctionOnSet(Raw, S)
  BY DEF DailyBooks, DailyAccounting
<1>5. /\ daily_reset_height' <= height /\ height < daily_reset_height' + rateLimitWindow
      /\ daily_reset_height <= daily_reset_height' /\ daily_reset_height' \in Nat
  BY <1>2, <1>3, <1>4 DEF WindowOver
<1>6. (IF WindowOver THEN 0 ELSE daily_minted) = SumFunctionOnSet(Raw, T)
  <2>1. CASE WindowOver
    <3>1. T = {}
      BY <1>2, <1>3, <1>4, <2>1 DEF WindowOver
    <3> QED BY <2>1, <3>1, SumEmpty
  <2>2. CASE ~ WindowOver
    <3>1. T = S
      BY <1>3, <2>2
    <3> QED BY <1>4, <2>2, <3>1
  <2> QED BY <2>1, <2>2
<1>7. T2 = T \cup {id} /\ id \notin T /\ T \subseteq processed
  BY <1>1, <1>2, <1>5
<1>8. SumFunctionOnSet(R2, T \cup {id}) = SumFunctionOnSet(Raw, T) + r.amount
  <2>1. /\ R2[id] = r.amount
        /\ \A i \in T : R2[i] = Raw[i] /\ Raw[i] \in Nat
    BY <1>1, <1>2, <1>7 DEF Raw
  <2>2. IsFiniteSet(T)
    BY <1>7, FS_Subset
  <2> HIDE DEF R2, T, id
  <2> QED BY <1>2, <1>7, <2>1, <2>2, SumExtended
<1>9. DailyAccounting'
  <2>1. daily_minted' = SumFunctionOnSet(R2, T2)
    BY <1>3, <1>6, <1>7, <1>8
  <2> QED BY <2>1 DEF DailyAccounting
<1>10. ASSUME NEW i \in processed'
       PROVE  /\ accepted'[i].height <= height
              /\ accepted'[i].height < daily_reset_height' + rateLimitWindow
  <2>1. CASE i = id
    <3>1. accepted'[i].height = height
      BY <1>1, <2>1
    <3>2. height <= height
      BY <1>2
    <3>3. height < daily_reset_height' + rateLimitWindow
      BY <1>5
    <3> QED BY <3>1, <3>2, <3>3, Zenon
  <2>2. CASE i \in processed
    <3>1. /\ accepted'[i] = accepted[i] /\ accepted[i].height \in Nat
          /\ accepted[i].height <= height
          /\ accepted[i].height < daily_reset_height + rateLimitWindow
      BY <1>1, <1>2, <1>4, <2>2
    <3> QED BY <1>2, <1>5, <3>1
  <2> QED BY <1>1, <2>1, <2>2
<1> QED BY <1>5, <1>9, <1>10 DEF DailyBooks

\* Every step keeps the window's books.
LEMMA DailyNext ==
  ASSUME TypeOK, PendingMatchesAccepted, IsFiniteSet(processed), DailyBooks, [Next]_vars
  PROVE  DailyBooks'
<1>1. CASE UNCHANGED <<processed, accepted, window_vars>> /\ (height' = height \/ height' = height + 1)
  BY <1>1 DEF DailyBooks, DailyAccounting, Raw, window_vars, TypeOK, AdminType, MintType, Accepted
<1>2. CASE MintNext
  <2>1. DOMAIN tokens \subseteq DOMAIN tokens'
    BY TokensGrow
  <2>2. height' = height
    BY <1>2, MintSteps
  <2>3. AcceptsNone \/ \E r \in MintRequest, att \in AttestationLists, d \in BOOLEAN :
                         AcceptsOne(r, att, d)
    BY <1>2, MintSteps
  <2> QED BY <1>1, <2>1, <2>2, <2>3, DailyAccepts DEF AcceptsNone
<1>3. CASE ~ MintNext
  <2>1. height' = height \/ height' = height + 1
    BY <1>3 DEF Next, BurnNext, AdminNext, vars, burn, burnToken, BurnDirectly, registerToken,
       setTokenEnabled, registerValidator, removeValidator, emergencyPause, emergencyResume,
       updateMaxDailyMint, updateMaxSingleMint, proposeTransfer, cancelTransfer,
       executeTransfer, NextBlock
  <2> QED BY <1>1, <1>3, <2>1, OtherSteps DEF mint_vars
<1> QED BY <1>2, <1>3

\* A credit adds its amount to the total of its asset.
LEMMA BooksCredit ==
  ASSUME TypeOK, CreditBooks, Converted, NEW id \in TransferIds, CreditsOne(id),
         IsFiniteSet(processed'), \A i \in processed : accepted'[i] = accepted[i],
         processed \subseteq processed',
         accepted'[id].credit \in Credit
  PROVE  CreditBooks'
<1> DEFINE c == accepted'[id].credit
<1>1. /\ id \in processed' /\ id \notin DOMAIN credits /\ c.amount \in Nat
      /\ DOMAIN credits' = DOMAIN credits \cup {id} /\ credits'[id].credit = c
      /\ \A i \in DOMAIN credits : credits'[i] = credits[i]
      /\ tokens' = [tokens EXCEPT ![c.asset].total_minted = @ + c.amount]
      /\ global_nonce' = global_nonce + 1
  BY CreditFacts DEF CreditsOne, MintTo, Credit
<1> HIDE DEF c
<1>2. /\ DOMAIN credits \subseteq processed /\ IsFiniteSet(DOMAIN credits)
      /\ \A i \in DOMAIN credits : credits[i].credit.amount \in Nat
      /\ tokens \in [DOMAIN tokens -> TokenInfo]
  BY FS_Subset DEF TypeOK, MintType, TokenType, CreditBooks, Credited, Credit
<1>3. \A i \in DOMAIN credits' : credits'[i].credit = accepted'[i].credit
  BY <1>1, <1>2 DEF CreditBooks, c
<1>4. global_nonce' = Cardinality(DOMAIN credits')
  BY <1>1, <1>2, FS_AddElement DEF CreditBooks
<1>5. ASSUME NEW m \in DOMAIN tokens'
      PROVE  tokens'[m].total_minted = SumFunctionOnSet(Minted', CreditsOf(m)')
  <2> DEFINE S == CreditsOf(m)
             S2 == CreditsOf(m)'
             M2 == Minted'
  <2>1. /\ m \in DOMAIN tokens /\ tokens[m].total_minted \in Nat
        /\ tokens'[m].total_minted = tokens[m].total_minted + (IF m = c.asset THEN c.amount ELSE 0)
    BY <1>1, <1>2 DEF TokenInfo
  <2>2. /\ S \subseteq DOMAIN credits /\ id \notin S
        /\ S2 = IF c.asset = m THEN S \cup {id} ELSE S
        /\ M2[id] = c.amount
        /\ \A i \in S : M2[i] = Minted[i] /\ Minted[i] \in Nat
    BY <1>1, <1>2 DEF CreditsOf, Minted
  <2>3. IsFiniteSet(S) /\ tokens[m].total_minted = SumFunctionOnSet(Minted, S)
    BY <1>2, <2>1, <2>2, FS_Subset DEF CreditBooks
  <2> HIDE DEF S, S2, M2
  <2>4. CASE c.asset = m
    <3>1. SumFunctionOnSet(M2, S \cup {id}) = SumFunctionOnSet(Minted, S) + c.amount
      BY <1>1, <2>2, <2>3, SumExtended
    <3>2. SumFunctionOnSet(M2, S2) = tokens'[m].total_minted
      BY <2>1, <2>2, <2>3, <2>4, <3>1
    <3> QED BY <3>2 DEF M2, S2
  <2>5. CASE c.asset # m
    <3>1. SumFunctionOnSet(M2, S) = SumFunctionOnSet(Minted, S)
      BY <2>2, <2>3, SumSame
    <3>2. SumFunctionOnSet(M2, S2) = tokens'[m].total_minted
      BY <2>1, <2>2, <2>3, <2>5, <3>1
    <3> QED BY <3>2 DEF M2, S2
  <2> QED BY <2>4, <2>5
<1> QED BY <1>3, <1>4, <1>5 DEF CreditBooks

\* Every step keeps the books of the credits: a token that is registered has none.
LEMMA CreditBooksNext ==
  ASSUME TypeOK, TypeOK', PendingMatchesAccepted, CreditBooks, Converted, [Next]_vars
  PROVE  CreditBooks'
<1>1. CASE MintNext
  <2>1. DOMAIN tokens \subseteq DOMAIN tokens'
    BY TokensGrow
  <2>2. /\ IsFiniteSet(processed') /\ processed \subseteq processed'
        /\ \A i \in processed : accepted'[i] = accepted[i]
    <3>1. ASSUME NEW r \in MintRequest, NEW att \in AttestationLists, NEW d \in BOOLEAN,
                 AcceptsOne(r, att, d)
          PROVE  /\ processed' = processed \cup {r.transferId}
                 /\ \A i \in processed : accepted'[i] = accepted[i]
      BY <2>1, <3>1, AcceptFacts DEF AcceptsOne
    <3> QED BY <1>1, <3>1, MintSteps, FS_AddElement DEF AcceptsNone, CreditBooks
  <2>3. \A i \in processed' : accepted'[i].credit \in Credit
    BY DEF TypeOK, MintType, Accepted
  <2>4. ASSUME NEW id \in TransferIds, CreditsOne(id) PROVE CreditBooks'
    BY <2>2, <2>3, <2>4, BooksCredit DEF CreditsOne
  <2>5. CASE CreditsNone
    <3>1. UNCHANGED <<Minted, tokens, credits, global_nonce>> /\ \A m : CreditsOf(m)' = CreditsOf(m)
      BY <2>5 DEF CreditsNone, Minted, CreditsOf
    <3>2. \A i \in DOMAIN credits : i \in processed
      BY DEF TypeOK, MintType
    <3> QED BY <2>2, <3>1, <3>2 DEF CreditBooks
  <2> QED BY <1>1, <2>4, <2>5, MintSteps
<1>2. CASE ~ MintNext
  <2>1. /\ UNCHANGED <<processed, accepted, credits, global_nonce, Minted>>
        /\ \A m : CreditsOf(m)' = CreditsOf(m)
    BY <1>2, OtherSteps DEF mint_vars, Minted, CreditsOf
  <2>2. ASSUME NEW m \in DOMAIN tokens', \/ m \notin DOMAIN tokens /\ tokens'[m].total_minted = 0
                                         \/ /\ m \in DOMAIN tokens
                                            /\ tokens'[m].total_minted = tokens[m].total_minted
        PROVE  tokens'[m].total_minted = SumFunctionOnSet(Minted', CreditsOf(m)')
    <3>1. CASE m \in DOMAIN tokens
      BY <2>1, <2>2, <3>1 DEF CreditBooks
    <3>2. CASE m \notin DOMAIN tokens
      <4>1. CreditsOf(m) = {}
        BY <3>2 DEF CreditsOf, CreditBooks, Converted, TypeOK, MintType
      <4>2. SumFunctionOnSet(Minted, {}) = 0
        BY SumEmpty
      <4> QED BY <2>1, <2>2, <3>2, <4>1, <4>2
    <3> QED BY <3>1, <3>2
  <2>3. ASSUME NEW m \in DOMAIN tokens'
        PROVE  \/ m \notin DOMAIN tokens /\ tokens'[m].total_minted = 0
               \/ m \in DOMAIN tokens /\ tokens'[m].total_minted = tokens[m].total_minted
    <3>1. ASSUME NEW u, NEW a, NEW n, BurnPayment(u, a, n)
          PROVE  m \in DOMAIN tokens /\ tokens'[m].total_minted = tokens[m].total_minted
      BY <3>1 DEF BurnPayment, TypeOK, TokenType, TokenInfo
    <3>2. ASSUME NEW k, NEW r, registerToken(k, r)
          PROVE  \/ m \notin DOMAIN tokens /\ tokens'[m].total_minted = 0
                 \/ m \in DOMAIN tokens /\ tokens'[m].total_minted = tokens[m].total_minted
      BY <3>2 DEF registerToken, Put, NewToken
    <3>3. ASSUME NEW k, NEW t, NEW e, setTokenEnabled(k, t, e)
          PROVE  m \in DOMAIN tokens /\ tokens'[m].total_minted = tokens[m].total_minted
      BY <3>3 DEF setTokenEnabled, TypeOK, TokenType, TokenInfo
    <3>4. CASE UNCHANGED tokens
      BY <3>4
    <3> QED BY <1>2, <3>1, <3>2, <3>3, <3>4
       DEF Next, BurnNext, AdminNext, vars, burn, burnToken, BurnDirectly, registerValidator,
           removeValidator, emergencyPause, emergencyResume, updateMaxDailyMint,
           updateMaxSingleMint, proposeTransfer, cancelTransfer, executeTransfer, NextBlock
  <2>4. \A m \in DOMAIN tokens' : tokens'[m].total_minted = SumFunctionOnSet(Minted', CreditsOf(m)')
    BY <2>2, <2>3
  <2> QED BY <2>1, <2>4 DEF CreditBooks
<1> QED BY <1>1, <1>2

\* A burn writes a record under an id that no record has.
LEMMA BooksBurn ==
  ASSUME TypeOK, BurnBooks, NEW u \in Users, NEW a \in DOMAIN tokens, NEW n \in Nat,
         BurnPayment(u, a, n)
  PROVE  BurnBooks'
<1> DEFINE id == <<u, burn_nonce[u], height, n>>
           b == [splMint |-> a, amount |-> n, height |-> height]
<1>1. b.splMint = a /\ b.amount = n /\ id[1] = u /\ id[2] = burn_nonce[u]
  OBVIOUS
<1>2. /\ burns' = Put(burns, id, b)
      /\ burn_nonce' = [burn_nonce EXCEPT ![u] = @ + 1]
      /\ tokens' = [tokens EXCEPT ![a].total_burned = @ + n]
  BY DEF BurnPayment
<1>3. /\ burn_nonce \in [Users -> Nat] /\ tokens \in [DOMAIN tokens -> TokenInfo]
      /\ \A i \in DOMAIN burns : i[1] \in Users /\ i[2] \in Nat /\ burns[i].amount \in Nat
  BY DEF TypeOK, BurnType, TokenType, BurnRecord, BurnIds
<1>4. id \notin DOMAIN burns
  BY <1>1, <1>3 DEF BurnBooks
<1> HIDE DEF id, b
<1>5. /\ DOMAIN burns' = DOMAIN burns \cup {id} /\ burns'[id] = b
      /\ \A i \in DOMAIN burns : burns'[i] = burns[i]
  BY <1>2, <1>4 DEF Put
<1>6. DOMAIN tokens' = DOMAIN tokens /\ IsFiniteSet(DOMAIN burns')
  BY <1>2, <1>5, FS_AddElement DEF BurnBooks
<1>7. ASSUME NEW i \in DOMAIN burns'
      PROVE  i[2] < burn_nonce'[i[1]] /\ burns'[i].splMint \in DOMAIN tokens'
  BY <1>1, <1>2, <1>3, <1>5, <1>6 DEF BurnBooks
<1>8. ASSUME NEW m \in DOMAIN tokens'
      PROVE  tokens'[m].total_burned = SumFunctionOnSet(Burned', BurnsOf(m)')
  <2> DEFINE S == BurnsOf(m)
             S2 == BurnsOf(m)'
             B2 == Burned'
  <2>1. /\ m \in DOMAIN tokens /\ tokens[m].total_burned \in Nat
        /\ tokens'[m].total_burned = tokens[m].total_burned + (IF m = a THEN n ELSE 0)
    BY <1>2, <1>3, <1>6 DEF TokenInfo
  <2>2. /\ S \subseteq DOMAIN burns /\ id \notin S
        /\ S2 = IF a = m THEN S \cup {id} ELSE S
        /\ B2[id] = n
        /\ \A i \in S : B2[i] = Burned[i] /\ Burned[i] \in Nat
    BY <1>1, <1>3, <1>4, <1>5 DEF BurnsOf, Burned
  <2>3. IsFiniteSet(S) /\ tokens[m].total_burned = SumFunctionOnSet(Burned, S)
    BY <2>1, <2>2, FS_Subset DEF BurnBooks
  <2> HIDE DEF S, S2, B2
  <2>4. CASE a = m
    <3>1. SumFunctionOnSet(B2, S \cup {id}) = SumFunctionOnSet(Burned, S) + n
      BY <2>2, <2>3, SumExtended
    <3>2. SumFunctionOnSet(B2, S2) = tokens'[m].total_burned
      BY <2>1, <2>2, <2>3, <2>4, <3>1
    <3> QED BY <3>2 DEF B2, S2
  <2>5. CASE a # m
    <3>1. SumFunctionOnSet(B2, S) = SumFunctionOnSet(Burned, S)
      BY <2>2, <2>3, SumSame
    <3>2. SumFunctionOnSet(B2, S2) = tokens'[m].total_burned
      BY <2>1, <2>2, <2>3, <2>5, <3>1
    <3> QED BY <3>2 DEF B2, S2
  <2> QED BY <2>4, <2>5
<1> QED BY <1>6, <1>7, <1>8 DEF BurnBooks

\* Every step keeps the books of the burns.
LEMMA BurnBooksNext ==
  ASSUME TypeOK, PendingMatchesAccepted, BurnBooks, [Next]_vars
  PROVE  BurnBooks'
<1> USE ConstantsAssumption
<1>1. ASSUME NEW u \in Users, NEW n \in BurnAmounts,
             burn(u, n) \/ \E m \in SplMints : burnToken(u, m, n)
      PROVE  BurnBooks'
  BY <1>1, BooksBurn DEF burn, burnToken, TypeOK, TokenType
<1>2. ASSUME UNCHANGED <<burn_nonce, burns>>,
             \A m \in DOMAIN tokens :
               m \in DOMAIN tokens' /\ tokens'[m].total_burned = tokens[m].total_burned,
             \A m \in DOMAIN tokens' : m \notin DOMAIN tokens => tokens'[m].total_burned = 0
      PROVE  BurnBooks'
  <2>1. UNCHANGED Burned /\ \A m : BurnsOf(m)' = BurnsOf(m)
    BY <1>2 DEF Burned, BurnsOf
  <2>2. ASSUME NEW m \in DOMAIN tokens'
        PROVE  tokens'[m].total_burned = SumFunctionOnSet(Burned', BurnsOf(m)')
    <3>1. CASE m \in DOMAIN tokens
      BY <1>2, <2>1, <3>1 DEF BurnBooks
    <3>2. CASE m \notin DOMAIN tokens
      <4>1. BurnsOf(m) = {}
        BY <3>2 DEF BurnsOf, BurnBooks
      <4>2. SumFunctionOnSet(Burned, {}) = 0
        BY SumEmpty
      <4> QED BY <1>2, <2>1, <3>2, <4>1, <4>2
    <3> QED BY <3>1, <3>2
  <2> QED BY <1>2, <2>1, <2>2 DEF BurnBooks
<1>3. CASE MintNext
  <2>1. DOMAIN tokens' = DOMAIN tokens
    <3>1. ASSUME NEW id, NEW c, MintTo(id, c) PROVE DOMAIN tokens' = DOMAIN tokens
      BY <3>1 DEF MintTo
    <3> QED BY <1>3, <3>1 DEF MintNext, mintToken, mint, executePendingMint, cancelPendingMint
  <2> QED BY <1>2, <1>3, <2>1, MintSteps
<1>4. ASSUME NEW k, NEW r, registerToken(k, r) PROVE BurnBooks'
  <2>1. /\ UNCHANGED <<burn_nonce, burns>>
        /\ \A m \in DOMAIN tokens :
             m \in DOMAIN tokens' /\ tokens'[m].total_burned = tokens[m].total_burned
        /\ \A m \in DOMAIN tokens' : m \notin DOMAIN tokens => tokens'[m].total_burned = 0
    BY <1>4 DEF registerToken, Put, NewToken, burn_vars
  <2> QED BY <1>2, <2>1
<1>5. ASSUME NEW k, NEW t, NEW e, setTokenEnabled(k, t, e) PROVE BurnBooks'
  <2>1. /\ UNCHANGED <<burn_nonce, burns>> /\ DOMAIN tokens' = DOMAIN tokens
        /\ \A m \in DOMAIN tokens : tokens'[m].total_burned = tokens[m].total_burned
    BY <1>5 DEF setTokenEnabled, TypeOK, TokenType, TokenInfo, burn_vars
  <2> QED BY <1>2, <2>1
<1>6. CASE UNCHANGED <<burn_nonce, burns, tokens>>
  BY <1>2, <1>6
<1> QED BY <1>1, <1>3, <1>4, <1>5, <1>6
   DEF Next, BurnNext, AdminNext, vars, burn_vars, BurnDirectly, registerValidator,
       removeValidator, emergencyPause, emergencyResume, updateMaxDailyMint,
       updateMaxSingleMint, proposeTransfer, cancelTransfer, executeTransfer, NextBlock

\* validator_count follows the entries and stays within its maximum.
LEMMA ValidatorBooksNext ==
  ASSUME TypeOK, ValidatorBooks, [Next]_vars
  PROVE  ValidatorBooks'
<1>1. /\ maxValidators \in Nat /\ validator_count \in Int
      /\ validator_count <= maxValidators
  BY ConstantsAssumption DEF ConstantsAssumption, TypeOK, AdminType, ValidatorBooks
<1>2. ASSUME NEW k, NEW v, registerValidator(k, v) PROVE ValidatorBooks'
  BY <1>1, <1>2, FS_AddElement DEF registerValidator, ValidatorBooks
<1>3. ASSUME NEW k, NEW v, removeValidator(k, v) PROVE ValidatorBooks'
  BY <1>1, <1>3, FS_RemoveElement DEF removeValidator, ValidatorBooks
<1>4. CASE UNCHANGED validator_vars
  BY <1>4 DEF ValidatorBooks, validator_vars
<1> QED BY <1>2, <1>3, <1>4
   DEF Next, MintNext, BurnNext, AdminNext, vars, mintToken, mint, executePendingMint,
       cancelPendingMint, burn, burnToken, BurnDirectly, registerToken, setTokenEnabled,
       emergencyPause, emergencyResume, updateMaxDailyMint, updateMaxSingleMint,
       proposeTransfer, cancelTransfer, executeTransfer, NextBlock

\* The books rest on the types and on the pending mints.
LEMMA BooksHold == Spec => []Books
<1>1. TypeOK /\ TypeOK' /\ PendingMatchesAccepted /\ Books /\ [Next]_vars => Books'
  BY CreditBooksNext, ConvertedNext, BurnBooksNext, ValidatorBooksNext, DailyNext
  DEF Books, CreditBooks
<1> QED BY <1>1, BooksInit, Foundations, PTL DEF Spec

(* The counters of the registry agree with the transfers and the burn records *)
(* one by one, no burn record is overwritten, validator_count is right, and  *)
(* in Solana units no more of a token was ever minted than was accepted for  *)
(* it, whichever entry point or delay was used.                              *)
THEOREM CountersAgree == Spec => []CountersMatchRecords
<1>1. ASSUME TypeOK, Books PROVE CountersMatchRecords
  <2> SUFFICES ASSUME NEW m \in DOMAIN tokens
               PROVE  tokens[m].total_minted * tokens[m].divisor
                        <= SumFunctionOnSet(Raw, AcceptedFor(m))
    BY <1>1 DEF Books, CreditBooks, BurnBooks, ValidatorBooks, CountersMatchRecords
  <2> DEFINE C == CreditsOf(m)
             A == AcceptedFor(m)
             d == tokens[m].divisor
  <2>1. /\ DOMAIN credits \subseteq processed /\ IsFiniteSet(processed) /\ d \in Nat
        /\ tokens[m].total_minted = SumFunctionOnSet(Minted, C)
    BY <1>1 DEF Books, CreditBooks, TypeOK, MintType, TokenType, TokenInfo
  <2>2. C \subseteq A /\ A \subseteq processed
    BY <1>1, <2>1 DEF Books, CreditBooks, CreditsOf, AcceptedFor
  <2>3. IsFiniteSet(A) /\ IsFiniteSet(C)
    BY <2>1, <2>2, FS_Subset
  <2>4. \A i \in A : Raw[i] \in Nat
    BY <1>1, <2>2 DEF Raw, TypeOK, MintType, Accepted
  <2>5. ASSUME NEW i \in C PROVE Minted[i] \in Nat /\ Minted[i] * d <= Raw[i]
    <3>1. /\ i \in DOMAIN credits /\ i \in processed /\ credits[i].credit.asset = m
          /\ credits[i].credit = accepted[i].credit
          /\ credits[i].credit.amount \in Nat
      BY <1>1, <2>1 DEF CreditsOf, Books, CreditBooks, TypeOK, MintType, Credited, Credit
    <3>2. accepted[i].credit.amount * d <= accepted[i].raw
      BY <1>1, <3>1 DEF Books, Converted
    <3> QED BY <3>1, <3>2 DEF Minted, Raw
  <2> HIDE DEF C, A, d
  <2>6. SumFunctionOnSet(Minted, C) * d <= SumFunctionOnSet(Raw, C)
    BY <2>1, <2>2, <2>3, <2>4, <2>5, SumScaled
  <2>7. SumFunctionOnSet(Raw, C) <= SumFunctionOnSet(Raw, A)
    BY <2>2, <2>3, <2>4, SumSubset
  <2>8. SumFunctionOnSet(Minted, C) \in Nat /\ SumFunctionOnSet(Raw, C) \in Nat
        /\ SumFunctionOnSet(Raw, A) \in Nat
    BY <2>2, <2>3, <2>4, <2>5, SumType
  <2>9. SumFunctionOnSet(Minted, C) * d <= SumFunctionOnSet(Raw, A)
    BY <2>1, <2>6, <2>7, <2>8
  <2> QED BY <2>1, <2>9 DEF A, d
<1> QED BY <1>1, BooksHold, TypeCorrect, PTL

(* daily_minted is what was accepted since the last reset, the delayed and   *)
(* the cancelled mints included.                                             *)
THEOREM DailyMintsCounted == Spec => []DailyAccounting
<1>1. Books => DailyAccounting
  BY DEF Books, DailyBooks
<1> QED BY <1>1, BooksHold, PTL
=============================================================================
