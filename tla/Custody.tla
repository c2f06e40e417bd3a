------------------------------- MODULE Custody -------------------------------
(***************************************************************************)
(* What a vault that pays withdrawals against accepted claims promises,    *)
(* independently of who accepts a claim, when, and under which limits: a   *)
(* claim is accepted at most once and never changes, it is settled at most *)
(* once and only after it was accepted, and a settlement moves exactly the *)
(* claimed amount from the vault to the claimed recipient.                 *)
(***************************************************************************)
EXTENDS Naturals

CONSTANTS
  ClaimIds,    \* identifiers under which a claim can be accepted
  Recipients   \* accounts that can be paid

VARIABLES
  held,        \* what the vault holds
  claims,      \* accepted claims: identifier -> [recipient, amount]
  settled,     \* identifiers of the claims already paid
  received     \* what each recipient was paid so far

cvars == <<held, claims, settled, received>>

Claim == [recipient: Recipients, amount: Nat]

CInit ==
  /\ held \in Nat
  /\ claims = [i \in {} |-> 0]
  /\ settled = {}
  /\ received = [r \in Recipients |-> 0]

\* The vault is funded; nothing else moves.
Fund ==
  /\ held' \in Nat
  /\ held' >= held
  /\ UNCHANGED <<claims, settled, received>>

\* The claim is recorded under a new identifier; the earlier ones stay as they are.
AddClaim(i) ==
  /\ i \notin DOMAIN claims
  /\ DOMAIN claims' = DOMAIN claims \cup {i}
  /\ claims'[i] \in Claim
  /\ \A j \in DOMAIN claims : claims'[j] = claims[j]

Pay(i, c) ==
  /\ i \notin settled
  /\ held >= c.amount
  /\ held' = held - c.amount
  /\ settled' = settled \cup {i}
  /\ received' = [received EXCEPT ![c.recipient] = @ + c.amount]

Accept(i) == AddClaim(i) /\ UNCHANGED <<held, settled, received>>

AcceptAndSettle(i) == AddClaim(i) /\ Pay(i, claims'[i])

Settle(i) ==
  /\ i \in DOMAIN claims
  /\ Pay(i, claims[i])
  /\ UNCHANGED claims

CNext ==
  \/ Fund
  \/ \E i \in ClaimIds : Accept(i) \/ AcceptAndSettle(i) \/ Settle(i)

CSpec == CInit /\ [][CNext]_cvars
=============================================================================
