------------------------------ MODULE Issuance ------------------------------
(***************************************************************************)
(* What an issuer of wrapped tokens promises: every transfer it accepts is *)
(* credited at most once, exactly as accepted and never after it was       *)
(* withdrawn, and the supply grows by credits alone.                       *)
(***************************************************************************)
EXTENDS Naturals

CONSTANTS
  Ids,         \* identifiers of transfers
  Assets       \* wrapped tokens

VARIABLES
  claims,      \* accepted transfers: id -> [recipient, asset, amount]
  credited,    \* credits made: id -> what was credited
  withdrawn,   \* accepted transfers that will not be credited
  supply       \* asset -> what its holders have

ivars == <<claims, credited, withdrawn, supply>>

IInit ==
  /\ claims = [i \in {} |-> 0] /\ credited = [i \in {} |-> 0]
  /\ withdrawn = {}
  /\ supply = [a \in Assets |-> 0]

\* g is f with one more argument.
Extends(g, f, i) ==
  /\ i \notin DOMAIN f
  /\ DOMAIN g = DOMAIN f \cup {i}
  /\ \A j \in DOMAIN f : g[j] = f[j]

Accept(i) == Extends(claims', claims, i) /\ UNCHANGED <<credited, withdrawn, supply>>

Issue(i, c) ==
  /\ i \notin withdrawn
  /\ Extends(credited', credited, i)
  /\ credited'[i] = c
  /\ supply' = [supply EXCEPT ![c.asset] = @ + c.amount]
  /\ UNCHANGED withdrawn

AcceptAndCredit(i) == Extends(claims', claims, i) /\ Issue(i, claims'[i])

Credit(i) == i \in DOMAIN claims /\ Issue(i, claims[i]) /\ UNCHANGED claims

Withdraw(i) ==
  /\ i \in DOMAIN claims \ DOMAIN credited
  /\ withdrawn' = withdrawn \cup {i}
  /\ UNCHANGED <<claims, credited, supply>>

Redeem(a) ==
  /\ \E n \in 1 .. supply[a] : supply' = [supply EXCEPT ![a] = @ - n]
  /\ UNCHANGED <<claims, credited, withdrawn>>

INext ==
  \/ \E i \in Ids : Accept(i) \/ AcceptAndCredit(i) \/ Credit(i) \/ Withdraw(i)
  \/ \E a \in Assets : Redeem(a)

ISpec == IInit /\ [][INext]_ivars
=============================================================================
