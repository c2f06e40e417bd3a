------------------------- MODULE MCBridgeController -------------------------
(***************************************************************************)
(* Small instances of BridgeController for TLC. Amounts are tens of        *)
(* Solana units, so that SOL has a remainder to drop; large is 30 and up.  *)
(*                                                                         *)
(* A behaviour belongs to one of three parts, each of which leaves out     *)
(* what hardly touches it.                                                 *)
(*   supply  both entry points, both tokens, delayed and cancelled mints,  *)
(*           burns through the contract and by holders, pause              *)
(*   limits  three transfers against a daily limit the admin moves         *)
(*   keys    the admin and guardian keys and the validators                *)
(***************************************************************************)
EXTENDS BridgeController, TLC

CONSTANTS admin, successor, alice, v1, v2, v3, t1, t2, t3, ann, ben, sol, usdc

VARIABLE part

None == {}

Req(i, r, a, m) == [transferId |-> i, recipient |-> r, amount |-> a, splMint |-> m]

Usdc == {[splMint |-> usdc, solDecimals |-> 1, dccDecimals |-> 1]}

SupplyRequests == {Req(t1, ann, 25, sol), Req(t2, ann, 30, usdc), Req(t2, ben, 9, sol)}
SupplyLegacy == {Req(t1, ann, 39, sol)}
LimitRequests == {Req(t1, ann, 20, sol), Req(t2, ann, 30, sol)}
LimitLegacy == {Req(t3, ann, 30, sol)}

AllRequests == SupplyRequests \cup LimitRequests
AllLegacy == SupplyLegacy \cup LimitLegacy

\* The signers run: one transfer, a quorum of two, an attestation passed twice.
SignerRequests == {Req(t1, ann, 20, sol)}
SignerLegacy == SupplyLegacy

-----------------------------------------------------------------------------
\* The transfers accepted so far are some of these.
Accepts(requests) ==
  \A i \in processed :
    \E r \in requests : /\ r.transferId = i /\ r.amount = accepted[i].raw
                        /\ r.recipient = accepted[i].credit.recipient
                        /\ r.splMint = accepted[i].credit.asset

SameKeys == DOMAIN pending_transfer = {} /\ keys.admin = admin /\ keys.guardian = admin
SameLimits == max_daily_mint = maxDailyMint /\ max_single_mint = maxSingleMint

Within ==
  \/ /\ part = "supply" /\ SameKeys /\ SameLimits
     /\ height <= 3 /\ validator_active \subseteq {v1}
     /\ Accepts(SupplyRequests \cup SupplyLegacy)
  \/ /\ part = "limits" /\ SameKeys
     /\ validator_active \subseteq {v1}
     /\ usdc \notin DOMAIN tokens /\ Accepts(LimitRequests \cup LimitLegacy)
     /\ burns = [b \in {} |-> 0] /\ \A m \in SplMints : burned_directly[m] = 0
  \/ /\ part = "keys" /\ SameLimits
     /\ processed = {} /\ ~ paused /\ DOMAIN tokens = {sol} /\ tokens[sol].enabled

PartInit == Init /\ part \in {"supply", "limits", "keys"} /\ Within

PartNext == Next /\ UNCHANGED part /\ Within'

PartSpec == PartInit /\ [][PartNext]_<<vars, part>>

\* The run that looks at the signers only has bounds small enough to do without.
WholeInit == Init /\ part = "all"

WholeSpec == WholeInit /\ [][Next /\ UNCHANGED part]_<<vars, part>>
=============================================================================
