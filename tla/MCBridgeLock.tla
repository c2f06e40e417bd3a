---------------------------- MODULE MCBridgeLock ----------------------------
(***************************************************************************)
(* A small instance of BridgeLock for TLC. An hour is one tick and a day   *)
(* two; the amounts are chosen so that two withdrawals fill a cap.         *)
(*                                                                         *)
(* Everything at once is too much to enumerate: a behaviour belongs to one *)
(* of four parts, each of which leaves out what hardly touches it.        *)
(*   custody     deposits of both kinds, small and large unlocks, pause    *)
(*   limits      four withdrawals against a daily and an hourly cap that   *)
(*               update_config lowers and a timelocked change raises       *)
(*   governance  keys, validators, quorum and cap, each with its           *)
(*               timelocked change                                         *)
(*   quorum      one burn, attested by validators that come and go and by  *)
(*               a key that is never registered, while the quorum moves    *)
(***************************************************************************)
EXTENDS BridgeLock, TLC

CONSTANTS admin, successor, alice, bob, v1, v2, v3, b1, b2, b3, b4, ann, ben, usdc

VARIABLE part

BaseConfig ==
  [min_validators |-> 1, max_validators |-> 2, min_deposit |-> 1, max_deposit |-> 4,
   max_daily_outflow |-> 4, max_unlock_amount |-> 4, max_hourly_outflow |-> 4,
   required_confirmations |-> 32,
   large_withdrawal_delay |-> 2, large_withdrawal_threshold |-> 3]
Configs == {BaseConfig}
NewConfigs ==
  {[BaseConfig EXCEPT !.min_validators = m, !.max_daily_outflow = c] : m \in 1 .. 2, c \in 3 .. 4}
    \cup {[BaseConfig EXCEPT !.large_withdrawal_threshold = 5]}

AllProposals ==
  {[type |-> "AuthorityTransfer", value |-> successor],
   [type |-> "GuardianTransfer", value |-> successor],
   [type |-> "MinValidatorsDecrease", value |-> 1],
   [type |-> "MaxDailyOutflowIncrease", value |-> 5]}

Burn(i, r, a, e) ==
  [transfer_id |-> i, recipient |-> r, amount |-> a, dcc_chain_id |-> 2, expiration |-> e]

CustodyMessages ==
  {Burn(b1, ann, 2, 9), Burn(b2, ben, 3, 3), Burn(b1, ben, 4, 9),
   [Burn(b2, ann, 1, 9) EXCEPT !.dcc_chain_id = 1]}
LimitsMessages ==
  {Burn(b1, ann, 2, 9), Burn(b2, ann, 2, 9), Burn(b3, ann, 3, 9), Burn(b4, ann, 1, 9)}
AllMessages == CustodyMessages \cup LimitsMessages

-----------------------------------------------------------------------------
\* The unlocks accepted so far are some of these.
Accepts(messages) ==
  \A i \in DOMAIN unlocks :
    \E m \in messages : /\ m.transfer_id = i
                        /\ m.recipient = unlocks[i].recipient /\ m.amount = unlocks[i].amount

OneValidator ==
  /\ validators \subseteq {v1} /\ authority = admin /\ guardian = admin
  /\ \A i \in DOMAIN backing : backing[i].signers = {v1}

Within ==
  \/ /\ part = "custody"
     /\ now <= 5 /\ gifts <= 1 /\ OneValidator
     /\ config = BaseConfig /\ DOMAIN pending = {}
     /\ Accepts(CustodyMessages)
  \/ /\ part = "limits"
     /\ now <= 4 /\ OneValidator /\ ~ paused
     /\ gifts = 9 \/ (gifts = 0 /\ now = 1 /\ validators = {} /\ config = BaseConfig)
     /\ config.min_validators = 1 /\ DOMAIN pending \subseteq {"MaxDailyOutflowIncrease"}
     /\ DOMAIN deposits = {} /\ Accepts(LimitsMessages)
  \/ /\ part = "governance"
     /\ now <= 6 /\ gifts = 0 /\ validators \subseteq {v1, v2}
     /\ config.large_withdrawal_threshold = 3
     /\ Cardinality(DOMAIN pending) <= (IF paused THEN 0 ELSE 2)
     /\ DOMAIN deposits = {} /\ DOMAIN unlocks = {}
  \/ /\ part = "quorum"
     /\ now <= 6 /\ gifts \in {0, 2} /\ validators \subseteq {v1, v2}
     /\ authority = admin /\ guardian = admin /\ ~ paused
     /\ config.large_withdrawal_threshold = 3 /\ config.max_daily_outflow = 4
     /\ DOMAIN pending \subseteq {"MinValidatorsDecrease"}
     /\ DOMAIN deposits = {} /\ Accepts({Burn(b1, ann, 2, 9)})

PartInit ==
  /\ Init /\ authority = admin /\ guardian = admin
  /\ part \in {"custody", "limits", "governance", "quorum"} /\ Within

PartNext == Next /\ UNCHANGED part /\ Within'

PartSpec == PartInit /\ [][PartNext]_<<vars, part>>
=============================================================================
