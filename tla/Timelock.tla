------------------------------ MODULE Timelock ------------------------------
(***************************************************************************)
(* What a timelocked parameter promises: it can be tightened at any time,  *)
(* and it is loosened only by executing a proposal that named the new      *)
(* value at least Delay earlier and was neither cancelled nor replaced     *)
(* since.                                                                  *)
(***************************************************************************)
EXTENDS Naturals

CONSTANTS
  Delay,           \* how long a loosening has to be announced
  Looser(_, _)     \* Looser(v, w): v is a looser setting than w

VARIABLES
  value,           \* the parameter
  proposal,        \* the announced loosenings: a set of [value, since]
  clock

tvars == <<value, proposal, clock>>

TInit == proposal = {}

Pass == clock' > clock /\ UNCHANGED <<value, proposal>>

Tighten ==
  /\ ~ Looser(value', value)
  /\ UNCHANGED <<proposal, clock>>

\* An earlier announcement is replaced, and with it the time it was made.
Announce(v) ==
  /\ Looser(v, value)
  /\ proposal' = {[value |-> v, since |-> clock]}
  /\ UNCHANGED <<value, clock>>

Withdraw == proposal' = {} /\ UNCHANGED <<value, clock>>

\* A loosening is still a loosening when it takes effect.
Loosen(p) ==
  /\ clock - p.since >= Delay
  /\ Looser(p.value, value)
  /\ value' = p.value
  /\ proposal' = {}
  /\ UNCHANGED clock

TNext ==
  \/ Pass \/ Tighten \/ Withdraw
  \/ \E p \in proposal : Loosen(p)
  \/ \E p \in proposal' : Announce(p.value)

TSpec == TInit /\ [][TNext]_tvars
=============================================================================
