--------------------------- MODULE MCBotDeposits ---------------------------
(* Small instances of BotDeposits for TLC. *)
EXTENDS BotDeposits, TLC

CONSTANTS u1, sol, usdc, p1, p2

\* The calls are interchangeable.
Symmetry == Permutations(Polls)

Configured ==
  {[useConsensus |-> TRUE, dccValidatorSeed |-> FALSE],
   [useConsensus |-> FALSE, dccValidatorSeed |-> FALSE]}

\* Relays do not meet: a second attempt is explored with one deposit. Either a
\* request fails or the bot restarts, and of two deposits one is minted then. A
\* third transaction, by which the first leaves the node's list, comes only to a
\* bot that cannot relay: its calls scan, announce and move the cursor all the
\* same.
OneTrouble ==
  /\ faults + crashes <= 1
  /\ Len(deposits) = 1 \/ \A s \in Sigs : relay[s] # Idle => relay[s].attempt = 1
  /\ Len(deposits) = 1 \/ Cardinality(utx \cup onchain) + faults + crashes <= 2
  /\ Len(deposits) <= 2 \/ (~ CanRelay /\ faults + crashes = 0)
=============================================================================
