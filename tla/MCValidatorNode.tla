-------------------------- MODULE MCValidatorNode --------------------------
(***************************************************************************)
(* Small instances of ValidatorNode for TLC: d1 is a deposit, d3 one of an *)
(* SPL token, t1 and t2 are no deposits and their events tell d1's id, t2  *)
(* has failed. What two deposits of one id can do to each other, d1 does   *)
(* when it is replaced and included again in another slot.                 *)
(***************************************************************************)
EXTENDS ValidatorNode, TLC

CONSTANTS d1, d3, t1, t2, x1, x3, b1, b2

Ids == (d1 :> x1) @@ (d3 :> x3) @@ (t1 :> x1) @@ (t2 :> x1)
Fields == (b1 :> 5) @@ (b2 :> 6)

\* State constraint: the two watchers share only the engine's map, in which
\* their ids differ, so one chain moves at a time.
OneChain ==
  \/ included = [t \in Transactions |-> 0] /\ slot = 1 /\ finalized = 0
  \/ burnAt = [b \in Burns |-> 0] /\ height = StartHeight

\* State constraint: d1 meets at most one of the other transactions, and of what
\* troubles the node (a failed request, a crash, a replaced block, an event that
\* is no deposit's, one of a failed transaction counting twice) any two come.
TwoTroubles ==
  LET Others == {t \in Transactions \ {d1} : included[t] # 0} IN
  /\ Cardinality(Others) <= 1
  /\ faults + crashes + forks + reorgs
       + Cardinality(Others \ Deposits) + Cardinality(Others \cap Failed) <= 2
=============================================================================
