---------------------------- MODULE MCValidator ----------------------------
(***************************************************************************)
(* Small instances of what a validator runs: the consensus engine of three *)
(* nodes, and one node's watchers, start-up and submissions. The engine's  *)
(* rounds hold whatever events they are given, so a behaviour is one of    *)
(* the two, its `part`.                                                    *)
(***************************************************************************)
EXTENDS MCValidatorNode, Consensus

CONSTANTS n1, n2, n3, transfer, s1, s2

VARIABLE part

PartInit == Init /\ NodeInit /\ part \in {"engine", "node"}

PartNext ==
  /\ UNCHANGED part
  /\ \/ part = "engine" /\ Next /\ UNCHANGED node_vars
     \/ part = "node" /\ NodeNext /\ UNCHANGED vars

PartSpec == PartInit /\ [][PartNext]_<<vars, node_vars, part>>

\* The nodes are interchangeable, and so are two readings of the clock.
Symmetry == Permutations(Nodes) \cup Permutations(Stamps)
=============================================================================
