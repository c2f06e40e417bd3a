---------------------------- MODULE MCConsensus ----------------------------
(* Small instances of Consensus for TLC. *)
EXTENDS Consensus, TLC

CONSTANTS n1, n2, n3, t1, t2, s1, s2

\* The nodes and the transfers are interchangeable, and so are two readings.
Symmetry == Permutations(Nodes) \cup Permutations(Stamps)
=============================================================================
