----------------------------- MODULE MCCluster -----------------------------
(* Instances of Cluster for TLC.                                           *)
EXTENDS Cluster, TLC

CONSTANTS a1, a2, w1, w2

\* One worker of one core, every other of two.
MCNumCores == [w \in Worker |-> IF w = w1 THEN 1 ELSE 2]

\* The guide treats addresses alike; for safety runs only.
MCSymmetry == Permutations(Addr)
=============================================================================
