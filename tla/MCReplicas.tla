---- MODULE MCReplicas ----
EXTENDS Replicas, TLC

CONSTANTS p1, p2, p3

Same == Permutations(Peers)
====
