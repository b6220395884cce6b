--------------------------- MODULE MCDomainEvents ---------------------------
(* Instances of DomainEvents for TLC. *)
EXTENDS DomainEvents, TLC

CONSTANTS e1, e2, k1, c1, w1, w2

OneKey == [e \in Events |-> k1]

WorkerSymmetry == Permutations(Workers)
=============================================================================
