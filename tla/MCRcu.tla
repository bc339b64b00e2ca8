------------------------------- MODULE MCRcu -------------------------------
(* Instances of Rcu for TLC: the objects are interchangeable.              *)
EXTENDS Rcu, TLC

ObjectSymmetry == Permutations(Objects)
=============================================================================
