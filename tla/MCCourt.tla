------------------------------ MODULE MCCourt ------------------------------
(* Instances of Court for TLC: the threads are interchangeable.             *)
EXTENDS Court, TLC

Symmetry == Permutations(Threads)
=============================================================================
