----------------------------- MODULE MCBalancers -----------------------------
(* A small instance of Balancers: the weights of DefaultConfig, rounded,   *)
(* and requests that are interchangeable.                                  *)
EXTENDS Balancers

MCWeights == [latency |-> 1, errors |-> 2, load |-> 1]

Symmetry == Permutations(Requests)
=============================================================================
