------------------------------- MODULE MCProxy -------------------------------
(* Small instances of Proxy for TLC.                                       *)
EXTENDS Proxy, TLC

(* Requests and instances are interchangeable: the invariants and step     *)
(* properties of the passing run name no particular one.                   *)
Symmetry == Permutations(Requests) \cup Permutations(Instances)
=============================================================================
