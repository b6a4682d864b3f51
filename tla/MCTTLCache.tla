----------------------------- MODULE MCTTLCache -----------------------------
(* Instances of TTLCache for TLC. *)
EXTENDS TTLCache, TLC

Symmetry == Permutations(Keys) \cup Permutations(Values)
=============================================================================
