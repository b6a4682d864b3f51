------------------------------ MODULE MCTokens ------------------------------
(* Tokens for TLC: workers and windows are interchangeable. *)
EXTENDS Tokens, TLC

Symmetry == Permutations(Callers) \cup Permutations(Browsers)
=============================================================================
