------------------------------ MODULE MCBadges ------------------------------
(* Instances of Badges for TLC. *)
EXTENDS Badges, TLC

\* Every account has a class for every button.
FullArchive == [a \in Accounts |-> Buttons]

Symmetry == Permutations(Jobs) \cup Permutations(Users) \cup Permutations(Lookups)
=============================================================================
