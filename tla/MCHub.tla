------------------------------- MODULE MCHub -------------------------------
(* Instances of Hub for TLC. *)
EXTENDS Hub, TLC

Symmetry == Permutations(Subs) \cup Permutations(Workers) \cup Permutations(ChannelIDs)
=============================================================================
