----------------------------- MODULE MCLimiter -----------------------------
(* Instances of Limiter for TLC: two clients of one scope, and one of a    *)
(* scope with a lower limit and a shorter window.                          *)
EXTENDS Limiter, TLC

CONSTANTS k1, k2, k3

MCClients == {k1, k2, k3}
MCLimit == [k \in MCClients |-> IF k = k3 THEN 1 ELSE 2]
MCWindow == [k \in MCClients |-> IF k = k3 THEN 2 ELSE 3]

Symmetry == Permutations({k1, k2})
=============================================================================
