----------------------------- MODULE MCSessions -----------------------------
EXTENDS Sessions, TLC

Symmetry == Permutations(Accounts) \cup Permutations(Tokens)
                \cup Permutations(Flows) \cup Permutations(Requests)
=============================================================================
