-------------------------------- MODULE Cache --------------------------------
(***************************************************************************)
(* What the resolver relies on in its cache, and all that Resolver's       *)
(* actions Fill, Expire and InvalidateUser assume: a lookup returns what   *)
(* was stored last under the key or nothing, an entry may vanish at any    *)
(* time, and a deleted one is gone.                                        *)
(***************************************************************************)
CONSTANTS Keys, Values, None

VARIABLES
    held,   \* key -> value or None
    last    \* the last call and its answer

vars == <<held, last>>

Init == held = [k \in Keys |-> None] /\ last = None

Lookup(k) ==
    /\ last' = <<"Get", k, held[k]>>
    /\ UNCHANGED held

\* Storing under a key may cost others their place.
Store(k, v) ==
    /\ \E lost \in SUBSET (Keys \ {k}) :
          held' = [x \in Keys |-> IF x = k THEN v ELSE IF x \in lost THEN None ELSE held[x]]
    /\ last' = <<"Set", k, v>>

Erase(k) ==
    /\ held' = [held EXCEPT ![k] = None]
    /\ last' = <<"Delete", k, None>>

Lose ==
    /\ \E lost \in SUBSET Keys : held' = [x \in Keys |-> IF x \in lost THEN None ELSE held[x]]
    /\ UNCHANGED last

Next ==
    \/ \E k \in Keys : Lookup(k) \/ Erase(k) \/ \E v \in Values : Store(k, v)
    \/ Lose

Spec == Init /\ [][Next]_vars
=============================================================================
