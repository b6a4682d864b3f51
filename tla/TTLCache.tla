------------------------------ MODULE TTLCache ------------------------------
(***************************************************************************)
(* Package ttlcache: a map of entries and a list of their keys in order of *)
(* insertion, under one mutex, so that every call is one step.  Time is    *)
(* counted in ticks, as what is left of each entry's TTL.                  *)
(***************************************************************************)
EXTENDS Naturals, Sequences, FiniteSets

CONSTANTS
    Keys, Values,
    TTLs,       \* the lifetimes Set is called with
    MaxEntries,
    None

ASSUME TTLCacheAssumption ==
    /\ TTLs \subseteq Nat \ {0}
    /\ MaxEntries \in Nat \ {0}
    /\ None \notin [value : Values, left : Nat]

VARIABLES
    items,   \* key -> [value, left] or None
    order,   \* list: keys, oldest at the front
    last,    \* the last call and its answer
    older    \* ghost: pairs of keys, the first inserted before the second

vars == <<items, order, last, older>>

Init ==
    /\ items = [k \in Keys |-> None]
    /\ order = <<>>
    /\ last = None
    /\ older = {}

Present == {k \in Keys : items[k] # None}
Without(k) == {p \in older : k \notin {p[1], p[2]}}

\* Fault: an entry is still good when it expires.
LiveAtExpiry(k) == TRUE
Live(k) == items[k].left > 0

\* Fault: the list keeps the element.
RemoveItem(k) == order
\* What remove leaves of the list, from which it takes the entry's own element.
Place(k) == CHOOSE i \in DOMAIN order : order[i] = k
remove(k) ==
    [i \in 1..(Len(order) - 1) |-> IF i < Place(k) THEN order[i] ELSE order[i + 1]]

GetMiss(k) ==
    /\ items[k] = None
    /\ last' = <<"Get", k, None>>
    /\ UNCHANGED <<items, order, older>>

GetHit(k) ==
    /\ items[k] # None /\ Live(k)
    /\ last' = <<"Get", k, items[k].value>>
    /\ UNCHANGED <<items, order, older>>

GetExpired(k) ==
    /\ items[k] # None /\ ~Live(k)
    /\ items' = [items EXCEPT ![k] = None]
    /\ order' = remove(k)
    /\ older' = Without(k)
    /\ last' = <<"Get", k, None>>

\* Fault: overwriting counts as an insertion.
MoveToBack(k) == Append(remove(k), k)
Overwritten(k) == order

SetPresent(k, v, ttl) ==
    /\ items[k] # None
    /\ items' = [items EXCEPT ![k] = [value |-> v, left |-> ttl]]
    /\ order' = Overwritten(k)
    /\ last' = <<"Set", k, v>>
    /\ UNCHANGED older

Full == Cardinality(Present) >= MaxEntries

SetRoom(k, v, ttl) ==
    /\ items[k] = None /\ ~Full
    /\ items' = [items EXCEPT ![k] = [value |-> v, left |-> ttl]]
    /\ order' = Append(order, k)
    /\ older' = older \cup {<<x, k>> : x \in Present}
    /\ last' = <<"Set", k, v>>

SetFull(k, v, ttl) ==
    LET front == Head(order) IN
    /\ items[k] = None /\ Full
    /\ items' = [items EXCEPT ![front] = None, ![k] = [value |-> v, left |-> ttl]]
    /\ order' = Append(remove(front), k)
    /\ older' = Without(front) \cup {<<x, k>> : x \in Present \ {front}}
    /\ last' = <<"Set", k, v>>

Delete(k) ==
    /\ last' = <<"Delete", k, None>>
    /\ IF items[k] = None
       THEN UNCHANGED <<items, order, older>>
       ELSE /\ items' = [items EXCEPT ![k] = None]
            /\ order' = remove(k)
            /\ older' = Without(k)

Tick ==
    /\ items' = [k \in Keys |->
          IF items[k] # None /\ items[k].left > 0 THEN [items[k] EXCEPT !.left = @ - 1] ELSE items[k]]
    /\ UNCHANGED <<order, last, older>>

Get(k) == GetMiss(k) \/ GetHit(k) \/ GetExpired(k)
Set(k, v, ttl) == SetPresent(k, v, ttl) \/ SetRoom(k, v, ttl) \/ SetFull(k, v, ttl)

Next ==
    \/ \E k \in Keys : Get(k) \/ Delete(k)
    \/ \E k \in Keys, v \in Values, ttl \in TTLs : Set(k, v, ttl)
    \/ Tick

Spec == Init /\ [][Next]_vars

-----------------------------------------------------------------------------
\* Type correctness; the cache never holds more than its maximum.
TypeOK ==
    /\ items \in [Keys -> [value : Values, left : Nat] \cup {None}]
    /\ order \in Seq(Keys) /\ Len(order) <= MaxEntries
    /\ older \subseteq Keys \X Keys

\* Map and list never part: the list holds each cached key once and no other,
\* so that what is evicted, expired or deleted goes from both.
MapAndList ==
    /\ TypeOK
    /\ {order[i] : i \in DOMAIN order} = Present
    /\ \A i, j \in DOMAIN order : order[i] = order[j] => i = j

\* The package's "size cap that evicts the oldest-inserted entry": a Set pushes
\* out an entry only when the cache held its maximum, and still does after it,
\* that is, no more than the one; and that is the oldest insertion, which
\* overwriting did not make younger.
EvictsOldest ==
    [][\A k \in Keys :
         last' # last /\ last'[1] = "Set" /\ items[k] # None /\ items'[k] = None =>
             /\ Cardinality(Present) = MaxEntries /\ Cardinality(Present') = MaxEntries
             /\ \A x \in Keys : <<x, k>> \notin older]_vars

\* The cache as Cache describes it: what is past its TTL is not held.
Abstract == INSTANCE Cache WITH
    held <- [k \in Keys |->
               IF items[k] # None /\ items[k].left > 0 THEN items[k].value ELSE None]

\* Get answers with the value stored last, if it is neither past its TTL nor
\* deleted; a call for one key never changes what another key holds, but by
\* evicting it.
ImplementsCache == Abstract!Spec

-----------------------------------------------------------------------------
\* The order of the list is the order of insertion.
Aged ==
    /\ \A x, y \in Keys : <<x, y>> \in older => {x, y} \subseteq Present
    /\ \A i, j \in DOMAIN order : <<order[i], order[j]>> \in older => i < j

TTLCacheInv == MapAndList /\ Aged
=============================================================================
