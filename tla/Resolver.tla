------------------------------ MODULE Resolver ------------------------------
(***************************************************************************)
(* Package resolver: Resolve on a cache miss, as concurrent lookups (one   *)
(* per flush of a worker, and the dashboard's preview) of three separate   *)
(* queries and a Set.  A hit changes nothing and returns the entry.        *)
(***************************************************************************)
EXTENDS BadgeData

CONSTANT Lookups

VARIABLE lookup   \* lookup -> its locals

Idle == [at |-> "idle", user |-> None, pref |-> None, result |-> None, ver |-> 0]

ResolverInit == lookup = [f \in Lookups |-> Idle]

\* cache.Get misses; GetUserByChzzkID.
ReadUser(f, u) ==
    /\ lookup[f].at = "idle"
    /\ cache[u] = None
    /\ lookup' = [lookup EXCEPT ![f] =
                    [at |-> "link", user |-> u, pref |-> pref[u], result |-> None, ver |-> ver[u]]]
    /\ UNCHANGED <<dataVars, cache>>

\* HasActiveLink.
ReadLink(f) ==
    LET u == lookup[f].user IN
    /\ lookup[f].at = "link"
    /\ lookup' = [lookup EXCEPT ![f] =
                    IF link[u].active THEN [@ EXCEPT !.at = "rows"]
                    ELSE [@ EXCEPT !.at = "set", !.result = Result(None, FALSE, NoRows)]]
    /\ UNCHANGED <<dataVars, cache>>

\* ListDjClasses, and the result.
ReadRows(f) ==
    LET u == lookup[f].user IN
    /\ lookup[f].at = "rows"
    /\ lookup' = [lookup EXCEPT ![f] =
                    [@ EXCEPT !.at = "set", !.result = Result(lookup[f].pref, TRUE, rows[u])]]
    /\ UNCHANGED <<dataVars, cache>>

\* A query fails, or its context ends: nothing is cached.
ReadFails(f) ==
    /\ lookup[f].at \in {"link", "rows"}
    /\ lookup' = [lookup EXCEPT ![f] = Idle]
    /\ UNCHANGED <<dataVars, cache>>

\* cache.Set, whatever was committed and invalidated since the first query;
\* raced is a ghost that records whether something was.
Fill(f) ==
    LET l == lookup[f] IN
    /\ l.at = "set"
    /\ cache' = [cache EXCEPT ![l.user] =
                   [result |-> l.result, raced |-> l.ver # ver[l.user]]]
    /\ lookup' = [lookup EXCEPT ![f] = Idle]
    /\ UNCHANGED dataVars

\* Fault: entries of viewers without a link never expire.
ExpireLinked(u) ==
    /\ cache[u] # None
    /\ cache[u].result.status # "unlinked"
    /\ cache' = [cache EXCEPT ![u] = None]
    /\ UNCHANGED <<dataVars, lookup>>

\* The entry's TTL (5 min, 15 s or 10 s by status) is over, or it is evicted.
Expire(u) ==
    /\ cache[u] # None
    /\ cache' = [cache EXCEPT ![u] = None]
    /\ UNCHANGED <<dataVars, lookup>>

Lookup(f) ==
    \/ \E u \in Users : ReadUser(f, u)
    \/ ReadLink(f) \/ ReadRows(f) \/ ReadFails(f) \/ Fill(f)
=============================================================================
