------------------------------- MODULE Badges -------------------------------
(***************************************************************************)
(* Package link and package resolver over the same tables and cache: what  *)
(* a viewer's badge in chat is while links are made, synced and removed.   *)
(***************************************************************************)
EXTENDS Link, Resolver

vars == <<dataVars, cache, jobVars, lookup>>

Init == DataInit /\ LinkInit /\ ResolverInit

Next ==
    \/ \E j \in Jobs : Job(j) /\ UNCHANGED lookup
    \/ \E f \in Lookups : Lookup(f) /\ UNCHANGED jobVars
    \/ \E u \in Users : Expire(u) /\ UNCHANGED jobVars

Spec == Init /\ [][Next]_vars

\* An entry's TTL runs out; nothing else is assumed to happen.
FairSpec == Spec /\ \A u \in Users : WF_vars(Expire(u) /\ UNCHANGED jobVars)

-----------------------------------------------------------------------------
Badge == (Buttons \X Accounts) \cup {None}
Results == [status : {"unlinked", "unsynced", "linked"}, auto : Badge, viewer : Badge]
Labels == {"new", "link", "linked", "fetch", "store", "unlink", "pref", "committed", "all", "done"}

\* Type correctness of every variable.
TypeOK ==
    /\ link \in [Users -> [account : Accounts \cup {None}, active : BOOLEAN]]
    /\ rows \in [Users -> [Buttons -> Accounts \cup {None}]]
    /\ pref \in [Users -> Buttons \cup {None}]
    /\ cache \in [Users -> [result : Results, raced : BOOLEAN] \cup {None}]
    /\ ver \in [Users -> Nat]
    /\ pc \in [Jobs -> Labels]
    /\ user \in [Jobs -> Users \cup {None}]
    /\ account \in [Jobs -> Accounts \cup {None}]
    /\ got \in [Jobs -> SUBSET Buttons]
    /\ choice \in [Jobs -> Buttons \cup {None}]
    /\ daily \in [Jobs -> BOOLEAN]
    /\ todo \in [Jobs -> SUBSET (Users \X Accounts)]
    /\ lookup \in [Lookups ->
          [at : {"idle", "link", "rows", "set"}, user : Users \cup {None},
           pref : Buttons \cup {None}, result : Results \cup {None}, ver : Nat]]
    /\ \A f \in Lookups : lookup[f].at = "set" => lookup[f].result \in Results

Cached(u) == cache[u] # None
Fresh(u) == Cached(u) => cache[u].result = View(u)
Invalidating(u) == \E j \in Jobs : MustInvalidate(j, u)

\* A cached badge that differs from the committed data has one of two reasons:
\* a commit whose InvalidateUser is about to run, or a lookup that a commit
\* overtook between its first query and its Set.  In particular no job commits
\* without invalidating, or invalidates before it commits.
StaleOnlyIfRaced ==
    \A u \in Users : ~Fresh(u) => Invalidating(u) \/ cache[u].raced

\* A user's classes always come from one account: a sync replaces them whole,
\* however syncs of two links interleave.
OneSource ==
    \A u \in Users : \A b, c \in Buttons :
        rows[u][b] # None /\ rows[u][c] # None => rows[u][b] = rows[u][c]

\* Only unlinking leaves a user without classes: a sync that fetched nothing,
\* failed or lost a race never does.
ClassesKept ==
    [][\A u \in Users : HasRows(rows[u]) /\ ~HasRows(rows'[u]) => ~link'[u].active]_vars

\* Once requests stop, the TTL alone makes every cached badge right for good,
\* raced fills and jobs that died before InvalidateUser included.
Converges == <>[](\A u \in Users : Fresh(u))

-----------------------------------------------------------------------------
(* The inductive invariant behind StaleOnlyIfRaced and ClassesKept.         *)

\* What a job carries from one step to the next.
JobLocals ==
    /\ \A u \in Users : link[u].active => link[u].account \in Accounts
    /\ \A j \in Jobs :
          /\ pc[j] \notin {"new", "all", "done"} => user[j] \in Users
          /\ pc[j] \in {"link", "linked", "fetch", "store"} => account[j] \in Accounts
          /\ pc[j] = "store" => got[j] # {}

\* A lookup that no commit has overtaken holds what is committed.
LookupLocals ==
    \A f \in Lookups :
        LET l == lookup[f] IN
        l.at # "idle" =>
            /\ l.user \in Users
            /\ l.ver <= ver[l.user]
            /\ l.ver = ver[l.user] =>
                  /\ l.at \in {"link", "rows"} => l.pref = pref[l.user]
                  /\ l.at = "rows" => link[l.user].active
                  /\ l.at = "set" => l.result = View(l.user)

IInv == TypeOK /\ JobLocals /\ LookupLocals /\ StaleOnlyIfRaced

-----------------------------------------------------------------------------
(* Promises of the repository that the code does not keep. *)

\* Unlink clears classes and the preferred button: a user without an active
\* link has neither.
UnlinkClears ==
    \A u \in Users : ~link[u].active => ~HasRows(rows[u]) /\ pref[u] = None

\* A transient outage does not wipe good data: a sync drops a class only if
\* the account it fetched has none for that button.
OutageKeepsClasses ==
    [][\A u \in Users, b \in Buttons :
         rows[u][b] # None /\ rows'[u][b] = None /\ link'[u].active
             => b \notin Archive[rows[u][b]]]_vars
=============================================================================
