----------------------------- MODULE BadgeData -----------------------------
(***************************************************************************)
(* The state that package link writes and package resolver reads: the      *)
(* viewer's tables in SQLite and the badge cache in front of them.         *)
(*                                                                         *)
(* A dj_classes row is the V-ARCHIVE account its class came from.  What    *)
(* is committed is one store.WriteTx, so one step; reads are separate      *)
(* queries on the read pool, each of which sees the last commit.           *)
(***************************************************************************)
EXTENDS Naturals

CONSTANTS
    Users,      \* viewers who have logged in
    Accounts,   \* V-ARCHIVE nicknames
    Buttons,    \* varchive.Buttons
    Archive,    \* account -> the buttons it has a DJ CLASS for
    None

ASSUME BadgeAssumption ==
    /\ Archive \in [Accounts -> SUBSET Buttons]
    /\ None \notin Accounts \cup Buttons \cup Users

VARIABLES
    link,    \* varchive_links: the account, and whether it is active
    rows,    \* dj_classes: user -> button -> account or None
    pref,    \* users.preferred_button
    cache,   \* resolver cache: user -> entry or None
    ver      \* ghost: the commits that concerned the user

dataVars == <<link, rows, pref, ver>>

NoRows == [b \in Buttons |-> None]
HasRows(r) == \E b \in Buttons : r[b] # None

\* djclass.Resolve in auto mode: the greatest SortKey, here some fixed choice.
Best(r) == CHOOSE badge \in {<<b, r[b]>> : b \in Buttons} : badge[2] # None

\* Viewer mode: the preferred button if it has a class, else as auto.
Preferred(r, p) ==
    IF p # None /\ r[p] # None THEN <<p, r[p]>> ELSE Best(r)

\* What resolve makes of what its three queries returned.
Result(p, linked, r) ==
    IF ~linked THEN [status |-> "unlinked", auto |-> None, viewer |-> None]
    ELSE IF ~HasRows(r) THEN [status |-> "unsynced", auto |-> None, viewer |-> None]
    ELSE [status |-> "linked", auto |-> Best(r), viewer |-> Preferred(r, p)]

\* The result that the user's committed data calls for.
View(u) == Result(pref[u], link[u].active, rows[u])

DataInit ==
    /\ link = [u \in Users |-> [account |-> None, active |-> FALSE]]
    /\ rows = [u \in Users |-> NoRows]
    /\ pref = [u \in Users |-> None]
    /\ cache = [u \in Users |-> None]
    /\ ver = [u \in Users |-> 0]

Touch(u) == ver' = [ver EXCEPT ![u] = @ + 1]

\* UpsertVarchiveLink.
CommitLink(u, a) ==
    /\ link' = [link EXCEPT ![u] = [account |-> a, active |-> TRUE]]
    /\ Touch(u)
    /\ UNCHANGED <<rows, pref>>

\* Fault: the old classes are not deleted first.
UpsertClasses(u, a, got) ==
    /\ rows' = [rows EXCEPT ![u] = [b \in Buttons |-> IF b \in got THEN a ELSE @[b]]]
    /\ Touch(u)
    /\ UNCHANGED <<link, pref>>

\* DeleteDjClasses, then one UpsertDjClass for every class fetched.
CommitClasses(u, a, got) ==
    /\ rows' = [rows EXCEPT ![u] = [b \in Buttons |-> IF b \in got THEN a ELSE None]]
    /\ Touch(u)
    /\ UNCHANGED <<link, pref>>

\* DeactivateLink, DeleteDjClasses, SetPreferredButton(nil).
CommitUnlink(u) ==
    /\ link' = [link EXCEPT ![u].active = FALSE]
    /\ rows' = [rows EXCEPT ![u] = NoRows]
    /\ pref' = [pref EXCEPT ![u] = None]
    /\ Touch(u)

CommitPreferred(u, b) ==
    /\ pref' = [pref EXCEPT ![u] = b]
    /\ Touch(u)
    /\ UNCHANGED <<link, rows>>

\* Fault: the wrong key is deleted.
InvalidateNothing(u) == UNCHANGED cache
InvalidateUser(u) == cache' = [cache EXCEPT ![u] = None]
=============================================================================
