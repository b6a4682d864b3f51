-------------------------------- MODULE Link --------------------------------
(***************************************************************************)
(* Package link: the requests of the /link page and the daily SyncAll, as  *)
(* jobs that interleave.  Every job reads first, calls V-ARCHIVE outside   *)
(* any transaction, commits, and invalidates the badge cache; each of      *)
(* those is a step, and a step may find what an earlier one read gone.     *)
(***************************************************************************)
EXTENDS BadgeData

CONSTANT Jobs   \* calls of Connect, Sync, Unlink, SetPreferredButton, SyncAll

VARIABLES
    pc,      \* job -> where it is
    user,    \* job -> the user it works on
    account, \* job -> the nickname it fetches by
    got,     \* job -> the buttons AllDjClasses returned
    choice,  \* job -> the preferred button to store
    daily,   \* job -> whether it is a SyncAll
    todo     \* job -> the links that SyncAll has still to sync

jobVars == <<pc, user, account, got, choice, daily, todo>>

LinkInit ==
    /\ pc = [j \in Jobs |-> "new"]
    /\ user = [j \in Jobs |-> None]
    /\ account = [j \in Jobs |-> None]
    /\ got = [j \in Jobs |-> {}]
    /\ choice = [j \in Jobs |-> None]
    /\ daily = [j \in Jobs |-> FALSE]
    /\ todo = [j \in Jobs |-> {}]

Goto(j, l) == pc' = [pc EXCEPT ![j] = l]

\* A request is over; SyncAll goes on to its next link.
Finish(j) == Goto(j, IF daily[j] THEN "all" ELSE "done")

\* One of the handlers of the /link page begins a call of link.Service for the
\* logged-in user; what it renders afterwards depends on the result only.
Start(j, u, l) ==
    /\ pc[j] = "new"
    /\ user' = [user EXCEPT ![j] = u]
    /\ Goto(j, l)

-----------------------------------------------------------------------------
\* Connect: the lookup token belongs to account a.
ConnectLookup(j, u, a) ==
    /\ Start(j, u, "link")
    /\ account' = [account EXCEPT ![j] = a]
    /\ UNCHANGED <<dataVars, cache, got, choice, daily, todo>>

\* An invalid token, or V-ARCHIVE unavailable: nothing is saved.
ConnectFails(j, u) ==
    /\ Start(j, u, "done")
    /\ UNCHANGED <<dataVars, cache, account, got, choice, daily, todo>>

ConnectCommit(j) ==
    /\ pc[j] = "link"
    /\ CommitLink(user[j], account[j])
    /\ Goto(j, "linked")
    /\ UNCHANGED <<cache, user, account, got, choice, daily, todo>>

ConnectInvalidate(j) ==
    /\ pc[j] = "linked"
    /\ InvalidateUser(user[j])
    /\ Goto(j, "fetch")
    /\ UNCHANGED <<dataVars, user, account, got, choice, daily, todo>>

\* Sync: GetActiveLink, or ErrNotLinked.
SyncStart(j, u) ==
    /\ Start(j, u, IF link[u].active THEN "fetch" ELSE "done")
    /\ account' = [account EXCEPT ![j] = link[u].account]
    /\ UNCHANGED <<dataVars, cache, got, choice, daily, todo>>

\* Fault: an empty fetch is stored like any other.
FetchAny(j) ==
    /\ pc[j] = "fetch"
    /\ \E answered \in SUBSET Archive[account[j]] : got' = [got EXCEPT ![j] = answered]
    /\ Goto(j, "store")
    /\ UNCHANGED <<dataVars, cache, user, account, choice, daily, todo>>

\* syncUser: AllDjClasses returns the buttons that have a class and whose
\* request succeeded.  An empty fetch keeps the rows.
Fetch(j) ==
    /\ pc[j] = "fetch"
    /\ \E answered \in SUBSET Archive[account[j]] :
          /\ got' = [got EXCEPT ![j] = answered]
          /\ IF answered = {} THEN Finish(j) ELSE Goto(j, "store")
    /\ UNCHANGED <<dataVars, cache, user, account, choice, daily, todo>>

SyncCommit(j) ==
    /\ pc[j] = "store"
    /\ CommitClasses(user[j], account[j], got[j])
    /\ Goto(j, "committed")
    /\ UNCHANGED <<cache, user, account, got, choice, daily, todo>>

\* The InvalidateUser that ends syncUser, Unlink and SetPreferredButton.
Invalidate(j) ==
    /\ pc[j] = "committed"
    /\ InvalidateUser(user[j])
    /\ Finish(j)
    /\ UNCHANGED <<dataVars, user, account, got, choice, daily, todo>>

UnlinkStart(j, u) ==
    /\ Start(j, u, IF link[u].active THEN "unlink" ELSE "done")
    /\ UNCHANGED <<dataVars, cache, account, got, choice, daily, todo>>

UnlinkCommit(j) ==
    /\ pc[j] = "unlink"
    /\ CommitUnlink(user[j])
    /\ Goto(j, "committed")
    /\ UNCHANGED <<cache, user, account, got, choice, daily, todo>>

\* SetPreferredButton: "auto" is None; a button without a class is refused.
PrefStart(j, u, b) ==
    /\ Start(j, u, IF b = None \/ rows[u][b] # None THEN "pref" ELSE "done")
    /\ choice' = [choice EXCEPT ![j] = b]
    /\ UNCHANGED <<dataVars, cache, account, got, daily, todo>>

PrefCommit(j) ==
    /\ pc[j] = "pref"
    /\ CommitPreferred(user[j], choice[j])
    /\ Goto(j, "committed")
    /\ UNCHANGED <<cache, user, account, got, choice, daily, todo>>

\* WriteTx fails (the client went away, a database error) and rolls back.
TxFails(j) ==
    /\ pc[j] \in {"link", "store", "unlink", "pref"}
    /\ Finish(j)
    /\ UNCHANGED <<dataVars, cache, user, account, got, choice, daily, todo>>

\* SyncAll lists the active links once ...
SyncAllStart(j) ==
    /\ pc[j] = "new"
    /\ daily' = [daily EXCEPT ![j] = TRUE]
    /\ todo' = [todo EXCEPT ![j] = {<<u, link[u].account>> : u \in {v \in Users : link[v].active}}]
    /\ Goto(j, "all")
    /\ UNCHANGED <<dataVars, cache, user, account, got, choice>>

\* ... and syncs them in turn, whatever became of the one before.
SyncAllNext(j) ==
    /\ pc[j] = "all"
    /\ \E l \in todo[j] :
          /\ user' = [user EXCEPT ![j] = l[1]]
          /\ account' = [account EXCEPT ![j] = l[2]]
          /\ todo' = [todo EXCEPT ![j] = @ \ {l}]
    /\ Goto(j, "fetch")
    /\ UNCHANGED <<dataVars, cache, got, choice, daily>>

\* The end of the list, or a cancelled context.
SyncAllEnd(j) ==
    /\ pc[j] = "all"
    /\ Goto(j, "done")
    /\ UNCHANGED <<dataVars, cache, user, account, got, choice, daily, todo>>

Job(j) ==
    \/ \E u \in Users :
          \/ ConnectFails(j, u) \/ SyncStart(j, u) \/ UnlinkStart(j, u)
          \/ \E a \in Accounts : ConnectLookup(j, u, a)
          \/ \E b \in Buttons \cup {None} : PrefStart(j, u, b)
    \/ ConnectCommit(j) \/ ConnectInvalidate(j)
    \/ Fetch(j) \/ SyncCommit(j) \/ Invalidate(j)
    \/ UnlinkCommit(j) \/ PrefCommit(j) \/ TxFails(j)
    \/ SyncAllStart(j) \/ SyncAllNext(j) \/ SyncAllEnd(j)

\* A commit of j still has to be followed by its InvalidateUser.
MustInvalidate(j, u) == pc[j] \in {"linked", "committed"} /\ user[j] = u
=============================================================================
