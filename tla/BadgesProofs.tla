---------------------------- MODULE BadgesProofs ----------------------------
(* Theorems about Badges, for every set of users, accounts, buttons, jobs   *)
(* and lookups.                                                             *)
EXTENDS Badges, Integers, Sequences, TLAPS

USE BadgeAssumption

LEMMA ResultType ==
    ASSUME NEW p \in Buttons \cup {None}, NEW linked \in BOOLEAN,
           NEW r \in [Buttons -> Accounts \cup {None}]
    PROVE  Result(p, linked, r) \in Results
<1>1. CASE linked /\ HasRows(r)
  <2>1. PICK b \in Buttons : r[b] # None BY <1>1 DEF HasRows
  <2>2. /\ Best(r) \in {<<c, r[c]>> : c \in Buttons}
        /\ Best(r)[2] # None
    <3> DEFINE S == {<<c, r[c]>> : c \in Buttons}
    <3>1. <<b, r[b]>> \in S /\ <<b, r[b]>>[2] # None BY <2>1
    <3>2. \E badge \in S : badge[2] # None BY <3>1
    <3> HIDE DEF S
    <3>3. (CHOOSE badge \in S : badge[2] # None) \in S
          /\ (CHOOSE badge \in S : badge[2] # None)[2] # None
      BY <3>2
    <3> QED BY <3>3 DEF S, Best
  <2>3. Best(r) \in Buttons \X Accounts BY <2>2
  <2>4. Preferred(r, p) \in Buttons \X Accounts BY <2>3 DEF Preferred
  <2> QED BY <1>1, <2>3, <2>4 DEF Result, Results, Badge
<1>2. CASE ~linked \/ ~HasRows(r) BY <1>2 DEF Result, Results, Badge
<1> QED BY <1>1, <1>2

LEMMA InitIInv == Init => IInv
<1> SUFFICES ASSUME Init PROVE IInv
  OBVIOUS
<1> USE DEF Init, DataInit, LinkInit, ResolverInit, Idle
<1>1. TypeOK
  <2>1. lookup \in [Lookups ->
          [at : {"idle", "link", "rows", "set"}, user : Users \cup {None},
           pref : Buttons \cup {None}, result : Results \cup {None}, ver : Nat]]
    OBVIOUS
  <2>2. \A f \in Lookups : lookup[f].at # "set" OBVIOUS
  <2>3. link \in [Users -> [account : Accounts \cup {None}, active : BOOLEAN]] OBVIOUS
  <2>4. cache \in [Users -> [result : Results, raced : BOOLEAN] \cup {None}] OBVIOUS
  <2>5. rows \in [Users -> [Buttons -> Accounts \cup {None}]] BY DEF NoRows
  <2>6. /\ pref \in [Users -> Buttons \cup {None}]
        /\ ver \in [Users -> Nat]
        /\ pc \in [Jobs -> Labels]
        /\ user \in [Jobs -> Users \cup {None}]
        /\ account \in [Jobs -> Accounts \cup {None}]
        /\ got \in [Jobs -> SUBSET Buttons]
        /\ choice \in [Jobs -> Buttons \cup {None}]
    BY DEF Labels
  <2>7. daily \in [Jobs -> BOOLEAN] /\ todo \in [Jobs -> SUBSET (Users \X Accounts)]
    OBVIOUS
  <2> QED BY <2>1, <2>2, <2>3, <2>4, <2>5, <2>6, <2>7 DEF TypeOK
<1>2. JobLocals BY DEF JobLocals
<1>3. LookupLocals BY DEF LookupLocals
<1>4. StaleOnlyIfRaced BY DEF StaleOnlyIfRaced, Fresh, Cached
<1> QED BY <1>1, <1>2, <1>3, <1>4 DEF IInv

-----------------------------------------------------------------------------
(* What a transaction leaves behind. *)

Commit(u) ==
    \/ \E a \in Accounts : CommitLink(u, a)
    \/ \E a \in Accounts, g \in (SUBSET Buttons) \ {{}} : CommitClasses(u, a, g)
    \/ CommitUnlink(u)
    \/ \E b \in Buttons \cup {None} : CommitPreferred(u, b)

\* A commit concerns one user, whose version it raises.
LEMMA CommitEffect ==
    ASSUME TypeOK, NEW u \in Users, Commit(u)
    PROVE  /\ ver' = [ver EXCEPT ![u] = @ + 1]
           /\ \A v \in Users \ {u} :
                 link'[v] = link[v] /\ rows'[v] = rows[v] /\ pref'[v] = pref[v]
           /\ link' \in [Users -> [account : Accounts \cup {None}, active : BOOLEAN]]
           /\ rows' \in [Users -> [Buttons -> Accounts \cup {None}]]
           /\ pref' \in [Users -> Buttons \cup {None}]
           /\ (\A v \in Users : link[v].active => link[v].account \in Accounts)
                 => (\A v \in Users : link'[v].active => link'[v].account \in Accounts)
<1>1. ASSUME NEW a \in Accounts, CommitLink(u, a)
      PROVE /\ link' = [link EXCEPT ![u] = [account |-> a, active |-> TRUE]]
            /\ UNCHANGED <<rows, pref>>
  BY <1>1 DEF CommitLink
<1>2. ASSUME NEW a \in Accounts, NEW g \in SUBSET Buttons, CommitClasses(u, a, g)
      PROVE /\ rows' = [rows EXCEPT ![u] = [b \in Buttons |-> IF b \in g THEN a ELSE None]]
            /\ UNCHANGED <<link, pref>>
  BY <1>2 DEF CommitClasses
<1>3. ver' = [ver EXCEPT ![u] = @ + 1]
  BY DEF Commit, CommitLink, CommitClasses, CommitUnlink, CommitPreferred, Touch
<1>4. \A v \in Users \ {u} : link'[v] = link[v] /\ rows'[v] = rows[v] /\ pref'[v] = pref[v]
  BY DEF Commit, CommitLink, CommitClasses, CommitUnlink, CommitPreferred, TypeOK
<1>5. /\ link' \in [Users -> [account : Accounts \cup {None}, active : BOOLEAN]]
      /\ (\A v \in Users : link[v].active => link[v].account \in Accounts)
            => (\A v \in Users : link'[v].active => link'[v].account \in Accounts)
  <2>1. ASSUME NEW a \in Accounts, CommitLink(u, a)
        PROVE /\ link' \in [Users -> [account : Accounts \cup {None}, active : BOOLEAN]]
              /\ (\A v \in Users : link[v].active => link[v].account \in Accounts)
                    => (\A v \in Users : link'[v].active => link'[v].account \in Accounts)
    <3>1. link' = [link EXCEPT ![u] = [account |-> a, active |-> TRUE]] BY <1>1, <2>1
    <3>2. [account |-> a, active |-> TRUE] \in [account : Accounts \cup {None}, active : BOOLEAN]
      OBVIOUS
    <3> QED BY <3>1, <3>2 DEF TypeOK
  <2>2. CASE CommitUnlink(u)
    <3>1. link' = [link EXCEPT ![u] = [@ EXCEPT !.active = FALSE]]
      BY <2>2 DEF CommitUnlink
    <3>2. link[u] \in [account : Accounts \cup {None}, active : BOOLEAN] BY DEF TypeOK
    <3>3. [link[u] EXCEPT !.active = FALSE] \in [account : Accounts \cup {None}, active : BOOLEAN]
          /\ ~[link[u] EXCEPT !.active = FALSE].active
      BY <3>2
    <3> QED BY <3>1, <3>3 DEF TypeOK
  <2>3. CASE UNCHANGED link BY <2>3 DEF TypeOK
  <2> QED BY <2>1, <2>2, <2>3 DEF Commit, CommitClasses, CommitPreferred
<1>6. rows' \in [Users -> [Buttons -> Accounts \cup {None}]]
  BY DEF Commit, CommitLink, CommitClasses, CommitUnlink, CommitPreferred, TypeOK, NoRows
<1>7. pref' \in [Users -> Buttons \cup {None}]
  BY DEF Commit, CommitLink, CommitClasses, CommitUnlink, CommitPreferred, TypeOK
<1> QED BY <1>3, <1>4, <1>5, <1>6, <1>7

-----------------------------------------------------------------------------
(* The steps of a job. *)

\* The types of what only jobs change.
JobTypes ==
    /\ pc \in [Jobs -> Labels]
    /\ user \in [Jobs -> Users \cup {None}]
    /\ account \in [Jobs -> Accounts \cup {None}]
    /\ got \in [Jobs -> SUBSET Buttons]
    /\ choice \in [Jobs -> Buttons \cup {None}]
    /\ daily \in [Jobs -> BOOLEAN]
    /\ todo \in [Jobs -> SUBSET (Users \X Accounts)]

\* A job step is a commit for its user, an invalidation, or neither.
LEMMA JobKinds ==
    ASSUME TypeOK, JobLocals, NEW j \in Jobs, Job(j)
    PROVE  \/ /\ user[j] \in Users /\ Commit(user[j])
              /\ pc'[j] \in {"linked", "committed"} /\ user' = user
              /\ pc[j] \notin {"linked", "committed"}
              /\ UNCHANGED cache
           \/ /\ user[j] \in Users /\ cache' = [cache EXCEPT ![user[j]] = None]
              /\ pc'[j] \notin {"linked", "committed"}
              /\ UNCHANGED dataVars
           \/ /\ pc[j] \notin {"linked", "committed"}
              /\ UNCHANGED <<dataVars, cache>>
<1>1. CASE ConnectCommit(j)
  BY <1>1 DEF ConnectCommit, Goto, JobLocals, TypeOK, Commit
<1>2. CASE SyncCommit(j)
  BY <1>2 DEF SyncCommit, Goto, JobLocals, TypeOK, Commit
<1>3. CASE UnlinkCommit(j)
  BY <1>3 DEF UnlinkCommit, Goto, JobLocals, TypeOK, Commit
<1>4. CASE PrefCommit(j)
  BY <1>4 DEF PrefCommit, Goto, JobLocals, TypeOK, Commit
<1>5. CASE ConnectInvalidate(j)
  BY <1>5 DEF ConnectInvalidate, InvalidateUser, Goto, JobLocals, TypeOK
<1>6. CASE Invalidate(j)
  BY <1>6 DEF Invalidate, InvalidateUser, Finish, Goto, JobLocals, TypeOK
<1>7. CASE \/ \E u \in Users :
                \/ ConnectFails(j, u) \/ SyncStart(j, u) \/ UnlinkStart(j, u)
                \/ \E a \in Accounts : ConnectLookup(j, u, a)
                \/ \E b \in Buttons \cup {None} : PrefStart(j, u, b)
           \/ Fetch(j) \/ TxFails(j) \/ SyncAllStart(j) \/ SyncAllNext(j) \/ SyncAllEnd(j)
  BY <1>7 DEF ConnectFails, SyncStart, UnlinkStart, ConnectLookup, PrefStart, Start, Fetch,
              TxFails, SyncAllStart, SyncAllNext, SyncAllEnd
<1> QED BY <1>1, <1>2, <1>3, <1>4, <1>5, <1>6, <1>7 DEF Job

\* A job leaves the other jobs alone and finds in its locals what it put there.
JobKept(j) ==
    /\ JobTypes'
    /\ \A i \in Jobs \ {j} : pc'[i] = pc[i] /\ user'[i] = user[i]
    /\ \A i \in Jobs :
          /\ pc'[i] \notin {"new", "all", "done"} => user'[i] \in Users
          /\ pc'[i] \in {"link", "linked", "fetch", "store"} => account'[i] \in Accounts
          /\ pc'[i] = "store" => got'[i] # {}

LEMMA JobStep ==
    ASSUME TypeOK, JobLocals, NEW j \in Jobs, Job(j)
    PROVE  JobKept(j)
<1> USE DEF JobKept, TypeOK, JobTypes, JobLocals, Labels, Goto, Finish, Start
<1>1. ASSUME NEW u \in Users, NEW a \in Accounts, ConnectLookup(j, u, a) PROVE JobKept(j)
  BY <1>1 DEF ConnectLookup
<1>2. ASSUME NEW u \in Users, ConnectFails(j, u) PROVE JobKept(j) BY <1>2 DEF ConnectFails
<1>3. CASE ConnectCommit(j) BY <1>3 DEF ConnectCommit
<1>4. CASE ConnectInvalidate(j) BY <1>4 DEF ConnectInvalidate
<1>5. ASSUME NEW u \in Users, SyncStart(j, u) PROVE JobKept(j) BY <1>5 DEF SyncStart
<1>6. CASE Fetch(j)
  <2>1. user[j] \in Users /\ account[j] \in Accounts BY <1>6 DEF Fetch
  <2>2. PICK answered \in SUBSET Archive[account[j]] :
          /\ got' = [got EXCEPT ![j] = answered]
          /\ IF answered = {} THEN Finish(j) ELSE Goto(j, "store")
    BY <1>6 DEF Fetch
  <2>3. answered \subseteq Buttons BY <2>1
  <2>4. UNCHANGED <<user, account, choice, daily, todo>> BY <1>6 DEF Fetch
  <2>5. pc' = [pc EXCEPT ![j] = IF answered # {} THEN "store"
                                ELSE IF daily[j] THEN "all" ELSE "done"]
    BY <2>2
  <2>6. got'[j] = answered BY <2>2
  <2> QED BY <2>1, <2>2, <2>3, <2>4, <2>5, <2>6
<1>7. CASE SyncCommit(j) BY <1>7 DEF SyncCommit
<1>8. CASE Invalidate(j) BY <1>8 DEF Invalidate
<1>9. ASSUME NEW u \in Users, UnlinkStart(j, u) PROVE JobKept(j) BY <1>9 DEF UnlinkStart
<1>10. CASE UnlinkCommit(j) BY <1>10 DEF UnlinkCommit
<1>11. ASSUME NEW u \in Users, NEW b \in Buttons \cup {None}, PrefStart(j, u, b) PROVE JobKept(j)
  BY <1>11 DEF PrefStart
<1>12. CASE PrefCommit(j) BY <1>12 DEF PrefCommit
<1>13. CASE TxFails(j) BY <1>13 DEF TxFails
<1>14. CASE SyncAllStart(j)
  <2> DEFINE T == {<<u, link[u].account>> : u \in {v \in Users : link[v].active}}
  <2>1. T \in SUBSET (Users \X Accounts) BY <1>14
  <2>3. todo' = [todo EXCEPT ![j] = T] BY <1>14 DEF SyncAllStart
  <2> HIDE DEF T
  <2>4. todo' \in [Jobs -> SUBSET (Users \X Accounts)] BY <2>1, <2>3
  <2>5. /\ pc' = [pc EXCEPT ![j] = "all"]
        /\ daily' = [daily EXCEPT ![j] = TRUE]
        /\ UNCHANGED <<user, account, got, choice>>
    BY <1>14 DEF SyncAllStart
  <2> QED BY <2>4, <2>5
<1>15. CASE SyncAllNext(j)
  <2>1. PICK l \in todo[j] :
          /\ user' = [user EXCEPT ![j] = l[1]]
          /\ account' = [account EXCEPT ![j] = l[2]]
          /\ todo' = [todo EXCEPT ![j] = @ \ {l}]
    BY <1>15 DEF SyncAllNext
  <2>2. todo[j] \in SUBSET (Users \X Accounts) OBVIOUS
  <2>3. l[1] \in Users /\ l[2] \in Accounts BY <2>1, <2>2
  <2>4. todo' \in [Jobs -> SUBSET (Users \X Accounts)] BY <2>1, <2>2
  <2>5. pc' = [pc EXCEPT ![j] = "fetch"] /\ UNCHANGED <<got, choice, daily>>
    BY <1>15 DEF SyncAllNext
  <2> QED BY <2>1, <2>3, <2>4, <2>5
<1>16. CASE SyncAllEnd(j) BY <1>16 DEF SyncAllEnd
<1> HIDE DEF JobKept, TypeOK, JobTypes, JobLocals, Labels, Goto, Finish, Start
<1> QED
  BY <1>1, <1>2, <1>3, <1>4, <1>5, <1>6, <1>7, <1>8, <1>9, <1>10, <1>11, <1>12, <1>13, <1>14,
     <1>15, <1>16 DEF Job

LookupTypes ==
    /\ lookup \in [Lookups ->
          [at : {"idle", "link", "rows", "set"}, user : Users \cup {None},
           pref : Buttons \cup {None}, result : Results \cup {None}, ver : Nat]]
    /\ \A f \in Lookups : lookup[f].at = "set" => lookup[f].result \in Results

LEMMA JobIInv ==
    ASSUME IInv, NEW j \in Jobs, Job(j), UNCHANGED lookup
    PROVE  IInv'
<1>0. TypeOK /\ JobLocals /\ LookupLocals /\ StaleOnlyIfRaced BY DEF IInv
<1>1. JobTypes' /\ \A i \in Jobs \ {j} : pc'[i] = pc[i] /\ user'[i] = user[i]
  BY <1>0, JobStep DEF JobKept
<1>2. ASSUME NEW u \in Users, user[j] = u, Commit(u), UNCHANGED cache, user' = user,
             pc'[j] \in {"linked", "committed"}
      PROVE  IInv'
  <2>1. /\ ver' = [ver EXCEPT ![u] = @ + 1]
        /\ \A v \in Users \ {u} : View(v)' = View(v) /\ link'[v] = link[v] /\ pref'[v] = pref[v]
    BY <1>0, <1>2, CommitEffect DEF View
  <2>2. TypeOK'
    <3>1. ver' \in [Users -> Nat] BY <1>0, <2>1 DEF TypeOK
    <3>2. /\ link' \in [Users -> [account : Accounts \cup {None}, active : BOOLEAN]]
          /\ rows' \in [Users -> [Buttons -> Accounts \cup {None}]]
          /\ pref' \in [Users -> Buttons \cup {None}]
      BY <1>0, <1>2, CommitEffect
    <3>3. cache' \in [Users -> [result : Results, raced : BOOLEAN] \cup {None}]
      BY <1>0, <1>2 DEF TypeOK
    <3>4. LookupTypes' BY <1>0 DEF TypeOK, LookupTypes
    <3> QED BY <1>1, <3>1, <3>2, <3>3, <3>4 DEF TypeOK, JobTypes, LookupTypes
  <2>3. JobLocals'
    BY <1>0, <1>2, CommitEffect, JobStep DEF JobLocals, JobKept
  <2>4. LookupLocals'
    <3>1. SUFFICES ASSUME NEW f \in Lookups, lookup[f].at # "idle"
                   PROVE  LET l == lookup[f] IN
                          /\ l.user \in Users
                          /\ l.ver <= ver'[l.user]
                          /\ l.ver = ver'[l.user] =>
                                /\ l.at \in {"link", "rows"} => l.pref = pref'[l.user]
                                /\ l.at = "rows" => link'[l.user].active
                                /\ l.at = "set" => l.result = View(l.user)'
      BY DEF LookupLocals
    <3>2. lookup[f].user \in Users /\ lookup[f].ver \in Nat /\ ver \in [Users -> Nat]
      BY <1>0, <3>1 DEF LookupLocals, TypeOK
    <3>3. CASE lookup[f].user = u
      BY <1>0, <2>1, <3>1, <3>2, <3>3 DEF LookupLocals
    <3>4. CASE lookup[f].user # u
      BY <1>0, <2>1, <3>1, <3>2, <3>4 DEF LookupLocals
    <3> QED BY <3>3, <3>4
  <2>5. StaleOnlyIfRaced'
    <3>1. SUFFICES ASSUME NEW v \in Users, ~Fresh(v)'
                   PROVE  Invalidating(v)' \/ cache'[v].raced
      BY DEF StaleOnlyIfRaced
    <3>2. CASE v = u BY <1>2, <3>2 DEF Invalidating, MustInvalidate
    <3>3. CASE v # u
      <4>1. ~Fresh(v) BY <1>2, <2>1, <3>1, <3>3 DEF Fresh, Cached
      <4>2. CASE \E i \in Jobs : MustInvalidate(i, v)
        <5>1. PICK i \in Jobs : MustInvalidate(i, v) BY <4>2
        <5>2. i # j BY <1>2, <3>3, <5>1 DEF MustInvalidate
        <5> QED BY <1>1, <5>1, <5>2 DEF Invalidating, MustInvalidate
      <4>3. CASE cache[v].raced BY <1>2, <4>3
      <4> QED BY <1>0, <4>1, <4>2, <4>3 DEF StaleOnlyIfRaced, Invalidating
    <3> QED BY <3>2, <3>3
  <2> QED BY <2>2, <2>3, <2>4, <2>5 DEF IInv
<1>3. ASSUME UNCHANGED dataVars,
             \/ UNCHANGED cache /\ pc[j] \notin {"linked", "committed"}
             \/ user[j] \in Users /\ cache' = [cache EXCEPT ![user[j]] = None]
      PROVE  IInv'
  <2>1. \A v \in Users : View(v)' = View(v) BY <1>3 DEF View, dataVars
  <2>2. cache' \in [Users -> [result : Results, raced : BOOLEAN] \cup {None}]
    <3> DEFINE E == [result : Results, raced : BOOLEAN] \cup {None}
    <3>1. cache \in [Users -> E] /\ None \in E BY <1>0 DEF TypeOK
    <3> HIDE DEF E
    <3>2. cache' \in [Users -> E] BY <1>3, <3>1
    <3> QED BY <3>2 DEF E
  <2>3. TypeOK' BY <1>0, <1>1, <1>3, <2>2 DEF TypeOK, JobTypes, dataVars
  <2>4. JobLocals' BY <1>0, <1>3, JobStep DEF JobLocals, dataVars, JobKept
  <2>5. LookupLocals' BY <1>0, <1>3, <2>1 DEF LookupLocals, dataVars
  <2>6. StaleOnlyIfRaced'
    <3>1. SUFFICES ASSUME NEW v \in Users, ~Fresh(v)'
                   PROVE  Invalidating(v)' \/ cache'[v].raced
      BY DEF StaleOnlyIfRaced
    <3>2. cache'[v] = cache[v] /\ (user[j] # v \/ pc[j] \notin {"linked", "committed"})
      BY <1>0, <1>3, <3>1 DEF Fresh, Cached, TypeOK
    <3>3. ~Fresh(v) BY <2>1, <3>1, <3>2 DEF Fresh, Cached
    <3>4. CASE \E i \in Jobs : MustInvalidate(i, v)
      <4>1. PICK i \in Jobs : MustInvalidate(i, v) BY <3>4
      <4>2. i # j BY <3>2, <4>1 DEF MustInvalidate
      <4> QED BY <1>1, <4>1, <4>2 DEF Invalidating, MustInvalidate
    <3>5. CASE cache[v].raced BY <3>2, <3>5
    <3> QED BY <1>0, <3>3, <3>4, <3>5 DEF StaleOnlyIfRaced, Invalidating
  <2> QED BY <2>3, <2>4, <2>5, <2>6 DEF IInv
<1> QED BY <1>0, <1>2, <1>3, JobKinds

-----------------------------------------------------------------------------
(* The steps of a lookup, and the TTL. *)

LEMMA LookupIInv ==
    ASSUME IInv, NEW f \in Lookups, Lookup(f), UNCHANGED jobVars
    PROVE  IInv'
<1>0. TypeOK /\ JobLocals /\ LookupLocals /\ StaleOnlyIfRaced BY DEF IInv
<1> DEFINE l == lookup[f]
<1>1. UNCHANGED <<dataVars, pc, user>> /\ JobTypes'
  BY <1>0 DEF Lookup, ReadUser, ReadLink, ReadRows, ReadFails, Fill, jobVars, TypeOK, JobTypes
<1>2. \A v \in Users : View(v)' = View(v) /\ (Invalidating(v)' <=> Invalidating(v))
  BY <1>1 DEF View, dataVars, Invalidating, MustInvalidate
<1>3. JobLocals' BY <1>0, <1>1 DEF JobLocals, jobVars, dataVars
<1>4. LookupTypes' /\ LookupLocals' /\ \A g \in Lookups \ {f} : lookup'[g] = lookup[g]
  <2> DEFINE LType == [at : {"idle", "link", "rows", "set"}, user : Users \cup {None},
                       pref : Buttons \cup {None}, result : Results \cup {None}, ver : Nat]
             Good(x) == /\ x \in LType
                        /\ x.at = "set" => x.result \in Results
                        /\ x.at # "idle" =>
                              /\ x.user \in Users
                              /\ x.ver <= ver[x.user]
                              /\ x.ver = ver[x.user] =>
                                    /\ x.at \in {"link", "rows"} => x.pref = pref[x.user]
                                    /\ x.at = "rows" => link[x.user].active
                                    /\ x.at = "set" => x.result = View(x.user)
  <2>1. \A g \in Lookups : Good(lookup[g]) BY <1>0 DEF TypeOK, LookupLocals
  <2>2. ASSUME NEW x, Good(x), lookup' = [lookup EXCEPT ![f] = x]
        PROVE  LookupTypes' /\ LookupLocals' /\ \A g \in Lookups \ {f} : lookup'[g] = lookup[g]
    <3>1. lookup \in [Lookups -> LType] BY <1>0 DEF TypeOK
    <3>2. \A g \in Lookups : lookup'[g] = IF g = f THEN x ELSE lookup[g] BY <2>2, <3>1
    <3>3. \A g \in Lookups : Good(lookup'[g]) BY <2>1, <2>2, <3>2
    <3>4. lookup' \in [Lookups -> LType] BY <2>2, <3>1
    <3>5. LookupTypes' BY <3>3, <3>4 DEF LookupTypes
    <3>6. LookupLocals' BY <1>1, <1>2, <3>3 DEF LookupLocals, dataVars
    <3> QED BY <3>2, <3>5, <3>6
  <2>3. ver \in [Users -> Nat] /\ pref \in [Users -> Buttons \cup {None}]
        /\ rows \in [Users -> [Buttons -> Accounts \cup {None}]]
        /\ \A v \in Users : link[v].active \in BOOLEAN
    BY <1>0 DEF TypeOK
  <2>4. ASSUME NEW u \in Users, ReadUser(f, u)
        PROVE  LookupTypes' /\ LookupLocals' /\ \A g \in Lookups \ {f} : lookup'[g] = lookup[g]
    <3> DEFINE x == [at |-> "link", user |-> u, pref |-> pref[u], result |-> None, ver |-> ver[u]]
    <3>1. Good(x) BY <2>3
    <3>2. lookup' = [lookup EXCEPT ![f] = x] BY <2>4 DEF ReadUser
    <3> QED BY <2>2, <3>1, <3>2
  <2>5. CASE ReadLink(f)
    <3>1. l.at = "link" /\ l \in LType /\ l.user \in Users BY <2>1, <2>5 DEF ReadLink
    <3>2. CASE link[l.user].active
      <4> DEFINE x == [l EXCEPT !.at = "rows"]
      <4>1. Good(x) BY <2>1, <3>1, <3>2
      <4>2. lookup' = [lookup EXCEPT ![f] = x] BY <2>5, <3>2 DEF ReadLink
      <4> QED BY <2>2, <4>1, <4>2
    <3>3. CASE ~link[l.user].active
      <4> DEFINE x == [l EXCEPT !.at = "set", !.result = Result(None, FALSE, NoRows)]
      <4>1. Result(None, FALSE, NoRows) \in Results /\ Result(None, FALSE, NoRows) = View(l.user)
        BY <3>3 DEF Result, View, Results, Badge
      <4>2. Good(x) BY <2>1, <3>1, <3>3, <4>1
      <4>3. lookup' = [lookup EXCEPT ![f] = x] BY <2>5, <3>3 DEF ReadLink
      <4> QED BY <2>2, <4>2, <4>3
    <3> QED BY <3>2, <3>3
  <2>6. CASE ReadRows(f)
    <3> DEFINE r == Result(l.pref, TRUE, rows[l.user])
               x == [l EXCEPT !.at = "set", !.result = r]
    <3>1. l.at = "rows" /\ l \in LType /\ l.user \in Users BY <2>1, <2>6 DEF ReadRows
    <3>2. r \in Results BY <2>3, <3>1, ResultType
    <3>3. l.ver = ver[l.user] => r = View(l.user)
      BY <2>1, <2>3, <3>1 DEF View
    <3> HIDE DEF r
    <3>4. Good(x) BY <2>1, <3>1, <3>2, <3>3
    <3>5. lookup' = [lookup EXCEPT ![f] = x] BY <2>6 DEF ReadRows, r
    <3> QED BY <2>2, <3>4, <3>5
  <2>7. CASE ReadFails(f) \/ Fill(f)
    <3>1. Good(Idle) BY DEF Idle
    <3>2. lookup' = [lookup EXCEPT ![f] = Idle] BY <2>7 DEF ReadFails, Fill
    <3> QED BY <2>2, <3>1, <3>2
  <2> QED BY <2>4, <2>5, <2>6, <2>7 DEF Lookup
<1>5. CASE Fill(f)
  <2>1. l.at = "set" /\ l.user \in Users /\ l.result \in Results
        /\ (l.ver = ver[l.user] => l.result = View(l.user))
    BY <1>0, <1>5 DEF Fill, LookupLocals, TypeOK
  <2> DEFINE E == {None} \cup [result : Results, raced : BOOLEAN]
             e == [result |-> l.result, raced |-> l.ver # ver[l.user]]
  <2>2. cache' = [cache EXCEPT ![l.user] = e] BY <1>5 DEF Fill
  <2>3. e \in E BY <2>1
  <2>4. cache' \in [Users -> E] BY <1>0, <2>1, <2>2, <2>3 DEF TypeOK
  <2>5. StaleOnlyIfRaced'
    <3>1. SUFFICES ASSUME NEW v \in Users, ~Fresh(v)'
                   PROVE  Invalidating(v)' \/ cache'[v].raced
      BY DEF StaleOnlyIfRaced
    <3>2. CASE v = l.user
      <4>1. cache'[v] = e BY <1>0, <2>2, <3>2 DEF TypeOK
      <4>2. e.result = l.result /\ e.raced = (l.ver # ver[l.user]) OBVIOUS
      <4>3. e.result # View(v) BY <1>2, <3>1, <4>1 DEF Fresh, Cached
      <4>4. l.ver # ver[l.user] BY <2>1, <3>2, <4>2, <4>3
      <4> QED BY <4>1, <4>2, <4>4
    <3>3. CASE v # l.user
      <4>1. cache'[v] = cache[v] BY <1>0, <2>2, <3>3 DEF TypeOK
      <4> QED BY <1>0, <1>2, <3>1, <4>1 DEF Fresh, Cached, StaleOnlyIfRaced
    <3> QED BY <3>2, <3>3
  <2>6. TypeOK' BY <1>0, <1>1, <1>4, <2>4 DEF TypeOK, JobTypes, LookupTypes, dataVars
  <2> QED BY <1>3, <1>4, <2>5, <2>6 DEF IInv
<1>6. CASE ~Fill(f)
  <2>1. UNCHANGED cache BY <1>6 DEF Lookup, ReadUser, ReadLink, ReadRows, ReadFails
  <2>2. TypeOK' BY <1>0, <1>1, <1>4, <2>1 DEF TypeOK, JobTypes, LookupTypes, dataVars
  <2>3. StaleOnlyIfRaced' BY <1>0, <1>2, <2>1 DEF StaleOnlyIfRaced, Fresh, Cached
  <2> QED BY <1>3, <1>4, <2>2, <2>3 DEF IInv
<1> QED BY <1>5, <1>6

LEMMA ExpireIInv ==
    ASSUME IInv, NEW u \in Users, Expire(u), UNCHANGED jobVars
    PROVE  IInv'
<1>0. TypeOK /\ JobLocals /\ LookupLocals /\ StaleOnlyIfRaced BY DEF IInv
<1>1. cache' = [cache EXCEPT ![u] = None] /\ UNCHANGED <<dataVars, lookup, jobVars>>
  BY DEF Expire
<1>2. \A v \in Users : View(v)' = View(v) /\ (Invalidating(v)' <=> Invalidating(v))
  BY <1>1 DEF View, dataVars, jobVars, Invalidating, MustInvalidate
<1>3. TypeOK'
  <2> DEFINE E == {None} \cup [result : Results, raced : BOOLEAN]
  <2>1. cache' \in [Users -> E] BY <1>0, <1>1 DEF TypeOK
  <2> QED BY <1>0, <1>1, <2>1 DEF TypeOK, dataVars, jobVars
<1>4. JobLocals' BY <1>0, <1>1 DEF JobLocals, dataVars, jobVars
<1>5. LookupLocals' BY <1>0, <1>1, <1>2 DEF LookupLocals, dataVars
<1>6. StaleOnlyIfRaced'
  BY <1>0, <1>1, <1>2 DEF StaleOnlyIfRaced, Fresh, Cached, TypeOK
<1> QED BY <1>3, <1>4, <1>5, <1>6 DEF IInv
-----------------------------------------------------------------------------
(* The theorems. *)

LEMMA StepIInv == IInv /\ [Next]_vars => IInv'
<1> SUFFICES ASSUME IInv, [Next]_vars PROVE IInv'
  OBVIOUS
<1>1. CASE \E j \in Jobs : Job(j) /\ UNCHANGED lookup BY <1>1, JobIInv
<1>2. CASE \E f \in Lookups : Lookup(f) /\ UNCHANGED jobVars BY <1>2, LookupIInv
<1>3. CASE \E u \in Users : Expire(u) /\ UNCHANGED jobVars BY <1>3, ExpireIInv
<1>4. CASE UNCHANGED vars
  BY <1>4 DEF vars, dataVars, jobVars, IInv, TypeOK, JobLocals, LookupLocals, StaleOnlyIfRaced,
              Fresh, Cached, View, Invalidating, MustInvalidate
<1> QED BY <1>1, <1>2, <1>3, <1>4 DEF Next

\* Jobs and lookups keep IInv, however they interleave.
THEOREM BadgesInductive == Spec => []IInv
<1> QED BY InitIInv, StepIInv, PTL DEF Spec

\* Every variable keeps its type; in particular what a lookup is about to
\* cache is always a complete result.
THEOREM BadgesTypeCorrect == Spec => []TypeOK
<1>1. IInv => TypeOK BY DEF IInv
<1> QED BY <1>1, BadgesInductive, PTL

\* Every committing path of package link is followed by its invalidation: a
\* stale badge is one a lookup cached across a commit, or about to be dropped.
THEOREM StaleBadgesExplained == Spec => []StaleOnlyIfRaced
<1>1. IInv => StaleOnlyIfRaced BY DEF IInv
<1> QED BY <1>1, BadgesInductive, PTL

\* What a step does to the classes: nothing, a sync that replaces them with
\* some of one account, or an unlink.
LEMMA RowsStep ==
    ASSUME IInv, [Next]_vars
    PROVE  \/ UNCHANGED rows
           \/ \E u \in Users, a \in Accounts, g \in (SUBSET Buttons) \ {{}} :
                 rows' = [rows EXCEPT ![u] = [b \in Buttons |-> IF b \in g THEN a ELSE None]]
           \/ \E u \in Users :
                 /\ rows' = [rows EXCEPT ![u] = NoRows]
                 /\ link' = [link EXCEPT ![u].active = FALSE]
<1>0. TypeOK /\ JobLocals BY DEF IInv
<1>1. ASSUME NEW j \in Jobs, Job(j)
      PROVE  UNCHANGED rows \/ (user[j] \in Users /\ Commit(user[j]))
  BY <1>0, <1>1, JobKinds DEF dataVars
<1>2. ASSUME NEW u \in Users, Commit(u)
      PROVE  \/ UNCHANGED rows
             \/ \E a \in Accounts, g \in (SUBSET Buttons) \ {{}} :
                   rows' = [rows EXCEPT ![u] = [b \in Buttons |-> IF b \in g THEN a ELSE None]]
             \/ /\ rows' = [rows EXCEPT ![u] = NoRows]
                /\ link' = [link EXCEPT ![u].active = FALSE]
  BY <1>2 DEF Commit, CommitLink, CommitClasses, CommitUnlink, CommitPreferred
<1>3. ASSUME NEW f \in Lookups, Lookup(f) PROVE UNCHANGED rows
  BY <1>3 DEF Lookup, ReadUser, ReadLink, ReadRows, ReadFails, Fill, dataVars
<1>4. ASSUME NEW u \in Users, Expire(u) PROVE UNCHANGED rows
  BY <1>4 DEF Expire, dataVars
<1>5. CASE UNCHANGED vars BY <1>5 DEF vars, dataVars
<1>6. CASE \E j \in Jobs : Job(j) BY <1>1, <1>2, <1>6
<1> QED BY <1>3, <1>4, <1>5, <1>6 DEF Next

\* Whatever two syncs, a relink and an unlink do between each other's steps, a
\* user never has the classes of two V-ARCHIVE accounts.
THEOREM ClassesOfOneAccount == Spec => []OneSource
<1>1. Init => OneSource BY DEF Init, DataInit, NoRows, OneSource
<1>2. IInv /\ OneSource /\ [Next]_vars => OneSource'
  <2> SUFFICES ASSUME IInv, OneSource, [Next]_vars PROVE OneSource'
    OBVIOUS
  <2>1. rows \in [Users -> [Buttons -> Accounts \cup {None}]] BY DEF IInv, TypeOK
  <2>2. CASE UNCHANGED rows BY <2>2 DEF OneSource
  <2>3. ASSUME NEW u \in Users, NEW a \in Accounts, NEW g \in SUBSET Buttons,
               rows' = [rows EXCEPT ![u] = [b \in Buttons |-> IF b \in g THEN a ELSE None]]
        PROVE  OneSource'
    BY <2>1, <2>3 DEF OneSource
  <2>4. ASSUME NEW u \in Users, rows' = [rows EXCEPT ![u] = NoRows] PROVE OneSource'
    BY <2>1, <2>4 DEF OneSource, NoRows
  <2> QED BY <2>2, <2>3, <2>4, RowsStep
<1> QED BY <1>1, <1>2, BadgesInductive, PTL DEF Spec

\* Only a step that ends the link takes a user's last class away; an empty
\* fetch, a rollback or a lost race never does.
THEOREM OnlyUnlinkClears == Spec => ClassesKept
<1>1. IInv /\ [Next]_vars =>
        [\A u \in Users : HasRows(rows[u]) /\ ~HasRows(rows'[u]) => ~link'[u].active]_vars
  <2> SUFFICES ASSUME IInv, [Next]_vars, NEW u \in Users, HasRows(rows[u]), ~HasRows(rows'[u])
               PROVE  ~link'[u].active
    OBVIOUS
  <2>1. /\ rows \in [Users -> [Buttons -> Accounts \cup {None}]]
        /\ link \in [Users -> [account : Accounts \cup {None}, active : BOOLEAN]]
    BY DEF IInv, TypeOK
  <2>2. ~UNCHANGED rows OBVIOUS
  <2>3. ASSUME NEW v \in Users, NEW a \in Accounts, NEW g \in (SUBSET Buttons) \ {{}},
               rows' = [rows EXCEPT ![v] = [b \in Buttons |-> IF b \in g THEN a ELSE None]]
        PROVE  FALSE
    <3>1. v = u BY <2>1, <2>3
    <3>2. PICK b \in g : TRUE BY <2>3
    <3>3. rows'[u][b] = a /\ a # None BY <2>1, <2>3, <3>1, <3>2
    <3> QED BY <3>2, <3>3 DEF HasRows
  <2>4. ASSUME NEW v \in Users, rows' = [rows EXCEPT ![v] = NoRows],
               link' = [link EXCEPT ![v].active = FALSE]
        PROVE  ~link'[u].active
    <3>1. v = u BY <2>1, <2>4
    <3> QED BY <2>1, <2>4, <3>1
  <2> QED BY <2>2, <2>3, <2>4, RowsStep
<1> QED BY <1>1, BadgesInductive, PTL DEF Spec, ClassesKept

-----------------------------------------------------------------------------
(* DjClass: SortKey is README's order, and Resolve returns the row that    *)
(* README promises.  Its variables are those of one call of Resolve.       *)

VARIABLES list, preferred, sel, phase, cursor, best

Dj == INSTANCE DjClass WITH rows <- list, pc <- phase, i <- cursor

Key == Int \X Int \X Int

LEMMA KeyType == \A r \in Dj!Row : Dj!SortKey(r) \in Key
  <1>1. SUFFICES ASSUME NEW r \in Dj!Row PROVE Dj!SortKey(r) \in Key
    OBVIOUS
  <1>2. r.rank \in Int /\ r.level \in Int
    BY DEF Dj!Row, Dj!NoRank, Dj!RankCount
  <1>3. Dj!buttonPreference(r.button) \in Int
    BY DEF Dj!buttonPreference
  <1>4. Dj!levelValue(r.level) \in Int
    BY <1>2 DEF Dj!levelValue
  <1> QED
    BY <1>2, <1>3, <1>4 DEF Dj!SortKey, Key, Dj!RankCount

\* The order on keys is strict and total.
LEMMA GreaterOrder ==
  ASSUME NEW a \in Key, NEW b \in Key, NEW c \in Key
  PROVE  /\ ~Dj!Greater(a, a)
         /\ Dj!Greater(a, b) => ~Dj!Greater(b, a)
         /\ Dj!Greater(a, b) /\ ~Dj!Greater(c, b) => Dj!Greater(a, c)
  BY DEF Dj!Greater, Key

\* SortKey is README's order, on all classes that V-ARCHIVE has.
THEOREM KeyIsReadmeOrder ==
  \A r, s \in Dj!Row :
    Dj!Known(r) /\ Dj!Known(s) => (Dj!Greater(Dj!SortKey(r), Dj!SortKey(s)) <=> Dj!Above(r, s))
  <1>1. SUFFICES ASSUME NEW r \in Dj!Row, NEW s \in Dj!Row, Dj!Known(r), Dj!Known(s)
                 PROVE  Dj!Greater(Dj!SortKey(r), Dj!SortKey(s)) <=> Dj!Above(r, s)
    OBVIOUS
  <1>2. /\ r.rank \in 0 .. 13 /\ s.rank \in 0 .. 13 /\ r.level \in 0 .. 10 /\ s.level \in 0 .. 10
        /\ r.button \in {4, 5, 6, 8} /\ s.button \in {4, 5, 6, 8}
    BY <1>1 DEF Dj!Row, Dj!Known, Dj!NoRank, Dj!RankCount
  <1>3. Dj!SortKey(r)[1] > Dj!SortKey(s)[1] <=> r.rank < s.rank
    BY <1>2 DEF Dj!SortKey, Dj!NoRank, Dj!RankCount
  <1>4. Dj!SortKey(r)[1] = Dj!SortKey(s)[1] <=> r.rank = s.rank
    BY <1>2 DEF Dj!SortKey, Dj!NoRank, Dj!RankCount
  <1>5. ASSUME r.rank = s.rank
        PROVE  /\ Dj!SortKey(r)[2] > Dj!SortKey(s)[2] <=> Dj!Step(r) < Dj!Step(s)
               /\ Dj!SortKey(r)[2] = Dj!SortKey(s)[2] <=> Dj!Step(r) = Dj!Step(s)
    <2>1. CASE r.rank = Dj!LoD
      BY <1>1, <1>5, <2>1 DEF Dj!SortKey, Dj!Step, Dj!Known, Dj!LoD, Dj!levelValue
    <2>2. CASE r.rank = Dj!Beginner
      BY <1>1, <1>5, <2>2 DEF Dj!SortKey, Dj!Step, Dj!Known, Dj!LoD, Dj!Beginner, Dj!levelValue
    <2>3. CASE r.rank \notin {Dj!LoD, Dj!Beginner}
      <3>1. r.level \in 1 .. 4 /\ s.level \in 1 .. 4
        BY <1>1, <1>5, <2>3 DEF Dj!Known
      <3> QED
        BY <1>5, <2>3, <3>1 DEF Dj!SortKey, Dj!Step, Dj!levelValue
    <2> QED
      BY <2>1, <2>2, <2>3
  <1>6. Dj!SortKey(r)[3] > Dj!SortKey(s)[3] <=> Dj!ButtonAbove(r.button, s.button)
    BY <1>2 DEF Dj!SortKey, Dj!buttonPreference, Dj!ButtonAbove
  <1> QED
    BY <1>3, <1>4, <1>5, <1>6 DEF Dj!Greater, Dj!Above

\* Known classes of different buttons never have the same key.
LEMMA KeysDiffer ==
  \A r, s \in Dj!Row : Dj!Known(r) /\ Dj!Known(s) /\ r.button # s.button
    => Dj!Greater(Dj!SortKey(r), Dj!SortKey(s)) \/ Dj!Greater(Dj!SortKey(s), Dj!SortKey(r))
  <1>1. SUFFICES ASSUME NEW r \in Dj!Row, NEW s \in Dj!Row, Dj!Known(r), Dj!Known(s),
                        r.button # s.button
                 PROVE  \/ Dj!Greater(Dj!SortKey(r), Dj!SortKey(s))
                        \/ Dj!Greater(Dj!SortKey(s), Dj!SortKey(r))
    OBVIOUS
  <1>2. Dj!SortKey(r)[3] # Dj!SortKey(s)[3]
    BY <1>1 DEF Dj!SortKey, Dj!Known, Dj!buttonPreference
  <1>3. Dj!SortKey(r) \in Key /\ Dj!SortKey(s) \in Key
    BY KeyType
  <1> QED
    BY <1>2, <1>3 DEF Dj!Greater, Key

\* A better class never has a lower floor of DJ POWER: the table agrees with
\* the order of ranks and levels.
THEOREM FloorsFollowTheOrder ==
  \A r, s \in Dj!Row :
    Dj!Known(r) /\ Dj!Known(s) /\ (r.rank < s.rank \/ (r.rank = s.rank /\ r.level < s.level))
      => Dj!Threshold(r.rank, r.level) > Dj!Threshold(s.rank, s.level)
  <1>1. SUFFICES ASSUME NEW r \in Dj!Row, NEW s \in Dj!Row, Dj!Known(r), Dj!Known(s),
                        r.rank < s.rank \/ (r.rank = s.rank /\ r.level < s.level)
                 PROVE  Dj!Threshold(r.rank, r.level) > Dj!Threshold(s.rank, s.level)
    OBVIOUS
  <1>2. /\ r.rank \in 0 .. 13 /\ s.rank \in 0 .. 13
        /\ r.level \in 0 .. 10 /\ s.level \in 0 .. 10
    BY <1>1 DEF Dj!Row, Dj!Known, Dj!NoRank, Dj!RankCount
  <1> DEFINE Low(k)  == Dj!Floors[k][4]
             High(k) == Dj!Floors[k][1]
  <1>3. \A k \in 1 .. 12 : \A l \in 1 .. 4 :
           Dj!Floors[k][l] \in Int /\ Low(k) <= Dj!Floors[k][l] /\ Dj!Floors[k][l] <= High(k)
           /\ 0 < Low(k) /\ High(k) < 9980
    BY SMT DEF Dj!Floors
  <1>4. \A k \in 1 .. 12, l \in 1 .. 12 : k < l => Low(k) > High(l)
    BY SMT DEF Dj!Floors
  <1>5. \A k \in 1 .. 12 : \A l, m \in 1 .. 4 : l < m => Dj!Floors[k][l] > Dj!Floors[k][m]
    BY SMT DEF Dj!Floors
  <1>6. \A q \in {r, s} : q.rank \in 1 .. 12 =>
           q.level \in 1 .. 4 /\ Dj!Threshold(q.rank, q.level) = Dj!Floors[q.rank][q.level]
    BY <1>1, <1>2, SMT DEF Dj!Known, Dj!Threshold, Dj!LoD, Dj!Beginner
  <1>7. \A q \in {r, s} :
           /\ q.rank = 0 => Dj!Threshold(q.rank, q.level) = 9980 /\ q.level = 0
           /\ q.rank = 13 => Dj!Threshold(q.rank, q.level) = 0 /\ q.level = 0
    BY <1>1, SMT DEF Dj!Known, Dj!Threshold, Dj!LoD, Dj!Beginner
  <1>8. CASE r.rank \in 1 .. 12 /\ s.rank \in 1 .. 12
    <2>1. CASE r.rank = s.rank
      BY <1>1, <1>5, <1>6, <1>8, <2>1
    <2>2. CASE r.rank < s.rank
      <3> DEFINE f == Dj!Floors[r.rank][r.level]
                 g == Dj!Floors[s.rank][s.level]
      <3>1. Dj!Threshold(r.rank, r.level) = f /\ Dj!Threshold(s.rank, s.level) = g
            /\ r.level \in 1 .. 4 /\ s.level \in 1 .. 4
        BY <1>6, <1>8
      <3>2. f \in Int /\ Low(r.rank) <= f
        BY <1>3, <1>8, <3>1
      <3>3. g \in Int /\ g <= High(s.rank)
        BY <1>3, <1>8, <3>1
      <3>4. Low(r.rank) > High(s.rank)
        BY <1>4, <1>8, <2>2
      <3>5. Low(r.rank) \in Int /\ High(s.rank) \in Int
        BY <1>8 DEF Dj!Floors
      <3>6. f > g
        <4> HIDE DEF f, g, Low, High
        <4> QED BY <3>2, <3>3, <3>4, <3>5
      <3> QED BY <3>1, <3>6
    <2> QED
      BY <1>1, <2>1, <2>2
  <1>9. CASE ~(r.rank \in 1 .. 12 /\ s.rank \in 1 .. 12)
    <2>1. \A q \in {r, s} : q.rank \in 1 .. 12 =>
             /\ Dj!Threshold(q.rank, q.level) \in Int
             /\ 0 < Dj!Threshold(q.rank, q.level) /\ Dj!Threshold(q.rank, q.level) < 9980
      <3>1. \A k \in 1 .. 12 : \A l \in 1 .. 4 : 0 < Dj!Floors[k][l] /\ Dj!Floors[k][l] < 9980
        BY SMT DEF Dj!Floors
      <3>2. \A k \in 1 .. 12 : \A l \in 1 .. 4 : Dj!Floors[k][l] \in Int
        BY <1>3
      <3>3. ASSUME NEW q \in {r, s}, q.rank \in 1 .. 12
            PROVE  /\ q.level \in 1 .. 4
                   /\ Dj!Threshold(q.rank, q.level) = Dj!Floors[q.rank][q.level]
        BY <1>6, <3>3
      <3>4. ASSUME NEW q \in {r, s}, q.rank \in 1 .. 12
            PROVE  /\ Dj!Threshold(q.rank, q.level) \in Int
                   /\ 0 < Dj!Threshold(q.rank, q.level) /\ Dj!Threshold(q.rank, q.level) < 9980
        <4>1. q.rank \in 1 .. 12 /\ q.level \in 1 .. 4
          BY ONLY <3>3, <3>4, q \in {r, s}, Zenon
        <4>2. /\ Dj!Floors[q.rank][q.level] \in Int
              /\ 0 < Dj!Floors[q.rank][q.level] /\ Dj!Floors[q.rank][q.level] < 9980
          BY ONLY <3>1, <3>2, <4>1, SMT
        <4> QED
          BY ONLY <3>3, <3>4, <4>2, q \in {r, s}, SMT
      <3> QED
        BY ONLY <3>4, SMT
    <2>2. \A q \in {r, s} : q.rank = 0 \/ q.rank \in 1 .. 12 \/ q.rank = 13
      BY <1>2
    <2>3. r.rank \in Int /\ s.rank \in Int /\ r.rank <= s.rank
      BY <1>1, <1>2
    <2>4. CASE r.rank = 0
      <3>1. s.rank \in 1 .. 12 \/ s.rank = 13
        BY <1>1, <1>7, <2>2, <2>3, <2>4
      <3> QED
        BY <1>7, <2>1, <2>4, <3>1
    <2>5. CASE r.rank \in 1 .. 12
      <3>1. s.rank = 13
        BY <1>9, <2>2, <2>3, <2>5
      <3> QED
        BY <1>7, <2>1, <2>5, <3>1
    <2>6. CASE r.rank = 13
      <3>1. s.rank = 13 /\ r.level = 0 /\ s.level = 0
        BY <1>7, <2>2, <2>3, <2>6
      <3> QED
        BY <1>1, <2>6, <3>1
    <2> HIDE DEF Low, High
    <2> QED
      BY <2>2, <2>4, <2>5, <2>6
  <1> QED
    BY <1>8, <1>9

\* A badge is marked as theory exactly for a raw conversion of theory, although
\* it is computed from the integer power.
THEOREM TheoryMark ==
  \A r \in Dj!Row : Dj!BuildBadge(r).isTheory <=> Dj!IsTheoryConversion(r.conversion)
  <1>1. ASSUME NEW conv \in {Dj!Nil} \cup Nat
        PROVE  Dj!IsTheoryPower(Dj!ToPowerInteger(conv)) <=> Dj!IsTheoryConversion(conv)
    <2>1. conv \in Nat => (conv \div 10000 >= 10000 <=> conv >= 100000000) /\ conv \div 10000 \in Nat
      BY SMT
    <2> QED
      BY <1>1, <2>1, SMT
      DEF Dj!IsTheoryPower, Dj!ToPowerInteger, Dj!IsTheoryConversion, Dj!TheoryPower,
          Dj!TheoryConversion, Dj!Nil
  <1>2. \A r \in Dj!Row : r.conversion \in {Dj!Nil} \cup Nat
    BY DEF Dj!Row
  <1> QED
    BY <1>1, <1>2 DEF Dj!BuildBadge

-----------------------------------------------------------------------------
LEMMA InitInv == Dj!Init => Dj!IInv
  BY DEF Dj!Init, Dj!IInv, Dj!TypeOK, Dj!Loops, Dj!ReturnsFirstGreatest

LEMMA StartInv == Dj!IInv /\ Dj!Enter => Dj!IInv'
  <1>1. SUFFICES ASSUME Dj!IInv, Dj!Enter PROVE Dj!IInv'
    OBVIOUS
  <1> USE <1>1 DEF Dj!IInv, Dj!Enter
  <1>2. Dj!TypeOK'
    BY DEF Dj!TypeOK, Dj!Return, Dj!FromTheFirst
  <1>3. CASE list = <<>> /\ Dj!Return(0)
    BY <1>2, <1>3 DEF Dj!TypeOK, Dj!Loops, Dj!ReturnsFirstGreatest, Dj!Return
  <1>4. CASE list # <<>> /\ ~Dj!UsesPreference /\ Dj!FromTheFirst
    <2>1. ~Dj!Beats(1, 1)
      <3>1. list[1] \in Dj!Row
        BY <1>4 DEF Dj!TypeOK
      <3> QED
        BY <3>1, KeyType, GreaterOrder DEF Dj!Beats
    <2> QED
      BY <1>2, <1>4, <2>1
      DEF Dj!TypeOK, Dj!Loops, Dj!ReturnsFirstGreatest, Dj!FromTheFirst, Dj!UsesPreference, Dj!Beats
  <1>5. CASE list # <<>> /\ Dj!UsesPreference
             /\ phase' = "prefer" /\ UNCHANGED <<list, preferred, sel, cursor, best>>
    BY <1>2, <1>5 DEF Dj!TypeOK, Dj!Loops, Dj!ReturnsFirstGreatest, Dj!UsesPreference
  <1> QED
    BY <1>3, <1>4, <1>5

LEMMA PreferInv == Dj!IInv /\ Dj!Prefer => Dj!IInv'
  <1>1. SUFFICES ASSUME Dj!IInv, Dj!Prefer PROVE Dj!IInv'
    OBVIOUS
  <1> USE <1>1 DEF Dj!IInv, Dj!Prefer
  <1>2. Dj!TypeOK'
    BY DEF Dj!TypeOK, Dj!Return, Dj!FromTheFirst
  <1>3. CASE cursor > Len(list) /\ Dj!FromTheFirst
    <2>1. ~Dj!Beats(1, 1)
      <3>1. list[1] \in Dj!Row
        BY <1>3 DEF Dj!TypeOK, Dj!Loops
      <3> QED
        BY <3>1, KeyType, GreaterOrder DEF Dj!Beats
    <2>2. ~Dj!Has(preferred)
      BY <1>3 DEF Dj!TypeOK, Dj!Loops, Dj!Has
    <2> QED
      BY <1>2, <1>3, <2>1, <2>2
      DEF Dj!TypeOK, Dj!Loops, Dj!ReturnsFirstGreatest, Dj!FromTheFirst, Dj!UsesPreference,
          Dj!Beats, Dj!Has
  <1>4. CASE cursor \in DOMAIN list /\ list[cursor].button = preferred /\ Dj!Return(cursor)
    BY <1>2, <1>4
    DEF Dj!TypeOK, Dj!Loops, Dj!ReturnsFirstGreatest, Dj!Return, Dj!UsesPreference, Dj!Has
  <1>5. CASE /\ cursor \in DOMAIN list /\ list[cursor].button # preferred /\ cursor' = cursor + 1
             /\ UNCHANGED <<list, preferred, sel, phase, best>>
    BY <1>2, <1>5 DEF Dj!TypeOK, Dj!Loops, Dj!ReturnsFirstGreatest, Dj!UsesPreference
  <1> QED
    BY <1>3, <1>4, <1>5

LEMMA CompareInv == Dj!IInv /\ Dj!Compare => Dj!IInv'
  <1>1. SUFFICES ASSUME Dj!IInv, Dj!Compare PROVE Dj!IInv'
    OBVIOUS
  <1> USE <1>1 DEF Dj!IInv, Dj!Compare
  <1>2. Dj!TypeOK'
    BY DEF Dj!TypeOK, Dj!Return
  <1>3. /\ list # <<>> /\ ~(Dj!UsesPreference /\ Dj!Has(preferred))
        /\ cursor \in 2 .. Len(list) + 1 /\ best \in 1 .. cursor - 1 /\ best \in DOMAIN list
        /\ \A j \in 1 .. cursor - 1 : ~Dj!Beats(j, best) /\ (j < best => Dj!Beats(best, j))
    BY DEF Dj!TypeOK, Dj!Loops
  <1>4. CASE cursor > Len(list) /\ Dj!Return(best)
    BY <1>2, <1>3, <1>4
    DEF Dj!TypeOK, Dj!Loops, Dj!ReturnsFirstGreatest, Dj!Return, Dj!UsesPreference, Dj!Has, Dj!Beats
  <1>5. CASE /\ cursor \in DOMAIN list
             /\ best' = IF Dj!Beats(cursor, best) THEN cursor ELSE best
             /\ cursor' = cursor + 1
             /\ UNCHANGED <<list, preferred, sel, phase>>
    <2>1. \A j \in DOMAIN list : Dj!SortKey(list[j]) \in Key
      BY KeyType DEF Dj!TypeOK
    <2>2. ASSUME NEW j \in 1 .. cursor
          PROVE  ~Dj!Beats(j, best') /\ (j < best' => Dj!Beats(best', j))
      <3>1. CASE Dj!Beats(cursor, best)
        <4>1. best' = cursor
          BY <1>5, <3>1
        <4>2. CASE j = cursor
          <5>1. ~Dj!Beats(cursor, cursor)
            <6>1. Dj!SortKey(list[cursor]) \in Key
              BY <1>5, <2>1
            <6> QED
              BY ONLY <6>1, GreaterOrder, Zenon DEF Dj!Beats
          <5> QED
            BY <4>1, <4>2, <5>1
        <4>3. CASE j < cursor
          <5>1. j \in DOMAIN list /\ ~Dj!Beats(j, best)
            <6>1. cursor \in Nat /\ list \in Seq(Dj!Row) /\ cursor \in 1 .. Len(list)
              BY <1>3, <1>5 DEF Dj!TypeOK
            <6>2. j \in 1 .. cursor - 1
              BY ONLY <4>3, <6>1, j \in 1 .. cursor, SMT
            <6>3. ~Dj!Beats(j, best)
              BY ONLY <1>3, <6>2, Zenon
            <6> QED
              BY ONLY <6>1, <6>2, <6>3, SMT
          <5>2. Dj!Beats(cursor, j)
            <6>1. /\ Dj!SortKey(list[cursor]) \in Key /\ Dj!SortKey(list[best]) \in Key
                  /\ Dj!SortKey(list[j]) \in Key
              BY <1>3, <1>5, <2>1, <5>1
            <6> QED
              BY ONLY <3>1, <5>1, <6>1, GreaterOrder, Zenon DEF Dj!Beats
          <5>3. ~Dj!Beats(j, cursor)
            <6>1. Dj!SortKey(list[cursor]) \in Key /\ Dj!SortKey(list[j]) \in Key
              BY <1>5, <2>1, <5>1
            <6> QED
              BY ONLY <5>2, <6>1, GreaterOrder, Zenon DEF Dj!Beats
          <5> QED
            BY <4>1, <5>2, <5>3
        <4> QED
          BY <1>5, <4>2, <4>3 DEF Dj!TypeOK
      <3>2. CASE ~Dj!Beats(cursor, best)
        BY <1>3, <1>5, <3>2 DEF Dj!TypeOK
      <3> QED
        BY <3>1, <3>2
    <2>3. best' \in 1 .. cursor
      BY <1>3, <1>5
    <2>4. Dj!Loops'
      BY <1>3, <1>5, <2>2, <2>3 DEF Dj!TypeOK, Dj!Loops, Dj!UsesPreference, Dj!Has, Dj!Beats
    <2> QED
      BY <1>2, <1>5, <2>4 DEF Dj!ReturnsFirstGreatest
  <1> QED
    BY <1>4, <1>5

\* The loops' invariant holds throughout.
THEOREM DjClassInductive == Dj!Spec => []Dj!IInv
  <1>1. Dj!IInv /\ [Dj!Next]_(Dj!vars) => Dj!IInv'
    <2>1. Dj!IInv /\ UNCHANGED Dj!vars => Dj!IInv'
      BY DEF Dj!vars, Dj!IInv, Dj!TypeOK, Dj!Loops, Dj!ReturnsFirstGreatest, Dj!UsesPreference,
          Dj!Has, Dj!Beats
    <2> QED
      BY <2>1, StartInv, PreferInv, CompareInv DEF Dj!Next
  <1> QED
    BY <1>1, InitInv, PTL DEF Dj!Spec

\* What Resolve returns, for any rows, also unknown classes and repeated
\* buttons: the preferred button's row, or the first of the greatest.
THEOREM FirstGreatestReturned == Dj!Spec => []Dj!ReturnsFirstGreatest
  <1>1. Dj!IInv => Dj!ReturnsFirstGreatest
    BY DEF Dj!IInv
  <1> QED
    BY <1>1, DjClassInductive, PTL

\* The row shown for a stored player is the one README's order puts above all
\* others: the order in which the rows are read does not matter.
THEOREM PromiseKept == Dj!Spec => []Dj!KeepsThePromise
  <1>1. Dj!IInv => Dj!KeepsThePromise
    <2>1. SUFFICES ASSUME Dj!IInv, phase = "done", list # <<>>, Dj!Stored,
                          ~(Dj!UsesPreference /\ Dj!Has(preferred)),
                          NEW j \in DOMAIN list \ {best}
                   PROVE  Dj!Above(list[best], list[j])
      BY DEF Dj!KeepsThePromise
    <2>2. best \in DOMAIN list /\ ~Dj!Beats(j, best)
      BY <2>1 DEF Dj!IInv, Dj!ReturnsFirstGreatest
    <2>3. list[best] \in Dj!Row /\ list[j] \in Dj!Row
      BY <2>1, <2>2 DEF Dj!IInv, Dj!TypeOK
    <2>4. Dj!Known(list[best]) /\ Dj!Known(list[j]) /\ list[best].button # list[j].button
      BY <2>1, <2>2 DEF Dj!Stored
    <2>5. Dj!Beats(best, j)
      BY <2>2, <2>3, <2>4, KeysDiffer DEF Dj!Beats
    <2> QED
      BY <2>3, <2>4, <2>5, KeyIsReadmeOrder DEF Dj!Beats
  <1> QED
    BY <1>1, DjClassInductive, PTL
=============================================================================
