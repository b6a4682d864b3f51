---------------------------- MODULE TokensProofs ----------------------------
(***************************************************************************)
(* IInv of Tokens is inductive, for any number of workers and windows and  *)
(* any times that fit together: a stored refresh token dies only for one   *)
(* of the reasons DeadOnlyIfLost lists, and no session's access token      *)
(* expires in use.                                                         *)
(***************************************************************************)
EXTENDS Tokens, TLAPS

USE TokensAssumption

LEMMA Initially == Init => IInv
<1> SUFFICES ASSUME Init PROVE IInv
  OBVIOUS
<1> USE DEF Init, Pairs
<1>1. issued \in {0, 1} /\ vague = 1..issued
  OBVIOUS
<1>2. TypeOK
  <2>1. vague \subseteq Pairs
    BY <1>1
  <2>2. accepted \subseteq vague /\ bare \subseteq vague
    OBVIOUS
  <2>3. \A m \in Nat : 0 \in 0..m
    OBVIOUS
  <2> QED BY <2>1, <2>2, <2>3 DEF TypeOK
<1>3. Steps /\ InFlight /\ DeadRefresh /\ DeadLogin
  BY DEF Steps, InFlight, DeadRefresh, DeadLogin
<1>4. stored # None => stored \in vague
  OBVIOUS
<1>5. DeadOnlyIfLost
  BY <1>4 DEF DeadOnlyIfLost
<1>6. InTime
  <2>1. \A p \in UnderWay : p = None
    BY DEF UnderWay
  <2> QED BY <1>4, <2>1 DEF InTime, Young
<1> QED BY <1>2, <1>3, <1>5, <1>6 DEF IInv

-----------------------------------------------------------------------------
(* Type correctness, step by step. *)

LEMMA RevokedPairs == TypeOK => \A b \in Browsers : Revoked(b) \subseteq Pairs
BY DEF TypeOK, Revoked, Pairs

\* What Chzzk issues has the types of its variables.
LEMMA IssueTypes ==
    ASSUME TypeOK, Issue
    PROVE  /\ issued' \in Pairs /\ issued' \in 0..MaxPairs /\ New \subseteq Pairs
           /\ bare' \subseteq Pairs /\ vague' \subseteq Pairs
           /\ life' \in [Pairs -> 0..Life]
<1> USE DEF TypeOK, Issue, Pairs, New
<1>1. issued' \in Pairs /\ issued' \in 0..MaxPairs
  OBVIOUS
<1>2. New \subseteq Pairs /\ bare' \subseteq Pairs /\ vague' \subseteq Pairs
  <2> HIDE DEF Pairs
  <2> QED BY <1>1
<1>3. life' \in [Pairs -> 0..Life]
  <2>1. 0 \in 0..Life /\ Life \in 0..Life
    OBVIOUS
  <2> QED BY <2>1
<1> QED BY <1>1, <1>2, <1>3

LEMMA RecordedTypes == ASSUME TypeOK, NEW p \in Pairs PROVE Recorded(p) \subseteq 0..Life
BY DEF TypeOK, Recorded

LEMMA TypePreserved == IInv /\ [Next]_vars => TypeOK'
<1> SUFFICES ASSUME IInv, [Next]_vars PROVE TypeOK'
  OBVIOUS
<1> USE DEF TypeOK, Fail, Answer, StorePair
<1> TypeOK /\ Steps
  BY DEF IInv
<1>0. Use \in 0..Use /\ 0 \in 0..Use
  OBVIOUS
<1>1. ASSUME NEW c \in Callers, AccessToken(c) \/ Used(c) PROVE TypeOK'
  <2>1. CASE ReadGood(c)
    BY <1>0, <2>1 DEF ReadGood, row, chzzk, ghosts
  <2>2. CASE ReadNear(c)
    BY <2>2 DEF ReadNear, row, chzzk, ghosts
  <2>3. CASE Refreshed(c)
    <3>1. accepted' \subseteq Pairs
      BY <2>3, IssueTypes DEF Refreshed
    <3> QED BY <2>3, <3>1, IssueTypes DEF Refreshed, row, ghosts
  <2>4. CASE RefreshFails(c)
    BY <2>4 DEF RefreshFails, row, chzzk, ghosts
  <2>5. CASE AnswerLost(c)
    <3>1. lost' \subseteq Pairs /\ accepted' \subseteq Pairs
      BY <2>5, Steps DEF AnswerLost
    <3> QED BY <2>5, <3>1 DEF AnswerLost, row
  <2>6. CASE Save(c)
    <3>1. got[c] \in Pairs /\ got[c] # None
      BY <2>6 DEF Save, Steps
    <3>2. expiry' \in 0..Life
      BY <2>6, <3>1, RecordedTypes DEF Save
    <3> QED BY <1>0, <2>6, <3>1, <3>2 DEF Save, chzzk
  <2>7. CASE SaveFails(c)
    <3>1. lost' \subseteq Pairs
      BY <2>7 DEF SaveFails, Steps
    <3> QED BY <2>7, <3>1 DEF SaveFails, row, chzzk
  <2>8. CASE Used(c)
    BY <1>0, <2>8 DEF Used, row, chzzk, ghosts
  <2> QED BY <1>1, <2>1, <2>2, <2>3, <2>4, <2>5, <2>6, <2>7, <2>8 DEF AccessToken
<1>2. ASSUME NEW b \in Browsers, Callback(b) PROVE TypeOK'
  <2>1. CASE ExchangeCode(b)
    <3>1. accepted' \subseteq Pairs
      BY <2>1, IssueTypes DEF ExchangeCode
    <3> QED BY <2>1, <3>1, IssueTypes DEF ExchangeCode, row, local, ghosts
  <2>2. CASE SaveLogin(b)
    <3>1. login[b] \in Pairs
      BY <2>2 DEF SaveLogin
    <3>2. overtaken' \subseteq Pairs
      BY <2>2, <3>1 DEF SaveLogin
    <3>3. newest' \in 0..MaxPairs
      BY <2>2, <3>1 DEF SaveLogin, Pairs
    <3>4. stored' \in Pairs /\ login' \in [Browsers -> Pairs \cup {None}]
      BY <2>2, <3>1 DEF SaveLogin
    <3>5. expiry' \in 0..Life
      BY <2>2, <3>1, RecordedTypes DEF SaveLogin
    <3> QED BY <2>2, <3>2, <3>3, <3>4, <3>5 DEF SaveLogin, local, chzzk
  <2>3. CASE LoginFails(b)
    <3>1. lost' \subseteq Pairs
      BY <2>3, RevokedPairs DEF LoginFails
    <3> QED BY <2>3, <3>1 DEF LoginFails, row, local, chzzk
  <2> QED BY <1>2, <2>1, <2>2, <2>3 DEF Callback
<1>3. CASE Tick
  <2>1. \A m \in Nat : \A n \in 0..m : Less(n) \in 0..m
    BY DEF Less
  <2>2. life' \in [Pairs -> 0..Life]
    BY <1>3, <2>1 DEF Tick
  <2>3. left' \in [Callers -> 0..Use]
    BY <1>3, <2>1 DEF Tick
  <2>4. expiry' \in 0..Life \cup {None}
    BY <1>3, <2>1 DEF Tick
  <2> QED BY <1>3, <2>2, <2>3, <2>4 DEF Tick, ghosts
<1>4. CASE Crash
  <2>1. Unsaved \subseteq Pairs
    BY DEF Steps, Unsaved
  <2>2. UNION {Revoked(b) : b \in Browsers} \subseteq Pairs
    BY RevokedPairs
  <2>3. lost' \subseteq Pairs
    BY <1>4, <2>1, <2>2 DEF Crash
  <2> QED BY <1>0, <1>4, <2>3 DEF Crash, row, chzzk
<1>5. CASE UNCHANGED vars
  BY <1>5 DEF vars, row, local, chzzk, ghosts
<1> QED BY <1>1, <1>2, <1>3, <1>4, <1>5 DEF Next

-----------------------------------------------------------------------------
(* The rest of IInv, action by action. *)

Rest == Steps /\ InFlight /\ DeadRefresh /\ DeadLogin /\ DeadOnlyIfLost

LEMMA CallPreserves ==
    ASSUME IInv, TypeOK', NEW c \in Callers, AccessToken(c) \/ Used(c) PROVE Rest'
<1> USE DEF IInv, TypeOK, Pairs, Rest, Fail, Answer
<1>1. CASE ReadGood(c) \/ Used(c)
  <2> USE <1>1 DEF ReadGood, Used, row, chzzk, ghosts
  <2>1. /\ UNCHANGED <<stored, accepted, issued, bare, lost, overtaken, newest, login>>
        /\ at' \in [Callers -> {"idle", "refresh", "save", "use"}]
        /\ read' = read /\ got' = got /\ read[c] = None /\ got[c] = None
        /\ at[c] \in {"idle", "use"} /\ at'[c] \in {"idle", "use"}
        /\ \A d \in Callers \ {c} : at'[d] = at[d] /\ result'[d] = result[d]
    BY DEF Steps
  <2>2. Steps'
    <3>1. at'[c] = "use" <=> result'[c] # None
      BY DEF Steps
    <3>2. Steps
      OBVIOUS
    <3> HIDE <1>1 DEF ReadGood, Used, IInv, TypeOK, Fail, Answer
    <3> QED BY <2>1, <3>1, <3>2 DEF Steps
  <2>3. InFlight'
    BY <2>1 DEF InFlight, Unstored
  <2>4. DeadRefresh' /\ DeadLogin'
    BY <2>1 DEF DeadRefresh, DeadLogin, LaterLogin
  <2>5. DeadOnlyIfLost'
    BY <2>1 DEF DeadOnlyIfLost, BeingRefreshed, LaterLogin
  <2> QED BY <2>2, <2>3, <2>4, <2>5
<1>2. CASE ReadNear(c)
  <2> USE <1>2 DEF ReadNear, row, chzzk, ghosts
  <2>1. Steps' /\ InFlight'
    BY DEF Steps, InFlight, Unstored
  <2>2. DeadRefresh' /\ DeadLogin' /\ DeadOnlyIfLost'
    BY DEF Steps, DeadRefresh, DeadLogin, DeadOnlyIfLost, BeingRefreshed, LaterLogin
  <2> QED BY <2>1, <2>2
<1>3. CASE Refreshed(c)
  <2> USE <1>3 DEF Refreshed, row, ghosts, Issue, New
  <2>1. Steps'
    BY DEF Steps
  <2>2. InFlight'
    <3>1. /\ issued' = issued + 1 /\ issued \in Nat /\ UNCHANGED <<stored, read, login>>
          /\ got' = [got EXCEPT ![c] = issued']
      OBVIOUS
    <3>2. \A p \in Pairs : Unstored(p) => Unstored(p)' /\ p # issued'
      BY <3>1 DEF Unstored
    <3>3. /\ issued' # stored /\ \A d \in Callers : issued' # read[d]
          /\ \A d \in Callers : issued' # got[d]
          /\ \A b \in Browsers : issued' # login[b]
      <4>1. \A p \in Pairs \cup {None} : (p # None => p <= issued) => issued' # p
        BY <3>1
      <4>2. stored # None => stored <= issued
        BY DEF InFlight
      <4>3. \A d \in Callers : read[d] # None => read[d] <= issued
        BY DEF InFlight
      <4>4. \A d \in Callers : got[d] # None => got[d] <= issued
        BY DEF InFlight, Unstored
      <4>5. \A b \in Browsers : login[b] # None => login[b] <= issued
        BY DEF InFlight, Unstored
      <4> QED BY <4>1, <4>2, <4>3, <4>4, <4>5
    <3>4. /\ \A d \in Callers \ {c} : got'[d] = got[d]
          /\ got'[c] = issued' /\ got[c] = None
      BY <3>1 DEF Steps
    <3>5. \A d \in Callers : got'[d] # None =>
            /\ got'[d] <= issued' /\ got'[d] # stored'
            /\ \A e \in Callers : got'[d] # read'[e]
      BY <3>1, <3>2, <3>3, <3>4 DEF InFlight, Unstored
    <3>6. \A b \in Browsers : login'[b] # None =>
            /\ login'[b] <= issued' /\ login'[b] # stored'
            /\ \A e \in Callers : login'[b] # read'[e]
      BY <3>1, <3>2 DEF InFlight, Unstored
    <3> QED BY <3>1, <3>3, <3>4, <3>5, <3>6 DEF InFlight, Unstored
  <2>3. DeadRefresh'
    <3>1. /\ got'[c] = issued' /\ read[c] \in accepted /\ UNCHANGED <<stored, read, login, lost>>
          /\ \A d \in Callers \ {c} : got'[d] = got[d]
          /\ bare \subseteq bare' /\ (issued' \in accepted' \/ issued' \in bare')
          /\ \A p \in Pairs : p \in accepted /\ p # read[c] => p \in accepted'
      OBVIOUS
    <3>2. \A d \in Callers : got[d] # None => got[d] \in Pairs /\ got[d] # read[c]
      BY DEF InFlight, Unstored
    <3>3. DeadRefresh
      OBVIOUS
    <3> HIDE <1>3 DEF Refreshed, IInv, TypeOK, Issue, New
    <3> QED BY <3>1, <3>2, <3>3 DEF DeadRefresh, LaterLogin
  <2>4. DeadLogin'
    BY DEF DeadLogin, InFlight, Unstored, LaterLogin
  <2>5. DeadOnlyIfLost'
    BY DEF DeadOnlyIfLost, BeingRefreshed, LaterLogin, Steps
  <2> QED BY <2>1, <2>2, <2>3, <2>4, <2>5
<1>4. CASE RefreshFails(c)
  <2> USE <1>4 DEF RefreshFails, row, chzzk, ghosts
  <2>1. Steps' /\ InFlight'
    BY DEF Steps, InFlight, Unstored
  <2>2. DeadRefresh' /\ DeadLogin' /\ DeadOnlyIfLost'
    BY DEF Steps, DeadRefresh, DeadLogin, DeadOnlyIfLost, BeingRefreshed, LaterLogin
  <2> QED BY <2>1, <2>2
<1>5. CASE AnswerLost(c)
  <2> USE <1>5 DEF AnswerLost, row
  <2>1. Steps'
    BY DEF Steps
  <2>2. InFlight'
    BY DEF InFlight, Unstored, Steps
  <2>3. DeadRefresh'
    BY DEF DeadRefresh, InFlight, Unstored, Steps, LaterLogin
  <2>4. DeadLogin'
    BY DEF DeadLogin, InFlight, Unstored, LaterLogin
  <2>5. DeadOnlyIfLost'
    BY DEF DeadOnlyIfLost, BeingRefreshed, LaterLogin, Steps
  <2> QED BY <2>1, <2>2, <2>3, <2>4, <2>5
<1>6. CASE Save(c)
  <2> USE <1>6 DEF Save, chzzk, StorePair
  <2>0. got[c] # None /\ got[c] \in Nat
    BY DEF Steps
  <2>1. Steps'
    BY <2>0 DEF Steps
  <2>2. InFlight'
    BY <2>0 DEF InFlight, Unstored, Steps
  <2>3. DeadRefresh'
    \* The others that read the same row now find it changed.
    BY <2>0 DEF DeadRefresh, InFlight, Unstored, LaterLogin
  <2>4. DeadLogin'
    BY DEF DeadLogin, LaterLogin
  <2>5. DeadOnlyIfLost'
    BY <2>0 DEF DeadOnlyIfLost, DeadRefresh, LaterLogin
  <2> QED BY <2>1, <2>2, <2>3, <2>4, <2>5
<1>7. CASE SaveFails(c)
  <2> USE <1>7 DEF SaveFails, row, chzzk
  <2>1. Steps' /\ InFlight'
    BY DEF Steps, InFlight, Unstored
  <2>2. DeadRefresh' /\ DeadLogin' /\ DeadOnlyIfLost'
    BY DEF Steps, DeadRefresh, DeadLogin, DeadOnlyIfLost, BeingRefreshed, LaterLogin
  <2> QED BY <2>1, <2>2
<1> QED BY <1>1, <1>2, <1>3, <1>4, <1>5, <1>6, <1>7 DEF AccessToken

LEMMA CallbackPreserves == ASSUME IInv, TypeOK', NEW b \in Browsers, Callback(b) PROVE Rest'
<1> USE DEF IInv, TypeOK, Pairs, Rest, local
<1>1. CASE ExchangeCode(b)
  <2> USE <1>1 DEF ExchangeCode, row, ghosts, Issue, New
  <2>1. Steps'
    BY DEF Steps
  <2>2. InFlight'
    BY DEF InFlight, Unstored
  <2>3. DeadRefresh'
    BY DEF DeadRefresh, InFlight, Unstored, LaterLogin
  <2>4. DeadLogin'
    BY DEF DeadLogin, InFlight, Unstored, LaterLogin
  <2>5. DeadOnlyIfLost'
    BY DEF DeadOnlyIfLost, BeingRefreshed, LaterLogin, InFlight
  <2> QED BY <2>1, <2>2, <2>3, <2>4, <2>5
<1>2. CASE SaveLogin(b)
  <2> USE <1>2 DEF SaveLogin, chzzk
  <2>1. Steps'
    BY DEF Steps
  <2>2. InFlight'
    BY DEF InFlight, Unstored
  <2>3. DeadRefresh'
    BY DEF DeadRefresh, InFlight, Unstored
  <2>4. DeadLogin'
    <3>1. /\ login'[b] = None /\ \A a \in Browsers \ {b} : login'[a] = login[a]
          /\ \A a \in Browsers : login[a] # None => login[a] \in Pairs
      OBVIOUS
    <3>2. /\ UNCHANGED <<accepted, lost, bare>> /\ newest <= newest' /\ login[b] <= newest'
          /\ login[b] \in Pairs /\ newest' \in Nat /\ newest \in Nat
      OBVIOUS
    <3>3. DeadLogin
      OBVIOUS
    <3> HIDE <1>2 DEF SaveLogin, IInv, TypeOK
    <3> QED BY <3>1, <3>2, <3>3 DEF DeadLogin, LaterLogin
  <2>5. DeadOnlyIfLost'
    BY DEF DeadOnlyIfLost, DeadLogin, LaterLogin
  <2> QED BY <2>1, <2>2, <2>3, <2>4, <2>5
<1>3. CASE LoginFails(b)
  <2> USE <1>3 DEF LoginFails, row, chzzk, Revoked
  <2>1. Steps'
    BY DEF Steps
  <2>2. InFlight'
    BY DEF InFlight, Unstored
  <2>3. DeadRefresh'
    BY DEF DeadRefresh, LaterLogin
  <2>4. DeadLogin'
    <3>1. /\ login'[b] = None /\ \A a \in Browsers \ {b} : login'[a] = login[a]
          /\ \A a \in Browsers : login[a] # None => login[a] \in Pairs
      OBVIOUS
    <3>2. \A p \in Pairs : p < login[b] /\ p \notin accepted => p \in lost'
      OBVIOUS
    <3>3. UNCHANGED accepted /\ lost \subseteq lost' /\ UNCHANGED <<bare, newest>>
      OBVIOUS
    <3>4. DeadLogin
      OBVIOUS
    <3> HIDE <1>3 DEF LoginFails, IInv, TypeOK, Revoked
    <3> QED BY <3>1, <3>2, <3>3, <3>4 DEF DeadLogin, LaterLogin
  <2>5. DeadOnlyIfLost'
    BY DEF DeadOnlyIfLost, BeingRefreshed, LaterLogin
  <2> QED BY <2>1, <2>2, <2>3, <2>4, <2>5
<1> QED BY <1>1, <1>2, <1>3 DEF Callback

LEMMA WorldPreserves == ASSUME IInv, TypeOK', Tick \/ Crash \/ UNCHANGED vars PROVE Rest'
<1> USE DEF IInv, TypeOK, Rest, Pairs
<1>1. CASE Crash
  <2> USE <1>1 DEF Crash, row, chzzk, Revoked
  <2>1. Steps' /\ InFlight'
    BY DEF Steps, InFlight
  <2>2. DeadRefresh' /\ DeadLogin'
    BY DEF DeadRefresh, DeadLogin
  <2>3. DeadOnlyIfLost'
    <3> SUFFICES ASSUME stored # None, stored \notin accepted,
                        stored \notin lost \cup overtaken \cup bare
                 PROVE  stored \in lost'
      BY DEF DeadOnlyIfLost
    <3>1. CASE BeingRefreshed
      <4>1. PICK c \in Callers : at[c] = "save" /\ read[c] = stored
        BY <3>1 DEF BeingRefreshed
      <4>2. stored \in Unsaved
        BY <4>1 DEF Unsaved
      <4>3. Unsaved \ accepted \subseteq lost'
        BY DEF Crash
      <4> QED BY <4>2, <4>3
    <3>2. ASSUME NEW b \in Browsers, login[b] # None, stored < login[b] PROVE stored \in lost'
      <4>1. stored \in Revoked(b)
        BY <3>2 DEF Revoked
      <4>2. stored \in UNION {Revoked(a) : a \in Browsers}
        BY <4>1
      <4> HIDE DEF Revoked
      <4> QED BY <4>2
    <3> QED BY <3>1, <3>2 DEF DeadOnlyIfLost, LaterLogin
  <2> QED BY <2>1, <2>2, <2>3
<1>2. CASE Tick \/ UNCHANGED vars
  <2>1. UNCHANGED <<stored, at, read, got, result, login, issued, accepted, bare,
                    lost, overtaken, newest>>
    BY <1>2 DEF Tick, vars, row, local, chzzk, ghosts
  <2>2. Steps' /\ InFlight'
    BY <2>1 DEF Steps, InFlight, Unstored
  <2>3. DeadRefresh' /\ DeadLogin' /\ DeadOnlyIfLost'
    BY <2>1 DEF DeadRefresh, DeadLogin, DeadOnlyIfLost, BeingRefreshed, LaterLogin
  <2> QED BY <2>2, <2>3
<1> QED BY <1>1, <1>2

-----------------------------------------------------------------------------
(* Time. *)

\* What is under way after a step that issues one pair or none is what was
\* under way before it, or the new pair.
LEMMA IssueInTime ==
    ASSUME IInv, TypeOK', Issue, UNCHANGED <<row, result, left>>,
           \A c \in Callers : at'[c] = "use" <=> at[c] = "use",
           \A p \in UnderWay' : p \in UnderWay \/ p = issued'
    PROVE  InTime'
<1> USE DEF IInv, TypeOK, InTime, Pairs
<1>1. /\ issued' \in Pairs /\ issued' = issued + 1 /\ vague \subseteq vague'
      /\ \A p \in Pairs : p # issued' => life'[p] = life[p]
      /\ issued' \in vague' \/ life'[issued'] = Life
  BY DEF Issue
<1>2. \A c \in Callers : result'[c] # None => result'[c] <= issued'
  BY <1>1
<1>3. \A p \in UnderWay : p # None => p \in Pairs /\ p <= issued
  BY DEF UnderWay, InFlight, Unstored
<1>4. \A p \in UnderWay : Young(p)'
  BY <1>1, <1>3 DEF Young
<1>5. issued' \in vague' \/ life'[issued'] + Latency >= Life
  BY <1>1
<1>6. \A p \in UnderWay' : Young(p)'
  BY <1>4, <1>5 DEF Young
<1>7. stored' # None => stored' \in vague' \/ (expiry' # None /\ expiry' <= life'[stored'] + Latency)
  BY <1>1 DEF InFlight, row
<1>8. \A c \in Callers : at'[c] = "use" => result'[c] \in vague' \/ life'[result'[c]] > left'[c]
  <2> SUFFICES ASSUME NEW c \in Callers, at[c] = "use"
               PROVE  result[c] \in vague' \/ life'[result[c]] > left[c]
    OBVIOUS
  <2>1. result[c] \in Pairs /\ result[c] <= issued
    BY DEF Steps
  <2> QED BY <1>1, <2>1
<1> QED BY <1>2, <1>6, <1>7, <1>8

\* A step that issues nothing, puts no pair under way, and leaves the row and
\* the sessions alone but for those that end.
LEMMA CalmInTime ==
    ASSUME IInv, TypeOK', UNCHANGED <<row, issued, life, vague>>,
           \A p \in UnderWay' : p \in UnderWay \/ p = None,
           \A c \in Callers : \/ at'[c] # "use" /\ result'[c] = None
                              \/ /\ result'[c] = result[c] /\ left'[c] = left[c]
                                 /\ at'[c] = "use" => at[c] = "use"
    PROVE  InTime'
<1> USE DEF IInv, InTime, row
<1>1. \A c \in Callers : result'[c] # None => result'[c] <= issued'
  OBVIOUS
<1>2. \A p \in UnderWay' : Young(p)'
  BY DEF Young
<1>3. stored' # None => stored' \in vague' \/ (expiry' # None /\ expiry' <= life'[stored'] + Latency)
  OBVIOUS
<1>4. \A c \in Callers : at'[c] = "use" => result'[c] \in vague' \/ life'[result'[c]] > left'[c]
  OBVIOUS
<1> QED BY <1>1, <1>2, <1>3, <1>4

\* What a call or a callback stores was under way.
LEMMA StoredInTime ==
    ASSUME IInv, NEW p \in UnderWay, p # None, NEW e \in Recorded(p)
    PROVE  /\ p \in Pairs /\ p <= issued
           /\ p \in vague \/ (e # None /\ e <= life[p] + Latency /\ life[p] > Use)
<1>1. p \in Pairs /\ p <= issued
  BY DEF UnderWay, IInv, TypeOK, InFlight, Unstored
<1>2. CASE p \notin vague
  <2>1. e \in life[p]..Life
    BY <1>2 DEF Recorded
  <2>2. life[p] + Latency >= Life /\ life[p] \in 0..Life
    BY <1>1, <1>2 DEF IInv, InTime, Young, TypeOK
  <2> QED BY <1>1, <2>1, <2>2
<1> QED BY <1>1, <1>2

LEMMA CallInTime == ASSUME IInv, TypeOK', NEW c \in Callers, AccessToken(c) \/ Used(c) PROVE InTime'
<1> USE DEF Fail, Answer
<1>0. TypeOK /\ Steps /\ InTime
  BY DEF IInv
<1>1. CASE ReadGood(c)
  <2>1. /\ UNCHANGED <<stored, expiry, issued, life, vague, login>> /\ stored \in Pairs
        /\ \A d \in Callers : got'[d] = got[d] \/ got'[d] = None
        /\ result' = [result EXCEPT ![c] = stored] /\ left' = [left EXCEPT ![c] = Use]
        /\ at' = [at EXCEPT ![c] = "use"] /\ (expiry # None => Skew < expiry)
    BY <1>0, <1>1 DEF ReadGood, row, chzzk, TypeOK, Usable
  <2>2. stored <= issued
    BY <2>1 DEF IInv, InFlight, Pairs
  <2>3. \A p \in UnderWay' : Young(p)'
    <3>1. \A p \in UnderWay' : p \in UnderWay \/ p = None
      BY <2>1 DEF UnderWay
    <3> QED BY <1>0, <2>1, <3>1 DEF InTime, Young
  <2>4. stored \in vague \/ life[stored] > Use
    <3>1. CASE stored \notin vague
      <4>1. expiry \in 0..Life /\ expiry <= life[stored] + Latency /\ life[stored] \in 0..Life
        BY <1>0, <2>1, <3>1 DEF InTime, TypeOK, Pairs
      <4> QED BY <2>1, <4>1
    <3> QED BY <3>1
  <2> QED BY <1>0, <2>1, <2>2, <2>3, <2>4 DEF InTime, TypeOK
<1>2. CASE ReadNear(c) \/ RefreshFails(c) \/ AnswerLost(c) \/ SaveFails(c) \/ Used(c)
  <2>1. UNCHANGED <<row, issued, life, vague, login>>
    BY <1>2 DEF ReadNear, RefreshFails, AnswerLost, SaveFails, Used, row, chzzk
  <2>2. \A d \in Callers : got'[d] = got[d] \/ got'[d] = None
    BY <1>0, <1>2 DEF ReadNear, RefreshFails, AnswerLost, SaveFails, Used, TypeOK
  <2>3. \A p \in UnderWay' : p \in UnderWay \/ p = None
    BY <2>1, <2>2 DEF UnderWay
  <2>4. \A d \in Callers : \/ at'[d] # "use" /\ result'[d] = None
                           \/ /\ result'[d] = result[d] /\ left'[d] = left[d]
                              /\ at'[d] = "use" => at[d] = "use"
    BY <1>0, <1>2 DEF ReadNear, RefreshFails, AnswerLost, SaveFails, Used, TypeOK
  <2> QED BY <2>1, <2>3, <2>4, CalmInTime
<1>3. CASE Refreshed(c)
  <2>1. Issue /\ UNCHANGED <<row, result, left, login>>
    BY <1>3 DEF Refreshed
  <2>2. \A d \in Callers : at'[d] = "use" <=> at[d] = "use"
    BY <1>0, <1>3 DEF Refreshed, TypeOK
  <2>3. \A d \in Callers : got'[d] = got[d] \/ got'[d] = issued'
    BY <1>0, <1>3 DEF Refreshed, TypeOK
  <2>4. \A p \in UnderWay' : p \in UnderWay \/ p = issued'
    BY <2>1, <2>3 DEF UnderWay
  <2> QED BY <2>1, <2>2, <2>4, IssueInTime
<1>4. CASE Save(c)
  <2>1. /\ UNCHANGED <<issued, life, vague, login>>
        /\ stored' = got[c] /\ expiry' \in Recorded(got[c]) /\ got[c] # None
        /\ \A d \in Callers : got'[d] = got[d] \/ got'[d] = None
        /\ result' = [result EXCEPT ![c] = got[c]] /\ left' = [left EXCEPT ![c] = Use]
        /\ at' = [at EXCEPT ![c] = "use"]
    BY <1>0, <1>4 DEF Save, chzzk, StorePair, TypeOK, Steps
  <2>2. got[c] \in UnderWay
    BY DEF UnderWay
  <2>3. /\ got[c] \in Pairs /\ got[c] <= issued
        /\ got[c] \in vague \/ (expiry' # None /\ expiry' <= life[got[c]] + Latency /\ life[got[c]] > Use)
    BY <2>1, <2>2, StoredInTime
  <2>4. \A p \in UnderWay' : Young(p)'
    <3>1. \A p \in UnderWay' : p \in UnderWay \/ p = None
      BY <2>1 DEF UnderWay
    <3> QED BY <1>0, <2>1, <3>1 DEF InTime, Young
  <2> QED BY <1>0, <2>1, <2>3, <2>4 DEF InTime, TypeOK
<1> QED BY <1>1, <1>2, <1>3, <1>4 DEF AccessToken

LEMMA CallbackInTime == ASSUME IInv, TypeOK', NEW b \in Browsers, Callback(b) PROVE InTime'
<1>0. TypeOK /\ InTime
  BY DEF IInv
<1>1. CASE ExchangeCode(b)
  <2>1. Issue /\ UNCHANGED <<row, result, left, at, got>>
    BY <1>1 DEF ExchangeCode, local
  <2>2. \A a \in Browsers : login'[a] = login[a] \/ login'[a] = issued'
    BY <1>0, <1>1 DEF ExchangeCode, TypeOK
  <2>3. \A p \in UnderWay' : p \in UnderWay \/ p = issued'
    BY <2>1, <2>2 DEF UnderWay
  <2> QED BY <2>1, <2>3, IssueInTime
<1>2. CASE SaveLogin(b)
  <2>1. /\ UNCHANGED <<issued, life, vague, at, got, result, left>>
        /\ stored' = login[b] /\ expiry' \in Recorded(login[b]) /\ login[b] # None
        /\ \A a \in Browsers : login'[a] = login[a] \/ login'[a] = None
    BY <1>0, <1>2 DEF SaveLogin, local, chzzk, TypeOK
  <2>2. login[b] \in UnderWay
    BY DEF UnderWay
  <2>3. login[b] \in vague \/ (expiry' # None /\ expiry' <= life[login[b]] + Latency)
    BY <2>1, <2>2, StoredInTime
  <2>4. \A p \in UnderWay' : Young(p)'
    <3>1. \A p \in UnderWay' : p \in UnderWay \/ p = None
      BY <2>1 DEF UnderWay
    <3> QED BY <1>0, <2>1, <3>1 DEF InTime, Young
  <2> QED BY <1>0, <2>1, <2>3, <2>4 DEF InTime
<1>3. CASE LoginFails(b)
  <2>1. UNCHANGED <<row, issued, life, vague, at, got, result, left>>
    BY <1>3 DEF LoginFails, local, chzzk
  <2>2. \A a \in Browsers : login'[a] = login[a] \/ login'[a] = None
    BY <1>0, <1>3 DEF LoginFails, TypeOK
  <2>3. \A p \in UnderWay' : p \in UnderWay \/ p = None
    BY <2>1, <2>2 DEF UnderWay
  <2> QED BY <2>1, <2>3, CalmInTime
<1> QED BY <1>1, <1>2, <1>3 DEF Callback

LEMMA WorldInTime == ASSUME IInv, TypeOK', Tick \/ Crash \/ UNCHANGED vars PROVE InTime'
<1>0. TypeOK /\ Steps /\ InTime
  BY DEF IInv
<1>1. CASE Tick
  <2>0. \A m \in Nat : Less(m) \in Nat /\ (m > 0 => Less(m) = m - 1) /\ (m = 0 => Less(m) = 0)
    BY DEF Less
  <2>1. /\ UNCHANGED <<stored, at, got, result, login, issued, vague>>
        /\ \A p \in Pairs : life[p] \in Nat /\ life'[p] = Less(life[p])
        /\ \A c \in Callers : left[c] \in Nat /\ left'[c] = Less(left[c])
    BY <1>0, <1>1 DEF Tick, TypeOK
  <2>2. \A p \in UnderWay' : Young(p)'
    <3> SUFFICES ASSUME NEW p \in UnderWay, p # None, p \notin vague
                 PROVE  life'[p] + Latency >= Life
      BY <2>1 DEF Young, UnderWay
    <3>1. p \in Pairs
      BY <1>0 DEF UnderWay, TypeOK
    <3>2. life[p] > Life - Latency
      BY <1>1 DEF Tick
    <3> QED BY <2>0, <2>1, <3>1, <3>2
  <2>3. stored # None => stored \in vague \/ (expiry' # None /\ expiry' <= life'[stored] + Latency)
    <3> SUFFICES ASSUME stored # None, stored \notin vague
                 PROVE  expiry' # None /\ expiry' <= life'[stored] + Latency
      OBVIOUS
    <3>1. stored \in Pairs /\ expiry \in Nat /\ expiry <= life[stored] + Latency
      BY <1>0 DEF InTime, TypeOK
    <3>2. expiry' = Less(expiry)
      BY <1>1, <3>1 DEF Tick
    <3> QED BY <2>0, <2>1, <3>1, <3>2
  <2>4. ASSUME NEW c \in Callers, at[c] = "use", result[c] \notin vague
        PROVE  life'[result[c]] > left'[c]
    <3>1. result[c] \in Pairs
      BY <1>0, <2>4 DEF Steps, TypeOK
    <3>2. life[result[c]] > left[c] /\ left[c] > 0
      BY <1>0, <1>1, <2>4 DEF InTime, Tick
    <3> QED BY <2>0, <2>1, <3>1, <3>2
  <2> QED BY <1>0, <2>1, <2>2, <2>3, <2>4 DEF InTime
<1>2. CASE Crash
  <2>1. UNCHANGED <<row, issued, life, vague>>
    BY <1>2 DEF Crash, chzzk
  <2>2. \A p \in UnderWay' : p \in UnderWay \/ p = None
    BY <1>2 DEF Crash, UnderWay
  <2>3. \A c \in Callers : at'[c] # "use" /\ result'[c] = None
    BY <1>2 DEF Crash
  <2> QED BY <2>1, <2>2, <2>3, CalmInTime
<1>3. CASE UNCHANGED vars
  <2>1. UNCHANGED <<row, issued, life, vague, login, got, at, result, left>>
    BY <1>3 DEF vars, local, chzzk
  <2>2. \A p \in UnderWay' : p \in UnderWay \/ p = None
    BY <2>1 DEF UnderWay
  <2> QED BY <2>1, <2>2, CalmInTime
<1> QED BY <1>1, <1>2, <1>3

\* IInv holds in every reachable state.
THEOREM TokensInductive == Spec => []IInv
<1>1. IInv /\ [Next]_vars => IInv'
  <2> SUFFICES ASSUME IInv, [Next]_vars PROVE Rest' /\ InTime'
    BY TypePreserved DEF IInv, Rest
  <2>1. TypeOK'
    BY TypePreserved
  <2>2. Rest'
    BY <2>1, CallPreserves, CallbackPreserves, WorldPreserves DEF Next
  <2>3. InTime'
    BY <2>1, CallInTime, CallbackInTime, WorldInTime DEF Next
  <2> QED BY <2>2, <2>3
<1> QED BY Initially, <1>1, PTL DEF Spec

\* Every variable keeps its type.
THEOREM TokensTypeCorrect == Spec => []TypeOK
<1>1. IInv => TypeOK
  BY DEF IInv
<1> QED BY TokensInductive, <1>1, PTL

\* tokens.go:76, "losing it means re-login": a streamer has to log in again
\* only when a pair was lost on its way to the database, stored late, or came
\* without a refresh token.
THEOREM ReloginExplained == Spec => []DeadOnlyIfLost
<1>1. IInv => DeadOnlyIfLost
  BY DEF IInv
<1> QED BY TokensInductive, <1>1, PTL

\* tokens.go:20: no session's access token expires in use, for every refreshSkew
\* that covers the delays before a commit and after an answer.
THEOREM NeverStraddlesExpiry == Spec => []UsedInTime
<1>1. IInv => UsedInTime
  <2> SUFFICES ASSUME IInv, NEW c \in Callers, at[c] = "use", result[c] \notin vague
               PROVE  life[result[c]] > 0
    BY DEF UsedInTime
  <2>1. result[c] \in Pairs /\ left[c] \in 0..Use
    BY DEF IInv, Steps, TypeOK
  <2>2. life[result[c]] > left[c] /\ life[result[c]] \in 0..Life
    BY <2>1 DEF IInv, InTime, TypeOK
  <2> QED BY <2>1, <2>2
<1> QED BY TokensInductive, <1>1, PTL
=============================================================================
