---------------------------- MODULE TablesProofs ----------------------------
(***************************************************************************)
(* Proofs about the two tables of bounded size: Limiter's windows, whatever *)
(* the clients and the limits, and TTLCache's entries.                     *)
(***************************************************************************)
EXTENDS Limiter, TTLCache, FiniteSetTheorems, TLAPS

-----------------------------------------------------------------------------
(* Limiter. *)

USE LimiterAssumption

\* Limit and Window of every key, and what can be said of them.
LEMMA Scopes ==
    \A k \in Clients : /\ Limit[k] \in Nat \ {0} /\ Window[k] \in Nat \ {0}
                      /\ Nil \notin Buckets(k) /\ Buckets(k) \subseteq [age : Nat, count : Nat]
BY DEF Buckets

LEMMA Places ==
    ASSUME NEW k \in Clients
    PROVE  /\ Limit[k] \in Latest(k) /\ 2 * Limit[k] \in Latest(k)
           /\ 1 \in Latest(k) /\ 1 + Limit[k] \in Latest(k) /\ Latest(k) \subseteq Nat
           /\ \A c \in 1..Limit[k] : c \in Latest(k) /\ c + Limit[k] \in Latest(k)
           /\ \A i \in Latest(k) : i <= 2 * Limit[k] /\ (i = 1 \/ (i - 1 \in Latest(k) /\ (i - 1) + 1 = i))
BY Scopes DEF Latest

LEMMA OlderAge ==
    ASSUME NEW k \in Clients
    PROVE  \A m, n \in 0..Window[k] :
             Older(k, m) \in 0..Window[k] /\ m <= Older(k, m) /\ (m <= n => Older(k, m) <= Older(k, n))
BY Scopes DEF Older

\* The types as functions of the key.
LEMMA LimiterTypes ==
    ASSUME LimiterTypeOK, NEW k \in Clients
    PROVE  /\ buckets[k] \in Buckets(k) \cup {Nil}
           /\ cleared[k] \in 0..Window[k] /\ Window[k] \in Nat
           /\ ages[k] \in [Latest(k) -> 0..Window[k]]
           /\ \A i \in Latest(k) : ages[k][i] \in 0..Window[k]
BY Scopes DEF LimiterTypeOK

LEMMA LimiterInitial == LimiterInit => LimiterInv
<1> SUFFICES ASSUME LimiterInit PROVE LimiterInv
  OBVIOUS
<1>1. LimiterTypeOK
  <2>1. \A k \in Clients : 0 \in 0..Window[k] /\ Window[k] \in 0..Window[k]
    BY Scopes
  <2>2. \A k \in Clients : ages[k] \in [Latest(k) -> 0..Window[k]] /\ cleared[k] \in 0..Window[k]
    BY <2>1 DEF LimiterInit
  <2>3. ages = [k \in Clients |-> ages[k]]
    BY DEF LimiterInit
  <2>4. cleared = [k \in Clients |-> cleared[k]]
    BY LimiterAssumption DEF LimiterInit
  <2> QED BY <2>2, <2>3, <2>4 DEF LimiterInit, LimiterTypeOK
<1>2. KeysOf(buckets) = {}
  BY DEF LimiterInit, KeysOf
<1>3. IsFiniteSet(KeysOf(buckets)) /\ Cardinality(KeysOf(buckets)) <= MaxKeys + 1
  BY <1>2, FS_EmptySet
<1>4. \A k \in Clients : cleared[k] = Window[k] /\ \A i \in Latest(k) : ages[k][i] = Window[k]
  BY DEF LimiterInit
<1>5. InOrderOfAge /\ WindowsApart /\ RefusedAtLimit
  BY <1>4, Places, Scopes DEF LimiterInit, InOrderOfAge, WindowsApart, RefusedAtLimit
<1> QED BY <1>1, <1>3, <1>5 DEF LimiterInv, TableBounded

\* What Allow finds after its evictions: a part of the table, not above
\* MaxKeys, from which a running window is missing only when all are.
LEMMA TableKept ==
    ASSUME LimiterInv
    PROVE  /\ Table \in [Clients -> [age : Nat, count : Nat] \cup {Nil}]
           /\ \A k \in Clients : Table[k] \in Buckets(k) \cup {Nil}
           /\ IsFiniteSet(KeysOf(Table)) /\ Cardinality(KeysOf(Table)) <= MaxKeys
           /\ \A k \in Clients : Table[k] = Nil \/ Table[k] = buckets[k]
           /\ ~Clears => \A k \in Clients : Table[k] = Nil => ~Running(buckets, k)
<1>1. /\ buckets \in [Clients -> [age : Nat, count : Nat] \cup {Nil}]
      /\ \A k \in Clients : buckets[k] \in Buckets(k) \cup {Nil}
  BY DEF LimiterInv, TableBounded, LimiterTypeOK
<1>2. \A k \in Clients : Table[k] = Nil \/ Table[k] = buckets[k]
  BY <1>1 DEF Table, Evict
<1>3. /\ Table \in [Clients -> [age : Nat, count : Nat] \cup {Nil}]
      /\ \A k \in Clients : Table[k] \in Buckets(k) \cup {Nil}
  <2>1. Table \in [Clients -> [age : Nat, count : Nat] \cup {Nil}]
    BY <1>1 DEF Table, Evict
  <2> QED BY <1>1, <1>2, <2>1
<1>4. ~Clears => \A k \in Clients : Table[k] = Nil => ~Running(buckets, k)
  BY <1>1 DEF Table, Evict, Running
<1>5. KeysOf(Table) \subseteq KeysOf(buckets)
  BY <1>2 DEF KeysOf
<1>6. IsFiniteSet(KeysOf(Table))
  BY <1>5, FS_Subset DEF LimiterInv
<1>7. Cardinality(KeysOf(Table)) \in Nat
  BY <1>6, FS_CardinalityType
<1>8. Cardinality(KeysOf(Table)) <= MaxKeys
  <2>1. CASE Clears
    <3>1. KeysOf(Table) = {}
      BY <2>1 DEF Table, KeysOf
    <3> QED BY <3>1, FS_EmptySet
  <2>2. CASE ~Clears
    <3>1. ~StillFull(Table)
      BY <2>2 DEF Table, Clears
    <3> QED BY <1>7, <3>1 DEF StillFull
  <2> QED BY <2>1, <2>2
<1> QED BY <1>2, <1>3, <1>4, <1>6, <1>8

\* The answer of Allow and the table that it leaves, whether it admits or not.
LEMMA AllowTypes ==
    ASSUME LimiterInv, NEW k \in Clients, Allow(k)
    PROVE  TableBounded' /\ IsFiniteSet(KeysOf(buckets))'
<1>0. /\ ages = [x \in Clients |-> ages[x]] /\ cleared = [x \in Clients |-> cleared[x]]
      /\ \A x \in Clients : ages[x] \in [Latest(x) -> 0..Window[x]] /\ cleared[x] \in 0..Window[x]
  BY DEF LimiterInv, TableBounded, LimiterTypeOK
<1>1. PICK b \in Buckets(k) : buckets' = [Table EXCEPT ![k] = b]
  <2>1. CASE NewWindow(k)
    <3>1. [age |-> 0, count |-> 1] \in Buckets(k)
      BY Scopes DEF Buckets
    <3> QED BY <2>1, <3>1 DEF NewWindow, Admit, First
  <2>2. CASE Count(k)
    <3>1. Table[k] \in Buckets(k) /\ Table[k].count < Limit[k]
      BY <2>2, TableKept DEF Count, Running, Under
    <3>2. [Table[k] EXCEPT !.count = @ + 1] \in Buckets(k)
      BY <3>1, Scopes DEF Buckets
    <3> QED BY <2>2, <3>2 DEF Count, Admit
  <2>3. CASE Refuse(k)
    <3>1. Table[k] \in Buckets(k) /\ buckets' = Table
      BY <2>3, TableKept DEF Refuse, Running
    <3>2. Table = [Table EXCEPT ![k] = Table[k]]
      BY TableKept
    <3> QED BY <3>1, <3>2
  <2> QED BY <2>1, <2>2, <2>3 DEF Allow
<1>2. /\ buckets' \in [Clients -> [age : Nat, count : Nat] \cup {Nil}]
      /\ \A x \in Clients : buckets'[x] \in Buckets(x) \cup {Nil}
  <2>1. b \in [age : Nat, count : Nat]
    BY Scopes
  <2> QED BY <1>1, <2>1, TableKept
<1>3. KeysOf(buckets') \subseteq KeysOf(Table) \cup {k}
  BY <1>1, TableKept DEF KeysOf
<1>4. /\ IsFiniteSet(KeysOf(Table) \cup {k})
      /\ Cardinality(KeysOf(Table) \cup {k}) <= MaxKeys + 1
      /\ Cardinality(KeysOf(Table) \cup {k}) \in Nat
  <2>1. IsFiniteSet(KeysOf(Table)) /\ Cardinality(KeysOf(Table)) <= MaxKeys
    BY TableKept
  <2>2. Cardinality(KeysOf(Table)) \in Nat
    BY <2>1, FS_CardinalityType
  <2>3. /\ IsFiniteSet(KeysOf(Table) \cup {k})
        /\ \/ Cardinality(KeysOf(Table) \cup {k}) = Cardinality(KeysOf(Table)) + 1
           \/ Cardinality(KeysOf(Table) \cup {k}) = Cardinality(KeysOf(Table))
    BY <2>1, FS_AddElement
  <2> QED BY <2>1, <2>2, <2>3
<1>5. IsFiniteSet(KeysOf(buckets'))
  BY <1>3, <1>4, FS_Subset
<1>6. Cardinality(KeysOf(buckets')) <= MaxKeys + 1
  <2>1. Cardinality(KeysOf(buckets')) <= Cardinality(KeysOf(Table) \cup {k})
    BY <1>3, <1>4, FS_Subset
  <2>2. Cardinality(KeysOf(buckets')) \in Nat
    BY <1>5, FS_CardinalityType
  <2> QED BY <1>4, <2>1, <2>2
<1>7. answer' \in [key : Clients, ok : BOOLEAN]
  <2>1. PICK ok \in BOOLEAN : answer' = [key |-> k, ok |-> ok]
    BY DEF Allow, NewWindow, Count, Refuse, Admit
  <2> QED BY <2>1
<1>8. /\ ages' = [x \in Clients |-> ages'[x]]
      /\ \A x \in Clients : ages'[x] \in [Latest(x) -> 0..Window[x]]
  <2>1. CASE UNCHANGED ages
    BY <1>0, <2>1
  <2>2. CASE ages' = [ages EXCEPT ![k] = [i \in Latest(k) |-> IF i = 1 THEN 0 ELSE ages[k][i - 1]]]
    <3>1. 0 \in 0..Window[k] /\ \A i \in Latest(k) : i = 1 \/ i - 1 \in Latest(k)
      BY Places, Scopes
    <3>2. [i \in Latest(k) |-> IF i = 1 THEN 0 ELSE ages[k][i - 1]] \in [Latest(k) -> 0..Window[k]]
      BY <1>0, <3>1
    <3>3. DOMAIN ages = Clients
      BY <1>0
    <3>4. \A x \in Clients : ages'[x] = IF x = k THEN [i \in Latest(k) |-> IF i = 1 THEN 0 ELSE ages[k][i - 1]]
                                        ELSE ages[x]
      BY <2>2, <3>3
    <3>5. ages' = [x \in Clients |-> ages'[x]]
      BY <2>2, <3>3
    <3> QED BY <1>0, <3>2, <3>4, <3>5
  <2> QED BY <2>1, <2>2 DEF Allow, NewWindow, Count, Refuse, Admit
<1>9. /\ cleared' = [x \in Clients |-> cleared'[x]]
      /\ \A x \in Clients : cleared'[x] \in 0..Window[x]
  <2>1. UNCHANGED cleared \/ cleared' = [x \in Clients |-> 0]
    BY DEF Allow, NewWindow, Count, Refuse, Admit, Clear
  <2>2. \A x \in Clients : 0 \in 0..Window[x]
    BY Scopes
  <2> QED BY <1>0, <2>1, <2>2
<1> QED BY <1>2, <1>5, <1>6, <1>7, <1>8, <1>9 DEF TableBounded, LimiterTypeOK, KeysOf

\* A client without a running window has not been let through Limit times since
\* the table was cleared or within the last Window ticks.
LEMMA OverAndDone ==
    ASSUME LimiterInv, NEW k \in Clients, ~Running(buckets, k)
    PROVE  ages[k][Limit[k]] >= cleared[k]
<1>1. /\ buckets[k] \in Buckets(k) \cup {Nil} /\ cleared[k] \in 0..Window[k] /\ Window[k] \in Nat
      /\ \A i \in Latest(k) : ages[k][i] \in 0..Window[k]
  BY LimiterTypes DEF LimiterInv, TableBounded
<1>2. CASE buckets[k] = Nil
  BY <1>2 DEF LimiterInv, WindowsApart
<1>3. CASE buckets[k] # Nil
  <2> DEFINE c == buckets[k].count
  <2>1. c \in 1..Limit[k] /\ buckets[k].age = Window[k]
    BY <1>1, <1>3 DEF Running, Buckets
  <2>2. ages[k][c] = Window[k]
    BY <1>3, <2>1 DEF LimiterInv, WindowsApart
  <2>3. c \in Latest(k) /\ Limit[k] \in Latest(k) /\ c <= Limit[k]
    BY <2>1, Places
  <2>4. ages[k][c] <= ages[k][Limit[k]]
    BY <2>3 DEF LimiterInv, InOrderOfAge
  <2> HIDE DEF c
  <2> QED BY <1>1, <2>2, <2>3, <2>4
<1> QED BY <1>2, <1>3

\* An admission puts itself before the others.
LEMMA Shifted ==
    ASSUME LimiterInv, NEW k \in Clients, NEW b, Admit(k, b)
    PROVE  /\ ages'[k][1] = 0
           /\ \A i \in Latest(k) : i + 1 \in Latest(k) => ages'[k][i + 1] = ages[k][i]
           /\ \A x \in Clients \ {k} : ages'[x] = ages[x]
<1>1. DOMAIN ages = Clients
  BY DEF LimiterInv, TableBounded, LimiterTypeOK
<1>2. ages' = [ages EXCEPT ![k] = [i \in Latest(k) |-> IF i = 1 THEN 0 ELSE ages[k][i - 1]]]
  BY DEF Admit
<1>3. ages'[k] = [i \in Latest(k) |-> IF i = 1 THEN 0 ELSE ages[k][i - 1]]
  BY <1>1, <1>2
<1>4. 1 \in Latest(k) /\ \A i \in Latest(k) : i + 1 # 1 /\ (i + 1) - 1 = i
  BY Places DEF Latest
<1> QED BY <1>1, <1>2, <1>3, <1>4

LEMMA AllowOrder ==
    ASSUME LimiterInv, NEW k \in Clients, Allow(k)
    PROVE  InOrderOfAge'
<1>1. /\ \A i \in Latest(k) : ages[k][i] \in 0..Window[k]
      /\ \A x \in Clients : \A i, j \in Latest(x) : i <= j => ages[x][i] <= ages[x][j]
  BY LimiterTypes DEF LimiterInv, TableBounded, InOrderOfAge
<1>2. ASSUME NEW b, Admit(k, b) PROVE InOrderOfAge'
  <2>1. ASSUME NEW i \in Latest(k), NEW j \in Latest(k), i <= j PROVE ages'[k][i] <= ages'[k][j]
    <3>1. j = 1 \/ (j - 1 \in Latest(k) /\ (j - 1) + 1 = j)
      BY Places
    <3>2. i = 1 \/ (i - 1 \in Latest(k) /\ (i - 1) + 1 = i)
      BY Places
    <3>3. CASE i = 1 /\ j = 1
      BY <1>2, <3>3, Shifted
    <3>4. CASE i = 1 /\ j - 1 \in Latest(k)
      <4>1. ages'[k][i] = 0 /\ ages'[k][j] = ages[k][j - 1]
        <5>1. (j - 1) + 1 = j
          BY DEF Latest
        <5> QED BY <1>2, <3>4, <5>1, Shifted
      <4>2. ages[k][j - 1] \in 0..Window[k]
        BY <1>1, <3>4
      <4> QED BY <4>1, <4>2
    <3>5. CASE i - 1 \in Latest(k) /\ j - 1 \in Latest(k)
      <4>1. ages'[k][i] = ages[k][i - 1] /\ ages'[k][j] = ages[k][j - 1]
        <5>1. (i - 1) + 1 = i /\ (j - 1) + 1 = j
          BY DEF Latest
        <5> QED BY <1>2, <3>5, <5>1, Shifted
      <4>2. i - 1 <= j - 1
        BY <2>1 DEF Latest
      <4> QED BY <1>1, <3>5, <4>1, <4>2
    <3> QED BY <2>1, <3>1, <3>2, <3>3, <3>4, <3>5 DEF Latest
  <2>2. \A x \in Clients \ {k} : ages'[x] = ages[x]
    BY <1>2, Shifted
  <2> QED BY <1>1, <2>1, <2>2 DEF InOrderOfAge
<1>3. CASE UNCHANGED ages
  BY <1>1, <1>3 DEF InOrderOfAge
<1> QED BY <1>2, <1>3 DEF Allow, NewWindow, Count, Refuse

\* The table has just been cleared: nothing is claimed but of the new window.
LEMMA ClearedApart ==
    ASSUME LimiterInv, NEW k \in Clients, Allow(k), Clears
    PROVE  WindowsApart'
<1>1. Table = [x \in Clients |-> Nil]
  BY DEF Table
<1>2. NewWindow(k)
  BY <1>1 DEF Allow, Count, Refuse, Running
<1>3. /\ cleared' = [x \in Clients |-> 0]
      /\ buckets' = [Table EXCEPT ![k] = [age |-> 0, count |-> 1]]
  BY <1>2 DEF NewWindow, Admit, Clear, First
<1>4. \A x \in Clients : \A i \in Latest(x) : ages'[x][i] >= 0
  <2>1. \A x \in Clients : ages'[x] \in [Latest(x) -> 0..Window[x]]
    BY AllowTypes DEF TableBounded, LimiterTypeOK
  <2>2. \A x \in Clients : \A i \in Latest(x) : ages'[x][i] \in 0..Window[x]
    BY <2>1
  <2> QED BY <2>2, Scopes
<1>5. ages'[k][1] = 0
  BY <1>2, Shifted DEF NewWindow
<1>6. ASSUME NEW x \in Clients, buckets'[x] = Nil
      PROVE  ages'[x][Limit[x]] >= cleared'[x]
  BY <1>3, <1>4, Places
<1>7. ASSUME NEW x \in Clients, buckets'[x] # Nil
      PROVE  /\ ages'[x][buckets'[x].count] = buckets'[x].age
             /\ ages'[x][buckets'[x].count + Limit[x]] >= cleared'[x]
  <2>1. x = k /\ buckets'[x].count = 1 /\ buckets'[x].age = 0
    BY <1>1, <1>3, <1>7
  <2>2. 1 + Limit[k] \in Latest(k)
    BY Places
  <2> QED BY <1>3, <1>4, <1>5, <2>1, <2>2
<1> QED BY <1>6, <1>7 DEF WindowsApart

LEMMA UnclearedApart ==
    ASSUME LimiterInv, NEW k \in Clients, Allow(k), ~Clears
    PROVE  WindowsApart'
<1>1. cleared' = cleared
  BY DEF Allow, NewWindow, Count, Refuse, Admit, Clear
<1>2. \A x \in Clients : ~Running(Table, x) => ages[x][Limit[x]] >= cleared[x]
  <2>1. \A x \in Clients : ~Running(Table, x) => ~Running(buckets, x)
    BY TableKept DEF Running
  <2> QED BY <2>1, OverAndDone
<1>3. \A x \in Clients : Table[x] # Nil =>
        /\ Table[x].count \in 1..Limit[x]
        /\ ages[x][Table[x].count] = Table[x].age
        /\ ages[x][Table[x].count + Limit[x]] >= cleared[x]
  <2> SUFFICES ASSUME NEW x \in Clients, Table[x] # Nil
               PROVE  /\ Table[x].count \in 1..Limit[x]
                      /\ ages[x][Table[x].count] = Table[x].age
                      /\ ages[x][Table[x].count + Limit[x]] >= cleared[x]
    OBVIOUS
  <2>1. Table[x] = buckets[x] /\ Table[x] \in Buckets(x)
    BY TableKept
  <2> QED BY <2>1 DEF LimiterInv, WindowsApart, Buckets
<1>4. ASSUME NEW x \in Clients, buckets'[x] = Table[x], ages'[x] = ages[x]
      PROVE  IF buckets'[x] = Nil THEN ages'[x][Limit[x]] >= cleared'[x]
             ELSE /\ ages'[x][buckets'[x].count] = buckets'[x].age
                  /\ ages'[x][buckets'[x].count + Limit[x]] >= cleared'[x]
  BY <1>1, <1>2, <1>3, <1>4 DEF Running
<1>5. CASE Refuse(k)
  BY <1>4, <1>5 DEF Refuse, WindowsApart
<1>6. ASSUME NEW b \in Buckets(k), Admit(k, b), b # Nil,
             ages'[k][b.count] = b.age, ages'[k][b.count + Limit[k]] >= cleared[k]
      PROVE  WindowsApart'
  <2>1. buckets'[k] = b /\ \A x \in Clients \ {k} : buckets'[x] = Table[x]
    BY <1>6, TableKept DEF Admit
  <2>2. \A x \in Clients \ {k} : ages'[x] = ages[x]
    BY <1>6, Shifted
  <2> QED BY <1>1, <1>4, <1>6, <2>1, <2>2 DEF WindowsApart
<1>7. CASE NewWindow(k)
  <2> DEFINE b == [age |-> 0, count |-> 1]
  <2>1. Admit(k, b) /\ ~Running(Table, k)
    BY <1>7 DEF NewWindow, First
  <2>2. b \in Buckets(k) /\ b # Nil /\ b.age = 0 /\ b.count = 1
    <3>1. b \in Buckets(k)
      BY Scopes DEF Buckets
    <3> QED BY <3>1, Scopes
  <2>3. ages'[k][1] = 0 /\ ages'[k][1 + Limit[k]] = ages[k][Limit[k]]
    <3>1. Limit[k] \in Latest(k) /\ Limit[k] + 1 \in Latest(k) /\ Limit[k] + 1 = 1 + Limit[k]
      BY Places, Scopes
    <3> QED BY <2>1, <3>1, Shifted
  <2> QED BY <1>2, <1>6, <2>1, <2>2, <2>3
<1>8. CASE Count(k)
  <2> DEFINE b == [Table[k] EXCEPT !.count = @ + 1]
             c == Table[k].count
  <2>1. Admit(k, b) /\ Table[k] # Nil /\ Table[k] \in Buckets(k) /\ c < Limit[k]
    BY <1>8, TableKept DEF Count, Running, Under
  <2>2. b \in Buckets(k) /\ b # Nil /\ b.age = Table[k].age /\ b.count = c + 1 /\ c \in 1..Limit[k]
    <3>1. b \in Buckets(k) /\ b.age = Table[k].age /\ b.count = c + 1 /\ c \in 1..Limit[k]
      BY <2>1, Scopes DEF Buckets
    <3> QED BY <3>1, Scopes
  <2>3. /\ c \in Latest(k) /\ c + 1 \in Latest(k) /\ c + Limit[k] \in Latest(k)
        /\ (c + Limit[k]) + 1 \in Latest(k) /\ (c + Limit[k]) + 1 = (c + 1) + Limit[k]
    <3>1. c \in 1..Limit[k] /\ c < Limit[k] /\ Limit[k] \in Nat
      BY <2>1, <2>2, Scopes
    <3> HIDE DEF c
    <3> QED BY <3>1 DEF Latest
  <2>4. /\ ages'[k][c + 1] = ages[k][c]
        /\ ages'[k][(c + 1) + Limit[k]] = ages[k][c + Limit[k]]
    <3> HIDE DEF c, b
    <3> QED BY <2>1, <2>3, Shifted
  <2>5. ages[k][c] = Table[k].age /\ ages[k][c + Limit[k]] >= cleared[k]
    BY <1>3, <2>1
  <2> QED BY <1>6, <2>1, <2>2, <2>4, <2>5
<1> QED BY <1>5, <1>7, <1>8 DEF Allow

LEMMA AllowInv ==
    ASSUME LimiterInv, NEW k \in Clients, Allow(k)
    PROVE  LimiterInv'
<1>1. RefusedAtLimit'
  <2>1. CASE Refuse(k)
    <3>1. Table[k] = buckets[k] /\ buckets[k] # Nil /\ Table[k] \in Buckets(k)
          /\ Table[k].age < Window[k] /\ ~(Table[k].count < Limit[k])
      BY <2>1, TableKept DEF Refuse, Running, Under
    <3>2. buckets[k].count = Limit[k]
      <4>1. buckets[k].count \in 1..Limit[k] /\ ~(buckets[k].count < Limit[k]) /\ Limit[k] \in Nat
        BY <3>1, Scopes DEF Buckets
      <4> QED BY <4>1
    <3>3. ages[k][Limit[k]] = buckets[k].age
      BY <3>1, <3>2 DEF LimiterInv, WindowsApart
    <3> QED BY <2>1, <3>1, <3>3 DEF Refuse, RefusedAtLimit
  <2>2. CASE answer' = [key |-> k, ok |-> TRUE]
    BY <2>2 DEF RefusedAtLimit
  <2> QED BY <2>1, <2>2 DEF Allow, NewWindow, Count, Admit
<1>2. WindowsApart'
  BY ClearedApart, UnclearedApart
<1> QED BY <1>1, <1>2, AllowTypes, AllowOrder DEF LimiterInv

LEMMA ElapseInv == LimiterInv /\ Elapse => LimiterInv'
<1> SUFFICES ASSUME LimiterInv, Elapse PROVE LimiterInv'
  OBVIOUS
<1>0. /\ \A k \in Clients : buckets[k] \in Buckets(k) \cup {Nil} /\ cleared[k] \in 0..Window[k]
      /\ \A k \in Clients : ages[k] \in [Latest(k) -> 0..Window[k]]
      /\ \A k \in Clients : \A i \in Latest(k) : ages[k][i] \in 0..Window[k]
  BY LimiterTypes DEF LimiterInv, TableBounded
<1>1. /\ \A k \in Clients : buckets[k] = Nil => buckets'[k] = Nil
      /\ \A k \in Clients : buckets[k] # Nil =>
            /\ buckets'[k] \in Buckets(k) /\ buckets'[k] # Nil
            /\ buckets'[k].age = Older(k, buckets[k].age) /\ buckets'[k].count = buckets[k].count
      /\ buckets' = [k \in Clients |-> buckets'[k]]
  <2>1. ASSUME NEW k \in Clients, buckets[k] # Nil
        PROVE  /\ buckets'[k] \in Buckets(k) /\ buckets'[k] # Nil
               /\ buckets'[k].age = Older(k, buckets[k].age) /\ buckets'[k].count = buckets[k].count
    <3>1. buckets[k] \in Buckets(k) /\ buckets'[k] = [buckets[k] EXCEPT !.age = Older(k, @)]
      BY <1>0, <2>1 DEF Elapse
    <3>2. Older(k, buckets[k].age) \in 0..Window[k]
      BY <3>1, OlderAge DEF Buckets
    <3>3. /\ buckets'[k] \in Buckets(k)
          /\ buckets'[k].age = Older(k, buckets[k].age) /\ buckets'[k].count = buckets[k].count
      BY <3>1, <3>2 DEF Buckets
    <3> QED BY <3>3, Scopes
  <2> QED BY <2>1 DEF Elapse
<1>2. \A k \in Clients : \A i \in Latest(k) :
        ages'[k][i] = Older(k, ages[k][i]) /\ ages[k][i] \in 0..Window[k]
  BY <1>0 DEF Elapse
<1>3. /\ \A k \in Clients : cleared'[k] = Older(k, cleared[k])
      /\ cleared' = [k \in Clients |-> cleared'[k]] /\ answer' = Nil
  BY DEF Elapse
<1>4. TableBounded' /\ IsFiniteSet(KeysOf(buckets))'
  <2>1. \A k \in Clients : buckets'[k] \in Buckets(k) \cup {Nil}
    BY <1>1
  <2>2. buckets' \in [Clients -> [age : Nat, count : Nat] \cup {Nil}]
    <3>1. \A k \in Clients : buckets'[k] \in [age : Nat, count : Nat] \cup {Nil}
      BY <2>1, Scopes
    <3> QED BY <1>1, <3>1, Zenon
  <2>3. KeysOf(buckets') = KeysOf(buckets)
    BY <1>1 DEF KeysOf
  <2>4. /\ ages' = [k \in Clients |-> ages'[k]]
        /\ \A k \in Clients : ages'[k] \in [Latest(k) -> 0..Window[k]]
    <3>1. \A k \in Clients : \A i \in Latest(k) : Older(k, ages[k][i]) \in 0..Window[k]
      BY <1>2, OlderAge
    <3> QED BY <3>1 DEF Elapse
  <2>5. \A k \in Clients : cleared'[k] \in 0..Window[k]
    BY <1>0, <1>3, OlderAge
  <2> QED BY <1>3, <2>1, <2>2, <2>3, <2>4, <2>5 DEF LimiterInv, TableBounded, LimiterTypeOK, KeysOf
<1>5. InOrderOfAge'
  BY <1>2, OlderAge DEF LimiterInv, InOrderOfAge
<1>6. WindowsApart'
  <2>1. ASSUME NEW k \in Clients, NEW i \in Latest(k), ages[k][i] >= cleared[k]
        PROVE  ages'[k][i] >= cleared'[k]
    <3>1. ages[k][i] \in 0..Window[k] /\ cleared[k] \in 0..Window[k] /\ cleared[k] <= ages[k][i]
      BY <1>0, <1>2, <2>1, Scopes
    <3>2. Older(k, cleared[k]) <= Older(k, ages[k][i])
          /\ Older(k, cleared[k]) \in 0..Window[k] /\ Older(k, ages[k][i]) \in 0..Window[k]
      BY <3>1, OlderAge
    <3> QED BY <1>2, <1>3, <3>2
  <2>2. ASSUME NEW k \in Clients, buckets[k] = Nil
        PROVE  buckets'[k] = Nil /\ ages'[k][Limit[k]] >= cleared'[k]
    <3>1. ages[k][Limit[k]] >= cleared[k]
      BY <2>2 DEF LimiterInv, WindowsApart
    <3> QED BY <1>1, <2>1, <2>2, <3>1, Places
  <2>3. ASSUME NEW k \in Clients, buckets[k] # Nil
        PROVE  /\ buckets'[k] # Nil /\ ages'[k][buckets'[k].count] = buckets'[k].age
               /\ ages'[k][buckets'[k].count + Limit[k]] >= cleared'[k]
    <3> DEFINE c == buckets[k].count
    <3>1. c \in 1..Limit[k]
      BY <1>0, <2>3 DEF Buckets
    <3>2. c \in Latest(k) /\ c + Limit[k] \in Latest(k)
      BY <3>1, Places
    <3>3. ages[k][c] = buckets[k].age /\ ages[k][c + Limit[k]] >= cleared[k]
      BY <2>3 DEF LimiterInv, WindowsApart
    <3>4. /\ buckets'[k] # Nil /\ buckets'[k].count = c
          /\ buckets'[k].age = Older(k, buckets[k].age)
      BY <1>1, <2>3
    <3> HIDE DEF c
    <3> QED BY <1>2, <2>1, <3>2, <3>3, <3>4
  <2> QED BY <2>2, <2>3 DEF WindowsApart
<1>7. RefusedAtLimit'
  BY <1>3 DEF RefusedAtLimit
<1> QED BY <1>4, <1>5, <1>6, <1>7 DEF LimiterInv

\* The invariant is inductive: every Allow and every tick keeps it.
THEOREM LimiterInductive == LimiterSpec => []LimiterInv
<1>1. ASSUME LimiterInv, [LimiterNext]_limiterVars PROVE LimiterInv'
  <2>1. CASE LimiterNext
    BY <1>1, <2>1, AllowInv, ElapseInv DEF LimiterNext
  <2>2. CASE UNCHANGED limiterVars
    BY <1>1, <2>2
    DEF limiterVars, LimiterInv, TableBounded, LimiterTypeOK, InOrderOfAge, WindowsApart,
        RefusedAtLimit, KeysOf
  <2> QED BY <1>1, <2>1, <2>2
<1> QED BY <1>1, LimiterInitial, PTL DEF LimiterSpec

\* Whatever comes in, the table holds at most one key above maxKeys.
THEOREM TableNeverGrows == LimiterSpec => []TableBounded
<1>1. LimiterInv => TableBounded
  BY DEF LimiterInv
<1> QED BY <1>1, LimiterInductive, PTL

\* No client gets twice its scope's limit within one of that scope's windows,
\* unless the table was cleared meanwhile, whatever other scopes do to the table.
THEOREM OverLimitExplained == LimiterSpec => []OverLimitOnlyIfCleared
<1>1. LimiterInv => OverLimitOnlyIfCleared
  <2> SUFFICES ASSUME LimiterInv, NEW k \in Clients, ages[k][2 * Limit[k]] < Window[k]
               PROVE  cleared[k] < Window[k]
    BY DEF OverLimitOnlyIfCleared
  <2>1. /\ buckets[k] \in Buckets(k) \cup {Nil} /\ cleared[k] \in 0..Window[k] /\ Window[k] \in Nat
        /\ \A i \in Latest(k) : ages[k][i] \in 0..Window[k]
    BY LimiterTypes DEF LimiterInv, TableBounded
  <2>2. PICK i \in Latest(k) : ages[k][i] >= cleared[k]
    <3>1. CASE buckets[k] = Nil
      BY <3>1, Places DEF LimiterInv, WindowsApart
    <3>2. CASE buckets[k] # Nil
      BY <2>1, <3>2, Places DEF LimiterInv, WindowsApart, Buckets
    <3> QED BY <3>1, <3>2
  <2>3. i <= 2 * Limit[k] /\ 2 * Limit[k] \in Latest(k)
    BY Places
  <2>4. ages[k][i] <= ages[k][2 * Limit[k]]
    BY <2>3 DEF LimiterInv, InOrderOfAge
  <2>5. ages[k][i] \in 0..Window[k] /\ ages[k][2 * Limit[k]] \in 0..Window[k]
    BY <2>1, <2>3
  <2> QED BY <2>1, <2>2, <2>4, <2>5
<1> QED BY <1>1, LimiterInductive, PTL

\* As long as no more than maxKeys clients come at all, the table is never
\* cleared, and nobody gets twice its limit within one window's length.
THEOREM FewClientsUnderTwice ==
    ASSUME IsFiniteSet(Clients), Cardinality(Clients) <= MaxKeys
    PROVE  LimiterSpec => [](\A k \in Clients : ages[k][2 * Limit[k]] >= Window[k])
<1> DEFINE Never == \A k \in Clients : cleared[k] = Window[k]
<1>0. Cardinality(Clients) \in Nat /\ MaxKeys \in Nat
  BY FS_CardinalityType, LimiterAssumption
<1>1. LimiterInit => Never
  BY DEF LimiterInit
<1>2. Never /\ [LimiterNext]_limiterVars => Never'
  <2> SUFFICES ASSUME Never, [LimiterNext]_limiterVars PROVE Never'
    OBVIOUS
  <2>1. ~StillFull(buckets)
    <3>1. KeysOf(buckets) \subseteq Clients
      BY DEF KeysOf
    <3>2. IsFiniteSet(KeysOf(buckets)) /\ Cardinality(KeysOf(buckets)) <= Cardinality(Clients)
      BY <3>1, FS_Subset
    <3>3. Cardinality(KeysOf(buckets)) \in Nat
      BY <3>2, FS_CardinalityType
    <3>4. ~(Cardinality(KeysOf(buckets)) > MaxKeys)
      BY <1>0, <3>2, <3>3
    <3> QED BY <3>4 DEF StillFull
  <2>2. CASE \E k \in Clients : Allow(k)
    BY <2>1, <2>2 DEF Allow, NewWindow, Count, Refuse, Admit, Clear, Clears
  <2>3. CASE Elapse
    BY <2>3, Scopes DEF Elapse, Older
  <2> QED BY <2>2, <2>3 DEF LimiterNext, limiterVars
<1>3. LimiterInv /\ OverLimitOnlyIfCleared /\ Never
        => \A k \in Clients : ages[k][2 * Limit[k]] >= Window[k]
  <2> SUFFICES ASSUME LimiterInv, OverLimitOnlyIfCleared, Never, NEW k \in Clients
               PROVE  ages[k][2 * Limit[k]] >= Window[k]
    OBVIOUS
  <2>1. ages[k][2 * Limit[k]] \in 0..Window[k] /\ Window[k] \in Nat
    BY Places, LimiterTypes DEF LimiterInv, TableBounded
  <2> QED BY <2>1 DEF OverLimitOnlyIfCleared
<1> HIDE DEF Never
<1> QED BY <1>1, <1>2, <1>3, LimiterInductive, OverLimitExplained, PTL DEF LimiterSpec

\* Nobody is refused below the limit.
THEOREM RefusalsAreDue == LimiterSpec => []RefusedAtLimit
<1>1. LimiterInv => RefusedAtLimit
  BY DEF LimiterInv
<1> QED BY <1>1, LimiterInductive, PTL

-----------------------------------------------------------------------------
(* TTLCache. *)

Entries == [value : Values, left : Nat]
Listed(s) == {s[i] : i \in DOMAIN s}
Once(s) == \A i, j \in DOMAIN s : s[i] = s[j] => i = j

\* What the invariant says of the list, in terms of a list s of the keys in P
\* and the pairs o.
Lists(s, P, o) ==
    /\ s \in Seq(Keys) /\ Listed(s) = P /\ Once(s)
    /\ o \subseteq Keys \X Keys /\ \A x, y \in Keys : <<x, y>> \in o => {x, y} \subseteq P
    /\ \A i, j \in DOMAIN s : <<s[i], s[j]>> \in o => i < j

LEMMA CacheInvLists ==
    TTLCacheInv <=> /\ items \in [Keys -> Entries \cup {None}] /\ Len(order) <= MaxEntries
                    /\ Lists(order, Present, older)
BY DEF TTLCacheInv, MapAndList, TypeOK, Aged, Lists, Listed, Once, Entries

\* remove takes one key off the list and leaves the order of the others.
LEMMA RemoveLists ==
    ASSUME Lists(order, Present, older), NEW k \in Present
    PROVE  /\ Lists(remove(k), Present \ {k}, Without(k))
           /\ Len(remove(k)) = Len(order) - 1
<1> DEFINE n == Len(order)
           p == Place(k)
           q == remove(k)
           At(i) == IF i < p THEN i ELSE i + 1
<1>1. n \in Nat /\ DOMAIN order = 1..n
  BY DEF Lists
<1>2. p \in 1..n /\ order[p] = k
  <2>1. \E i \in DOMAIN order : order[i] = k
    BY DEF Lists, Listed
  <2> QED BY <1>1, <2>1 DEF Place
<1>3. n - 1 \in Nat /\ q = [i \in 1..(n - 1) |-> IF i < p THEN order[i] ELSE order[i + 1]]
  BY <1>1, <1>2 DEF remove
<1>4. \A i \in 1..(n - 1) : At(i) \in 1..n /\ At(i) # p /\ q[i] = order[At(i)]
  BY <1>1, <1>2, <1>3
<1>5. q \in Seq(Keys) /\ Len(q) = n - 1 /\ DOMAIN q = 1..(n - 1)
  <2>1. \A i \in 1..n : order[i] \in Keys
    BY <1>1 DEF Lists
  <2>2. q \in [1..(n - 1) -> Keys]
    <3> HIDE DEF q, n, p, At
    <3>1. \A i \in 1..(n - 1) : q[i] \in Keys
      BY <1>4, <2>1
    <3>2. q = [i \in 1..(n - 1) |-> q[i]]
      BY <1>3
    <3> QED BY <3>1, <3>2, Zenon
  <2> HIDE DEF q, n
  <2>3. ASSUME NEW m \in Nat, NEW f \in [1..m -> Keys]
        PROVE  f \in Seq(Keys) /\ Len(f) = m /\ DOMAIN f = 1..m
    OBVIOUS
  <2>4. n - 1 \in Nat
    BY <1>3
  <2> QED BY <2>2, <2>3, <2>4
<1>6. \A i, j \in 1..(n - 1) : /\ At(i) = At(j) => i = j
                               /\ At(i) < At(j) => i < j
  <2> HIDE DEF n, p
  <2> QED BY <1>1, <1>2
<1>7. \A i \in 1..n : i # p => \E j \in 1..(n - 1) : At(j) = i
  <2> SUFFICES ASSUME NEW i \in 1..n, i # p PROVE \E j \in 1..(n - 1) : At(j) = i
    OBVIOUS
  <2> HIDE DEF n, p
  <2>1. CASE i < p
    BY <1>1, <1>2, <2>1
  <2>2. CASE i > p
    <3>1. i - 1 \in 1..(n - 1) /\ At(i - 1) = i
      BY <1>1, <1>2, <2>2
    <3> QED BY <3>1
  <2> QED BY <1>1, <1>2, <2>1, <2>2
<1> HIDE DEF q, n, p, At
<1>8. Once(order) /\ Listed(order) = Present /\ order \in Seq(Keys)
  BY DEF Lists
<1>9. Once(q)
  BY <1>1, <1>4, <1>5, <1>6, <1>8 DEF Once
<1>10. Listed(q) = Present \ {k}
  <2>1. \A i \in 1..(n - 1) : q[i] \in Present \ {k}
    <3>1. \A i \in 1..n : order[i] \in Present /\ (order[i] = k => i = p)
      BY <1>1, <1>2, <1>8 DEF Listed, Once
    <3> QED BY <1>4, <3>1
  <2>2. ASSUME NEW x \in Present \ {k} PROVE \E j \in 1..(n - 1) : q[j] = x
    <3>1. PICK i \in 1..n : order[i] = x
      BY <1>1, <1>8 DEF Listed
    <3>2. i # p
      BY <1>2, <2>2, <3>1
    <3>3. PICK j \in 1..(n - 1) : At(j) = i
      BY <1>7, <3>2
    <3> QED BY <1>4, <3>1, <3>3
  <2>3. \A x : x \in Listed(q) <=> \E i \in 1..(n - 1) : q[i] = x
    BY <1>5 DEF Listed
  <2>4. \A x : x \in Listed(q) <=> x \in Present \ {k}
    BY <2>1, <2>2, <2>3
  <2> QED BY <2>4
<1>11. \A i, j \in 1..(n - 1) : <<q[i], q[j]>> \in Without(k) => i < j
  <2>1. \A i, j \in 1..n : <<order[i], order[j]>> \in older => i < j
    BY <1>1 DEF Lists
  <2>2. Without(k) \subseteq older
    BY DEF Without
  <2> QED BY <1>4, <1>6, <2>1, <2>2
<1>12. /\ Without(k) \subseteq Keys \X Keys
       /\ \A x, y \in Keys : <<x, y>> \in Without(k) => {x, y} \subseteq Present \ {k}
  BY DEF Without, Lists
<1>13. Lists(q, Present \ {k}, Without(k))
  BY <1>5, <1>9, <1>10, <1>11, <1>12 DEF Lists
<1> QED BY <1>5, <1>13 DEF q, n

\* PushBack adds one key, younger than all others.
LEMMA PushLists ==
    ASSUME NEW s, NEW P \in SUBSET Keys, NEW o, Lists(s, P, o), NEW k \in Keys \ P
    PROVE  /\ Lists(Append(s, k), P \cup {k}, o \cup {<<x, k>> : x \in P})
           /\ Len(Append(s, k)) = Len(s) + 1
<1> DEFINE n == Len(s)
           t == Append(s, k)
           u == o \cup {<<x, k>> : x \in P}
<1>1. s \in Seq(Keys) /\ Listed(s) = P /\ Once(s)
  BY DEF Lists
<1>2. /\ n \in Nat /\ DOMAIN s = 1..n /\ t \in Seq(Keys) /\ Len(t) = n + 1 /\ DOMAIN t = 1..(n + 1)
      /\ t[n + 1] = k /\ \A i \in 1..n : t[i] = s[i]
  BY <1>1
<1> HIDE DEF n, t
<1>3. \A i \in 1..n : s[i] \in P /\ t[i] # k
  BY <1>1, <1>2 DEF Listed
<1>4. \A i \in 1..(n + 1) : i \in 1..n \/ i = n + 1
  BY <1>2
<1>5. Once(t)
  BY <1>1, <1>2, <1>3, <1>4 DEF Once
<1>6. Listed(t) = P \cup {k}
  <2>1. \A i \in 1..(n + 1) : t[i] \in P \cup {k}
    BY <1>2, <1>3, <1>4
  <2>2. \A x \in P : \E i \in 1..n : t[i] = x
    BY <1>1, <1>2 DEF Listed
  <2>3. 1..n \subseteq 1..(n + 1) /\ n + 1 \in 1..(n + 1)
    BY <1>2
  <2>4. \A x : x \in Listed(t) <=> \E i \in 1..(n + 1) : t[i] = x
    BY <1>2 DEF Listed
  <2>5. \A x : x \in Listed(t) <=> x \in P \cup {k}
    BY <1>2, <2>1, <2>2, <2>3, <2>4
  <2> QED BY <2>5
<1>7. /\ u \subseteq Keys \X Keys
      /\ \A x, y \in Keys : <<x, y>> \in u => {x, y} \subseteq P \cup {k}
  BY DEF Lists
<1>8. ASSUME NEW i \in 1..(n + 1), NEW j \in 1..(n + 1), <<t[i], t[j]>> \in u
      PROVE  i < j
  <2>1. t[i] \in Keys /\ t[j] \in Keys
    BY <1>2
  <2>2. t[i] # k
    <3>1. \A y \in Keys : <<k, y>> \notin o
      BY DEF Lists
    <3>2. \A y : <<k, y>> \notin {<<x, k>> : x \in P}
      OBVIOUS
    <3> QED BY <1>8, <2>1, <3>1, <3>2
  <2>3. i \in 1..n
    BY <1>2, <1>4, <2>2
  <2>4. CASE j = n + 1
    BY <1>2, <2>3, <2>4
  <2>5. CASE j \in 1..n
    <3>1. t[j] # k
      BY <1>3, <2>5
    <3>2. <<t[i], t[j]>> \in o
      BY <1>8, <3>1
    <3> QED BY <1>2, <2>3, <2>5, <3>2 DEF Lists
  <2> QED BY <1>4, <2>4, <2>5
<1>9. Lists(t, P \cup {k}, u)
  BY <1>2, <1>5, <1>6, <1>7, <1>8 DEF Lists
<1> QED BY <1>2, <1>9 DEF t, n

LEMMA CacheInitial == Init => TTLCacheInv
<1> SUFFICES ASSUME Init PROVE TTLCacheInv
  OBVIOUS
<1>1. items = [k \in Keys |-> None] /\ order = <<>> /\ older = {}
  BY DEF Init
<1>2. Present = {}
  BY <1>1 DEF Present
<1>3. Lists(order, Present, older)
  BY <1>1, <1>2 DEF Lists, Listed, Once
<1> QED BY <1>1, <1>3, TTLCacheAssumption, CacheInvLists

\* Get and Delete of a key: it stays as it is, or goes from the map and the list.
LEMMA TakenInv ==
    ASSUME TTLCacheInv, NEW k \in Keys, Get(k) \/ Delete(k)
    PROVE  TTLCacheInv'
<1>1. /\ items \in [Keys -> Entries \cup {None}] /\ Len(order) <= MaxEntries
      /\ Lists(order, Present, older)
  BY CacheInvLists
<1>2. CASE UNCHANGED <<items, order, older>>
  BY <1>2 DEF TTLCacheInv, MapAndList, TypeOK, Aged, Present
<1>3. CASE /\ items[k] # None /\ items' = [items EXCEPT ![k] = None]
           /\ order' = remove(k) /\ older' = Without(k)
  <2>1. k \in Present
    BY <1>3 DEF Present
  <2>2. Present' = Present \ {k} /\ items' \in [Keys -> Entries \cup {None}]
    BY <1>1, <1>3 DEF Present
  <2>3. Lists(order', Present', older')
    BY <1>1, <1>3, <2>1, <2>2, RemoveLists
  <2>4. Len(order') <= MaxEntries
    <3>1. Len(order) \in Nat /\ Len(order') = Len(order) - 1
      BY <1>1, <1>3, <2>1, RemoveLists DEF Lists
    <3> QED BY <1>1, <3>1, TTLCacheAssumption
  <2> QED BY <2>2, <2>3, <2>4, CacheInvLists DEF Lists, TTLCacheInv, MapAndList, TypeOK, Aged, Listed, Once, Entries
<1> QED BY <1>2, <1>3 DEF Get, GetMiss, GetHit, GetExpired, Delete

\* What a Set stores is an entry, and one is not None.
LEMMA Stored ==
    ASSUME NEW v \in Values, NEW ttl \in TTLs
    PROVE  /\ [value |-> v, left |-> ttl] \in Entries /\ [value |-> v, left |-> ttl] # None
           /\ ttl \in Nat /\ ttl > 0
BY TTLCacheAssumption DEF Entries

\* The map holds as many keys as the list.
LEMMA Counted ==
    ASSUME NEW s, NEW P, s \in Seq(Keys), Listed(s) = P, Once(s)
    PROVE  Cardinality(P) = Len(s)
<1>1. /\ Len(s) \in Nat /\ DOMAIN s = 1..Len(s) /\ s \in [1..Len(s) -> P]
  <2>1. \A i \in 1..Len(s) : s[i] \in P
    BY DEF Listed
  <2> QED BY <2>1
<1>2. s \in Bijection(1..Len(s), P)
  <2>1. IsInjective(s)
    BY <1>1 DEF IsInjective, Once
  <2>2. \A x \in P : \E i \in 1..Len(s) : s[i] = x
    BY <1>1 DEF Listed
  <2> QED BY <1>1, <2>1, <2>2 DEF Bijection, Injection, Surjection
<1>3. ExistsBijection(1..Len(s), P)
  BY <1>2 DEF ExistsBijection
<1> QED BY <1>1, <1>3, FS_CountingElements

LEMMA PresentCounted == TTLCacheInv => Cardinality(Present) = Len(order)
BY CacheInvLists, Counted DEF Lists

\* A full cache has a front, which is of a cached key.
LEMMA Front ==
    ASSUME TTLCacheInv, Full
    PROVE  /\ order # <<>> /\ Head(order) \in Present /\ Head(order) = order[1]
           /\ 1 \in DOMAIN order
<1>1. order \in Seq(Keys) /\ Len(order) >= MaxEntries /\ MaxEntries \in Nat \ {0}
  BY PresentCounted, TTLCacheAssumption DEF TTLCacheInv, MapAndList, TypeOK, Full
<1>2. order # <<>> /\ 1 \in DOMAIN order /\ Head(order) = order[1]
  BY <1>1
<1> QED BY <1>2 DEF TTLCacheInv, MapAndList

LEMMA SetInv ==
    ASSUME TTLCacheInv, NEW k \in Keys, NEW v \in Values, NEW ttl \in TTLs, Set(k, v, ttl)
    PROVE  TTLCacheInv'
<1> DEFINE e == [value |-> v, left |-> ttl]
<1>0. e \in Entries /\ e # None
  BY Stored
<1> HIDE DEF e
<1>1. /\ items \in [Keys -> Entries \cup {None}] /\ Len(order) <= MaxEntries
      /\ Lists(order, Present, older) /\ Len(order) \in Nat /\ MaxEntries \in Nat
  BY CacheInvLists, TTLCacheAssumption DEF Lists
<1>2. SUFFICES /\ items' \in [Keys -> Entries \cup {None}] /\ Len(order') <= MaxEntries
               /\ Lists(order', Present', older')
  BY DEF Lists, TTLCacheInv, MapAndList, TypeOK, Aged, Listed, Once, Entries
<1>3. CASE SetPresent(k, v, ttl)
  <2>1. /\ items[k] # None /\ items' = [items EXCEPT ![k] = e]
        /\ order' = order /\ older' = older
    BY <1>3 DEF SetPresent, Overwritten, e
  <2>2. items' \in [Keys -> Entries \cup {None}] /\ Present' = Present
    BY <1>0, <1>1, <2>1 DEF Present
  <2> QED BY <1>1, <2>1, <2>2
<1>4. CASE SetRoom(k, v, ttl)
  <2>1. /\ items[k] = None /\ ~Full /\ items' = [items EXCEPT ![k] = e]
        /\ order' = Append(order, k) /\ older' = older \cup {<<x, k>> : x \in Present}
    BY <1>4 DEF SetRoom, e
  <2>2. /\ items' \in [Keys -> Entries \cup {None}] /\ Present' = Present \cup {k}
        /\ k \notin Present /\ Present \subseteq Keys
    BY <1>0, <1>1, <2>1 DEF Present
  <2>3. Lists(order', Present', older') /\ Len(order') = Len(order) + 1
    BY <1>1, <2>1, <2>2, PushLists
  <2> QED BY <1>1, <2>1, <2>2, <2>3, PresentCounted DEF Full
<1>5. CASE SetFull(k, v, ttl)
  <2> DEFINE front == Head(order)
  <2>1. /\ items[k] = None /\ Full
        /\ items' = [items EXCEPT ![front] = None, ![k] = e]
        /\ order' = Append(remove(front), k)
        /\ older' = Without(front) \cup {<<x, k>> : x \in Present \ {front}}
    BY <1>5 DEF SetFull, e
  <2>2. front \in Present
    BY <2>1, Front
  <2> HIDE DEF front
  <2>3. /\ k \notin Present /\ front # k /\ front \in Keys /\ Present \subseteq Keys
    BY <2>1, <2>2 DEF Present
  <2>4. items' \in [Keys -> Entries \cup {None}] /\ Present' = (Present \ {front}) \cup {k}
    BY <1>0, <1>1, <2>1, <2>3 DEF Present
  <2>5. Lists(remove(front), Present \ {front}, Without(front)) /\ Len(remove(front)) = Len(order) - 1
    BY <1>1, <2>2, RemoveLists
  <2>6. Lists(order', Present', older') /\ Len(order') = Len(remove(front)) + 1
    <3> DEFINE P == Present \ {front}
    <3>1. P \in SUBSET Keys /\ k \in Keys \ P
      BY <2>3
    <3>2. /\ Lists(Append(remove(front), k), P \cup {k}, Without(front) \cup {<<x, k>> : x \in P})
          /\ Len(Append(remove(front), k)) = Len(remove(front)) + 1
      BY <2>5, <3>1, PushLists
    <3> QED BY <2>1, <2>4, <3>2
  <2> QED BY <1>1, <2>4, <2>5, <2>6
<1> QED BY <1>3, <1>4, <1>5 DEF Set

LEMMA TickInv == TTLCacheInv /\ Tick => TTLCacheInv'
<1> SUFFICES ASSUME TTLCacheInv, Tick PROVE TTLCacheInv'
  OBVIOUS
<1>1. items \in [Keys -> Entries \cup {None}]
  BY CacheInvLists
<1>2. \A k \in Keys : /\ items'[k] \in Entries \cup {None}
                      /\ items'[k] # None <=> items[k] # None
  <2>1. ASSUME NEW k \in Keys, items[k] # None, items[k].left > 0
        PROVE  items'[k] \in Entries /\ items'[k] # None
    <3>1. items[k] \in Entries /\ items'[k] = [items[k] EXCEPT !.left = @ - 1]
      BY <1>1, <2>1 DEF Tick
    <3>2. items'[k] \in Entries
      BY <2>1, <3>1 DEF Entries
    <3> QED BY <3>2, TTLCacheAssumption DEF Entries
  <2> QED BY <1>1, <2>1 DEF Tick
<1>3. items' \in [Keys -> Entries \cup {None}] /\ Present' = Present
  <2>1. items' = [k \in Keys |-> items'[k]]
    BY DEF Tick
  <2> QED BY <1>2, <2>1 DEF Present
<1>4. order' = order /\ older' = older
  BY DEF Tick
<1> QED BY <1>3, <1>4 DEF TTLCacheInv, MapAndList, TypeOK, Aged, Entries

\* The invariant is inductive: no call parts map and list or their order.
THEOREM TTLCacheInductive == Spec => []TTLCacheInv
<1>1. ASSUME TTLCacheInv, [Next]_vars PROVE TTLCacheInv'
  <2>1. CASE Next
    BY <1>1, <2>1, TakenInv, SetInv, TickInv DEF Next
  <2>2. CASE UNCHANGED vars
    BY <1>1, <2>2 DEF vars, TTLCacheInv, MapAndList, TypeOK, Aged, Present
  <2> QED BY <1>1, <2>1, <2>2
<1> QED BY <1>1, CacheInitial, PTL DEF Spec

\* Map and list never part, and the cache is never above its maximum.
THEOREM MapAndListAgree == Spec => []MapAndList
<1>1. TTLCacheInv => MapAndList
  BY DEF TTLCacheInv
<1> QED BY <1>1, TTLCacheInductive, PTL

\* Only a full cache loses an entry by a Set of another, no more than one, and
\* it is the one inserted first.
THEOREM OldestEvicted == Spec => EvictsOldest
<1> DEFINE Evicts == \A k \in Keys :
             last' # last /\ last'[1] = "Set" /\ items[k] # None /\ items'[k] = None =>
                 /\ Cardinality(Present) = MaxEntries /\ Cardinality(Present') = MaxEntries
                 /\ \A x \in Keys : <<x, k>> \notin older
<1>1. ASSUME TTLCacheInv, Next PROVE Evicts
  <2> SUFFICES ASSUME NEW k \in Keys, last' # last, last'[1] = "Set",
                      items[k] # None, items'[k] = None
               PROVE  /\ Cardinality(Present) = MaxEntries /\ Cardinality(Present') = MaxEntries
                      /\ \A x \in Keys : <<x, k>> \notin older
    OBVIOUS
  <2>0. items \in [Keys -> Entries \cup {None}]
    BY <1>1, CacheInvLists
  <2>1. PICK r \in Keys, v \in Values, ttl \in TTLs : Set(r, v, ttl)
    BY <1>1 DEF Next, Get, GetMiss, GetHit, GetExpired, Delete, Tick
  <2> DEFINE e == [value |-> v, left |-> ttl]
  <2>2. e # None
    BY Stored
  <2> HIDE DEF e
  <2>3. SetFull(r, v, ttl)
    BY <2>0, <2>1, <2>2 DEF Set, SetPresent, SetRoom, e
  <2>4. /\ Full /\ items' = [items EXCEPT ![Head(order)] = None, ![r] = e]
        /\ order' = Append(remove(Head(order)), r)
    BY <2>3 DEF SetFull, e
  <2>5. k = Head(order)
    BY <2>0, <2>2, <2>4
  <2>6. Cardinality(Present) = MaxEntries /\ Cardinality(Present) = Len(order)
    <3>1. Len(order) \in Nat /\ Len(order) <= MaxEntries /\ MaxEntries \in Nat
      BY <1>1, TTLCacheAssumption DEF TTLCacheInv, MapAndList, TypeOK
    <3> QED BY <1>1, <2>4, <3>1, PresentCounted DEF Full
  <2>7. Cardinality(Present') = MaxEntries
    <3>1. TTLCacheInv'
      BY <1>1, <2>1, SetInv
    <3>2. Cardinality(Present') = Len(order')
      BY <3>1, Counted DEF TTLCacheInv, MapAndList, TypeOK, Listed, Once
    <3>3. Head(order) \in Present
      BY <1>1, <2>4, Front
    <3>4. /\ remove(Head(order)) \in Seq(Keys) /\ Len(order) \in Nat
          /\ Len(remove(Head(order))) = Len(order) - 1
      BY <1>1, <3>3, CacheInvLists, RemoveLists DEF Lists
    <3>5. Len(order') = (Len(order) - 1) + 1
      BY <2>4, <3>4
    <3> QED BY <2>6, <3>2, <3>4, <3>5
  <2>8. ASSUME NEW x \in Keys, <<x, k>> \in older PROVE FALSE
    <3>1. k = order[1] /\ 1 \in DOMAIN order
      BY <1>1, <2>4, <2>5, Front
    <3>2. x \in Present
      BY <1>1, <2>8 DEF TTLCacheInv, Aged
    <3>3. PICK i \in DOMAIN order : order[i] = x
      BY <1>1, <3>2 DEF TTLCacheInv, MapAndList
    <3>4. i < 1
      BY <1>1, <2>8, <3>1, <3>3 DEF TTLCacheInv, Aged
    <3> QED BY <1>1, <3>3, <3>4 DEF TTLCacheInv, MapAndList, TypeOK
  <2> QED BY <2>6, <2>7, <2>8
<1>2. TTLCacheInv /\ [Next]_vars => [Evicts]_vars
  BY <1>1
<1> QED BY <1>2, TTLCacheInductive, PTL DEF Spec, EvictsOldest

\* What the abstract cache holds.
Held ==
    [k \in Keys |-> IF items[k] # None /\ items[k].left > 0 THEN items[k].value ELSE None]

LEMMA AbstractInit == Init => Abstract!Init
BY DEF Init, Abstract!Init

LEMMA GetRefines ==
    ASSUME TTLCacheInv, NEW k \in Keys, Get(k)
    PROVE  Abstract!Lookup(k)
<1>1. CASE GetMiss(k)
  <2>1. Held[k] = None /\ last' = <<"Get", k, None>> /\ items' = items
    BY <1>1 DEF GetMiss, Held
  <2> QED BY <2>1 DEF Abstract!Lookup, Held
<1>2. CASE GetHit(k)
  <2>1. Held[k] = items[k].value /\ last' = <<"Get", k, items[k].value>> /\ items' = items
    BY <1>2 DEF GetHit, Live, Held
  <2> QED BY <2>1 DEF Abstract!Lookup, Held
<1>3. CASE GetExpired(k)
  <2>1. items[k] # None /\ ~(items[k].left > 0)
    BY <1>3 DEF GetExpired, Live
  <2>2. last' = <<"Get", k, None>> /\ items' = [items EXCEPT ![k] = None]
    BY <1>3 DEF GetExpired
  <2>3. Held[k] = None
    BY <2>1 DEF Held
  <2>4. items \in [Keys -> Entries \cup {None}]
    BY CacheInvLists
  <2>5. Held' = Held
    BY <2>1, <2>2, <2>4 DEF Held
  <2> QED BY <2>2, <2>3, <2>5 DEF Abstract!Lookup, Held
<1> QED BY <1>1, <1>2, <1>3 DEF Get

LEMMA DeleteRefines ==
    ASSUME TTLCacheInv, NEW k \in Keys, Delete(k)
    PROVE  Abstract!Erase(k)
<1>1. items \in [Keys -> Entries \cup {None}]
  BY CacheInvLists
<1>2. items' = [items EXCEPT ![k] = None] /\ last' = <<"Delete", k, None>>
  BY <1>1 DEF Delete
<1>3. Held' = [Held EXCEPT ![k] = None]
  BY <1>1, <1>2 DEF Held
<1> QED BY <1>2, <1>3 DEF Abstract!Erase, Held

\* The one whose place a Set takes is lost, and nothing else.
LEMMA SetRefines ==
    ASSUME TTLCacheInv, NEW k \in Keys, NEW v \in Values, NEW ttl \in TTLs, Set(k, v, ttl)
    PROVE  Abstract!Store(k, v)
<1> DEFINE e == [value |-> v, left |-> ttl]
<1>0. e # None /\ e.value = v /\ e.left > 0
  BY Stored
<1> HIDE DEF e
<1>1. items \in [Keys -> Entries \cup {None}]
  BY CacheInvLists
<1>2. last' = <<"Set", k, v>>
  BY DEF Set, SetPresent, SetRoom, SetFull
<1>3. ASSUME NEW lost \in SUBSET (Keys \ {k}),
             items' = [x \in Keys |-> IF x = k THEN e ELSE IF x \in lost THEN None ELSE items[x]]
      PROVE  Abstract!Store(k, v)
  <2>1. Held' = [x \in Keys |-> IF x = k THEN v ELSE IF x \in lost THEN None ELSE Held[x]]
    BY <1>0, <1>3 DEF Held
  <2> QED BY <1>2, <1>3, <2>1 DEF Abstract!Store, Held
<1>4. CASE items' = [items EXCEPT ![k] = e]
  <2>1. items' = [x \in Keys |-> IF x = k THEN e ELSE IF x \in {} THEN None ELSE items[x]]
    BY <1>1, <1>4
  <2>2. {} \in SUBSET (Keys \ {k})
    OBVIOUS
  <2> QED BY <1>3, <2>1, <2>2
<1>5. CASE SetFull(k, v, ttl)
  <2> DEFINE front == Head(order)
  <2>1. items' = [items EXCEPT ![front] = None, ![k] = e] /\ front \in Present /\ items[k] = None
    BY <1>5, Front DEF SetFull, e
  <2> HIDE DEF front
  <2>2. front \in Keys /\ front # k
    BY <2>1 DEF Present
  <2>3. items' = [x \in Keys |-> IF x = k THEN e ELSE IF x \in {front} THEN None ELSE items[x]]
    BY <1>1, <2>1, <2>2
  <2> QED BY <1>3, <2>2, <2>3
<1> QED BY <1>4, <1>5 DEF Set, SetPresent, SetRoom, e

\* What a tick expires is lost.
LEMMA TickRefines == TTLCacheInv /\ Tick => Abstract!Lose
<1> SUFFICES ASSUME TTLCacheInv, Tick PROVE Abstract!Lose
  OBVIOUS
<1>1. items \in [Keys -> Entries \cup {None}]
  BY CacheInvLists
<1> DEFINE lost == {k \in Keys : Held'[k] = None}
<1>2. ASSUME NEW k \in Keys
      PROVE  Held'[k] = None \/ Held'[k] = Held[k]
  <2>1. CASE items[k] # None /\ items[k].left > 0
    <3>1. items[k] \in Entries
      BY <1>1, <2>1
    <3>2. items'[k] = [items[k] EXCEPT !.left = @ - 1]
      BY <2>1 DEF Tick
    <3>3. items'[k].value = items[k].value
      BY <3>1, <3>2 DEF Entries
    <3>4. Held[k] = items[k].value
      BY <2>1 DEF Held
    <3>5. Held'[k] = None \/ Held'[k] = items'[k].value
      BY DEF Held
    <3> QED BY <3>3, <3>4, <3>5
  <2>2. CASE ~(items[k] # None /\ items[k].left > 0)
    <3>1. items'[k] = items[k]
      BY <2>2 DEF Tick
    <3> QED BY <2>2, <3>1 DEF Held
  <2> QED BY <2>1, <2>2
<1>3. Held' = [x \in Keys |-> IF x \in lost THEN None ELSE Held[x]]
  <2>1. Held' = [x \in Keys |-> Held'[x]]
    BY DEF Held
  <2> QED BY <1>2, <2>1
<1>4. lost \in SUBSET Keys /\ last' = last
  BY DEF Tick
<1> HIDE DEF lost
<1> QED BY <1>3, <1>4 DEF Abstract!Lose, Held

\* TTLCache implements Cache: every call is a call of the abstract cache.
THEOREM CacheImplemented == Spec => ImplementsCache
<1>1. ASSUME TTLCacheInv, [Next]_vars
      PROVE  [Abstract!Next]_(Abstract!vars)
  <2>1. CASE UNCHANGED vars
    BY <2>1 DEF vars, Abstract!vars
  <2>2. ASSUME NEW k \in Keys, Get(k) \/ Delete(k) PROVE Abstract!Next
    BY <1>1, <2>2, GetRefines, DeleteRefines DEF Abstract!Next
  <2>3. ASSUME NEW k \in Keys, NEW v \in Values, NEW ttl \in TTLs, Set(k, v, ttl)
        PROVE  Abstract!Next
    BY <1>1, <2>3, SetRefines DEF Abstract!Next
  <2>4. CASE Tick
    BY <1>1, <2>4, TickRefines DEF Abstract!Next
  <2> QED BY <1>1, <2>1, <2>2, <2>3, <2>4 DEF Next
<1> QED BY <1>1, AbstractInit, TTLCacheInductive, PTL DEF Spec, ImplementsCache, Abstract!Spec
=============================================================================
