------------------------------ MODULE DjClass ------------------------------
(***************************************************************************)
(* Which of a player's classes is shown: SortKey, Resolve and BuildBadge   *)
(* of internal/djclass.  Resolve is a pure function; its loops are steps   *)
(* here, so that what it returns follows from an invariant.                *)
(*                                                                         *)
(* A class is what ParseRankName and ExtractLevel read from its name: the  *)
(* rank is its index in RankOrder (0 is the best), NoRank for any other    *)
(* name; the level is its roman numeral, 0 without one.  A conversion is   *)
(* in ten-thousandths, or Nil.                                             *)
(***************************************************************************)
EXTENDS Integers, Sequences

Nil     == -1
NoRank  == -1
LoD     == 0    \* "THE LORD OF DJMAX"
Beginner == 13
RankCount == 14

Row == [button : Nat, rank : {NoRank} \cup (0 .. RankCount - 1), level : 0 .. 10,
        conversion : {Nil} \cup Nat]

TheoryConversion == 99999847
TheoryPower == 10000

IsTheoryConversion(conv) == conv # Nil /\ conv >= TheoryConversion

ToPowerInteger(conv) ==
    IF conv = Nil THEN Nil
    ELSE IF IsTheoryConversion(conv) THEN TheoryPower ELSE conv \div 10000

IsTheoryPower(power) == power # Nil /\ power >= TheoryPower

levelValue(level) == IF level \in 1 .. 4 THEN 5 - level ELSE 0

buttonPreference(button) ==
    IF button = 8 THEN 3 ELSE IF button = 5 THEN 2
    ELSE IF button = 6 THEN 1 ELSE IF button = 4 THEN 0 ELSE -1

SortKey(r) ==
    << IF r.rank = NoRank THEN -1 ELSE RankCount - 1 - r.rank,
       IF r.rank = LoD /\ IsTheoryConversion(r.conversion) THEN 5 ELSE levelValue(r.level),
       buttonPreference(r.button) >>

\* slices.Compare(k, l) > 0 on keys.
Greater(k, l) ==
    \/ k[1] > l[1]
    \/ k[1] = l[1] /\ k[2] > l[2]
    \/ k[1] = l[1] /\ k[2] = l[2] /\ k[3] > l[3]

\* The floors of DJ POWER, by rank and by level.
Floors ==
    << <<9970, 9950, 9930, 9900>>, <<9850, 9800, 9750, 9700>>, <<9650, 9600, 9500, 9400>>,
       <<9300, 9200, 9100, 9000>>, <<8900, 8800, 8700, 8600>>, <<8400, 8200, 8000, 7800>>,
       <<7600, 7400, 7200, 7000>>, <<6800, 6600, 6400, 6200>>, <<6000, 5800, 5500, 5200>>,
       <<4900, 4600, 4300, 4000>>, <<3600, 3200, 2800, 2400>>, <<2000, 1500, 1000, 500>> >>

Threshold(rank, level) ==
    IF rank = LoD THEN 9980
    ELSE IF rank = Beginner THEN 0
    ELSE IF rank \in 1 .. 12 /\ level \in 1 .. 4 THEN Floors[rank][level]
    ELSE Nil

BuildBadge(r) ==
    [button |-> r.button, rank |-> r.rank, level |-> r.level,
     power |-> ToPowerInteger(r.conversion),
     threshold |-> Threshold(r.rank, r.level),
     isTheory |-> IsTheoryPower(ToPowerInteger(r.conversion))]

-----------------------------------------------------------------------------
(* Resolve. *)

VARIABLES
    rows, preferred, sel,   \* its arguments; preferred is a button or Nil
    pc, i,
    best                    \* the index of the row returned so far, or 0

vars == <<rows, preferred, sel, pc, i, best>>

Init ==
    /\ rows \in Seq(Row) /\ preferred \in Nat \cup {Nil} /\ sel \in {"Auto", "Viewer"}
    /\ pc = "start" /\ i = 1 /\ best = 0

Return(j) == pc' = "done" /\ best' = j /\ UNCHANGED <<rows, preferred, sel, i>>

\* best, bestKey := rows[0], SortKey(rows[0])
FromTheFirst == pc' = "compare" /\ best' = 1 /\ i' = 2 /\ UNCHANGED <<rows, preferred, sel>>

UsesPreference == sel = "Viewer" /\ preferred # Nil

Enter ==
    /\ pc = "start"
    /\ \/ rows = <<>> /\ Return(0)
       \/ rows # <<>> /\ ~UsesPreference /\ FromTheFirst
       \/ rows # <<>> /\ UsesPreference /\ pc' = "prefer" /\ UNCHANGED <<rows, preferred, sel, i, best>>

Prefer ==
    /\ pc = "prefer"
    /\ \/ i > Len(rows) /\ FromTheFirst
       \/ i \in DOMAIN rows /\ rows[i].button = preferred /\ Return(i)
       \/ i \in DOMAIN rows /\ rows[i].button # preferred /\ i' = i + 1
            /\ UNCHANGED <<rows, preferred, sel, pc, best>>

Beats(j, k) == Greater(SortKey(rows[j]), SortKey(rows[k]))

Compare ==
    /\ pc = "compare"
    /\ \/ i > Len(rows) /\ Return(best)
       \/ /\ i \in DOMAIN rows
          /\ best' = IF Beats(i, best) THEN i ELSE best
          /\ i' = i + 1
          /\ UNCHANGED <<rows, preferred, sel, pc>>

Next == Enter \/ Prefer \/ Compare

Spec == Init /\ [][Next]_vars

-----------------------------------------------------------------------------
(* What README.md, "DJ CLASS" selection order, promises.                     *)

\* Rows as a table of the store holds them: ranks that V-ARCHIVE has, a level
\* for every rank but the first and the last, one row for each button.
Known(r) ==
    /\ r.rank # NoRank /\ r.button \in {4, 5, 6, 8}
    /\ IF r.rank \in {LoD, Beginner} THEN r.level = 0 ELSE r.level \in 1 .. 4

Stored == \A j, k \in DOMAIN rows : Known(rows[j]) /\ (rows[j].button = rows[k].button => j = k)

\* Theory > I > II > III > IV, and theory above any other LoD.
Step(r) == IF r.rank = LoD THEN (IF IsTheoryConversion(r.conversion) THEN 0 ELSE 1) ELSE r.level

\* 8 > 5 > 6 > 4.
ButtonAbove(b, c) ==
    \/ b = 8 /\ c \in {5, 6, 4}
    \/ b = 5 /\ c \in {6, 4}
    \/ b = 6 /\ c = 4

\* Rank, then step, then button; DJ POWER does not count.
Above(r, s) ==
    \/ r.rank < s.rank
    \/ r.rank = s.rank /\ Step(r) < Step(s)
    \/ r.rank = s.rank /\ Step(r) = Step(s) /\ ButtonAbove(r.button, s.button)

Has(button) == \E j \in DOMAIN rows : rows[j].button = button

\* The first row with the preferred button if a viewer's badge is wanted and
\* there is one; otherwise the first of the greatest; nothing only without rows.
ReturnsFirstGreatest ==
    pc = "done" =>
        /\ best = 0 <=> rows = <<>>
        /\ rows # <<>> =>
              /\ best \in DOMAIN rows
              /\ IF UsesPreference /\ Has(preferred)
                 THEN /\ rows[best].button = preferred
                      /\ \A j \in 1 .. best - 1 : rows[j].button # preferred
                 ELSE \A j \in DOMAIN rows :
                        ~Beats(j, best) /\ (j < best => Beats(best, j))

\* Of stored rows, it is the one above all others in README's order, whatever
\* the order of the rows.
KeepsThePromise ==
    pc = "done" /\ rows # <<>> /\ Stored /\ ~(UsesPreference /\ Has(preferred)) =>
        \A j \in DOMAIN rows \ {best} : Above(rows[best], rows[j])

-----------------------------------------------------------------------------
TypeOK ==
    /\ rows \in Seq(Row) /\ preferred \in Nat \cup {Nil} /\ sel \in {"Auto", "Viewer"}
    /\ pc \in {"start", "prefer", "compare", "done"}
    /\ i \in Nat \ {0} /\ best \in Nat

\* The loops: what has been read so far is beaten, or has another button.
Loops ==
    /\ pc = "start" => i = 1 /\ best = 0
    /\ pc = "prefer" =>
          /\ rows # <<>> /\ UsesPreference /\ i <= Len(rows) + 1
          /\ \A j \in 1 .. i - 1 : rows[j].button # preferred
    /\ pc = "compare" =>
          /\ rows # <<>> /\ ~(UsesPreference /\ Has(preferred))
          /\ i \in 2 .. Len(rows) + 1 /\ best \in 1 .. i - 1
          /\ \A j \in 1 .. i - 1 : ~Beats(j, best) /\ (j < best => Beats(best, j))

IInv == TypeOK /\ Loops /\ ReturnsFirstGreatest
=============================================================================
