------------------------------- MODULE Limiter -------------------------------
(***************************************************************************)
(* Package ratelimit: fixed windows per key, that is, per scope and client *)
(* address, all in one table under one mutex, so that every Allow is one   *)
(* step.  A window's start is kept as its age, counted in ticks up to the  *)
(* window's length.                                                        *)
(* Names that TTLCache has too carry the package's, so that one module can *)
(* extend both.                                                            *)
(***************************************************************************)
EXTENDS Naturals, FiniteSets

CONSTANTS
    Clients,         \* the keys of all scopes
    Limit, Window,   \* key -> what its scope is called with
    MaxKeys,
    Nil

ASSUME LimiterAssumption ==
    /\ {Limit, Window} \subseteq [Clients -> Nat \ {0}]
    /\ MaxKeys \in Nat
    /\ Nil \notin [age : Nat, count : Nat]

VARIABLES
    buckets,   \* key -> [age, count] or Nil
    answer,    \* this tick's last answer: [key, ok] or Nil
    ages,      \* ghost: key -> ages of its latest admissions, latest first
    cleared    \* ghost: key -> ticks since the table was cleared, up to its Window

limiterVars == <<buckets, answer, ages, cleared>>

\* The ghost remembers this many admissions; one that is Window ticks old, or
\* never was, has the age Window.
Latest(k) == 1..(2 * Limit[k])

LimiterInit ==
    /\ buckets = [k \in Clients |-> Nil]
    /\ answer = Nil
    /\ ages = [k \in Clients |-> [i \in Latest(k) |-> Window[k]]]
    /\ cleared = Window

KeysOf(b) == {k \in Clients : b[k] # Nil}
Running(b, k) == b[k] # Nil /\ b[k].age < Window[k]

\* Fault: whatever is in the way is evicted.
EvictAll(b) == [k \in Clients |-> Nil]
\* The opportunistic eviction of finished windows ...
Evict(b) == [k \in Clients |-> IF Running(b, k) THEN b[k] ELSE Nil]

\* Fault: no hard bound.
NeverFull(b) == FALSE
StillFull(b) == Cardinality(KeysOf(b)) > MaxKeys

\* ... and clear, when that was not enough.
Clears == StillFull(buckets) /\ StillFull(Evict(buckets))
Table ==
    IF Clears THEN [k \in Clients |-> Nil]
    ELSE IF StillFull(buckets) THEN Evict(buckets) ELSE buckets

Clear == cleared' = IF Clears THEN [k \in Clients |-> 0] ELSE cleared

\* Fault: the count survives the window.
Reuse(k) == IF Table[k] = Nil THEN 1 ELSE Table[k].count
\* The count of a new bucket.
First(k) == 1

Admit(k, b) ==
    /\ buckets' = [Table EXCEPT ![k] = b]
    /\ answer' = [key |-> k, ok |-> TRUE]
    /\ ages' = [ages EXCEPT ![k] = [i \in Latest(k) |-> IF i = 1 THEN 0 ELSE @[i - 1]]]
    /\ Clear

NewWindow(k) ==
    /\ ~Running(Table, k)
    /\ Admit(k, [age |-> 0, count |-> First(k)])

Under(k) == Table[k].count < Limit[k]

Count(k) ==
    /\ Running(Table, k)
    /\ Under(k)
    /\ Admit(k, [Table[k] EXCEPT !.count = @ + 1])

Refuse(k) ==
    /\ Running(Table, k)
    /\ ~Under(k)
    /\ buckets' = Table
    /\ answer' = [key |-> k, ok |-> FALSE]
    /\ UNCHANGED ages
    /\ Clear

Allow(k) == NewWindow(k) \/ Count(k) \/ Refuse(k)

Older(k, n) == IF n < Window[k] THEN n + 1 ELSE n

\* A tick of the clock that Allow reads.
Elapse ==
    /\ buckets' = [k \in Clients |->
          IF buckets[k] = Nil THEN Nil ELSE [buckets[k] EXCEPT !.age = Older(k, @)]]
    /\ ages' = [k \in Clients |-> [i \in Latest(k) |-> Older(k, ages[k][i])]]
    /\ cleared' = [k \in Clients |-> Older(k, cleared[k])]
    /\ answer' = Nil

LimiterNext == (\E k \in Clients : Allow(k)) \/ Elapse

LimiterSpec == LimiterInit /\ [][LimiterNext]_limiterVars

-----------------------------------------------------------------------------
Buckets(k) == [age : 0..Window[k], count : 1..Limit[k]]

\* Type correctness; a count never passes the limit.
LimiterTypeOK ==
    /\ buckets \in [Clients -> [age : Nat, count : Nat] \cup {Nil}]
    /\ \A k \in Clients : buckets[k] \in Buckets(k) \cup {Nil}
    /\ answer \in [key : Clients, ok : BOOLEAN] \cup {Nil}
    /\ ages = [k \in Clients |-> ages[k]]
    /\ \A k \in Clients : ages[k] \in [Latest(k) -> 0..Window[k]]
    /\ cleared = [k \in Clients |-> cleared[k]]
    /\ \A k \in Clients : cleared[k] \in 0..Window[k]

\* The comment "hard bound on memory": whatever comes in within one window, the
\* table never holds more than one key above maxKeys, each with its type.
TableBounded == LimiterTypeOK /\ Cardinality(KeysOf(buckets)) <= MaxKeys + 1

\* Two windows side by side let through less than twice the limit within any
\* Window ticks, wherever those ticks begin; more gets through only when the
\* table was cleared meanwhile.  Evicting finished windows, which any scope's
\* call does to the keys of every other, never adds to it.
OverLimitOnlyIfCleared ==
    \A k \in Clients : ages[k][2 * Limit[k]] < Window[k] => cleared[k] < Window[k]

\* Nobody is refused below the limit: a refused client was let through Limit
\* times within the last Window ticks.
RefusedAtLimit ==
    answer # Nil /\ ~answer.ok => ages[answer.key][Limit[answer.key]] < Window[answer.key]

-----------------------------------------------------------------------------
(* The inductive invariant behind them. *)

\* Latest first.
InOrderOfAge ==
    \A k \in Clients : \A i, j \in Latest(k) : i <= j => ages[k][i] <= ages[k][j]

\* The last admission that a bucket counts opened it.  The one Limit admissions
\* before that is out of sight, because the window before this one admitted no
\* more and was over; or it is from before the table was cleared.
WindowsApart ==
    \A k \in Clients :
        IF buckets[k] = Nil THEN ages[k][Limit[k]] >= cleared[k]
        ELSE /\ ages[k][buckets[k].count] = buckets[k].age
             /\ ages[k][buckets[k].count + Limit[k]] >= cleared[k]

LimiterInv ==
    /\ TableBounded /\ IsFiniteSet(KeysOf(buckets))
    /\ InOrderOfAge /\ WindowsApart /\ RefusedAtLimit
=============================================================================
