------------------------------ MODULE Schedule ------------------------------
(***************************************************************************)
(* The daily job: Until and Daily of internal/schedule.                    *)
(*                                                                         *)
(* Times are seconds UTC.  Until reads the wall clock; the timer counts    *)
(* with the monotonic clock.  The host may set the wall clock forward or   *)
(* back at any time, and let it run a little slower or faster.             *)
(***************************************************************************)
EXTENDS Integers

CONSTANT hourUTC

Hour == 3600
Day == 24 * Hour

\* time.Date of now's day, at the hour.
OfToday(now) == now - (now % Day) + hourUTC * Hour

Until(now) == (IF OfToday(now) > now THEN OfToday(now) ELSE OfToday(now) + Day) - now

VARIABLES
    wall,      \* the wall clock
    left,      \* what the timer has left; below zero when the goroutine is late
    pc,        \* "waiting", "running" the job, "stopped"
    armed,     \* ghost: the wall clock when the timer was armed
    due,       \* ghost: the time it was armed for
    ahead,     \* ghost: by how much the clock was set forward since
    ran,       \* ghost: the time for which the job ran last
    began,     \* ghost: the wall clock when it began to
    lag,       \* ghost: and what had delayed it: clock set forward and late timer
    setBack    \* ghost: the wall clock has been set back

timer == <<left, armed, due>>
run == <<ran, began, lag>>
vars == <<wall, timer, ahead, pc, run, setBack>>

\* t := time.NewTimer(Until(hourUTC, time.Now()))
Arm(now) ==
    /\ pc' = "waiting"
    /\ left' = Until(now)
    /\ armed' = now /\ due' = now + Until(now) /\ ahead' = 0

\* What was due before the server started counts as done.
Init ==
    /\ wall \in Nat /\ pc = "waiting"
    /\ left = Until(wall) /\ armed = wall /\ due = wall + Until(wall) /\ ahead = 0
    /\ ran = due - Day /\ began = wall /\ lag = 0
    /\ setBack = FALSE

Tick ==
    /\ wall' = wall + 1
    /\ left' = left - 1
    /\ UNCHANGED <<armed, due, ahead, pc, run, setBack>>

SetClock(t) ==
    /\ wall' = t
    /\ ahead' = ahead + (t - wall)
    /\ setBack' = (setBack \/ t < wall)
    /\ UNCHANGED <<timer, pc, run>>

\* <-t.C, however late the goroutine.
Fire ==
    /\ pc = "waiting" /\ left <= 0
    /\ pc' = "running"
    /\ ran' = due /\ began' = wall /\ lag' = ahead - left
    /\ UNCHANGED <<wall, timer, ahead, setBack>>

\* job(ctx) returns, and the loop begins again.
JobReturns ==
    /\ pc = "running"
    /\ Arm(wall)
    /\ UNCHANGED <<wall, run, setBack>>

\* <-ctx.Done()
Cancel ==
    /\ pc = "waiting"
    /\ pc' = "stopped"
    /\ UNCHANGED <<wall, timer, ahead, run, setBack>>

Next == Tick \/ (\E t \in Nat : SetClock(t)) \/ Fire \/ JobReturns \/ Cancel

Spec == Init /\ [][Next]_vars

-----------------------------------------------------------------------------
\* The job is due at t.
IsMark(t) == (t - hourUTC * Hour) % Day = 0

\* A time at which the job was due is left out, by the timer that waits for a
\* later one, only if the clock reached it while the job was running (so a job
\* that ends exactly on the hour waits for a full day); or before the job had
\* even begun, when the timer was so late, or the clock meanwhile set forward so
\* far, that together they make a day.
LeftOutOnlyInJob ==
    pc = "waiting" =>
        \A t \in Int : IsMark(t) /\ ran < t /\ t < due =>
            \/ began < t /\ t <= armed
            \/ t <= began /\ lag >= Day

\* As long as the clock is not set back, every run is for a later day than the
\* run before, and never starts early, however late the timer or long the job.
OncePerDay ==
    [][pc = "waiting" /\ pc' = "running" /\ ~setBack => ran < ran' /\ ran' <= wall]_vars

-----------------------------------------------------------------------------
TypeOK ==
    /\ wall \in Nat /\ left \in Int /\ pc \in {"waiting", "running", "stopped"}
    /\ {armed, due, ahead, ran, began, lag} \subseteq Int
    /\ setBack \in BOOLEAN

\* The timer is armed for the first time the job is due after the last run
\* ended.
ArmedForNext ==
    /\ IsMark(ran) /\ IsMark(due) /\ armed < due /\ due <= armed + Day
    /\ \A t \in Int : IsMark(t) /\ armed < t => due <= t

\* The clock and the timer reach the hour together, but for what the clock was
\* set, and a run is not for a later time than its beginning.
InTime ==
    /\ pc = "waiting" => wall + left = due + ahead
    /\ ~setBack => /\ pc = "waiting" => ahead >= 0 /\ ran < due
                   /\ pc = "running" => wall >= ran

\* While the job runs: what it left out before it began.
BegunLate ==
    pc = "running" => \A t \in Int : IsMark(t) /\ ran < t /\ t <= began => lag >= Day

IInv == TypeOK /\ ArmedForNext /\ InTime /\ BegunLate /\ LeftOutOnlyInJob
=============================================================================
