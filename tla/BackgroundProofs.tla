-------------------------- MODULE BackgroundProofs --------------------------
(***************************************************************************)
(* Proofs about what the server runs in the background: the ingest loop of *)
(* a worker, and the daily job.                                            *)
(***************************************************************************)
EXTENDS Ingest, Integers, TLAPS

-----------------------------------------------------------------------------
(* Ingest, for any number of helpers, attempts and bounds of the backoff.  *)

LEMMA Bounds ==
    /\ Attempts \in Nat /\ 0 < Attempts
    /\ MinBackoff \in Nat /\ MaxBackoff \in Nat /\ MinBackoff <= MaxBackoff
BY IngestAssumption

LEMMA LastAttempt == \A n \in 0..Attempts : n = Attempts \/ n < Attempts
BY Bounds

LEMMA IngestInitial == Init => IngestInv
<1> SUFFICES ASSUME Init PROVE IngestInv
  OBVIOUS
<1>1. backoff \in MinBackoff..MaxBackoff /\ 0 \in 0..Attempts
  BY Bounds DEF Init
<1>2. tries \in [Helpers -> 0..Attempts]
  BY <1>1 DEF Init
<1> QED BY <1>1, <1>2 DEF Init, IngestInv, TypeOK, AttemptsCounted

LEMMA BackoffKept ==
    ASSUME NEW b \in MinBackoff..MaxBackoff
    PROVE  NextBackoff(b) \in MinBackoff..MaxBackoff
BY Bounds DEF NextBackoff, Smaller

\* The loop leaves the attempts of the helpers alone.
LEMMA LoopInv ==
    ASSUME IngestInv, Loop \/ RunReturns \/ Cancel \/ NoSessionKey
    PROVE  IngestInv'
<1> USE Bounds DEF IngestInv, session, helpers
<1>1. AttemptsCounted'
  <2>1. UNCHANGED <<helper, tries>>
    BY DEF Loop, AccessToken, UserSessionURL, Step, DialFails, DialOK, RunReturns, Ended, Wake,
           Cancel, NoSessionKey
  <2> QED BY <2>1 DEF AttemptsCounted
<1>2. CASE AccessToken \/ UserSessionURL \/ DialFails
  BY <1>1, <1>2 DEF AccessToken, UserSessionURL, Step, DialFails, TypeOK
<1>3. CASE DialOK
  BY <1>1, <1>3 DEF DialOK, TypeOK
<1>4. CASE RunReturns
  BY <1>1, <1>4 DEF RunReturns, TypeOK
<1>5. CASE Ended
  <2>1. backoff' \in MinBackoff..MaxBackoff /\ at' \in {"exited", "sleep"}
    <3>1. MinBackoff \in MinBackoff..MaxBackoff
      BY ONLY Bounds
    <3>2. backoff \in MinBackoff..MaxBackoff
      BY DEF TypeOK
    <3>3. backoff' = backoff \/ backoff' = MinBackoff
      BY <1>5 DEF Ended
    <3> QED BY <1>5, <3>1, <3>2, <3>3 DEF Ended
  <2> QED BY <1>1, <1>5, <2>1 DEF Ended, TypeOK
<1>6. CASE Wake
  <2>1. backoff' \in MinBackoff..MaxBackoff /\ at' \in {"exited", "token"}
    BY <1>6, BackoffKept DEF Wake, TypeOK
  <2> QED BY <1>1, <1>6, <2>1 DEF Wake, TypeOK
<1>7. CASE Cancel
  BY <1>1, <1>7 DEF Cancel, TypeOK
<1>8. CASE NoSessionKey
  BY <1>1, <1>8 DEF NoSessionKey, FailSession, TypeOK
<1> QED BY <1>2, <1>3, <1>4, <1>5, <1>6, <1>7, <1>8 DEF Loop

\* A helper's next step and attempts, with the other variables of their types.
LEMMA HelperKept ==
    ASSUME IngestInv, NEW h \in Helpers,
           NEW next \in {"off", "call", "sleep", "give up"}, NEW n \in 0..Attempts,
           helper' = [helper EXCEPT ![h] = next], tries' = [tries EXCEPT ![h] = n],
           next \in {"call", "sleep"} => n > 0, next = "sleep" => n < Attempts,
           next = "give up" => n = Attempts
    PROVE  /\ helper' \in [Helpers -> {"off", "call", "sleep", "give up"}]
           /\ tries' \in [Helpers -> 0..Attempts] /\ AttemptsCounted'
<1>1. /\ helper \in [Helpers -> {"off", "call", "sleep", "give up"}]
      /\ tries \in [Helpers -> 0..Attempts]
  BY DEF IngestInv, TypeOK
<1>2. AttemptsCounted
  BY DEF IngestInv
<1> QED BY <1>1, <1>2 DEF AttemptsCounted

LEMMA HelperInv ==
    ASSUME IngestInv, NEW h \in Helpers, Connected(h) \/ Subscribe(h)
    PROVE  IngestInv'
<1>0. /\ helper[h] \in {"off", "call", "sleep", "give up"}
      /\ tries = [tries EXCEPT ![h] = tries[h]]
  BY DEF IngestInv, TypeOK
<1>6. tries[h] \in 0..Attempts
  BY DEF IngestInv, TypeOK
<1>1. CASE Connected(h)
  <2>1. 1 \in 0..Attempts /\ 1 > 0
    BY ONLY Bounds
  <2>2. helper' = [helper EXCEPT ![h] = "call"] /\ tries' = [tries EXCEPT ![h] = 1]
    BY <1>1 DEF Connected
  <2>3. /\ helper' \in [Helpers -> {"off", "call", "sleep", "give up"}]
        /\ tries' \in [Helpers -> 0..Attempts] /\ AttemptsCounted'
    BY <2>1, <2>2, HelperKept
  <2> QED BY <1>1, <2>3 DEF Connected, IngestInv, TypeOK
<1>2. CASE SubscribeOK(h)
  <2>1. helper' = [helper EXCEPT ![h] = "off"] /\ tries' = tries
    BY <1>2 DEF SubscribeOK
  <2>2. /\ helper' \in [Helpers -> {"off", "call", "sleep", "give up"}]
        /\ tries' \in [Helpers -> 0..Attempts] /\ AttemptsCounted'
    BY <1>0, <1>6, <2>1, HelperKept
  <2>3. bound' \in BOOLEAN
    BY <1>2 DEF SubscribeOK, IngestInv, TypeOK
  <2> QED BY <1>2, <2>2, <2>3 DEF SubscribeOK, IngestInv, TypeOK
<1>3. CASE SubscribeFails(h)
  <2>1. PICK next \in {"off", "give up", "sleep"} :
          /\ helper' = [helper EXCEPT ![h] = next]
          /\ next = "give up" => tries[h] = Attempts
          /\ next = "sleep" => tries[h] # Attempts
    BY <1>3 DEF SubscribeFails
  <2>2. UNCHANGED <<ctxDone, at, backoff, session, mine, tries>>
    BY <1>3 DEF SubscribeFails
  <2>3. tries[h] > 0
    BY <1>3 DEF SubscribeFails, IngestInv, AttemptsCounted
  <2>4. tries[h] # Attempts => tries[h] < Attempts
    BY ONLY <1>6, LastAttempt, Zenon
  <2>5. /\ helper' \in [Helpers -> {"off", "call", "sleep", "give up"}]
        /\ tries' \in [Helpers -> 0..Attempts] /\ AttemptsCounted'
    BY <1>0, <1>6, <2>1, <2>2, <2>3, <2>4, HelperKept
  <2> QED BY <2>2, <2>5 DEF IngestInv, TypeOK, session
<1>4. CASE GiveUp(h)
  <2>1. helper' = [helper EXCEPT ![h] = "off"] /\ tries' = tries
    BY <1>4 DEF GiveUp
  <2>2. /\ helper' \in [Helpers -> {"off", "call", "sleep", "give up"}]
        /\ tries' \in [Helpers -> 0..Attempts] /\ AttemptsCounted'
    BY <1>0, <1>6, <2>1, HelperKept
  <2>3. cause' \in {None, "no key", "subscribe"}
    BY <1>4 DEF GiveUp, FailSession, IngestInv, TypeOK
  <2> QED BY <1>4, <2>2, <2>3 DEF GiveUp, IngestInv, TypeOK
<1>5. CASE Retry(h)
  <2>1. helper[h] = "sleep" /\ helper' = [helper EXCEPT ![h] = "call"]
        /\ tries' = [tries EXCEPT ![h] = tries[h] + 1]
    BY <1>5 DEF Retry
  <2>2. tries[h] > 0 /\ tries[h] < Attempts
    BY <2>1 DEF IngestInv, AttemptsCounted
  <2>3. tries[h] + 1 \in 0..Attempts /\ tries[h] + 1 > 0
    BY ONLY <1>6, <2>2, Bounds
  <2>4. /\ helper' \in [Helpers -> {"off", "call", "sleep", "give up"}]
        /\ tries' \in [Helpers -> 0..Attempts] /\ AttemptsCounted'
    BY <2>1, <2>3, HelperKept
  <2> QED BY <1>5, <2>4 DEF Retry, IngestInv, TypeOK, session
<1> QED BY <1>1, <1>2, <1>3, <1>4, <1>5 DEF Subscribe

\* The invariant is inductive: the loop, the socket's events and every helper
\* keep it.
THEOREM IngestInductive == Spec => []IngestInv
<1>1. ASSUME IngestInv, [Next]_vars PROVE IngestInv'
  <2>1. CASE Next
    <3>1. CASE Exited
      BY <1>1, <3>1 DEF Exited, vars, session, helpers, IngestInv, TypeOK, AttemptsCounted
    <3> QED BY <1>1, <2>1, <3>1, LoopInv, HelperInv DEF Next
  <2>2. CASE UNCHANGED vars
    BY <1>1, <2>2 DEF vars, session, helpers, IngestInv, TypeOK, AttemptsCounted
  <2> QED BY <1>1, <2>1, <2>2
<1> QED BY <1>1, IngestInitial, PTL DEF Spec

\* The backoff stays between its bounds, and no helper makes more than Attempts
\* calls.
THEOREM IngestTypeCorrect == Spec => []TypeOK
<1>1. IngestInv => TypeOK
  BY DEF IngestInv
<1> QED BY <1>1, IngestInductive, PTL

\* A session is ended for want of a subscription only by a helper of its own
\* that used up its attempts.
THEOREM OwnFailureEnds == Spec => OwnFailureOnly
<1> DEFINE Own == cause # "subscribe" /\ cause' = "subscribe" =>
                    \E h \in Helpers : mine[h] /\ helper[h] = "give up" /\ tries[h] = Attempts
<1>1. ASSUME IngestInv, Next, cause # "subscribe", cause' = "subscribe"
      PROVE  \E h \in Helpers : mine[h] /\ helper[h] = "give up" /\ tries[h] = Attempts
  <2>1. PICK h \in Helpers : GiveUp(h) /\ mine[h]
    <3>1. cause' # cause /\ cause' # None
      BY <1>1, NoneIsNoCause
    <3>2. ~(Loop \/ RunReturns \/ Cancel \/ Exited)
      BY <3>1 DEF Loop, AccessToken, UserSessionURL, Step, DialFails, DialOK, RunReturns, Ended,
                  Wake, Cancel, Exited, vars, session
    <3>3. ~NoSessionKey
      BY <1>1 DEF NoSessionKey, FailSession
    <3>4. \A h \in Helpers : ~Connected(h) /\ ~SubscribeOK(h) /\ ~SubscribeFails(h) /\ ~Retry(h)
      BY <3>1 DEF Connected, SubscribeOK, SubscribeFails, Retry, session
    <3>5. PICK h \in Helpers : GiveUp(h)
      BY <1>1, <3>2, <3>3, <3>4 DEF Next, Subscribe
    <3>6. mine[h]
      BY <3>1, <3>5 DEF GiveUp
    <3> QED BY <3>5, <3>6
  <2>2. helper[h] = "give up"
    BY <2>1 DEF GiveUp
  <2> QED BY <1>1, <2>1, <2>2 DEF IngestInv, AttemptsCounted
<1>2. IngestInv /\ [Next]_vars => [Own]_vars
  BY <1>1
<1> QED BY <1>2, IngestInductive, PTL DEF Spec, OwnFailureOnly

-----------------------------------------------------------------------------
(* Schedule, for every hour of the day.  Its variables are the clocks and  *)
(* the state of Daily's one goroutine.                                     *)

CONSTANT hourUTC
VARIABLES wall, left, pc, armed, due, ahead, ran, began, lag, setBack

Daily == INSTANCE Schedule

LEMMA Units == Daily!Hour \in Nat /\ Daily!Day \in Nat /\ 0 < Daily!Day
  BY SMT DEF Daily!Hour, Daily!Day

LEMMA HourOfDay ==
  ASSUME hourUTC \in 0 .. 23
  PROVE  hourUTC * Daily!Hour \in Int /\ 0 <= hourUTC * Daily!Hour /\ hourUTC * Daily!Hour < Daily!Day
  <1>1. PICK h \in Int : h = hourUTC /\ 0 <= h /\ h <= 23
    BY SMT
  <1>2. h * 3600 \in Int /\ 0 <= h * 3600 /\ h * 3600 < 24 * 3600
    <2>1. h \in Int /\ 0 <= h /\ h <= 23
      BY <1>1
    <2> QED
      BY ONLY <2>1, SMT
  <1> QED
    BY <1>1, <1>2, SMT DEF Daily!Hour, Daily!Day

LEMMA Midnight ==
  \A n \in Nat : \E m \in Int :
     m = n - (n % Daily!Day) /\ m % Daily!Day = 0 /\ m <= n /\ n < m + Daily!Day
  <1>1. SUFFICES ASSUME NEW n \in Nat
                 PROVE  \E m \in Int : m = n - (n % Daily!Day) /\ m % Daily!Day = 0 /\ m <= n /\ n < m + Daily!Day
    OBVIOUS
  <1> DEFINE m == n - (n % Daily!Day)
  <1>2. m \in Int /\ m % Daily!Day = 0 /\ m <= n /\ n < m + Daily!Day
    BY SMT DEF Daily!Day, Daily!Hour
  <1> QED
    BY <1>2

LEMMA NextMidnight == \A m \in Int : m % Daily!Day = 0 => (m + Daily!Day) % Daily!Day = 0
  BY SMT DEF Daily!Day, Daily!Hour

LEMMA MidnightsApart ==
  \A m, n \in Int : m % Daily!Day = 0 /\ n % Daily!Day = 0 /\ n < m => n + Daily!Day <= m
  BY SMT DEF Daily!Day, Daily!Hour

\* Until leads to the next time the job is due, at most a day ahead.
THEOREM UntilNext ==
  ASSUME hourUTC \in 0 .. 23, NEW now \in Nat
  PROVE  /\ Daily!Until(now) \in 1 .. Daily!Day
         /\ Daily!IsMark(now + Daily!Until(now))
         /\ \A t \in Int : Daily!IsMark(t) /\ now < t => now + Daily!Until(now) <= t
  <1>1. PICK midnight \in Int :
           midnight = now - (now % Daily!Day) /\ midnight % Daily!Day = 0 /\ midnight <= now /\ now < midnight + Daily!Day
    BY Midnight
  <1>2. PICK hour \in Int : hour = hourUTC * Daily!Hour /\ 0 <= hour /\ hour < Daily!Day
    BY HourOfDay, Units, SMT
  <1>3. Daily!OfToday(now) = midnight + hour
    BY <1>1, <1>2 DEF Daily!OfToday
  <1>4. \A t \in Int : Daily!IsMark(t) <=> (t - hour) % Daily!Day = 0
    BY <1>2 DEF Daily!IsMark
  <1>5. PICK m \in Int :
           m % Daily!Day = 0 /\ Daily!Until(now) = m + hour - now /\ now < m + hour /\ m + hour <= now + Daily!Day
    <2>1. CASE midnight + hour > now
      BY <1>1, <1>2, <1>3, <2>1, Units, SMT DEF Daily!Until
    <2>2. CASE ~(midnight + hour > now)
      <3>1. (midnight + Daily!Day) % Daily!Day = 0 /\ midnight + Daily!Day \in Int
        BY <1>1, NextMidnight, Units
      <3>2. /\ Daily!Until(now) = (midnight + Daily!Day) + hour - now
            /\ now < (midnight + Daily!Day) + hour /\ (midnight + Daily!Day) + hour <= now + Daily!Day
        BY <1>1, <1>2, <1>3, <2>2, Units, SMT DEF Daily!Until
      <3> QED
        BY <3>1, <3>2
    <2> QED
      BY <2>1, <2>2
  <1>6. now + Daily!Until(now) = m + hour /\ (m + hour) - hour = m /\ m + hour \in Int
    BY <1>2, <1>5, SMT
  <1>7. Daily!IsMark(now + Daily!Until(now))
    BY <1>4, <1>5, <1>6
  <1>8. ASSUME NEW t \in Int, Daily!IsMark(t), now < t PROVE now + Daily!Until(now) <= t
    <2>1. (t - hour) % Daily!Day = 0 /\ t - hour \in Int
      BY <1>2, <1>4, <1>8
    <2>2. t - hour < m => (t - hour) + Daily!Day <= m
      BY <1>5, <2>1, MidnightsApart
    <2> QED
      BY <1>2, <1>5, <1>6, <1>8, <2>2, Units, SMT
  <1>9. Daily!Until(now) \in 1 .. Daily!Day
    BY <1>2, <1>5, Units, SMT
  <1> QED
    BY <1>7, <1>8, <1>9

\* Times at which the job is due are whole days apart.
LEMMA MarksApart ==
  ASSUME hourUTC \in 0 .. 23, NEW s \in Int, NEW t \in Int, Daily!IsMark(s), Daily!IsMark(t), s < t
  PROVE  s + Daily!Day <= t
  <1>1. PICK hour \in Int : hour = hourUTC * Daily!Hour
    BY HourOfDay
  <1>2. (s - hour) % Daily!Day = 0 /\ (t - hour) % Daily!Day = 0 /\ s - hour < t - hour
    BY <1>1, SMT DEF Daily!IsMark
  <1>3. (s - hour) + Daily!Day <= t - hour
    BY <1>2, MidnightsApart
  <1> QED
    BY <1>3, Units, SMT

\* So is the time before a time at which it is due.
LEMMA MarkBefore ==
  ASSUME hourUTC \in 0 .. 23, NEW s \in Int, Daily!IsMark(s)
  PROVE  Daily!IsMark(s - Daily!Day)
  <1>1. PICK hour \in Int : hour = hourUTC * Daily!Hour
    BY HourOfDay
  <1>2. \A m \in Int : m % Daily!Day = 0 => (m - Daily!Day) % Daily!Day = 0
    BY SMT DEF Daily!Day, Daily!Hour
  <1>3. (s - hour) % Daily!Day = 0 /\ (s - hour) - Daily!Day = (s - Daily!Day) - hour
    BY <1>1, Units, SMT DEF Daily!IsMark
  <1> QED
    BY <1>1, <1>2, <1>3 DEF Daily!IsMark

\* The loop's invariant holds throughout, for every hour of the day.
THEOREM ScheduleInductive == ASSUME hourUTC \in 0 .. 23 PROVE Daily!Spec => []Daily!IInv
  <1>1. Daily!Init => Daily!IInv
    <2>1. SUFFICES ASSUME Daily!Init PROVE Daily!IInv
      OBVIOUS
    <2>2. PICK u \in 1 .. Daily!Day : u = Daily!Until(wall)
      BY <2>1, UntilNext DEF Daily!Init
    <2>3. /\ wall \in Nat /\ left = u /\ armed = wall /\ due = wall + u /\ ahead = 0
          /\ ran = due - Daily!Day /\ began = wall /\ lag = 0 /\ pc = "waiting" /\ setBack = FALSE
      BY <2>1, <2>2 DEF Daily!Init
    <2>4. /\ left \in Int /\ {armed, due, ahead, ran, began, lag} \subseteq Int /\ wall + left = due + ahead
          /\ ran < due /\ armed < due /\ due <= armed + Daily!Day /\ ran + Daily!Day = due
      BY <2>2, <2>3, Units, SMT
    <2>5. Daily!ArmedForNext
      <3>1. Daily!IsMark(due) /\ \A t \in Int : Daily!IsMark(t) /\ armed < t => due <= t
        BY <2>2, <2>3, UntilNext
      <3>2. Daily!IsMark(ran)
        BY <2>3, <2>4, <3>1, MarkBefore
      <3> QED
        BY <2>4, <3>1, <3>2 DEF Daily!ArmedForNext
    <2>6. Daily!LeftOutOnlyInJob
      <3>1. ASSUME NEW t \in Int, Daily!IsMark(t), ran < t, t < due PROVE FALSE
        <4>1. ran \in Int /\ Daily!IsMark(ran)
          BY <2>4, <2>5 DEF Daily!ArmedForNext
        <4>2. ran + Daily!Day <= t
          BY <3>1, <4>1, MarksApart
        <4> QED
          BY <2>4, <3>1, <4>2, Units, SMT
      <3> QED
        BY <3>1 DEF Daily!LeftOutOnlyInJob
    <2>7. setBack \in BOOLEAN /\ pc \in {"waiting", "running", "stopped"}
      BY <2>3, Zenon
    <2>8. Daily!TypeOK
      BY <2>3, <2>4, <2>7 DEF Daily!TypeOK
    <2>9. Daily!InTime /\ Daily!BegunLate
      BY <2>3, <2>4, SMT DEF Daily!InTime, Daily!BegunLate
    <2> QED
      BY <2>5, <2>6, <2>8, <2>9 DEF Daily!IInv
  <1>2. Daily!IInv /\ [Daily!Next]_(Daily!vars) => Daily!IInv'
    <2>1. SUFFICES ASSUME Daily!IInv, [Daily!Next]_(Daily!vars) PROVE Daily!IInv'
      OBVIOUS
    <2>2. Daily!TypeOK /\ Daily!ArmedForNext /\ Daily!InTime /\ Daily!BegunLate /\ Daily!LeftOutOnlyInJob
      BY <2>1 DEF Daily!IInv
    <2> USE <2>2 DEF Daily!TypeOK, Daily!timer, Daily!run
    \* A step that leaves the times of the last run and of the next one alone.
    <2>3. ASSUME UNCHANGED <<armed, due, ran, began, lag>>, pc' = pc \/ pc' = "stopped"
          PROVE  Daily!ArmedForNext' /\ Daily!BegunLate' /\ Daily!LeftOutOnlyInJob'
      BY <2>3 DEF Daily!ArmedForNext, Daily!BegunLate, Daily!LeftOutOnlyInJob
    <2>4. CASE Daily!Tick
      <3>1. UNCHANGED <<armed, due, ran, began, lag>> /\ pc' = pc
        BY <2>4 DEF Daily!Tick
      <3>2. Daily!TypeOK' /\ Daily!InTime'
        BY <2>4, SMT DEF Daily!Tick, Daily!InTime
      <3> QED
        BY <2>3, <3>1, <3>2 DEF Daily!IInv
    <2>5. ASSUME NEW t \in Nat, Daily!SetClock(t) PROVE Daily!IInv'
      <3>1. UNCHANGED <<armed, due, ran, began, lag, left>> /\ pc' = pc
        BY <2>5 DEF Daily!SetClock
      <3>2. (~setBack' => ~setBack /\ ~(t < wall)) /\ setBack' \in BOOLEAN
        BY <2>5, Zenon DEF Daily!SetClock
      <3>3. wall' = t /\ ahead' = ahead + (t - wall) /\ ahead' \in Int
        BY <2>5 DEF Daily!SetClock
      <3>4. Daily!InTime'
        BY <3>1, <3>2, <3>3, SMT DEF Daily!InTime
      <3> QED
        BY <2>3, <3>1, <3>2, <3>3, <3>4 DEF Daily!IInv
    <2>6. CASE Daily!Fire
      <3>1. /\ pc = "waiting" /\ pc' = "running" /\ ran' = due /\ began' = wall /\ left <= 0
            /\ UNCHANGED <<wall, left, armed, due, ahead, setBack>>
        BY <2>6 DEF Daily!Fire
      <3>2. lag' = ahead - left /\ lag' \in Int
        BY <2>6 DEF Daily!Fire
      <3>3. Daily!TypeOK'
        BY <3>1, <3>2
      <3>4. Daily!ArmedForNext'
        BY <3>1 DEF Daily!ArmedForNext
      <3>5. Daily!InTime'
        BY <3>1, SMT DEF Daily!InTime
      <3>6. ASSUME NEW t \in Int, Daily!IsMark(t), due < t, t <= wall PROVE lag' >= Daily!Day
        <4>1. due + Daily!Day <= t
          BY <3>6, MarksApart DEF Daily!ArmedForNext
        <4>2. wall + left = due + ahead
          BY <3>1 DEF Daily!InTime
        <4> QED
          BY <3>2, <3>6, <4>1, <4>2, Units, SMT
      <3> QED
        BY <3>1, <3>3, <3>4, <3>5, <3>6 DEF Daily!IInv, Daily!BegunLate, Daily!LeftOutOnlyInJob
    <2>7. CASE Daily!JobReturns
      <3>1. PICK u \in 1 .. Daily!Day : u = Daily!Until(wall)
        BY UntilNext
      <3>2. /\ pc = "running" /\ pc' = "waiting" /\ left' = u /\ armed' = wall /\ due' = wall + u /\ ahead' = 0
            /\ UNCHANGED <<wall, ran, began, lag, setBack>>
        BY <2>7, <3>1 DEF Daily!JobReturns, Daily!Arm
      <3>3. Daily!TypeOK'
        BY <3>1, <3>2
      <3>4. Daily!IsMark(due') /\ \A t \in Int : Daily!IsMark(t) /\ armed' < t => due' <= t
        BY <3>1, <3>2, UntilNext
      <3>5. armed' < due' /\ due' <= armed' + Daily!Day
        BY <3>1, <3>2, Units, SMT
      <3>6. Daily!ArmedForNext'
        BY <3>2, <3>4, <3>5 DEF Daily!ArmedForNext
      <3>7. Daily!InTime'
        BY <3>1, <3>2, SMT DEF Daily!InTime
      <3>8. Daily!LeftOutOnlyInJob'
        <4> SUFFICES ASSUME NEW t \in Int, Daily!IsMark(t), ran < t, t < due'
                     PROVE  (began < t /\ t <= armed') \/ (t <= began /\ lag >= Daily!Day)
          BY <3>2 DEF Daily!LeftOutOnlyInJob
        <4>1. t <= armed'
          BY <3>2, <3>3, <3>4
        <4>2. t <= began => lag >= Daily!Day
          BY <3>2 DEF Daily!BegunLate
        <4> QED
          BY <4>1, <4>2
      <3> QED
        BY <3>2, <3>3, <3>6, <3>7, <3>8 DEF Daily!IInv, Daily!BegunLate
    <2>8. CASE Daily!Cancel
      <3>1. UNCHANGED <<armed, due, ran, began, lag>> /\ pc' = "stopped"
        BY <2>8 DEF Daily!Cancel
      <3>2. Daily!TypeOK' /\ Daily!InTime'
        BY <2>8 DEF Daily!Cancel, Daily!InTime
      <3> QED
        BY <2>3, <3>1, <3>2 DEF Daily!IInv
    <2>9. CASE UNCHANGED Daily!vars
      <3>1. UNCHANGED <<wall, left, armed, due, ahead, ran, began, lag, pc, setBack>>
        BY <2>9 DEF Daily!vars
      <3>2. Daily!TypeOK' /\ Daily!InTime'
        BY <3>1 DEF Daily!InTime
      <3> QED
        BY <2>3, <3>1, <3>2 DEF Daily!IInv
    <2> QED
      BY <2>1, <2>4, <2>5, <2>6, <2>7, <2>8, <2>9 DEF Daily!Next
  <1> QED
    BY <1>1, <1>2, PTL DEF Daily!Spec

\* A day is left out only if the clock passed its hour while the job ran, or a
\* late timer and a clock set forward delayed the run before by a whole day.
THEOREM NoDayLeftOut == ASSUME hourUTC \in 0 .. 23 PROVE Daily!Spec => []Daily!LeftOutOnlyInJob
  <1>1. Daily!IInv => Daily!LeftOutOnlyInJob
    BY DEF Daily!IInv
  <1> QED
    BY <1>1, ScheduleInductive, PTL

\* No day runs twice and none early, unless the clock is set back: every start
\* of the job is for a later day than the one before.
THEOREM NoDayTwice == ASSUME hourUTC \in 0 .. 23 PROVE Daily!Spec => Daily!OncePerDay
  <1>1. Daily!IInv /\ [Daily!Next]_(Daily!vars)
          => [pc = "waiting" /\ pc' = "running" /\ ~setBack => ran < ran' /\ ran' <= wall]_(Daily!vars)
    <2>1. SUFFICES ASSUME Daily!IInv, Daily!Next, pc = "waiting", pc' = "running", ~setBack
                   PROVE  ran < ran' /\ ran' <= wall
      OBVIOUS
    <2>2. Daily!Fire
      BY <2>1 DEF Daily!Next, Daily!Tick, Daily!SetClock, Daily!JobReturns, Daily!Cancel
    <2> QED
      BY <2>1, <2>2, SMT DEF Daily!Fire, Daily!IInv, Daily!TypeOK, Daily!InTime
  <1> QED
    BY <1>1, ScheduleInductive, PTL DEF Daily!Spec, Daily!OncePerDay
=============================================================================
