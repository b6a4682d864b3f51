----------------------------- MODULE Eio3Proofs -----------------------------
(***************************************************************************)
(* The heartbeat of eio3.Run for every interval, timeout and rate: IInv    *)
(* bounds the silence by what is left of the two timers, from both sides.  *)
(***************************************************************************)
EXTENDS Eio3, TLAPS

LEMMA Bounds ==
  /\ Interval \in Nat \ {0} /\ Timeout \in Nat \ {0} /\ DialTimeout \in Nat \ {0}
  /\ Rate \in Nat
BY Eio3Assumption

LEMMA NoneIsNoError == None # "heartbeat"
BY Eio3Assumption

USE Bounds

LEMMA Start == Init => IInv
<1> SUFFICES ASSUME Init PROVE IInv
  OBVIOUS
<1>1. wire \in Seq(Frames)
  BY DEF Init
<1>2. /\ deadline \in Nat /\ ping \in 0..Interval /\ quiet \in Nat /\ sent \in 0..Rate
  BY DEF Init
<1>5. awaiting \in BOOLEAN /\ readErr \in BOOLEAN /\ ctxDone \in BOOLEAN /\ broken \in BOOLEAN
  BY Zenon DEF Init
<1>3. /\ phase = "opening" /\ err = None /\ reader = "off" /\ held = None
      /\ quiet = 0 /\ awaiting = FALSE
  BY DEF Init
<1>4. TypeOK
  BY <1>1, <1>2, <1>3, <1>5 DEF TypeOK
<1> QED BY <1>3, <1>4, NoneIsNoError DEF IInv, Dialing

\* The parts of IInv beyond TypeOK.
Silence ==
    phase = "running" =>
        /\ quiet + deadline <= Interval + Timeout
        /\ quiet + deadline >= Timeout
        /\ ~awaiting => quiet + ping <= Interval
Others ==
    /\ Dialing => quiet = 0 /\ ~awaiting
    /\ reader = "hold" => held \in Frames
    /\ err = "heartbeat" => phase = "over" /\ quiet >= Timeout

LEMMA DialPreserves == IInv /\ Dial => IInv'
<1> SUFFICES ASSUME IInv, Dial PROVE IInv'
  OBVIOUS
<1> USE DEF IInv, Dialing, timers
<1>1. CASE ReadOpen
  <2>1. TypeOK'
    BY <1>1 DEF ReadOpen, Return, TypeOK
  <2> QED BY <1>1, <2>1 DEF ReadOpen, Return
<1>2. CASE ReadConnect
  <2>1. TypeOK'
    BY <1>2 DEF ReadConnect, StartRun, PingAfter, Return, TypeOK
  <2>2. Silence'
    BY <1>2 DEF ReadConnect, StartRun, PingAfter, Return, TypeOK, Silence
  <2>3. Others'
    BY <1>2 DEF ReadConnect, StartRun, Return, TypeOK, Others
  <2> QED BY <2>1, <2>2, <2>3 DEF Silence, Others
<1>3. CASE DialFails
  BY <1>3 DEF DialFails, Return, TypeOK, net
<1> QED BY <1>1, <1>2, <1>3 DEF Dial

LEMMA ReaderPreserves == IInv /\ Reader => IInv'
<1> SUFFICES ASSUME IInv, Reader PROVE IInv'
  OBVIOUS
<1> USE DEF IInv, timers, Dialing
<1>1. CASE ReaderReads
  <2>1. Head(wire) \in Frames /\ Tail(wire) \in Seq(Frames)
    BY <1>1 DEF ReaderReads, TypeOK
  <2>2. TypeOK'
    BY <1>1, <2>1 DEF ReaderReads, TypeOK
  <2> QED BY <1>1, <2>1, <2>2 DEF ReaderReads
<1>2. CASE ReaderFails \/ ReaderStops
  <2>1. TypeOK'
    BY <1>2 DEF ReaderFails, ReaderStops, net, TypeOK
  <2> QED BY <1>2, <2>1 DEF ReaderFails, ReaderStops
<1> QED BY <1>1, <1>2 DEF Reader

LEMMA RunPreserves == IInv /\ Run => IInv'
<1> SUFFICES ASSUME IInv, Run PROVE IInv'
  OBVIOUS
<1> USE DEF IInv, Dialing
<1>1. CASE TakeFrame
  <2>1. TypeOK'
    <3>1. wire' \in Seq(Frames) /\ sent' \in 0..Rate /\ broken' \in BOOLEAN /\ held' \in Frames \cup {None}
      BY <1>1 DEF TakeFrame, TypeOK, net
    <3>2. ping' \in 0..Interval /\ deadline' \in Nat /\ quiet' \in Nat
      BY <1>1 DEF TakeFrame, FrameDeadline, TypeOK
    <3>4. awaiting' \in BOOLEAN
      BY <1>1 DEF TakeFrame, TypeOK
    <3>3. /\ phase' \in {"opening", "joining", "running", "over"}
          /\ err' \in {"dial", "closed", "io", "heartbeat", "ctx", None}
      BY <1>1 DEF TakeFrame, Return, TypeOK
    <3> QED BY <1>1, <3>1, <3>2, <3>3, <3>4 DEF TakeFrame, TypeOK
  <2>2. Silence'
    BY <1>1 DEF TakeFrame, FrameDeadline, Return, TypeOK, Silence
  <2>3. Others'
    BY <1>1 DEF TakeFrame, Return, TypeOK, Others
  <2> QED BY <2>1, <2>2, <2>3 DEF Silence, Others
<1>2. CASE SendPing
  \* The ping is due Interval after the last frame at the latest.
  <2>1. quiet <= Interval
    BY <1>2 DEF SendPing, TypeOK
  <2> QED BY <1>2, <2>1 DEF SendPing, PingDeadline, TypeOK, net
<1>3. CASE GiveUp
  BY <1>3 DEF GiveUp, Return, TypeOK, timers, net
<1>4. CASE PingFails \/ TakeReadErr \/ TakeDone
  BY <1>4 DEF PingFails, TakeReadErr, TakeDone, Return, TypeOK, timers, net
<1> QED BY <1>1, <1>2, <1>3, <1>4 DEF Run

LEMMA WorldPreserves ==
  IInv /\ (Break \/ Cancel \/ Tick \/ \E f \in Frames : Arrive(f)) => IInv'
<1> SUFFICES ASSUME IInv, Break \/ Cancel \/ Tick \/ \E f \in Frames : Arrive(f) PROVE IInv'
  OBVIOUS
<1> USE DEF IInv, Dialing
<1>1. CASE Break \/ Cancel
  <2>1. TypeOK'
    BY <1>1 DEF Break, Cancel, TypeOK, timers, net
  <2> QED BY <1>1, <2>1 DEF Break, Cancel, timers
<1>2. CASE Tick
  <2>1. phase = "running" /\ ~awaiting => ping > 0
    BY <1>2 DEF Tick, Busy, TypeOK
  <2>2. TypeOK'
    BY <1>2, <2>1 DEF Tick, TypeOK
  <2>3. Silence'
    BY <1>2, <2>1 DEF Tick, TypeOK, Silence
  <2>4. Others'
    BY <1>2 DEF Tick, TypeOK, Others
  <2> QED BY <2>2, <2>3, <2>4 DEF Silence, Others
<1>3. ASSUME NEW f \in Frames, Arrive(f) PROVE IInv'
  <2>1. wire' \in Seq(Frames)
    BY <1>3 DEF Arrive, TypeOK
  <2> QED BY <1>3, <2>1 DEF Arrive, TypeOK, timers
<1> QED BY <1>1, <1>2, <1>3

\* IInv holds in every reachable state.
THEOREM Eio3Inductive == Spec => []IInv
<1>1. IInv /\ UNCHANGED vars => IInv'
  BY DEF IInv, TypeOK, Dialing, vars, timers, net
<1>2. IInv /\ [Next]_vars => IInv'
  BY <1>1, DialPreserves, ReaderPreserves, RunPreserves, WorldPreserves DEF Next
<1> QED BY Start, <1>2, PTL DEF Spec

\* Every variable keeps its type.
THEOREM Eio3TypeCorrect == Spec => []TypeOK
<1>1. IInv => TypeOK
  BY DEF IInv
<1> QED BY Eio3Inductive, <1>1, PTL

\* Run never goes on for longer than pingInterval + pingTimeout in silence.
THEOREM SilenceIsDetected == Spec => []SilenceDetected
<1>1. IInv => SilenceDetected
  BY DEF IInv, TypeOK, SilenceDetected
<1> QED BY Eio3Inductive, <1>1, PTL

\* ErrHeartbeatTimeout means at least pingTimeout of silence.
THEOREM LiveIsKept == Spec => []NotGivenUpEarly
<1>1. IInv => NotGivenUpEarly
  BY DEF IInv, NotGivenUpEarly
<1> QED BY Eio3Inductive, <1>1, PTL
=============================================================================
