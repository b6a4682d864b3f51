----------------------------- MODULE HubProofs -----------------------------
(* Theorems about Hub, for every value of its constants. *)
EXTENDS Hub, FiniteSetTheorems, SequenceTheorems, TLAPS

USE HubAssumption

LEMMA CutType == ASSUME NEW b \in Seq(Msgs) PROVE Cut(b) \in Seq(Msgs)
<1>1. MaxBatch \in Nat OBVIOUS
<1>2. CASE Len(b) > MaxBatch BY <1>1, <1>2 DEF Cut
<1>3. CASE ~(Len(b) > MaxBatch) BY <1>3 DEF Cut
<1> QED BY <1>2, <1>3

LEMMA TypeInit == Init => TypeOK
BY DEF Init, TypeOK, TimerStates

\* A subscriber that is held counts: Unsubscribe never takes total below zero.
LEMMA HeldPositive ==
    ASSUME TypeOK, CapsHold, NEW w \in Workers, NEW s \in subs[w]
    PROVE  total - 1 \in Nat
<1>1. Held \subseteq Subs /\ s \in Held BY DEF TypeOK, Held
<1>2. IsFiniteSet(Held) BY <1>1, FS_Subset
<1>3. Cardinality(Held) \in Nat /\ Cardinality(Held) # 0
  BY <1>1, <1>2, FS_CardinalityType, FS_EmptySet
<1> QED BY <1>3 DEF CapsHold

LEMMA HandlerType ==
    ASSUME TypeOK, Wiring, CapsHold, NEW s \in Subs, Handler(s) PROVE TypeOK'
<1> USE DEF TypeOK, TimerStates, hubVars, lifeVars, flushVars, subVars, dataVars, feedVars
<1>1. ASSUME NEW id \in ChannelIDs, SubscribeFirst(s, id) PROVE TypeOK'
  <2>1. PICK w \in Workers : startChannel(w, id) /\ Admit(s, w) BY <1>1 DEF SubscribeFirst
  <2>2. /\ idOf' \in [Workers -> ChannelIDs \cup {None}]
        /\ channels' \in [ChannelIDs -> Workers \cup {None}]
        /\ ingest' \in [Workers -> {"off", "run", "exited"}]
        /\ flush' \in [Workers -> {"off", "select", "drained", "send", "exited"}]
    BY <2>1 DEF startChannel
  <2>3. subs' \in [Workers -> SUBSET Subs] /\ chanOf' \in [Subs -> Workers \cup {None}]
    BY <2>1 DEF Admit
  <2>4. total' \in Nat /\ widget' \in [Subs -> {"new", "refused", "streaming", "leaving", "gone"}]
    BY <2>1 DEF Admit
  <2> QED BY <1>1, <2>2, <2>3, <2>4 DEF SubscribeFirst
<1>2. ASSUME NEW id \in ChannelIDs, SubscribeMore(s, id) PROVE TypeOK'
  <2>1. timer' \in [Workers -> TimerStates] /\ late' \in [Workers -> Nat]
    BY <1>2 DEF SubscribeMore, StopTeardown
  <2>2. channels[id] \in Workers /\ widget[s] = "new"
    BY <1>2 DEF SubscribeMore
  <2>3. subs' \in [Workers -> SUBSET Subs] /\ chanOf' \in [Subs -> Workers \cup {None}]
    BY <1>2, <2>2 DEF SubscribeMore, Admit
  <2>4. total' \in Nat /\ widget' \in [Subs -> {"new", "refused", "streaming", "leaving", "gone"}]
    BY <1>2, <2>2 DEF SubscribeMore, Admit
  <2> QED BY <1>2, <2>1, <2>3, <2>4 DEF SubscribeMore
<1>3. ASSUME NEW id \in ChannelIDs, Refuse(s, id) PROVE TypeOK'
  BY <1>3 DEF Refuse
<1>4. CASE Receive(s)
  <2>1. /\ seen' = [seen EXCEPT ![s] = seen[s] \o Head(queue[s])]
        /\ queue' = [queue EXCEPT ![s] = Tail(queue[s])] /\ queue[s] # <<>>
    BY <1>4 DEF Receive
  <2>2. queue[s] \in Seq(Seq(Msgs)) /\ seen[s] \in Seq(Msgs)
    OBVIOUS
  <2>3. Head(queue[s]) \in Seq(Msgs) /\ Tail(queue[s]) \in Seq(Seq(Msgs))
    BY ONLY <2>1, <2>2, HeadTailProperties
  <2>4. seen[s] \o Head(queue[s]) \in Seq(Msgs)
    BY ONLY <2>2, <2>3, ConcatProperties
  <2>5. seen' \in [Subs -> Seq(Msgs)] /\ queue' \in [Subs -> Seq(Seq(Msgs))]
    BY <2>1, <2>3, <2>4
  <2> QED BY <1>4, <2>5 DEF Receive
<1>5. CASE Disconnect(s) BY <1>5 DEF Disconnect
<1>6. CASE EndOfStream(s) BY <1>6 DEF EndOfStream
<1>7. CASE Unsubscribe(s)
  <2>1. chanOf[s] \in Workers BY <1>7 DEF Unsubscribe, Wiring
  <2>2. CASE s \in subs[chanOf[s]]
    <3>1. total - 1 \in Nat BY <2>1, <2>2, HeldPositive
    <3>2. timer' \in [Workers -> TimerStates]
      BY <1>7, <2>2 DEF Unsubscribe, Subscribed, ArmTeardown
    <3>6. /\ subs' = [subs EXCEPT ![chanOf[s]] = @ \ {s}]
          /\ total' = total - 1
      BY <1>7, <2>2 DEF Unsubscribe, Subscribed
    <3>3. subs' \in [Workers -> SUBSET Subs] /\ total' \in Nat
      BY <2>1, <3>1, <3>6
    <3>5. widget' \in [Subs -> {"new", "refused", "streaming", "leaving", "gone"}]
      BY <1>7 DEF Unsubscribe
    <3>4. UNCHANGED <<channels, closer, toClose, idOf, late, cancelled, ingest, flushVars,
                      chanOf, dataVars, feedVars>>
      BY <1>7 DEF Unsubscribe
    <3> QED BY <3>2, <3>3, <3>4, <3>5
  <2>3. CASE s \notin subs[chanOf[s]] BY <1>7, <2>3 DEF Unsubscribe, Subscribed
  <2> QED BY <2>2, <2>3
<1> QED BY <1>1, <1>2, <1>3, <1>4, <1>5, <1>6, <1>7 DEF Handler

LEMMA TimerType ==
    ASSUME TypeOK, NEW w \in Workers, Timer(w) PROVE TypeOK'
<1> USE DEF TypeOK, TimerStates, hubVars, lifeVars, flushVars, subVars, dataVars, feedVars
<1>1. CASE TimerFires(w) BY <1>1 DEF TimerFires
<1>2. CASE TimerRuns(w) BY <1>2 DEF TimerRuns, TearDown
<1>3. CASE LateTimerRuns(w)
  <2>1. late' \in [Workers -> Nat] BY <1>3 DEF LateTimerRuns
  <2> QED BY <1>3, <2>1 DEF LateTimerRuns, TearDown
<1> QED BY <1>1, <1>2, <1>3 DEF Timer

LEMMA PushType ==
    ASSUME TypeOK, NEW w \in Workers, push(w)
    PROVE  arrived' \in Seq(Workers) /\ buffer' \in [Workers -> Seq(Msgs)]
BY DEF TypeOK, push, Msgs

LEMMA FlusherType ==
    ASSUME TypeOK, NEW w \in Workers, Flusher(w) PROVE TypeOK'
<1> USE DEF TypeOK, TimerStates, hubVars, lifeVars, flushVars, subVars, dataVars, feedVars
<1>1. CASE FlushDrain(w) BY <1>1 DEF FlushDrain, drain
<1>2. CASE FlushSnapshot(w)
  <2>1. batch' \in [Workers -> Seq(Msgs)] BY <1>2, CutType DEF FlushSnapshot
  <2> QED BY <1>2, <2>1 DEF FlushSnapshot
<1>3. CASE FlushExit(w) BY <1>3 DEF FlushExit
<1>4. ASSUME NEW s \in Subs, FlushSend(w, s) PROVE TypeOK'
  <2>1. queue' \in [Subs -> Seq(Seq(Msgs))] BY <1>4 DEF FlushSend, Offer
  <2>2. targets' \in [Workers -> SUBSET Subs] BY <1>4 DEF FlushSend
  <2>3. CASE targets'[w] = {}
    <3>1. /\ flush' = [flush EXCEPT ![w] = "select"]
          /\ batch' = [batch EXCEPT ![w] = <<>>]
          /\ UNCHANGED <<hubVars, lifeVars, ingest, subVars, eof, seen, feedVars>>
      BY <1>4, <2>3 DEF FlushSend
    <3>2. flush' \in [Workers -> {"off", "select", "drained", "send", "exited"}] BY <3>1
    <3>3. batch' \in [Workers -> Seq(Msgs)] BY <3>1
    <3> QED BY <2>1, <2>2, <3>1, <3>2, <3>3
  <2>4. CASE targets'[w] # {}
    <3>1. UNCHANGED <<flush, batch, hubVars, lifeVars, ingest, subVars, eof, seen, feedVars>>
      BY <1>4, <2>4 DEF FlushSend
    <3> QED BY <2>1, <2>2, <3>1
  <2> QED BY <2>3, <2>4
<1> QED BY <1>1, <1>2, <1>3, <1>4 DEF Flusher

LEMMA CloserType ==
    ASSUME TypeOK, Closer PROVE TypeOK'
<1> USE DEF TypeOK, TimerStates, hubVars, lifeVars, flushVars, subVars, dataVars, feedVars
<1>1. CASE CloseBegin BY <1>1 DEF CloseBegin, Collected
<1>2. CASE CloseCancel BY <1>2 DEF CloseCancel
<1>3. CASE CloseWait BY <1>3 DEF CloseWait
<1>4. CASE CloseReturn BY <1>4 DEF CloseReturn
<1>5. ASSUME NEW s \in Subs, CloseSub(s) PROVE TypeOK'
  BY <1>5 DEF CloseSub
<1> QED BY <1>1, <1>2, <1>3, <1>4, <1>5 DEF Closer

LEMMA TypeStep == IInv /\ [Next]_vars => TypeOK'
<1> SUFFICES ASSUME IInv, [Next]_vars PROVE TypeOK'
  OBVIOUS
<1> TypeOK /\ Wiring /\ CapsHold BY DEF IInv
<1>1. ASSUME NEW s \in Subs, Handler(s) PROVE TypeOK' BY <1>1, HandlerType
<1>2. ASSUME NEW w \in Workers, Timer(w) PROVE TypeOK' BY <1>2, TimerType
<1>3. ASSUME NEW w \in Workers, Ingest(w) PROVE TypeOK'
  BY <1>3, PushType DEF Ingest, TypeOK, hubVars, lifeVars, flushVars, subVars, dataVars
<1>4. ASSUME NEW w \in Workers, IngestExit(w) PROVE TypeOK'
  BY <1>4 DEF IngestExit, TypeOK, hubVars, lifeVars, flushVars, subVars, dataVars, feedVars
<1>5. ASSUME NEW w \in Workers, Flusher(w) PROVE TypeOK' BY <1>5, FlusherType
<1>6. CASE Injector
  <2>1. CASE InjectPush
    <3>1. inject \in Workers BY <2>1 DEF InjectPush, TypeOK
    <3> QED BY <2>1, <3>1, PushType
            DEF InjectPush, TypeOK, hubVars, lifeVars, flushVars, subVars, dataVars
  <2>2. ASSUME NEW id \in ChannelIDs, InjectLookup(id) PROVE TypeOK'
    BY <2>2 DEF InjectLookup, TypeOK, hubVars, lifeVars, flushVars, subVars, dataVars
  <2> QED BY <1>6, <2>1, <2>2 DEF Injector
<1>7. CASE Closer BY <1>7, CloserType
<1>8. CASE UNCHANGED vars
  BY <1>8 DEF TypeOK, vars, hubVars, lifeVars, flushVars, subVars, dataVars, feedVars
<1> QED BY <1>1, <1>2, <1>3, <1>4, <1>5, <1>6, <1>7, <1>8 DEF Next, Terminated


-----------------------------------------------------------------------------
(* Wiring, Goroutines, Closing and OneWorkerPerChannel, one lemma for every *)
(* action that can disturb them.                                            *)

Inv == Wiring /\ Goroutines /\ Closing /\ OneWorkerPerChannel

LEMMA InitInv == Init => Inv
BY DEF Init, Inv, Wiring, Goroutines, Closing, OneWorkerPerChannel, Started, Registered,
       Done, closed

LEMMA SubscribeFirstInv ==
    ASSUME TypeOK, Inv, NEW s \in Subs, NEW id \in ChannelIDs, SubscribeFirst(s, id)
    PROVE  Inv'
<1>1. PICK w \in Workers : startChannel(w, id) /\ Admit(s, w) BY DEF SubscribeFirst
<1>2. /\ ~Started(w) /\ closer = "open" /\ channels[id] = None /\ widget[s] = "new"
      /\ idOf' = [idOf EXCEPT ![w] = id]
      /\ channels' = [channels EXCEPT ![id] = w]
      /\ ingest' = [ingest EXCEPT ![w] = "run"]
      /\ flush' = [flush EXCEPT ![w] = "select"]
      /\ subs' = [subs EXCEPT ![w] = @ \cup {s}]
      /\ chanOf' = [chanOf EXCEPT ![s] = w]
      /\ widget' = [widget EXCEPT ![s] = "streaming"]
      /\ UNCHANGED <<closer, cancelled, timer, eof>>
  BY <1>1 DEF SubscribeFirst, startChannel, Admit, Started, closed, dataVars
<1>3. subs[w] = {} /\ ~cancelled[w]
  BY <1>2 DEF Inv, Wiring, Goroutines, Registered, TypeOK
<1>4. \A v \in Workers : s \notin subs[v]
  BY <1>2 DEF Inv, Wiring
<1>5. \A v \in Workers : Registered(v)' <=> Registered(v) \/ v = w
  BY <1>2 DEF Registered, Started, TypeOK, Inv, Wiring
<1>6. Wiring'
  <2>1. \A i \in ChannelIDs : channels'[i] # None =>
          idOf'[channels'[i]] = i /\ ~cancelled'[channels'[i]] /\ ~closed'
    <3>1. ASSUME NEW i \in ChannelIDs, i # id, channels'[i] # None
          PROVE  idOf'[channels'[i]] = i /\ ~cancelled'[channels'[i]] /\ ~closed'
      <4>1. channels'[i] = channels[i] BY <1>2, <3>1 DEF TypeOK
      <4>2. idOf[channels[i]] = i /\ ~cancelled[channels[i]] /\ ~closed
        BY <3>1, <4>1 DEF Inv, Wiring
      <4>3. channels[i] \in Workers \ {w} BY <1>2, <3>1, <4>1, <4>2 DEF TypeOK, Started
      <4> QED BY <1>2, <4>1, <4>2, <4>3 DEF closed, TypeOK
    <3>2. channels'[id] = w /\ idOf'[w] = id /\ ~cancelled'[w] /\ ~closed'
      BY <1>2, <1>3 DEF TypeOK, closed
    <3> QED BY <3>1, <3>2
  <2>2. \A v \in Workers :
          /\ subs'[v] # {} => Registered(v)'
          /\ (Started(v) /\ ~cancelled[v] /\ ~closed)' => Registered(v)'
          /\ Registered(v)' /\ subs'[v] = {} => timer'[v] \in {"armed", "fired"}
    <3>1. ASSUME NEW v \in Workers, v # w
          PROVE  /\ subs'[v] = subs[v] /\ timer'[v] = timer[v] /\ cancelled'[v] = cancelled[v]
                 /\ Started(v)' = Started(v) /\ closed' = closed
      BY <1>2, <3>1 DEF TypeOK, Started, closed
    <3>2. Registered(w)' /\ subs'[w] # {} BY <1>2, <1>5 DEF TypeOK
    <3> QED BY <1>5, <3>1, <3>2 DEF Inv, Wiring
  <2>3. \A v \in Workers : \A r \in subs'[v] :
          chanOf'[r] = v /\ widget'[r] \in {"streaming", "leaving"}
    BY <1>2, <1>4 DEF Inv, Wiring, TypeOK
  <2>4. \A r \in Subs : widget'[r] \in {"streaming", "leaving"} => chanOf'[r] \in Workers
    BY <1>2 DEF Inv, Wiring, TypeOK
  <2> QED BY <2>1, <2>2, <2>3, <2>4 DEF Wiring
<1>7. Goroutines'
  BY <1>2, <1>3 DEF Inv, Goroutines, TypeOK, Started, Done
<1>8. Closing'
  BY <1>2 DEF Inv, Closing
<1>9. OneWorkerPerChannel'
  <2>1. \A v \in Workers : Started(v) /\ idOf[v] = id => cancelled[v]
    BY <1>2 DEF Inv, Wiring, Registered, closed, TypeOK
  <2> QED BY <1>2, <2>1 DEF Inv, OneWorkerPerChannel, Started, TypeOK
<1> QED BY <1>6, <1>7, <1>8, <1>9 DEF Inv

LEMMA SubscribeMoreInv ==
    ASSUME TypeOK, Inv, NEW s \in Subs, NEW id \in ChannelIDs, SubscribeMore(s, id)
    PROVE  Inv'
<1>0. PICK w \in Workers : channels[id] = w
  BY DEF SubscribeMore, TypeOK
<1>1. /\ closer = "open" /\ widget[s] = "new"
      /\ timer' = [timer EXCEPT ![w] = "nil"]
      /\ subs' = [subs EXCEPT ![w] = @ \cup {s}]
      /\ chanOf' = [chanOf EXCEPT ![s] = w]
      /\ widget' = [widget EXCEPT ![s] = "streaming"]
      /\ UNCHANGED <<channels, closer, idOf, cancelled, ingest, flush, eof>>
  BY <1>0 DEF SubscribeMore, StopTeardown, Admit, closed, flushVars, dataVars
<1>2. Registered(w)
  <2>1. idOf[w] = id BY <1>0 DEF Inv, Wiring
  <2> QED BY <1>0, <2>1 DEF Registered, Started
<1>3. \A v \in Workers : s \notin subs[v]
  BY <1>1 DEF Inv, Wiring
<1>4. Wiring'
  <2>1. \A v \in Workers : Registered(v)' <=> Registered(v)
    BY <1>1 DEF Registered, Started
  <2>2. \A v \in Workers : Registered(v)' /\ subs'[v] = {} => timer'[v] \in {"armed", "fired"}
    <3>1. w \in DOMAIN subs /\ w \in DOMAIN timer BY DEF TypeOK
    <3>2. s \in subs'[w] BY <1>1, <3>1
    <3>3. \A v \in Workers : v # w => subs'[v] = subs[v] /\ timer'[v] = timer[v]
      BY <1>1 DEF TypeOK
    <3> QED BY <2>1, <3>2, <3>3 DEF Inv, Wiring
  <2>3. \A v \in Workers : \A r \in subs'[v] :
          chanOf'[r] = v /\ widget'[r] \in {"streaming", "leaving"}
    BY <1>1, <1>3 DEF Inv, Wiring, TypeOK
  <2> QED BY <1>1, <1>2, <2>1, <2>2, <2>3 DEF Inv, Wiring, TypeOK, closed, Started
<1>5. Goroutines' /\ Closing' /\ OneWorkerPerChannel'
  BY <1>1 DEF Inv, Goroutines, Closing, WorkersExited, OneWorkerPerChannel, Started, Done
<1> QED BY <1>4, <1>5 DEF Inv

LEMMA UnsubscribeInv ==
    ASSUME TypeOK, Inv, NEW s \in Subs, Unsubscribe(s)
    PROVE  Inv'
<1>0. PICK w \in Workers : chanOf[s] = w
  BY DEF Unsubscribe, Inv, Wiring
<1>1. /\ widget[s] = "leaving"
      /\ widget' = [widget EXCEPT ![s] = "gone"]
      /\ UNCHANGED <<channels, closer, idOf, cancelled, ingest, flush, eof, chanOf>>
  BY DEF Unsubscribe, flushVars, dataVars
<1>2. CASE s \in subs[w]
  <2>1. subs' = [subs EXCEPT ![w] = @ \ {s}]
    BY <1>0, <1>2 DEF Unsubscribe, Subscribed
  <2>2. ~closed
    <3>1. Registered(w) BY <1>2 DEF Inv, Wiring
    <3>2. idOf[w] \in ChannelIDs BY <3>1 DEF Registered, Started, TypeOK
    <3> QED BY <3>1, <3>2 DEF Inv, Wiring, Registered, TypeOK
  <2>3. timer' = IF subs'[w] = {} THEN [timer EXCEPT ![w] = "armed"] ELSE timer
    BY <1>0, <1>2, <2>2 DEF Unsubscribe, Subscribed, ArmTeardown
  <2>4. Wiring'
    <3>1. \A v \in Workers : Registered(v)' <=> Registered(v)
      BY <1>1 DEF Registered, Started
    <3>2. \A v \in Workers : Registered(v)' /\ subs'[v] = {} => timer'[v] \in {"armed", "fired"}
      <4>1. \A v \in Workers : Registered(v) /\ subs[v] = {} => timer[v] \in {"armed", "fired"}
        BY DEF Inv, Wiring
      <4>2. DOMAIN timer = Workers /\ DOMAIN subs = Workers BY DEF TypeOK
      <4> QED BY <2>1, <2>3, <3>1, <4>1, <4>2
    <3>3. \A v \in Workers : \A r \in subs'[v] :
            chanOf'[r] = v /\ widget'[r] \in {"streaming", "leaving"}
      BY <1>0, <1>1, <2>1 DEF Inv, Wiring, TypeOK
    <3>4. \A r \in Subs : widget'[r] \in {"streaming", "leaving"} => chanOf'[r] \in Workers
      BY <1>1 DEF Inv, Wiring, TypeOK
    <3>5. \A v \in Workers : subs'[v] # {} => Registered(v)'
      BY <2>1, <3>1 DEF Inv, Wiring, TypeOK
    <3> QED BY <1>1, <3>1, <3>2, <3>3, <3>4, <3>5 DEF Inv, Wiring, closed, Started
  <2> QED BY <1>1, <2>4
          DEF Inv, Goroutines, Closing, WorkersExited, OneWorkerPerChannel, Started, Done
<1>3. CASE s \notin subs[w]
  <2>1. UNCHANGED <<subs, timer>> BY <1>0, <1>3 DEF Unsubscribe, Subscribed
  <2>2. \A v \in Workers : s \notin subs[v] BY <1>0, <1>3 DEF Inv, Wiring
  <2>3. Wiring'
    <3>1. /\ closed' = closed
          /\ \A v \in Workers : (Registered(v)' <=> Registered(v)) /\ (Started(v)' <=> Started(v))
      BY <1>1 DEF Registered, Started, closed
    <3>2. \A v \in Workers : \A r \in subs'[v] :
            chanOf'[r] = v /\ widget'[r] \in {"streaming", "leaving"}
      BY <1>1, <2>1, <2>2 DEF Inv, Wiring, TypeOK
    <3>3. \A r \in Subs : widget'[r] \in {"streaming", "leaving"} => chanOf'[r] \in Workers
      BY <1>1 DEF Inv, Wiring, TypeOK
    <3> QED BY <1>1, <2>1, <3>1, <3>2, <3>3 DEF Inv, Wiring
  <2>4. Goroutines' /\ Closing' /\ OneWorkerPerChannel'
    BY <1>1, <2>1 DEF Inv, Goroutines, Closing, WorkersExited, OneWorkerPerChannel, Started, Done
  <2> QED BY <2>3, <2>4 DEF Inv
<1> QED BY <1>2, <1>3

\* The callback tears the worker down only if nobody holds it.
LEMMA TearDownInv ==
    ASSUME TypeOK, Inv, NEW w \in Workers, TearDown(w), Started(w),
           \/ timer' = timer
           \/ timer' = [timer EXCEPT ![w] = "ran"],
           UNCHANGED <<closer, idOf, subs, ingest, flush, eof, chanOf, widget>>
    PROVE  Inv'
<1>0. idOf[w] \in ChannelIDs BY DEF TypeOK, Started
<1>1. CASE StillIdle(w)
  <2>1. /\ channels' = [channels EXCEPT ![idOf[w]] = None]
        /\ cancelled' = [cancelled EXCEPT ![w] = TRUE]
        /\ subs[w] = {} /\ channels[idOf[w]] = w
    BY <1>1 DEF TearDown, StillIdle
  <2>2. \A v \in Workers : Registered(v)' <=> Registered(v) /\ v # w
    <3>1. \A v \in Workers : v # w /\ Registered(v) => idOf[v] # idOf[w]
      BY <2>1 DEF Registered
    <3>2. TAKE v \in Workers
    <3>3. CASE v = w BY <1>0, <2>1, <3>3 DEF Registered, Started, TypeOK
    <3>4. CASE v # w BY <1>0, <2>1, <3>1, <3>4 DEF Registered, Started, TypeOK
    <3> QED BY <3>3, <3>4
  <2>3. \A id \in ChannelIDs : channels'[id] # None =>
          idOf'[channels'[id]] = id /\ ~cancelled'[channels'[id]] /\ ~closed'
    <3>1. TAKE id \in ChannelIDs
    <3>2. CASE id = idOf[w] BY <1>0, <2>1, <3>2 DEF TypeOK
    <3>3. CASE id # idOf[w] /\ channels[id] # None
      <4>1. channels'[id] = channels[id] /\ idOf[channels[id]] = id
        BY <2>1, <3>3 DEF Inv, Wiring, TypeOK
      <4>2. channels[id] # w BY <3>3, <4>1
      <4> QED BY <2>1, <3>3, <4>1, <4>2 DEF Inv, Wiring, TypeOK, closed
    <3>4. CASE id # idOf[w] /\ channels[id] = None BY <2>1, <3>4 DEF TypeOK
    <3> QED BY <3>2, <3>3, <3>4
  <2>4. \A v \in Workers : cancelled'[v] = (cancelled[v] \/ v = w)
    BY <2>1 DEF TypeOK
  <2>5. \A v \in Workers :
          /\ subs'[v] # {} => Registered(v)'
          /\ (Started(v) /\ ~cancelled[v] /\ ~closed)' => Registered(v)'
          /\ Registered(v)' /\ subs'[v] = {} => timer'[v] \in {"armed", "fired"}
    <3>1. TAKE v \in Workers
    <3>2. CASE v = w BY <2>1, <2>2, <2>4, <3>2
    <3>3. CASE v # w BY <2>2, <2>4, <3>3 DEF Inv, Wiring, Started, closed, TypeOK
    <3> QED BY <3>2, <3>3
  <2>6. Wiring' BY <2>3, <2>5 DEF Inv, Wiring
  <2>7. Goroutines' /\ Closing' /\ OneWorkerPerChannel'
    BY <2>4 DEF Inv, Goroutines, Closing, WorkersExited, OneWorkerPerChannel, Started, Done
  <2> QED BY <2>6, <2>7 DEF Inv
<1>2. CASE ~StillIdle(w)
  <2>1. UNCHANGED <<channels, cancelled>> BY <1>2 DEF TearDown
  <2>2. Registered(w) => subs[w] # {} BY <1>2 DEF StillIdle, Registered
  <2>3. Wiring' BY <2>1, <2>2 DEF Inv, Wiring, Registered, Started, closed, TypeOK
  <2> QED BY <2>1, <2>3
          DEF Inv, Goroutines, Closing, WorkersExited, OneWorkerPerChannel, Started, Done
<1> QED BY <1>1, <1>2

LEMMA TimerInv ==
    ASSUME TypeOK, Inv, Timers, NEW w \in Workers, Timer(w)
    PROVE  Inv'
<1>1. Started(w) BY DEF Timer, TimerFires, TimerRuns, LateTimerRuns, Timers, TypeOK
<1>2. CASE TimerFires(w)
  <2>1. /\ timer[w] = "armed" /\ timer' = [timer EXCEPT ![w] = "fired"]
        /\ UNCHANGED <<channels, closer, idOf, subs, cancelled, ingest, flush, eof, chanOf, widget>>
    BY <1>2 DEF TimerFires, hubVars, flushVars, subVars, dataVars
  <2>2. Wiring' BY <2>1 DEF Inv, Wiring, Registered, Started, closed, TypeOK
  <2> QED BY <2>1, <2>2
          DEF Inv, Goroutines, Closing, WorkersExited, OneWorkerPerChannel, Started, Done
<1>3. CASE TimerRuns(w)
  BY <1>1, <1>3, TearDownInv DEF TimerRuns, flushVars, subVars, dataVars
<1>4. CASE LateTimerRuns(w)
  BY <1>1, <1>4, TearDownInv DEF LateTimerRuns, flushVars, subVars, dataVars
<1> QED BY <1>2, <1>3, <1>4 DEF Timer

\* The flusher moves between its own states and offers batches.
LEMMA FlusherInv ==
    ASSUME TypeOK, Inv, NEW w \in Workers, Flusher(w)
    PROVE  Inv'
<1>1. UNCHANGED <<channels, closer, idOf, subs, timer, cancelled, ingest, eof, chanOf, widget>>
  BY DEF Flusher, FlushDrain, FlushSnapshot, FlushExit, FlushSend, hubVars, lifeVars, subVars, dataVars
<1>2. flush[w] \notin {"off", "exited"}
  BY DEF Flusher, FlushDrain, FlushSnapshot, FlushExit, FlushSend
<1>3. \A v \in Workers : v # w => flush'[v] = flush[v]
  BY DEF Flusher, FlushDrain, FlushSnapshot, FlushExit, FlushSend, TypeOK
<1>4. flush'[w] \notin {"off", "exited"} \/ (flush'[w] = "exited" /\ Done(w))
  BY DEF Flusher, FlushDrain, FlushSnapshot, FlushExit, FlushSend, TypeOK
<1>5. Wiring' BY <1>1 DEF Inv, Wiring, Registered, Started, closed
<1>6. Goroutines' BY <1>1, <1>2, <1>3, <1>4 DEF Inv, Goroutines, Started, Done
<1>7. Closing' BY <1>1, <1>2 DEF Inv, Closing, WorkersExited
<1>8. OneWorkerPerChannel' BY <1>1 DEF Inv, OneWorkerPerChannel, Started
<1> QED BY <1>5, <1>6, <1>7, <1>8 DEF Inv

\* Steps that leave the structure alone.
LEMMA QuietInv ==
    ASSUME TypeOK, Inv,
           UNCHANGED <<channels, closer, idOf, subs, timer, cancelled, ingest, flush, eof, chanOf>>,
           \A s \in Subs : \/ widget'[s] = widget[s]
                           \/ widget[s] = "streaming" /\ widget'[s] = "leaving"
                           \/ widget[s] = "new" /\ widget'[s] = "refused"
    PROVE  Inv'
<1>1. \A w \in Workers : \A s \in subs'[w] : chanOf'[s] = w /\ widget'[s] \in {"streaming", "leaving"}
  <2>1. SUFFICES ASSUME NEW w \in Workers, NEW s \in subs[w]
                 PROVE  chanOf[s] = w /\ widget'[s] \in {"streaming", "leaving"}
    OBVIOUS
  <2>2. s \in Subs BY DEF TypeOK
  <2>3. chanOf[s] = w /\ widget[s] \in {"streaming", "leaving"} BY DEF Inv, Wiring
  <2> QED BY <2>2, <2>3
<1>2. Wiring' BY <1>1 DEF Inv, Wiring, Registered, Started, closed
<1>3. Goroutines' /\ Closing' /\ OneWorkerPerChannel'
  BY DEF Inv, Goroutines, Closing, WorkersExited, OneWorkerPerChannel, Started, Done
<1> QED BY <1>2, <1>3 DEF Inv

LEMMA NothingHeldClosed ==
    ASSUME TypeOK, Inv, CloseBegin, NEW w \in Workers
    PROVE  subs'[w] = {}
<1>1. CASE subs[w] = {} BY <1>1 DEF CloseBegin
<1>2. CASE subs[w] # {}
  <2>1. Registered(w) BY <1>2 DEF Inv, Wiring
  <2>2. idOf[w] \in ChannelIDs /\ channels[idOf[w]] = w
    BY <2>1 DEF Registered, Started, TypeOK
  <2> QED BY <2>2 DEF CloseBegin
<1> QED BY <1>1, <1>2

LEMMA CloseBeginInv ==
    ASSUME TypeOK, Inv, CloseBegin
    PROVE  Inv'
<1>1. /\ closer = "open" /\ closer' = "cancel"
      /\ channels' = [id \in ChannelIDs |-> None]
      /\ UNCHANGED <<idOf, cancelled, ingest, flush, eof, chanOf, widget>>
  BY DEF CloseBegin, closed, flushVars, subVars, dataVars
<1>2. \A w \in Workers : subs'[w] = {} BY NothingHeldClosed
<1>3. \A w \in Workers : ~Registered(w)'
  BY <1>1 DEF Registered, Started, TypeOK
<1>4. Wiring' BY <1>1, <1>2, <1>3 DEF Inv, Wiring, closed
<1>5. Goroutines' /\ Closing' /\ OneWorkerPerChannel'
  BY <1>1 DEF Inv, Goroutines, Closing, WorkersExited, OneWorkerPerChannel, Started, Done
<1> QED BY <1>4, <1>5 DEF Inv

LEMMA CloserInv ==
    ASSUME TypeOK, Inv, Closer
    PROVE  Inv'
<1>1. CASE CloseBegin BY <1>1, CloseBeginInv
<1>2. CASE CloseCancel \/ CloseWait \/ CloseReturn
  <2>1. /\ closed /\ closed'
        /\ closer' \in {"close", "done"} => WorkersExited
        /\ closer \in {"close", "done"} => closer' \in {"close", "done"}
        /\ \A w \in Workers : Done(w) => Done(w)'
        /\ UNCHANGED <<channels, idOf, subs, timer, cancelled, ingest, flush, eof, chanOf, widget>>
    BY <1>2 DEF CloseCancel, CloseWait, CloseReturn, lifeVars, flushVars, subVars, dataVars,
                closed, Done, Inv, Closing
  <2>2. Wiring' BY <2>1 DEF Inv, Wiring, Registered, Started
  <2>3. Closing' BY <2>1 DEF Inv, Closing, WorkersExited
  <2> QED BY <2>1, <2>2, <2>3 DEF Inv, Goroutines, OneWorkerPerChannel, Started
<1>3. ASSUME NEW s \in Subs, CloseSub(s) PROVE Inv'
  <2>1. /\ closer = "close" /\ eof' = [eof EXCEPT ![s] = TRUE]
        /\ UNCHANGED <<channels, closer, idOf, subs, timer, cancelled, ingest, flush, chanOf, widget>>
    BY <1>3 DEF CloseSub, lifeVars, flushVars, subVars
  <2>2. Wiring' BY <2>1 DEF Inv, Wiring, Registered, Started, closed
  <2> QED BY <2>1, <2>2
          DEF Inv, Goroutines, Closing, WorkersExited, OneWorkerPerChannel, Started, Done
<1> QED BY <1>1, <1>2, <1>3 DEF Closer

LEMMA IngestExitInv ==
    ASSUME TypeOK, Inv, NEW w \in Workers, IngestExit(w)
    PROVE  Inv'
<1>1. /\ Done(w) /\ ingest[w] = "run" /\ ingest' = [ingest EXCEPT ![w] = "exited"]
      /\ UNCHANGED <<channels, closer, idOf, subs, timer, cancelled, flush, eof, chanOf, widget>>
  BY DEF IngestExit, hubVars, lifeVars, flushVars, subVars, dataVars
<1>2. Wiring' BY <1>1 DEF Inv, Wiring, Registered, Started, closed
<1>3. Goroutines' BY <1>1 DEF Inv, Goroutines, Started, Done, TypeOK
<1>4. Closing' BY <1>1 DEF Inv, Closing, WorkersExited, TypeOK
<1> QED BY <1>1, <1>2, <1>3, <1>4 DEF Inv, OneWorkerPerChannel, Started

LEMMA InvStep == IInv /\ [Next]_vars => Inv'
<1> SUFFICES ASSUME IInv, [Next]_vars PROVE Inv'
  OBVIOUS
<1>0. TypeOK /\ Inv /\ Timers BY DEF IInv, Inv
<1>1. ASSUME NEW s \in Subs, Handler(s) PROVE Inv'
  <2>1. ASSUME NEW id \in ChannelIDs, SubscribeFirst(s, id) PROVE Inv'
    BY <1>0, <2>1, SubscribeFirstInv
  <2>2. ASSUME NEW id \in ChannelIDs, SubscribeMore(s, id) PROVE Inv'
    BY <1>0, <2>2, SubscribeMoreInv
  <2>3. ASSUME NEW id \in ChannelIDs, Refuse(s, id) PROVE Inv'
    <3>1. /\ widget[s] = "new" /\ widget' = [widget EXCEPT ![s] = "refused"]
          /\ UNCHANGED <<channels, closer, idOf, subs, timer, cancelled, ingest, flush, eof, chanOf>>
      BY <2>3 DEF Refuse, hubVars, lifeVars, flushVars, dataVars
    <3> QED BY <1>0, <3>1, QuietInv DEF TypeOK
  <2>4. CASE Receive(s)
    <3>1. UNCHANGED <<channels, closer, idOf, subs, timer, cancelled, ingest, flush, eof, chanOf, widget>>
      BY <2>4 DEF Receive, hubVars, lifeVars, flushVars, subVars
    <3> QED BY <1>0, <3>1, QuietInv
  <2>5. CASE Disconnect(s) \/ EndOfStream(s)
    <3>1. /\ widget[s] = "streaming" /\ widget' = [widget EXCEPT ![s] = "leaving"]
          /\ UNCHANGED <<channels, closer, idOf, subs, timer, cancelled, ingest, flush, eof, chanOf>>
      BY <2>5 DEF Disconnect, EndOfStream, hubVars, lifeVars, flushVars, dataVars
    <3> QED BY <1>0, <3>1, QuietInv DEF TypeOK
  <2>6. CASE Unsubscribe(s) BY <1>0, <2>6, UnsubscribeInv
  <2> QED BY <1>1, <2>1, <2>2, <2>3, <2>4, <2>5, <2>6 DEF Handler
<1>2. ASSUME NEW w \in Workers, Timer(w) PROVE Inv' BY <1>0, <1>2, TimerInv
<1>3. ASSUME NEW w \in Workers, Ingest(w) PROVE Inv'
  <2>1. UNCHANGED <<channels, closer, idOf, subs, timer, cancelled, ingest, flush, eof, chanOf, widget>>
    BY <1>3 DEF Ingest, hubVars, lifeVars, flushVars, subVars, dataVars
  <2> QED BY <1>0, <2>1, QuietInv
<1>4. ASSUME NEW w \in Workers, IngestExit(w) PROVE Inv' BY <1>0, <1>4, IngestExitInv
<1>5. ASSUME NEW w \in Workers, Flusher(w) PROVE Inv' BY <1>0, <1>5, FlusherInv
<1>6. CASE Injector
  <2>1. UNCHANGED <<channels, closer, idOf, subs, timer, cancelled, ingest, flush, eof, chanOf, widget>>
    BY <1>6 DEF Injector, InjectLookup, InjectPush, hubVars, lifeVars, flushVars, subVars, dataVars
  <2> QED BY <1>0, <2>1, QuietInv
<1>7. CASE Closer BY <1>0, <1>7, CloserInv
<1>8. CASE UNCHANGED vars
  <2>1. UNCHANGED <<channels, closer, idOf, subs, timer, cancelled, ingest, flush, eof, chanOf, widget>>
    BY <1>8 DEF vars, hubVars, lifeVars, flushVars, subVars, dataVars
  <2> QED BY <1>0, <2>1, QuietInv
<1> QED BY <1>1, <1>2, <1>3, <1>4, <1>5, <1>6, <1>7, <1>8 DEF Next, Terminated

-----------------------------------------------------------------------------
(* Timers. *)

LEMMA TimersStep == IInv /\ [Next]_vars => Timers'
<1> SUFFICES ASSUME IInv, [Next]_vars PROVE Timers'
  OBVIOUS
<1>0. TypeOK /\ Wiring /\ Timers BY DEF IInv
<1>1. \A id \in ChannelIDs : channels[id] # None => Started(channels[id])
  BY <1>0 DEF Wiring, Started
<1>2. \A w \in Workers : subs[w] # {} => Started(w)
  BY <1>0 DEF Wiring, Registered
<1>3. ASSUME NEW s \in Subs, NEW id \in ChannelIDs, SubscribeFirst(s, id) PROVE Timers'
  BY <1>0, <1>3 DEF SubscribeFirst, startChannel, Timers, Started, TypeOK
<1>4. ASSUME NEW s \in Subs, NEW id \in ChannelIDs, SubscribeMore(s, id) PROVE Timers'
  BY <1>0, <1>1, <1>4 DEF SubscribeMore, StopTeardown, Timers, Started, TypeOK
<1>5. ASSUME NEW s \in Subs, Unsubscribe(s) PROVE Timers'
  BY <1>0, <1>2, <1>5 DEF Unsubscribe, Subscribed, ArmTeardown, Timers, Started, TypeOK
<1>6. ASSUME NEW w \in Workers, Timer(w) PROVE Timers'
  BY <1>0, <1>6 DEF Timer, TimerFires, TimerRuns, LateTimerRuns, Timers, Started, TypeOK
<1>7. CASE CloseBegin
  BY <1>0, <1>7 DEF CloseBegin, Timers, Started, TypeOK
<1>8. CASE UNCHANGED <<idOf, timer, late>>
  BY <1>0, <1>8 DEF Timers, Started
<1>9. \/ \E s \in Subs, id \in ChannelIDs : SubscribeFirst(s, id) \/ SubscribeMore(s, id)
      \/ \E s \in Subs : Unsubscribe(s)
      \/ \E w \in Workers : Timer(w)
      \/ CloseBegin
      \/ UNCHANGED <<idOf, timer, late>>
  BY DEF Next, Handler, Refuse, Receive, Disconnect, EndOfStream, Ingest, IngestExit,
         Flusher, FlushDrain, FlushSnapshot, FlushExit, FlushSend, Injector, InjectPush,
         InjectLookup, Closer, CloseCancel, CloseWait, CloseReturn, CloseSub, Terminated,
         vars, lifeVars
<1> QED BY <1>3, <1>4, <1>5, <1>6, <1>7, <1>8, <1>9

-----------------------------------------------------------------------------
(* Counting. *)

LEMMA HeldFinite == ASSUME TypeOK PROVE Held \subseteq Subs /\ IsFiniteSet(Held)
<1>1. Held \subseteq Subs BY DEF TypeOK, Held
<1> QED BY <1>1, FS_Subset

LEMMA AdmitCaps ==
    ASSUME TypeOK, CapsHold, NEW s \in Subs, NEW w \in Workers, Admit(s, w),
           \A v \in Workers : s \notin subs[v],
           total < MaxTotal, Cardinality(subs[w]) < MaxPerChannel
    PROVE  CapsHold'
<1>1. /\ subs' = [subs EXCEPT ![w] = @ \cup {s}]
      /\ total' = total + 1
  BY DEF Admit
<1>2. Held' = Held \cup {s} /\ s \notin Held
  <2>1. \A x : x \in Held' <=> x \in Held \cup {s}
    BY <1>1 DEF Held, TypeOK
  <2> QED BY <2>1 DEF Held
<1>3. Cardinality(Held') = Cardinality(Held) + 1
  BY <1>2, HeldFinite, FS_AddElement
<1>4. subs[w] \subseteq Subs BY DEF TypeOK
<1>5. IsFiniteSet(subs[w]) BY <1>4, FS_Subset
<1>6. Cardinality(subs[w] \cup {s}) <= MaxPerChannel
  <2>1. Cardinality(subs[w]) \in Nat /\ MaxPerChannel \in Nat BY <1>5, FS_CardinalityType
  <2>2. Cardinality(subs[w] \cup {s}) = Cardinality(subs[w]) + 1
    BY <1>5, FS_AddElement
  <2>3. IsFiniteSet(subs[w] \cup {s}) BY <1>5, FS_AddElement
  <2>4. Cardinality(subs[w] \cup {s}) \in Nat BY <2>3, FS_CardinalityType
  <2> QED BY <2>1, <2>2, <2>4
<1>7. \A v \in Workers : Cardinality(subs'[v]) <= MaxPerChannel
  BY <1>1, <1>6 DEF CapsHold, TypeOK
<1>8. total' <= MaxTotal
  <2>1. total \in Nat /\ MaxTotal \in Nat BY DEF TypeOK
  <2> QED BY <1>1, <2>1
<1> QED BY <1>1, <1>3, <1>7, <1>8 DEF CapsHold

LEMMA UnsubscribeCaps ==
    ASSUME TypeOK, Inv, CapsHold, NEW s \in Subs, Unsubscribe(s)
    PROVE  CapsHold'
<1>0. PICK w \in Workers : chanOf[s] = w
  BY DEF Unsubscribe, Inv, Wiring
<1>1. CASE s \in subs[w]
  <2>1. /\ subs' = [subs EXCEPT ![w] = @ \ {s}]
        /\ total' = total - 1
    BY <1>0, <1>1 DEF Unsubscribe, Subscribed
  <2>2. \A v \in Workers : v # w => s \notin subs[v]
    BY <1>0 DEF Inv, Wiring
  <2>3. Held' = Held \ {s} /\ s \in Held
    <3>1. \A v \in Workers : subs'[v] = subs[v] \ {s}
      BY <2>1, <2>2 DEF TypeOK
    <3>2. \A x : x \in Held' <=> x \in Held \ {s}
      BY <3>1 DEF Held
    <3> QED BY <1>1, <3>2 DEF Held
  <2>4. Cardinality(Held') = Cardinality(Held) - 1
    BY <2>3, HeldFinite, FS_RemoveElement
  <2>5. total' <= MaxTotal
    <3>1. total \in Nat /\ MaxTotal \in Nat BY DEF TypeOK
    <3> QED BY <2>1, <3>1 DEF CapsHold
  <2>6. subs[w] \subseteq Subs BY DEF TypeOK
  <2>7. Cardinality(subs[w] \ {s}) <= MaxPerChannel
    <3>1. IsFiniteSet(subs[w]) BY <2>6, FS_Subset
    <3>2. Cardinality(subs[w]) \in Nat /\ MaxPerChannel \in Nat BY <3>1, FS_CardinalityType
    <3>3. Cardinality(subs[w] \ {s}) = Cardinality(subs[w]) - 1
      BY <1>1, <3>1, FS_RemoveElement
    <3> QED BY <3>2, <3>3 DEF CapsHold
  <2>8. \A v \in Workers : Cardinality(subs'[v]) <= MaxPerChannel
    BY <2>1, <2>7 DEF CapsHold, TypeOK
  <2> QED BY <2>1, <2>4, <2>5, <2>8 DEF CapsHold
<1>2. CASE s \notin subs[w]
  <2>1. UNCHANGED <<subs, total>> BY <1>0, <1>2 DEF Unsubscribe, Subscribed
  <2> QED BY <2>1 DEF CapsHold, Held
<1> QED BY <1>1, <1>2

LEMMA CloseBeginCaps ==
    ASSUME TypeOK, Inv, CapsHold, CloseBegin
    PROVE  CapsHold'
<1>1. total' = 0 BY DEF CloseBegin
<1>2. \A w \in Workers : subs'[w] = {}
  BY NothingHeldClosed
<1>3. Held' = {} BY <1>2 DEF Held
<1> QED BY <1>1, <1>2, <1>3, FS_EmptySet DEF CapsHold

LEMMA CapsStep == IInv /\ [Next]_vars => CapsHold'
<1> SUFFICES ASSUME IInv, [Next]_vars PROVE CapsHold'
  OBVIOUS
<1>0. TypeOK /\ Inv /\ CapsHold BY DEF IInv, Inv
<1>1. ASSUME NEW s \in Subs, widget[s] = "new"
      PROVE  \A v \in Workers : s \notin subs[v]
  BY <1>0, <1>1 DEF Inv, Wiring
<1>2. ASSUME NEW s \in Subs, NEW id \in ChannelIDs, SubscribeFirst(s, id) PROVE CapsHold'
  <2>1. PICK w \in Workers : startChannel(w, id) /\ Admit(s, w) BY <1>2 DEF SubscribeFirst
  <2>2. subs[w] = {} BY <1>0, <2>1 DEF startChannel, Inv, Wiring, Registered, Started
  <2>3. Cardinality(subs[w]) = 0 BY <2>2, FS_EmptySet
  <2>4. total < MaxTotal /\ Cardinality(subs[w]) < MaxPerChannel
    BY <1>0, <1>2, <2>3 DEF SubscribeFirst, AtCap, TypeOK
  <2> QED BY <1>0, <1>1, <1>2, <2>1, <2>4, AdmitCaps DEF SubscribeFirst
<1>3. ASSUME NEW s \in Subs, NEW id \in ChannelIDs, SubscribeMore(s, id) PROVE CapsHold'
  <2>1. PICK w \in Workers : channels[id] = w BY <1>0, <1>3 DEF SubscribeMore, TypeOK
  <2>2. subs[w] \subseteq Subs BY <1>0 DEF TypeOK
  <2>3. Cardinality(subs[w]) \in Nat BY <2>2, FS_Subset, FS_CardinalityType
  <2>4. total < MaxTotal /\ Cardinality(subs[w]) < MaxPerChannel
    BY <1>0, <1>3, <2>1, <2>3 DEF SubscribeMore, AtCap, TypeOK
  <2> QED BY <1>0, <1>1, <1>3, <2>1, <2>4, AdmitCaps DEF SubscribeMore
<1>4. ASSUME NEW s \in Subs, Unsubscribe(s) PROVE CapsHold'
  BY <1>0, <1>4, UnsubscribeCaps
<1>5. CASE CloseBegin BY <1>0, <1>5, CloseBeginCaps
<1>6. CASE UNCHANGED <<subs, total>> BY <1>0, <1>6 DEF CapsHold, Held
<1>7. \/ \E s \in Subs, id \in ChannelIDs : SubscribeFirst(s, id) \/ SubscribeMore(s, id)
      \/ \E s \in Subs : Unsubscribe(s)
      \/ CloseBegin
      \/ UNCHANGED <<subs, total>>
  BY DEF Next, Handler, Refuse, Receive, Disconnect, EndOfStream, Ingest, IngestExit, Timer,
         TimerFires, TimerRuns, LateTimerRuns,
         Flusher, FlushDrain, FlushSnapshot, FlushExit, FlushSend, Injector, InjectPush,
         InjectLookup, Closer, CloseCancel, CloseWait, CloseReturn, CloseSub, Terminated,
         vars, lifeVars, hubVars
<1> QED BY <1>2, <1>3, <1>4, <1>5, <1>6, <1>7

-----------------------------------------------------------------------------
LEMMA IInvInit == Init => IInv
<1>1. Init => Timers BY DEF Init, Timers
<1>2. Init => CapsHold
  <2>1. SUFFICES ASSUME Init PROVE CapsHold
    OBVIOUS
  <2>2. \A w \in Workers : subs[w] = {} BY <2>1 DEF Init
  <2>3. Held = {} BY <2>2 DEF Held
  <2>4. total = 0 BY <2>1 DEF Init
  <2>5. {MaxPerChannel, MaxTotal} \subseteq Nat BY DEF HubAssumption
  <2> QED BY <2>2, <2>3, <2>4, <2>5, FS_EmptySet DEF CapsHold
<1> QED BY <1>1, <1>2, TypeInit, InitInv DEF IInv, Inv

LEMMA IInvStep == IInv /\ [Next]_vars => IInv'
BY TypeStep, InvStep, TimersStep, CapsStep DEF IInv, Inv

\* The inductive invariant holds, for any number of channels, workers and
\* widgets and any caps, buffer and batch sizes.
THEOREM Inductive == Spec => []IInv
BY IInvInit, IInvStep, PTL DEF Spec

\* Every variable of the hub keeps its type; in particular total never drops
\* below zero.
THEOREM TypeCorrect == Spec => []TypeOK
BY Inductive, PTL DEF IInv

\* No subscriber is ever left on a worker that is unregistered, cancelled or
\* exited, whatever timers and late callbacks race Subscribe.
THEOREM SubscribersServed == Spec => []ServedByLiveWorker
<1>1. IInv => ServedByLiveWorker
  <2>1. SUFFICES ASSUME IInv, NEW w \in Workers, subs[w] # {}
                 PROVE  Registered(w) /\ ~Done(w) /\ ingest[w] = "run"
                        /\ flush[w] \notin {"off", "exited"}
    BY DEF ServedByLiveWorker
  <2>2. Registered(w) /\ Started(w) BY <2>1 DEF IInv, Wiring, Registered
  <2>3. idOf[w] \in ChannelIDs /\ channels[idOf[w]] = w
    BY <2>1, <2>2 DEF IInv, TypeOK, Registered, Started
  <2>4. ~Done(w) BY <2>1, <2>3 DEF IInv, Wiring, Done, closed
  <2> QED BY <2>1, <2>2, <2>4 DEF IInv, Goroutines
<1> QED BY <1>1, Inductive, PTL

\* No worker leaks: one that runs is watched, due for teardown, or told to stop.
THEOREM WorkersDoNotLeak == Spec => []NoLeakedWorker
<1>1. IInv => NoLeakedWorker
  BY DEF IInv, NoLeakedWorker, Wiring, Goroutines, Registered
<1> QED BY <1>1, Inductive, PTL

\* A channel id never has two workers that may run on.
THEOREM WorkersUnique == Spec => []OneWorkerPerChannel
<1>1. IInv => OneWorkerPerChannel BY DEF IInv
<1> QED BY <1>1, Inductive, PTL

\* total is the number of subscribers held, and both caps hold.
THEOREM CapsCorrect == Spec => []CapsHold
<1>1. IInv => CapsHold BY DEF IInv
<1> QED BY <1>1, Inductive, PTL

\* No fan-out ever sends on a channel that Close has closed.
THEOREM ClosingIsSafe == Spec => []NoSendOnClosed
<1>1. IInv => NoSendOnClosed
  BY DEF IInv, NoSendOnClosed, Closing, WorkersExited
<1> QED BY <1>1, Inductive, PTL

-----------------------------------------------------------------------------
(* InOrder: the messages in a worker's buffer, in its batch and in the queues *)
(* and clients of its widgets, newest to oldest.                              *)

LEMMA RisingAppend ==
    ASSUME NEW b \in Seq(Msgs), NEW m \in Msgs, Rising(b), \A i \in DOMAIN b : b[i] < m
    PROVE  Rising(Append(b, m))
<1>1. Append(b, m) \in Seq(Msgs) /\ Len(Append(b, m)) = Len(b) + 1 OBVIOUS
<1>2. ASSUME NEW i \in DOMAIN Append(b, m), NEW j \in DOMAIN Append(b, m), i < j
      PROVE  Append(b, m)[i] < Append(b, m)[j]
  <2>1. i \in DOMAIN b /\ Append(b, m)[i] = b[i] BY <1>1, <1>2
  <2>2. CASE j \in DOMAIN b BY <1>2, <2>1, <2>2 DEF Rising
  <2>3. CASE j = Len(b) + 1 BY <2>1, <2>3
  <2> QED BY <1>1, <2>2, <2>3
<1> QED BY <1>2 DEF Rising

\* The piece a client has is joined by the next one of its queue.
LEMMA JoinPieces ==
    ASSUME NEW a \in Seq(Msgs), NEW b \in Seq(Msgs)
    PROVE  /\ Rising(a) /\ Rising(b) /\ Before(a, b) => Rising(a \o b)
           /\ \A w : From(w, a) /\ From(w, b) => From(w, a \o b)
           /\ \A c \in Seq(Msgs) : Before(a, c) /\ Before(b, c) => Before(a \o b, c)
<1> DEFINE ab == a \o b
<1>1. /\ ab \in Seq(Msgs) /\ Len(ab) = Len(a) + Len(b)
      /\ \A i \in DOMAIN a : ab[i] = a[i]
      /\ \A i \in DOMAIN b : ab[Len(a) + i] = b[i]
  OBVIOUS
<1>2. \A i \in DOMAIN ab : (i \in DOMAIN a /\ ab[i] = a[i])
         \/ (i > Len(a) /\ i - Len(a) \in DOMAIN b /\ ab[i] = b[i - Len(a)])
  <2>1. SUFFICES ASSUME NEW i \in DOMAIN ab, i > Len(a)
                 PROVE  i - Len(a) \in DOMAIN b /\ ab[i] = b[i - Len(a)]
    BY <1>1
  <2>2. i - Len(a) \in DOMAIN b BY <1>1, <2>1
  <2> QED BY <1>1, <2>1, <2>2
<1> HIDE DEF ab
<1>3. Rising(a) /\ Rising(b) /\ Before(a, b) => Rising(ab)
  <2>1. SUFFICES ASSUME Rising(a), Rising(b), Before(a, b),
                        NEW i \in DOMAIN ab, NEW j \in DOMAIN ab, i < j
                 PROVE  ab[i] < ab[j]
    BY DEF Rising
  <2>2. i \in Nat /\ j \in Nat /\ Len(a) \in Nat BY <1>1
  <2>3. CASE i \in DOMAIN a /\ ab[i] = a[i]
    <3>1. CASE j \in DOMAIN a /\ ab[j] = a[j] BY <2>1, <2>3, <3>1 DEF Rising
    <3>2. CASE j - Len(a) \in DOMAIN b /\ ab[j] = b[j - Len(a)]
      BY <2>1, <2>3, <3>2 DEF Before
    <3> QED BY <1>2, <3>1, <3>2
  <2>4. CASE i > Len(a) /\ i - Len(a) \in DOMAIN b /\ ab[i] = b[i - Len(a)]
    <3>1. j > Len(a) /\ ~(j \in DOMAIN a) BY <2>1, <2>2, <2>4
    <3>2. j - Len(a) \in DOMAIN b /\ ab[j] = b[j - Len(a)] BY <1>2, <3>1
    <3>3. i - Len(a) < j - Len(a) BY <2>1, <2>2
    <3> QED BY <2>1, <2>4, <3>2, <3>3 DEF Rising
  <2> QED BY <1>2, <2>3, <2>4
<1>4. \A w : From(w, a) /\ From(w, b) => From(w, ab) BY <1>2 DEF From
<1>5. \A c \in Seq(Msgs) : Before(a, c) /\ Before(b, c) => Before(ab, c) BY <1>2 DEF Before
<1> QED BY <1>3, <1>4, <1>5 DEF ab

\* What buildBatch keeps is a beginning of the batch.
LEMMA CutPart ==
    ASSUME NEW b \in Seq(Msgs)
    PROVE  /\ DOMAIN Cut(b) \subseteq DOMAIN b
           /\ \A i \in DOMAIN Cut(b) : Cut(b)[i] = b[i]
<1>1. MaxBatch \in Nat \ {0} OBVIOUS
<1>2. CASE Len(b) > MaxBatch
  <2>1. Cut(b) = SubSeq(b, 1, MaxBatch) BY <1>2 DEF Cut
  <2> QED BY <1>1, <1>2, <2>1
<1>3. CASE ~(Len(b) > MaxBatch) BY <1>3 DEF Cut
<1> QED BY <1>2, <1>3

LEMMA OrderInit == Init => Ordered
<1> SUFFICES ASSUME Init PROVE Ordered
  OBVIOUS
<1>1. \A w \in Workers : Source(w)
  BY DEF Init, Source, From, Rising, Before
<1>2. \A s \in Subs : Line(s) BY DEF Init, Line
<1> QED BY <1>1, <1>2 DEF Ordered

\* A step that moves no message, and only ends what flushOnce waits for.
LEMMA OrderQuiet ==
    ASSUME Ordered,
           UNCHANGED <<buffer, batch, targets, queue, seen, arrived, chanOf>>,
           \A w \in Workers : flush'[w] = flush[w] \/ flush'[w] \in {"select", "exited"},
           \A s \in Subs : widget'[s] \in {"new", "refused"} => widget[s] \in {"new", "refused"},
           TypeOK
    PROVE  Ordered'
<1>1. \A w \in Workers : Source(w)' BY DEF Ordered, Source, From
<1>2. ASSUME NEW s \in Subs PROVE Line(s)'
  <2>1. Line(s) BY DEF Ordered
  <2>2. \A k : Piece(s, k)' = Piece(s, k) BY DEF Piece
  <2>3. \A w, b : From(w, b)' <=> From(w, b) BY DEF From
  <2>4. chanOf[s] # None => (Awaits(chanOf[s], s)' => Awaits(chanOf[s], s))
    BY DEF Awaits, TypeOK
  <2> QED BY <2>1, <2>2, <2>3, <2>4 DEF Line
<1> QED BY <1>1, <1>2 DEF Ordered

\* A new subscriber has nothing before it.
LEMMA OrderAdmit ==
    ASSUME TypeOK, Ordered, NEW s \in Subs, NEW w \in Workers,
           widget[s] = "new", Admit(s, w),
           UNCHANGED <<buffer, batch, targets, queue, seen, arrived>>,
           \A v \in Workers : flush'[v] = flush[v] \/ flush'[v] = "select"
    PROVE  Ordered'
<1>1. /\ chanOf[s] = None /\ seen[s] = <<>> /\ queue[s] = <<>>
      /\ chanOf' = [chanOf EXCEPT ![s] = w] /\ widget' = [widget EXCEPT ![s] = "streaming"]
  BY DEF Ordered, Line, Admit
<1>2. ASSUME NEW v \in Workers PROVE Source(v)'
  <2>1. s \notin targets[v] BY <1>1 DEF Ordered, Source
  <2>2. \A r \in targets[v] : chanOf'[r] = v BY <1>1, <2>1 DEF Ordered, Source, TypeOK
  <2> QED BY <2>2 DEF Ordered, Source, From
<1>3. ASSUME NEW r \in Subs PROVE Line(r)'
  <2>1. CASE r = s
    <3>1. /\ chanOf'[s] = w /\ widget'[s] = "streaming" /\ w # None
          /\ seen'[s] = <<>> /\ queue'[s] = <<>>
      BY <1>1 DEF TypeOK
    <3>2. \A k \in 0..Len(queue'[s]) : k = 0 /\ Piece(s, k)' = <<>> BY <3>1 DEF Piece
    <3>3. /\ From(w, <<>>)' /\ Rising(<<>>)'
          /\ \A b : Before(<<>>, b)'
      BY DEF From, Rising, Before
    <3>4. \A b : Before(<<>>, b) BY DEF Before
    <3>5. \A k, l \in 0..Len(queue'[s]) : ~(k < l) BY <3>2
    <3> QED BY <2>1, <3>1, <3>2, <3>3, <3>4, <3>5 DEF Line
  <2>2. CASE r # s
    <3>1. Line(r) BY DEF Ordered
    <3>2. \A k : Piece(r, k)' = Piece(r, k) BY DEF Piece
    <3>3. \A v, b : From(v, b)' <=> From(v, b) BY DEF From
    <3>4. chanOf'[r] = chanOf[r] /\ widget'[r] = widget[r] BY <1>1, <2>2 DEF TypeOK
    <3>5. chanOf[r] # None => (Awaits(chanOf[r], r)' => Awaits(chanOf[r], r))
      BY <3>4 DEF Awaits, TypeOK
    <3> QED BY <3>1, <3>2, <3>3, <3>4, <3>5 DEF Line
  <2> QED BY <2>1, <2>2
<1> QED BY <1>2, <1>3 DEF Ordered

\* A push: the new message is the newest of all.
LEMMA OrderPush ==
    ASSUME TypeOK, TypeOK', Ordered, NEW w \in Workers, push(w),
           UNCHANGED <<flush, batch, targets, queue, seen, chanOf, widget>>
    PROVE  Ordered'
<1> DEFINE m == Len(arrived) + 1
<1>1. /\ m \in Msgs /\ Len(arrived) \in Nat
      /\ arrived' = Append(arrived, w)
      /\ buffer' = [buffer EXCEPT ![w] = Append(@, m)]
  <2>1. Len(arrived) \in Nat /\ arrived \in Seq(Workers) BY DEF TypeOK
  <2>2. arrived' = Append(arrived, w) /\ Len(arrived) < MaxArrivals BY DEF push
  <2>3. Len(arrived') = m BY <2>1, <2>2
  <2>4. buffer' = [buffer EXCEPT ![w] = Append(@, m)] BY <2>3 DEF push
  <2>5. m \in Msgs
    <3>1. MaxArrivals \in Nat OBVIOUS
    <3> QED BY <2>1, <2>2, <3>1 DEF Msgs
  <2>6. arrived' = Append(arrived, w) BY <2>2
  <2> QED BY <2>1, <2>4, <2>5, <2>6
<1>2. /\ DOMAIN arrived' = 1..m /\ DOMAIN arrived = 1..Len(arrived)
      /\ arrived'[m] = w
      /\ \A i \in DOMAIN arrived : arrived'[i] = arrived[i]
  <2>1. arrived \in Seq(Workers) BY DEF TypeOK
  <2>2. Append(arrived, w) \in Seq(Workers) /\ Len(Append(arrived, w)) = m BY <2>1
  <2> QED BY <1>1, <2>1, <2>2
<1>3. \A v, b : From(v, b) => From(v, b)' BY <1>1, <1>2 DEF From
<1>4. \A v : \A b \in Seq(Msgs) : From(v, b) => \A i \in DOMAIN b : b[i] < m
  BY <1>1, <1>2 DEF From
<1>5. buffer[w] \in Seq(Msgs) /\ buffer'[w] = Append(buffer[w], m)
      /\ \A v \in Workers \ {w} : buffer'[v] = buffer[v]
  BY <1>1 DEF TypeOK
<1> HIDE DEF m
<1>6. /\ DOMAIN buffer'[w] = 1..(Len(buffer[w]) + 1) /\ Len(buffer[w]) \in Nat
      /\ buffer'[w][Len(buffer[w]) + 1] = m
      /\ DOMAIN buffer[w] = 1..Len(buffer[w])
      /\ \A i \in DOMAIN buffer[w] : buffer'[w][i] = buffer[w][i]
  BY <1>1, <1>5
\* Whatever was before the buffer and came from some worker still is.
<1>7. ASSUME NEW b \in Seq(Msgs), NEW x, From(x, b), NEW v \in Workers, Before(b, buffer[v])
      PROVE  Before(b, buffer'[v])
  <2>1. CASE v = w
    <3>1. ASSUME NEW i \in DOMAIN b, NEW j \in DOMAIN buffer'[w] PROVE b[i] < buffer'[w][j]
      <4>1. CASE j \in DOMAIN buffer[w] BY <1>6, <1>7, <2>1, <4>1 DEF Before
      <4>2. CASE j = Len(buffer[w]) + 1 BY <1>4, <1>6, <1>7, <4>2
      <4> QED BY <1>6, <4>1, <4>2
    <3> QED BY <2>1, <3>1 DEF Before
  <2>2. CASE v # w BY <1>5, <1>7, <2>2
  <2> QED BY <2>1, <2>2
<1>8. ASSUME NEW v \in Workers PROVE Source(v)'
  <2>1. Source(v) BY DEF Ordered
  <2>2. batch[v] \in Seq(Msgs) /\ buffer[v] \in Seq(Msgs) BY DEF TypeOK
  <2>3. From(v, batch[v])' /\ Before(batch[v], buffer[v])'
    BY <1>3, <1>7, <2>1, <2>2 DEF Source
  <2>4. CASE v = w
    <3>3. Rising(buffer[w]) /\ \A i \in DOMAIN buffer[w] : buffer[w][i] < m
      BY <1>4, <1>5, <2>1, <2>4 DEF Source
    <3>1. Rising(buffer'[w])
      <4>1. Rising(Append(buffer[w], m)) BY <1>1, <1>5, <3>3, RisingAppend
      <4> QED BY <1>5, <4>1
    <3>2. From(w, buffer[w])'
      <4>1. From(w, buffer[w]) BY <2>1, <2>4 DEF Source
      <4>2. ASSUME NEW i \in DOMAIN buffer'[w]
            PROVE  buffer'[w][i] \in DOMAIN arrived' /\ arrived'[buffer'[w][i]] = w
        <5>1. CASE i \in DOMAIN buffer[w] BY <1>1, <1>2, <1>6, <4>1, <5>1 DEF From, m
        <5>2. CASE i = Len(buffer[w]) + 1 BY <1>2, <1>6, <5>2, <1>1 DEF Msgs
        <5> QED BY <1>6, <5>1, <5>2
      <4> QED BY <4>2 DEF From
    <3> QED BY <2>1, <2>3, <2>4, <3>1, <3>2 DEF Source
  <2>5. CASE v # w BY <1>3, <1>5, <2>1, <2>3, <2>5 DEF Source
  <2> QED BY <2>4, <2>5
<1>9. ASSUME NEW s \in Subs PROVE Line(s)'
  <2>1. Line(s) BY DEF Ordered
  <2>2. \A k : Piece(s, k)' = Piece(s, k) BY DEF Piece
  <2>3. \A k \in 0..Len(queue[s]) : Piece(s, k) \in Seq(Msgs) BY DEF Piece, TypeOK
  <2>4. CASE chanOf[s] = None BY <2>1, <2>4 DEF Line
  <2>5. CASE chanOf[s] # None
    <3>1. chanOf[s] \in Workers BY <2>5 DEF TypeOK
    <3>2. Awaits(chanOf[s], s)' <=> Awaits(chanOf[s], s) BY DEF Awaits
    <3>3. ASSUME NEW k \in 0..Len(queue[s])
          PROVE  /\ From(chanOf[s], Piece(s, k))'
                 /\ Before(Piece(s, k), buffer[chanOf[s]])'
      BY <1>3, <1>7, <2>1, <2>2, <2>3, <2>5, <3>1 DEF Line
    <3> QED BY <2>1, <2>2, <2>5, <3>2, <3>3 DEF Line
  <2> QED BY <2>4, <2>5
<1> QED BY <1>8, <1>9 DEF Ordered

\* The buffer becomes the batch.
LEMMA OrderDrain ==
    ASSUME TypeOK, Ordered, NEW w \in Workers, FlushDrain(w)
    PROVE  Ordered'
<1>1. /\ batch' = [batch EXCEPT ![w] = buffer[w]]
      /\ buffer' = [buffer EXCEPT ![w] = <<>>]
      /\ flush' = [flush EXCEPT ![w] = "drained"]
      /\ UNCHANGED <<targets, queue, seen, arrived, chanOf, widget>>
  BY DEF FlushDrain, drain, subVars, dataVars
<1>2. \A b : Before(b, <<>>) BY DEF Before
<1>3. \A v, b : From(v, b)' <=> From(v, b) BY <1>1 DEF From
<1>4. /\ batch'[w] = buffer[w] /\ buffer'[w] = <<>>
      /\ \A v \in Workers \ {w} :
            batch'[v] = batch[v] /\ buffer'[v] = buffer[v] /\ flush'[v] = flush[v]
  BY <1>1 DEF TypeOK
<1>5. ASSUME NEW v \in Workers PROVE Source(v)'
  <2>1. Source(v) BY DEF Ordered
  <2>2. CASE v = w
    <3>1. From(w, <<>>) /\ Rising(<<>>) BY DEF From, Rising
    <3> QED BY <1>1, <1>2, <1>3, <1>4, <2>1, <2>2, <3>1 DEF Source
  <2>3. CASE v # w BY <1>1, <1>3, <1>4, <2>1, <2>3 DEF Source
  <2> QED BY <2>2, <2>3
<1>6. ASSUME NEW s \in Subs PROVE Line(s)'
  <2>1. Line(s) BY DEF Ordered
  <2>2. \A k : Piece(s, k)' = Piece(s, k) BY <1>1 DEF Piece
  <2>3. CASE chanOf[s] = None BY <1>1, <2>1, <2>3 DEF Line
  <2>4. CASE chanOf[s] = w
    BY <1>1, <1>2, <1>3, <1>4, <2>1, <2>2, <2>4 DEF Line
  <2>5. CASE chanOf[s] \in Workers \ {w}
    <3>1. Awaits(chanOf[s], s)' <=> Awaits(chanOf[s], s) BY <1>1, <1>4, <2>5 DEF Awaits
    <3> QED BY <1>1, <1>3, <1>4, <2>1, <2>2, <2>5, <3>1 DEF Line
  <2> QED BY <2>3, <2>4, <2>5 DEF TypeOK
<1> QED BY <1>5, <1>6 DEF Ordered

\* buildBatch keeps a beginning of the batch, and the subscribers become its
\* targets.
LEMMA OrderSnapshot ==
    ASSUME TypeOK, Wiring, Ordered, NEW w \in Workers, FlushSnapshot(w)
    PROVE  Ordered'
<1>1. /\ flush[w] = "drained" /\ flush'[w] \in {"select", "send"}
      /\ targets'[w] = subs[w]
      /\ batch'[w] = <<>> \/ batch'[w] = Cut(batch[w])
      /\ \A v \in Workers \ {w} :
            flush'[v] = flush[v] /\ targets'[v] = targets[v] /\ batch'[v] = batch[v]
      /\ UNCHANGED <<buffer, queue, seen, arrived, chanOf, widget>>
  BY DEF FlushSnapshot, TypeOK, subVars, dataVars, feedVars
<1>2. /\ DOMAIN batch'[w] \subseteq DOMAIN batch[w]
      /\ \A i \in DOMAIN batch'[w] : batch'[w][i] = batch[w][i]
      /\ batch[w] \in Seq(Msgs)
  <2>1. batch[w] \in Seq(Msgs) BY DEF TypeOK
  <2> QED BY <1>1, <2>1, CutPart
<1>3. \A v, b : From(v, b)' <=> From(v, b) BY <1>1 DEF From
<1>4. \A b : Before(b, batch[w]) => Before(b, batch'[w]) BY <1>2 DEF Before
<1>5. ASSUME NEW v \in Workers PROVE Source(v)'
  <2>1. Source(v) BY DEF Ordered
  <2>2. CASE v = w
    <3>1. From(w, batch'[w]) BY <1>2, <2>1, <2>2 DEF Source, From
    <3>2. Rising(batch'[w]) BY <1>2, <2>1, <2>2 DEF Source, Rising
    <3>3. Before(batch'[w], buffer[w]) BY <1>2, <2>1, <2>2 DEF Source, Before
    <3>4. \A s \in subs[w] : chanOf[s] = w BY DEF Wiring
    <3> QED BY <1>1, <1>3, <2>1, <2>2, <3>1, <3>2, <3>3, <3>4 DEF Source
  <2>3. CASE v # w BY <1>1, <1>3, <2>1, <2>3 DEF Source
  <2> QED BY <2>2, <2>3
<1>6. ASSUME NEW s \in Subs PROVE Line(s)'
  <2>1. Line(s) BY DEF Ordered
  <2>2. \A k : Piece(s, k)' = Piece(s, k) BY <1>1 DEF Piece
  <2>3. CASE chanOf[s] = None BY <1>1, <2>1, <2>3 DEF Line
  <2>4. CASE chanOf[s] = w
    <3>1. Awaits(w, s) BY <1>1 DEF Awaits
    <3> QED BY <1>1, <1>3, <1>4, <2>1, <2>2, <2>4, <3>1 DEF Line
  <2>5. CASE chanOf[s] \in Workers \ {w}
    <3>1. Awaits(chanOf[s], s)' <=> Awaits(chanOf[s], s) BY <1>1, <2>5 DEF Awaits
    <3> QED BY <1>1, <1>3, <2>1, <2>2, <2>5, <3>1 DEF Line
  <2> QED BY <2>3, <2>4, <2>5 DEF TypeOK
<1> QED BY <1>5, <1>6 DEF Ordered

\* A send: the batch joins the queue of one target, behind all it holds.
LEMMA OrderSend ==
    ASSUME TypeOK, TypeOK', Ordered, NEW w \in Workers, NEW s \in Subs, FlushSend(w, s)
    PROVE  Ordered'
<1>1. /\ flush[w] = "send" /\ s \in targets[w] /\ chanOf[s] = w /\ w # None
      /\ queue'[s] = queue[s] \/ queue'[s] = Append(queue[s], batch[w])
      /\ \A r \in Subs \ {s} : queue'[r] = queue[r]
      /\ targets'[w] = targets[w] \ {s}
      /\ \A v \in Workers \ {w} :
            flush'[v] = flush[v] /\ targets'[v] = targets[v] /\ batch'[v] = batch[v]
      /\ UNCHANGED <<buffer, seen, arrived, chanOf, widget>>
  <2>1. /\ flush[w] = "send" /\ s \in targets[w]
        /\ queue' = [queue EXCEPT ![s] = IF Len(@) < SubscriberBuffer THEN Append(@, batch[w]) ELSE @]
        /\ targets' = [targets EXCEPT ![w] = @ \ {s}]
        /\ UNCHANGED <<buffer, seen, arrived, chanOf, widget>>
    BY DEF FlushSend, Offer, subVars, feedVars
  <2>2. chanOf[s] = w /\ w # None BY <2>1 DEF Ordered, Source
  <2>3. \A v \in Workers \ {w} : flush'[v] = flush[v] /\ batch'[v] = batch[v]
    <3>1. \/ flush' = [flush EXCEPT ![w] = "select"] /\ batch' = [batch EXCEPT ![w] = <<>>]
          \/ flush' = flush /\ batch' = batch
      BY DEF FlushSend
    <3>2. DOMAIN flush = Workers /\ DOMAIN batch = Workers BY DEF TypeOK
    <3> QED BY <3>1, <3>2
  <2>4. /\ queue'[s] = queue[s] \/ queue'[s] = Append(queue[s], batch[w])
        /\ \A r \in Subs \ {s} : queue'[r] = queue[r]
    BY <2>1 DEF TypeOK
  <2>5. /\ targets'[w] = targets[w] \ {s}
        /\ \A v \in Workers \ {w} : targets'[v] = targets[v]
    BY <2>1 DEF TypeOK
  <2> QED BY <2>1, <2>2, <2>3, <2>4, <2>5
<1>2. \/ flush'[w] = "select" /\ batch'[w] = <<>>
      \/ flush'[w] = "send" /\ batch'[w] = batch[w]
  BY <1>1 DEF FlushSend, TypeOK
<1>3. \A v, b : From(v, b)' <=> From(v, b) BY <1>1 DEF From
<1>4. ASSUME NEW v \in Workers PROVE Source(v)'
  <2>1. Source(v) BY DEF Ordered
  <2>2. CASE v = w
    <3>1. From(w, <<>>) /\ Rising(<<>>) /\ Before(<<>>, buffer[w]) BY DEF From, Rising, Before
    <3> QED BY <1>1, <1>2, <1>3, <2>1, <2>2, <3>1 DEF Source
  <2>3. CASE v # w BY <1>1, <1>3, <2>1, <2>3 DEF Source
  <2> QED BY <2>2, <2>3
<1>5. ASSUME NEW r \in Subs \ {s} PROVE Line(r)'
  <2>1. Line(r) BY DEF Ordered
  <2>2. \A k : Piece(r, k)' = Piece(r, k) BY <1>1 DEF Piece
  <2>3. CASE chanOf[r] = None BY <1>1, <2>1, <2>3 DEF Line
  <2>4. CASE chanOf[r] \in Workers
    <3>1. Awaits(chanOf[r], r)' => Awaits(chanOf[r], r) /\ batch'[chanOf[r]] = batch[chanOf[r]]
      BY <1>1, <1>2, <2>4 DEF Awaits
    <3> QED BY <1>1, <1>3, <2>1, <2>2, <2>4, <3>1 DEF Line
  <2> QED BY <2>3, <2>4 DEF TypeOK
<1>6. Line(s)'
  <2>1. Line(s) /\ Source(w) /\ Awaits(w, s) BY <1>1 DEF Ordered, Awaits
  <2>2. ~Awaits(w, s)' BY <1>1, <1>2 DEF Awaits
  <2>3. CASE queue'[s] = queue[s]
    <3>1. \A k : Piece(s, k)' = Piece(s, k) BY <1>1, <2>3 DEF Piece
    <3> QED BY <1>1, <1>3, <2>1, <2>2, <2>3, <3>1 DEF Line
  <2>4. CASE queue'[s] = Append(queue[s], batch[w])
    <3>0. queue[s] \in Seq(Seq(Msgs)) BY DEF TypeOK
    <3>1. PICK n \in Nat : n = Len(queue[s])
      <4>1. Len(queue[s]) \in Nat BY <3>0
      <4> QED BY <4>1
    <3>2. Len(queue'[s]) = n + 1 BY <2>4, <3>0, <3>1
    <3>3. Piece(s, n + 1)' = batch[w] BY <2>4, <3>0, <3>1 DEF Piece
    <3>4. \A k \in 0..n : Piece(s, k)' = Piece(s, k) BY <1>1, <2>4, <3>0, <3>1 DEF Piece
    <3>5. ASSUME NEW k \in 0..(n + 1)
          PROVE  /\ From(w, Piece(s, k)') /\ Rising(Piece(s, k)') /\ Before(Piece(s, k)', buffer[w])
                 /\ \A l \in 0..(n + 1) : k < l => Before(Piece(s, k)', Piece(s, l)')
      <4>1. CASE k = n + 1
        <5>1. \A l \in 0..(n + 1) : ~(k < l) BY <4>1
        <5> QED BY <2>1, <3>3, <4>1, <5>1 DEF Source
      <4>2. CASE k \in 0..n
        <5>1. /\ From(w, Piece(s, k)) /\ Rising(Piece(s, k)) /\ Before(Piece(s, k), buffer[w])
              /\ Before(Piece(s, k), batch[w])
              /\ \A l \in 0..n : k < l => Before(Piece(s, k), Piece(s, l))
          BY <1>1, <2>1, <3>1, <4>2 DEF Line
        <5>2. \A l \in 0..(n + 1) : l \in 0..n \/ l = n + 1 BY <3>1
        <5> QED BY <3>3, <3>4, <4>2, <5>1, <5>2
      <4> QED BY <3>1, <4>1, <4>2
    <3>6. chanOf'[s] = w /\ w # None /\ widget'[s] = widget[s] /\ buffer' = buffer BY <1>1
    <3>7. \A k \in 0..Len(queue'[s]) :
             /\ From(w, Piece(s, k))' /\ Rising(Piece(s, k))'
             /\ Before(Piece(s, k), buffer[w])'
             /\ \A l \in 0..Len(queue'[s]) : k < l => Before(Piece(s, k), Piece(s, l))'
      BY <1>3, <3>2, <3>5, <3>6
    <3>8. widget[s] \in {"new", "refused"} => chanOf[s] = None BY <2>1 DEF Line
    <3> QED BY <1>1, <2>2, <3>6, <3>7, <3>8 DEF Line
  <2> QED BY <1>1, <2>3, <2>4
<1> QED BY <1>4, <1>5, <1>6 DEF Ordered

\* A write: the client's piece is joined by the first batch of the queue.
LEMMA OrderReceive ==
    ASSUME TypeOK, TypeOK', Wiring, Ordered, NEW s \in Subs, Receive(s)
    PROVE  Ordered'
<1>0. queue[s] \in Seq(Seq(Msgs)) /\ seen[s] \in Seq(Msgs) BY DEF TypeOK
<1>1. PICK n \in Nat : Len(queue[s]) = n + 1
  <2>1. queue[s] # <<>> BY DEF Receive
  <2>2. Len(queue[s]) \in Nat /\ Len(queue[s]) # 0 BY <1>0, <2>1
  <2>3. Len(queue[s]) - 1 \in Nat /\ Len(queue[s]) = (Len(queue[s]) - 1) + 1 BY <2>2
  <2> QED BY <2>3
<1>2. /\ seen'[s] = seen[s] \o queue[s][1] /\ queue[s][1] \in Seq(Msgs)
      /\ Len(queue'[s]) = n
      /\ \A k \in 1..n : queue'[s][k] = queue[s][k + 1]
      /\ \A r \in Subs \ {s} : seen'[r] = seen[r] /\ queue'[r] = queue[r]
      /\ chanOf[s] \in Workers /\ chanOf[s] # None
      /\ UNCHANGED <<buffer, batch, flush, targets, arrived, chanOf, widget>>
  <2>1. queue' = [queue EXCEPT ![s] = Tail(@)] /\ seen' = [seen EXCEPT ![s] = @ \o Head(queue[s])]
    BY DEF Receive
  <2>2. queue'[s] = Tail(queue[s]) /\ seen'[s] = seen[s] \o queue[s][1]
        /\ \A r \in Subs \ {s} : seen'[r] = seen[r] /\ queue'[r] = queue[r]
    <3>1. queue \in [Subs -> Seq(Seq(Msgs))] /\ seen \in [Subs -> Seq(Msgs)] BY DEF TypeOK
    <3>2. Head(queue[s]) = queue[s][1] BY <1>0, <1>1
    <3> QED BY <2>1, <3>1, <3>2
  <2>3. queue[s][1] \in Seq(Msgs) BY <1>0, <1>1
  <2>4. Len(queue'[s]) = n /\ \A k \in 1..n : queue'[s][k] = queue[s][k + 1]
    BY <1>0, <1>1, <2>2
  <2>5. chanOf[s] \in Workers /\ chanOf[s] # None BY DEF Receive, Wiring
  <2>6. UNCHANGED <<buffer, batch, flush, targets, arrived, chanOf, widget>>
    BY DEF Receive, flushVars, subVars, feedVars
  <2> QED BY <2>2, <2>3, <2>4, <2>5, <2>6
<1>3. \A v, b : From(v, b)' <=> From(v, b) BY <1>2 DEF From
<1>4. \A v \in Workers : Source(v)' BY <1>2, <1>3 DEF Ordered, Source
<1>5. ASSUME NEW r \in Subs \ {s} PROVE Line(r)'
  <2>1. Line(r) BY DEF Ordered
  <2>2. \A k : Piece(r, k)' = Piece(r, k) BY <1>2 DEF Piece
  <2>3. Awaits(chanOf[r], r)' <=> Awaits(chanOf[r], r) BY <1>2 DEF Awaits
  <2> QED BY <1>2, <1>3, <2>1, <2>2, <2>3 DEF Line
<1>6. Line(s)'
  <2>0. PICK w \in Workers : w = chanOf[s] BY <1>2
  <2>1. \A k \in 0..(n + 1) :
           /\ From(w, Piece(s, k)) /\ Rising(Piece(s, k)) /\ Before(Piece(s, k), buffer[w])
           /\ Awaits(w, s) => Before(Piece(s, k), batch[w])
           /\ \A l \in 0..(n + 1) : k < l => Before(Piece(s, k), Piece(s, l))
    BY <1>1, <1>2, <2>0 DEF Ordered, Line
  <2>2. widget[s] \in {"new", "refused"} => w = None BY <2>0 DEF Ordered, Line
  <2>3. Awaits(w, s)' <=> Awaits(w, s) BY <1>2 DEF Awaits
  <2>4. /\ Piece(s, 0)' = Piece(s, 0) \o Piece(s, 1)
        /\ \A k \in 1..n : Piece(s, k)' = Piece(s, k + 1)
    BY <1>2 DEF Piece
  <2>5. \A k \in 0..(n + 1) : Piece(s, k) \in Seq(Msgs) BY <1>0, <1>1 DEF Piece
  <2>6. buffer[w] \in Seq(Msgs) /\ batch[w] \in Seq(Msgs) BY <1>2 DEF TypeOK
  <2>7. 0 \in 0..(n + 1) /\ 1 \in 0..(n + 1) /\ 0 < 1 OBVIOUS
  <2>8. ASSUME NEW k \in 0..n
        PROVE  /\ From(w, Piece(s, k)') /\ Rising(Piece(s, k)') /\ Before(Piece(s, k)', buffer[w])
               /\ Awaits(w, s) => Before(Piece(s, k)', batch[w])
               /\ \A l \in 0..n : k < l => Before(Piece(s, k)', Piece(s, l)')
    <3>1. CASE k = 0
      <4>1. \A l \in 1..n : /\ Before(Piece(s, 0), Piece(s, l + 1)) /\ Before(Piece(s, 1), Piece(s, l + 1))
                             /\ Piece(s, l + 1) \in Seq(Msgs) /\ Piece(s, l)' = Piece(s, l + 1)
        <5>1. SUFFICES ASSUME NEW l \in 1..n
                       PROVE  /\ Before(Piece(s, 0), Piece(s, l + 1)) /\ Before(Piece(s, 1), Piece(s, l + 1))
                              /\ Piece(s, l + 1) \in Seq(Msgs) /\ Piece(s, l)' = Piece(s, l + 1)
          OBVIOUS
        <5>2. l + 1 \in 0..(n + 1) /\ 0 < l + 1 /\ 1 < l + 1 OBVIOUS
        <5> QED BY <2>1, <2>4, <2>5, <2>7, <5>2
      <4>2. /\ Piece(s, 0) \in Seq(Msgs) /\ Piece(s, 1) \in Seq(Msgs)
            /\ Before(Piece(s, 0), Piece(s, 1))
        BY <2>1, <2>5, <2>7
      <4>3. /\ From(w, Piece(s, 0)) /\ Rising(Piece(s, 0)) /\ Before(Piece(s, 0), buffer[w])
            /\ From(w, Piece(s, 1)) /\ Rising(Piece(s, 1)) /\ Before(Piece(s, 1), buffer[w])
            /\ Awaits(w, s) => Before(Piece(s, 0), batch[w]) /\ Before(Piece(s, 1), batch[w])
        BY <2>1, <2>7
      <4>4. \A l \in 0..n : 0 < l => l \in 1..n OBVIOUS
      <4> QED BY <2>4, <2>6, <3>1, <4>1, <4>2, <4>3, <4>4, JoinPieces
    <3>2. CASE k \in 1..n
      <4>1. k + 1 \in 0..(n + 1) BY <3>2
      <4>2. \A l \in 0..n : k < l => l \in 1..n /\ l + 1 \in 0..(n + 1) /\ k + 1 < l + 1 BY <3>2
      <4> QED BY <2>1, <2>4, <3>2, <4>1, <4>2
    <3> QED BY <3>1, <3>2
  <2>9. chanOf'[s] = w /\ widget'[s] = widget[s] /\ buffer' = buffer /\ batch' = batch /\ w # None
    BY <1>2, <2>0
  <2>10. \A k \in 0..Len(queue'[s]) :
           /\ From(w, Piece(s, k))' /\ Rising(Piece(s, k)')
           /\ Before(Piece(s, k)', buffer'[w])
           /\ Awaits(w, s)' => Before(Piece(s, k)', batch'[w])
           /\ \A l \in 0..Len(queue'[s]) : k < l => Before(Piece(s, k)', Piece(s, l)')
    BY <1>2, <1>3, <2>3, <2>8, <2>9
  <2> QED BY <2>0, <2>2, <2>9, <2>10 DEF Line
<1> QED BY <1>4, <1>5, <1>6 DEF Ordered

LEMMA OrderStep == IInv /\ Ordered /\ [Next]_vars => Ordered'
<1> SUFFICES ASSUME IInv, Ordered, [Next]_vars PROVE Ordered'
  OBVIOUS
<1>0. TypeOK /\ TypeOK' /\ Wiring
  <2>1. TypeOK' BY TypeStep
  <2> QED BY <2>1 DEF IInv
<1> USE DEF hubVars, lifeVars, flushVars, subVars, dataVars, feedVars
<1>1. ASSUME NEW s \in Subs, Handler(s) PROVE Ordered'
  <2>1. ASSUME NEW id \in ChannelIDs, SubscribeFirst(s, id) PROVE Ordered'
    <3>1. PICK w \in Workers : startChannel(w, id) /\ Admit(s, w) BY <2>1 DEF SubscribeFirst
    <3>2. \A v \in Workers : flush'[v] = flush[v] \/ flush'[v] = "select"
      BY <1>0, <3>1 DEF startChannel, TypeOK
    <3> QED BY <1>0, <2>1, <3>1, <3>2, OrderAdmit DEF SubscribeFirst
  <2>2. ASSUME NEW id \in ChannelIDs, SubscribeMore(s, id) PROVE Ordered'
    <3>1. channels[id] \in Workers BY <1>0, <2>2 DEF SubscribeMore, TypeOK
    <3> QED BY <1>0, <2>2, <3>1, OrderAdmit DEF SubscribeMore
  <2>3. ASSUME NEW id \in ChannelIDs, Refuse(s, id) PROVE Ordered'
    <3>1. \A r \in Subs : widget'[r] \in {"new", "refused"} => widget[r] \in {"new", "refused"}
      BY <1>0, <2>3 DEF Refuse, TypeOK
    <3> QED BY <1>0, <2>3, <3>1, OrderQuiet DEF Refuse
  <2>4. CASE Receive(s) BY <1>0, <2>4, OrderReceive
  <2>5. CASE Disconnect(s) \/ EndOfStream(s) \/ Unsubscribe(s)
    <3>1. widget' = [widget EXCEPT ![s] = "leaving"] \/ widget' = [widget EXCEPT ![s] = "gone"]
      BY <2>5 DEF Disconnect, EndOfStream, Unsubscribe
    <3>2. \A r \in Subs : widget'[r] \in {"new", "refused"} => widget[r] \in {"new", "refused"}
      BY <1>0, <3>1 DEF TypeOK
    <3>3. UNCHANGED <<flush, buffer, batch, targets, queue, seen, arrived, chanOf>>
      BY <2>5 DEF Disconnect, EndOfStream, Unsubscribe
    <3> QED BY <1>0, <3>2, <3>3, OrderQuiet
  <2> QED BY <1>1, <2>1, <2>2, <2>3, <2>4, <2>5 DEF Handler
<1>2. ASSUME NEW w \in Workers, Timer(w) PROVE Ordered'
  BY <1>0, <1>2, OrderQuiet DEF Timer, TimerFires, TimerRuns, LateTimerRuns
<1>3. ASSUME NEW w \in Workers, Ingest(w) PROVE Ordered'
  BY <1>0, <1>3, OrderPush DEF Ingest
<1>4. ASSUME NEW w \in Workers, IngestExit(w) PROVE Ordered'
  BY <1>0, <1>4, OrderQuiet DEF IngestExit
<1>5. ASSUME NEW w \in Workers, Flusher(w) PROVE Ordered'
  <2>1. CASE FlushExit(w)
    <3>1. \A v \in Workers : flush'[v] = flush[v] \/ flush'[v] \in {"select", "exited"}
      BY <1>0, <2>1 DEF FlushExit, TypeOK
    <3> QED BY <1>0, <2>1, <3>1, OrderQuiet DEF FlushExit
  <2> QED BY <1>0, <1>5, <2>1, OrderDrain, OrderSnapshot, OrderSend DEF Flusher
<1>6. CASE Injector
  <2>1. CASE InjectPush
    <3>1. inject \in Workers BY <1>0, <2>1 DEF InjectPush, TypeOK
    <3> QED BY <1>0, <2>1, <3>1, OrderPush DEF InjectPush
  <2>2. ASSUME NEW id \in ChannelIDs, InjectLookup(id) PROVE Ordered'
    BY <1>0, <2>2, OrderQuiet DEF InjectLookup
  <2> QED BY <1>6, <2>1, <2>2 DEF Injector
<1>7. CASE Closer
  BY <1>0, <1>7, OrderQuiet DEF Closer, CloseBegin, CloseCancel, CloseWait, CloseReturn, CloseSub
<1>8. CASE UNCHANGED vars BY <1>0, <1>8, OrderQuiet DEF vars
<1> QED BY <1>1, <1>2, <1>3, <1>4, <1>5, <1>6, <1>7, <1>8 DEF Next, Terminated

LEMMA OrderedInOrder == TypeOK /\ Ordered => InOrder
<1> SUFFICES ASSUME TypeOK, Ordered, NEW s \in Subs
             PROVE  /\ \A i, j \in 1..Len(seen[s]) : i < j => seen[s][i] < seen[s][j]
                    /\ \A k \in 1..Len(seen[s]) : arrived[seen[s][k]] = chanOf[s]
                    /\ \A p \in Flat(queue[s]) :
                          LET m == queue[s][p[1]][p[2]] IN
                          /\ arrived[m] = chanOf[s]
                          /\ \A k \in 1..Len(seen[s]) : seen[s][k] < m
                          /\ \A q \in Flat(queue[s]) :
                                p[1] < q[1] \/ (p[1] = q[1] /\ p[2] < q[2])
                                   => m < queue[s][q[1]][q[2]]
  BY DEF InOrder
<1>1. queue[s] \in Seq(Seq(Msgs)) /\ seen[s] \in Seq(Msgs) BY DEF TypeOK
<1>2. CASE chanOf[s] = None
  <2>1. seen[s] = <<>> /\ queue[s] = <<>> BY <1>2 DEF Ordered, Line
  <2>2. Flat(queue[s]) = {} BY <2>1 DEF Flat
  <2> QED BY <2>1, <2>2
<1>3. CASE chanOf[s] # None
  <2>1. \A k \in 0..Len(queue[s]) :
           /\ From(chanOf[s], Piece(s, k)) /\ Rising(Piece(s, k))
           /\ \A l \in 0..Len(queue[s]) : k < l => Before(Piece(s, k), Piece(s, l))
    BY <1>3 DEF Ordered, Line
  <2>2. Piece(s, 0) = seen[s] /\ \A k \in 1..Len(queue[s]) : Piece(s, k) = queue[s][k]
    BY DEF Piece
  <2>3. From(chanOf[s], seen[s]) /\ Rising(seen[s])
    <3>1. 0 \in 0..Len(queue[s]) BY <1>1
    <3> QED BY <2>1, <2>2, <3>1
  <2>4. \A k \in 1..Len(queue[s]) :
           /\ queue[s][k] \in Seq(Msgs)
           /\ From(chanOf[s], queue[s][k]) /\ Rising(queue[s][k]) /\ Before(seen[s], queue[s][k])
           /\ \A l \in 1..Len(queue[s]) : k < l => Before(queue[s][k], queue[s][l])
    <3>1. Len(queue[s]) \in Nat /\ \A k \in 1..Len(queue[s]) : queue[s][k] \in Seq(Msgs)
      BY <1>1
    <3>2. 0 \in 0..Len(queue[s]) /\ \A k \in 1..Len(queue[s]) : k \in 0..Len(queue[s]) /\ 0 < k
      BY <3>1
    <3>3. ASSUME NEW k \in 1..Len(queue[s])
          PROVE  From(chanOf[s], queue[s][k]) /\ Rising(queue[s][k]) /\ Before(seen[s], queue[s][k])
      BY <2>1, <2>2, <3>2
    <3>4. ASSUME NEW k \in 1..Len(queue[s]), NEW l \in 1..Len(queue[s]), k < l
          PROVE  Before(queue[s][k], queue[s][l])
      BY <2>1, <2>2, <3>2, <3>4
    <3> QED BY <3>1, <3>3, <3>4
  <2>5. ASSUME NEW p \in Flat(queue[s])
        PROVE  p[1] \in 1..Len(queue[s]) /\ p[2] \in DOMAIN queue[s][p[1]]
    <3>1. p[1] \in 1..Len(queue[s]) /\ p[2] \in Msgs /\ p[2] <= Len(queue[s][p[1]])
      BY DEF Flat
    <3>2. queue[s][p[1]] \in Seq(Msgs) BY <2>4, <3>1
    <3> QED BY <3>1, <3>2 DEF Msgs
  <2>6. ASSUME NEW p \in Flat(queue[s])
        PROVE  /\ arrived[queue[s][p[1]][p[2]]] = chanOf[s]
               /\ \A k \in 1..Len(seen[s]) : seen[s][k] < queue[s][p[1]][p[2]]
    <3>1. p[1] \in 1..Len(queue[s]) /\ p[2] \in DOMAIN queue[s][p[1]] BY <2>5
    <3>2. From(chanOf[s], queue[s][p[1]]) /\ Before(seen[s], queue[s][p[1]]) BY <2>4, <3>1
    <3>3. DOMAIN seen[s] = 1..Len(seen[s]) BY <1>1
    <3> QED BY <3>1, <3>2, <3>3 DEF From, Before
  <2>7. ASSUME NEW p \in Flat(queue[s]), NEW q \in Flat(queue[s]),
               p[1] < q[1] \/ (p[1] = q[1] /\ p[2] < q[2])
        PROVE  queue[s][p[1]][p[2]] < queue[s][q[1]][q[2]]
    BY <2>4, <2>5, <2>7 DEF Before, Rising
  <2>8. /\ \A i, j \in 1..Len(seen[s]) : i < j => seen[s][i] < seen[s][j]
        /\ \A k \in 1..Len(seen[s]) : arrived[seen[s][k]] = chanOf[s]
    BY <1>1, <2>3 DEF From, Rising
  <2> QED BY <2>6, <2>7, <2>8
<1> QED BY <1>2, <1>3

\* Every widget is shown its own channel's chat in order and without
\* repetition, for any number of workers, widgets and messages and any sizes of
\* batch and queue, whatever is dropped and however workers replace each other.
THEOREM ChatInOrder == Spec => []InOrder
<1>1. IInv /\ IInv' /\ Ordered /\ [Next]_vars => Ordered' BY OrderStep
<1>2. IInv /\ Ordered => InOrder BY OrderedInOrder DEF IInv
<1> QED BY <1>1, <1>2, OrderInit, Inductive, PTL DEF Spec

-----------------------------------------------------------------------------
(* ImplementsChatFeed: two more invariants, then one step of ChatFeed, or none, *)
(* for every step of Hub.                                                       *)

LEMMA SizedInit == Init => Sized /\ Named
BY DEF Init, Sized, Named

\* A snapshot leaves at least one message and at most MaxBatch.
LEMMA CutSize ==
    ASSUME NEW b \in Seq(Msgs), b # <<>>
    PROVE  Len(Cut(b)) \in 1..MaxBatch
<1>1. MaxBatch \in Nat \ {0} /\ Len(b) \in Nat /\ Len(b) # 0 OBVIOUS
<1>2. CASE Len(b) > MaxBatch
  <2>1. Cut(b) = SubSeq(b, 1, MaxBatch) BY <1>2 DEF Cut
  <2>2. Len(SubSeq(b, 1, MaxBatch)) = MaxBatch BY <1>1, <1>2
  <2> QED BY <1>1, <2>1, <2>2
<1>3. CASE ~(Len(b) > MaxBatch) BY <1>1, <1>3 DEF Cut
<1> QED BY <1>2, <1>3

\* Only flushOnce and a widget's reads concern the sizes.
LEMMA SizedQuiet ==
    ASSUME TypeOK, Sized, UNCHANGED <<batch, queue>>,
           \A w \in Workers : flush'[w] = flush[w] \/ flush'[w] \in {"select", "exited"}
    PROVE  Sized'
BY DEF Sized

LEMMA SizedFlush ==
    ASSUME TypeOK, Sized, NEW w \in Workers, Flusher(w)
    PROVE  Sized'
<1>1. CASE FlushDrain(w)
  <2>1. /\ flush' = [flush EXCEPT ![w] = "drained"] /\ batch' = [batch EXCEPT ![w] = buffer[w]]
        /\ buffer[w] # <<>> /\ UNCHANGED queue
    BY <1>1 DEF FlushDrain, drain, dataVars
  <2> QED BY <2>1 DEF Sized, TypeOK
<1>2. CASE FlushSnapshot(w)
  <2>1. /\ flush[w] = "drained" /\ UNCHANGED queue
        /\ flush'[w] = "select" \/ (flush'[w] = "send" /\ batch'[w] = Cut(batch[w]))
        /\ \A v \in Workers \ {w} : flush'[v] = flush[v] /\ batch'[v] = batch[v]
    BY <1>2 DEF FlushSnapshot, TypeOK, dataVars
  <2>2. batch[w] \in Seq(Msgs) /\ batch[w] # <<>> BY <2>1 DEF Sized, TypeOK
  <2>3. Len(Cut(batch[w])) \in 1..MaxBatch BY <2>2, CutSize
  <2> QED BY <2>1, <2>3 DEF Sized
<1>3. CASE FlushExit(w)
  <2>1. \A v \in Workers : flush'[v] = flush[v] \/ flush'[v] \in {"select", "exited"}
    BY <1>3 DEF FlushExit, TypeOK
  <2> QED BY <1>3, <2>1, SizedQuiet DEF FlushExit, dataVars
<1>4. ASSUME NEW s \in Subs, FlushSend(w, s) PROVE Sized'
  <2>1. /\ flush[w] = "send"
        /\ queue' = [queue EXCEPT ![s] = IF Len(@) < SubscriberBuffer THEN Append(@, batch[w]) ELSE @]
    BY <1>4 DEF FlushSend, Offer
  <2>2. \A v \in Workers : (flush'[v] = flush[v] /\ batch'[v] = batch[v]) \/ flush'[v] = "select"
    BY <1>4 DEF FlushSend, TypeOK
  <2>3. Len(batch[w]) \in 1..MaxBatch BY <2>1 DEF Sized
  <2>4. queue[s] \in Seq(Seq(Msgs)) /\ batch[w] \in Seq(Msgs) BY DEF TypeOK
  <2>5. ASSUME NEW r \in Subs, NEW k \in DOMAIN queue'[r]
        PROVE  Len(queue'[r][k]) \in 1..MaxBatch
    <3>1. CASE queue'[r] = queue[r] BY <2>5, <3>1 DEF Sized
    <3>2. CASE r = s /\ queue'[s] = Append(queue[s], batch[w])
      <4>1. CASE k \in DOMAIN queue[s]
        <5>1. queue'[s][k] = queue[s][k] BY <2>4, <3>2, <4>1
        <5> QED BY <3>2, <4>1, <5>1 DEF Sized
      <4>2. CASE k = Len(queue[s]) + 1
        <5>1. queue'[s][k] = batch[w] BY <2>4, <3>2, <4>2
        <5> QED BY <2>3, <3>2, <5>1
      <4>3. k \in DOMAIN queue[s] \/ k = Len(queue[s]) + 1
        <5>1. DOMAIN queue'[s] = 1..(Len(queue[s]) + 1) /\ DOMAIN queue[s] = 1..Len(queue[s])
              /\ Len(queue[s]) \in Nat
          BY <2>4, <3>2
        <5> QED BY <2>5, <3>2, <5>1
      <4> QED BY <4>1, <4>2, <4>3
    <3> QED BY <2>1, <3>1, <3>2 DEF TypeOK
  <2> QED BY <2>2, <2>5 DEF Sized
<1> QED BY <1>1, <1>2, <1>3, <1>4 DEF Flusher

LEMMA SizedReceive ==
    ASSUME TypeOK, Sized, NEW s \in Subs, Receive(s)
    PROVE  Sized'
<1>1. /\ queue' = [queue EXCEPT ![s] = Tail(@)] /\ queue[s] # <<>>
      /\ UNCHANGED <<flush, batch>>
  BY DEF Receive, flushVars
<1>2. queue[s] \in Seq(Seq(Msgs)) BY DEF TypeOK
<1>3. ASSUME NEW r \in Subs, NEW k \in DOMAIN queue'[r]
      PROVE  Len(queue'[r][k]) \in 1..MaxBatch
  <2>1. CASE r # s
    <3>1. queue'[r] = queue[r] BY <1>1, <2>1 DEF TypeOK
    <3> QED BY <1>3, <3>1 DEF Sized
  <2>2. CASE r = s
    <3>1. queue'[s] = Tail(queue[s]) BY <1>1 DEF TypeOK
    <3>2. k + 1 \in DOMAIN queue[s] /\ queue'[s][k] = queue[s][k + 1]
      <4>1. Len(queue[s]) \in Nat /\ Len(queue[s]) # 0 BY <1>1, <1>2
      <4>2. Len(Tail(queue[s])) = Len(queue[s]) - 1 /\ Tail(queue[s]) \in Seq(Seq(Msgs))
        BY <1>1, <1>2
      <4>3. k \in 1..(Len(queue[s]) - 1) BY <1>3, <2>2, <3>1, <4>2
      <4>4. k + 1 \in DOMAIN queue[s] BY <1>2, <4>1, <4>3
      <4>5. Tail(queue[s])[k] = queue[s][k + 1] BY <1>1, <1>2, <4>1, <4>3
      <4> QED BY <3>1, <4>4, <4>5
    <3> QED BY <2>2, <3>2 DEF Sized
  <2> QED BY <2>1, <2>2
<1> QED BY <1>1, <1>3 DEF Sized

LEMMA SizedStep == IInv /\ Sized /\ [Next]_vars => Sized'
<1> SUFFICES ASSUME IInv, Sized, [Next]_vars PROVE Sized'
  OBVIOUS
<1>0. TypeOK BY DEF IInv
<1> USE DEF hubVars, lifeVars, flushVars, subVars, dataVars, feedVars
<1>1. ASSUME NEW s \in Subs, Handler(s) PROVE Sized'
  <2>1. CASE Receive(s) BY <1>0, <2>1, SizedReceive
  <2>2. ASSUME NEW id \in ChannelIDs, SubscribeFirst(s, id) PROVE Sized'
    <3>1. \A v \in Workers : flush'[v] = flush[v] \/ flush'[v] = "select"
      BY <1>0, <2>2 DEF SubscribeFirst, startChannel, TypeOK
    <3> QED BY <1>0, <2>2, <3>1, SizedQuiet DEF SubscribeFirst
  <2>3. ASSUME NEW id \in ChannelIDs, SubscribeMore(s, id) \/ Refuse(s, id) PROVE Sized'
    BY <1>0, <2>3, SizedQuiet DEF SubscribeMore, Refuse
  <2>4. CASE Disconnect(s) \/ EndOfStream(s) \/ Unsubscribe(s)
    BY <1>0, <2>4, SizedQuiet DEF Disconnect, EndOfStream, Unsubscribe
  <2> QED BY <1>1, <2>1, <2>2, <2>3, <2>4 DEF Handler
<1>2. ASSUME NEW w \in Workers, Flusher(w) PROVE Sized' BY <1>0, <1>2, SizedFlush
<1>3. ASSUME NEW w \in Workers, Timer(w) \/ Ingest(w) \/ IngestExit(w) PROVE Sized'
  BY <1>0, <1>3, SizedQuiet
     DEF Timer, TimerFires, TimerRuns, LateTimerRuns, Ingest, IngestExit
<1>4. CASE Injector \/ Closer
  BY <1>0, <1>4, SizedQuiet
     DEF Injector, InjectPush, InjectLookup, Closer, CloseBegin, CloseCancel, CloseWait,
         CloseReturn, CloseSub
<1>5. CASE UNCHANGED vars BY <1>0, <1>5, SizedQuiet DEF vars
<1> QED BY <1>1, <1>2, <1>3, <1>4, <1>5 DEF Next, Terminated

\* A worker keeps its channel id.
LEMMA StartedStays ==
    ASSUME IInv, [Next]_vars, NEW w \in Workers, Started(w)
    PROVE  Started(w)' /\ idOf'[w] = idOf[w]
<1>0. TypeOK BY DEF IInv
<1>1. ASSUME NEW s \in Subs, NEW id \in ChannelIDs, SubscribeFirst(s, id) PROVE idOf'[w] = idOf[w]
  <2>1. PICK v \in Workers : startChannel(v, id) BY <1>1 DEF SubscribeFirst
  <2>2. v # w BY <2>1 DEF startChannel, Started
  <2>3. idOf' = [idOf EXCEPT ![v] = id] BY <2>1 DEF startChannel
  <2>4. idOf \in [Workers -> ChannelIDs \cup {None}] BY <1>0 DEF TypeOK
  <2> QED BY <2>2, <2>3, <2>4
<1>2. CASE UNCHANGED idOf BY <1>2 DEF Started
<1>3. (\E s \in Subs, id \in ChannelIDs : SubscribeFirst(s, id)) \/ UNCHANGED idOf
  BY DEF Next, Handler, SubscribeMore, Refuse, Receive, Disconnect, EndOfStream, Unsubscribe,
         Timer, TimerFires, TimerRuns, LateTimerRuns, Ingest, IngestExit, Flusher, FlushDrain,
         FlushSnapshot, FlushExit, FlushSend, Injector, InjectPush, InjectLookup, Closer,
         CloseBegin, CloseCancel, CloseWait, CloseReturn, CloseSub, Terminated, vars, lifeVars
<1> QED BY <1>1, <1>2, <1>3 DEF Started

LEMMA NamedQuiet ==
    ASSUME IInv, Named, [Next]_vars, UNCHANGED <<arrived, inject, chanOf>>
    PROVE  Named'
<1>1. \A w \in Workers : Started(w) => Started(w)' BY StartedStays
<1>2. TypeOK BY DEF IInv
<1>3. \A m \in DOMAIN arrived : arrived[m] \in Workers BY <1>2 DEF TypeOK
<1>4. \A s \in Subs : chanOf[s] # None => chanOf[s] \in Workers BY <1>2 DEF TypeOK
<1>5. inject # None => inject \in Workers BY <1>2 DEF TypeOK
<1> QED BY <1>1, <1>3, <1>4, <1>5 DEF Named

LEMMA NamedPush ==
    ASSUME IInv, Named, NEW w \in Workers, push(w), Started(w),
           inject' \in {None, inject}, UNCHANGED <<idOf, chanOf>>
    PROVE  Named'
<1>1. arrived \in Seq(Workers) /\ arrived' = Append(arrived, w) BY DEF IInv, TypeOK, push
<1>2. ASSUME NEW m \in DOMAIN arrived' PROVE Started(arrived'[m])
  <2>1. CASE m \in DOMAIN arrived
    <3>1. arrived'[m] = arrived[m] BY <1>1, <2>1
    <3> QED BY <2>1, <3>1 DEF Named
  <2>2. CASE m = Len(arrived) + 1
    <3>1. arrived'[m] = w BY <1>1, <2>2
    <3> QED BY <3>1
  <2>3. DOMAIN arrived' = 1..(Len(arrived) + 1) /\ DOMAIN arrived = 1..Len(arrived)
        /\ Len(arrived) \in Nat
    BY <1>1
  <2> QED BY <1>2, <2>1, <2>2, <2>3
<1>3. inject' # None => Started(inject') BY DEF Named
<1>4. \A s \in Subs : chanOf'[s] # None => Started(chanOf'[s]) BY DEF Named
<1> QED BY <1>2, <1>3, <1>4 DEF Named, Started

LEMMA NamedAdmit ==
    ASSUME IInv, Named, [Next]_vars, NEW s \in Subs, NEW w \in Workers, Admit(s, w), Started(w)',
           UNCHANGED <<arrived, inject>>
    PROVE  Named'
<1>1. \A v \in Workers : Started(v) => Started(v)' BY StartedStays
<1>2. TypeOK BY DEF IInv
<1>3. \A m \in DOMAIN arrived : arrived[m] \in Workers BY <1>2 DEF TypeOK
<1>4. \A r \in Subs : chanOf[r] # None => chanOf[r] \in Workers BY <1>2 DEF TypeOK
<1>5. inject # None => inject \in Workers BY <1>2 DEF TypeOK
<1>6. chanOf'[s] = w /\ \A r \in Subs \ {s} : chanOf'[r] = chanOf[r] BY <1>2 DEF Admit, TypeOK
<1> QED BY <1>1, <1>3, <1>4, <1>5, <1>6 DEF Named

LEMMA NamedStep == IInv /\ Named /\ [Next]_vars => Named'
<1> SUFFICES ASSUME IInv, Named, [Next]_vars PROVE Named'
  OBVIOUS
<1>0. TypeOK /\ Wiring /\ Goroutines BY DEF IInv
<1>1. ASSUME NEW s \in Subs, NEW id \in ChannelIDs, SubscribeFirst(s, id) PROVE Named'
  <2>1. PICK w \in Workers : startChannel(w, id) /\ Admit(s, w) BY <1>1 DEF SubscribeFirst
  <2>2. Started(w)' BY <1>0, <2>1 DEF startChannel, Started, TypeOK
  <2> QED BY <1>1, <2>1, <2>2, NamedAdmit DEF SubscribeFirst, feedVars
<1>2. ASSUME NEW s \in Subs, NEW id \in ChannelIDs, SubscribeMore(s, id) PROVE Named'
  <2>1. channels[id] \in Workers /\ idOf[channels[id]] = id
    BY <1>0, <1>2 DEF SubscribeMore, TypeOK, Wiring
  <2>2. Started(channels[id])' BY <1>2, <2>1 DEF SubscribeMore, Started
  <2> QED BY <1>2, <2>1, <2>2, NamedAdmit DEF SubscribeMore, feedVars
<1>3. ASSUME NEW w \in Workers, Ingest(w) PROVE Named'
  <2>1. Started(w) BY <1>0, <1>3 DEF Ingest, Goroutines
  <2> QED BY <1>3, <2>1, NamedPush DEF Ingest, lifeVars, subVars
<1>4. CASE InjectPush
  <2>1. inject \in Workers /\ Started(inject) BY <1>0, <1>4 DEF InjectPush, TypeOK, Named
  <2> QED BY <1>4, <2>1, NamedPush DEF InjectPush, lifeVars, subVars
<1>5. ASSUME NEW id \in ChannelIDs, InjectLookup(id) PROVE Named'
  <2>1. inject' = channels[id] /\ channels[id] # None /\ idOf[channels[id]] = id
        /\ UNCHANGED <<idOf, arrived, chanOf>>
    BY <1>0, <1>5 DEF InjectLookup, Wiring, lifeVars, subVars
  <2> QED BY <2>1 DEF Named, Started
<1>6. CASE UNCHANGED <<arrived, inject, chanOf>> BY <1>6, NamedQuiet
<1>7. \/ \E s \in Subs, id \in ChannelIDs : SubscribeFirst(s, id) \/ SubscribeMore(s, id)
      \/ (\E w \in Workers : Ingest(w)) \/ InjectPush \/ (\E id \in ChannelIDs : InjectLookup(id))
      \/ UNCHANGED <<arrived, inject, chanOf>>
  BY DEF Next, Handler, Refuse, Receive, Disconnect, EndOfStream, Unsubscribe,
         Timer, TimerFires, TimerRuns, LateTimerRuns, IngestExit, Flusher, FlushDrain,
         FlushSnapshot, FlushExit, FlushSend, Injector, Closer,
         CloseBegin, CloseCancel, CloseWait, CloseReturn, CloseSub, Terminated, vars, subVars,
         feedVars
<1> QED BY <1>1, <1>2, <1>3, <1>4, <1>5, <1>6, <1>7

-----------------------------------------------------------------------------
LEMMA FeedInit == Init => Feed!Init
<1> SUFFICES ASSUME Init PROVE Feed!Init
  OBVIOUS
<1>1. FeedLog = <<>> BY DEF Init, FeedLog
<1>2. FeedOf = [s \in Subs |-> None] BY DEF Init, FeedOf
<1>3. FeedStates = [s \in Subs |-> "new"] BY DEF Init, FeedStates, FeedState
<1>4. seen = [s \in Subs |-> <<>>] /\ closed = FALSE BY DEF Init, closed
<1> QED BY <1>1, <1>2, <1>3, <1>4 DEF Feed!Init

\* The log and the feeds depend on messages and widgets only, not on workers
\* started since.
LEMMA SameLog ==
    ASSUME IInv, Named, [Next]_vars, UNCHANGED arrived
    PROVE  FeedLog' = FeedLog
<1>1. \A m \in 1..Len(arrived) : arrived[m] \in Workers /\ Started(arrived[m])
  BY DEF Named, IInv, TypeOK
<1>2. \A m \in 1..Len(arrived) : idOf'[arrived[m]] = idOf[arrived[m]] BY <1>1, StartedStays
<1> QED BY <1>2 DEF FeedLog

LEMMA SameFeed ==
    ASSUME IInv, Named, [Next]_vars, NEW s \in Subs, chanOf'[s] = chanOf[s]
    PROVE  FeedOf'[s] = FeedOf[s]
<1>1. CASE chanOf[s] = None BY <1>1 DEF FeedOf
<1>2. CASE chanOf[s] # None
  <2>1. chanOf[s] \in Workers /\ Started(chanOf[s]) BY <1>2 DEF Named, IInv, TypeOK
  <2>2. idOf'[chanOf[s]] = idOf[chanOf[s]] BY <2>1, StartedStays
  <2> QED BY <1>2, <2>2 DEF FeedOf
<1> QED BY <1>1, <1>2

LEMMA SameFeeds ==
    ASSUME IInv, Named, [Next]_vars, UNCHANGED chanOf
    PROVE  FeedOf' = FeedOf
<1>1. \A s \in Subs : FeedOf'[s] = FeedOf[s] BY SameFeed
<1> QED BY <1>1 DEF FeedOf

\* A step that ChatFeed does not see.
LEMMA FeedQuiet ==
    ASSUME IInv, Named, [Next]_vars, UNCHANGED <<arrived, chanOf, widget, seen>>, closed' = closed
    PROVE  UNCHANGED Feed!vars
<1>1. FeedStates' = FeedStates BY DEF FeedStates, FeedState
<1> QED BY <1>1, SameLog, SameFeeds DEF Feed!vars

LEMMA FeedOpen ==
    ASSUME IInv, Named, [Next]_vars, NEW s \in Subs, NEW w \in Workers, NEW id \in ChannelIDs,
           widget[s] = "new", ~closed, Admit(s, w), idOf'[w] = id,
           UNCHANGED <<arrived, seen, closer>>
    PROVE  Feed!Open(s, id)
<1>0. TypeOK BY DEF IInv
<1>1. /\ chanOf' = [chanOf EXCEPT ![s] = w] /\ widget' = [widget EXCEPT ![s] = "streaming"]
      /\ w # None
  BY DEF Admit
<1>2. FeedStates' = [FeedStates EXCEPT ![s] = "open"] /\ FeedStates[s] = "new"
  BY <1>0, <1>1 DEF FeedStates, FeedState, TypeOK
<1>3. FeedOf' = [FeedOf EXCEPT ![s] = id]
  <2>1. \A r \in Subs \ {s} : FeedOf'[r] = FeedOf[r]
    <3>1. \A r \in Subs \ {s} : chanOf'[r] = chanOf[r] BY <1>0, <1>1 DEF TypeOK
    <3> QED BY <3>1, SameFeed
  <2>2. FeedOf'[s] = id
    <3>1. chanOf'[s] = w BY <1>0, <1>1 DEF TypeOK
    <3> QED BY <1>1, <3>1 DEF FeedOf
  <2>3. /\ FeedOf' = [r \in Subs |-> FeedOf'[r]]
        /\ FeedOf = [r \in Subs |-> FeedOf[r]]
    BY DEF FeedOf
  <2> QED BY <2>1, <2>2, <2>3
<1>4. closed' = closed BY DEF closed
<1> QED BY <1>2, <1>3, <1>4, SameLog DEF Feed!Open

LEMMA FeedArrive ==
    ASSUME IInv, Named, [Next]_vars, NEW w \in Workers, push(w), Started(w),
           UNCHANGED <<idOf, chanOf, widget, seen, closer>>
    PROVE  \E id \in ChannelIDs : Feed!Arrive(id)
<1>0. TypeOK BY DEF IInv
<1>1. idOf[w] \in ChannelIDs BY <1>0 DEF Started, TypeOK
<1>2. arrived \in Seq(Workers) /\ arrived' = Append(arrived, w) BY <1>0 DEF TypeOK, push
<1>3. FeedLog' = Append(FeedLog, idOf[w])
  <2>1. /\ Len(arrived') = Len(arrived) + 1 /\ Len(arrived) \in Nat
        /\ arrived'[Len(arrived) + 1] = w
        /\ \A m \in 1..Len(arrived) : arrived'[m] = arrived[m]
    BY <1>2
  <2>2. FeedLog \in Seq(ChannelIDs) /\ Len(FeedLog) = Len(arrived)
    <3>1. \A m \in 1..Len(arrived) : idOf[arrived[m]] \in ChannelIDs
      BY <1>0 DEF Named, Started, TypeOK
    <3> QED BY <2>1, <3>1 DEF FeedLog
  <2>3. Append(FeedLog, idOf[w]) =
          [m \in 1..(Len(FeedLog) + 1) |-> IF m \in 1..Len(FeedLog) THEN FeedLog[m] ELSE idOf[w]]
    BY <1>1, <2>2
  <2>4. \A m \in 1..(Len(arrived) + 1) :
           idOf[arrived'[m]] = IF m \in 1..Len(arrived) THEN FeedLog[m] ELSE idOf[w]
    BY <2>1 DEF FeedLog
  <2>5. FeedLog' = [m \in 1..(Len(arrived) + 1) |-> idOf[arrived'[m]]] BY <2>1 DEF FeedLog
  <2> QED BY <2>2, <2>3, <2>4, <2>5
<1>4. FeedStates' = FeedStates /\ closed' = closed BY DEF FeedStates, FeedState, closed
<1>5. Feed!Arrive(idOf[w]) BY <1>3, <1>4, SameFeeds DEF Feed!Arrive
<1> QED BY <1>1, <1>5

\* The new messages of a batch follow each other and the ones shown before.
LEMMA FeedShow ==
    ASSUME IInv, IInv', Named, Sized, Ordered, Ordered', [Next]_vars, NEW s \in Subs, Receive(s)
    PROVE  Feed!Show(s)
<1>0. TypeOK /\ TypeOK' /\ Wiring BY DEF IInv
<1>1. /\ widget[s] = "streaming" /\ queue[s] # <<>>
      /\ seen' = [seen EXCEPT ![s] = @ \o Head(queue[s])]
      /\ UNCHANGED <<arrived, idOf, chanOf, widget, closer>>
  BY DEF Receive, hubVars, lifeVars, subVars, feedVars
<1>2. /\ queue[s] \in Seq(Seq(Msgs)) /\ seen[s] \in Seq(Msgs) /\ seen'[s] \in Seq(Msgs)
      /\ chanOf[s] \in Workers /\ chanOf[s] # None
  BY <1>0, <1>1 DEF TypeOK, Wiring
<1>3. PICK b \in Seq(Msgs) : seen'[s] = seen[s] \o b /\ Len(b) \in 1..MaxBatch
  <2>1. Len(queue[s]) \in Nat /\ Len(queue[s]) # 0 BY <1>1, <1>2
  <2>2. 1 \in DOMAIN queue[s] BY <1>2, <2>1
  <2>3. Head(queue[s]) = queue[s][1] /\ queue[s][1] \in Seq(Msgs) BY <1>2, <2>2
  <2>4. Len(queue[s][1]) \in 1..MaxBatch BY <2>2 DEF Sized
  <2>5. seen'[s] = seen[s] \o queue[s][1] BY <1>0, <1>1, <2>3 DEF TypeOK
  <2> QED BY <2>3, <2>4, <2>5
<1>4. /\ Len(seen'[s]) = Len(seen[s]) + Len(b)
      /\ \A i \in DOMAIN seen[s] : seen'[s][i] = seen[s][i]
  BY <1>2, <1>3
<1>5. From(chanOf[s], seen'[s]) /\ Rising(seen'[s])
  <2>1. Line(s)' BY DEF Ordered
  <2>2. chanOf'[s] # None /\ chanOf'[s] = chanOf[s] BY <1>1, <1>2
  <2>3. 0 \in 0..Len(queue'[s]) /\ Piece(s, 0)' = seen'[s]
    <3>1. queue'[s] \in Seq(Seq(Msgs)) BY <1>0 DEF TypeOK
    <3>2. Len(queue'[s]) \in Nat BY <3>1
    <3> QED BY <3>2 DEF Piece
  <2>4. From(chanOf'[s], Piece(s, 0)') /\ Rising(Piece(s, 0)')
    BY <1>1, <2>1, <2>2, <2>3 DEF Line, From
  <2> QED BY <2>2, <2>3, <2>4
<1>6. DOMAIN seen'[s] = 1..Len(seen'[s]) /\ Len(seen'[s]) \in Nat /\ Len(seen[s]) \in Nat
  BY <1>2
<1>7. ASSUME NEW i \in (Len(seen[s]) + 1)..Len(seen'[s])
      PROVE  /\ seen'[s][i] \in DOMAIN FeedLog /\ FeedLog[seen'[s][i]] = FeedOf[s]
             /\ i > 1 => seen'[s][i - 1] < seen'[s][i]
  <2>1. i \in DOMAIN seen'[s] /\ (i > 1 => i - 1 \in DOMAIN seen'[s] /\ i - 1 < i) BY <1>6
  <2>2. seen'[s][i] \in DOMAIN arrived /\ arrived[seen'[s][i]] = chanOf[s]
    BY <1>5, <2>1 DEF From
  <2>3. DOMAIN arrived = 1..Len(arrived) BY <1>0 DEF TypeOK
  <2>4. FeedOf[s] = idOf[chanOf[s]] BY <1>2 DEF FeedOf
  <2> QED BY <1>5, <2>1, <2>2, <2>3, <2>4 DEF FeedLog, Rising
<1>8. FeedStates' = FeedStates /\ FeedStates[s] = "open" /\ closed' = closed
  BY <1>1 DEF FeedStates, FeedState, closed
<1>9. \A r \in Subs \ {s} : seen'[r] = seen[r] BY <1>0, <1>1 DEF TypeOK
<1>10. FeedLog' = FeedLog /\ FeedOf' = FeedOf BY <1>1, SameLog, SameFeeds
<1> QED BY <1>3, <1>4, <1>7, <1>8, <1>9, <1>10 DEF Feed!Show

\* One handler's control state changes, and with it that widget's feed only.
LEMMA StateMoves ==
    ASSUME TypeOK, NEW s \in Subs,
           NEW to \in {"new", "refused", "streaming", "leaving", "gone"},
           widget' = [widget EXCEPT ![s] = to]
    PROVE  FeedStates' =
             [FeedStates EXCEPT ![s] =
                IF to = "streaming" THEN "open"
                ELSE IF to \in {"leaving", "gone"} THEN "ended"
                ELSE IF to = "refused" THEN "rejected" ELSE "new"]
<1>1. widget'[s] = to /\ \A r \in Subs \ {s} : widget'[r] = widget[r] BY DEF TypeOK
<1>2. FeedState(s)' = IF to = "streaming" THEN "open"
                      ELSE IF to \in {"leaving", "gone"} THEN "ended"
                      ELSE IF to = "refused" THEN "rejected" ELSE "new"
  BY <1>1 DEF FeedState
<1>3. \A r \in Subs \ {s} : FeedState(r)' = FeedState(r) BY <1>1 DEF FeedState
<1> QED BY <1>2, <1>3 DEF FeedStates

LEMMA FeedStep ==
    ASSUME IInv, IInv', Named, Sized, Ordered, Ordered', [Next]_vars
    PROVE  [Feed!Next]_(Feed!vars)
<1>0. TypeOK /\ Wiring /\ Goroutines BY DEF IInv
<1> USE DEF hubVars, lifeVars, subVars, dataVars, feedVars
<1>1. ASSUME NEW s \in Subs, Handler(s) PROVE [Feed!Next]_(Feed!vars)
  <2>1. ASSUME NEW id \in ChannelIDs, SubscribeFirst(s, id) PROVE Feed!Next
    <3>1. PICK w \in Workers : startChannel(w, id) /\ Admit(s, w) BY <2>1 DEF SubscribeFirst
    <3>2. idOf'[w] = id BY <1>0, <3>1 DEF startChannel, TypeOK
    <3>3. Feed!Open(s, id) BY <2>1, <3>1, <3>2, FeedOpen DEF SubscribeFirst
    <3> QED BY <3>3 DEF Feed!Next
  <2>2. ASSUME NEW id \in ChannelIDs, SubscribeMore(s, id) PROVE Feed!Next
    <3>1. channels[id] \in Workers /\ idOf[channels[id]] = id
      BY <1>0, <2>2 DEF SubscribeMore, TypeOK, Wiring
    <3>2. Feed!Open(s, id) BY <2>2, <3>1, FeedOpen DEF SubscribeMore
    <3> QED BY <3>2 DEF Feed!Next
  <2>3. ASSUME NEW id \in ChannelIDs, Refuse(s, id) PROVE Feed!Next
    <3>1. FeedStates' = [FeedStates EXCEPT ![s] = "rejected"] /\ FeedStates[s] = "new"
      <4>1. widget[s] = "new" /\ widget' = [widget EXCEPT ![s] = "refused"] BY <2>3 DEF Refuse
      <4> QED BY <1>0, <4>1, StateMoves DEF FeedStates, FeedState
    <3>2. FeedLog' = FeedLog /\ FeedOf' = FeedOf /\ seen' = seen /\ closed' = closed
      BY <2>3, SameLog, SameFeeds DEF Refuse, closed
    <3>3. Feed!Reject(s) BY <3>1, <3>2 DEF Feed!Reject
    <3> QED BY <3>3 DEF Feed!Next
  <2>4. CASE Receive(s)
    <3>1. Feed!Show(s) BY <2>4, FeedShow
    <3> QED BY <3>1 DEF Feed!Next
  <2>5. CASE Disconnect(s) \/ EndOfStream(s)
    <3>1. FeedStates' = [FeedStates EXCEPT ![s] = "ended"] /\ FeedStates[s] = "open"
      <4>1. widget[s] = "streaming" /\ widget' = [widget EXCEPT ![s] = "leaving"]
        BY <2>5 DEF Disconnect, EndOfStream
      <4> QED BY <1>0, <4>1, StateMoves DEF FeedStates, FeedState
    <3>2. FeedLog' = FeedLog /\ FeedOf' = FeedOf /\ seen' = seen /\ closed' = closed
      BY <2>5, SameLog, SameFeeds DEF Disconnect, EndOfStream, closed
    <3>3. Feed!End(s) BY <3>1, <3>2 DEF Feed!End
    <3> QED BY <3>3 DEF Feed!Next
  <2>6. CASE Unsubscribe(s)
    <3>1. FeedStates' = FeedStates BY <1>0, <2>6 DEF Unsubscribe, FeedStates, FeedState, TypeOK
    <3>2. FeedLog' = FeedLog /\ FeedOf' = FeedOf /\ seen' = seen /\ closed' = closed
      BY <2>6, SameLog, SameFeeds DEF Unsubscribe, closed
    <3> QED BY <3>1, <3>2 DEF Feed!vars
  <2> QED BY <1>1, <2>1, <2>2, <2>3, <2>4, <2>5, <2>6 DEF Handler
<1>2. ASSUME NEW w \in Workers, Ingest(w) PROVE Feed!Next
  <2>1. Started(w) BY <1>0, <1>2 DEF Ingest, Goroutines
  <2> QED BY <1>2, <2>1, FeedArrive DEF Ingest, Feed!Next
<1>3. CASE InjectPush
  <2>1. inject \in Workers /\ Started(inject) BY <1>0, <1>3 DEF InjectPush, TypeOK, Named
  <2> QED BY <1>3, <2>1, FeedArrive DEF InjectPush, Feed!Next
<1>4. CASE CloseBegin
  <2>1. closed' = TRUE /\ UNCHANGED <<arrived, chanOf, widget, seen>>
    BY <1>4 DEF CloseBegin, closed
  <2>2. FeedStates' = FeedStates BY <2>1 DEF FeedStates, FeedState
  <2>3. Feed!Stop BY <2>1, <2>2, SameLog, SameFeeds DEF Feed!Stop
  <2> QED BY <2>3 DEF Feed!Next
<1>5. CASE CloseCancel \/ CloseWait \/ CloseReturn \/ \E s \in Subs : CloseSub(s)
  <2>1. closed' = closed /\ UNCHANGED <<arrived, chanOf, widget, seen>>
    BY <1>5 DEF CloseCancel, CloseWait, CloseReturn, CloseSub, closed
  <2> QED BY <2>1, FeedQuiet
<1>6. ASSUME NEW w \in Workers, Timer(w) \/ IngestExit(w) \/ Flusher(w) PROVE [Feed!Next]_(Feed!vars)
  <2>1. UNCHANGED <<closer, arrived, chanOf, widget, seen>>
    BY <1>6 DEF Timer, TimerFires, TimerRuns, LateTimerRuns, IngestExit, Flusher, FlushDrain,
                FlushSnapshot, FlushExit, FlushSend
  <2> QED BY <2>1, FeedQuiet DEF closed
<1>7. ASSUME NEW id \in ChannelIDs, InjectLookup(id) PROVE [Feed!Next]_(Feed!vars)
  <2>1. UNCHANGED <<closer, arrived, chanOf, widget, seen>> BY <1>7 DEF InjectLookup
  <2> QED BY <2>1, FeedQuiet DEF closed
<1>8. CASE UNCHANGED vars
  <2>1. UNCHANGED <<closer, arrived, chanOf, widget, seen>> BY <1>8 DEF vars
  <2> QED BY <2>1, FeedQuiet DEF closed
<1> QED BY <1>1, <1>2, <1>3, <1>4, <1>5, <1>6, <1>7, <1>8
        DEF Next, Injector, Closer, Terminated

\* What the widgets of the hub show is a ChatFeed: the hub's workers, timers,
\* buffers and queues implement the abstract specification, for every value of
\* the constants (its fairness is checked by the run only).
THEOREM HubImplementsChatFeed == Spec => ImplementsChatFeed
<1>1. IInv /\ Ordered /\ Sized /\ Named /\ [Next]_vars => (IInv /\ Ordered /\ Sized /\ Named)'
  BY IInvStep, OrderStep, SizedStep, NamedStep
<1>2. Init => IInv /\ Ordered /\ Sized /\ Named BY IInvInit, OrderInit, SizedInit
<1>3. IInv /\ IInv' /\ Named /\ Sized /\ Ordered /\ Ordered' /\ [Next]_vars
         => [Feed!Next]_(Feed!vars)
  BY FeedStep
<1>4. Spec => Feed!Spec BY <1>1, <1>2, <1>3, FeedInit, PTL DEF Spec, Feed!Spec
<1> QED BY <1>4 DEF ImplementsChatFeed
=============================================================================
