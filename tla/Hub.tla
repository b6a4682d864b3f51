-------------------------------- MODULE Hub --------------------------------
(***************************************************************************)
(* The chat fan-out of internal/realtime/hub.go together with the SSE      *)
(* handlers of internal/web/widget.go that use it.                         *)
(*                                                                         *)
(* A worker is one *channel value: the goroutines ingest and flushLoop, a  *)
(* buffer, a set of subscribers and a teardown timer.  A channel id may    *)
(* have several workers over time, and a cancelled one may still be        *)
(* finishing while its successor runs.  Each step below is one critical    *)
(* section of Hub.mu or bufMu, one channel operation, or one runtime event *)
(* (a timer expiring, a context seen as done), so every interleaving of    *)
(* handlers, timers, workers and Close is a behaviour.                     *)
(*                                                                         *)
(* A chat message is its arrival number, the position in `arrived'.        *)
(***************************************************************************)
EXTENDS Naturals, FiniteSets, Sequences

CONSTANTS
    ChannelIDs,        \* ids of streamers who have logged in
    Workers,           \* *channel values, each used once
    Subs,              \* widget requests, each with one *Subscription
    None,              \* nil
    MaxPerChannel, MaxTotal,   \* Config.MaxPerChannel, Config.MaxTotal
    SubscriberBuffer,  \* capacity of Subscription.c
    MaxBatch,          \* messages kept of one flush
    MaxArrivals        \* bound of the model on chat messages

ASSUME HubAssumption ==
    /\ IsFiniteSet(Subs)
    /\ {MaxPerChannel, MaxTotal, SubscriberBuffer, MaxBatch} \subseteq Nat \ {0}
    /\ MaxArrivals \in Nat
    /\ None \notin ChannelIDs \cup Workers

VARIABLES
    \* Hub, guarded by mu
    channels,   \* id -> registered worker or None
    total,
    closer,     \* how far Close is; Hub.closed is closer # "open"
    toClose,    \* Close's local subs: channels it still has to close
    \* one *channel
    idOf,       \* worker -> its id, None before startChannel
    subs,
    timer,      \* the timer ch.teardown points to
    late,       \* callbacks of replaced timers that still wait for mu
    cancelled,  \* ch.cancel was called
    ingest,     \* the goroutine ingest
    flush,      \* the goroutine flushLoop
    buffer,
    batch, targets,   \* flushOnce's locals: messages and subscribers left
    \* one *Subscription and the handler that holds it
    chanOf,     \* sub.ch
    queue,      \* the batches in sub.c
    eof,        \* sub.c is closed
    widget,     \* control state of widgetStream
    seen,       \* the messages written to the client
    \* the world
    arrived,    \* the worker each message was pushed to, in order
    inject      \* Inject between its lookup and its push

hubVars   == <<channels, total, closer, toClose>>
lifeVars  == <<idOf, subs, timer, late, cancelled>>
flushVars == <<flush, batch, targets>>
subVars   == <<chanOf, widget>>
dataVars  == <<queue, eof, seen>>
feedVars  == <<buffer, arrived, inject>>
vars == <<hubVars, lifeVars, ingest, flushVars, subVars, dataVars, feedVars>>

Msgs == 1..MaxArrivals
closed == closer # "open"
\* Close cancels h.ctx, from which every worker's context derives.
Done(w) == cancelled[w] \/ closer \in {"wait", "close", "done"}

Init ==
    /\ channels = [id \in ChannelIDs |-> None]
    /\ total = 0
    /\ closer = "open"
    /\ toClose = {}
    /\ idOf = [w \in Workers |-> None]
    /\ subs = [w \in Workers |-> {}]
    /\ timer = [w \in Workers |-> "nil"]
    /\ late = [w \in Workers |-> 0]
    /\ cancelled = [w \in Workers |-> FALSE]
    /\ ingest = [w \in Workers |-> "off"]
    /\ flush = [w \in Workers |-> "off"]
    /\ buffer = [w \in Workers |-> <<>>]
    /\ batch = [w \in Workers |-> <<>>]
    /\ targets = [w \in Workers |-> {}]
    /\ chanOf = [s \in Subs |-> None]
    /\ queue = [s \in Subs |-> <<>>]
    /\ eof = [s \in Subs |-> FALSE]
    /\ widget = [s \in Subs |-> "new"]
    /\ seen = [s \in Subs |-> <<>>]
    /\ arrived = <<>>
    /\ inject = None

-----------------------------------------------------------------------------
(* widgetStream and the Hub methods it calls. *)

\* Fault: the caps are off by one.
OverCap(id) ==
    \/ total > MaxTotal
    \/ channels[id] # None /\ Cardinality(subs[channels[id]]) > MaxPerChannel

AtCap(id) ==
    \/ total >= MaxTotal
    \/ channels[id] # None /\ Cardinality(subs[channels[id]]) >= MaxPerChannel

Admit(s, w) ==
    /\ subs' = [subs EXCEPT ![w] = @ \cup {s}]
    /\ chanOf' = [chanOf EXCEPT ![s] = w]
    /\ total' = total + 1
    /\ widget' = [widget EXCEPT ![s] = "streaming"]

\* startChannel: the new worker's two goroutines run from here on.
startChannel(w, id) ==
    /\ idOf[w] = None
    /\ idOf' = [idOf EXCEPT ![w] = id]
    /\ channels' = [channels EXCEPT ![id] = w]
    /\ ingest' = [ingest EXCEPT ![w] = "run"]
    /\ flush' = [flush EXCEPT ![w] = "select"]

SubscribeFirst(s, id) ==
    /\ widget[s] = "new" /\ ~closed /\ ~AtCap(id)
    /\ channels[id] = None
    /\ \E w \in Workers : startChannel(w, id) /\ Admit(s, w)
    /\ UNCHANGED <<closer, toClose, timer, late, cancelled, batch, targets, dataVars, feedVars>>

\* ch.teardown.Stop() keeps an armed timer from firing; the callback of one
\* that has fired waits for mu and will run all the same.
StopTeardown(w) ==
    /\ timer' = [timer EXCEPT ![w] = "nil"]
    /\ late' = [late EXCEPT ![w] = IF timer[w] = "fired" THEN @ + 1 ELSE @]

SubscribeMore(s, id) ==
    /\ widget[s] = "new" /\ ~closed /\ ~AtCap(id)
    /\ channels[id] # None
    /\ StopTeardown(channels[id])
    /\ Admit(s, channels[id])
    /\ UNCHANGED <<channels, closer, toClose, idOf, cancelled, ingest, flushVars, dataVars, feedVars>>

\* ErrClosed and ErrTooManySubscribers both answer 503.
Refuse(s, id) ==
    /\ widget[s] = "new"
    /\ closed \/ AtCap(id)
    /\ widget' = [widget EXCEPT ![s] = "refused"]
    /\ UNCHANGED <<hubVars, lifeVars, ingest, flushVars, chanOf, dataVars, feedVars>>

\* The handler's select takes a batch and writes it in time.
Receive(s) ==
    /\ widget[s] = "streaming"
    /\ queue[s] # <<>>
    /\ seen' = [seen EXCEPT ![s] = @ \o Head(queue[s])]
    /\ queue' = [queue EXCEPT ![s] = Tail(@)]
    /\ UNCHANGED <<hubVars, lifeVars, ingest, flushVars, subVars, eof, feedVars>>

\* The client has gone, or a write (a batch, a keepalive) failed or timed out.
Disconnect(s) ==
    /\ widget[s] = "streaming"
    /\ widget' = [widget EXCEPT ![s] = "leaving"]
    /\ UNCHANGED <<hubVars, lifeVars, ingest, flushVars, chanOf, dataVars, feedVars>>

\* A closed channel still yields what it holds before it reports !ok.
EndOfStream(s) ==
    /\ widget[s] = "streaming"
    /\ eof[s] /\ queue[s] = <<>>
    /\ widget' = [widget EXCEPT ![s] = "leaving"]
    /\ UNCHANGED <<hubVars, lifeVars, ingest, flushVars, chanOf, dataVars, feedVars>>

\* Fault: the last subscriber to leave arms no timer.
NoTeardown(w) == UNCHANGED timer
ArmTeardown(w) == timer' = [timer EXCEPT ![w] = "armed"]

\* Close may have emptied the set before the handler gets here.
Subscribed(s) == s \in subs[chanOf[s]]

\* The deferred Unsubscribe.
Unsubscribe(s) ==
    LET w == chanOf[s] IN
    /\ widget[s] = "leaving"
    /\ widget' = [widget EXCEPT ![s] = "gone"]
    /\ IF Subscribed(s)
       THEN /\ subs' = [subs EXCEPT ![w] = @ \ {s}]
            /\ total' = total - 1
            /\ IF subs'[w] # {} \/ closed THEN UNCHANGED timer ELSE ArmTeardown(w)
       ELSE UNCHANGED <<subs, total, timer>>
    /\ UNCHANGED <<channels, closer, toClose, idOf, late, cancelled, ingest, flushVars,
                   chanOf, dataVars, feedVars>>

-----------------------------------------------------------------------------
(* The teardown timer. *)

TimerFires(w) ==
    /\ timer[w] = "armed"
    /\ timer' = [timer EXCEPT ![w] = "fired"]
    /\ UNCHANGED <<hubVars, idOf, subs, late, cancelled, ingest, flushVars, subVars, dataVars, feedVars>>

\* Fault: the callback does not look at the subscribers again.
StillRegistered(w) == channels[idOf[w]] = w
StillIdle(w) == subs[w] = {} /\ channels[idOf[w]] = w

\* Fault: the worker leaves the map but is not cancelled.
Forget(w) ==
    /\ channels' = IF StillIdle(w) THEN [channels EXCEPT ![idOf[w]] = None] ELSE channels
    /\ UNCHANGED cancelled
\* The body of the callback.
TearDown(w) ==
    IF StillIdle(w)
    THEN /\ channels' = [channels EXCEPT ![idOf[w]] = None]
         /\ cancelled' = [cancelled EXCEPT ![w] = TRUE]
    ELSE UNCHANGED <<channels, cancelled>>

TimerRuns(w) ==
    /\ timer[w] = "fired"
    /\ timer' = [timer EXCEPT ![w] = "ran"]
    /\ TearDown(w)
    /\ UNCHANGED <<total, closer, toClose, idOf, subs, late, ingest, flushVars, subVars, dataVars, feedVars>>

\* The callback of a timer that Subscribe stopped too late.
LateTimerRuns(w) ==
    /\ late[w] > 0
    /\ late' = [late EXCEPT ![w] = @ - 1]
    /\ TearDown(w)
    /\ UNCHANGED <<total, closer, toClose, idOf, subs, timer, ingest, flushVars, subVars, dataVars, feedVars>>

-----------------------------------------------------------------------------
(* The worker's goroutines. *)

push(w) ==
    /\ Len(arrived) < MaxArrivals
    /\ arrived' = Append(arrived, w)
    /\ buffer' = [buffer EXCEPT ![w] = Append(@, Len(arrived'))]

\* A CHAT event; the read loop may handle one more after its context is done.
Ingest(w) ==
    /\ ingest[w] = "run"
    /\ push(w)
    /\ UNCHANGED <<hubVars, lifeVars, ingest, flushVars, subVars, dataVars, inject>>

IngestExit(w) ==
    /\ ingest[w] = "run" /\ Done(w)
    /\ ingest' = [ingest EXCEPT ![w] = "exited"]
    /\ UNCHANGED <<hubVars, lifeVars, flushVars, subVars, dataVars, feedVars>>

\* Inject (dev only) looks the worker up under mu and pushes after unlocking.
InjectLookup(id) ==
    /\ inject = None
    /\ channels[id] # None
    /\ inject' = channels[id]
    /\ UNCHANGED <<hubVars, lifeVars, ingest, flushVars, subVars, dataVars, buffer, arrived>>

InjectPush ==
    /\ inject # None
    /\ push(inject)
    /\ inject' = None
    /\ UNCHANGED <<hubVars, lifeVars, ingest, flushVars, subVars, dataVars>>

\* Fault: the buffer is read and not emptied.
Peek(w) ==
    /\ batch' = [batch EXCEPT ![w] = buffer[w]]
    /\ UNCHANGED buffer
drain(w) ==
    /\ batch' = [batch EXCEPT ![w] = buffer[w]]
    /\ buffer' = [buffer EXCEPT ![w] = <<>>]

\* A tick: drain.  The select may take it although the context is done.
FlushDrain(w) ==
    /\ flush[w] = "select"
    /\ buffer[w] # <<>>
    /\ drain(w)
    /\ flush' = [flush EXCEPT ![w] = "drained"]
    /\ UNCHANGED <<hubVars, lifeVars, ingest, targets, subVars, dataVars, arrived, inject>>

Cut(b) == IF Len(b) > MaxBatch THEN SubSeq(b, 1, MaxBatch) ELSE b

\* subscribers, then buildBatch; without subscribers the messages are dropped.
FlushSnapshot(w) ==
    /\ flush[w] = "drained"
    /\ targets' = [targets EXCEPT ![w] = subs[w]]
    /\ flush' = [flush EXCEPT ![w] = IF subs[w] = {} THEN "select" ELSE "send"]
    /\ batch' = [batch EXCEPT ![w] = IF subs[w] = {} THEN <<>> ELSE Cut(@)]
    /\ UNCHANGED <<hubVars, lifeVars, ingest, subVars, dataVars, feedVars>>

\* Fault: the send blocks when the queue is full.
BlockingOffer(s, b) ==
    Len(queue[s]) < SubscriberBuffer /\ queue' = [queue EXCEPT ![s] = Append(@, b)]
\* Fault: the last slot of the queue is not used.
ShortOffer(s, b) ==
    queue' = [queue EXCEPT ![s] = IF Len(@) + 1 < SubscriberBuffer THEN Append(@, b) ELSE @]
Offer(s, b) ==
    queue' = [queue EXCEPT ![s] = IF Len(@) < SubscriberBuffer THEN Append(@, b) ELSE @]

\* One non-blocking send; map order is arbitrary.  On a closed channel it
\* would panic: NoSendOnClosed says that it never comes to that.
FlushSend(w, s) ==
    /\ flush[w] = "send" /\ s \in targets[w]
    /\ Offer(s, batch[w])
    /\ targets' = [targets EXCEPT ![w] = @ \ {s}]
    /\ IF targets'[w] = {}
       THEN /\ flush' = [flush EXCEPT ![w] = "select"]
            /\ batch' = [batch EXCEPT ![w] = <<>>]
       ELSE UNCHANGED <<flush, batch>>
    /\ UNCHANGED <<hubVars, lifeVars, ingest, subVars, eof, seen, feedVars>>

FlushExit(w) ==
    /\ flush[w] = "select" /\ Done(w)
    /\ flush' = [flush EXCEPT ![w] = "exited"]
    /\ UNCHANGED <<hubVars, lifeVars, ingest, batch, targets, subVars, dataVars, feedVars>>

-----------------------------------------------------------------------------
(* Close; a second call finds closed set and returns. *)

\* Fault: the subscribers are collected after the sets were emptied.
CollectedLate == {}
\* The subscriptions of the registered workers.
Collected == UNION {subs[channels[id]] : id \in {i \in ChannelIDs : channels[i] # None}}

CloseBegin ==
    /\ ~closed
    /\ closer' = "cancel"
    /\ toClose' = Collected
    /\ LET live == {w \in Workers : \E id \in ChannelIDs : channels[id] = w} IN
       /\ subs' = [w \in Workers |-> IF w \in live THEN {} ELSE subs[w]]
       /\ timer' = [w \in Workers |->
                      IF w \in live /\ timer[w] = "armed" THEN "stopped" ELSE timer[w]]
    /\ channels' = [id \in ChannelIDs |-> None]
    /\ total' = 0
    /\ UNCHANGED <<idOf, late, cancelled, ingest, flushVars, subVars, dataVars, feedVars>>

\* h.cancel() makes Done true for every worker.
CloseCancel ==
    /\ closer = "cancel"
    /\ closer' = "wait"
    /\ UNCHANGED <<channels, total, toClose, lifeVars, ingest, flushVars, subVars, dataVars, feedVars>>

\* Fault: wg counts the ingest goroutines only.
IngestExited == \A w \in Workers : ingest[w] # "run"
WorkersExited == \A w \in Workers : ingest[w] # "run" /\ flush[w] \in {"off", "exited"}

\* h.wg.Wait() returns.
CloseWait ==
    /\ closer = "wait"
    /\ WorkersExited
    /\ closer' = "close"
    /\ UNCHANGED <<channels, total, toClose, lifeVars, ingest, flushVars, subVars, dataVars, feedVars>>

CloseSub(s) ==
    /\ closer = "close" /\ s \in toClose
    /\ eof' = [eof EXCEPT ![s] = TRUE]
    /\ toClose' = toClose \ {s}
    /\ UNCHANGED <<channels, total, closer, lifeVars, ingest, flushVars, subVars, queue, seen, feedVars>>

CloseReturn ==
    /\ closer = "close" /\ toClose = {}
    /\ closer' = "done"
    /\ UNCHANGED <<channels, total, toClose, lifeVars, ingest, flushVars, subVars, dataVars, feedVars>>

-----------------------------------------------------------------------------
Handler(s) ==
    \/ \E id \in ChannelIDs : SubscribeFirst(s, id) \/ SubscribeMore(s, id) \/ Refuse(s, id)
    \/ Receive(s) \/ Disconnect(s) \/ EndOfStream(s) \/ Unsubscribe(s)

Timer(w) == TimerFires(w) \/ TimerRuns(w) \/ LateTimerRuns(w)

Flusher(w) ==
    \/ FlushDrain(w) \/ FlushSnapshot(w) \/ FlushExit(w)
    \/ \E s \in Subs : FlushSend(w, s)

\* The development endpoint that calls Inject.
Injector == InjectPush \/ \E id \in ChannelIDs : InjectLookup(id)

Closer ==
    \/ CloseBegin \/ CloseCancel \/ CloseWait \/ CloseReturn
    \/ \E s \in Subs : CloseSub(s)

\* The process has shut down in order: nothing is left to run.
Terminated ==
    /\ closer = "done"
    /\ \A s \in Subs : widget[s] \in {"gone", "refused"}
    /\ UNCHANGED vars

Next ==
    \/ \E s \in Subs : Handler(s)
    \/ \E w \in Workers : Timer(w) \/ Ingest(w) \/ IngestExit(w) \/ Flusher(w)
    \/ Injector \/ Closer \/ Terminated

Spec == Init /\ [][Next]_vars

\* Goroutines that can run are run, timers fire, network calls honour their
\* context.  Nothing forces chat to arrive, a widget to connect or leave, or
\* the process to shut down.
Fairness ==
    /\ \A s \in Subs :
          /\ WF_vars(Receive(s) \/ EndOfStream(s))
          /\ WF_vars(Unsubscribe(s))
          /\ WF_vars(CloseSub(s))
    /\ \A w \in Workers :
          /\ WF_vars(TimerFires(w)) /\ WF_vars(TimerRuns(w)) /\ WF_vars(LateTimerRuns(w))
          /\ WF_vars(IngestExit(w)) /\ WF_vars(Flusher(w))
    /\ WF_vars(CloseCancel \/ CloseWait \/ CloseReturn)

FairSpec == Spec /\ Fairness

-----------------------------------------------------------------------------
TimerStates == {"nil", "armed", "fired", "ran", "stopped"}

\* Type correctness of every variable.
TypeOK ==
    /\ channels \in [ChannelIDs -> Workers \cup {None}]
    /\ total \in Nat
    /\ closer \in {"open", "cancel", "wait", "close", "done"}
    /\ toClose \subseteq Subs
    /\ idOf \in [Workers -> ChannelIDs \cup {None}]
    /\ subs \in [Workers -> SUBSET Subs]
    /\ timer \in [Workers -> TimerStates]
    /\ late \in [Workers -> Nat]
    /\ cancelled \in [Workers -> BOOLEAN]
    /\ ingest \in [Workers -> {"off", "run", "exited"}]
    /\ flush \in [Workers -> {"off", "select", "drained", "send", "exited"}]
    /\ buffer \in [Workers -> Seq(Msgs)]
    /\ batch \in [Workers -> Seq(Msgs)]
    /\ targets \in [Workers -> SUBSET Subs]
    /\ chanOf \in [Subs -> Workers \cup {None}]
    /\ queue \in [Subs -> Seq(Seq(Msgs))]
    /\ eof \in [Subs -> BOOLEAN]
    /\ widget \in [Subs -> {"new", "refused", "streaming", "leaving", "gone"}]
    /\ seen \in [Subs -> Seq(Msgs)]
    /\ arrived \in Seq(Workers)
    /\ inject \in Workers \cup {None}

Started(w) == idOf[w] # None
Registered(w) == Started(w) /\ channels[idOf[w]] = w

\* A subscriber is never left on a dead worker: as long as a worker has one,
\* it is the registered worker of its channel, nobody has cancelled it and
\* both its goroutines run (the re-check in Unsubscribe's callback, against
\* Subscribe racing the timer).
ServedByLiveWorker ==
    \A w \in Workers : subs[w] # {} =>
        /\ Registered(w) /\ ~Done(w)
        /\ ingest[w] = "run" /\ flush[w] \notin {"off", "exited"}

\* No worker leaks: one that still holds a session either is registered, with
\* a subscriber or with a teardown timer that will end it, or has been told to
\* stop.
NoLeakedWorker ==
    \A w \in Workers : ingest[w] = "run" =>
        \/ Registered(w) /\ (subs[w] # {} \/ timer[w] \in {"armed", "fired"})
        \/ cancelled[w] \/ closed

\* Two workers that both may run on never share a channel id, so no channel
\* is ingested twice for longer than a cancelled worker takes to stop.
OneWorkerPerChannel ==
    \A v, w \in Workers :
        Started(v) /\ idOf[v] = idOf[w] /\ ~cancelled[v] /\ ~cancelled[w] => v = w

Held == UNION {subs[w] : w \in Workers}

\* The caps count what they should: total is the number of subscribers held by
\* registered workers, through teardowns, Close, and handlers that unsubscribe
\* after Close has emptied the sets.
CapsHold ==
    /\ total = Cardinality(Held)
    /\ total <= MaxTotal
    /\ \A w \in Workers : Cardinality(subs[w]) <= MaxPerChannel

\* flushOnce never sends on a subscription that Close has closed, although it
\* took its list of subscribers earlier and without holding mu while it sends.
NoSendOnClosed ==
    \A w \in Workers, s \in Subs :
        flush[w] = "send" /\ s \in targets[w] => ~eof[s]

\* The positions of the messages in a queue of batches.
Flat(bs) == {p \in (1..Len(bs)) \X Msgs : p[2] <= Len(bs[p[1]])}

\* A widget shows its own channel's chat in the order it arrived and no message
\* twice, over everything written to it and everything queued for it,
\* whatever batches were dropped in between.
InOrder ==
    \A s \in Subs :
        /\ \A i, j \in 1..Len(seen[s]) : i < j => seen[s][i] < seen[s][j]
        /\ \A k \in 1..Len(seen[s]) : arrived[seen[s][k]] = chanOf[s]
        /\ \A p \in Flat(queue[s]) :
              LET m == queue[s][p[1]][p[2]] IN
              /\ arrived[m] = chanOf[s]
              /\ \A k \in 1..Len(seen[s]) : seen[s][k] < m
              /\ \A q \in Flat(queue[s]) :
                    p[1] < q[1] \/ (p[1] = q[1] /\ p[2] < q[2]) => m < queue[s][q[1]][q[2]]

\* A stuck widget does not block the others: a started fan-out completes,
\* with subscribers among them that left with a full queue.
FanOutCompletes ==
    \A w \in Workers : flush[w] = "send" ~> flush[w] # "send"

\* An abandoned channel is torn down unless somebody subscribes again, and a
\* worker told to stop stops.
IdleChannelEnds ==
    \A w \in Workers :
        /\ (Registered(w) /\ subs[w] = {}) ~> (~Registered(w) \/ subs[w] # {})
        /\ Done(w) /\ Started(w) ~> (ingest[w] = "exited" /\ flush[w] = "exited")

\* Close returns and ends every stream, the ones whose handlers were already
\* leaving included.
CloseEndsStreams ==
    closed ~> (closer = "done" /\ \A s \in Subs : widget[s] \notin {"streaming", "leaving"})

\* A widget that stays is shown every message that was buffered while it was
\* subscribed, except what a burst has beyond MaxBatch; and a widget whose queue
\* is full then or at a later moment may miss it, whether or not it was for that.
Delivered ==
    \A w \in Workers, s \in Subs, m \in Msgs :
        (s \in subs[w] /\ \E i \in DOMAIN buffer[w] : i <= MaxBatch /\ buffer[w][i] = m)
            ~> \/ m \in {seen[s][i] : i \in DOMAIN seen[s]}
               \/ widget[s] # "streaming"
               \/ Len(queue[s]) = SubscriberBuffer

-----------------------------------------------------------------------------
(* Hub as an implementation of ChatFeed. *)

FeedState(s) ==
    IF widget[s] = "streaming" THEN "open"
    ELSE IF widget[s] \in {"leaving", "gone"} THEN "ended"
    ELSE IF widget[s] = "refused" THEN "rejected" ELSE "new"

FeedLog == [m \in 1..Len(arrived) |-> idOf[arrived[m]]]
FeedOf == [s \in Subs |-> IF chanOf[s] = None THEN None ELSE idOf[chanOf[s]]]
FeedStates == [s \in Subs |-> FeedState(s)]

Feed == INSTANCE ChatFeed WITH
    Streams <- Subs, log <- FeedLog, feed <- FeedOf, state <- FeedStates,
    shown <- seen, stopping <- closed

\* The hub's workers, buffers, snapshots and queues implement ChatFeed: what a
\* handler writes is its channel's chat, in order, without repetition.
ImplementsChatFeed == Feed!Spec

\* The same with ChatFeed's fairness: once Close begins, every stream ends.
ImplementsFairChatFeed == Feed!FairSpec

-----------------------------------------------------------------------------
(* The inductive invariant behind ServedByLiveWorker, NoLeakedWorker,       *)
(* OneWorkerPerChannel, CapsHold and NoSendOnClosed.                        *)

\* How the map, the workers, their subscribers and their timers fit together.
Wiring ==
    /\ \A id \in ChannelIDs : channels[id] # None =>
          idOf[channels[id]] = id /\ ~cancelled[channels[id]] /\ ~closed
    /\ \A w \in Workers :
          /\ subs[w] # {} => Registered(w)
          /\ Started(w) /\ ~cancelled[w] /\ ~closed => Registered(w)
          /\ Registered(w) /\ subs[w] = {} => timer[w] \in {"armed", "fired"}
    /\ \A w \in Workers : \A s \in subs[w] :
          chanOf[s] = w /\ widget[s] \in {"streaming", "leaving"}
    /\ \A s \in Subs : widget[s] \in {"streaming", "leaving"} => chanOf[s] \in Workers

\* A worker's goroutines run from startChannel until its context is done.
Goroutines ==
    \A w \in Workers :
        /\ ~Started(w) => ingest[w] = "off" /\ flush[w] = "off" /\ ~cancelled[w]
        /\ Started(w) /\ ~Done(w) => ingest[w] = "run" /\ flush[w] \notin {"off", "exited"}

\* Only started workers have timers.
Timers == \A w \in Workers : ~Started(w) => timer[w] = "nil" /\ late[w] = 0

\* Close closes a channel only after every worker has exited.
Closing ==
    /\ \A s \in Subs : eof[s] => closer \in {"close", "done"}
    /\ closer \in {"close", "done"} => WorkersExited

IInv == TypeOK /\ Wiring /\ Goroutines /\ Timers /\ Closing /\ OneWorkerPerChannel /\ CapsHold

-----------------------------------------------------------------------------
(* The inductive invariant behind InOrder, on top of IInv. *)

From(w, b) == \A i \in DOMAIN b : b[i] \in DOMAIN arrived /\ arrived[b[i]] = w
Rising(b) == \A i, j \in DOMAIN b : i < j => b[i] < b[j]
Before(a, b) == \A i \in DOMAIN a, j \in DOMAIN b : a[i] < b[j]

\* What a widget was written, and behind it the batches of its queue.
Piece(s, k) == IF k = 0 THEN seen[s] ELSE queue[s][k]

\* The batch in flushOnce's hands may still go to s.
Awaits(w, s) == flush[w] = "drained" \/ (flush[w] = "send" /\ s \in targets[w])

\* A worker's batch is older than its buffer, and both hold its own messages.
Source(w) ==
    /\ From(w, buffer[w]) /\ Rising(buffer[w])
    /\ From(w, batch[w]) /\ Rising(batch[w]) /\ Before(batch[w], buffer[w])
    /\ \A s \in targets[w] : chanOf[s] = w

\* What a widget has been written is older than its queue, and that is older
\* than what its worker may still send.
Line(s) ==
    LET w == chanOf[s] IN
    /\ widget[s] \in {"new", "refused"} => w = None
    /\ w = None => seen[s] = <<>> /\ queue[s] = <<>>
    /\ w # None => \A k \in 0..Len(queue[s]) :
          /\ From(w, Piece(s, k)) /\ Rising(Piece(s, k))
          /\ Before(Piece(s, k), buffer[w])
          /\ Awaits(w, s) => Before(Piece(s, k), batch[w])
          /\ \A l \in 0..Len(queue[s]) : k < l => Before(Piece(s, k), Piece(s, l))

Ordered == (\A w \in Workers : Source(w)) /\ (\A s \in Subs : Line(s))

\* Behind ImplementsChatFeed: batches are never empty or too long, and what
\* messages and widgets refer to is a worker that has a channel for good.
Sized ==
    /\ \A w \in Workers :
          /\ flush[w] = "drained" => batch[w] # <<>>
          /\ flush[w] = "send" => Len(batch[w]) \in 1..MaxBatch
    /\ \A s \in Subs : \A k \in DOMAIN queue[s] : Len(queue[s][k]) \in 1..MaxBatch

Named ==
    /\ \A m \in DOMAIN arrived : Started(arrived[m])
    /\ inject # None => Started(inject)
    /\ \A s \in Subs : chanOf[s] # None => Started(chanOf[s])
=============================================================================
