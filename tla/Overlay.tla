------------------------------ MODULE Overlay ------------------------------
(***************************************************************************)
(* The widget's page and its stream: connect() and addMessage() of         *)
(* static/overlay/widget.js, against widgetStream of internal/web          *)
(* /widget.go and the cap on a channel's subscribers in the hub.           *)
(*                                                                         *)
(* The browser's EventSource is outside the repository: after a stream     *)
(* that ends or a network error it fires "error" and asks again by itself; *)
(* after an answer other than 200 it fires "error" and is closed for good. *)
(* Between the page and the handler lie a proxy and a network that may cut *)
(* a stream without telling either end.  Delays are left out.              *)
(***************************************************************************)
EXTENDS Naturals, Sequences, FiniteSets

CONSTANTS
    Pages,        \* browser sources showing one channel
    Sources,      \* EventSource objects a page may hold at once
    MaxSubs,      \* the hub's cap on the subscribers of the channel
    MaxRows,      \* rows a page keeps
    Buffer,       \* batches on their way to one page
    MaxBatches,   \* bound: batches flushed
    MaxFaults     \* bound: cuts, network errors, failed lookups, stops, reloads

ASSUME OverlayAssumption ==
    /\ Pages # {} /\ Sources # {}
    /\ MaxRows \in Nat \ {0} /\ MaxSubs \in Nat /\ Buffer \in Nat
    /\ MaxBatches \in Nat /\ MaxFaults \in Nat

Streams == Pages \X Sources
Of(p) == {p} \X Sources
First == CHOOSE i \in Sources : TRUE

VARIABLES
    ready,    \* of a source: "off" (none, or closed), "connecting", "open",
              \* or "waiting" to ask again by itself
    timers,   \* of a page: calls of connect() pending
    rows,     \* of a page: the batches it shows, oldest first
    conn,     \* of a source: "none"; "live"; "cut", when neither end knows;
              \* "ended", when the handler is over and the browser does not know
    pipe,     \* of a source: batches written to it and not dispatched
    stale,    \* handlers whose browser is gone and that have not noticed
    up,       \* the process serves
    known,    \* the streamer has logged in: the channel has a row
    batch,    \* batches flushed so far
    faults    \* faults so far

pageVars   == <<ready, timers, rows>>
serverVars == <<conn, pipe, stale>>
vars == <<pageVars, serverVars, up, known, batch, faults>>

Init ==
    /\ ready = [s \in Streams |-> IF s[2] = First THEN "connecting" ELSE "off"]
    /\ timers = [p \in Pages |-> 0]
    /\ rows = [p \in Pages |-> <<>>]
    /\ conn = [s \in Streams |-> "none"]
    /\ pipe = [s \in Streams |-> <<>>]
    /\ stale = 0 /\ up = TRUE /\ known = FALSE /\ batch = 0 /\ faults = 0

Fault == faults < MaxFaults /\ faults' = faults + 1

-----------------------------------------------------------------------------
(* The page. *)

\* Fault: reconnect on every error.
ReconnectAlways(p, now) == timers' = [timers EXCEPT ![p] = @ + 1]
\* Fault: leave it to the browser.
ReconnectNever(p, now) == UNCHANGED timers
\* es.onerror: when the source is closed, a timer calls connect() later;
\* otherwise the browser retries.
onerror(p, now) ==
    timers' = IF now = "off" THEN [timers EXCEPT ![p] = @ + 1] ELSE timers

\* An error event: the source has changed its state, and the page hears of it.
Error(s, now) ==
    /\ ready' = [ready EXCEPT ![s] = now]
    /\ onerror(s[1], now)
    /\ UNCHANGED rows

Free(p) == {s \in Of(p) : ready[s] = "off"}

\* The timer fires: connect() makes a new source.
connect(p) ==
    /\ timers[p] > 0 /\ Free(p) # {}
    /\ timers' = [timers EXCEPT ![p] = @ - 1]
    /\ ready' = [ready EXCEPT ![CHOOSE s \in Free(p) : TRUE] = "connecting"]
    /\ UNCHANGED <<rows, serverVars, up, known, batch, faults>>

\* The browser's own reconnection.
Retry(s) ==
    /\ ready[s] = "waiting"
    /\ ready' = [ready EXCEPT ![s] = "connecting"]
    /\ UNCHANGED <<timers, rows, serverVars, up, known, batch, faults>>

\* The answer's header is there: onopen.
Open(s) ==
    /\ ready[s] = "connecting" /\ conn[s] \in {"live", "ended"}
    /\ ready' = [ready EXCEPT ![s] = "open"]
    /\ UNCHANGED <<timers, rows, serverVars, up, known, batch, faults>>

LastRows(seq) ==
    IF Len(seq) > MaxRows THEN SubSeq(seq, Len(seq) - MaxRows + 1, Len(seq)) ELSE seq

\* A "chat" event: addMessage for each of its messages, and the cap on rows.
Deliver(s) ==
    /\ ready[s] = "open" /\ pipe[s] # <<>>
    /\ rows' = [rows EXCEPT ![s[1]] = LastRows(Append(@, Head(pipe[s])))]
    /\ pipe' = [pipe EXCEPT ![s] = Tail(@)]
    /\ UNCHANGED <<ready, timers, conn, stale, up, known, batch, faults>>

\* The fade removes what is older than its limit.
Fade(p) ==
    /\ rows[p] # <<>>
    /\ rows' = [rows EXCEPT ![p] = Tail(@)]
    /\ UNCHANGED <<ready, timers, serverVars, up, known, batch, faults>>

Handlers == {s \in Streams : conn[s] \in {"live", "cut"}}

\* The source is reloaded.
Reload(p) ==
    /\ Fault
    /\ timers' = [timers EXCEPT ![p] = 0]
    /\ rows' = [rows EXCEPT ![p] = <<>>]
    /\ ready' = [s \in Streams |-> IF s[1] # p THEN ready[s]
                                   ELSE IF s[2] = First THEN "connecting" ELSE "off"]
    /\ stale' = IF Of(p) \cap Handlers # {} THEN stale + 1 ELSE stale
    /\ conn' = [s \in Streams |-> IF s \in Of(p) THEN "none" ELSE conn[s]]
    /\ pipe' = [s \in Streams |-> IF s \in Of(p) THEN <<>> ELSE pipe[s]]
    /\ UNCHANGED <<up, known, batch>>

-----------------------------------------------------------------------------
(* The server. *)

Full == Cardinality(Handlers) + stale >= MaxSubs

Asks(s) == ready[s] = "connecting" /\ conn[s] = "none"

\* Fault: a new subscriber is sent the last batch again.
ServeBacklog(s) ==
    /\ conn' = [conn EXCEPT ![s] = "live"]
    /\ pipe' = [pipe EXCEPT ![s] = IF batch > 0 THEN <<batch>> ELSE <<>>]
    /\ UNCHANGED stale
\* Subscribe: a new, empty subscription.
Serve(s) ==
    /\ conn' = [conn EXCEPT ![s] = "live"]
    /\ pipe' = [pipe EXCEPT ![s] = <<>>]
    /\ UNCHANGED stale

Accept(s) ==
    /\ Asks(s) /\ up /\ known /\ ~Full
    /\ Serve(s)
    /\ UNCHANGED <<pageVars, up, known, batch, faults>>

\* 404 for a channel nobody logged in for, 503 at the cap, the proxy's 502
\* while the process is down.
Refuse(s) ==
    /\ Asks(s) /\ ~(up /\ known /\ ~Full)
    /\ Error(s, "off")
    /\ UNCHANGED <<serverVars, up, known, batch, faults>>

\* 500: the lookup of the channel fails.
LookupFails(s) ==
    /\ Asks(s) /\ up /\ Fault
    /\ Error(s, "off")
    /\ UNCHANGED <<serverVars, up, known, batch>>

\* The request does not get through: some browsers give up, some ask again.
NetworkError(s) ==
    /\ Asks(s) /\ Fault
    /\ \E now \in {"off", "waiting"} : Error(s, now)
    /\ UNCHANGED <<serverVars, up, known, batch>>

\* A flush: one batch for every subscriber, dropped where the buffer is full.
Flush ==
    /\ up /\ batch < MaxBatches /\ \E s \in Streams : conn[s] = "live"
    /\ batch' = batch + 1
    /\ pipe' = [s \in Streams |-> IF conn[s] = "live" /\ Len(pipe[s]) < Buffer
                                  THEN Append(pipe[s], batch + 1) ELSE pipe[s]]
    /\ UNCHANGED <<pageVars, conn, stale, up, known, faults>>

\* The network drops a stream, with what is on its way; or the handler gives up
\* a reader that does not take a write in time.
Cut(s) ==
    /\ conn[s] = "live" /\ Fault
    /\ \E now \in {"cut", "ended"} : conn' = [conn EXCEPT ![s] = now]
    /\ pipe' = [pipe EXCEPT ![s] = <<>>]
    /\ UNCHANGED <<pageVars, stale, up, known, batch>>

\* The next keepalive or batch cannot be written: the handler unsubscribes.
HandlerNotices(s) ==
    /\ conn[s] = "cut"
    /\ conn' = [conn EXCEPT ![s] = "ended"]
    /\ UNCHANGED <<pageVars, pipe, stale, up, known, batch, faults>>
\* Fault: no keepalive, so that a handler without chat never notices.
StaleForever == FALSE /\ UNCHANGED vars
StaleEnds ==
    /\ stale > 0
    /\ stale' = stale - 1
    /\ UNCHANGED <<pageVars, conn, pipe, up, known, batch, faults>>

\* The browser sees the end of the stream, or its TCP keep-alive fails.
BrowserNotices(s) ==
    /\ ready[s] \in {"connecting", "open"} /\ conn[s] \in {"cut", "ended"}
    /\ stale' = IF conn[s] = "cut" THEN stale + 1 ELSE stale
    /\ conn' = [conn EXCEPT ![s] = "none"]
    /\ pipe' = [pipe EXCEPT ![s] = <<>>]
    /\ Error(s, "waiting")
    /\ UNCHANGED <<up, known, batch, faults>>

\* Shutdown, or a crash: every handler is over; what it wrote may arrive.
Stop ==
    /\ up /\ Fault
    /\ up' = FALSE
    /\ conn' = [s \in Streams |-> IF conn[s] = "none" THEN "none" ELSE "ended"]
    /\ stale' = 0
    /\ UNCHANGED <<pageVars, pipe, known, batch>>

Start == ~up /\ up' = TRUE /\ UNCHANGED <<pageVars, serverVars, known, batch, faults>>

LogIn == up /\ ~known /\ known' = TRUE /\ UNCHANGED <<pageVars, serverVars, up, batch, faults>>

-----------------------------------------------------------------------------
Stream(s) ==
    \/ Retry(s) \/ Open(s) \/ Deliver(s)
    \/ Accept(s) \/ Refuse(s) \/ HandlerNotices(s) \/ BrowserNotices(s)
    \/ LookupFails(s) \/ NetworkError(s) \/ Cut(s)

Next ==
    \/ \E s \in Streams : Stream(s)
    \/ \E p \in Pages : connect(p) \/ Fade(p) \/ Reload(p)
    \/ Flush \/ StaleEnds \/ Stop \/ Start \/ LogIn

\* The browser and the server answer, write deadlines pass, and a process that
\* stopped is started again.
Fairness ==
    /\ \A s \in Streams :
          /\ WF_vars(Retry(s)) /\ WF_vars(Open(s)) /\ WF_vars(Accept(s)) /\ WF_vars(Refuse(s))
          /\ WF_vars(HandlerNotices(s)) /\ WF_vars(BrowserNotices(s))
    /\ \A p \in Pages : WF_vars(connect(p))
    /\ WF_vars(StaleEnds) /\ WF_vars(Start)

Spec == Init /\ [][Next]_vars
FairSpec == Spec /\ Fairness

-----------------------------------------------------------------------------
Increasing(seq) == \A i, j \in DOMAIN seq : i < j => seq[i] < seq[j]

\* Type correctness of every variable.
TypeOK ==
    /\ ready \in [Streams -> {"off", "connecting", "open", "waiting"}]
    /\ timers \in [Pages -> Nat]
    /\ rows \in [Pages -> Seq(Nat)]
    /\ conn \in [Streams -> {"none", "live", "cut", "ended"}]
    /\ pipe \in [Streams -> Seq(Nat)]
    /\ stale \in Nat /\ up \in BOOLEAN /\ known \in BOOLEAN
    /\ batch \in Nat /\ faults \in Nat

\* A page has either one source that is not closed or one pending connect(),
\* and no handler serves a closed source: the browser's reconnection and the
\* page's own never both run, and never neither.
OneStream ==
    \A p \in Pages :
        /\ \/ timers[p] = 1 /\ \A s \in Of(p) : ready[s] = "off"
           \/ timers[p] = 0 /\ \E s \in Of(p) : \A q \in Of(p) : ready[q] # "off" <=> q = s
        /\ \A s \in Of(p) : conn[s] # "none" => ready[s] \in {"connecting", "open"}

\* A page shows the batches in the order they were flushed, none twice, across
\* cuts, refusals, restarts and reconnections.
ShownInOrder == \A p \in Pages : Increasing(rows[p])

\* Once the streamer has logged in and the faults are over, every page ends up
\* with an open stream and a handler behind it, and keeps it: also the pages
\* refused at the cap, on an unknown channel or during a restart.
Recovers ==
    <>known => <>[](\A p \in Pages : \E s \in Of(p) : ready[s] = "open" /\ conn[s] = "live")
-----------------------------------------------------------------------------
(* The inductive invariant behind ShownInOrder.                             *)

\* What is on its way to a page is newer than what the page shows, and older
\* than what is still to be flushed; a source without a stream has nothing.
OnTheWay ==
    /\ \A p \in Pages : \A i \in DOMAIN rows[p] : rows[p][i] <= batch
    /\ \A s \in Streams :
          /\ conn[s] = "none" => pipe[s] = <<>>
          /\ Increasing(pipe[s])
          /\ \A j \in DOMAIN pipe[s] :
                /\ pipe[s][j] <= batch
                /\ \A i \in DOMAIN rows[s[1]] : rows[s[1]][i] < pipe[s][j]

IInv == TypeOK /\ OneStream /\ OnTheWay /\ ShownInOrder
=============================================================================
