--------------------------- MODULE OverlayProofs ---------------------------
(***************************************************************************)
(* OneStream and ShownInOrder of Overlay hold for any number of pages, any *)
(* caps and any number of faults.                                          *)
(***************************************************************************)
EXTENDS Overlay, SequenceTheorems, TLAPS

USE OverlayAssumption

LEMMA Pairs ==
    /\ \A s \in Streams : s[1] \in Pages /\ s \in Of(s[1])
    /\ \A p \in Pages : \A s \in Of(p) : s \in Streams /\ s[1] = p
BY DEF Streams, Of

LEMMA FirstOf ==
    \A p \in Pages :
        /\ <<p, First>> \in Of(p)
        /\ \A s \in Of(p) : s[2] = First <=> s = <<p, First>>
<1> First \in Sources
  BY DEF First
<1> QED BY DEF Of

\* A page keeps the newest MaxRows of them, in their order.
LEMMA LastRowsKept ==
    ASSUME NEW all \in Seq(Nat)
    PROVE  /\ LastRows(all) \in Seq(Nat)
           /\ \E k \in Nat : /\ Len(LastRows(all)) + k = Len(all)
                             /\ \A i \in 1..Len(LastRows(all)) : LastRows(all)[i] = all[i + k]
<1>1. Len(all) \in Nat
  OBVIOUS
<1>2. CASE Len(all) <= MaxRows
  <2>1. LastRows(all) = all
    BY <1>1, <1>2 DEF LastRows
  <2>2. Len(all) + 0 = Len(all) /\ \A i \in 1..Len(all) : all[i] = all[i + 0]
    BY <1>1
  <2> QED BY <2>1, <2>2
<1>3. CASE Len(all) > MaxRows
  <2> DEFINE k == Len(all) - MaxRows
  <2>1. k \in Nat /\ k + 1 \in 1..Len(all) /\ LastRows(all) = SubSeq(all, k + 1, Len(all))
    BY <1>1, <1>3 DEF LastRows
  <2> DEFINE new == LastRows(all)
  <2> HIDE DEF k
  <2>2. new \in Seq(Nat) /\ Len(new) = Len(all) - k /\ \A i \in 1..Len(new) : new[i] = all[i + k]
    BY <1>1, <2>1, SubSeqProperties
  <2> HIDE DEF new
  <2>3. Len(new) + k = Len(all)
    BY <1>1, <2>1, <2>2
  <2>4. new \in Seq(Nat) /\ \E j \in Nat : /\ Len(new) + j = Len(all)
                                        /\ \A i \in 1..Len(new) : new[i] = all[i + j]
    BY <2>1, <2>2, <2>3
  <2> QED BY <2>4 DEF new
<1> QED BY <1>1, <1>2, <1>3

-----------------------------------------------------------------------------
(* Types, and one stream per page. *)

Kept == TypeOK /\ OneStream

LEMMA InitKept == Init => Kept
<1> SUFFICES ASSUME Init PROVE Kept
  OBVIOUS
<1>1. TypeOK
  <2>1. <<>> \in Seq(Nat)
    OBVIOUS
  <2> QED BY <2>1 DEF Init, TypeOK
<1>2. OneStream
  <2>1. ASSUME NEW p \in Pages
        PROVE  timers[p] = 0 /\ \A q \in Of(p) : ready[q] # "off" <=> q = <<p, First>>
    BY Pairs, FirstOf DEF Init
  <2> QED BY <2>1, Pairs, FirstOf DEF Init, OneStream
<1> QED BY <1>1, <1>2 DEF Kept

\* An error event leaves the browser's retry or the page's timer, not both.
LEMMA ErrorKept ==
    ASSUME Kept, NEW s \in Streams, NEW now \in {"off", "waiting"}, Error(s, now),
           ready[s] # "off", conn'[s] = "none",
           \A q \in Streams : q # s => conn'[q] = conn[q]
    PROVE  /\ ready' \in [Streams -> {"off", "connecting", "open", "waiting"}]
           /\ timers' \in [Pages -> Nat] /\ OneStream'
<1>0. /\ ready' = [ready EXCEPT ![s] = now]
      /\ timers' = IF now = "off" THEN [timers EXCEPT ![s[1]] = @ + 1] ELSE timers
      /\ s[1] \in Pages
      /\ ready \in [Streams -> {"off", "connecting", "open", "waiting"}] /\ timers \in [Pages -> Nat]
  BY Pairs DEF Error, onerror, Kept, TypeOK
<1>1. ready' \in [Streams -> {"off", "connecting", "open", "waiting"}] /\ timers' \in [Pages -> Nat]
  BY <1>0
<1>2. ASSUME NEW p \in Pages
      PROVE  \/ timers'[p] = 1 /\ \A t \in Of(p) : ready'[t] = "off"
             \/ timers'[p] = 0 /\ \E t \in Of(p) : \A q \in Of(p) : ready'[q] # "off" <=> q = t
  <2>1. CASE p # s[1]
    <3>1. timers'[p] = timers[p] /\ \A q \in Of(p) : ready'[q] = ready[q]
      BY <1>0, <2>1, Pairs
    <3> QED BY <3>1 DEF Kept, OneStream
  <2>2. CASE p = s[1]
    <3>1. timers[p] = 0 /\ \A q \in Of(p) : ready[q] # "off" <=> q = s
      BY <2>2, Pairs DEF Kept, OneStream
    <3>2. CASE now = "off"
      BY <1>0, <2>2, <3>1, <3>2, Pairs
    <3>3. CASE now = "waiting"
      BY <1>0, <2>2, <3>1, <3>3, Pairs
    <3> QED BY <3>2, <3>3
  <2> QED BY <2>1, <2>2
<1>3. ASSUME NEW p \in Pages, NEW t \in Of(p), conn'[t] # "none"
      PROVE  ready'[t] \in {"connecting", "open"}
  BY <1>3, Pairs DEF Error, Kept, TypeOK, OneStream
<1> QED BY <1>1, <1>2, <1>3 DEF OneStream

\* A step that only moves an active source between active states.
LEMMA ActiveKept ==
    ASSUME Kept, NEW s \in Streams, NEW now \in {"connecting", "open"}, ready[s] # "off",
           ready' = [ready EXCEPT ![s] = now], UNCHANGED <<timers, conn>>
    PROVE  OneStream'
<1>1. ASSUME NEW p \in Pages
      PROVE  \/ timers'[p] = 1 /\ \A t \in Of(p) : ready'[t] = "off"
             \/ timers'[p] = 0 /\ \E t \in Of(p) : \A q \in Of(p) : ready'[q] # "off" <=> q = t
  <2>1. \A q \in Of(p) : ready'[q] # "off" <=> ready[q] # "off"
    BY Pairs DEF Kept, TypeOK
  <2> QED BY <2>1 DEF Kept, OneStream
<1>2. ASSUME NEW p \in Pages, NEW t \in Of(p), conn'[t] # "none"
      PROVE  ready'[t] \in {"connecting", "open"}
  BY <1>2, Pairs DEF Kept, TypeOK, OneStream
<1> QED BY <1>1, <1>2 DEF OneStream

\* connect() spends the page's timer on a source.
LEMMA ConnectKept == ASSUME Kept, NEW p \in Pages, connect(p) PROVE Kept'
<1> DEFINE new == CHOOSE s \in Free(p) : TRUE
<1>1. new \in Of(p) /\ ready[new] = "off" /\ new \in Streams
  BY Pairs DEF connect, Free
<1> HIDE DEF new
<1>2. timers[p] = 1 /\ \A s \in Of(p) : ready[s] = "off"
  BY DEF connect, Kept, OneStream
<1>3. /\ ready' = [ready EXCEPT ![new] = "connecting"] /\ timers' = [timers EXCEPT ![p] = 0]
      /\ UNCHANGED <<rows, conn, pipe, stale, up, known, batch, faults>>
  BY <1>2 DEF connect, serverVars, new
<1>4. TypeOK'
  <2>1. ready' \in [Streams -> {"off", "connecting", "open", "waiting"}]
    BY <1>1, <1>3 DEF Kept, TypeOK
  <2>2. timers' \in [Pages -> Nat]
    BY <1>3 DEF Kept, TypeOK
  <2> QED BY <1>3, <2>1, <2>2 DEF Kept, TypeOK
<1>5. ASSUME NEW q \in Pages
      PROVE  \/ timers'[q] = 1 /\ \A t \in Of(q) : ready'[t] = "off"
             \/ timers'[q] = 0 /\ \E t \in Of(q) : \A u \in Of(q) : ready'[u] # "off" <=> u = t
  <2>1. CASE q = p
    <3>1. timers'[p] = 0 /\ \A u \in Of(p) : ready'[u] # "off" <=> u = new
      BY <1>1, <1>2, <1>3, Pairs DEF Kept, TypeOK
    <3> QED BY <1>1, <2>1, <3>1
  <2>2. CASE q # p
    <3>1. timers'[q] = timers[q]
      BY <1>3, <2>2 DEF Kept, TypeOK
    <3>2. ASSUME NEW u \in Of(q) PROVE ready'[u] = ready[u]
      <4>1. u # new /\ u \in Streams
        BY <1>1, <2>2, Pairs
      <4> QED BY <1>1, <1>3, <4>1 DEF Kept, TypeOK
    <3> QED BY <3>1, <3>2 DEF Kept, OneStream
  <2> QED BY <2>1, <2>2
<1>6. ASSUME NEW q \in Pages, NEW t \in Of(q), conn'[t] # "none"
      PROVE  ready'[t] \in {"connecting", "open"}
  BY <1>1, <1>2, <1>6, Pairs DEF connect, serverVars, Kept, TypeOK, OneStream
<1> QED BY <1>4, <1>5, <1>6 DEF Kept, OneStream

\* A reload starts over with one source.
LEMMA ReloadKept == ASSUME Kept, NEW p \in Pages, Reload(p) PROVE Kept'
<1>1. TypeOK'
  BY DEF Reload, Fault, Kept, TypeOK
<1>2. ASSUME NEW q \in Pages
      PROVE  \/ timers'[q] = 1 /\ \A t \in Of(q) : ready'[t] = "off"
             \/ timers'[q] = 0 /\ \E t \in Of(q) : \A u \in Of(q) : ready'[u] # "off" <=> u = t
  <2>1. CASE q = p
    <3>1. timers'[p] = 0 /\ \A u \in Of(p) : ready'[u] # "off" <=> u = <<p, First>>
      BY Pairs, FirstOf DEF Reload, Kept, TypeOK
    <3> QED BY <2>1, <3>1, FirstOf, Pairs
  <2>2. CASE q # p
    <3>1. timers'[q] = timers[q] /\ \A u \in Of(q) : ready'[u] = ready[u]
      BY <2>2, Pairs DEF Reload, Kept, TypeOK
    <3> QED BY <3>1 DEF Kept, OneStream
  <2> QED BY <2>1, <2>2
<1>3. ASSUME NEW q \in Pages, NEW t \in Of(q), conn'[t] # "none"
      PROVE  ready'[t] \in {"connecting", "open"}
  BY <1>3, Pairs DEF Reload, Kept, TypeOK, OneStream
<1> QED BY <1>1, <1>2, <1>3 DEF Kept, OneStream

\* What the server does to a stream does not touch the page.
LEMMA ServerKept ==
    ASSUME Kept, UNCHANGED <<ready, timers>>,
           conn' \in [Streams -> {"none", "live", "cut", "ended"}],
           \A s \in Streams : conn'[s] # "none" => ready[s] \in {"connecting", "open"}
    PROVE  OneStream'
BY Pairs DEF Kept, OneStream

LEMMA NextKept == ASSUME Kept, [Next]_vars PROVE Kept'
<1> USE DEF pageVars, serverVars
<1>1. CASE UNCHANGED vars
  BY <1>1 DEF vars, Kept, TypeOK, OneStream
<1>2. ASSUME NEW s \in Streams, Stream(s) PROVE Kept'
  <2>1. CASE Retry(s)
    BY <2>1, ActiveKept DEF Retry, Kept, TypeOK
  <2>2. CASE Open(s)
    BY <2>2, ActiveKept DEF Open, Kept, TypeOK
  <2>3. CASE Deliver(s)
    <3>1. rows[s[1]] \in Seq(Nat) /\ pipe[s] \in Seq(Nat) /\ pipe[s] # <<>>
      BY <2>3, Pairs DEF Deliver, Kept, TypeOK
    <3>2. LastRows(Append(rows[s[1]], Head(pipe[s]))) \in Seq(Nat) /\ Tail(pipe[s]) \in Seq(Nat)
      BY <3>1, HeadTailProperties, AppendProperties, LastRowsKept
    <3>3. rows' = [rows EXCEPT ![s[1]] = LastRows(Append(rows[s[1]], Head(pipe[s])))]
          /\ pipe' = [pipe EXCEPT ![s] = Tail(pipe[s])]
          /\ UNCHANGED <<ready, timers, conn, stale, up, known, batch, faults>>
      BY <2>3 DEF Deliver
    <3>4. rows' \in [Pages -> Seq(Nat)] /\ pipe' \in [Streams -> Seq(Nat)]
      <4>1. rows \in [Pages -> Seq(Nat)] /\ pipe \in [Streams -> Seq(Nat)]
        BY DEF Kept, TypeOK
      <4> QED BY <3>2, <3>3, <4>1
    <3>5. TypeOK'
      BY <3>3, <3>4 DEF Kept, TypeOK
    <3>6. OneStream'
      BY <3>3 DEF Kept, OneStream
    <3> QED BY <3>5, <3>6 DEF Kept
  <2>4. CASE Accept(s)
    <3>1. TypeOK'
      BY <2>4 DEF Accept, Serve, Kept, TypeOK
    <3>2. OneStream'
      BY <2>4, Pairs, ServerKept DEF Accept, Serve, Asks, Kept, TypeOK, OneStream
    <3> QED BY <3>1, <3>2 DEF Kept
  <2>5. CASE Refuse(s) \/ LookupFails(s) \/ NetworkError(s)
    <3>1. PICK now \in {"off", "waiting"} : Error(s, now)
      BY <2>5 DEF Refuse, LookupFails, NetworkError
    <3>2. /\ ready[s] # "off" /\ conn[s] = "none"
          /\ UNCHANGED <<conn, pipe, stale, up, known, batch>> /\ faults' \in Nat
      BY <2>5 DEF Refuse, LookupFails, NetworkError, Asks, Fault, Kept, TypeOK
    <3> QED BY <3>1, <3>2, ErrorKept DEF Error, Kept, TypeOK
  <2>6. CASE HandlerNotices(s) \/ Cut(s)
    <3>1. PICK now \in {"cut", "ended"} : conn' = [conn EXCEPT ![s] = now]
      BY <2>6 DEF HandlerNotices, Cut
    <3>2. /\ conn[s] # "none" /\ UNCHANGED <<ready, timers, rows, stale, up, known, batch>>
          /\ faults' \in Nat
      BY <2>6 DEF HandlerNotices, Cut, Fault, Kept, TypeOK
    <3>3. pipe' \in [Streams -> Seq(Nat)]
      <4>1. <<>> \in Seq(Nat)
        OBVIOUS
      <4>2. pipe' = pipe \/ pipe' = [pipe EXCEPT ![s] = <<>>]
        BY <2>6 DEF HandlerNotices, Cut
      <4>3. pipe \in [Streams -> Seq(Nat)]
        BY DEF Kept, TypeOK
      <4> QED BY <4>1, <4>2, <4>3
    <3>4. conn' \in [Streams -> {"none", "live", "cut", "ended"}]
      BY <3>1 DEF Kept, TypeOK
    <3>5. \A q \in Streams : conn'[q] # "none" => ready[q] \in {"connecting", "open"}
      <4>1. \A q \in Streams : conn[q] # "none" => ready[q] \in {"connecting", "open"}
        BY Pairs DEF Kept, OneStream
      <4>2. \A q \in Streams : conn'[q] # "none" => conn[q] # "none"
        BY <3>1, <3>2 DEF Kept, TypeOK
      <4> QED BY <4>1, <4>2
    <3>6. TypeOK'
      <4>1. /\ timers \in [Pages -> Nat] /\ rows \in [Pages -> Seq(Nat)]
            /\ ready \in [Streams -> {"off", "connecting", "open", "waiting"}]
            /\ stale \in Nat /\ up \in BOOLEAN /\ known \in BOOLEAN /\ batch \in Nat
        BY DEF Kept, TypeOK
      <4>2. /\ timers' = timers /\ rows' = rows /\ ready' = ready
            /\ stale' = stale /\ up' = up /\ known' = known /\ batch' = batch
        BY <3>2
      <4>3. faults' \in Nat
        BY <3>2
      <4> QED BY <3>3, <3>4, <4>1, <4>2, <4>3 DEF TypeOK
    <3>7. UNCHANGED <<ready, timers>>
      BY <3>2
    <3>8. OneStream'
      BY <3>4, <3>5, <3>7, ServerKept
    <3> QED BY <3>6, <3>8 DEF Kept
  <2>7. CASE BrowserNotices(s)
    <3>1. /\ Error(s, "waiting") /\ ready[s] # "off" /\ conn' = [conn EXCEPT ![s] = "none"]
          /\ pipe' \in [Streams -> Seq(Nat)] /\ stale' \in Nat /\ UNCHANGED <<up, known, batch, faults>>
      BY <2>7 DEF BrowserNotices, Kept, TypeOK
    <3>2. conn' \in [Streams -> {"none", "live", "cut", "ended"}] /\ conn'[s] = "none"
          /\ \A q \in Streams : q # s => conn'[q] = conn[q]
      BY <3>1 DEF Kept, TypeOK
    <3> QED BY <3>1, <3>2, ErrorKept DEF Error, Kept, TypeOK
  <2> QED BY <1>2, <2>1, <2>2, <2>3, <2>4, <2>5, <2>6, <2>7 DEF Stream
<1>3. ASSUME NEW p \in Pages, connect(p) \/ Fade(p) \/ Reload(p) PROVE Kept'
  <2>1. CASE Fade(p)
    <3>1. Tail(rows[p]) \in Seq(Nat)
      BY <2>1, HeadTailProperties DEF Fade, Kept, TypeOK
    <3> QED BY <2>1, <3>1 DEF Fade, Kept, TypeOK, OneStream
  <2> QED BY <1>3, <2>1, ConnectKept, ReloadKept
<1>4. CASE Flush
  <2>1. ASSUME NEW s \in Streams PROVE Append(pipe[s], batch + 1) \in Seq(Nat)
    BY DEF Kept, TypeOK
  <2> QED BY <1>4, <2>1 DEF Flush, Kept, TypeOK, OneStream
<1>5. CASE StaleEnds \/ Start \/ LogIn
  <2>1. TypeOK'
    <3>1. CASE StaleEnds
      <4>1. stale' \in Nat
        BY <3>1 DEF StaleEnds, Kept, TypeOK
      <4> QED BY <3>1, <4>1 DEF StaleEnds, Kept, TypeOK
    <3>2. CASE Start
      BY <3>2 DEF Start, Kept, TypeOK
    <3>3. CASE LogIn
      BY <3>3 DEF LogIn, Kept, TypeOK
    <3> QED BY <1>5, <3>1, <3>2, <3>3
  <2>2. OneStream'
    BY <1>5 DEF StaleEnds, Start, LogIn, Kept, OneStream
  <2> QED BY <2>1, <2>2 DEF Kept
<1>6. CASE Stop
  <2>1. TypeOK'
    <3>1. conn' \in [Streams -> {"none", "live", "cut", "ended"}]
      BY <1>6 DEF Stop, Kept, TypeOK
    <3>2. stale' = 0 /\ up' = FALSE /\ faults' = faults + 1
      BY <1>6 DEF Stop, Fault
    <3>3. stale' \in Nat /\ faults' \in Nat
      BY <3>2 DEF Kept, TypeOK
    <3>4. up' \in BOOLEAN
      BY <3>2, Zenon
    <3> QED BY <1>6, <3>1, <3>3, <3>4 DEF Stop, Kept, TypeOK
  <2>2. OneStream'
    BY <1>6, <2>1, Pairs, ServerKept DEF Stop, Kept, TypeOK, OneStream
  <2> QED BY <2>1, <2>2 DEF Kept
<1> QED BY <1>1, <1>2, <1>3, <1>4, <1>5, <1>6 DEF Next

-----------------------------------------------------------------------------
(* The order of what is shown. *)

LEMMA IncreasingTail ==
    ASSUME NEW seq \in Seq(Nat), seq # <<>>, Increasing(seq)
    PROVE  /\ Tail(seq) \in Seq(Nat) /\ Increasing(Tail(seq))
           /\ Head(seq) = seq[1] /\ 1 \in DOMAIN seq
           /\ \A j \in DOMAIN Tail(seq) :
                 Tail(seq)[j] = seq[j + 1] /\ j + 1 \in DOMAIN seq /\ Head(seq) < Tail(seq)[j]
<1>1. /\ Tail(seq) \in Seq(Nat) /\ Len(Tail(seq)) = Len(seq) - 1 /\ Len(seq) \in Nat \ {0}
      /\ DOMAIN seq = 1..Len(seq) /\ DOMAIN Tail(seq) = 1..Len(Tail(seq)) /\ Head(seq) = seq[1]
  BY HeadTailProperties
<1>2. ASSUME NEW j \in DOMAIN Tail(seq)
      PROVE  Tail(seq)[j] = seq[j + 1] /\ j + 1 \in DOMAIN seq /\ 1 \in DOMAIN seq /\ 1 < j + 1
  BY <1>1, HeadTailProperties
<1>3. Increasing(Tail(seq))
  BY <1>1, <1>2 DEF Increasing
<1>4. \A j \in DOMAIN Tail(seq) : seq[1] < seq[j + 1]
  BY <1>2 DEF Increasing
<1> QED BY <1>1, <1>2, <1>3, <1>4

LEMMA IncreasingAppend ==
    ASSUME NEW seq \in Seq(Nat), NEW n \in Nat, Increasing(seq), \A i \in DOMAIN seq : seq[i] < n
    PROVE  /\ Append(seq, n) \in Seq(Nat) /\ Increasing(Append(seq, n))
           /\ \A i \in DOMAIN Append(seq, n) : Append(seq, n)[i] <= n
<1> DEFINE all == Append(seq, n)
<1>1. /\ all \in Seq(Nat) /\ DOMAIN all = 1..(Len(seq) + 1) /\ Len(seq) \in Nat
      /\ \A i \in DOMAIN seq : all[i] = seq[i] /\ seq[i] \in Nat
      /\ all[Len(seq) + 1] = n /\ DOMAIN seq = 1..Len(seq)
  BY AppendProperties
<1> HIDE DEF all
<1>2. \A i \in DOMAIN all : i \in DOMAIN seq \/ i = Len(seq) + 1
  BY <1>1
<1>3. \A i, j \in DOMAIN all : i < j => i \in DOMAIN seq
  BY <1>1
<1>4. Increasing(all)
  BY <1>1, <1>2, <1>3 DEF Increasing
<1>5. \A i \in DOMAIN all : all[i] <= n
  BY <1>1, <1>2
<1> QED BY <1>1, <1>4, <1>5 DEF all

LEMMA IncreasingLast ==
    ASSUME NEW all \in Seq(Nat), Increasing(all)
    PROVE  /\ Increasing(LastRows(all))
           /\ \A i \in DOMAIN LastRows(all) : \E j \in DOMAIN all : LastRows(all)[i] = all[j]
<1> DEFINE new == LastRows(all)
<1>1. new \in Seq(Nat)
  BY LastRowsKept
<1>2. PICK k \in Nat : Len(new) + k = Len(all) /\ \A i \in 1..Len(new) : new[i] = all[i + k]
  BY LastRowsKept
<1> HIDE DEF new
<1>3. /\ DOMAIN new = 1..Len(new) /\ DOMAIN all = 1..Len(all)
      /\ Len(new) \in Nat /\ Len(all) \in Nat
  BY <1>1
<1>4. \A i \in DOMAIN new : new[i] = all[i + k] /\ i + k \in DOMAIN all
  BY <1>2, <1>3
<1>5. \A i, j \in DOMAIN new : i < j => i + k < j + k
  BY <1>3
<1>6. Increasing(new)
  BY <1>4, <1>5 DEF Increasing
<1> QED BY <1>4, <1>6 DEF new

Ordered == OnTheWay /\ ShownInOrder

\* A "chat" event is newer than every row, and older than the next one.
LEMMA DeliverOrdered == ASSUME Kept, Ordered, NEW s \in Streams, Deliver(s) PROVE Ordered'
<1> DEFINE p == s[1]
           all == Append(rows[p], Head(pipe[s]))
<1>1. /\ p \in Pages /\ s \in Of(p) /\ rows[p] \in Seq(Nat) /\ pipe[s] \in Seq(Nat) /\ pipe[s] # <<>>
      /\ Increasing(rows[p]) /\ Increasing(pipe[s]) /\ batch \in Nat
  BY Pairs DEF Deliver, Kept, TypeOK, Ordered, ShownInOrder, OnTheWay
<1>2. /\ Tail(pipe[s]) \in Seq(Nat) /\ Increasing(Tail(pipe[s]))
      /\ Head(pipe[s]) = pipe[s][1] /\ 1 \in DOMAIN pipe[s]
      /\ \A j \in DOMAIN Tail(pipe[s]) :
            /\ Tail(pipe[s])[j] = pipe[s][j + 1] /\ j + 1 \in DOMAIN pipe[s]
            /\ Head(pipe[s]) < Tail(pipe[s])[j]
  BY <1>1, IncreasingTail
<1>3. Head(pipe[s]) \in Nat /\ Head(pipe[s]) <= batch /\ \A i \in DOMAIN rows[p] : rows[p][i] < Head(pipe[s])
  <2>1. pipe[s][1] \in Nat
    BY <1>1, <1>2
  <2>2. pipe[s][1] <= batch /\ \A i \in DOMAIN rows[s[1]] : rows[s[1]][i] < pipe[s][1]
    BY <1>2 DEF Ordered, OnTheWay
  <2> QED BY <1>2, <2>1, <2>2
<1>4. all \in Seq(Nat) /\ Increasing(all) /\ \A i \in DOMAIN all : all[i] <= Head(pipe[s])
  BY <1>1, <1>3, IncreasingAppend
<1> HIDE DEF all
<1>5. /\ Increasing(LastRows(all)) /\ LastRows(all) \in Seq(Nat)
      /\ \A i \in DOMAIN LastRows(all) : LastRows(all)[i] <= Head(pipe[s])
  BY <1>4, IncreasingLast, LastRowsKept
<1>6. /\ rows'[p] = LastRows(all) /\ \A q \in Pages : q # p => rows'[q] = rows[q]
      /\ pipe'[s] = Tail(pipe[s]) /\ \A q \in Streams : q # s => pipe'[q] = pipe[q]
      /\ batch' = batch /\ conn' = conn /\ conn[s] # "none"
  <2>1. /\ rows' = [rows EXCEPT ![s[1]] = LastRows(all)] /\ pipe' = [pipe EXCEPT ![s] = Tail(@)]
        /\ batch' = batch /\ conn' = conn
    BY Zenon DEF Deliver, all
  <2>2. DOMAIN rows = Pages /\ DOMAIN pipe = Streams
    BY DEF Kept, TypeOK
  <2>3. conn[s] # "none"
    BY <1>1 DEF Ordered, OnTheWay
  <2>4. rows'[p] = LastRows(all) /\ \A q \in Pages : q # p => rows'[q] = rows[q]
    BY <1>1, <2>1, <2>2
  <2>5. pipe'[s] = Tail(pipe[s]) /\ \A q \in Streams : q # s => pipe'[q] = pipe[q]
    BY <2>1, <2>2
  <2> QED BY <2>1, <2>3, <2>4, <2>5
<1>7. \A q \in Of(p) : q # s => pipe[q] = <<>>
  <2>1. ready[s] = "open" /\ \E t \in Of(p) : \A q \in Of(p) : ready[q] # "off" <=> q = t
    BY <1>1 DEF Deliver, Kept, OneStream
  <2>2. \A q \in Of(p) : q # s => ready[q] = "off"
    BY <1>1, <2>1
  <2>3. \A q \in Of(p) : q # s => conn[q] = "none"
    BY <1>1, <2>2 DEF Kept, OneStream
  <2> QED BY <2>3, Pairs, <1>1 DEF Ordered, OnTheWay
<1> HIDE DEF p
<1>8. ShownInOrder'
  BY <1>1, <1>5, <1>6 DEF Ordered, ShownInOrder
<1>9. \A q \in Pages : \A i \in DOMAIN rows'[q] : rows'[q][i] <= batch'
  <2>1. ASSUME NEW i \in DOMAIN LastRows(all) PROVE LastRows(all)[i] <= batch
    <3>1. LastRows(all)[i] \in Nat
      BY <1>5
    <3> QED BY <1>1, <1>3, <1>5, <3>1
  <2> QED BY <1>6, <2>1 DEF Ordered, OnTheWay
<1>10. ASSUME NEW q \in Streams
       PROVE  /\ conn'[q] = "none" => pipe'[q] = <<>>
              /\ Increasing(pipe'[q])
              /\ \A j \in DOMAIN pipe'[q] :
                    pipe'[q][j] <= batch' /\ \A i \in DOMAIN rows'[q[1]] : rows'[q[1]][i] < pipe'[q][j]
  <2>1. CASE q = s
    <3>1. q[1] = p
      BY <2>1 DEF p
    <3>2. ASSUME NEW j \in DOMAIN Tail(pipe[s])
          PROVE  /\ Tail(pipe[s])[j] <= batch
                 /\ \A i \in DOMAIN LastRows(all) : LastRows(all)[i] < Tail(pipe[s])[j]
      <4>1. Tail(pipe[s])[j] \in Nat /\ \A i \in DOMAIN LastRows(all) : LastRows(all)[i] \in Nat
        BY <1>2, <1>5
      <4> QED BY <1>2, <1>3, <1>5, <4>1 DEF Ordered, OnTheWay
    <3> QED BY <1>2, <1>6, <2>1, <3>1, <3>2
  <2>2. CASE q # s /\ q[1] = p
    <3>1. q \in Of(p)
      BY <2>2, Pairs
    <3>2. pipe'[q] = <<>>
      BY <1>6, <1>7, <2>2, <3>1
    <3> QED BY <3>2 DEF Increasing
  <2>3. CASE q[1] # p
    BY <1>6, <2>3, Pairs DEF p, Ordered, OnTheWay
  <2> QED BY <2>1, <2>2, <2>3
<1> QED BY <1>8, <1>9, <1>10 DEF Ordered, OnTheWay

\* A flush adds a batch newer than everything.
LEMMA FlushOrdered == ASSUME Kept, Ordered, Flush PROVE Ordered'
<1>1. batch' = batch + 1 /\ batch \in Nat /\ rows' = rows /\ conn' = conn
  BY DEF Flush, pageVars, Kept, TypeOK
<1>2. \A p \in Pages : rows[p] \in Seq(Nat) /\ \A i \in DOMAIN rows[p] : rows[p][i] \in Nat /\ rows[p][i] <= batch
  BY DEF Kept, TypeOK, Ordered, OnTheWay
<1>3. ASSUME NEW s \in Streams
      PROVE  /\ conn'[s] = "none" => pipe'[s] = <<>>
             /\ Increasing(pipe'[s])
             /\ \A j \in DOMAIN pipe'[s] :
                   pipe'[s][j] <= batch' /\ \A i \in DOMAIN rows'[s[1]] : rows'[s[1]][i] < pipe'[s][j]
  <2>1. pipe[s] \in Seq(Nat) /\ Increasing(pipe[s]) /\ s[1] \in Pages
    BY Pairs DEF Kept, TypeOK, Ordered, OnTheWay
  <2>2. \A j \in DOMAIN pipe[s] : /\ pipe[s][j] \in Nat /\ pipe[s][j] <= batch
                                  /\ \A i \in DOMAIN rows[s[1]] : rows[s[1]][i] < pipe[s][j]
    <3>1. \A j \in DOMAIN pipe[s] : pipe[s][j] \in Nat
      BY <2>1
    <3>2. \A j \in DOMAIN pipe[s] :
             pipe[s][j] <= batch /\ \A i \in DOMAIN rows[s[1]] : rows[s[1]][i] < pipe[s][j]
      BY DEF Ordered, OnTheWay
    <3> QED BY <3>1, <3>2
  <2>3. CASE pipe'[s] = pipe[s]
    BY <1>1, <2>1, <2>2, <2>3 DEF Ordered, OnTheWay
  <2>4. CASE pipe'[s] = Append(pipe[s], batch + 1) /\ conn[s] = "live"
    <3>1. Increasing(Append(pipe[s], batch + 1))
      BY <1>1, <2>1, <2>2, IncreasingAppend
    <3>2. ASSUME NEW j \in DOMAIN Append(pipe[s], batch + 1)
          PROVE  \/ j \in DOMAIN pipe[s] /\ Append(pipe[s], batch + 1)[j] = pipe[s][j]
                 \/ Append(pipe[s], batch + 1)[j] = batch + 1
      BY <1>1, <2>1, AppendProperties
    <3>3. /\ conn'[s] # "none" /\ Increasing(pipe'[s])
          /\ DOMAIN pipe'[s] = DOMAIN Append(pipe[s], batch + 1)
      BY <1>1, <2>4, <3>1
    <3>4. ASSUME NEW j \in DOMAIN pipe'[s]
          PROVE  /\ pipe'[s][j] <= batch'
                 /\ \A i \in DOMAIN rows'[s[1]] : rows'[s[1]][i] < pipe'[s][j]
      <4>1. \/ j \in DOMAIN pipe[s] /\ pipe'[s][j] = pipe[s][j]
            \/ pipe'[s][j] = batch + 1
        BY <2>4, <3>2, <3>3
      <4>2. CASE j \in DOMAIN pipe[s] /\ pipe'[s][j] = pipe[s][j]
        BY <1>1, <2>2, <4>2
      <4>3. CASE pipe'[s][j] = batch + 1
        BY <1>1, <1>2, <2>1, <4>3
      <4> QED BY <4>1, <4>2, <4>3
    <3> QED BY <3>3, <3>4
  <2>5. pipe'[s] = pipe[s] \/ (pipe'[s] = Append(pipe[s], batch + 1) /\ conn[s] = "live")
    <3>1. pipe'[s] = IF conn[s] = "live" /\ Len(pipe[s]) < Buffer
                     THEN Append(pipe[s], batch + 1) ELSE pipe[s]
      <4>1. pipe' = [q \in Streams |-> IF conn[q] = "live" /\ Len(pipe[q]) < Buffer
                                      THEN Append(pipe[q], batch + 1) ELSE pipe[q]]
        BY Zenon DEF Flush
      <4> QED BY <4>1, Zenon
    <3>2. CASE conn[s] = "live" /\ Len(pipe[s]) < Buffer
      BY <3>1, <3>2
    <3>3. CASE ~(conn[s] = "live" /\ Len(pipe[s]) < Buffer)
      BY <3>1, <3>3
    <3> QED BY <3>2, <3>3
  <2> QED BY <2>3, <2>4, <2>5
<1>4. \A p \in Pages : \A i \in DOMAIN rows'[p] : rows'[p][i] <= batch'
  BY <1>1, <1>2
<1>5. ShownInOrder'
  BY <1>1 DEF Ordered, ShownInOrder
<1> QED BY <1>3, <1>4, <1>5 DEF Ordered, OnTheWay

\* A step that empties pipes or leaves them, and keeps, empties or shortens rows.
LEMMA QuietOrdered ==
    ASSUME Kept, Ordered, UNCHANGED batch,
           \A p \in Pages : \/ rows'[p] = rows[p] \/ rows'[p] = <<>>
                            \/ rows[p] # <<>> /\ rows'[p] = Tail(rows[p]),
           \A s \in Streams : /\ pipe'[s] = pipe[s] \/ pipe'[s] = <<>>
                              /\ conn'[s] = "none" => conn[s] = "none" \/ pipe'[s] = <<>>
    PROVE  Ordered'
<1>1. ASSUME NEW p \in Pages
      PROVE  /\ Increasing(rows'[p])
             /\ \A i \in DOMAIN rows'[p] : \E j \in DOMAIN rows[p] : rows'[p][i] = rows[p][j]
  <2>1. rows[p] \in Seq(Nat) /\ Increasing(rows[p])
    BY DEF Kept, TypeOK, Ordered, ShownInOrder
  <2>2. CASE rows'[p] = <<>>
    BY <2>2 DEF Increasing
  <2>3. CASE rows[p] # <<>> /\ rows'[p] = Tail(rows[p])
    BY <2>1, <2>3, IncreasingTail
  <2> QED BY <2>1, <2>2, <2>3
<1>2. ASSUME NEW s \in Streams
      PROVE  /\ conn'[s] = "none" => pipe'[s] = <<>>
             /\ Increasing(pipe'[s])
             /\ \A j \in DOMAIN pipe'[s] :
                   pipe'[s][j] <= batch' /\ \A i \in DOMAIN rows'[s[1]] : rows'[s[1]][i] < pipe'[s][j]
  <2>1. CASE pipe'[s] = <<>>
    BY <2>1 DEF Increasing
  <2>2. CASE pipe'[s] = pipe[s] /\ pipe'[s] # <<>>
    <3>1. s[1] \in Pages /\ UNCHANGED batch
      BY Pairs
    <3>2. /\ conn[s] # "none" /\ Increasing(pipe[s])
          /\ \A j \in DOMAIN pipe[s] :
                pipe[s][j] <= batch /\ \A i \in DOMAIN rows[s[1]] : rows[s[1]][i] < pipe[s][j]
      BY <2>2 DEF Ordered, OnTheWay
    <3> QED BY <1>1, <2>2, <3>1, <3>2
  <2> QED BY <2>1, <2>2
<1>3. \A p \in Pages : \A i \in DOMAIN rows'[p] : rows'[p][i] <= batch'
  BY <1>1 DEF Ordered, OnTheWay
<1> QED BY <1>1, <1>2, <1>3 DEF Ordered, OnTheWay, ShownInOrder

LEMMA NextOrdered == ASSUME Kept, Ordered, [Next]_vars PROVE Ordered'
<1> USE DEF pageVars, serverVars
<1>1. ASSUME UNCHANGED <<rows, pipe, conn, batch>> PROVE Ordered'
  BY <1>1, QuietOrdered
<1>2. ASSUME NEW s \in Streams, Stream(s) PROVE Ordered'
  <2>1. CASE Retry(s) \/ Open(s) \/ Refuse(s) \/ LookupFails(s) \/ NetworkError(s)
    BY <1>1, <2>1 DEF Retry, Open, Refuse, LookupFails, NetworkError, Error
  <2>2. CASE Accept(s) \/ HandlerNotices(s) \/ Cut(s) \/ BrowserNotices(s)
    <3>1. UNCHANGED <<rows, batch>>
      BY <2>2 DEF Accept, HandlerNotices, Cut, BrowserNotices, Error
    <3>2. ASSUME NEW q \in Streams
          PROVE  /\ pipe'[q] = pipe[q] \/ pipe'[q] = <<>>
                 /\ conn'[q] = "none" => conn[q] = "none" \/ pipe'[q] = <<>>
      BY <2>2 DEF Accept, Serve, HandlerNotices, Cut, BrowserNotices, Kept, TypeOK
    <3> QED BY <3>1, <3>2, QuietOrdered
  <2> QED BY <1>2, <2>1, <2>2, DeliverOrdered DEF Stream
<1>3. ASSUME NEW p \in Pages, connect(p) \/ Fade(p) \/ Reload(p) PROVE Ordered'
  <2>1. CASE connect(p)
    BY <1>1, <2>1 DEF connect
  <2>2. CASE Fade(p)
    BY <2>2, QuietOrdered DEF Fade, Kept, TypeOK
  <2>3. CASE Reload(p)
    <3>1. ASSUME NEW q \in Streams
          PROVE  /\ pipe'[q] = pipe[q] \/ pipe'[q] = <<>>
                 /\ conn'[q] = "none" => conn[q] = "none" \/ pipe'[q] = <<>>
      BY <2>3 DEF Reload
    <3> QED BY <2>3, <3>1, QuietOrdered DEF Reload, Kept, TypeOK
  <2> QED BY <1>3, <2>1, <2>2, <2>3
<1>4. CASE StaleEnds \/ Start \/ LogIn \/ UNCHANGED vars
  BY <1>1, <1>4 DEF StaleEnds, Start, LogIn, vars
<1>5. CASE Stop
  BY <1>5, QuietOrdered DEF Stop
<1> QED BY <1>2, <1>3, <1>4, <1>5, FlushOrdered DEF Next

-----------------------------------------------------------------------------
\* Types, one stream per page and the order of rows hold together in every
\* reachable state, for any number of pages and faults.
THEOREM OverlayInductive == Spec => []IInv
<1>1. Init => IInv
  BY InitKept DEF Init, IInv, Kept, OnTheWay, ShownInOrder, Increasing
<1>2. IInv /\ [Next]_vars => IInv'
  BY NextKept, NextOrdered DEF IInv, Kept, Ordered
<1> QED BY <1>1, <1>2, PTL DEF Spec

\* The browser's reconnection and the page's own never both run, and never
\* neither.
THEOREM OneStreamAlways == Spec => []OneStream
BY OverlayInductive, PTL DEF IInv

\* A page shows batches in order and none twice, whatever fails in between.
THEOREM ShownInOrderAlways == Spec => []ShownInOrder
BY OverlayInductive, PTL DEF IInv
=============================================================================
