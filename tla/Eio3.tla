-------------------------------- MODULE Eio3 --------------------------------
(***************************************************************************)
(* One connection of package eio3: Dial's handshake, then Run with its     *)
(* reading goroutine, its ping timer and its heartbeat deadline.           *)
(*                                                                         *)
(* Time is counted in ticks.  A goroutine that can run does so within the  *)
(* tick; what it does when several cases of its select are ready in the    *)
(* same tick is left open, as the language leaves it.                      *)
(***************************************************************************)
EXTENDS Naturals, Sequences

CONSTANTS
    Interval, Timeout,   \* Handshake.PingInterval, PingTimeout
    DialTimeout,         \* of the hub's Dialer
    Rate,                \* bound of the model: frames the server sends in a tick
    None

ASSUME Eio3Assumption ==
    /\ {Interval, Timeout, DialTimeout} \subseteq Nat \ {0}
    /\ Rate \in Nat
    /\ None # "heartbeat"

VARIABLES
    phase,    \* Dial waits for the open packet, then for "40"; Run; returned
    err,      \* what Dial or Run returned
    deadline, \* ticks left of Dial's context, then of Run's deadline timer
    ping,     \* ticks left of pingTimer
    awaiting, \* pingTimer has fired and no pong has reset it
    reader,   \* Run's reading goroutine
    held,     \* the frame it offers on the channel frames
    readErr,  \* the channel readErr holds an error
    ctxDone,  \* the session's context is done
    wire,     \* frames on their way from the server
    sent,     \* frames it has sent in this tick
    broken,   \* the connection has failed
    quiet     \* ghost: ticks for which Run has not received a frame

timers == <<deadline, ping, awaiting, quiet>>
net == <<wire, sent, broken>>
vars == <<phase, err, timers, reader, held, readErr, ctxDone, net>>

\* "open" is '0', "connect" 40, "close" '1' or 41, "event" 42 or 44; "noop"
\* stands for what both Dial and Run skip: '6', and '2', which they answer.
Frames == {"open", "connect", "pong", "event", "close", "noop"}

Init ==
    /\ phase = "opening" /\ err = None
    /\ deadline = DialTimeout /\ ping = 0 /\ awaiting = FALSE /\ quiet = 0
    /\ reader = "off" /\ held = None /\ readErr = FALSE
    /\ ctxDone = FALSE
    /\ wire = <<>> /\ sent = 0 /\ broken = FALSE

Return(e) == phase' = "over" /\ err' = e

-----------------------------------------------------------------------------
(* Dial. *)

Dialing == phase \in {"opening", "joining"}

ReadOpen ==
    /\ phase = "opening" /\ wire # <<>>
    /\ wire' = Tail(wire)
    /\ IF Head(wire) = "open" THEN phase' = "joining" /\ UNCHANGED err ELSE Return("dial")
    /\ UNCHANGED <<timers, reader, held, readErr, ctxDone, sent, broken>>

PingAfter == Interval

\* Run starts its reader and both timers.
StartRun ==
    /\ phase' = "running"
    /\ reader' = "read"
    /\ ping' = PingAfter
    /\ deadline' = Interval + Timeout

ReadConnect ==
    /\ phase = "joining" /\ wire # <<>>
    /\ wire' = Tail(wire)
    /\ \/ Head(wire) = "connect" /\ StartRun /\ UNCHANGED err
       \/ Head(wire) = "noop" /\ UNCHANGED <<phase, err, reader, ping, deadline>>
       \/ Head(wire) \notin {"connect", "noop"} /\ Return("dial") /\ UNCHANGED <<reader, ping, deadline>>
    /\ UNCHANGED <<awaiting, quiet, held, readErr, ctxDone, sent, broken>>

\* Fault: the dialer has no timeout.
DialFailsOpen ==
    /\ Dialing
    /\ broken \/ ctxDone
    /\ Return("dial")
    /\ UNCHANGED <<timers, reader, held, readErr, ctxDone, net>>

DialFails ==
    /\ Dialing
    /\ broken \/ ctxDone \/ deadline = 0
    /\ Return("dial")
    /\ UNCHANGED <<timers, reader, held, readErr, ctxDone, net>>

-----------------------------------------------------------------------------
(* Run's reading goroutine. *)

\* The context Run derives, which it cancels when it returns.
RunCtxDone == ctxDone \/ phase = "over"

ReaderReads ==
    /\ reader = "read" /\ wire # <<>>
    /\ reader' = "hold"
    /\ held' = Head(wire)
    /\ wire' = Tail(wire)
    /\ UNCHANGED <<phase, err, timers, readErr, ctxDone, sent, broken>>

ReaderFails ==
    /\ reader = "read"
    /\ broken \/ RunCtxDone
    /\ reader' = "done"
    /\ readErr' = TRUE
    /\ UNCHANGED <<phase, err, timers, held, ctxDone, net>>

\* Fault: a plain send on frames.
ReaderBlocks == FALSE /\ UNCHANGED vars
ReaderStops ==
    /\ reader = "hold" /\ RunCtxDone
    /\ reader' = "done"
    /\ UNCHANGED <<phase, err, timers, held, readErr, ctxDone, net>>

-----------------------------------------------------------------------------
(* Run's select. *)

\* Fault: only a pong counts as a sign of life.
PongDeadline(f) == IF f = "pong" THEN Interval + Timeout ELSE deadline
FrameDeadline(f) == Interval + Timeout

\* A frame; an EVENT is handed to the session, which does not block.
TakeFrame ==
    /\ phase = "running" /\ reader = "hold"
    /\ reader' = "read"
    /\ quiet' = 0
    /\ deadline' = FrameDeadline(held)
    /\ IF held = "pong" THEN ping' = Interval /\ awaiting' = FALSE ELSE UNCHANGED <<ping, awaiting>>
    /\ IF held = "close" THEN Return("closed") ELSE UNCHANGED <<phase, err>>
    /\ UNCHANGED <<held, readErr, ctxDone, net>>

\* Fault: a ping leaves the deadline where a frame would.
PingExtends == Interval + Timeout
PingDeadline == Timeout

SendPing ==
    /\ phase = "running" /\ ping = 0 /\ ~awaiting
    /\ awaiting' = TRUE
    /\ deadline' = PingDeadline
    /\ UNCHANGED <<phase, err, ping, quiet, reader, held, readErr, ctxDone, net>>

PingFails ==
    /\ phase = "running" /\ ping = 0 /\ ~awaiting
    /\ broken \/ ctxDone
    /\ Return("io")
    /\ UNCHANGED <<timers, reader, held, readErr, ctxDone, net>>

GiveUp ==
    /\ phase = "running" /\ deadline = 0
    /\ Return("heartbeat")
    /\ UNCHANGED <<timers, reader, held, readErr, ctxDone, net>>

TakeReadErr ==
    /\ phase = "running" /\ readErr
    /\ Return(IF ctxDone THEN "ctx" ELSE "io")
    /\ UNCHANGED <<timers, reader, held, readErr, ctxDone, net>>

TakeDone ==
    /\ phase = "running" /\ ctxDone
    /\ Return("ctx")
    /\ UNCHANGED <<timers, reader, held, readErr, ctxDone, net>>

-----------------------------------------------------------------------------
(* The server, the network, the session's context and the clock. *)

Arrive(f) ==
    /\ phase # "over" /\ ~broken /\ sent < Rate
    /\ wire' = Append(wire, f)
    /\ sent' = sent + 1
    /\ UNCHANGED <<phase, err, timers, reader, held, readErr, ctxDone, broken>>

Break ==
    /\ phase # "over" /\ ~broken
    /\ broken' = TRUE
    /\ UNCHANGED <<phase, err, timers, reader, held, readErr, ctxDone, wire, sent>>

Cancel ==
    /\ phase # "over" /\ ~ctxDone
    /\ ctxDone' = TRUE
    /\ UNCHANGED <<phase, err, timers, reader, held, readErr, net>>

\* Something that this tick still has time for.
Busy ==
    \/ Dialing /\ (wire # <<>> \/ broken \/ ctxDone)
    \/ phase = "running" /\ (reader = "hold" \/ readErr \/ ctxDone \/ (ping = 0 /\ ~awaiting))
    \/ reader = "read" /\ (wire # <<>> \/ broken)

Tick ==
    /\ phase # "over" /\ ~Busy /\ deadline > 0
    /\ deadline' = deadline - 1
    /\ sent' = 0
    /\ IF phase = "running"
       THEN /\ quiet' = quiet + 1
            /\ ping' = IF awaiting THEN ping ELSE ping - 1
       ELSE UNCHANGED <<quiet, ping>>
    /\ UNCHANGED <<phase, err, awaiting, reader, held, readErr, ctxDone, wire, broken>>

-----------------------------------------------------------------------------
Dial == ReadOpen \/ ReadConnect \/ DialFails
Reader == ReaderReads \/ ReaderFails \/ ReaderStops
Run == TakeFrame \/ SendPing \/ PingFails \/ GiveUp \/ TakeReadErr \/ TakeDone

Next ==
    \/ Dial \/ Reader \/ Run
    \/ Break \/ Cancel \/ Tick
    \/ \E f \in Frames : Arrive(f)

Spec == Init /\ [][Next]_vars

\* Goroutines run and time passes.  The server owes nothing.
FairSpec == Spec /\ WF_vars(Dial) /\ WF_vars(Reader) /\ WF_vars(Run) /\ WF_vars(Tick)

-----------------------------------------------------------------------------
\* Type correctness of every variable.
TypeOK ==
    /\ phase \in {"opening", "joining", "running", "over"}
    /\ err \in {"dial", "closed", "io", "heartbeat", "ctx", None}
    /\ deadline \in Nat
    /\ ping \in 0..Interval
    /\ quiet \in Nat
    /\ reader \in {"off", "read", "hold", "done"}
    /\ held \in Frames \cup {None}
    /\ awaiting \in BOOLEAN /\ readErr \in BOOLEAN /\ ctxDone \in BOOLEAN /\ broken \in BOOLEAN
    /\ wire \in Seq(Frames)
    /\ sent \in 0..Rate

\* A dead connection is noticed: Run never goes on for longer than pingInterval
\* plus pingTimeout without a frame, whenever the ping falls in between.
SilenceDetected == phase = "running" => quiet <= Interval + Timeout

\* A live one is kept: "ping timeout" means that not one frame of any kind was
\* received for at least pingTimeout.
NotGivenUpEarly == err = "heartbeat" => quiet >= Timeout

\* Dial ends, with a connection or an error, against a server that stops
\* half-way through the handshake or keeps sending noops.
DialEnds == Dialing ~> ~Dialing

\* The reading goroutine outlives Run only until it can be told, blocked in a
\* read or on a frame that nobody takes.
ReaderEnds == phase = "over" ~> reader \in {"off", "done"}

\* The inductive invariant: how far apart the two timers and the silence are.
IInv ==
    /\ TypeOK
    /\ phase = "running" =>
          /\ quiet + deadline <= Interval + Timeout
          /\ quiet + deadline >= Timeout
          /\ ~awaiting => quiet + ping <= Interval
    /\ Dialing => quiet = 0 /\ ~awaiting
    /\ reader = "hold" => held \in Frames
    /\ err = "heartbeat" => phase = "over" /\ quiet >= Timeout
=============================================================================
