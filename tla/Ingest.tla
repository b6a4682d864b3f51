------------------------------- MODULE Ingest -------------------------------
(***************************************************************************)
(* Hub.ingest for one worker: sessions in sequence, each from a fresh      *)
(* token and URL to a socket, with the goroutines `go h.subscribe' that    *)
(* the socket's "connected" events start and that may outlive it.          *)
(*                                                                         *)
(* Only the current session is kept: a subscribe goroutine remembers       *)
(* whether it is of the current session, whose context is then its own.    *)
(***************************************************************************)
EXTENDS Naturals

CONSTANTS
    Helpers,                 \* goroutines running subscribe at a time
    Attempts,                \* subscribeAttempts
    MinBackoff, MaxBackoff,  \* in units of MinBackoff
    None

ASSUME IngestAssumption ==
    /\ {Attempts, MinBackoff, MaxBackoff} \subseteq Nat \ {0}
    /\ MinBackoff <= MaxBackoff

\* A session without a cause has not failed.
ASSUME NoneIsNoCause == None \notin {"no key", "subscribe"}

VARIABLES
    ctxDone,   \* the worker's context: teardown or shutdown
    at,        \* where ingest is
    backoff,
    cause,     \* context.Cause of the current session's context
    connected, \* SYSTEM "connected" has come in the current session
    bound,     \* the current session receives CHAT events
    helper,    \* helper -> what it is doing
    mine,      \* helper -> it belongs to the current session
    tries      \* helper -> attempts begun

session == <<cause, connected, bound>>
helpers == <<helper, mine, tries>>
vars == <<ctxDone, at, backoff, session, helpers>>

Smaller(a, b) == IF a < b THEN a ELSE b

Init ==
    /\ ctxDone = FALSE
    /\ at = "token"
    /\ backoff = MinBackoff
    /\ cause = None /\ connected = FALSE /\ bound = FALSE
    /\ helper = [h \in Helpers |-> "off"]
    /\ mine = [h \in Helpers |-> FALSE]
    /\ tries = [h \in Helpers |-> 0]

-----------------------------------------------------------------------------
(* The loop of ingest, and session up to sock.Run. *)

\* A call of session's first three, with the error that ends the session.
Step(from, to) ==
    /\ at = from
    /\ at' \in {to, "ended"}
    /\ UNCHANGED <<ctxDone, backoff, session, helpers>>

AccessToken == Step("token", "url")
UserSessionURL == Step("url", "dial")

\* The session's own context starts with the socket.
DialFails ==
    /\ at = "dial"
    /\ at' = "ended"
    /\ UNCHANGED <<ctxDone, backoff, session, helpers>>

DialOK ==
    /\ at = "dial"
    /\ at' = "run"
    /\ cause' = None /\ connected' = FALSE /\ bound' = FALSE
    /\ UNCHANGED <<ctxDone, backoff, helpers>>

\* Fault: the session's context does not derive from the worker's.
SessionFailed == at # "run" \/ cause # None
SessionDone == ctxDone \/ at # "run" \/ cause # None

\* Run returns: its context is done, or the server or the network ended it.
\* The deferred fail(nil) then ends the context of every helper of the session.
RunReturns ==
    /\ at = "run"
    /\ at' = "ended"
    /\ mine' = [h \in Helpers |-> FALSE]
    /\ UNCHANGED <<ctxDone, backoff, session, helper, tries>>

\* session has returned; one that lasted resets the backoff.
Ended ==
    /\ at = "ended"
    /\ at' = IF ctxDone THEN "exited" ELSE "sleep"
    /\ backoff' \in IF ctxDone THEN {backoff} ELSE {backoff, MinBackoff}
    /\ UNCHANGED <<ctxDone, session, helpers>>

\* Fault: the loop ends after a failure at the longest backoff.
WakeOrQuit ==
    /\ at = "sleep"
    /\ at' = IF ctxDone \/ backoff = MaxBackoff THEN "exited" ELSE "token"
    /\ backoff' = Smaller(backoff * 2, MaxBackoff)
    /\ UNCHANGED <<ctxDone, session, helpers>>

\* Fault: no cap.
UncappedBackoff(b) == b * 2
NextBackoff(b) == Smaller(b * 2, MaxBackoff)

Wake ==
    /\ at = "sleep"
    /\ at' = IF ctxDone THEN "exited" ELSE "token"
    /\ backoff' = NextBackoff(backoff)
    /\ UNCHANGED <<ctxDone, session, helpers>>

Cancel ==
    /\ ~ctxDone
    /\ ctxDone' = TRUE
    /\ UNCHANGED <<at, backoff, session, helpers>>

-----------------------------------------------------------------------------
(* Events of the socket. *)

\* fail(err): the first cause stands, and the worker's own end comes before it.
FailSession(e) == cause' = IF cause = None /\ ~ctxDone THEN e ELSE cause

NoSessionKey ==
    /\ at = "run"
    /\ connected' = TRUE
    /\ FailSession("no key")
    /\ UNCHANGED <<ctxDone, at, backoff, bound, helpers>>

Connected(h) ==
    /\ at = "run" /\ helper[h] = "off"
    /\ connected' = TRUE
    /\ helper' = [helper EXCEPT ![h] = "call"]
    /\ mine' = [mine EXCEPT ![h] = TRUE]
    /\ tries' = [tries EXCEPT ![h] = 1]
    /\ UNCHANGED <<ctxDone, at, backoff, cause, bound>>

-----------------------------------------------------------------------------
(* subscribe. *)

HelperDone(h) == ~mine[h] \/ SessionDone

\* SubscribeChat succeeds for the key of the helper's session.
SubscribeOK(h) ==
    /\ helper[h] = "call"
    /\ helper' = [helper EXCEPT ![h] = "off"]
    /\ bound' = IF mine[h] THEN TRUE ELSE bound
    /\ UNCHANGED <<ctxDone, at, backoff, cause, connected, mine, tries>>

\* An error, if only because the context is done.
SubscribeFails(h) ==
    /\ helper[h] = "call"
    /\ helper' = [helper EXCEPT ![h] =
                    IF HelperDone(h) THEN "off"
                    ELSE IF tries[h] = Attempts THEN "give up" ELSE "sleep"]
    /\ UNCHANGED <<ctxDone, at, backoff, session, mine, tries>>

\* Fault: subscribe gives up quietly.
GiveUpQuietly(h) ==
    /\ helper[h] = "give up"
    /\ helper' = [helper EXCEPT ![h] = "off"]
    /\ UNCHANGED <<ctxDone, at, backoff, session, mine, tries>>

\* Fault: fail belongs to the worker, not to the session.
GiveUpAny(h) ==
    /\ helper[h] = "give up"
    /\ helper' = [helper EXCEPT ![h] = "off"]
    /\ FailSession("subscribe")
    /\ UNCHANGED <<ctxDone, at, backoff, connected, bound, mine, tries>>

\* fail() on the helper's own session, which may have ended meanwhile.
GiveUp(h) ==
    /\ helper[h] = "give up"
    /\ helper' = [helper EXCEPT ![h] = "off"]
    /\ IF mine[h] THEN FailSession("subscribe") ELSE UNCHANGED cause
    /\ UNCHANGED <<ctxDone, at, backoff, connected, bound, mine, tries>>

\* The sleep is over, or cut short by the context.
Retry(h) ==
    /\ helper[h] = "sleep"
    /\ helper' = [helper EXCEPT ![h] = "call"]
    /\ tries' = [tries EXCEPT ![h] = @ + 1]
    /\ UNCHANGED <<ctxDone, at, backoff, session, mine>>

-----------------------------------------------------------------------------
Loop == AccessToken \/ UserSessionURL \/ DialFails \/ DialOK \/ Ended \/ Wake

Subscribe(h) == SubscribeOK(h) \/ SubscribeFails(h) \/ GiveUp(h) \/ Retry(h)

\* The worker is gone and so is every goroutine it started.
Exited ==
    /\ at = "exited" /\ \A h \in Helpers : helper[h] = "off"
    /\ UNCHANGED vars

Next ==
    \/ Loop \/ RunReturns \/ Cancel \/ NoSessionKey
    \/ \E h \in Helpers : Connected(h) \/ Subscribe(h)
    \/ Exited

Spec == Init /\ [][Next]_vars

\* Every call returns (the API's have a timeout, Dial too), sleeps end, and Run
\* returns once its context is done.  A session may go on for ever, and the
\* server need not send anything.
FairSpec ==
    /\ Spec
    /\ WF_vars(Loop) /\ WF_vars(SessionDone /\ RunReturns)
    /\ \A h \in Helpers : WF_vars(Subscribe(h))

-----------------------------------------------------------------------------
\* Type correctness of every variable; the backoff stays between its bounds,
\* and a helper makes no more than Attempts calls.
TypeOK ==
    /\ ctxDone \in BOOLEAN /\ connected \in BOOLEAN /\ bound \in BOOLEAN
    /\ at \in {"token", "url", "dial", "run", "ended", "sleep", "exited"}
    /\ backoff \in MinBackoff..MaxBackoff
    /\ cause \in {None, "no key", "subscribe"}
    /\ helper \in [Helpers -> {"off", "call", "sleep", "give up"}]
    /\ mine \in [Helpers -> BOOLEAN]
    /\ tries \in [Helpers -> 0..Attempts]

\* What the attempts of a subscribe goroutine are at each of its steps.
AttemptsCounted ==
    \A h \in Helpers :
        /\ helper[h] \in {"call", "sleep"} => tries[h] > 0
        /\ helper[h] = "sleep" => tries[h] < Attempts
        /\ helper[h] = "give up" => tries[h] = Attempts

IngestInv == TypeOK /\ AttemptsCounted

\* A subscribe goroutine left over from an earlier session cannot end the
\* session that replaced it: a session is ended for want of a subscription
\* only by a helper of its own that used up its attempts.
OwnFailureOnly ==
    [][cause # "subscribe" /\ cause' = "subscribe" =>
         \E h \in Helpers : mine[h] /\ helper[h] = "give up" /\ tries[h] = Attempts]_vars

\* A connected session does not sit without chat: it is subscribed, or it is
\* restarted.
SubscribedOrRestarted ==
    (at = "run" /\ connected) ~> (bound \/ at # "run")

\* Nothing makes a worker give up while somebody watches: after any failure it
\* asks for a token again.
KeepsTrying == (at \in {"url", "dial", "ended", "sleep"}) ~> (at \in {"run", "token"} \/ ctxDone)

\* Once cancelled, ingest exits and leaves no goroutine behind.
StopsWhenCancelled == ctxDone ~> (at = "exited" /\ \A h \in Helpers : helper[h] = "off")
=============================================================================
