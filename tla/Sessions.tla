------------------------------ MODULE Sessions ------------------------------
(***************************************************************************)
(* Login sessions: withUser of internal/web/middleware.go, startLogin,     *)
(* callback and logout of internal/web/auth.go, and the table behind them  *)
(* in internal/store/sessions.go.                                          *)
(*                                                                         *)
(* One browser has several requests under way.  A request is a goroutine   *)
(* whose steps are its queries and transactions.  Its cookies are those of *)
(* when it was sent; its answer sets cookies when it arrives, in any order *)
(* with the other answers, or never.  Package scs is outside the           *)
(* repository: LoadAndSave looks the session up and, before the answer's   *)
(* header, saves a modified session and sets or clears its cookie.         *)
(***************************************************************************)
EXTENDS Naturals, FiniteSets

CONSTANTS
    Accounts,   \* Chzzk accounts, each with at most one users row
    Tokens,     \* session tokens: random, never drawn twice
    Flows,      \* values of the OAuth state: likewise
    Requests,   \* requests the browser may have under way
    None,       \* no cookie, no row, no user
    Keep        \* an answer that does not set the cookie

ASSUME SessionsAssumption ==
    /\ None \notin Accounts \cup Tokens \cup Flows
    /\ Keep \notin Tokens \cup Flows \cup {None}

ASSUME NoRowAssumption == None \notin [user : Accounts, live : BOOLEAN]

VARIABLES
    \* the database
    rows,      \* the sessions table: token -> [user, live] or None
    fate,      \* of a token: "fresh", "drawn", and "stored" once it was in a row
    \* the browser
    session,   \* the cookie "session"
    flow,      \* the cookie "oauth_state"
    begun,     \* the states drawn by startLogin so far
    \* one request
    pc, kind,
    carried,   \* the session cookie it was sent with
    sent,      \* the oauth_state cookie it was sent with
    param,     \* the callback's parameter "state"
    held,      \* scs: the token of the session data
    who,       \* scs: userID in it; in a callback, the account that logs in
    setSession, setFlow,   \* the cookies its answer sets, so far
    \* ghosts
    crossed,   \* a login's answer was lost, or an answer replaced another's cookie
    out,       \* the browser has seen a logout succeed, and no login since
    closed     \* states begun before the last answer of a callback

dbVars      == <<rows, fate>>
ghosts      == <<crossed, out, closed>>
browserVars == <<session, flow, begun, ghosts>>
sentVars    == <<kind, carried>>
localVars   == <<sent, param, held, who>>
answerVars  == <<setSession, setFlow>>
vars == <<dbVars, browserVars, pc, sentVars, localVars, answerVars>>

Live(t) == t # None /\ rows[t] # None /\ rows[t].live

Init ==
    /\ rows = [t \in Tokens |-> None]
    /\ fate = [t \in Tokens |-> "fresh"]
    /\ session = None /\ flow = None /\ begun = {}
    /\ pc = [r \in Requests |-> "idle"]
    /\ kind = [r \in Requests |-> "page"]
    /\ carried = [r \in Requests |-> None]
    /\ sent = [r \in Requests |-> None]
    /\ param = [r \in Requests |-> None]
    /\ held = [r \in Requests |-> None]
    /\ who = [r \in Requests |-> None]
    /\ setSession = [r \in Requests |-> Keep]
    /\ setFlow = [r \in Requests |-> Keep]
    /\ crossed = FALSE /\ out = FALSE /\ closed = {}

Goto(r, label) == pc' = [pc EXCEPT ![r] = label]

\* The handler returns: its locals are gone.
DropLocals(r) ==
    /\ sent' = [sent EXCEPT ![r] = None]
    /\ param' = [param EXCEPT ![r] = None]
    /\ held' = [held EXCEPT ![r] = None]
    /\ who' = [who EXCEPT ![r] = None]

\* It answers with these cookies.
Answer(r, ses, fl) ==
    /\ Goto(r, "answered")
    /\ DropLocals(r)
    /\ setSession' = [setSession EXCEPT ![r] = ses]
    /\ setFlow' = [setFlow EXCEPT ![r] = fl]
    /\ UNCHANGED carried

-----------------------------------------------------------------------------
(* The browser. *)

\* A click: a page, the login link, the logout form, or the return from Chzzk's
\* consent page with the state of some login that was begun.
Send(r, k, f) ==
    /\ pc[r] = "idle"
    /\ IF k = "callback" THEN f \in begun ELSE f = None
    /\ Goto(r, "load")
    /\ kind' = [kind EXCEPT ![r] = k]
    /\ carried' = [carried EXCEPT ![r] = session]
    /\ sent' = [sent EXCEPT ![r] = IF k = "callback" THEN flow ELSE None]
    /\ param' = [param EXCEPT ![r] = f]
    /\ out' = (out /\ k # "callback")
    /\ UNCHANGED <<dbVars, session, flow, begun, crossed, closed, held, who, answerVars>>

Over(r) ==
    /\ Goto(r, "idle")
    /\ DropLocals(r)
    /\ kind' = [kind EXCEPT ![r] = "page"]
    /\ carried' = [carried EXCEPT ![r] = None]
    /\ setSession' = [setSession EXCEPT ![r] = Keep]
    /\ setFlow' = [setFlow EXCEPT ![r] = Keep]

Cookie(old, set) == IF set = Keep THEN old ELSE set

LoginUnderWay(r) == \E q \in Requests \ {r} : kind[q] = "callback"

\* The answer's cookies take effect.
Arrive(r) ==
    /\ pc[r] = "answered"
    /\ session' = Cookie(session, setSession[r])
    /\ flow' = Cookie(flow, setFlow[r])
    /\ crossed' = (crossed \/ (session # session' /\ session \notin {None, carried[r]}))
    /\ out' = IF kind[r] = "logout" /\ setSession[r] = None THEN ~LoginUnderWay(r) ELSE out
    /\ closed' = IF kind[r] = "callback"
                 THEN begun \ {setFlow[q] : q \in Requests} ELSE closed
    /\ Over(r)
    /\ UNCHANGED <<dbVars, begun>>

\* The browser gives the request up, or the process stops: the remaining
\* steps are not taken, and no answer arrives.
Lose(r) ==
    /\ pc[r] # "idle"
    /\ crossed' = (crossed \/ setSession[r] \in Tokens)
    /\ Over(r)
    /\ UNCHANGED <<dbVars, session, flow, begun, out, closed>>

\* The state cookie lives for five minutes.
ExpireFlow ==
    /\ flow # None
    /\ flow' = None
    /\ UNCHANGED <<dbVars, session, begun, ghosts, pc, sentVars, localVars, answerVars>>

-----------------------------------------------------------------------------
(* LoadAndSave and withUser. *)

\* Fault: a lookup prolongs the session, as with scs's IdleTimeout.
TouchSession(r) ==
    /\ held' = [held EXCEPT ![r] = carried[r]]
    /\ who' = [who EXCEPT ![r] = rows[carried[r]].user]
    /\ setSession' = [setSession EXCEPT ![r] = carried[r]]
FindSession(r) ==
    /\ held' = [held EXCEPT ![r] = carried[r]]
    /\ who' = [who EXCEPT ![r] = rows[carried[r]].user]
    /\ UNCHANGED setSession

\* An expired row is not found: the request gets a new, empty session.
Load(r) ==
    /\ pc[r] = "load"
    /\ IF Live(carried[r])
       THEN FindSession(r) /\ Goto(r, "user")
       ELSE Goto(r, "handler") /\ UNCHANGED <<held, who, setSession>>
    /\ UNCHANGED <<dbVars, browserVars, sentVars, sent, param, setFlow>>

\* GetUserByID finds the user of the session.
UserFound(r) ==
    /\ pc[r] = "user"
    /\ Goto(r, "handler")
    /\ UNCHANGED <<dbVars, browserVars, sentVars, localVars, answerVars>>

\* The lookup or GetUserByID fails: 500, and no handler runs.
LoadFails(r) ==
    /\ pc[r] \in {"load", "user"}
    /\ Answer(r, setSession[r], setFlow[r])
    /\ kind' = [kind EXCEPT ![r] = "page"]
    /\ UNCHANGED <<dbVars, browserVars>>

Without(t) == IF t = None THEN rows ELSE [rows EXCEPT ![t] = None]

\* The users row is gone (it was deleted by hand): Destroy the session, and go
\* on also when that fails.
UserGone(r) ==
    /\ pc[r] = "user"
    /\ Goto(r, "handler")
    /\ \/ /\ rows' = Without(held[r])
          /\ held' = [held EXCEPT ![r] = None]
          /\ who' = [who EXCEPT ![r] = None]
          /\ setSession' = [setSession EXCEPT ![r] = None]
       \/ UNCHANGED <<rows, held, who, setSession>>
    /\ UNCHANGED <<fate, browserVars, sentVars, sent, param, setFlow>>

-----------------------------------------------------------------------------
(* The handlers. *)

\* Any page, fragment or form, for a user or an anonymous visitor; also a
\* callback over the rate limit, which is refused before any cookie is touched.
Page(r) ==
    /\ pc[r] = "handler" /\ kind[r] = "page"
    /\ Answer(r, setSession[r], Keep)
    /\ UNCHANGED <<dbVars, browserVars, kind>>

\* A new state, in a cookie and in the redirect to Chzzk.
startLogin(r, f) ==
    /\ pc[r] = "handler" /\ kind[r] = "start"
    /\ f \notin begun
    /\ begun' = begun \cup {f}
    /\ Answer(r, setSession[r], f)
    /\ UNCHANGED <<dbVars, session, flow, ghosts, kind>>

\* Destroy; when that fails the answer is the same redirect.
logout(r) ==
    /\ pc[r] = "handler" /\ kind[r] = "logout"
    /\ \/ rows' = Without(held[r]) /\ Answer(r, None, Keep)
       \/ UNCHANGED rows /\ Answer(r, setSession[r], Keep)
    /\ UNCHANGED <<fate, browserVars, kind>>

\* Fault: a callback that fails leaves the state cookie.
CallbackFailsEarly(r) ==
    /\ pc[r] = "handler" /\ kind[r] = "callback"
    /\ Answer(r, setSession[r], Keep)
    /\ UNCHANGED <<dbVars, browserVars, kind>>

\* A wrong state, ExchangeCode, Me, or the transaction that saves the user and
\* the channel: the oauth cookies are cleared all the same.
CallbackFails(r) ==
    /\ pc[r] = "handler" /\ kind[r] = "callback"
    /\ Answer(r, setSession[r], None)
    /\ UNCHANGED <<dbVars, browserVars, kind>>

\* The state fits, Chzzk names the account that consented, and it is saved.
Consented(r, a) ==
    /\ pc[r] = "handler" /\ kind[r] = "callback"
    /\ sent[r] # None /\ sent[r] = param[r]
    /\ who' = [who EXCEPT ![r] = a]
    /\ setFlow' = [setFlow EXCEPT ![r] = None]
    /\ Goto(r, "renew")
    /\ UNCHANGED <<dbVars, browserVars, sentVars, sent, param, held, setSession>>

Draw(r, t) ==
    /\ fate[t] = "fresh"
    /\ fate' = [fate EXCEPT ![t] = "drawn"]
    /\ held' = [held EXCEPT ![r] = t]

\* Fault: the login goes into the session the browser came with.
KeepToken(r, t) ==
    /\ UNCHANGED rows
    /\ IF held[r] = None THEN Draw(r, t) ELSE UNCHANGED <<fate, held>>
\* Fault: the old row stays.
NewTokenOnly(r, t) == UNCHANGED rows /\ Draw(r, t)
RenewToken(r, t) == rows' = Without(held[r]) /\ Draw(r, t)

\* RenewToken, then Put of the user's id.
Renew(r, t) ==
    /\ pc[r] = "renew"
    /\ RenewToken(r, t)
    /\ setSession' = [setSession EXCEPT ![r] = Keep]
    /\ Goto(r, "commit")
    /\ UNCHANGED <<browserVars, sentVars, sent, param, who, setFlow>>

\* The redirect makes scs commit the session.
Commit(r) ==
    /\ pc[r] = "commit"
    /\ rows' = [rows EXCEPT ![held[r]] = [user |-> who[r], live |-> TRUE]]
    /\ fate' = [fate EXCEPT ![held[r]] = "stored"]
    /\ Answer(r, held[r], setFlow[r])
    /\ UNCHANGED <<browserVars, kind>>

\* RenewToken's delete fails, or the commit, after the old row has gone.
LoginFails(r) ==
    /\ pc[r] \in {"renew", "commit"}
    /\ Answer(r, setSession[r], setFlow[r])
    /\ UNCHANGED <<dbVars, browserVars, kind>>

-----------------------------------------------------------------------------
(* Time and the clean-up. *)

\* A row's lifetime ends.
Expire(t) ==
    /\ Live(t)
    /\ rows' = [rows EXCEPT ![t].live = FALSE]
    /\ UNCHANGED <<fate, browserVars, pc, sentVars, localVars, answerVars>>

\* Fault: the comparison of DeleteExpiredSessions is the wrong way round.
NotExpired(t) == Live(t)
Expired(t) == rows[t] # None /\ ~rows[t].live

\* A tick of Cleanup; a failing one leaves everything to the next.
Cleanup ==
    /\ rows' = [t \in Tokens |-> IF Expired(t) THEN None ELSE rows[t]]
    /\ UNCHANGED <<fate, browserVars, pc, sentVars, localVars, answerVars>>

-----------------------------------------------------------------------------
Kinds == {"page", "start", "callback", "logout"}

Browser(r) == Arrive(r) \/ Lose(r) \/ \E k \in Kinds, f \in Flows \cup {None} : Send(r, k, f)

Callback(r) ==
    \/ CallbackFails(r)
    \/ \E a \in Accounts : Consented(r, a)
    \/ \E t \in Tokens : Renew(r, t)
    \/ Commit(r) \/ LoginFails(r)

Server(r) ==
    \/ Load(r) \/ UserFound(r) \/ UserGone(r) \/ LoadFails(r)
    \/ Page(r) \/ logout(r) \/ Callback(r)
    \/ \E f \in Flows : startLogin(r, f)

Next ==
    \/ \E r \in Requests : Browser(r) \/ Server(r)
    \/ \E t \in Tokens : Expire(t)
    \/ Cleanup \/ ExpireFlow

Spec == Init /\ [][Next]_vars

-----------------------------------------------------------------------------
PCs == {"idle", "load", "user", "handler", "renew", "commit", "answered"}

\* Type correctness of every variable.
TypeOK ==
    /\ rows \in [Tokens -> [user : Accounts, live : BOOLEAN] \cup {None}]
    /\ fate \in [Tokens -> {"fresh", "drawn", "stored"}]
    /\ session \in Tokens \cup {None} /\ flow \in Flows \cup {None} /\ begun \subseteq Flows
    /\ pc \in [Requests -> PCs] /\ kind \in [Requests -> Kinds]
    /\ carried \in [Requests -> Tokens \cup {None}]
    /\ sent \in [Requests -> Flows \cup {None}] /\ param \in [Requests -> Flows \cup {None}]
    /\ held \in [Requests -> Tokens \cup {None}] /\ who \in [Requests -> Accounts \cup {None}]
    /\ setSession \in [Requests -> Tokens \cup {None, Keep}]
    /\ setFlow \in [Requests -> Flows \cup {None, Keep}]
    /\ crossed \in BOOLEAN /\ out \in BOOLEAN /\ closed \subseteq Flows

\* A token speaks for one user and for one lifetime: it is stored once, its row
\* never changes hands and never comes back, whatever requests are under way,
\* and before it expires only a request that came with it can end it.
TokenForLife ==
    [][\A t \in Tokens :
          /\ fate[t] = "stored" /\ rows'[t] # None =>
                /\ rows[t] # None /\ rows'[t].user = rows[t].user
                /\ rows'[t].live => rows[t].live
          /\ Live(t) /\ rows'[t] = None =>
                \E r \in Requests : pc[r] # "idle" /\ carried[r] = t]_vars

\* Once the browser has shown a logout that worked, no answer that is still on
\* its way logs it in again: only logins set the cookie.
LoggedOutStays == out => session = None

\* A live session is the browser's own or on its way to it.  The only ones left
\* behind come from a login whose answer was lost, or from answers that
\* overtook each other: renewing and logging out delete the row they replace.
OrphanOnlyIfCrossed ==
    ~crossed => \A t \in Tokens : Live(t) =>
        session = t \/ \E r \in Requests : pc[r] = "answered" /\ setSession[r] = t

\* One state, one callback: once a callback was answered, the states begun
\* before are of no use to another one, also when it was answered with a
\* failure and whichever tabs they came from.
StateOnce == flow \notin closed

-----------------------------------------------------------------------------
(* The inductive invariant behind the properties.                           *)

\* A token is drawn, then stored, once; a request about to commit owns the one
\* it drew; every token the browser knows was stored.
TokenFates ==
    /\ \A t \in Tokens : rows[t] # None => fate[t] = "stored"
    /\ \A t \in Tokens : fate[t] = "fresh" => \A r \in Requests : held[r] # t
    /\ session # None => fate[session] = "stored"
    /\ \A r \in Requests :
          /\ carried[r] # None => fate[carried[r]] = "stored"
          /\ setSession[r] \in Tokens => fate[setSession[r]] = "stored"
          /\ pc[r] = "commit" => held[r] # None /\ fate[held[r]] = "drawn"
    /\ \A q, r \in Requests :
          pc[q] = "commit" /\ pc[r] = "commit" /\ held[q] = held[r] => q = r

\* What a request holds is what it came with, until it draws a token.
OwnSession ==
    \A r \in Requests :
        /\ held[r] # None /\ pc[r] # "commit" => held[r] = carried[r]
        /\ pc[r] \in {"idle", "load", "answered"} => held[r] = None
        /\ pc[r] = "user" => held[r] # None
        /\ pc[r] \in {"user", "renew", "commit"} => who[r] # None
        /\ pc[r] = "idle" => carried[r] = None /\ setSession[r] = Keep
        /\ pc[r] = "load" => setSession[r] = Keep

\* A request without a session of its own, or whose answer replaces the
\* browser's, has left nothing behind under the token it came with.
NothingLeft ==
    \A r \in Requests :
        (\/ pc[r] \in {"handler", "renew"} /\ held[r] = None
         \/ pc[r] = "commit"
         \/ setSession[r] # Keep) => ~Live(carried[r])

\* Only a callback sets the session cookie or holds a login.
OnlyLogins ==
    /\ \A r \in Requests :
          /\ pc[r] = "idle" => kind[r] = "page"
          /\ pc[r] \in {"renew", "commit"} \/ setSession[r] \in Tokens => kind[r] = "callback"
          /\ setSession[r] \in Tokens => pc[r] = "answered"
    /\ out => \A r \in Requests : kind[r] # "callback"

\* A state on its way to the browser is newer than every closed one.
States ==
    /\ closed \subseteq begun
    /\ \A r \in Requests :
          /\ pc[r] = "idle" => setFlow[r] = Keep
          /\ setFlow[r] \in Flows => setFlow[r] \in begun \ closed
          /\ kind[r] = "callback" /\ pc[r] \in {"renew", "commit", "answered"} => setFlow[r] = None
          /\ kind[r] = "callback" => setFlow[r] \in {None, Keep}

IInv ==
    /\ TypeOK /\ TokenFates /\ OwnSession /\ NothingLeft /\ OnlyLogins /\ States
    /\ LoggedOutStays /\ OrphanOnlyIfCrossed /\ StateOnce
=============================================================================
