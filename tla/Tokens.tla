------------------------------- MODULE Tokens -------------------------------
(***************************************************************************)
(* The Chzzk token pair of one channel: Tokens.AccessToken, called by the  *)
(* channel's workers (an old one may still be in it when its successor     *)
(* starts), the OAuth callback, and the process crashing under both.       *)
(*                                                                         *)
(* A pair of access and refresh token is the number under which Chzzk      *)
(* issued it.  Chzzk is not in src/: a refresh token it accepts may be     *)
(* rotated, that is, accepted only once, its answer may lack a refresh     *)
(* token or expiresIn, and a login may revoke what was issued before it.   *)
(* Time passes in ticks, which no call outlasts.                           *)
(***************************************************************************)
EXTENDS Naturals

CONSTANTS
    Callers,    \* workers' calls of AccessToken
    Browsers,   \* the streamer's windows in which a login may be under way
    MaxPairs,   \* bound of the model on the pairs issued
    Life,       \* expiresIn of a pair, and defaultExpiresIn
    Skew,       \* refreshSkew
    Latency,    \* from Chzzk's issuing of a pair to its commit, at most
    Use,        \* from AccessToken's answer to the last subscribe, at most
    None

\* The calls between an issue and its commit, or between an answer and the last
\* subscribe, each have a timeout of seconds; refreshSkew is five minutes.
ASSUME TokensAssumption ==
    /\ {MaxPairs, Life} \subseteq Nat \ {0} /\ {Skew, Latency, Use} \subseteq Nat
    /\ Latency + Use <= Skew /\ Skew < Life
    /\ None \notin Nat

VARIABLES
    stored,     \* channels: the pair of the row, or None
    expiry,     \* what its token_expires_at is ahead of the clock, or None for NULL
    at,         \* caller -> where it is in AccessToken, or "use" of its answer
    read,       \* caller -> the pair it read
    got,        \* caller -> the pair its refresh returned
    result,     \* caller -> the pair whose access token its session uses
    left,       \* caller -> how long that use may still last
    login,      \* browser -> its callback's pair, from exchange to transaction
    issued,     \* Chzzk: pairs issued so far
    accepted,   \* Chzzk: pairs whose refresh token it accepts
    life,       \* Chzzk: pair -> how long its access token has to live
    bare,       \* pairs without a refresh token
    vague,      \* pairs whose expiresIn was missing or no longer than Skew
    lost,       \* ghost: pairs rotated or revoked for a pair that was never stored
    overtaken,  \* ghost: pairs stored over a row that had changed meanwhile
    newest      \* ghost: the newest login stored, 0 before the first

row == <<stored, expiry>>
local == <<at, read, got, result, left>>
chzzk == <<issued, accepted, life, bare, vague>>
ghosts == <<lost, overtaken, newest>>
vars == <<row, local, login, chzzk, ghosts>>

Pairs == 1..MaxPairs

\* No row, or one that was imported: its expiry may be NULL, its refresh token
\* NULL or dead, and what it says of its life need not be so.
Init ==
    /\ \/ stored = None /\ expiry = None /\ issued = 0
       \/ stored = 1 /\ expiry \in 0..Life \cup {None} /\ issued = 1
    /\ vague = 1..issued /\ bare \in SUBSET vague /\ accepted = vague \ bare
    /\ at = [c \in Callers |-> "idle"]
    /\ read = [c \in Callers |-> None]
    /\ got = [c \in Callers |-> None]
    /\ result = [c \in Callers |-> None]
    /\ left = [c \in Callers |-> 0]
    /\ login = [b \in Browsers |-> None]
    /\ life = [p \in Pairs |-> 0]
    /\ lost = {} /\ overtaken = {} /\ newest = 0

-----------------------------------------------------------------------------
(* AccessToken.  A call that fails before it refreshes (no row, no access    *)
(* token, an error of the query) changes nothing.                            *)

\* The call has returned an error.
Fail(c) ==
    /\ at' = [at EXCEPT ![c] = "idle"]
    /\ read' = [read EXCEPT ![c] = None]
    /\ got' = [got EXCEPT ![c] = None]
    /\ UNCHANGED <<result, left>>

\* The call has returned p's access token, which the session now uses.
Answer(c, p) ==
    /\ at' = [at EXCEPT ![c] = "use"]
    /\ read' = [read EXCEPT ![c] = None]
    /\ got' = [got EXCEPT ![c] = None]
    /\ result' = [result EXCEPT ![c] = p]
    /\ left' = [left EXCEPT ![c] = Use]

\* Fault: a token is good until it has expired.
NotExpired == expiry # None => 0 < expiry
Usable == expiry # None => Skew < expiry

ReadGood(c) ==
    /\ at[c] = "idle" /\ stored # None /\ Usable
    /\ Answer(c, stored)
    /\ UNCHANGED <<row, login, chzzk, ghosts>>

ReadNear(c) ==
    /\ at[c] = "idle" /\ stored # None /\ ~Usable
    /\ at' = [at EXCEPT ![c] = "refresh"]
    /\ read' = [read EXCEPT ![c] = stored]
    /\ UNCHANGED <<row, got, result, left, login, chzzk, ghosts>>

\* A new pair, of which the answer may leave out the refresh token, or give no
\* life or a short one; of such a life nothing is assumed.
Issue ==
    /\ issued < MaxPairs
    /\ issued' = issued + 1
    /\ bare' \in {bare, bare \cup {issued'}}
    /\ vague' \in {vague, vague \cup {issued'}}
    /\ life' = [life EXCEPT ![issued'] = IF issued' \in vague' THEN 0 ELSE Life]

\* The refresh token that an answer brought, if it did.
New == {issued'} \ bare'

\* Chzzk answers the refresh, rotating the token or not.
Refreshed(c) ==
    /\ at[c] = "refresh" /\ read[c] \in accepted
    /\ Issue
    /\ accepted' \in {accepted \cup New, (accepted \ {read[c]}) \cup New}
    /\ got' = [got EXCEPT ![c] = issued']
    /\ at' = [at EXCEPT ![c] = "save"]
    /\ UNCHANGED <<row, read, result, left, login, ghosts>>

\* There is no refresh token, Chzzk refuses it, or it cannot be reached.
RefreshFails(c) ==
    /\ at[c] = "refresh"
    /\ Fail(c)
    /\ UNCHANGED <<row, login, chzzk, ghosts>>

\* Chzzk rotates it and the answer is lost (a timeout, a cancelled context).
AnswerLost(c) ==
    /\ at[c] = "refresh" /\ read[c] \in accepted
    /\ accepted' = accepted \ {read[c]}
    /\ lost' = lost \cup {read[c]}
    /\ Fail(c)
    /\ UNCHANGED <<row, login, issued, life, bare, vague, overtaken, newest>>

\* Fault: the refresh token of the answer is not stored with its access token,
\* so that the row keeps the one that was used.
StoreAccessOnly(c) == read[c]
StorePair(c) == got[c]

\* now + expiresIn, the clock read at some time between issue and commit.
Recorded(p) == IF p \in vague THEN 0..Life ELSE life[p]..Life

Save(c) ==
    /\ at[c] = "save"
    /\ stored' = StorePair(c) /\ expiry' \in Recorded(got[c])
    /\ overtaken' = IF stored = read[c] THEN overtaken ELSE overtaken \cup {got[c]}
    /\ Answer(c, got[c])
    /\ UNCHANGED <<login, chzzk, lost, newest>>

\* The transaction fails, the context ended or the process stops: got is lost.
SaveFails(c) ==
    /\ at[c] = "save"
    /\ lost' = lost \cup ({read[c]} \ accepted)
    /\ Fail(c)
    /\ UNCHANGED <<row, login, chzzk, overtaken, newest>>

\* The session has subscribed, or ended.
Used(c) ==
    /\ at[c] = "use"
    /\ at' = [at EXCEPT ![c] = "idle"]
    /\ result' = [result EXCEPT ![c] = None]
    /\ left' = [left EXCEPT ![c] = 0]
    /\ UNCHANGED <<row, read, got, login, chzzk, ghosts>>

-----------------------------------------------------------------------------
(* The OAuth callback, and the world. *)

\* Chzzk may revoke the pairs it issued before.
ExchangeCode(b) ==
    /\ login[b] = None
    /\ Issue
    /\ login' = [login EXCEPT ![b] = issued']
    /\ accepted' \in {accepted \cup New, New}
    /\ UNCHANGED <<row, local, ghosts>>

\* UpsertUser and UpsertChannel in one transaction.
SaveLogin(b) ==
    /\ login[b] # None
    /\ stored' = login[b] /\ expiry' \in Recorded(login[b])
    /\ login' = [login EXCEPT ![b] = None]
    /\ IF login[b] < newest
       THEN overtaken' = overtaken \cup {login[b]} /\ newest' = newest
       ELSE overtaken' = overtaken /\ newest' = login[b]
    /\ UNCHANGED <<local, chzzk, lost>>

\* What a login revoked, the login itself not being stored.
Revoked(b) == IF login[b] = None THEN {} ELSE (1..login[b]) \ accepted

\* users/me or the transaction fails: "/?error=auth_failed".
LoginFails(b) ==
    /\ login[b] # None
    /\ lost' = lost \cup Revoked(b)
    /\ login' = [login EXCEPT ![b] = None]
    /\ UNCHANGED <<row, local, chzzk, overtaken, newest>>

UnderWay == {got[c] : c \in Callers} \cup {login[b] : b \in Browsers}
Less(n) == IF n > 0 THEN n - 1 ELSE 0

\* No pair is under way for longer than Latency, and no use lasts longer than
\* Use.
Tick ==
    /\ \A p \in UnderWay \ (vague \cup {None}) : life[p] > Life - Latency
    /\ \A c \in Callers : at[c] = "use" => left[c] > 0
    /\ life' = [p \in Pairs |-> Less(life[p])]
    /\ left' = [c \in Callers |-> Less(left[c])]
    /\ expiry' = IF expiry = None THEN None ELSE Less(expiry)
    /\ UNCHANGED <<stored, at, read, got, result, login, issued, accepted, bare, vague, ghosts>>

\* What the refreshes not yet stored were asked with.
Unsaved == {read[c] : c \in {d \in Callers : at[d] = "save"}}

\* The process dies and starts again; what it held in memory is gone.
Crash ==
    /\ at' = [c \in Callers |-> "idle"]
    /\ read' = [c \in Callers |-> None]
    /\ got' = [c \in Callers |-> None]
    /\ result' = [c \in Callers |-> None]
    /\ left' = [c \in Callers |-> 0]
    /\ login' = [b \in Browsers |-> None]
    /\ lost' = lost \cup (UNION {Revoked(b) : b \in Browsers})
                    \cup (Unsaved \ accepted)
    /\ UNCHANGED <<row, chzzk, overtaken, newest>>

AccessToken(c) ==
    \/ ReadGood(c) \/ ReadNear(c)
    \/ Refreshed(c) \/ RefreshFails(c) \/ AnswerLost(c)
    \/ Save(c) \/ SaveFails(c)

Callback(b) == ExchangeCode(b) \/ SaveLogin(b) \/ LoginFails(b)

Next ==
    \/ \E c \in Callers : AccessToken(c) \/ Used(c)
    \/ \E b \in Browsers : Callback(b)
    \/ Tick \/ Crash

Spec == Init /\ [][Next]_vars

-----------------------------------------------------------------------------
\* Type correctness of every variable.
TypeOK ==
    /\ stored \in Pairs \cup {None}
    /\ expiry \in 0..Life \cup {None}
    /\ at \in [Callers -> {"idle", "refresh", "save", "use"}]
    /\ read \in [Callers -> Pairs \cup {None}]
    /\ got \in [Callers -> Pairs \cup {None}]
    /\ result \in [Callers -> Pairs \cup {None}]
    /\ left \in [Callers -> 0..Use]
    /\ login \in [Browsers -> Pairs \cup {None}]
    /\ issued \in 0..MaxPairs
    /\ accepted \subseteq Pairs /\ bare \subseteq Pairs /\ vague \subseteq Pairs
    /\ life \in [Pairs -> 0..Life]
    /\ lost \subseteq Pairs
    /\ overtaken \subseteq Pairs
    /\ newest \in 0..MaxPairs

\* The pair that replaces the stored one is on its way to the database.
BeingRefreshed == \E c \in Callers : at[c] = "save" /\ read[c] = stored
LaterLogin(p) == \E b \in Browsers : login[b] # None /\ p < login[b]

\* A streamer has to log in again only for a reason: the stored refresh token
\* is refused only while its successor is about to be stored, or because that
\* was lost (a crash, a cancelled worker, a failed transaction or callback), or
\* because its own pair was stored late, over a row that had changed since, or
\* came without a refresh token.
DeadOnlyIfLost ==
    stored # None /\ stored \notin accepted =>
        \/ BeingRefreshed \/ LaterLogin(stored)
        \/ stored \in lost \cup overtaken \cup bare

\* tokens.go:20, "so a session URL fetch and the following subscribe never
\* straddle the expiry": the access token a session uses lives, by Chzzk's own
\* clock, to the end of its use, however long the pair took to be stored and
\* whoever stored it, unless Chzzk gave it no life or one within refreshSkew.
UsedInTime ==
    \A c \in Callers : at[c] = "use" => result[c] \in vague \/ life[result[c]] > 0

-----------------------------------------------------------------------------
(* The inductive invariant. *)

Steps ==
    /\ \A c \in Callers : (at[c] \in {"refresh", "save"}) <=> (read[c] # None)
    /\ \A c \in Callers : (at[c] = "save") <=> (got[c] # None)
    /\ \A c \in Callers : (at[c] = "use") <=> (result[c] # None)

\* A pair on its way to the database is nowhere else yet.
Unstored(p) ==
    /\ p <= issued /\ p # stored
    /\ \A c \in Callers : p # read[c]

InFlight ==
    /\ stored # None => stored <= issued
    /\ \A c \in Callers : read[c] # None => read[c] <= issued
    /\ \A c \in Callers : got[c] # None => Unstored(got[c])
    /\ \A b \in Browsers : login[b] # None => Unstored(login[b])
    /\ \A c, d \in Callers : c # d /\ got[c] # None => got[c] # got[d]
    /\ \A a, b \in Browsers : a # b /\ login[a] # None => login[a] # login[b]
    /\ \A c \in Callers, b \in Browsers : got[c] # None => got[c] # login[b]

\* Why a pair in flight may be dead on arrival.
DeadRefresh ==
    \A c \in Callers : got[c] # None /\ got[c] \notin accepted =>
        LaterLogin(got[c]) \/ got[c] \in lost \cup bare \/ stored # read[c]
DeadLogin ==
    \A b \in Browsers : login[b] # None /\ login[b] \notin accepted =>
        LaterLogin(login[b]) \/ login[b] \in lost \cup bare \/ login[b] < newest

\* What is under way is young, the row is not ahead of Chzzk by more than
\* Latency, and a token in use outlives its use.
Young(p) == p # None => p \in vague \/ life[p] + Latency >= Life
InTime ==
    /\ \A c \in Callers : result[c] # None => result[c] <= issued
    /\ \A p \in UnderWay : Young(p)
    /\ stored # None => stored \in vague \/ (expiry # None /\ expiry <= life[stored] + Latency)
    /\ \A c \in Callers : at[c] = "use" => result[c] \in vague \/ life[result[c]] > left[c]

IInv == TypeOK /\ Steps /\ InFlight /\ DeadRefresh /\ DeadLogin /\ DeadOnlyIfLost /\ InTime
=============================================================================
