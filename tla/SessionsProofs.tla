--------------------------- MODULE SessionsProofs ---------------------------
(***************************************************************************)
(* IInv of Sessions is inductive, for any number of requests, tokens,      *)
(* accounts and logins: tokens live once, a logout lasts, nothing is left  *)
(* behind but by answers that cross, and a state serves one callback.      *)
(***************************************************************************)
EXTENDS Sessions, TLAPS

USE SessionsAssumption
USE DEF Goto, DropLocals, Answer, Over, Without, Draw, Live, Expired, PCs, Kinds,
        dbVars, ghosts, browserVars, sentVars, localVars, answerVars

LEMMA Initially == Init => IInv
<1> SUFFICES ASSUME Init PROVE IInv
  OBVIOUS
<1>1. TypeOK
  BY DEF Init, TypeOK
<1>2. TokenFates /\ OwnSession /\ NothingLeft
  BY DEF Init, TokenFates, OwnSession, NothingLeft
<1>3. OnlyLogins /\ States /\ LoggedOutStays /\ OrphanOnlyIfCrossed /\ StateOnce
  BY DEF Init, OnlyLogins, States, LoggedOutStays, OrphanOnlyIfCrossed, StateOnce
<1> QED BY <1>1, <1>2, <1>3 DEF IInv

-----------------------------------------------------------------------------
(* One lemma per action. *)

\* A request is sent with the browser's cookies.
LEMMA SendStep ==
    ASSUME IInv, NEW r \in Requests, NEW k \in Kinds, NEW f \in Flows \cup {None}, Send(r, k, f) PROVE IInv'
<1> USE DEF Send
<1>1. TypeOK'
  BY DEF IInv, TypeOK, OwnSession, TokenFates
<1>2. (TokenFates /\ OwnSession /\ NothingLeft)'
  BY DEF IInv, TypeOK, TokenFates, OwnSession, NothingLeft
<1>3. (OnlyLogins /\ States)'
  <2>1. out' => out /\ k # "callback"
    BY Zenon DEF Send
  <2>2. (out => \A q \in Requests : kind[q] # "callback")'
    BY <2>1 DEF IInv, TypeOK, OnlyLogins
  <2>3. (\A q \in Requests :
          /\ pc[q] = "idle" => kind[q] = "page"
          /\ pc[q] \in {"renew", "commit"} \/ setSession[q] \in Tokens => kind[q] = "callback"
          /\ setSession[q] \in Tokens => pc[q] = "answered")'
    BY DEF IInv, TypeOK, OnlyLogins, OwnSession
  <2>4. States'
    BY DEF IInv, TypeOK, States
  <2> QED BY <2>2, <2>3, <2>4 DEF OnlyLogins
<1>4. (LoggedOutStays /\ StateOnce)'
  BY DEF IInv, TypeOK, OnlyLogins, States, LoggedOutStays, StateOnce
<1>5. OrphanOnlyIfCrossed'
  BY DEF IInv, TypeOK, OrphanOnlyIfCrossed, TokenFates, OwnSession, NothingLeft, OnlyLogins
<1> QED BY <1>1, <1>2, <1>3, <1>4, <1>5 DEF IInv

\* An answer arrives: what it replaces has left no live row, or it has crossed
\* another.
LEMMA ArriveStep ==
    ASSUME IInv, NEW r \in Requests, Arrive(r) PROVE IInv'
<1> USE DEF Arrive, Cookie, LoginUnderWay
<1>1. TypeOK'
  <2>1. session' \in Tokens \cup {None} /\ flow' \in Flows \cup {None}
    BY DEF IInv, TypeOK
  <2>2. crossed' \in BOOLEAN
    BY Zenon DEF Arrive, IInv, TypeOK
  <2>3. out' \in BOOLEAN
    BY Zenon DEF Arrive, IInv, TypeOK
  <2>4. closed' \subseteq Flows
    BY DEF IInv, TypeOK
  <2> QED BY <2>1, <2>2, <2>3, <2>4 DEF IInv, TypeOK
<1>2. (TokenFates /\ OwnSession /\ NothingLeft)'
  BY DEF IInv, TypeOK, TokenFates, OwnSession, NothingLeft
<1>3. (OnlyLogins /\ States)'
  BY DEF IInv, TypeOK, OnlyLogins, States, OwnSession
<1>4. (LoggedOutStays /\ StateOnce)'
  BY DEF IInv, TypeOK, OnlyLogins, States, LoggedOutStays, StateOnce
<1>5. OrphanOnlyIfCrossed'
  BY DEF IInv, TypeOK, OrphanOnlyIfCrossed, TokenFates, OwnSession, NothingLeft, OnlyLogins
<1> QED BY <1>1, <1>2, <1>3, <1>4, <1>5 DEF IInv

\* A request is given up; a login's lost answer counts as crossed.
LEMMA LoseStep ==
    ASSUME IInv, NEW r \in Requests, Lose(r) PROVE IInv'
<1> USE DEF Lose
<1>1. TypeOK'
  BY DEF IInv, TypeOK, OwnSession, TokenFates
<1>2. (TokenFates /\ OwnSession /\ NothingLeft)'
  BY DEF IInv, TypeOK, TokenFates, OwnSession, NothingLeft
<1>3. (OnlyLogins /\ States)'
  BY DEF IInv, TypeOK, OnlyLogins, States, OwnSession
<1>4. (LoggedOutStays /\ StateOnce)'
  BY DEF IInv, TypeOK, OnlyLogins, States, LoggedOutStays, StateOnce
<1>5. OrphanOnlyIfCrossed'
  BY DEF IInv, TypeOK, OrphanOnlyIfCrossed, TokenFates, OwnSession, NothingLeft, OnlyLogins
<1> QED BY <1>1, <1>2, <1>3, <1>4, <1>5 DEF IInv

\* The session is looked up.
LEMMA LoadStep ==
    ASSUME IInv, NEW r \in Requests, Load(r) PROVE IInv'
<1> USE DEF Load, FindSession
<1>1. TypeOK'
  BY DEF IInv, TypeOK, OwnSession, TokenFates
<1>2. (TokenFates /\ OwnSession /\ NothingLeft)'
  <2>0. TypeOK /\ TokenFates /\ OwnSession /\ NothingLeft
    BY DEF IInv
  <2>1. TokenFates' BY <2>0 DEF TypeOK, TokenFates, OwnSession
  <2>2. OwnSession' BY <2>0 DEF TypeOK, OwnSession
  <2>3. NothingLeft' BY <2>0 DEF TypeOK, OwnSession, NothingLeft
  <2> QED BY <2>1, <2>2, <2>3
<1>3. (OnlyLogins /\ States)'
  BY DEF IInv, TypeOK, OnlyLogins, States, OwnSession
<1>4. (LoggedOutStays /\ StateOnce)'
  BY DEF IInv, TypeOK, OnlyLogins, States, LoggedOutStays, StateOnce
<1>5. OrphanOnlyIfCrossed'
  BY DEF IInv, TypeOK, OrphanOnlyIfCrossed, TokenFates, OwnSession, NothingLeft, OnlyLogins
<1> QED BY <1>1, <1>2, <1>3, <1>4, <1>5 DEF IInv

LEMMA UserFoundStep ==
    ASSUME IInv, NEW r \in Requests, UserFound(r) PROVE IInv'
<1> USE DEF UserFound
<1>1. TypeOK'
  BY DEF IInv, TypeOK, OwnSession, TokenFates
<1>2. (TokenFates /\ OwnSession /\ NothingLeft)'
  BY DEF IInv, TypeOK, TokenFates, OwnSession, NothingLeft
<1>3. (OnlyLogins /\ States)'
  BY DEF IInv, TypeOK, OnlyLogins, States, OwnSession
<1>4. (LoggedOutStays /\ StateOnce)'
  BY DEF IInv, TypeOK, OnlyLogins, States, LoggedOutStays, StateOnce
<1>5. OrphanOnlyIfCrossed'
  BY DEF IInv, TypeOK, OrphanOnlyIfCrossed, TokenFates, OwnSession, NothingLeft, OnlyLogins
<1> QED BY <1>1, <1>2, <1>3, <1>4, <1>5 DEF IInv

\* The session of a deleted user is destroyed, or left.
LEMMA UserGoneStep ==
    ASSUME IInv, NEW r \in Requests, UserGone(r) PROVE IInv'
<1> USE DEF UserGone
<1>1. TypeOK'
  BY DEF IInv, TypeOK, OwnSession, TokenFates
<1>2. (TokenFates /\ OwnSession /\ NothingLeft)'
  BY DEF IInv, TypeOK, TokenFates, OwnSession, NothingLeft
<1>3. (OnlyLogins /\ States)'
  BY DEF IInv, TypeOK, OnlyLogins, States, OwnSession
<1>4. (LoggedOutStays /\ StateOnce)'
  BY DEF IInv, TypeOK, OnlyLogins, States, LoggedOutStays, StateOnce
<1>5. OrphanOnlyIfCrossed'
  BY DEF IInv, TypeOK, OrphanOnlyIfCrossed, TokenFates, OwnSession, NothingLeft, OnlyLogins
<1> QED BY <1>1, <1>2, <1>3, <1>4, <1>5 DEF IInv

LEMMA LoadFailsStep ==
    ASSUME IInv, NEW r \in Requests, LoadFails(r) PROVE IInv'
<1> USE DEF LoadFails
<1>1. TypeOK'
  BY DEF IInv, TypeOK, OwnSession, TokenFates
<1>2. (TokenFates /\ OwnSession /\ NothingLeft)'
  BY DEF IInv, TypeOK, TokenFates, OwnSession, NothingLeft
<1>3. (OnlyLogins /\ States)'
  BY DEF IInv, TypeOK, OnlyLogins, States, OwnSession
<1>4. (LoggedOutStays /\ StateOnce)'
  BY DEF IInv, TypeOK, OnlyLogins, States, LoggedOutStays, StateOnce
<1>5. OrphanOnlyIfCrossed'
  BY DEF IInv, TypeOK, OrphanOnlyIfCrossed, TokenFates, OwnSession, NothingLeft, OnlyLogins
<1> QED BY <1>1, <1>2, <1>3, <1>4, <1>5 DEF IInv

LEMMA PageStep ==
    ASSUME IInv, NEW r \in Requests, Page(r) PROVE IInv'
<1> USE DEF Page
<1>1. TypeOK'
  BY DEF IInv, TypeOK, OwnSession, TokenFates
<1>2. (TokenFates /\ OwnSession /\ NothingLeft)'
  BY DEF IInv, TypeOK, TokenFates, OwnSession, NothingLeft
<1>3. (OnlyLogins /\ States)'
  BY DEF IInv, TypeOK, OnlyLogins, States, OwnSession
<1>4. (LoggedOutStays /\ StateOnce)'
  BY DEF IInv, TypeOK, OnlyLogins, States, LoggedOutStays, StateOnce
<1>5. OrphanOnlyIfCrossed'
  BY DEF IInv, TypeOK, OrphanOnlyIfCrossed, TokenFates, OwnSession, NothingLeft, OnlyLogins
<1> QED BY <1>1, <1>2, <1>3, <1>4, <1>5 DEF IInv

\* A new state is neither closed nor under way.
LEMMA StartLoginStep ==
    ASSUME IInv, NEW r \in Requests, NEW f \in Flows, startLogin(r, f) PROVE IInv'
<1> USE DEF startLogin
<1>1. TypeOK'
  BY DEF IInv, TypeOK, OwnSession, TokenFates
<1>2. (TokenFates /\ OwnSession /\ NothingLeft)'
  BY DEF IInv, TypeOK, TokenFates, OwnSession, NothingLeft
<1>3. (OnlyLogins /\ States)'
  BY DEF IInv, TypeOK, OnlyLogins, States, OwnSession
<1>4. (LoggedOutStays /\ StateOnce)'
  BY DEF IInv, TypeOK, OnlyLogins, States, LoggedOutStays, StateOnce
<1>5. OrphanOnlyIfCrossed'
  BY DEF IInv, TypeOK, OrphanOnlyIfCrossed, TokenFates, OwnSession, NothingLeft, OnlyLogins
<1> QED BY <1>1, <1>2, <1>3, <1>4, <1>5 DEF IInv

\* A logout deletes the row of the token it holds.
LEMMA LogoutStep ==
    ASSUME IInv, NEW r \in Requests, logout(r) PROVE IInv'
<1> USE DEF logout
<1>0. TypeOK /\ TokenFates /\ OwnSession /\ NothingLeft
  BY DEF IInv
<1>1. TypeOK'
  <2>1. CASE rows' = Without(held[r]) /\ Answer(r, None, Keep)
    BY <1>0, <2>1 DEF TypeOK
  <2>2. CASE UNCHANGED rows /\ Answer(r, setSession[r], Keep)
    BY <1>0, <2>2 DEF TypeOK
  <2> QED BY <2>1, <2>2
<1>2. (TokenFates /\ OwnSession /\ NothingLeft)'
  <2>1. CASE rows' = Without(held[r]) /\ Answer(r, None, Keep)
    <3>1. TokenFates' BY <1>0, <2>1 DEF TypeOK, TokenFates
    <3>2. OwnSession' BY <1>0, <2>1 DEF TypeOK, OwnSession
    <3>3. NothingLeft' BY <1>0, <2>1 DEF TypeOK, OwnSession, NothingLeft
    <3> QED BY <3>1, <3>2, <3>3
  <2>2. CASE UNCHANGED rows /\ Answer(r, setSession[r], Keep)
    <3>1. TokenFates' BY <1>0, <2>2 DEF TypeOK, TokenFates
    <3>2. OwnSession' BY <1>0, <2>2 DEF TypeOK, OwnSession
    <3>3. NothingLeft' BY <1>0, <2>2 DEF TypeOK, OwnSession, NothingLeft
    <3> QED BY <3>1, <3>2, <3>3
  <2> QED BY <2>1, <2>2
<1>3. (OnlyLogins /\ States)'
  BY DEF IInv, TypeOK, OnlyLogins, States, OwnSession
<1>4. (LoggedOutStays /\ StateOnce)'
  BY DEF IInv, TypeOK, OnlyLogins, States, LoggedOutStays, StateOnce
<1>5. OrphanOnlyIfCrossed'
  BY DEF IInv, TypeOK, OrphanOnlyIfCrossed, TokenFates, OwnSession, NothingLeft, OnlyLogins
<1> QED BY <1>1, <1>2, <1>3, <1>4, <1>5 DEF IInv

LEMMA CallbackFailsStep ==
    ASSUME IInv, NEW r \in Requests, CallbackFails(r) PROVE IInv'
<1> USE DEF CallbackFails
<1>1. TypeOK'
  BY DEF IInv, TypeOK, OwnSession, TokenFates
<1>2. (TokenFates /\ OwnSession /\ NothingLeft)'
  BY DEF IInv, TypeOK, TokenFates, OwnSession, NothingLeft
<1>3. (OnlyLogins /\ States)'
  BY DEF IInv, TypeOK, OnlyLogins, States, OwnSession
<1>4. (LoggedOutStays /\ StateOnce)'
  BY DEF IInv, TypeOK, OnlyLogins, States, LoggedOutStays, StateOnce
<1>5. OrphanOnlyIfCrossed'
  BY DEF IInv, TypeOK, OrphanOnlyIfCrossed, TokenFates, OwnSession, NothingLeft, OnlyLogins
<1> QED BY <1>1, <1>2, <1>3, <1>4, <1>5 DEF IInv

LEMMA ConsentedStep ==
    ASSUME IInv, NEW r \in Requests, NEW a \in Accounts, Consented(r, a) PROVE IInv'
<1> USE DEF Consented
<1>1. TypeOK'
  BY DEF IInv, TypeOK, OwnSession, TokenFates
<1>2. (TokenFates /\ OwnSession /\ NothingLeft)'
  BY DEF IInv, TypeOK, TokenFates, OwnSession, NothingLeft
<1>3. (OnlyLogins /\ States)'
  BY DEF IInv, TypeOK, OnlyLogins, States, OwnSession
<1>4. (LoggedOutStays /\ StateOnce)'
  BY DEF IInv, TypeOK, OnlyLogins, States, LoggedOutStays, StateOnce
<1>5. OrphanOnlyIfCrossed'
  BY DEF IInv, TypeOK, OrphanOnlyIfCrossed, TokenFates, OwnSession, NothingLeft, OnlyLogins
<1> QED BY <1>1, <1>2, <1>3, <1>4, <1>5 DEF IInv

\* Renewal deletes the old row and draws a token nobody has.
LEMMA RenewStep ==
    ASSUME IInv, NEW r \in Requests, NEW t \in Tokens, Renew(r, t) PROVE IInv'
<1> USE DEF Renew, RenewToken
<1>1. TypeOK'
  BY DEF IInv, TypeOK, OwnSession, TokenFates
<1>2. (TokenFates /\ OwnSession /\ NothingLeft)'
  BY DEF IInv, TypeOK, TokenFates, OwnSession, NothingLeft
<1>3. (OnlyLogins /\ States)'
  BY DEF IInv, TypeOK, OnlyLogins, States, OwnSession
<1>4. (LoggedOutStays /\ StateOnce)'
  BY DEF IInv, TypeOK, OnlyLogins, States, LoggedOutStays, StateOnce
<1>5. OrphanOnlyIfCrossed'
  BY DEF IInv, TypeOK, OrphanOnlyIfCrossed, TokenFates, OwnSession, NothingLeft, OnlyLogins
<1> QED BY <1>1, <1>2, <1>3, <1>4, <1>5 DEF IInv

\* The commit stores a drawn token, whose row was never there.
LEMMA CommitStep ==
    ASSUME IInv, NEW r \in Requests, Commit(r) PROVE IInv'
<1> USE DEF Commit
<1>1. TypeOK'
  BY DEF IInv, TypeOK, OwnSession, TokenFates
<1>2. (TokenFates /\ OwnSession /\ NothingLeft)'
  BY DEF IInv, TypeOK, TokenFates, OwnSession, NothingLeft
<1>3. (OnlyLogins /\ States)'
  BY DEF IInv, TypeOK, OnlyLogins, States, OwnSession
<1>4. (LoggedOutStays /\ StateOnce)'
  BY DEF IInv, TypeOK, OnlyLogins, States, LoggedOutStays, StateOnce
<1>5. OrphanOnlyIfCrossed'
  BY DEF IInv, TypeOK, OrphanOnlyIfCrossed, TokenFates, OwnSession, NothingLeft, OnlyLogins
<1> QED BY <1>1, <1>2, <1>3, <1>4, <1>5 DEF IInv

LEMMA LoginFailsStep ==
    ASSUME IInv, NEW r \in Requests, LoginFails(r) PROVE IInv'
<1> USE DEF LoginFails
<1>1. TypeOK'
  BY DEF IInv, TypeOK, OwnSession, TokenFates
<1>2. (TokenFates /\ OwnSession /\ NothingLeft)'
  BY DEF IInv, TypeOK, TokenFates, OwnSession, NothingLeft
<1>3. (OnlyLogins /\ States)'
  BY DEF IInv, TypeOK, OnlyLogins, States, OwnSession
<1>4. (LoggedOutStays /\ StateOnce)'
  BY DEF IInv, TypeOK, OnlyLogins, States, LoggedOutStays, StateOnce
<1>5. OrphanOnlyIfCrossed'
  BY DEF IInv, TypeOK, OrphanOnlyIfCrossed, TokenFates, OwnSession, NothingLeft, OnlyLogins
<1> QED BY <1>1, <1>2, <1>3, <1>4, <1>5 DEF IInv

LEMMA ExpireStep ==
    ASSUME IInv, NEW t \in Tokens, Expire(t) PROVE IInv'
<1> USE DEF Expire
<1>1. TypeOK'
  <2>1. rows[t] \in [user : Accounts, live : BOOLEAN]
    BY DEF IInv, TypeOK
  <2>2. [rows[t] EXCEPT !.live = FALSE] \in [user : Accounts, live : BOOLEAN]
    BY <2>1
  <2> QED BY <2>2 DEF IInv, TypeOK
<1>2. (TokenFates /\ OwnSession /\ NothingLeft)'
  BY DEF IInv, TypeOK, TokenFates, OwnSession, NothingLeft
<1>3. (OnlyLogins /\ States)'
  BY DEF IInv, TypeOK, OnlyLogins, States, OwnSession
<1>4. (LoggedOutStays /\ StateOnce)'
  BY DEF IInv, TypeOK, OnlyLogins, States, LoggedOutStays, StateOnce
<1>5. OrphanOnlyIfCrossed'
  BY DEF IInv, TypeOK, OrphanOnlyIfCrossed, TokenFates, OwnSession, NothingLeft, OnlyLogins
<1> QED BY <1>1, <1>2, <1>3, <1>4, <1>5 DEF IInv

LEMMA CleanupStep ==
    ASSUME IInv, Cleanup PROVE IInv'
<1> USE DEF Cleanup
<1>1. TypeOK'
  BY DEF IInv, TypeOK, OwnSession, TokenFates
<1>2. (TokenFates /\ OwnSession /\ NothingLeft)'
  BY DEF IInv, TypeOK, TokenFates, OwnSession, NothingLeft
<1>3. (OnlyLogins /\ States)'
  BY DEF IInv, TypeOK, OnlyLogins, States, OwnSession
<1>4. (LoggedOutStays /\ StateOnce)'
  BY DEF IInv, TypeOK, OnlyLogins, States, LoggedOutStays, StateOnce
<1>5. OrphanOnlyIfCrossed'
  BY DEF IInv, TypeOK, OrphanOnlyIfCrossed, TokenFates, OwnSession, NothingLeft, OnlyLogins
<1> QED BY <1>1, <1>2, <1>3, <1>4, <1>5 DEF IInv

LEMMA ExpireFlowStep ==
    ASSUME IInv, ExpireFlow PROVE IInv'
<1> USE DEF ExpireFlow
<1>1. TypeOK'
  BY DEF IInv, TypeOK, OwnSession, TokenFates
<1>2. (TokenFates /\ OwnSession /\ NothingLeft)'
  BY DEF IInv, TypeOK, TokenFates, OwnSession, NothingLeft
<1>3. (OnlyLogins /\ States)'
  BY DEF IInv, TypeOK, OnlyLogins, States, OwnSession
<1>4. (LoggedOutStays /\ StateOnce)'
  BY DEF IInv, TypeOK, OnlyLogins, States, LoggedOutStays, StateOnce
<1>5. OrphanOnlyIfCrossed'
  BY DEF IInv, TypeOK, OrphanOnlyIfCrossed, TokenFates, OwnSession, NothingLeft, OnlyLogins
<1> QED BY <1>1, <1>2, <1>3, <1>4, <1>5 DEF IInv

-----------------------------------------------------------------------------
\* The invariant holds in every reachable state of every instance: the whole of
\* what the session code maintains between rows, cookies and requests.
THEOREM SessionsInductive == Spec => []IInv
<1>1. IInv /\ [Next]_vars => IInv'
  <2> SUFFICES ASSUME IInv, [Next]_vars PROVE IInv'
    OBVIOUS
  <2>1. CASE UNCHANGED vars
    BY <2>1 DEF vars, IInv, TypeOK, TokenFates, OwnSession, NothingLeft, OnlyLogins, States,
                LoggedOutStays, OrphanOnlyIfCrossed, StateOnce
  <2>2. ASSUME NEW r \in Requests, Browser(r) PROVE IInv'
    BY <2>2, SendStep, ArriveStep, LoseStep DEF Browser
  <2>3. ASSUME NEW r \in Requests, Server(r) PROVE IInv'
    BY <2>3, LoadStep, UserFoundStep, UserGoneStep, LoadFailsStep, PageStep, LogoutStep,
       StartLoginStep, CallbackFailsStep, ConsentedStep, RenewStep, CommitStep, LoginFailsStep
       DEF Server, Callback
  <2>4. ASSUME NEW t \in Tokens, Expire(t) PROVE IInv'
    BY <2>4, ExpireStep
  <2>5. CASE Cleanup
    BY <2>5, CleanupStep
  <2>6. CASE ExpireFlow
    BY <2>6, ExpireFlowStep
  <2> QED BY <2>1, <2>2, <2>3, <2>4, <2>5, <2>6 DEF Next
<1> QED BY Initially, <1>1, PTL DEF Spec

\* Every variable of the session model has its type.
THEOREM SessionsTypeCorrect == Spec => []TypeOK
BY SessionsInductive, PTL DEF IInv

\* A logout that the browser has shown is not undone by an answer on its way.
THEOREM LogoutLasts == Spec => []LoggedOutStays
BY SessionsInductive, PTL DEF IInv

\* Renewing and logging out leave no live session but by crossing answers.
THEOREM OrphansExplained == Spec => []OrphanOnlyIfCrossed
BY SessionsInductive, PTL DEF IInv

\* The state cookie never holds a state begun before the last answered callback.
THEOREM StateServesOnce == Spec => []StateOnce
BY SessionsInductive, PTL DEF IInv

\* A token is stored once, for one user, and before it expires only a request
\* that came with it ends it.
THEOREM TokensLiveOnce == Spec => TokenForLife
<1> DEFINE Life(t) ==
      /\ fate[t] = "stored" /\ rows'[t] # None =>
            /\ rows[t] # None /\ rows'[t].user = rows[t].user
            /\ rows'[t].live => rows[t].live
      /\ Live(t) /\ rows'[t] = None =>
            \E r \in Requests : pc[r] # "idle" /\ carried[r] = t
<1>1. IInv /\ [Next]_vars => \A t \in Tokens : Life(t)
  <2> SUFFICES ASSUME IInv, [Next]_vars, NEW t \in Tokens PROVE Life(t)
    OBVIOUS
  <2> rows \in [Tokens -> [user : Accounts, live : BOOLEAN] \cup {None}] /\ TokenFates /\ OwnSession
    BY DEF IInv, TypeOK
  <2>1. CASE rows' = rows
    BY <2>1
  <2>2. ASSUME NEW r \in Requests, pc[r] # "idle", pc[r] # "commit", held[r] \in Tokens,
               rows' = [rows EXCEPT ![held[r]] = None]
        PROVE Life(t)
    BY <2>2 DEF OwnSession
  <2>3. ASSUME NEW r \in Requests, Commit(r) PROVE Life(t)
    BY <2>3 DEF Commit, TokenFates, IInv, TypeOK
  <2>4. ASSUME NEW u \in Tokens, Expire(u) PROVE Life(t)
    <3>1. rows[u] \in [user : Accounts, live : BOOLEAN]
      BY <2>4 DEF Expire
    <3>2. /\ rows'[u] = [rows[u] EXCEPT !.live = FALSE]
          /\ t # u => rows'[t] = rows[t]
      BY <2>4 DEF Expire
    <3>3. rows'[u].user = rows[u].user /\ ~rows'[u].live
      BY <3>1, <3>2
    <3>4. rows'[u] \in [user : Accounts, live : BOOLEAN]
      BY <3>1, <3>2
    <3>5. rows'[u] # None /\ rows[u] # None
      BY <2>4, <3>4, NoRowAssumption DEF Expire
    <3> QED BY <3>2, <3>3, <3>5
  <2>5. CASE Cleanup
    BY <2>5 DEF Cleanup
  <2>6. ASSUME NEW r \in Requests, UserGone(r) \/ logout(r) \/ \E u \in Tokens : Renew(r, u)
        PROVE Life(t)
    <3>1. rows' = rows \/ rows' = Without(held[r])
      BY <2>6 DEF UserGone, logout, Renew, RenewToken
    <3>2. pc[r] # "idle" /\ pc[r] # "commit"
      BY <2>6 DEF UserGone, logout, Renew
    <3>3. held[r] \in Tokens \cup {None}
      BY DEF IInv, TypeOK
    <3> QED BY <2>1, <2>2, <3>1, <3>2, <3>3
  <2>7. ASSUME NEW r \in Requests, Browser(r) PROVE rows' = rows
    BY <2>7 DEF Browser, Send, Arrive, Lose
  <2>8. ASSUME NEW r \in Requests,
               \/ Load(r) \/ UserFound(r) \/ LoadFails(r) \/ Page(r) \/ CallbackFails(r) \/ LoginFails(r)
               \/ \E f \in Flows : startLogin(r, f)
               \/ \E a \in Accounts : Consented(r, a)
        PROVE rows' = rows
    BY <2>8 DEF Load, UserFound, LoadFails, Page, CallbackFails, LoginFails, startLogin, Consented
  <2>9. CASE ExpireFlow \/ UNCHANGED vars
    BY <2>1, <2>9 DEF ExpireFlow, vars
  <2> QED
    <3> HIDE DEF Life
    <3> QED BY <2>1, <2>3, <2>4, <2>5, <2>6, <2>7, <2>8, <2>9 DEF Next, Server, Callback
<1> QED BY SessionsInductive, <1>1, PTL DEF Spec, TokenForLife
=============================================================================
