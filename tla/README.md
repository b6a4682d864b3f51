# A verification project for chzzk-djclass-chat

The program is one Go process. It shows a streamer's Chzzk chat in an OBS
browser source and puts a viewer's V-ARCHIVE "DJ CLASS" badge next to the
viewer's name. This directory holds TLA+ models of it, TLC configurations that
check them on small instances, and proofs of the central invariants for every
value of the constants. Paths below are relative to the repository's `src/`.

    tlc -workers 2 -config MCHubLife.cfg MCHub     one run
    tlapm HubProofs.tla                            one proof module

`PROJECT.json` is the index: runs, the mutation that shows that each property
can fail, which lines of code each definition stands for, hazards, theorems.

## 1. The system

    browser --login, logout, cookies--> withUser, startLogin, callback, logout --> SQLite
    OBS widgets --SSE--> widgetStream --Subscribe/Unsubscribe--> Hub
                                                                  | one worker per channel
                             Tokens <--AccessToken-- ingest ------+---- flushLoop
                               |                      |                    |
                            SQLite            chzzk REST, Engine.IO v3   Resolver --> ttlcache
                               |                                           |
      /link page, daily job -> link.Service --commit, InvalidateUser-------+
                               |
                          V-ARCHIVE client

| Component (code) | State | Operations | Talks to | What makes it hard, what makes it correct |
|---|---|---|---|---|
| Hub (`internal/realtime/hub.go`) | map of channels, total, closed; per channel subscribers, timer, buffer; per subscription a bounded queue | `Subscribe`, `Unsubscribe`, `Inject`, `Close`, timer callback, `flushOnce` | SSE handlers, ingest, resolver | timers whose `Stop` comes too late, sends without the lock, shutdown. No subscriber on a dead worker, no leaked worker, no send on a closed channel, chat in order, caps |
| SSE handler (`internal/web/widget.go`) | its subscription | subscribe, write batches and keepalives, deferred `Unsubscribe` | Hub | ends by client, write error or `Close`; always unsubscribes |
| Ingest (`internal/realtime/ingest.go`) | backoff, session context and its cause | token, URL, dial, run, `go subscribe` | Tokens, REST client, eio3, the buffer | goroutines that outlive their session. Keeps trying, stops when told, no session without chat |
| Engine.IO client (`internal/chzzk/eio3`) | ping timer, deadline timer, reading goroutine | `Dial`, `Run`, `Emit` | network | deadline arithmetic; nothing left behind |
| Tokens (`internal/realtime/tokens.go`, `internal/web/auth.go` `callback`) | the channel row's token pair | `AccessToken`, login | Chzzk, SQLite | single-use refresh tokens, lost answers, crashes, concurrent refreshes and logins |
| Link service (`internal/link/link.go`, `internal/web/link.go`) | users' link, classes, preferred button (SQLite) | `Connect`, `Sync`, `Unlink`, `SetPreferredButton`, `SyncAll` | V-ARCHIVE, store, resolver | fetches of seconds between read and commit; partial answers |
| Resolver (`internal/resolver`) | a cache of results with TTL | `Resolve`, `InvalidateUser` | store, ttlcache, djclass | three queries, then a `Set`, unlocked, against commits |
| TTL cache (`internal/ttlcache`) | map and insertion list | `Get`, `Set`, `Delete` | resolver, auth | two structures that must agree; expiry; eviction |
| Rate limiter (`internal/ratelimit`) | windows per key | `Allow` | handlers | window edges, eviction, the hard bound on the table |
| V-ARCHIVE client (`internal/varchive`) | a semaphore | `AllDjClasses`, `LookupUser` | HTTP | one of four requests failing |
| Store (`internal/store`) | read pool, single write connection | `WriteTx`, queries, sessions, snapshot | SQLite | transactions that fail; waiting for the one writer |
| DJ CLASS order (`internal/djclass`) | none | sort key, badge text | resolver | a total order with special cases |
| Sessions and login (`internal/store/sessions.go`, `internal/web/middleware.go`, `startLogin`, `callback`, `logout` of `auth.go`) | session rows; the browser's cookies | look up, log in, renew, log out, clean up | store, Chzzk | answers that are lost or overtake each other, requests of several tabs. A logout lasts, a state serves once, no live session is left behind |
| Schedule (`internal/schedule`) | none | daily job | link service | wall-clock arithmetic |
| Widget page (`internal/web/static/overlay/widget.js`) | an EventSource, a reconnect timer, 100 rows | connect, append, fade, reconnect | SSE handler | two retry mechanisms, of which always exactly one must run |
| Start and stop (`cmd/server/main.go`) | - | wiring, shutdown order | all | `Close` before `Shutdown`, or the SSE handlers hold it up |

## 2. The modules and the code

**Hub.tla** (`hub.go`, `widget.go`). A *worker* is one `*channel` value; a
channel id may have several over time and a cancelled one may still be finishing
beside its successor. An action is one critical section of `h.mu` or `bufMu`, one
operation on a Go channel, or one runtime event:

| Code | Actions |
|---|---|
| `Subscribe`, `startChannel`, refusals | `SubscribeFirst`, `SubscribeMore`, `Refuse` |
| `Unsubscribe` with `time.AfterFunc` | `Unsubscribe`, `TimerFires`, `TimerRuns`; a callback whose `Stop` came too late is counted in `late` and runs as `LateTimerRuns` |
| `widgetStream`'s loop | `Receive`, `Disconnect`, `EndOfStream` |
| `ingest` seen from the hub | `Ingest` (a CHAT event reaches `push`), `IngestExit` |
| `flushLoop`, `flushOnce`, `buildBatch` | `FlushDrain`, `FlushSnapshot`, `FlushSend` per subscriber, `FlushExit` |
| `Inject` | `InjectLookup`, `InjectPush`: the lock is not held in between |
| `Close` | `CloseBegin`, `CloseCancel`, `CloseWait`, `CloseSub` per subscriber, `CloseReturn` |

A message is its number of arrival. **ChatFeed.tla** says what a streamer may
expect of all this without workers, buffers or queues: a widget is opened or
rejected, is shown pieces of its channel's chat that came after what it has
already been shown, and ends. Hub.tla maps itself to it: `FeedLog` is the channel
of each arrived message, `FeedOf` a widget's channel, `FeedStates` the handler's
control state, and `shown` is what was written.

**BadgeData.tla, Link.tla, Resolver.tla, Badges.tla.** BadgeData holds the
tables, the cache, the transactions of the link service and `InvalidateUser`.
Link has the jobs (`Connect`, `Sync`, `Unlink`, `SetPreferredButton`, `SyncAll`),
split wherever the code reads, fetches, commits and invalidates. Resolver has
`Resolve`'s cache lookup, its three queries and its `Set` as separate steps, and
expiry. Badges composes them. A class is represented by the account it was
fetched for; `ver` counts a user's commits and serves the ghost `raced` of a
cache entry, true if a commit came between the lookup's first query and its `Set`.

**Eio3.tla** (`eio3.go`). `Dial`'s handshake and `Run`'s select: `TakeFrame`,
`SendPing`, `PingFails`, `GiveUp`, `TakeReadErr`, `TakeDone`; the reading
goroutine is `ReaderReads`, `ReaderFails`, `ReaderStops`. Time passes in ticks;
what is ready in a tick happens within it in any order. The server may send
anything, at most `Rate` frames a tick, and the network may break.

**Ingest.tla** (`ingest.go`). The loop of `ingest`, the steps of `session`, and
`subscribe`'s goroutines with their attempts. `RunReturns` ends the session
and, by the deferred `fail(nil)`, the context of its helpers; they go on until
they see it (`mine` is then false).

**Tokens.tla** (`tokens.go`, `callback` in `auth.go`). A token pair is the number
under which Chzzk issued it. Chzzk is outside the repository: the model lets it
rotate a refresh token or keep it, lose an answer, and revoke older pairs on
login, answer without a refresh token (`bare`), and without `expiresIn` or with one
no longer than `refreshSkew` (`vague`). Reading, refreshing and saving are steps of
their own; `Crash` drops what is in memory at any point. `life` is what Chzzk gives a
pair's access token, `expiry` what the row says of it: the two differ, since the code
adds `expiresIn` to the time of the answer's arrival, and an imported row may have
NULL, which `AccessToken` takes for usable. Nothing is assumed of the life of a
vague pair: the property speaks of the others. A session uses its token until the
last subscribe (`Used`); `left` is how long that may still take. `Latency` bounds
the way from Chzzk to the row, `Use` the use, and together they are within `Skew`: in
the code HTTP's timeout (8 s) and a transaction, then the session's URL, the dial, and
three attempts to subscribe, against five minutes. That Chzzk sends "connected" within
`Use` is an assumption the code does not enforce (a hazard, `ingest.go:62`).

**Limiter.tla** (`ratelimit.go`) and **TTLCache.tla** (`ttlcache.go`): one action
per outcome of each call, since a mutex makes each call one step. Ages and
remaining lifetimes in ticks stand for the clock, so that the runs have no bound
on time. A client of Limiter is a key of the table, a scope and an address: each has
its own limit and window, all share one table, and eviction goes by each bucket's own
window. Limiter's ghosts are the `ages` of a client's latest 2 x limit admissions
and the time since the table was `cleared`; its names are prefixed where both
modules have one, so that TablesProofs can extend both. TTLCache's `remove` takes an
element from its `Place` in the list; the ghost `older` is the order of insertion.
**Cache.tla** is what Resolver assumes of its cache: a lookup returns
the last value stored or nothing, entries may vanish, deleted ones are gone.
`TTLCache!ImplementsCache` closes that gap.

**Sessions.tla** (`middleware.go`, `startLogin`, `callback` and `logout` of
`auth.go`, `sessions.go`). One browser with several requests under way. A request
is sent with the cookies of that moment, its handler's queries and transactions
are steps (`Load`, `UserFound`, `UserGone`, `startLogin`, `Consented`, `Renew`,
`Commit`, `logout` and their failures), and its answer sets cookies when it
arrives, in any order, or never (`Arrive`, `Lose`). Rows expire and `Cleanup`
deletes at any time. What scs does around a handler is outside the repository.
The ghosts are `crossed` (an answer was lost or replaced another's cookie), `out`
(the browser has seen a logout succeed) and `closed` (states begun before the last
answered callback).

**Overlay.tla** (`widget.js`, `widgetStream`). Pages of one channel with their
EventSource objects: `connect`, `onerror`, `Open`, `Deliver` with the cap on rows,
`Fade`; the browser's own `Retry`; the handler's `Accept`, `Refuse` (404, 503, or
the proxy's 502), `LookupFails`; the network and the process: `Cut`,
`NetworkError`, `Stop`, `Start`, `Reload`. Each end of a cut stream notices by
itself (`HandlerNotices`, `BrowserNotices`), and a handler whose browser has gone
counts against the hub's cap until it does (`stale`). The unit is a batch.

**DjClass.tla** (`djclass.go`). `SortKey`, `Threshold`, `BuildBadge` and the loops
of `Resolve` as steps, over a class as rank, level, button and conversion. Beside
them stands what `README.md` of the repository promises: rank, then step, then
button, without DJ POWER.

**Schedule.tla** (`schedule.go`). `Until` in seconds and the loop of `Daily`, with a
timer that may be late, a job that may take long, and a wall clock that may be set.
The ghosts keep what the timer was armed for and when (`due`, `armed`), by how much the
clock was set forward since (`ahead`), and of the last run its time, its beginning and
its delay (`ran`, `began`, `lag`).

These two have no run: their inputs are integers and rows of any number, which the
proofs cover and TLC could only sample.

Definitions marked "Fault" are mutations. They stand before the definition they
would replace, are used by no specification, and each one makes the property
named with it in `PROJECT.json` fail.

## 3. What is checked

| Run | Instance | Question and result |
|---|---|---|
| `hub_life` | 2 channels, 3 workers, 3 widgets, caps 2/2, 1 message | Through every interleaving of subscribing, leaving, timers, flushing and `Close`: `ServedByLiveWorker`, `NoLeakedWorker`, `OneWorkerPerChannel`, `CapsHold`, `NoSendOnClosed`, and Hub refines ChatFeed's safety |
| `hub_live` | 1 channel, 1 worker, 2 widgets, queue 2, batch 2, 3 messages, fairness | Chat in order; what is not shown was beyond `MaxBatch`, or its widget's queue was full then or later (`Delivered`); an abandoned channel ends; a stuck widget blocks nobody; `Close` returns and every stream ends; ChatFeed with its fairness |
| `badges` | 2 users, 2 accounts, 2 buttons, 2 jobs, 1 lookup | A wrong cached badge is explained by an invalidation under way or an overtaken lookup (`StaleOnlyIfRaced`); classes of one account only (`OneSource`); only `Unlink` empties them (`ClassesKept`); expiry makes every badge right at last (`Converges`) |
| `eio3` | interval 2, timeout 3, dial timeout 2, 2 frames a tick | Silence noticed within interval + timeout, no timeout with less than `pingTimeout` of silence, `Dial` ends, the reader ends |
| `ingest` | 2 helpers, 2 attempts, backoff 1 to 3 | A session is failed only by its own subscription; connected means subscribed or restarted; ingest keeps trying, and stops when cancelled with all its goroutines |
| `tokens` | 2 workers, 2 logins, 3 pairs, life 3, skew 2, latency 1, use 1 | A stored refresh token is dead only for a named reason; no access token expires while a session uses it, by Chzzk's clock (`UsedInTime`) |
| `limiter` | 2 clients of one scope (limit 2, window 3), one of another (limit 1, window 2), table 1 | The table is bounded; 2 x limit within a window only after the table was cleared; nobody refused below the limit |
| `ttlcache` | 4 keys, 2 values, 3 entries | Map and list agree; a `Set` evicts only from a full cache, and the entry inserted first; refines Cache |
| `sessions` | 2 accounts, 3 tokens, 2 states, 2 requests | A logout the browser has seen lasts; no live session is left behind but by lost or crossing answers (`OrphanOnlyIfCrossed`); one state serves one callback; a token is for one user and one lifetime |
| `overlay` | 2 pages, 2 sources each, cap 2, 2 rows, buffer 2, 3 batches, 4 faults | The browser's retry and the page's never both run, nor neither (`OneStream`); batches are shown in order and once; when the faults are over every page has an open stream again (`Recovers`) |
| `badges_unlink`, `badges_outage` | smaller instances | The two disagreements of section 4 |

The type invariants and the inductive invariants are proved (section 5) and, but for
Ingest's `TypeOK` and the bounds within `TableBounded` and `MapAndList`, left out of
the configurations. Each inductive invariant was checked by TLC on its run's instance
before its proof was begun.

**Bounds.** Two of a kind are needed for any race between them; a third widget
meets the caps (2) while the other two hold and release them; a third worker lets
a channel be torn down and restarted while another runs. Three messages against
a batch of 2 and a queue of 2 reach the cut and the full queue. Link jobs
interact pairwise (two commits and a lookup in between); `badges_unlink` needs a
third job only to set the scene. Three pairs, of which one may be in the row from the
start, are enough for a refresh and a login on either side of each other. A life one
tick longer than the skew, and a skew that latency and use fill, leave no slack in
`UsedInTime`. Two requests and three tokens give a login over an
older session, and a third token drawn while the second is on its way. Four faults
allow one to befall each page and another to befall the recovery, and the cap of 2
is met when a handler is stale. The Engine.IO timers are in units in which ping
and timeout differ; the theorems cover all other values. Symmetry is used in runs
without liveness only. `MaxArrivals`, `MaxPairs`, `Rate`, `MaxBatches`, `MaxFaults`,
`Tokens` and `Flows` of Sessions, `Sources` and `Helpers` of Ingest are bounds of the
models, not of the code; so is `Latest`, how many admissions Limiter's ghost keeps:
no property asks about an older one. Window 3 against limit 2 lets two
admissions of a window be apart, and a window begin between them; the other scope's
shorter window lets a bucket expire, and be evicted, beside one of the same age that
does not. `hub_life` has both caps at 2, so that only the proof (`CapsCorrect`)
tells them apart.

**Fairness** is weak, per goroutine: a goroutine that can go on does, armed timers
fire, and calls end because the code gives each a timeout or a context
(`http.Client.Timeout`, `DialTimeout`, write deadlines). Not assumed: that chat
arrives, widgets connect or leave, the process shuts down, a server answers
usefully, sessions end, or that a select prefers one ready case. `Converges`
assumes only that an entry expires; nothing forces jobs or lookups to end.
`Recovers` assumes that browser and server answer, that a stopped process is
started again (its container is), that keepalives and write deadlines pass
(`widget.go`), and that the browser's TCP keep-alive ends a stream that was cut
without a sign: nothing in the page would (it is listed as a hazard). The number of
faults is bounded, so they are over some time.

**Deadlock** is checked in every run but `eio3`, the life of one connection that
really ends, and `overlay`, which may stop when batches and faults are used up. In `hub_*` and `ingest` the only stops are the explicit
`Terminated` and `Exited`, so that a stuck `Close` would be a deadlock.

## 4. Where code and documentation disagree

1. `UnlinkClears` (`link.go:124`): a sync or a preference under way while the user
   unlinks commits afterwards and leaves classes or a preferred button behind.
2. `OutageKeepsClasses` (`link.go:85-86`): an outage of one of the four requests
   drops that button's class.

Seen while modelling, and in the models, but without a run of their own:

* `hub.go:5-7` gives an abandoned channel a delay before its teardown. A callback
  whose timer was stopped too late (`LateTimerRuns`) that runs after a later
  departure tears the channel down at once. It costs a session and nothing else:
  `ServedByLiveWorker` holds.
* `web/link.go:87`: after linking another account whose first sync finds nothing, the
  old account's classes go on being shown, since an empty fetch keeps the rows.
* `auth.go:108`: a logout whose delete fails is answered like one that worked.

The cache's race of a lookup and a commit is not in this list: `StaleOnlyIfRaced`
describes it exactly, and `Converges` says that it ends with the TTL.

## 5. What is proved

| Module | Theorems | Assumption |
|---|---|---|
| HubProofs | `Inductive`, `TypeCorrect`, `SubscribersServed`, `WorkersDoNotLeak`, `WorkersUnique`, `CapsCorrect`, `ClosingIsSafe`, `ChatInOrder`, `HubImplementsChatFeed` | `HubAssumption`: positive caps and sizes, finitely many widgets, `None` is no channel and no worker |
| BadgesProofs | `BadgesInductive`, `BadgesTypeCorrect`, `StaleBadgesExplained`, `ClassesOfOneAccount`, `OnlyUnlinkClears` | the assumptions of BadgeData and Link |
| Eio3Proofs | `Eio3Inductive`, `Eio3TypeCorrect`, `SilenceIsDetected`, `LiveIsKept` | `Eio3Assumption`: positive intervals |
| TokensProofs | `TokensInductive`, `TokensTypeCorrect`, `ReloginExplained`, `NeverStraddlesExpiry` | `TokensAssumption`: `Latency + Use <= Skew < Life`, `None` is no number |
| SessionsProofs | `SessionsInductive`, `LogoutLasts`, `OrphansExplained`, `StateServesOnce`, `TokensLiveOnce` | `SessionsAssumption`, `NoRowAssumption`: `None` and `Keep` are nothing else |
| OverlayProofs | `OverlayInductive`, `OneStreamAlways`, `ShownInOrderAlways` | `OverlayAssumption`: there are pages and sources, the bounds are numbers |
| BadgesProofs, on the instance `Dj` of DjClass | `KeyIsReadmeOrder`, `FirstGreatestReturned`, `PromiseKept`, `FloorsFollowTheOrder`, `TheoryMark` | none |
| BackgroundProofs | `IngestInductive`, `IngestTypeCorrect`, `OwnFailureEnds` | `IngestAssumption`: positive attempts and backoff; `NoneIsNoCause` |
| BackgroundProofs, on the instance `Daily` of Schedule | `UntilNext`, `NoDayLeftOut`, `NoDayTwice` | `hourUTC` in 0..23 |
| TablesProofs, on Limiter | `LimiterInductive`, `TableNeverGrows`, `OverLimitExplained`, `FewClientsUnderTwice`, `RefusalsAreDue` | `LimiterAssumption`: every key has a positive limit and window, `Nil` is no bucket |
| TablesProofs, on TTLCache | `TTLCacheInductive`, `MapAndListAgree`, `OldestEvicted`, `CacheImplemented` | `TTLCacheAssumption`: positive TTLs and maximum, `None` is no entry |

Each follows from an inductive invariant next to the model (`IInv`, `LimiterInv`,
`TTLCacheInv`, `IngestInv`), by one lemma or step per action. With them every safety
property that a passing run checks is a theorem.

* *Hub.* That no subscriber is on a dead worker is not inductive alone. `Wiring`
  ties map, workers, subscribers and timers together: a worker neither cancelled
  nor closed is registered, and one without subscribers has a timer armed or
  fired. `Goroutines` says a worker runs until its context is done. `Closing` says
  that a subscription is closed only after every worker has exited: with
  `WorkersExited`, no flush is then under way, hence `NoSendOnClosed`. `CapsHold`
  rests on the sets `subs` being disjoint.
* *Hub, order.* `Ordered` stands on top of it. A worker's messages form a line: what
  a widget was written, the batches of its queue, the batch in `flushOnce`'s
  hands as long as it may still go to that widget, the buffer. Each piece holds that
  worker's messages only, rising, and is older than the pieces behind it. `InOrder`
  is its first piece.
* *Hub, refinement.* `Sized` (batches are neither empty nor above `MaxBatch`) and
  `Named` (what messages and widgets refer to is a worker that has its channel for
  good) make the mapping stable; then each action is one of ChatFeed's, or a stutter.
  `Receive` is ChatFeed's step of showing a piece: that the piece is later than
  what was shown, and of the right channel, is `Ordered`. ChatFeed's fairness is
  model-checked only.
* *Badges.* `LookupLocals` is the heart: a lookup that no commit has overtaken
  (`ver` unchanged) holds what is committed. Its `Set` therefore stores a right
  badge or one marked `raced`.
* *Eio3.* The silence plus what is left of the deadline lies between `Timeout`
  and `Interval + Timeout`; while no ping is awaited, silence plus what is left of
  the ping timer is at most `Interval`. Both bounds follow from it at zero.
* *Tokens.* A pair in flight is nowhere else (`InFlight`), and is dead on arrival
  only because of a later login, a loss, a row that changed, or an answer without a
  refresh token (`DeadRefresh`, `DeadLogin`). `InTime` has the clocks: what is under way
  is younger than `Latency`, so the row is ahead of Chzzk by no more than that, and a
  token in use has more to live than its use has left.
* *Sessions.* `TokenFates` lets a token be drawn once and stored once, so a row never
  returns. `OwnSession` and `NothingLeft` follow what a request holds: until it draws
  a token, what it came with; and once its answer will replace the browser's cookie,
  the row behind the old one is gone. `OnlyLogins` gives `LoggedOutStays`, and
  `States` says that a state under way to the browser is newer than every closed one.
* *Overlay.* `OneStream` is inductive by itself. `OnTheWay` says that the batches in a
  pipe are newer than what the page shows and no newer than the last flush: a new
  stream begins empty, and an old pipe is dropped with its source.
* *Ingest.* `AttemptsCounted` ties what a helper does to the attempts it has begun, so
  that the one that gives up has used them all. A leftover helper has `mine` false and
  its `fail` reaches no session (`OwnFailureOnly`).
* *Limiter.* `WindowsApart` follows the admissions back from a bucket: the last one it
  counts opened it, and the one `Limit` further back is at least a window old, for the
  window before admitted no more and had ended; or it is older than the last clearing
  of the table. With `InOrderOfAge` (ages rise) the admission 2 x limit back is out of
  sight or older than the clearing. `FewClientsUnderTwice` draws the consequence: with no
  more clients than `MaxKeys` nothing is ever cleared, and the exception never applies.
* *TTLCache.* `TTLCacheInv`: the list holds each cached key once, in the order of
  `older`. What taking an element out and appending one do to such a list are the
  lemmas `RemoveLists` and `PushLists`. List and map are of one length (`Counted`), so
  that a list too long is a full map, as `EvictsOldest` says. Then each call is a call of Cache or one that
  also loses an entry, which Cache allows; a tick is Cache's `Lose` of what expired.
* *DjClass.* `Loops` says that what the loop has read is not above `best`, and that
  rows before `best` are below it. On rows the store may hold, `SortKey` compares
  exactly as README's order does (`KeyIsReadmeOrder`) and no two are equal.
* *Schedule.* Arithmetic of days and hours, and `InTime`: wall clock and remaining time
  add up to the time the timer was armed for and what the clock was set since. So a run
  is for a later time than the last (`OncePerDay`), and a time passed over before a run
  began means a delay of a day (`BegunLate`); what else `LeftOutOnlyInJob` finds left
  out, the clock passed during the job.

**Model-checked only.** The liveness properties, since tlapm reasons about neither
ENABLED nor fairness: `IdleChannelEnds`, `FanOutCompletes`, `CloseEndsStreams`, `Delivered`
and `ImplementsFairChatFeed` (whose safety part is `HubImplementsChatFeed`) of Hub,
`Converges` of Badges, `DialEnds` and `ReaderEnds` of Eio3, `SubscribedOrRestarted`,
`KeepsTrying` and `StopsWhenCancelled` of Ingest, `Recovers` of Overlay. No module uses
RECURSIVE operators, and Limiter's ghost is kept without a fold, of which nothing could
be proved for every window.

## 6. What is not modelled

* Text and layout: templates, scripts of the dashboard, routing, the format of SSE
  and JSON, the parsing of packets, of V-ARCHIVE's answers and of class names
  (DjClass begins at the rank and level found in one).
* The cryptography of stored tokens, the configuration, snapshots (one SQLite
  command), command-line modes: no state that interacts with the rest.
* Waiting for the store's write connection: transactions happen as a whole or fail,
  and reads see the last commit.
* V-ARCHIVE's data do not change over time, so two syncs that commit in the opposite
  order of their fetches are not told apart. Its client's semaphore is left out.
* Writes to the Engine.IO socket (`eio3.go:221`, `eio3.go:234`) have no deadline: in the
  code they could block `Run`'s select, in the model they succeed or fail.
* Ingest keeps one session at a time. Times are ticks with a monotone clock, except
  in Schedule. Overlay leaves out delays: how long the page waits before it connects
  again, and how long a row fades.

## 7. Plan

The order was by what a failure costs the user: chat and shutdown first (Hub), then
badges, then the way to Chzzk (Eio3, Ingest, Tokens), login (Sessions), the page
(Overlay), the small shared structures and the pure parts. All of these exist. Left:

1. Ingest over Eio3 and Tokens as one worker, to show that Hub's `Ingest` and
   `IngestExit` are all the hub sees of it.
2. A version of V-ARCHIVE's data in Badges, for syncs out of order; the write
   connection in the store.
3. Proofs about the two: that the composed worker implements what Hub assumes of
   `ingest`, and that syncs in order keep the newest classes.
