# A verification of zencoder2api

zencoder2api is a gateway. Clients speak the OpenAI, Anthropic or Gemini protocol to it; it forwards
each request to the Zencoder gateway with one of the accounts stored in its SQLite database, converts
the answer where the protocols differ, and keeps a balance, a health and usage counters per account.
Several goroutines of a process, and several processes on one database, work on the same rows. This
directory holds TLA+ models of that concurrent core, the configurations that check them with TLC, and
proofs checked by TLAPS.

All paths below are relative to `src/`; `service/` is short for `internal/service/`.

## 1. Inventory

| Part | State | Operations | Hard behaviours | What makes it correct |
|---|---|---|---|---|
| Balance snapshot (`service/credits.go`) | `usage_credits_*` columns of an account row: status, numbers, period end, source, operation id, query revision, lease | refresh through `/tokens`, 401 recovery, fallback to the operation endpoint, operation boundaries of requests, wipe by a login or a rotated key | the answer is written seconds after the row was read; answers reordered; lease lost; process dies | what is shown as ready is newer than every recorded boundary; no period and no total goes back; no row stays "refreshing" |
| Refresh queue (`service/credits.go` 88-580) | channel, sets pending / running / followup under a mutex, worker | enqueue, begin, finish, retry when busy, stop | the send is outside the mutex; the queue is full; the row is busy | a mark has exactly one job; a trigger is lost to a full queue or an error only; every other one is served |
| OAuth refresh (`service/token.go`) | credential, health and `refresh_lease` columns, a lock per process | load, claim, reload, exchange, write back, record failure, recover from a 401 | refresh tokens are used up by the exchange; replies are lost; logins and health writes interleave | no token is sent twice; tokens are replaced only by their successor or by a login; nobody waits for good |
| Account pool (`service/pool.go`) | health columns and their copy in the scheduler's cache | choose, recheck, mark healthy, mark failed, publish, full refresh | row and cache are written in separate steps by requests and refreshers | the cache moves forward, is true under equal revisions, and catches up |
| Request loop (`service/openai.go`, `anthropic.go`, `gemini.go`, `grok.go`, `pool.go` 183-345, `token.go` 187-481) | tried and excluded accounts, attempt counter | select, reload the cache, refresh tokens, ask, ask again with a repaired request, recover, record, retry, return | accounts change at any time; the client goes away, also during a refresh of tokens | no question is put twice; nobody is refused without reason, or blamed for the client unless it cut off a refresh; the loop ends |
| Stream finalizer (`service/stream.go`, `credits.go` 80-138) | 64-byte tail, finalized and closed flags | read, close | reads cut the terminal event; errors after it | a terminal event is never missed; one operation has one end and one verdict |
| Usage accounting (`service/pool.go` 562-690) | counters, quota columns | count, report | answers out of order, rotated credentials | nothing lost; quota moves forward |
| Daily reset (`service/scheduler.go`) | `scheduler_leases` row | claim, transaction, release | several instances, expired leases, crashes | a day's use is wiped once |
| Periodic balance scan (`service/credits_scheduler.go`, `credits.go` 365-419) | ticker, recurring lease with heartbeat | claim, renew, load, refresh, release | a scan outlives its lease; ticks are missed; an instance dies | one scan at a time; an account is refreshed in every interval |
| OAuth logins (`service/oauth.go`, `internal/handler/oauth.go`) | `oauth_sessions` rows, a heartbeat per callback | create, claim, renew, exchange, commit, release, delete, expire | callback delivered twice, claim goes stale, client leaves, claimant dies | one callback succeeds once; a failed one leaves no claim behind |
| Management API (`internal/handler/account.go`, `credits.go`) | account rows | create, rotate, delete, refresh | races with everything above | as above |
| Admin sessions (`internal/middleware/admin_session.go`) | `admin_sessions` rows, signed cookie | login, check, logout, expiry | several instances | logged out stays logged out |
| Schema and migrations (`internal/database/db.go`) | schema version, columns, rows | open, migrate, commit | instances start together, die half way, others serve | nobody serves on half a schema; a migration runs once |
| Start and stop (`main.go`) | background jobs | start, shut down | requests still running | workers stop before the database closes |
| Protocol conversion (`service/*_compat.go`, `gemini_responses.go`, parts of `openai.go`, `anthropic.go`) | event automata of nine stream converters, some behind a pipe; bodies | convert request, answer, stream | truncated and failing streams, fragments and parallel calls, a client that leaves | the client's stream is well-formed, holds what was sent, and looks complete only when it is; no goroutine stays behind |
| Tables, headers, configuration, logging, console | none that changes | | | |

How the parts interact: the request loop selects an account from the pool, `doRequest` may refresh its
tokens, an answer goes through the stream finalizer to the client. The finalizer records usage, writes
the operation boundaries of the balance snapshot, marks the account healthy or failed in the pool, and
triggers the refresh queue; its worker runs a balance refresh, which may refresh the tokens again. The
management API and the logins replace credentials under all of them; every writer guards itself with
revisions compared in the `WHERE` clause of its statement.

## 2. Modules

| Module | Models | Depends on |
|---|---|---|
| `CreditRefresh` | balance snapshot of one row, all its writers | `Snapshot` |
| `Snapshot` | abstract: what the row promises to whoever reads the balance; implemented by `CreditRefresh` | |
| `CreditQueue` | refresh queue; a refresh is reduced to claimed, busy or failed | |
| `OAuthRefresh` | token refresh of one account by several instances, with the provider | |
| `AccountPool` | health of one account in row and cache | |
| `RequestLoop` | one client request over several accounts | |
| `StreamFinalizer` | one response body | |
| `DailyUsage` | counters, quota and daily job of one account | |
| `OAuthSession` | one login and the deliveries of its callback | |
| `CreditScan` | the scheduler of the balance scans in every instance | |
| `Migration` | instances that start on one database | |
| `StreamProtocols` | the events of the four protocols, as far as converters look at them | |
| `Converter` | what the converters share: read an event, emit, return | `StreamProtocols` |
| `ResponsesToChat` (RC), `AnthropicToChat` (AC), `AnthropicFilter` (AF), `ChatToAnthropic` (CA), `ChatToResponses` (CR), `ChatToGemini` (CG), `GeminiToChat` (GC), `GeminiToResponses` (GR), `GeminiToAnthropic` (GA) | one converter each | `Converter` |
| `Reader` | a client that reads a stream by the rules of its protocol (external) | `StreamProtocols` |
| `Upstream` | what an upstream may send next (external) | `Reader` |
| `Relay` | abstract: what a converter promises | |
| `Conversion` | upstream, one or two converters with their queue, client; implements `Relay` | `Upstream`, the converters, `Relay` |
| `CreditRefreshProofs`, `CreditQueueProofs`, `OAuthRefreshProofs`, `AccountPoolProofs`, `RequestLoopProofs`, `StreamFinalizerProofs`, `DailyUsageProofs` | theorems about each | the module named, `TLAPS` |
| `JobsProofs` | theorems about `OAuthSession`, `CreditScan`, `Migration` and the composition `EachSpec` | `MCJobs`, `DailyUsageProofs` |
| `MCAccountPool`, `MCCreditRefresh`, `MCOAuthRefresh`, `MCRequestLoop` | operators for the `.cfg` files: symmetry sets, functions over model values | the module named |
| `MCStreams` | one run for the two machines of a stream | `StreamFinalizer`, `Conversion` |
| `MCWaits` | one run for the two places where goroutines wait for each other | `CreditQueue`, `OAuthRefresh` |
| `MCJobs` | one run for what instances do to one database | `DailyUsage`, `OAuthSession`, `CreditScan`, `Migration` |

`MCStreams`, `MCWaits` and `MCJobs` put machines that do not touch each other side by side: an initial state
chooses the one that moves, the others stay where they begin, and every property is that of its module.

How state and actions correspond to the code. A record variable `row` holds the columns a module needs;
one SQL statement, or one transaction, is one action, because SQLite runs write transactions one at a
time. The local variables of a goroutine are a record in a function over callers (`query`, `caller`,
`request`, ...) whose field `pc` names the place between two statements; code between two accesses to shared
state belongs to the action that precedes or follows it. A Go mutex that guards several accesses makes
them one action (`CreditQueue`) or is a guard (`LockRefresh`, `Lock`). Times that are only compared with
"now" are facts that an action turns (`LeaseExpires`, `PeriodEnds`, `TokenExpires`), so that any delay is
covered; `AccountPool` and `CreditScan` have a clock, since they compare cooldowns, leases
and intervals with each other. HTTP calls have every outcome the code
distinguishes, in particular answers from lagging replicas in any order. A process that stops is the
action `Crash`; its lease id becomes `DeadLease`, because ids are drawn at random for every attempt and
nobody can renew or release that one again. Variables marked "history" are read by properties only.

The converters. An event is a record of what a converter looks at: pieces of text are numbers that count up,
arguments of calls are sequences of tokens of which one is a whole JSON object, so that "valid" and "a prefix
of" mean something. A converter is a record of its local variables and one action for each kind of event it
reads; what it writes is one step, as it writes before it reads on. A pipe between a goroutine and the next
converter is a queue without places (`io.Pipe`). The upstream is any stream its protocol allows, in the styles
in which providers write calls (fragments, cumulative, with and without ids), and it may break off, fail, or
send one event that does not parse. The client is a reader of the protocol: it collects what it is told and
notes whether the rules were broken. `Conversion` shows that every path from upstream to client implements
`Relay`, with the collected answers as the refinement mapping.

Operators named `...` with a comment "Mutant of X" are plausible wrong versions of X; they are not used
by the specification. Replacing X by one of them makes TLC report a violation of the property that
`PROJECT.json` names, which shows that the property depends on that piece of code.

## 3. Runs

All bounds are CONSTANTS of the modules. "States" are distinct states.

| Run | Instance | States | What it shows |
|---|---|---|---|
| `credit_boundaries` | 2 refreshes, 1 request, 2 revisions at which a refresh may start, 2 credentials, no periods | 500 000 | no late answer is published as current, no two attempts share a revision, none is left "refreshing" |
| `credit_order` | 1 refresh again and again, 1 request, 2 periods, totals 0-1, 4 revisions | 362 000 | order of periods and totals; `/tokens` outranks the operation endpoint when the gateway drops and offers it again; the row implements `Snapshot` |
| `waits` | queue: 2 accounts, 2 callers, channel of 1, 2 lost claims; lock: 2 callers in 1 instance, 2 grants, 1 interruption; fair | 284 000 | marks and jobs agree; no trigger lost; every trigger served; behind a lock and a dead owner's lease every caller ends |
| `oauth` | 2 callers in 2 instances, 3 grants, 1 interruption | 1 122 000 | no token sent twice, only successors stored, logins asked for with reason |
| `pool` | 2 requests, 2 refreshers, 2 credentials, 3 health revisions, 2 instants; fair | 1 168 000 | the row's and the cache's health under every interleaving |
| `loop` | 2 accounts (tokens and key), 2 attempts; fair | 1 633 000 | selection, refusal, blame and end of a request |
| `stream` | finalizer: bodies of up to 6 bytes over 3, one terminal event of 3, window 4; converters: answers of up to 3 pieces or fragments and 2 calls; fair | 693 000 | the verdict does not depend on how reads cut the body; the client's stream is well-formed, complete or failed, and ends |
| `jobs` | daily job: 2 requests, 2 instances, 2 days, 2 periods; login: 3 callbacks; scan: 2 instances, 1 account, 5 instants, lease 2, interval 3; start: 2 instances, every version | 699 000 | counters, quota and reset; one login; one scan; a whole schema |
| `credit_overlap`, `loop_500`, `loop_409`, `scan_interval` | 2 requests; 2 accounts; 1 punctual instance | | violations: section 6 |

Why these bounds are enough. The races are between a reader that is late and one other writer, so two actors of each
kind suffice for a pair of steps of any two of them, and a third revision, grant or credential lets a value be
overtaken twice. `credit_order` has one refresh at a time but lets it start four times, because order matters among
successive attempts; `credit_boundaries` has two at once and no totals, because there only revisions matter. The
theorems of section 5 lift every safety property but those of the converters to any number of actors and any bounds.
The channel of the queue has one place so that it is full with one job. `loop` has one account with tokens and one
with a key, as the refresh of tokens and the 401 recovery treat them differently; priorities only order the candidates, and
one is enough for the properties checked. In `stream` the terminal event begins with a repeated byte, so that the search must resume
inside a partial match; the window, as in the code, is longer than the event. Three pieces and two calls let text, a
thought and a call follow each other in every order, fragments of two calls interleave, and one call have more than
two fragments; each of the nine converters is the last of some path, behind another one where the code has it so (RC
before CA and CG, AC before CR and CG). `SomeRoutes` leaves out paths that differ from a chosen one only in the
first converter or in the style of the calls. In `jobs` three callbacks let a claim wander twice; a scan of five
instants outlives a lease of two and meets the next tick; the start of every earlier release is an initial state.
Headers with a limit are treated as those with a cost are and left out by `MaxLimit = 0`.

Bounds cut behaviours in these places: `MaxRevision` stops new refreshes, `MaxGrant` leaves "unavailable"
as the provider's only answer, `MaxHealth` and `MaxCredential` disable the writes that would pass them
(`CacheCatchesUp` is about a row whose writers have come to rest, which the bounds bring about),
`MaxInterruptions` limits crashes, lost replies and the like to one per behaviour. `NextDay` in
`DailyUsage` does not fire between an instance's timer and its claim, the next statement of the code: a
process suspended there for a whole day would wipe under the old date. `Horizon` ends the time of a scan.
`CreditScan!Punctual` is FALSE in `jobs`, where anything may take any time, and TRUE in `scan_interval`, where
ticks are received and scans end in time, so that a delay cannot be the reason of the violation.

`CHECK_DEADLOCK FALSE` is set in every run but `stream` because the actors are one-shot or their budgets end: a
request that has ended, a worker that has stopped have no next step. In `stream` deadlock is checked, which
shows that a converter has an action for whatever it may read.
`SYMMETRY` is used only where no liveness is checked and the exchanged values occur in no other constant.

## 4. Fairness

- `CreditQueue!FairSpec`: the worker and each caller that is inside `enqueueAccountCreditsRefresh` go on
  (goroutines that can run do run, and no step blocks: the sends have a default branch); the context is
  cancelled after the globals were cleared. Nothing forces requests to end or the service to stop, and
  lost claims are limited by `Contention`.
- `OAuthRefresh!FairSpec`: callers go on, since every HTTP call has a timeout; strong fairness for `Lock`,
  because the lock is a channel whose waiters are queued by the runtime; leases of dead owners expire.
- `AccountPool!FairSpec`: some refresher begins again and again (`refreshLoop`, every 30 seconds) and a
  refresh that has begun ends. Requests need no fairness.
- `Conversion!FairSpec`: a converter that can read does (goroutines run, and the client's connection takes or
  refuses what is written), and a cancelled request to the upstream breaks its body. Nothing is expected of an
  upstream or a client: an open stream may stay silent.
- `MCWaits` and `MCStreams` restate the fairness of the modules they put side by side.
- `RequestLoop!FairSpec`: the loop goes on. Rows, cache and client may change at any time and for ever.

## 5. Proofs

Every theorem holds for any sets of actors, accounts and instances and any value of the bounds, under the
assumptions that the modules state next to their constants. Those say that ids which mean "nobody" are no actor's
id, that bounds are natural numbers (a channel, a window or an interval is at least one long), and what the code
guarantees of its own data: a marker is a line that fits the window (`StreamConstants`), the accounts of a request
are finitely many (`LoopConstants`), a caller lives in one instance (`RefreshConstants`), the priorities are those
of `pool.go` (`LoopConstants`). Nothing else is assumed: each proof starts from `Spec`.

The shape is the same throughout: an inductive invariant that says more than the property, a lemma for each action
or group of actions that keeps it, and a theorem that reads the property off. An action property then follows from
one step out of the invariant. `TypeCorrect` of each module is part of that.

**`CreditRefreshProofs`** (balance snapshot; `NamesDistinct`, `BoundsNatural`). `ReadyCurrent`, `RefreshingOwned`,
`DistinctRevisions`: `ReadyIsCurrent` is not inductive. A publication makes the row ready as of the time its answer
was produced, so one must know that this answer is newer than the last boundary. That is `AnswerIsCurrent`: an
answer whose claimed revision is still the row's was produced after the last recorded boundary, because `Boundary`
and `CredentialReplaced` take a new revision and the claim precedes the question. To carry `AnswerIsCurrent` over a
claim one needs that no other running attempt has the revision just taken, `RevisionsDistinct`; and
`RefreshingIsOwned` needs it to exclude that a loser's write is taken for the owner's. Their conjunction is `IInv`.
`ReadyMeansCurrentCredential`, `SnapshotsInOrder`, `TokensWin`: these are about steps. The lemma `BalanceWrites`
says which steps touch the balance at all: a stored answer of one of the two endpoints or a replaced credential.
That a balance of the operation endpoint cannot undo a period rests on `PeriodOfTokens`: only a balance of `/tokens`
has one. `SnapshotImplemented`: `Spec => Shown!Spec`. The row implements the abstract module `Snapshot`, in which
there are no leases, query revisions or attempts. The mapping shows the numbers of the row as the balance, `status =
"ready"` as `ready` and the boundaries its answer had seen as `asOf`; a publication is `Accept`, a claim or a
recorded failure is `Doubt` or a stutter, a recorded boundary is `Cross`. `Accept` asks for `asOf' = boundaries`,
which is where `IInv` is needed, and for the order of periods, where `PeriodOfTokens` is.

**`CreditQueueProofs`** (refresh queue; `QueueConstants`). `MarksAlwaysMatchJobs` rests on `JobInv`: a job on its
way is in one place only (channel, caller that sends, worker that has it or sends it again), its account is marked,
every mark has such a job, and an account that is being refreshed is not marked. It is stated only while the worker
is on; stop clears the marks and lets jobs lie. `TriggersAreKept`: given that invariant, a trigger that is covered
stays so until a refresh claims after it; the step that could break it, the end of a refresh, turns a follow-up into
a new mark.

**`OAuthRefreshProofs`** (token refresh; `RefreshConstants`). `Basic` holds whatever is interrupted: tokens succeed
each other (`InOrder`), a copy never runs ahead of the row and has the row's tokens exactly while it has its
credential revision, a reply was obtained with the copy's own token, and a caller about to ask for a login has a
token that gave trouble (`Fits`). It gives `TokensOnlySucceedTheirParent` and `LoginOnlyForTheseTokens` with
crashes, lost replies and expired leases anywhere. `Undisturbed` holds as long as there was no interruption: whoever
is between lease and write-back owns the lease, a used token of the row has its successor in the hands of that
owner, and an owner that is about to ask holds what the row holds. It gives `TokensSpentOnce` and
`StoredTokenStaysUsable`. The exact statement of `SpentOnce` came out of its proof. A token whose refresh was lost
to the health write that asks for a login stays in the row, spent, until the next login. A refresher that loads it
under the lease asks with it even though a login is required, which is wasted but harmless. Whether a login is
required must be judged by what was loaded and not by the row at the time of asking: a login that comes in between
clears the requirement, and with three callers and four grants TLC finds that behaviour. `SpentOnce` therefore
leaves out the tokens loaded while a login was required, and the copy's `reauth` column, which
`mergeAccountCredential` (`token.go` 529) overwrites, is in the model.

**`AccountPoolProofs`** (health in row and cache; `PoolConstants`, `GoneIsNoAccount`). `PoolInv`: every copy, in the
cache, a request or a snapshot, is `Behind` the row, that is, of no later revision, and equal in health if of the
same; a request that may still write knows all failures if its copy matches the row; one snapshot at a time is on
its way, and one without the account was loaded after its deletion. The reason is that every write of the health
raises a revision, so that no copy but the writer's matches any longer. `CacheStaysTrue`, `CacheOnlyForward` and
`FailuresOnlyByLogin` follow.

**`RequestLoopProofs`** (request loop; `LoopConstants`). `LoopInv`: an attempt is begun only if one is left; each
question was put to an account as often as it was tried and recovered, less the question that is about to be put;
tokens are recovered from a 401 for an account that was not recovered before; an answer that will be recorded as a
failure is one of a guilty account unless the client is gone, and a client that goes during a refresh of tokens has
interrupted it; once the cache was reloaded, an account that stayed usable is in it and not excluded. It gives
`NoAccountAskedTwice`, `BlameHasReason` and `RefusedWithReason`, for rows and caches that never come to rest.

**`StreamFinalizerProofs`** (response bodies; `StreamConstants`). `RequestsAccountedOnce` holds for bodies of any
bytes and any division into reads. The invariant `TailSearched` says that the tail is an end of the text, all of it
or at least a window long, and that the text has no terminal event yet. The lemma `NewEventIsSeen` does the work: an
event of the text with the new data that was not one of the text before ends in the new data, so that it begins
inside the tail, and what the tail shows as the beginning of a line is one in the text. `EffectsMatch` lists what
has been recorded so far; the last theorem, `VerdictsJustified`, reads the verdict off it.

**`DailyUsageProofs`** and **`JobsProofs`** (`UsageConstants`, `JobsConstants`). `UsesCounted`: its two sums are
inductive with `TypeOK`. `CountersOnlyForward` needs `DaysInOrder`: no run is of a later day than today, no account
was reset by a later run than the last, and whoever holds the lease has claimed a day after the last run.
`LoginTakesEffectOnce`: `LoginInv` says that the row is consumed exactly by the one commit and belongs to it, and
that who holds a claim has not ended. `OneScanAtATime`: `ScanInv` says that as long as a scan's lease runs, as far
as it knows, the row says the same; a heartbeat that fails leaves the known end alone, which is why it cannot be
overtaken. `SchemaStaysWhole`: `StartInv` ties columns and values to the version that is recorded (`Shape`), for the
committed database and for the copy of the one that writes. These three are stated of `EachSpec`, the specification
that `jobs` checks; those of `DailyUsage` of its own `Spec`, whose steps are the same.

Only model-checked, and why. Liveness (`EveryTriggerServed`, `EveryCallerEnds`, `CacheCatchesUp`, `RequestEnds`,
`EveryStreamEnds`) needs fairness and ENABLED, which are beyond the prover. `WellFormed`, `WholeAnswerArrives` and
`Relayed`, and `EachTypeOK` of `MCStreams`, are about converters that fold over the fragments of a call or the text
collected so far; what such a fold yields for every input is induction over data, which the provers cannot do.
`EachTypeOK` includes the type invariants of `StreamFinalizer` and `DailyUsage`, which are proved. No module uses a
RECURSIVE operator.

## 6. Disagreements between code and comments

- `credit_overlap`: `credits.go` 96-97 and `stream.go` 61-62 say the end of a body supersedes a balance query
  started while it was open. `updateCreditOperation` records an end only if the row still names the
  operation; when two requests of an account overlap, the first one's end records nothing.
- `loop_500`: the loops of `openai.go`, `gemini.go` and `grok.go` say errors 400 and 500 are returned without
  counting against the account; `shouldRetryUpstreamStatus` is true of 500.
- `loop_409`: `anthropic.go` 258-259 says a 409 is excluded from retries; the loop goes on to the next account.
- `scan_interval`: `DEPLOYMENT.md` 15 says balances are refreshed every 15 minutes. An attempt is recorded a moment
  after the tick that caused it and must be a whole interval old at a tick to be due, so that an account is
  refreshed at every second tick, unless a request or its billing period makes it due.

Observed, with no comment that says otherwise. Four concern a request on its way through the accounts; the properties
of `RequestLoop` are stated so that they hold with them:

- After a 400 about a signature, about `temperature` with `top_p` or about the temperature, the Messages loop repairs
  the body and sends it to the same account inside one attempt (`anthropic.go` 402, 415, 426). `AskedOnce` counts
  the request of the client and the repaired one apart: each is sent once, and once more after a recovered 401,
  which starts from the request of the client again.
- A client that leaves while tokens are refreshed for its request leaves a failure behind. Before the request is
  sent, a cut-off exchange gives the account a cooldown (`token.go` 425); after a 401, a cut-off recovery may do the
  same and is followed by `MarkAccountFailure` with the 401, which asks for a login, without another look at the
  client (`openai.go` 111-126, `anthropic.go` 127-136). `BlameJustified` allows these accounts (`interrupted`) and no
  other: whatever else is recorded is of an attempt that failed while the client waited.
- A database that fails when the account is looked up for the request counts against the account (`token.go` 327,
  `openai.go` 90), so that "failed" in `BlameJustified` is of the account, the upstream or the database.
- When all attempts are used up, the Messages loop reports a network error as `ErrNoAvailableAccount`
  (`anthropic.go` 297-309). The model ends with "exhausted" then; `RefusalJustified` is about refusals by the selection.

Elsewhere:
a 401 of an old credential can be charged to a newer one that was merged into the copy when its recovery
fails (`pool.go` 441); new tokens are dropped, their refresh token spent, if any request writes the health
of the account during the exchange (`token.go` 458); a login or a rotated key cleans the health columns
under the old `health_revision` (`oauth.go` 544); a terminal event quoted inside a line counts if the tail
happens to begin with it (`stream.go` 128), which is why `VerdictJustified` asks for a marker anywhere;
a new pricing period reported without a cost keeps the old `quota_used` (`pool.go` 662); when the instance
that claimed the daily job dies, nobody repeats it that day (`scheduler.go` 79); the migration lease is taken
and given back in one transaction, so that nobody ever meets it taken (`database/db.go` 106-115), and an account
with a secret in the old format makes every start on version 0 fail, although the message asks to recreate it.

In the converters, again with nothing that says otherwise. `Conversion!Claimed` and `WholeAnswerArrives` name
these cases, so that the properties hold for all others:

- Chat to Gemini (CG) ends with STOP when the upstream was cut off or failed, passes over error chunks and
  refusals, and turns arguments that are empty or incomplete into `{"text": ...}`.
- Gemini to Anthropic (GA) puts parallel calls into one block, does not say `tool_use` when STOP comes in a later
  event than the call, and lets it hide MAX_TOKENS; it passes over error events.
- Gemini to Chat (GC) never says `tool_calls` in a stream, though it does in a plain answer. GC and Gemini to
  Responses (GR) take two calls of one function without ids for one; GR fails a prompt that was blocked.
- Arguments whose fragment repeats all that came before are taken for cumulative (CR, CA): the text has two
  readings, and an object may be lost. The error that `cumulativeJSONDelta` declares (`protocol_compat.go` 199)
  cannot occur.
- Chat to Anthropic (CA) fails an answer cut by its length inside the arguments of a call, and closes a block that
  it never opened when a call gets no name.
- Responses to Chat (RC) goes on writing after the error and the end that a malformed event causes.
- The filter of thoughts (AF) leaves a gap in the indexes.

## 7. Assumptions and what is not modelled

SQLite runs statements and transactions one at a time; row ids are not reused (the `AUTOINCREMENT` of the
driver, external to this repository); lease ids and operation ids are unique (random); the instances share
one clock. Accounts with id 0, made for a single request, are not modelled. A model holds one account
wherever the code treats accounts independently of each other (all modules but `CreditQueue` and
`RequestLoop`). `Migration` has one writer at a time and undoes an
unfinished transaction, as SQLite does. Of the converters, identifiers, usage numbers, signatures of thoughts,
the texts of refusals in CA and the check of CR for several choices are left out; calls without any arguments
are not among the upstreams. Debug logging, header copying, and the wording and JSON layout of messages are left out.

Not modelled, and why. The conversion of request bodies and of plain answers is a function of one document:
long, but without state, order or failure between steps; its cases are those of a test table. Admin sessions
are rows that single statements insert, find and delete. Start and stop are a sequence of calls in `main.go`;
what they start and stop is modelled with its crashes. The parsing of callback URLs, the conflict handling of
`CreateAPIKey` and the listing of accounts are checks of one request.

Worth proving next: which steps of the converters keep what a client has been told (`Relay` needs facts about each
converter, but not about the folds in them); that a login, a scan and a start of `JobsProofs` keep their properties
beside each other and not only side by side; abstract modules, such as `Snapshot` is one, of the refresh queue (a
set of accounts that still need a refresh) and of the token chain of an account.

Model tables, header tables, configuration, logging, secrets, the HTTP clients and the web console have no
state that changes and are not modelled.
