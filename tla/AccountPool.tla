----------------------------- MODULE AccountPool -----------------------------
(***************************************************************************)
(* The health of ONE account, in its database row and in the scheduler's   *)
(* cache.  Requests choose the account from the cache, check it against    *)
(* the row, and record how the upstream request ended: first in the row,   *)
(* then in the cache.  Refreshers replace the cache by a snapshot of the   *)
(* database, taken and published under refreshMu but in two steps.         *)
(*                                                                         *)
(* The account's columns are health_revision, credential_revision,         *)
(* cooldown_until and reauth_required; a cooldown is over when the clock   *)
(* reaches it.                                                             *)
(***************************************************************************)
EXTENDS Naturals

CONSTANTS
    Request,       \* requests that use the account, again and again
    Refresher,     \* callers of AccountPool.refresh: the loop and the handlers
    Gone,          \* in place of an account: no such row, no such cache entry
    MaxCredential, \* bound: credential revisions
    MaxHealth,     \* bound: health revisions
    Horizon        \* bound: the last time of the clock

ASSUME PoolConstants ==
    /\ MaxCredential \in Nat \ {0} /\ MaxHealth \in Nat \ {0} /\ Horizon \in Nat

VARIABLES
    row,        \* the account in the database
    cache,      \* the account in AccountPool.accounts
    now,        \* the clock
    request,    \* the account copy and progress of each request
    refresher,  \* the snapshot and progress of each refresher
    failures    \* history: failures recorded in the row

vars == <<row, cache, now, request, refresher, failures>>

Account ==
    [credential: 1 .. MaxCredential, health: 1 .. MaxHealth, until: 0 .. Horizon + 1,
     reauth: BOOLEAN]

\* Gone is told from every account.
ASSUME GoneIsNoAccount == Gone \notin Account

RequestState ==
    [pc: {"idle", "chosen", "checked", "sending", "succeeded", "failed", "rereading",
          "publishing"},
     account: Account \union {Gone},
     unauthorized: BOOLEAN,
     seen: Nat]  \* history: the failures recorded when the copy last read the row

RefresherState == [pc: {"idle", "loaded"}, snapshot: Account \union {Gone}]

TypeOK ==
    /\ row \in Account \union {Gone}
    /\ cache \in Account \union {Gone}
    /\ now \in 0 .. Horizon
    /\ request \in [Request -> RequestState]
    /\ \A r \in Request : request[r].account = Gone <=> request[r].pc = "idle"
    /\ refresher \in [Refresher -> RefresherState]
    /\ failures \in 0 .. MaxHealth

NewAccount == [credential |-> 1, health |-> 1, until |-> 0, reauth |-> FALSE]

IdleRequest == [pc |-> "idle", account |-> Gone, unauthorized |-> FALSE, seen |-> 0]
IdleRefresher == [pc |-> "idle", snapshot |-> Gone]

\* InitAccountPool has loaded the one account.
Init ==
    /\ row = NewAccount
    /\ cache = NewAccount
    /\ now = 0
    /\ request = [r \in Request |-> IdleRequest]
    /\ refresher = [f \in Refresher |-> IdleRefresher]
    /\ failures = 0

-----------------------------------------------------------------------------
\* isAccountHealthy
Healthy(account) == ~account.reauth /\ account.until <= now

\* The account found in a row or in the cache when its credential and health
\* are those of the copy.
Matches(stored, account) ==
    /\ stored # Gone /\ account # Gone
    /\ stored.credential = account.credential
    /\ stored.health = account.health

WithHealthOf(account, source) ==
    [account EXCEPT !.health = source.health, !.until = source.until,
                    !.reauth = source.reauth]

Become(r, state) == request' = [request EXCEPT ![r] = state]
Goto(r, label) == Become(r, [request[r] EXCEPT !.pc = label])
Finish(r) == Become(r, IdleRequest)

-----------------------------------------------------------------------------
(* Requests.                                                               *)

\* GetNextAccountContext takes the account from the cache ...
Choose(r) ==
    /\ request[r].pc = "idle"
    /\ cache # Gone /\ Healthy(cache)
    /\ Become(r, [request[r] EXCEPT !.pc = "chosen", !.account = cache])
    /\ UNCHANGED <<row, cache, now, refresher, failures>>

\* ... and accountSchedulingCurrentContext checks it against the row; the copy gets
\* the health of the row and keeps the credential of the cache.
Recheck(r) ==
    /\ request[r].pc = "chosen"
    /\ IF row # Gone /\ Healthy(row)
       THEN Become(r, [request[r] EXCEPT !.pc = "checked", !.seen = failures,
                                         !.account = WithHealthOf(@, row)])
       ELSE Finish(r)
    /\ UNCHANGED <<row, cache, now, refresher, failures>>

\* ensureAccountUsable: a newer credential is merged into the copy, an account that
\* cannot be used is a failure of the request.
EnsureUsable(r) ==
    /\ request[r].pc = "checked"
    /\ IF row = Gone THEN Goto(r, "failed")
       ELSE IF ~Healthy(row) \/ row.credential < request[r].account.credential
            THEN Goto(r, "failed")
       ELSE IF row.credential > request[r].account.credential
            THEN Become(r, [request[r] EXCEPT !.pc = "sending", !.account = row,
                                              !.seen = failures])
       ELSE Goto(r, "sending")
    /\ UNCHANGED <<row, cache, now, refresher, failures>>

\* Mutant of Merge: a row that is missing passes for an account.
MergeMissing(r) ==
    /\ request[r].pc = "sending"
    /\ Become(r, [request[r] EXCEPT !.account = row, !.seen = failures])
    /\ UNCHANGED <<row, cache, now, refresher, failures>>

\* refreshStoredOAuthAccount found new tokens in the row, and merged all of it.
Merge(r) ==
    /\ request[r].pc = "sending" /\ row # Gone
    /\ Become(r, [request[r] EXCEPT !.account = row, !.seen = failures])
    /\ UNCHANGED <<row, cache, now, refresher, failures>>

CanRenew(r) == Matches(row, request[r].account) /\ ~row.reauth

\* refreshStoredOAuthAccount stores new tokens, with the health of a success.
RenewTokens(r) ==
    /\ request[r].pc = "sending" /\ CanRenew(r)
    /\ row.credential < MaxCredential /\ row.health < MaxHealth
    /\ row' = [credential |-> row.credential + 1, health |-> row.health + 1, until |-> 0,
               reauth |-> FALSE]
    /\ Become(r, [request[r] EXCEPT !.account = row'])
    /\ UNCHANGED <<cache, now, refresher, failures>>

\* The upstream answers, or does not.
Answer(r) ==
    /\ request[r].pc = "sending"
    /\ \/ Goto(r, "succeeded")
       \/ \E unauthorized \in BOOLEAN :
            Become(r, [request[r] EXCEPT !.pc = "failed", !.unauthorized = unauthorized])
    /\ UNCHANGED <<row, cache, now, refresher, failures>>

\* Mutant of ClearsFailure: no health_revision in the WHERE clause.
ClearsFailureOfAnyRevision(r) ==
    row # Gone /\ row.credential = request[r].account.credential /\ ~row.reauth

\* Mutant of ClearsFailure: no reauth_required in the WHERE clause.
ClearsReauth(r) == Matches(row, request[r].account)

ClearsFailure(r) == Matches(row, request[r].account) /\ ~row.reauth

\* MarkAccountHealthy, the row.
MarkHealthy(r) ==
    /\ request[r].pc = "succeeded"
    /\ IF ClearsFailure(r)
       THEN /\ row.health < MaxHealth
            /\ row' = [row EXCEPT !.health = @ + 1, !.until = 0]
            /\ Become(r, [request[r] EXCEPT !.pc = "publishing",
                                            !.account.health = @ + 1,
                                            !.account.until = 0,
                                            !.account.reauth = FALSE])
       ELSE row' = row /\ Finish(r)
    /\ UNCHANGED <<cache, now, refresher, failures>>

\* MarkAccountFailure, the row: a cooldown that Retry-After or the number of
\* failures determines; a 401 also requires a new login.
MarkFailure(r) ==
    /\ request[r].pc = "failed"
    /\ LET account == request[r].account
           unauthorized == request[r].unauthorized IN
         IF Matches(row, account) /\ (row.reauth => unauthorized)
         THEN /\ row.health < MaxHealth
              /\ \E until \in now + 1 .. Horizon + 1 :
                   LET health == [health |-> account.health + 1, until |-> until,
                                  reauth |-> unauthorized] IN
                     /\ row' = WithHealthOf(row, health)
                     /\ Become(r, [request[r] EXCEPT
                                       !.pc = "rereading",
                                       !.account = WithHealthOf(@, health)])
              /\ failures' = failures + 1
         ELSE row' = row /\ Finish(r) /\ UNCHANGED failures
    /\ UNCHANGED <<cache, now, refresher>>

\* MarkAccountFailure reads the health of the row back, whatever its credential is.
Reread(r) ==
    /\ request[r].pc = "rereading"
    /\ Become(r, [request[r] EXCEPT
                      !.pc = "publishing",
                      !.account = IF row = Gone THEN @ ELSE WithHealthOf(@, row)])
    /\ UNCHANGED <<row, cache, now, refresher, failures>>

\* Mutant of TakesHealth: updatePoolHealth trusts every writer.
TakesHealthOfAnyRevision(account) ==
    cache # Gone /\ cache.credential = account.credential

TakesHealth(account) ==
    /\ cache # Gone
    /\ cache.credential = account.credential
    /\ cache.health <= account.health

\* updatePoolHealth
PublishHealth(r) ==
    /\ request[r].pc = "publishing"
    /\ cache' = IF TakesHealth(request[r].account)
                THEN WithHealthOf(cache, request[r].account) ELSE cache
    /\ Finish(r)
    /\ UNCHANGED <<row, now, refresher, failures>>

\* The request gives up: its client has gone, or an error is not the account's.
Abandon(r) ==
    /\ request[r].pc \in {"chosen", "checked", "sending"}
    /\ Finish(r)
    /\ UNCHANGED <<row, cache, now, refresher, failures>>

-----------------------------------------------------------------------------
(* AccountPool.refreshContext.                                             *)

LockRefresh == \A f \in Refresher : refresher[f].pc = "idle"

LoadAccounts(f) ==
    /\ refresher[f].pc = "idle" /\ LockRefresh
    /\ refresher' = [refresher EXCEPT ![f] = [pc |-> "loaded", snapshot |-> row]]
    /\ UNCHANGED <<row, cache, now, request, failures>>

\* Mutant of Merged: entries that the snapshot lacks are kept.
MergedWithAll(snapshot) ==
    IF snapshot = Gone THEN cache ELSE
    IF cache # Gone /\ cache.credential > snapshot.credential THEN cache ELSE snapshot

\* mergeAccountPoolRuntime
Merged(snapshot) ==
    IF snapshot = Gone \/ cache = Gone THEN snapshot
    ELSE IF cache.credential > snapshot.credential THEN cache
    ELSE IF cache.credential = snapshot.credential /\ cache.health > snapshot.health
         THEN WithHealthOf(snapshot, cache)
    ELSE snapshot

PublishAccounts(f) ==
    /\ refresher[f].pc = "loaded"
    /\ cache' = Merged(refresher[f].snapshot)
    /\ refresher' = [refresher EXCEPT ![f] = IdleRefresher]
    /\ UNCHANGED <<row, now, request, failures>>

-----------------------------------------------------------------------------
(* The rest of the service, and time.                                      *)

\* A repeated login or RotateAPIKey: a new credential, and a clean health, under the
\* old health_revision.
ReplaceCredential ==
    /\ row # Gone /\ row.credential < MaxCredential
    /\ row' = [row EXCEPT !.credential = @ + 1, !.until = 0, !.reauth = FALSE]
    /\ UNCHANGED <<cache, now, request, refresher, failures>>

Delete ==
    /\ row # Gone
    /\ row' = Gone
    /\ UNCHANGED <<cache, now, request, refresher, failures>>

Tick ==
    /\ now < Horizon
    /\ now' = now + 1
    /\ UNCHANGED <<row, cache, request, refresher, failures>>

Next ==
    \/ \E r \in Request :
         \/ Choose(r) \/ Recheck(r) \/ EnsureUsable(r) \/ Merge(r) \/ RenewTokens(r)
         \/ Answer(r) \/ MarkHealthy(r) \/ MarkFailure(r) \/ Reread(r) \/ PublishHealth(r)
         \/ Abandon(r)
    \/ \E f \in Refresher : LoadAccounts(f) \/ PublishAccounts(f)
    \/ ReplaceCredential \/ Delete \/ Tick

Spec == Init /\ [][Next]_vars

\* The refresh loop runs every 30 seconds; a refresh that has begun ends.
FairSpec ==
    /\ Spec
    /\ WF_vars(\E f \in Refresher : LoadAccounts(f))
    /\ \A f \in Refresher : WF_vars(PublishAccounts(f))

-----------------------------------------------------------------------------
(* What must hold.                                                         *)

\* What has gone wrong since stands. A cooldown is not lifted by a success that is older
\* than the failure: whoever clears it has read the row after the last failure was
\* recorded. And only a login or a rotated key ends the need for one: no request, however
\* it ends, and no refresh of tokens that was on its way does.
FailuresStand ==
    [][row # Gone /\ row' # Gone =>
         /\ row.until > now /\ row'.until = 0 =>
              \A r \in Request : request'[r] # request[r] => request[r].seen = failures
         /\ row.reauth /\ ~row'.reauth => request' = request]_vars

\* The cache never returns to an older credential or an older health, nor to a deleted
\* account: neither a slow snapshot nor a slow request undoes what the scheduler knows.
CacheMovesForward ==
    [][/\ cache # Gone /\ cache' # Gone
            => \/ cache'.credential > cache.credential
               \/ cache'.credential = cache.credential /\ cache'.health >= cache.health
       /\ row = Gone /\ cache = Gone => cache' = Gone]_vars

\* Under the revisions of the row the cache holds the health of the row.
CacheIsTrue ==
    Matches(cache, row) => cache.until = row.until /\ cache.reauth = row.reauth

\* The cache catches up with the row: what the scheduler sees of the account is in
\* the end what the database holds.
CacheCatchesUp == <>[](cache = row)

=============================================================================
