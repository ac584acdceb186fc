----------------------------- MODULE RequestLoop -----------------------------
(***************************************************************************)
(* One client request on its way through the accounts: select an account,  *)
(* refresh its tokens where needed, ask, and on a failure of the account   *)
(* record it and try the next one. The other requests, the management API  *)
(* and the clock change the rows and the scheduler's cache at any time.    *)
(*                                                                         *)
(* A row or a cache entry holds the account's scheduling priority, or the  *)
(* reason why there is none.                                               *)
(***************************************************************************)
EXTENDS Naturals, FiniteSets

CONSTANTS
    Account,     \* the accounts that exist at some time
    OAuth,       \* those that hold OAuth tokens; the others hold an API key
    Priority,    \* the scheduling priorities that occur, 0 is tried first
    MaxAttempts  \* maxAccountAttempts

ASSUME LoopConstants ==
    /\ IsFiniteSet(Account) /\ OAuth \subseteq Account
    /\ Priority \subseteq 0 .. 2 /\ Priority # {}
    /\ MaxAttempts \in Nat \ {0}

VARIABLES
    row,        \* what the database holds of each account
    cache,      \* what AccountPool.accounts holds of it
    request,    \* the variables of the request's loop
    cancelled,  \* the client has gone away
    history     \* what the properties compare the request with

vars == <<row, cache, request, cancelled, history>>

\* accountSchedulingPriority, or instead of one: an account in a cooldown, without a
\* login or without balance; one that is still to be added; one that was deleted.
Barred == 3
Future == 4
Deleted == 5
Missing == {Future, Deleted}
Standing == Priority \union {Barred} \union Missing

\* 0 is a request that got no answer.
Status == {0, 200, 400, 401, 409, 429, 500}

\* The client's request, and the one that the Messages loop makes of it after a 400.
Body == {"given", "repaired"}

\* Places at which tokens are exchanged over the network for the request.
Refreshing == {"exchanging", "recovering"}

RequestState ==
    [pc: {"new", "selecting", "choosing", "rechecking", "sending", "asking", "answered", "ended"}
         \union Refreshing,
     anthropic: BOOLEAN,  \* the native Messages loop, which treats errors its own way
     tried: SUBSET Account, excluded: SUBSET Account, cacheRefreshed: BOOLEAN,
     refreshedAfter401: SUBSET Account, attempt: 0 .. MaxAttempts, limit: 1 .. MaxAttempts,
     account: Account, body: Body, status: Status,
     result: {"none", "success", "refused", "returned", "exhausted", "cancelled"}]

\* sends: what each account was asked, and how often;
\* usable: the accounts that could be used all the time since the selection began;
\* guilty: those with an attempt that failed while the client waited, for good: of the
\*   account, the upstream or the database; a 401 counts once it cannot be recovered from;
\* interrupted: those whose tokens were being refreshed when the client went away;
\* blamed: those whose failure was recorded for the request;
\* databaseFailed: a read has failed since the cache was loaded.
History ==
    [sends: [Body -> [Account -> Nat]], usable: SUBSET Account, guilty: SUBSET Account,
     interrupted: SUBSET Account, blamed: SUBSET Account, databaseFailed: BOOLEAN]

TypeOK ==
    /\ row \in [Account -> Standing]
    /\ cache \in [Account -> Standing]
    /\ request \in RequestState
    /\ cancelled \in BOOLEAN
    /\ history \in History

Init ==
    /\ row \in [Account -> Standing \ {Deleted}]
    /\ cache = row
    /\ \E anthropic \in BOOLEAN, a \in Account :
         request = [pc |-> "new", anthropic |-> anthropic, tried |-> {}, excluded |-> {},
                    cacheRefreshed |-> FALSE, refreshedAfter401 |-> {}, attempt |-> 0,
                    limit |-> 1, account |-> a, body |-> "given", status |-> 0,
                    result |-> "none"]
    /\ cancelled = FALSE
    /\ history = [sends |-> [body \in Body |-> [a \in Account |-> 0]], usable |-> {},
                  guilty |-> {}, interrupted |-> {}, blamed |-> {}, databaseFailed |-> FALSE]

-----------------------------------------------------------------------------
Usable(standing) == standing \in Priority

End(result) == request' = [request EXCEPT !.pc = "ended", !.result = result]

\* Mutant of AttemptLimit: no attempt while the cache is empty.
AttemptLimitOfCache ==
    LET count == Cardinality({a \in Account : cache[a] \notin Missing}) IN
      IF count < MaxAttempts THEN count ELSE MaxAttempts

\* accountAttemptLimit
AttemptLimit ==
    LET count == Cardinality({a \in Account : cache[a] \notin Missing}) IN
      IF count = 0 THEN 1 ELSE IF count < MaxAttempts THEN count ELSE MaxAttempts

Candidates == {a \in Account \ (request.tried \union request.excluded) : Usable(cache[a])}

Best == {a \in Candidates : \A b \in Candidates : cache[a] <= cache[b]}

-----------------------------------------------------------------------------
(* GetNextAccountContext.                                                  *)

Start ==
    /\ request.pc = "new"
    /\ request' = [request EXCEPT !.pc = "selecting", !.limit = AttemptLimit]
    /\ UNCHANGED <<row, cache, cancelled, history>>

HasAttempts == request.attempt < request.limit

Select ==
    /\ request.pc = "selecting" /\ HasAttempts
    /\ IF cancelled THEN End("cancelled")
       ELSE request' = [request EXCEPT !.pc = "choosing", !.excluded = {},
                                       !.cacheRefreshed = FALSE]
    /\ history' = [history EXCEPT !.usable = {a \in Account : Usable(row[a])},
                                  !.databaseFailed = FALSE]
    /\ UNCHANGED <<row, cache, cancelled>>

\* All attempts are used up. The Messages loop words the last network error as
\* ErrNoAvailableAccount; for the result it is one of the attempts all the same.
GiveUp ==
    /\ request.pc = "selecting" /\ ~HasAttempts
    /\ End("exhausted")
    /\ UNCHANGED <<row, cache, cancelled, history>>

\* An account of the best priority, round robin; which one is left open.
Choose ==
    /\ request.pc = "choosing"
    /\ \E a \in Best :
         request' = [request EXCEPT !.pc = "rechecking", !.account = a]
    /\ UNCHANGED <<row, cache, cancelled, history>>

\* Mutant of Refresh: the accounts excluded before stay excluded.
RefreshKeepingExcluded ==
    /\ request.pc = "choosing" /\ Candidates = {} /\ ~request.cacheRefreshed
    /\ \/ /\ cache' = row
          /\ request' = [request EXCEPT !.cacheRefreshed = TRUE]
          /\ history' = [history EXCEPT !.databaseFailed = FALSE]
       \/ /\ End(IF cancelled THEN "cancelled" ELSE "refused")
          /\ history' = [history EXCEPT !.databaseFailed = TRUE]
          /\ UNCHANGED cache
    /\ UNCHANGED <<row, cancelled>>

\* The cache has no candidate left: it is loaded again, once, unless the database
\* fails or the client has gone.
Refresh ==
    /\ request.pc = "choosing" /\ Candidates = {} /\ ~request.cacheRefreshed
    /\ \/ /\ cache' = row
          /\ request' = [request EXCEPT !.cacheRefreshed = TRUE, !.excluded = {}]
          /\ history' = [history EXCEPT !.databaseFailed = FALSE]
       \/ /\ End(IF cancelled THEN "cancelled" ELSE "refused")
          /\ history' = [history EXCEPT !.databaseFailed = TRUE]
          /\ UNCHANGED cache
    /\ UNCHANGED <<row, cancelled>>

\* ErrNoAvailableAccount
Refuse ==
    /\ request.pc = "choosing" /\ Candidates = {} /\ request.cacheRefreshed
    /\ End("refused")
    /\ UNCHANGED <<row, cache, cancelled, history>>

\* Mutant of Exclude: the account remains a candidate.
ExcludeNothing(a) == request' = [request EXCEPT !.pc = "choosing"]

Exclude(a) ==
    request' = [request EXCEPT !.pc = "choosing", !.excluded = @ \union {a}]

\* Mutant of Try: the account is not remembered.
TryForgetting(a) == request' = [request EXCEPT !.pc = "sending", !.body = "given"]

Try(a) == request' = [request EXCEPT !.pc = "sending", !.body = "given",
                                     !.tried = @ \union {a}]

\* accountSchedulingCurrentContext reads the row; a failing database excludes, too.
Recheck ==
    /\ request.pc = "rechecking"
    /\ LET a == request.account IN
         \/ /\ cancelled
            /\ End("cancelled") /\ UNCHANGED history
         \/ /\ ~cancelled
            /\ IF Usable(row[a]) THEN Try(a) ELSE Exclude(a)
            /\ UNCHANGED history
         \/ /\ ~cancelled
            /\ Exclude(a)
            /\ history' = [history EXCEPT !.databaseFailed = TRUE]
    /\ UNCHANGED <<row, cache, cancelled>>

-----------------------------------------------------------------------------
(* The attempt.                                                            *)

\* MarkAccountFailure: the account is barred in the row and in the cache, unless the
\* row has changed since.
MarkFailure(a, guilty) ==
    /\ \E current \in IF Usable(row[a]) THEN BOOLEAN ELSE {FALSE} :
         IF current
         THEN /\ row' = [row EXCEPT ![a] = Barred]
              /\ cache' = [cache EXCEPT ![a] = IF @ \in Missing THEN @ ELSE Barred]
         ELSE UNCHANGED <<row, cache>>
    /\ history' = [history EXCEPT !.blamed = @ \union {a}, !.guilty = @ \union guilty,
                                  !.usable = {b \in @ : Usable(row'[b])}]

\* An attempt that fails now is to blame on the client if it has gone.
Guilty == IF cancelled THEN {} ELSE {request.account}

Answer(status) == request' = [request EXCEPT !.pc = "answered", !.status = status]

\* ApplyZencoderAuth: ensureAccountUsable reads the row, and loads the cache again if the
\* credentials have changed; tokens that run out are exchanged. A Barred account may only
\* be out of balance, which is not looked at here.
Authorize ==
    /\ request.pc = "sending"
    /\ \/ /\ ~cancelled /\ row[request.account] \notin Missing
          /\ \/ request' = [request EXCEPT !.pc = "asking"]
             \/ request.account \in OAuth /\ request' = [request EXCEPT !.pc = "exchanging"]
          /\ cache' \in {cache, row}
          /\ UNCHANGED history
       \/ /\ Answer(0)
          /\ history' = [history EXCEPT !.guilty = @ \union Guilty]
          /\ UNCHANGED cache
    /\ UNCHANGED <<row, cancelled>>

\* refreshStoredOAuthAccount has written new tokens, which lifts a cooldown, or has found
\* those of another refresher; the cache is loaded again unless the database fails.
TokensRefreshed(a) ==
    /\ ~cancelled /\ row[a] \notin Missing
    /\ \E standing \in IF row[a] = Barred THEN Priority \union {Barred} ELSE {row[a]} :
         row' = [row EXCEPT ![a] = standing]
    /\ cache' \in {cache, row'}

Exchanged ==
    /\ request.pc = "exchanging"
    /\ TokensRefreshed(request.account)
    /\ request' = [request EXCEPT !.pc = "asking"]
    /\ UNCHANGED <<cancelled, history>>

\* The exchange fails, which is recorded even if the client has cut it off; or the lock,
\* the lease or the row could not be had, which is not.
ExchangeFails ==
    /\ request.pc = "exchanging"
    /\ Answer(0)
    /\ \/ MarkFailure(request.account, Guilty)
       \/ /\ history' = [history EXCEPT !.guilty = @ \union Guilty]
          /\ UNCHANGED <<row, cache>>
    /\ UNCHANGED cancelled

Recoverable == request.account \in OAuth \ request.refreshedAfter401

\* The upstream answers, or it cannot be reached; a cancelled request gets no answer.
\* After some 400s the Messages loop asks the same account once more, with a request that
\* it has repaired.
Ask ==
    /\ request.pc = "asking"
    /\ \E status \in IF cancelled THEN {0} ELSE Status :
         /\ \/ Answer(status)
            \/ /\ request.anthropic /\ status = 400 /\ request.body = "given"
               /\ request' = [request EXCEPT !.pc = "sending", !.body = "repaired"]
         /\ history' = [history EXCEPT
                            !.sends[request.body][request.account] = @ + 1,
                            !.guilty = @ \union IF status \in {200, 400, 409} \/ (status = 401 /\ Recoverable)
                                                  THEN {} ELSE Guilty]
    /\ UNCHANGED <<row, cache, cancelled>>

TryNext == request' = [request EXCEPT !.pc = "selecting", !.attempt = @ + 1]

\* Mutant of Gone: an error is taken for one of the account.
GoneNever == FALSE

\* ctx.Err() != nil
Gone == cancelled

ShouldRetry(status) == status \in {401, 429, 500}

MayRecover == request.status = 401 /\ Recoverable

\* The request got no answer.
Unreachable ==
    /\ request.pc = "answered" /\ request.status = 0
    /\ IF Gone THEN End("cancelled") /\ UNCHANGED <<row, cache, history>>
       ELSE MarkFailure(request.account, {}) /\ TryNext
    /\ UNCHANGED cancelled

\* The tokens were refused: ForceOAuthRefresh begins.
BeginRecovery ==
    /\ request.pc = "answered" /\ MayRecover /\ ~cancelled
    /\ request' = [request EXCEPT !.pc = "recovering"]
    /\ UNCHANGED <<row, cache, cancelled, history>>

\* It has succeeded: the attempt does not count, and the account may be selected again.
Recover ==
    /\ request.pc = "recovering"
    /\ TokensRefreshed(request.account)
    /\ request' = [request EXCEPT !.pc = "selecting", !.tried = @ \ {request.account},
                                  !.refreshedAfter401 = @ \union {request.account}]
    /\ UNCHANGED <<cancelled, history>>

\* It has failed: the 401 is recorded, and the next account is tried. Nobody looks again
\* whether the client is still there.
RecoveryFails ==
    /\ request.pc = "recovering"
    /\ MarkFailure(request.account, Guilty) /\ TryNext
    /\ UNCHANGED cancelled

\* The account is to blame: its failure is recorded, and the next one is tried; the
\* Messages loop returns a 429 of the model's own provider.
Retry ==
    /\ request.pc = "answered" /\ ShouldRetry(request.status) /\ ~MayRecover /\ ~cancelled
    /\ MarkFailure(request.account, {})
    /\ \/ TryNext
       \/ request.anthropic /\ request.status = 429 /\ End("returned")
    /\ UNCHANGED cancelled

\* Any other error is returned; the Messages loop returns 400, and tries the next
\* account otherwise.
Reject ==
    /\ request.pc = "answered" /\ request.status \in {400, 409} /\ ~cancelled
    /\ IF request.anthropic /\ request.status # 400 THEN TryNext ELSE End("returned")
    /\ UNCHANGED <<row, cache, cancelled, history>>

\* The client has gone while an error was read.
Drop ==
    /\ request.pc = "answered" /\ request.status \notin {0, 200} /\ cancelled
    /\ End("cancelled")
    /\ UNCHANGED <<row, cache, cancelled, history>>

\* The answer is handed over to the client.
Succeed ==
    /\ request.pc = "answered" /\ request.status = 200
    /\ End("success")
    /\ UNCHANGED <<row, cache, cancelled, history>>

-----------------------------------------------------------------------------
(* Everybody else.                                                         *)

\* The row of an account changes; a deleted one stays deleted.
RowChanges ==
    /\ request.pc # "ended"
    /\ \E a \in Account, standing \in Standing \ {Future} :
         /\ row[a] # Deleted /\ (row[a] = Future => standing # Deleted)
         /\ row' = [row EXCEPT ![a] = standing]
    /\ history' = [history EXCEPT !.usable = {a \in @ : Usable(row'[a])}]
    /\ UNCHANGED <<cache, request, cancelled>>

\* The refresh loop loads all rows, a request publishes the health of one.
CacheChanges ==
    /\ request.pc # "ended"
    /\ \/ cache' = row
       \/ \E a \in Account :
            /\ cache[a] \notin Missing /\ row[a] \notin Missing
            /\ cache' = [cache EXCEPT ![a] = row[a]]
    /\ UNCHANGED <<row, request, cancelled, history>>

\* The client goes away.
Cancel ==
    /\ request.pc # "ended" /\ ~cancelled
    /\ cancelled' = TRUE
    /\ history' = [history EXCEPT !.interrupted = IF request.pc \in Refreshing
                                                  THEN @ \union {request.account} ELSE @]
    /\ UNCHANGED <<row, cache, request>>

Step ==
    \/ Start \/ Select \/ GiveUp \/ Choose \/ Refresh \/ Refuse \/ Recheck
    \/ Authorize \/ Exchanged \/ ExchangeFails \/ Ask
    \/ Unreachable \/ BeginRecovery \/ Recover \/ RecoveryFails \/ Retry \/ Reject \/ Drop \/ Succeed

Next == Step \/ RowChanges \/ CacheChanges \/ Cancel

Spec == Init /\ [][Next]_vars

\* The loop goes on: every call it makes returns, the upstream request after the
\* timeout of the HTTP client.
FairSpec == Spec /\ WF_vars(Step)

-----------------------------------------------------------------------------
(* What must hold.                                                         *)

\* A request does not put the same question to an account twice, except once more after
\* its tokens were recovered from a 401; what the Messages loop has repaired after a 400
\* is another question, put once.
AskedOnce ==
    \A body \in Body, a \in Account :
        history.sends[body][a] <= IF a \in request.refreshedAfter401 THEN 2 ELSE 1

\* A request is refused only if no account was left that it had not tried and that
\* could be used for as long as it was looking: neither a stale cache nor a database
\* error that has passed when the cache is loaded again turns a client away.
RefusalJustified ==
    request.result = "refused" /\ ~history.databaseFailed
        => history.usable \subseteq request.tried

\* A client that goes away leaves no failure of an account behind, unless it cuts off a
\* refresh of its tokens: every other recorded failure is of an attempt that failed
\* while the client waited.
BlameJustified == history.blamed \subseteq history.guilty \union history.interrupted

\* A request comes to an end, however the accounts change around it.
RequestEnds == <>(request.pc = "ended")

\* openai.go, gemini.go and grok.go say that errors 400 and 500 are returned
\* directly and do not count as errors of the account.
Error500Returned ==
    [][request.pc = "answered" /\ request.status \in {400, 500} /\ ~request.anthropic
         => UNCHANGED history.blamed]_vars

\* anthropic.go says that a semantic error of the request, as 409, is not retried, lest
\* its side effects are repeated.
Error409Final ==
    [][request.pc = "answered" /\ request.status = 409 /\ request' # request
         => request'.pc = "ended"]_vars

=============================================================================
