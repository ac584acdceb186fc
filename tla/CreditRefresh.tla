---------------------------- MODULE CreditRefresh ----------------------------
(***************************************************************************)
(* The usage-based credit snapshot of ONE account row, and everything that *)
(* writes it: the balance refreshes of RefreshAccountCredits (the tokens   *)
(* endpoint, the 401 recovery, the legacy operation endpoint), the         *)
(* operation boundaries that requests record, and credential changes.      *)
(* Every SQL statement is one step (SQLite runs them one at a time); the   *)
(* goroutines, and the service instances they belong to, interleave.       *)
(*                                                                         *)
(* A time the code only compares with "now" is a fact that a step turns:   *)
(* a lease is live until LeaseExpires, and the billing period p has ended  *)
(* when p <= today.  0 is the NULL period end and the empty operation id.  *)
(***************************************************************************)
EXTENDS Naturals

CONSTANTS
    Query,        \* concurrent calls of RefreshAccountCredits
    Request,      \* inference requests sent with the account; their operation ids
    NoLease,      \* the empty usage_credits_lease_id
    DeadLease,    \* the lease id of an attempt that can no longer write
    NoOperation,  \* the empty usage_credits_operation_id
    MaxPeriod,    \* bound: the last billing period
    MaxConsumed,  \* bound: the largest total consumed within a period
    MaxRevision,  \* bound: no refresh starts once query_revision reaches it
    MaxCredential \* bound: the last credential_revision

ASSUME NamesDistinct ==
    /\ NoLease \notin Query /\ DeadLease \notin Query /\ NoLease # DeadLease
    /\ NoOperation \notin Request

ASSUME BoundsNatural ==
    /\ MaxPeriod \in Nat /\ MaxConsumed \in Nat
    /\ MaxRevision \in Nat /\ MaxCredential \in Nat

VARIABLES
    row,          \* the usage_credits_* columns and credential_revision
    query,        \* the local state of each refresh
    request,      \* the local state of each inference request
    today,        \* periods up to this one have ended
    boundaries,   \* history: operation boundaries and rotations written
    completions,  \* history: requests whose response body has ended
    asOf          \* history: what the upstream had seen when it produced the snapshot

vars == <<row, query, request, today, boundaries, completions, asOf>>

Period == 0 .. MaxPeriod
Consumed == 0 .. MaxConsumed
Status == {"unknown", "refreshing", "ready", "stale",
           "no_operation", "unsupported", "error"}
History == [boundaries: Nat, completions: Nat]

\* What the HTTP call of a refresh can produce.  A tokens answer without a
\* periodEnd has period 0; an operation answer never has one.
Balance == [kind: {"balance"}, period: Period, consumed: Consumed]
Refusal == [kind: {"unauthorized", "unsupported", "failed"}, period: {0}, consumed: {0}]
NoReply == [kind |-> "none", period |-> 0, consumed |-> 0]

Row == [credential: Nat, revision: Nat,
        lease: Query \union {NoLease, DeadLease}, live: BOOLEAN,
        status: Status, available: BOOLEAN,
        source: {"none", "tokens", "operation"},
        period: Period, consumed: Consumed, snapshotCredential: Nat,
        operation: Request \union {NoOperation}]

QueryState ==
    [pc: {"idle", "loaded", "built", "asking", "answered", "refused", "rejected",
          "releasing", "recovering", "fallingBack", "unmarked"},
     endpoint: {"tokens", "operation"}, retried: BOOLEAN,
     credential: Nat, revision: Nat, operation: Request \union {NoOperation},
     claimed: Nat, reply: Balance \union Refusal \union {NoReply}, asked: History]

RequestState == [pc: {"new", "sent", "open", "ended"}, credential: Nat]

Now == [boundaries |-> boundaries, completions |-> completions]

TypeOK ==
    /\ row \in Row
    /\ query \in [Query -> QueryState]
    /\ request \in [Request -> RequestState]
    /\ today \in Period
    /\ boundaries \in Nat
    /\ completions \in Nat
    /\ asOf \in History

IdleQuery ==
    [pc |-> "idle", endpoint |-> "tokens", retried |-> FALSE, credential |-> 0,
     revision |-> 0, operation |-> NoOperation, claimed |-> 0, reply |-> NoReply,
     asked |-> [boundaries |-> 0, completions |-> 0]]

\* A freshly created account: no snapshot, credential_revision 1.
Init ==
    /\ row = [credential |-> 1, revision |-> 0, lease |-> NoLease, live |-> FALSE,
              status |-> "unknown", available |-> FALSE, source |-> "none",
              period |-> 0, consumed |-> 0, snapshotCredential |-> 0,
              operation |-> NoOperation]
    /\ query = [q \in Query |-> IdleQuery]
    /\ request = [r \in Request |-> [pc |-> "new", credential |-> 0]]
    /\ today = 0
    /\ boundaries = 0
    /\ completions = 0
    /\ asOf = [boundaries |-> 0, completions |-> 0]

-----------------------------------------------------------------------------
(* Conditions and column lists that several statements share.              *)

\* The last balance, if there is one, becomes a fallback.
Downgraded == IF row.available THEN "stale" ELSE "unknown"

LeaseFree == row.lease = NoLease \/ ~row.live

\* Mutant of OwnsRow: no credential_revision in the WHERE clause.
OwnsRowOfAnyCredential(q) ==
    /\ query[q].endpoint = "operation" => row.operation = query[q].operation
    /\ row.revision = query[q].claimed
    /\ row.lease = q

\* creditRefreshRowQuery: the attempt still owns the row.
OwnsRow(q) ==
    /\ row.credential = query[q].credential
    /\ query[q].endpoint = "operation" => row.operation = query[q].operation
    /\ row.revision = query[q].claimed
    /\ row.lease = q

\* Mutant of InOrder: no high-water mark within a period.
InOrderOfPeriodsOnly(reply) ==
    \/ ~row.available
    \/ row.period <= reply.period
    \/ reply.period = 0

\* The ordering condition of persistTokenCreditSnapshot.
InOrder(reply) ==
    \/ ~row.available
    \/ row.period = 0
    \/ /\ reply.period # 0
       /\ \/ row.period < reply.period
          \/ row.period = reply.period /\ row.consumed <= reply.consumed
    \/ /\ reply.period = 0
       /\ row.period <= today \/ row.consumed <= reply.consumed

PeriodAfter(reply) ==
    IF reply.period # 0 THEN reply.period
    ELSE IF row.period <= today THEN 0 ELSE row.period

Become(q, state) == query' = [query EXCEPT ![q] = state]
Goto(q, label) == Become(q, [query[q] EXCEPT !.pc = label])
Finish(q) == Become(q, IdleQuery)
UnchangedHistory == UNCHANGED <<boundaries, completions>>

-----------------------------------------------------------------------------
(* A refresh.                                                              *)

\* RefreshAccountCredits loads the account row.
Load(q) ==
    /\ query[q].pc = "idle"
    /\ row.revision < MaxRevision
    /\ Become(q, [IdleQuery EXCEPT !.pc = "loaded",
                                   !.credential = row.credential,
                                   !.revision = row.revision,
                                   !.operation = row.operation])
    /\ UNCHANGED <<row, request, today, asOf>> /\ UnchangedHistory

\* applyZencoderAuthWithoutHealthMutation adopts a newer credential of the row
\* (its own OAuth refresh is a CredentialRenewed step before this one) but keeps
\* the query revision of the loaded copy.
Authenticate(q) ==
    /\ query[q].pc = "loaded"
    /\ Become(q, [query[q] EXCEPT !.pc = "built", !.credential = row.credential])
    /\ UNCHANGED <<row, request, today, asOf>> /\ UnchangedHistory

\* markCreditAttemptWithoutLease: the request could not be built or
\* authenticated; the refresh returns that error.
AttemptWithoutLease(q) ==
    /\ query[q].pc = "loaded"
    /\ IF /\ row.credential = query[q].credential
          /\ query[q].endpoint = "operation" => row.operation = query[q].operation
          /\ row.revision = query[q].revision
          /\ LeaseFree
       THEN row' = [row EXCEPT !.status = "error", !.revision = @ + 1]
       ELSE row' = row
    /\ Finish(q)
    /\ UNCHANGED <<request, today, asOf>> /\ UnchangedHistory

\* Mutant of CanClaim: the loaded query_revision is not compared.
CanClaimFreeLease(q) ==
    /\ row.credential = query[q].credential
    /\ LeaseFree
    /\ query[q].endpoint = "operation" => row.operation = query[q].operation

CanClaim(q) ==
    /\ row.credential = query[q].credential
    /\ row.revision = query[q].revision
    /\ LeaseFree
    /\ query[q].endpoint = "operation" => row.operation = query[q].operation

\* claimCreditRefreshLease succeeds: the attempt owns the next query revision.
Claim(q) ==
    /\ query[q].pc = "built"
    /\ CanClaim(q)
    /\ row' = [row EXCEPT !.revision = query[q].revision + 1,
                          !.lease = q, !.live = TRUE, !.status = "refreshing"]
    /\ Become(q, [query[q] EXCEPT !.pc = "asking", !.claimed = query[q].revision + 1])
    /\ UNCHANGED <<request, today, asOf>> /\ UnchangedHistory

\* The claim updates no row: errCreditRefreshBusy ends the refresh.
Busy(q) ==
    /\ query[q].pc = "built"
    /\ ~CanClaim(q)
    /\ Finish(q)
    /\ UNCHANGED <<row, request, today, asOf>> /\ UnchangedHistory

\* The gateway produces its answer: any balance (replicas may lag, so nothing
\* orders the answers but their periodEnd), a refusal, or no usable answer.
Answer(q) ==
    /\ query[q].pc = "asking"
    /\ \E reply \in Balance \union Refusal :
         /\ query[q].endpoint = "operation" => reply.period = 0
         /\ Become(q, [query[q] EXCEPT !.pc = "answered", !.reply = reply, !.asked = Now])
    /\ UNCHANGED <<row, request, today, asOf>> /\ UnchangedHistory

\* persistTokenCreditSnapshot updates the row.
PublishTokens(q) ==
    /\ query[q].pc = "answered" /\ query[q].endpoint = "tokens"
    /\ query[q].reply.kind = "balance"
    /\ OwnsRow(q) /\ InOrder(query[q].reply)
    /\ row' = [row EXCEPT !.lease = NoLease, !.live = FALSE, !.status = "ready",
                          !.available = TRUE, !.source = "tokens",
                          !.period = PeriodAfter(query[q].reply),
                          !.consumed = query[q].reply.consumed,
                          !.snapshotCredential = query[q].credential]
    /\ asOf' = query[q].asked
    /\ Become(q, [query[q] EXCEPT !.pc = "releasing", !.reply = NoReply])
    /\ UNCHANGED <<request, today>> /\ UnchangedHistory

\* persistTokenCreditSnapshot updates no row: errCreditRefreshSuperseded.
TokensSuperseded(q) ==
    /\ query[q].pc = "answered" /\ query[q].endpoint = "tokens"
    /\ query[q].reply.kind = "balance"
    /\ ~(OwnsRow(q) /\ InOrder(query[q].reply))
    /\ Become(q, [query[q] EXCEPT !.pc = "rejected", !.reply = NoReply])
    /\ UNCHANGED <<row, request, today, asOf>> /\ UnchangedHistory

\* Mutant of PublishOperation: the CASE on the source of the snapshot is missing.
PublishAnyOperation(q) ==
    /\ query[q].pc = "answered" /\ query[q].endpoint = "operation"
    /\ query[q].reply.kind = "balance"
    /\ IF OwnsRow(q)
       THEN /\ row' = [row EXCEPT !.lease = NoLease, !.live = FALSE, !.status = "ready",
                                  !.available = TRUE, !.source = "operation",
                                  !.period = 0, !.consumed = query[q].reply.consumed,
                                  !.snapshotCredential = query[q].credential]
            /\ asOf' = query[q].asked
       ELSE UNCHANGED <<row, asOf>>
    /\ Become(q, [query[q] EXCEPT !.pc = "releasing", !.reply = NoReply])
    /\ UNCHANGED <<request, today>> /\ UnchangedHistory

\* persistCreditSnapshot: the operation endpoint fills the balance only when no
\* tokens snapshot was accepted; otherwise the tokens balance stays, downgraded.
PublishOperation(q) ==
    /\ query[q].pc = "answered" /\ query[q].endpoint = "operation"
    /\ query[q].reply.kind = "balance"
    /\ IF ~OwnsRow(q) THEN UNCHANGED <<row, asOf>>
       ELSE IF row.source = "tokens"
       THEN /\ row' = [row EXCEPT !.lease = NoLease, !.live = FALSE, !.status = Downgraded]
            /\ UNCHANGED asOf
       ELSE /\ row' = [row EXCEPT !.lease = NoLease, !.live = FALSE, !.status = "ready",
                                  !.available = TRUE, !.source = "operation",
                                  !.period = 0, !.consumed = query[q].reply.consumed,
                                  !.snapshotCredential = query[q].credential]
            /\ asOf' = query[q].asked
    /\ Become(q, [query[q] EXCEPT !.pc = "releasing", !.reply = NoReply])
    /\ UNCHANGED <<request, today>> /\ UnchangedHistory

\* A refused tokens query: a credential that changed meanwhile makes the error
\* moot (creditCredentialRevisionChanged), otherwise it is recorded.
TokensRefused(q) ==
    /\ query[q].pc = "answered" /\ query[q].endpoint = "tokens"
    /\ query[q].reply.kind # "balance"
    /\ IF row.credential # query[q].credential
       THEN Become(q, [query[q] EXCEPT !.pc = "releasing", !.reply = NoReply])
       ELSE Goto(q, "refused")
    /\ UNCHANGED <<row, request, today, asOf>> /\ UnchangedHistory

OperationRefused(q) ==
    /\ query[q].pc = "answered" /\ query[q].endpoint = "operation"
    /\ query[q].reply.kind # "balance"
    /\ Goto(q, "refused")
    /\ UNCHANGED <<row, request, today, asOf>> /\ UnchangedHistory

\* Mutant of RecordAttempt: the state "" of a superseded balance is written as it is.
RecordAttemptVerbatim(q) ==
    /\ query[q].pc \in {"refused", "rejected"}
    /\ row' = IF OwnsRow(q)
              THEN [row EXCEPT !.lease = NoLease, !.live = FALSE,
                               !.status = IF query[q].pc = "rejected" THEN "" ELSE "error"]
              ELSE row
    /\ Goto(q, "releasing")
    /\ UNCHANGED <<request, today, asOf>> /\ UnchangedHistory

\* persistCreditAttempt with the state of the error, or with "" after a
\* superseded balance, whose state is derived from the row.
RecordAttempt(q) ==
    /\ query[q].pc \in {"refused", "rejected"}
    /\ \E state \in IF query[q].pc = "rejected" THEN {Downgraded}
                    ELSE IF query[q].reply.kind = "unsupported"
                    THEN {"unsupported"} \union
                         (IF query[q].endpoint = "operation" THEN {"error"} ELSE {})
                    ELSE {"error"} :
         row' = IF OwnsRow(q)
                THEN [row EXCEPT !.lease = NoLease, !.live = FALSE, !.status = state]
                ELSE row
    /\ Goto(q, "releasing")
    /\ UNCHANGED <<request, today, asOf>> /\ UnchangedHistory

\* What RefreshAccountCredits does with the error of the attempt that ends: one
\* 401 recovery, the operation endpoint when /tokens is not offered, or return.
AfterAttempt(q) ==
    IF query[q].reply.kind = "unauthorized" /\ ~query[q].retried
    THEN Goto(q, "recovering")
    ELSE IF query[q].reply.kind = "unsupported" /\ query[q].endpoint = "tokens"
    THEN Goto(q, "fallingBack")
    ELSE Finish(q)

\* Mutant of Release: the lease goes, the status stays.
ReleaseLeaseOnly(q) ==
    /\ query[q].pc = "releasing"
    /\ row' = IF row.lease = q THEN [row EXCEPT !.lease = NoLease, !.live = FALSE] ELSE row
    /\ AfterAttempt(q)
    /\ UNCHANGED <<request, today, asOf>> /\ UnchangedHistory

\* The deferred releaseCreditRefreshLease, by lease id alone.
Release(q) ==
    /\ query[q].pc = "releasing"
    /\ row' = IF row.lease = q
              THEN [row EXCEPT !.lease = NoLease, !.live = FALSE,
                               !.status = IF @ = "refreshing" THEN Downgraded ELSE @]
              ELSE row
    /\ AfterAttempt(q)
    /\ UNCHANGED <<request, today, asOf>> /\ UnchangedHistory

\* The release fails (a busy database); nobody holds that lease id any more.
ReleaseFails(q) ==
    /\ query[q].pc = "releasing"
    /\ row' = [row EXCEPT !.lease = IF @ = q THEN DeadLease ELSE @]
    /\ AfterAttempt(q)
    /\ UNCHANGED <<request, today, asOf>> /\ UnchangedHistory

\* forceOAuthRefreshWithoutHealthMutation succeeds once the row carries a newer
\* credential than the copy, and the row is loaded again.
Recover(q) ==
    /\ query[q].pc = "recovering"
    /\ row.credential > query[q].credential
    /\ Become(q, [IdleQuery EXCEPT !.pc = "loaded", !.endpoint = query[q].endpoint,
                                   !.retried = TRUE,
                                   !.credential = row.credential,
                                   !.revision = row.revision,
                                   !.operation = row.operation])
    /\ query[q].endpoint = "operation" => row.operation # NoOperation
    /\ UNCHANGED <<row, request, today, asOf>> /\ UnchangedHistory

\* The recovery fails, the account is no OAuth account, or no operation is left.
RecoveryFails(q) ==
    /\ query[q].pc = "recovering"
    /\ Finish(q)
    /\ UNCHANGED <<row, request, today, asOf>> /\ UnchangedHistory

\* The tokens endpoint is not offered: reload the row, then query its last
\* operation, or record that there is none yet.
FallBack(q) ==
    /\ query[q].pc = "fallingBack"
    /\ LET exists == row.operation # NoOperation IN
         Become(q, [query[q] EXCEPT !.pc = IF exists THEN "loaded" ELSE "unmarked",
                                    !.endpoint = IF exists THEN "operation" ELSE "tokens",
                                    !.credential = row.credential,
                                    !.revision = row.revision,
                                    !.operation = row.operation,
                                    !.reply = NoReply])
    /\ UNCHANGED <<row, request, today, asOf>> /\ UnchangedHistory

\* markCreditNoOperation, guarded by the revision that the attempt claimed.
MarkNoOperation(q) ==
    /\ query[q].pc = "unmarked"
    /\ row' = IF /\ row.credential = query[q].credential
                 /\ row.revision = query[q].claimed
                 /\ row.operation = NoOperation
              THEN [row EXCEPT !.status = "no_operation", !.revision = @ + 1]
              ELSE row
    /\ Finish(q)
    /\ UNCHANGED <<request, today, asOf>> /\ UnchangedHistory

\* The process stops (or a write it depends on fails): its lease id stays behind.
Crash(q) ==
    /\ query[q].pc # "idle"
    /\ row' = [row EXCEPT !.lease = IF @ = q THEN DeadLease ELSE @]
    /\ Finish(q)
    /\ UNCHANGED <<request, today, asOf>> /\ UnchangedHistory

-----------------------------------------------------------------------------
(* Inference requests: the operation boundaries.                           *)

\* A request picks the account and keeps a copy of it until its body ends.
Send(r) ==
    /\ request[r].pc = "new"
    /\ request' = [request EXCEPT ![r] = [pc |-> "sent", credential |-> row.credential]]
    /\ UNCHANGED <<row, query, today, asOf>> /\ UnchangedHistory

\* Mutant of Boundary: the balance is downgraded, a running query is not superseded.
BoundaryWithoutFence(operation) ==
    /\ row' = [row EXCEPT !.status = Downgraded, !.operation = operation]
    /\ boundaries' = boundaries + 1

\* updateCreditOperation: an accepted boundary downgrades the balance, takes the
\* next query revision and clears the lease, so that no earlier query publishes.
Boundary(operation) ==
    /\ row' = [row EXCEPT !.status = Downgraded, !.revision = @ + 1,
                          !.lease = NoLease, !.live = FALSE, !.operation = operation]
    /\ boundaries' = boundaries + 1

\* rememberCreditOperation, when the response headers are in.
RememberOperation(r) ==
    /\ request[r].pc = "sent"
    /\ request' = [request EXCEPT ![r].pc = "open"]
    /\ IF row.credential = request[r].credential
       THEN Boundary(r)
       ELSE UNCHANGED <<row, boundaries>>
    /\ UNCHANGED <<query, today, completions, asOf>>

\* completeCreditOperation, once, when the body ends or is closed.
CompleteOperation(r) ==
    /\ request[r].pc = "open"
    /\ request' = [request EXCEPT ![r].pc = "ended"]
    /\ IF row.credential = request[r].credential /\ row.operation = r
       THEN Boundary(r)
       ELSE UNCHANGED <<row, boundaries>>
    /\ completions' = completions + 1
    /\ UNCHANGED <<query, today, asOf>>

-----------------------------------------------------------------------------
(* The rest of the service, and time.                                      *)

\* The OAuth token writeback, or an API key added a second time: a new
\* credential revision, and not one usage_credits column.
CredentialRenewed ==
    /\ row.credential < MaxCredential
    /\ row' = [row EXCEPT !.credential = @ + 1]
    /\ UNCHANGED <<query, request, today, asOf>> /\ UnchangedHistory

\* RotateAPIKey and a repeated OAuth login: the snapshot is wiped.
CredentialReplaced ==
    /\ row.credential < MaxCredential
    /\ row' = [row EXCEPT !.credential = @ + 1, !.revision = @ + 1,
                          !.lease = NoLease, !.live = FALSE,
                          !.status = "unknown", !.available = FALSE, !.source = "none",
                          !.period = 0, !.consumed = 0, !.snapshotCredential = 0,
                          !.operation = NoOperation]
    /\ boundaries' = boundaries + 1
    /\ UNCHANGED <<query, request, today, completions, asOf>>

LeaseExpires ==
    /\ row.live
    /\ row' = [row EXCEPT !.live = FALSE]
    /\ UNCHANGED <<query, request, today, asOf>> /\ UnchangedHistory

PeriodEnds ==
    /\ today < MaxPeriod
    /\ today' = today + 1
    /\ UNCHANGED <<row, query, request, asOf>> /\ UnchangedHistory

Refresh(q) ==
    \/ Load(q) \/ Authenticate(q) \/ AttemptWithoutLease(q)
    \/ Claim(q) \/ Busy(q) \/ Answer(q)
    \/ PublishTokens(q) \/ TokensSuperseded(q) \/ PublishOperation(q)
    \/ TokensRefused(q) \/ OperationRefused(q) \/ RecordAttempt(q)
    \/ Release(q) \/ ReleaseFails(q)
    \/ Recover(q) \/ RecoveryFails(q) \/ FallBack(q) \/ MarkNoOperation(q)
    \/ Crash(q)

Operate(r) == Send(r) \/ RememberOperation(r) \/ CompleteOperation(r)

Next ==
    \/ \E q \in Query : Refresh(q)
    \/ \E r \in Request : Operate(r)
    \/ CredentialRenewed \/ CredentialReplaced
    \/ LeaseExpires \/ PeriodEnds

Spec == Init /\ [][Next]_vars

-----------------------------------------------------------------------------
(* What must hold.                                                         *)

Holding == {"asking", "answered", "refused", "rejected", "releasing"}

\* A row shows "refreshing" only while an attempt that still owns it is running,
\* or while the lease of a dead one stands, which expires and can be claimed: no
\* order of releases, boundaries and losers leaves the row refreshing for good.
RefreshingIsOwned ==
    row.status = "refreshing" =>
        /\ row.lease # NoLease
        /\ row.lease \in Query =>
             /\ query[row.lease].pc \in Holding
             /\ query[row.lease].claimed = row.revision

\* Two attempts never run under the same query revision, and none runs ahead of
\* the row: a late writer can be told from the current one (the revision CAS).
RevisionsDistinct ==
    \A q1, q2 \in Query :
        query[q1].pc \in Holding =>
            /\ query[q1].claimed <= row.revision
            /\ q1 # q2 /\ query[q2].pc \in Holding
                 => query[q1].claimed # query[q2].claimed

\* A balance shown as ready was produced by the upstream after every operation
\* boundary and credential replacement the row has recorded: an answer that was
\* under way when one was written is never published as current.
ReadyIsCurrent ==
    row.status = "ready" => asOf.boundaries = boundaries

\* Why ReadyIsCurrent holds: an answer that may still be published was produced
\* after the last recorded boundary, because a boundary takes the next revision.
AnswerIsCurrent ==
    \A q \in Query :
        query[q].pc = "answered" /\ query[q].claimed = row.revision
            => query[q].asked.boundaries = boundaries

\* The inductive invariant.
IInv == RevisionsDistinct /\ RefreshingIsOwned /\ AnswerIsCurrent /\ ReadyIsCurrent

\* The snapshot turns ready only with the balance of the credential that the row
\* has at that moment, whatever renewals happened since the query began. (A part of
\* SnapshotKept, which the runs check.)
ReadyAtCurrentCredential ==
    [][row.status # "ready" /\ row'.status = "ready"
         => row'.snapshotCredential = row'.credential]_vars

\* While a known billing period stays current its total consumed never
\* decreases, and the period itself never moves back, in whatever order delayed
\* answers of several refreshes arrive; only the end of the period or a replaced
\* credential clears it.
SnapshotOrder ==
    [][row.available /\ row'.available /\ row.period > today =>
         /\ row'.period >= row.period
         /\ row'.period = row.period => row'.consumed >= row.consumed]_vars

\* The legacy operation endpoint never displaces a balance that came from the
\* tokens endpoint: short of a replaced credential the source stays "tokens",
\* and a refresh that asked about an operation leaves the numbers alone.
TokensAuthoritative ==
    [][row.source = "tokens" /\ row'.available =>
         /\ row'.source = "tokens"
         /\ \A q \in Query : query[q].endpoint = "operation" /\ query'[q] # query[q]
              => row'.consumed = row.consumed /\ row'.period = row.period]_vars

\* The snapshot as the readers of the row see it: leases, revisions and the queries that
\* run are its implementation.
Shown == INSTANCE Snapshot WITH
    balance <- [available |-> row.available, source |-> row.source, period |-> row.period,
                consumed |-> row.consumed, credential |-> row.snapshotCredential],
    ready <- row.status = "ready",
    asOf <- asOf.boundaries,
    credential <- row.credential

\* Every statement of the refreshes and the requests does to the snapshot what one
\* abstract step may do, or nothing.
SnapshotKept == Shown!Spec

\* credits.go and stream.go say that a refresh which started while a request was
\* running must be superseded when the request's body ends.
EveryCompletionSupersedes ==
    row.status = "ready" => asOf.completions = completions

=============================================================================
