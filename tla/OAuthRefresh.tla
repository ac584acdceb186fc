---------------------------- MODULE OAuthRefresh ----------------------------
(***************************************************************************)
(* Refreshing the OAuth tokens of ONE stored account.  Requests of several *)
(* service instances share the row; a refresh token is used up when the    *)
(* provider answers.  One refresher per instance holds the local lock, one *)
(* per database the refresh lease; the new tokens are written back under a *)
(* comparison of lease, credential revision and health revision.           *)
(*                                                                         *)
(* A grant is one pair of access and refresh token, numbered in the order  *)
(* of issue.  A row with credential 0 has been deleted.                    *)
(***************************************************************************)
EXTENDS Naturals

CONSTANTS
    Caller,          \* requests (and balance queries) that use the account, once each
    Instance,        \* service instances
    HostOf,          \* the instance that runs a caller
    NoLease,         \* the empty refresh_lease_id
    DeadLease,       \* the lease id of a refresher that is gone
    MaxGrant,        \* bound: grants the provider issues
    MaxInterruptions \* bound: crashes, lost replies, stalls past the lease, outages of
                     \* the provider, health writes of other requests, deletions
                     \* and revocations

ASSUME RefreshConstants ==
    /\ HostOf \in [Caller -> Instance]
    /\ NoLease \notin Caller /\ DeadLease \notin Caller /\ NoLease # DeadLease
    /\ MaxGrant \in Nat \ {0} /\ MaxInterruptions \in Nat

VARIABLES
    row,           \* the account's credential, health and refresh_lease columns
    caller,        \* the account copy and progress of each caller
    accepted,      \* provider: grants whose refresh token can still be used
    issued,        \* provider: how many grants it has issued
    parent,        \* history: the grant that a refreshed grant was obtained with
    troubled,      \* history: grants rejected by the gateway or not refreshed
    replayed,      \* history: a used-up token was sent again by a refresher that was not
                   \* told that a login is required
    interruptions  \* how many interruptions there have been

vars == <<row, caller, accepted, issued, parent, troubled, replayed, interruptions>>
provider == <<accepted, issued, parent>>

Grant == 1 .. MaxGrant

Row == [credential: Nat, health: Nat, reauth: BOOLEAN, cooldown: BOOLEAN,
        expired: BOOLEAN, grant: Grant, lease: Caller \union {NoLease, DeadLease}, live: BOOLEAN]

CallerState ==
    [pc: {"new", "picked", "using", "expiring", "locking", "loading", "claiming", "reloading",
          "asking", "answered", "refused", "failed", "rereading", "condemning",
          "writing", "succeeding", "failing", "faulted", "condemned", "ended"},
     affectsHealth: BOOLEAN, recovery: {"none", "running", "done"},
     credential: Nat, health: Nat, grant: Grant, expired: BOOLEAN, reauth: BOOLEAN,
     reply: Grant \union {0}, refused: BOOLEAN]

TypeOK ==
    /\ row \in Row
    /\ caller \in [Caller -> CallerState]
    /\ accepted \subseteq Grant
    /\ issued \in Grant
    /\ parent \in [Grant -> Grant \union {0}]
    /\ troubled \subseteq Grant
    /\ replayed \in BOOLEAN
    /\ interruptions \in 0 .. MaxInterruptions

NewCaller ==
    [pc |-> "new", affectsHealth |-> FALSE, recovery |-> "none", credential |-> 0,
     health |-> 0, grant |-> 1, expired |-> FALSE, reauth |-> FALSE, reply |-> 0,
     refused |-> FALSE]

\* An account that has just logged in.
Init ==
    /\ row = [credential |-> 1, health |-> 1, reauth |-> FALSE, cooldown |-> FALSE,
              expired |-> FALSE, grant |-> 1, lease |-> NoLease, live |-> FALSE]
    /\ caller = [c \in Caller |-> NewCaller]
    /\ accepted = {1}
    /\ issued = 1
    /\ parent = [g \in Grant |-> 0]
    /\ troubled = {}
    /\ replayed = FALSE
    /\ interruptions = 0

-----------------------------------------------------------------------------
Become(c, state) == caller' = [caller EXCEPT ![c] = state]
Goto(c, label) == Become(c, [caller[c] EXCEPT !.pc = label])
End(c) == Become(c, [NewCaller EXCEPT !.pc = "ended"])

Exists == row.credential # 0

\* mergeAccountCredential: the copy takes credential and health of the row. The health
\* writes change the reauth of the copy too; of a stored account nobody reads that.
Merged(c, label) ==
    [caller[c] EXCEPT !.pc = label, !.credential = row.credential, !.health = row.health,
                      !.grant = row.grant, !.expired = row.expired, !.reauth = row.reauth]

LocallyLocked ==
    {"loading", "claiming", "reloading", "asking", "answered", "refused", "failed",
     "rereading", "condemning", "writing", "succeeding", "failing"}

Quiet == UNCHANGED <<provider, troubled, replayed, interruptions>>

\* A refresh that fails is an error of the request, unless it was the recovery
\* of a 401, which is then held against the account; a balance query only
\* records it.
Fail(c) ==
    IF ~caller[c].affectsHealth THEN End(c)
    ELSE Goto(c, IF caller[c].recovery = "running" THEN "condemned" ELSE "faulted")

\* The request goes on with a token; after a recovery it starts over.
Succeed(c) ==
    IF caller[c].recovery = "running"
    THEN Become(c, [caller[c] EXCEPT !.pc = "picked", !.recovery = "done"])
    ELSE Goto(c, "using")

-----------------------------------------------------------------------------
(* Using the account.                                                      *)

\* A request selects the account, or a balance query loads it; a balance query
\* leaves the account's health alone.
Pick(c) ==
    /\ caller[c].pc = "new" /\ Exists /\ ~row.reauth /\ ~row.cooldown
    /\ \E affectsHealth \in BOOLEAN :
         Become(c, [Merged(c, "picked") EXCEPT !.affectsHealth = affectsHealth])
    /\ UNCHANGED row /\ Quiet

\* ensureAccountUsable: a newer credential of the row is merged into the copy.
EnsureUsable(c) ==
    /\ caller[c].pc = "picked"
    /\ IF ~Exists \/ row.reauth \/ row.cooldown THEN Fail(c)
       ELSE IF row.credential # caller[c].credential THEN Become(c, Merged(c, "using"))
       ELSE Goto(c, "using")
    /\ UNCHANGED row /\ Quiet

\* The token works.
Accepted(c) ==
    /\ caller[c].pc = "using" /\ ~caller[c].expired
    /\ End(c)
    /\ UNCHANGED row /\ Quiet

\* getAccessTokenWithHealthMode: the token is about to expire.
NeedsRefresh(c) ==
    /\ caller[c].pc = "using" /\ caller[c].expired
    /\ Goto(c, "locking")
    /\ UNCHANGED row /\ Quiet

\* The gateway answers 401: one recovery; a second 401 counts against the account.
Unauthorized(c) ==
    /\ caller[c].pc = "using" /\ ~caller[c].expired
    /\ IF caller[c].recovery = "none"
       THEN Become(c, [caller[c] EXCEPT !.pc = "expiring", !.recovery = "running"])
       ELSE IF caller[c].affectsHealth THEN Goto(c, "condemned") ELSE End(c)
    /\ troubled' = troubled \union {caller[c].grant}
    /\ UNCHANGED <<row, provider, replayed, interruptions>>

\* forceOAuthRefresh expires the token of the rejected credential in the row.
Expire(c) ==
    /\ caller[c].pc = "expiring"
    /\ IF row.credential = caller[c].credential
       THEN /\ row' = [row EXCEPT !.expired = TRUE]
            /\ Become(c, [caller[c] EXCEPT !.pc = "locking", !.expired = TRUE])
       ELSE /\ row' = row
            /\ Fail(c)
    /\ Quiet

\* MarkAccountFailure with the 401 that was not recovered.
Condemned(c) ==
    /\ caller[c].pc = "condemned"
    /\ row' = IF row.credential = caller[c].credential /\ row.health = caller[c].health
              THEN [row EXCEPT !.reauth = TRUE, !.cooldown = TRUE, !.health = @ + 1] ELSE row
    /\ End(c)
    /\ Quiet

\* MarkAccountFailure with the error of a request that could not be sent.
Faulted(c) ==
    /\ caller[c].pc = "faulted"
    /\ row' = IF /\ row.credential = caller[c].credential /\ row.health = caller[c].health
                 /\ ~row.reauth
              THEN [row EXCEPT !.cooldown = TRUE, !.health = @ + 1] ELSE row
    /\ End(c)
    /\ Quiet

-----------------------------------------------------------------------------
(* refreshStoredOAuthAccount.                                              *)

\* acquireRefreshLock: one caller per instance.
Lock(c) ==
    /\ caller[c].pc = "locking"
    /\ \A d \in Caller : HostOf[d] = HostOf[c] => caller[d].pc \notin LocallyLocked
    /\ Goto(c, "loading")
    /\ UNCHANGED row /\ Quiet

\* loadOAuthAccount; somebody may have refreshed the token already.
Load(c) ==
    /\ caller[c].pc = "loading"
    /\ IF ~Exists THEN Goto(c, "failing")
       ELSE Become(c, Merged(c, IF row.expired THEN "claiming" ELSE "succeeding"))
    /\ UNCHANGED row /\ Quiet

\* Mutant of CanClaim: no refresh_lease_until in the WHERE clause.
CanClaimUnowned(c) == Exists /\ row.lease \in {c, NoLease}

CanClaim(c) == Exists /\ (row.lease \in {c, NoLease} \/ ~row.live)

\* claimOAuthRefreshLease; a lease that is taken is polled, and the row loaded again.
Claim(c) ==
    /\ caller[c].pc = "claiming"
    /\ IF CanClaim(c)
       THEN /\ row' = [row EXCEPT !.lease = c, !.live = TRUE]
            /\ Goto(c, "reloading")
       ELSE /\ row' = row
            /\ Goto(c, "loading")
    /\ Quiet

\* Mutant of Reload: the copy of before the claim is used.
ReloadNothing(c) ==
    /\ caller[c].pc = "reloading"
    /\ Goto(c, "asking")
    /\ UNCHANGED row /\ Quiet

\* The row is loaded again under the lease.
Reload(c) ==
    /\ caller[c].pc = "reloading"
    /\ IF ~Exists THEN Goto(c, "failing")
       ELSE Become(c, Merged(c, IF row.expired THEN "asking" ELSE "succeeding"))
    /\ UNCHANGED row /\ Quiet

\* The heartbeat cannot renew a lost lease; it cancels the refresh.
HeartbeatFails(c) ==
    /\ caller[c].pc \in {"reloading", "asking", "answered", "refused", "failed"}
    /\ row.lease # c \/ ~row.live
    /\ Goto(c, "failing")
    /\ UNCHANGED row /\ Quiet

\* refreshZencoderOAuthToken: the provider uses up the refresh token.
Granted(c) ==
    /\ caller[c].pc = "asking"
    /\ caller[c].grant \in accepted /\ issued < MaxGrant
    /\ issued' = issued + 1
    /\ accepted' = (accepted \ {caller[c].grant}) \union {issued + 1}
    /\ parent' = [parent EXCEPT ![issued + 1] = caller[c].grant]
    /\ Become(c, [caller[c] EXCEPT !.pc = "answered", !.reply = issued + 1])
    /\ UNCHANGED <<row, troubled, replayed, interruptions>>

\* The provider does not know the refresh token (any more).
Refused(c) ==
    /\ caller[c].pc = "asking"
    /\ caller[c].grant \notin accepted
    /\ replayed' = (replayed \/ (~caller[c].reauth /\ \E g \in Grant : parent[g] = caller[c].grant))
    /\ troubled' = troubled \union {caller[c].grant}
    /\ Become(c, [caller[c] EXCEPT !.pc = "refused", !.refused = TRUE])
    /\ UNCHANGED <<row, provider, interruptions>>

\* The provider is unavailable, and the refresh token still good; at the bound
\* MaxGrant this is the only answer left.
Unavailable(c) ==
    /\ caller[c].pc = "asking"
    /\ interruptions < MaxInterruptions \/ issued = MaxGrant
    /\ Goto(c, "failed")
    /\ interruptions' = IF issued = MaxGrant THEN interruptions ELSE interruptions + 1
    /\ UNCHANGED <<row, provider, troubled, replayed>>

\* Mutant of ReplyLost: an empty reply passes for tokens.
ReplyLostUnnoticed(c) ==
    /\ caller[c].pc = "answered" /\ interruptions < MaxInterruptions
    /\ interruptions' = interruptions + 1
    /\ Become(c, [caller[c] EXCEPT !.reply = 0])
    /\ UNCHANGED <<row, provider, troubled, replayed>>

\* The reply is lost on its way: the new grant with it.
ReplyLost(c) ==
    /\ caller[c].pc = "answered" /\ interruptions < MaxInterruptions
    /\ interruptions' = interruptions + 1
    /\ Become(c, [caller[c] EXCEPT !.pc = "failed", !.reply = 0])
    /\ UNCHANGED <<row, provider, troubled, replayed>>

\* MarkAccountFailure for the refresh itself.  A 401 requires a login at once, a
\* 400 in the next step, any other error is a cooldown.
RecordRefreshFailure(c) ==
    /\ caller[c].pc \in {"refused", "failed"}
    /\ LET current == row.credential = caller[c].credential /\ row.health = caller[c].health
           after == IF caller[c].refused THEN "condemning" ELSE "failing" IN
         IF ~caller[c].affectsHealth THEN row' = row /\ Goto(c, "failing")
         ELSE \E reauth \in IF caller[c].refused THEN BOOLEAN ELSE {FALSE} :
                IF current /\ (row.reauth => reauth)
                THEN /\ row' = [row EXCEPT !.reauth = reauth, !.cooldown = TRUE,
                                            !.health = @ + 1]
                     /\ Become(c, [caller[c] EXCEPT !.pc = "rereading", !.health = @ + 1])
                ELSE row' = row /\ Goto(c, after)
    /\ Quiet

\* MarkAccountFailure reads the health columns back.
Reread(c) ==
    /\ caller[c].pc = "rereading"
    /\ Become(c, [caller[c] EXCEPT !.pc = IF caller[c].refused THEN "condemning"
                                         ELSE "failing",
                                   !.health = IF Exists THEN row.health ELSE @])
    /\ UNCHANGED row /\ Quiet

\* Mutant of Condemn: no credential_revision in the WHERE clause.
CondemnAnyCredential(c) ==
    /\ caller[c].pc = "condemning"
    /\ IF Exists /\ row.health = caller[c].health
       THEN /\ row' = [row EXCEPT !.reauth = TRUE, !.cooldown = TRUE, !.health = @ + 1]
            /\ Become(c, [caller[c] EXCEPT !.pc = "failing", !.health = @ + 1])
       ELSE row' = row /\ Goto(c, "failing")
    /\ Quiet

\* markAccountReauthRequired
Condemn(c) ==
    /\ caller[c].pc = "condemning"
    /\ IF row.credential = caller[c].credential /\ row.health = caller[c].health
       THEN /\ row' = [row EXCEPT !.reauth = TRUE, !.cooldown = TRUE, !.health = @ + 1]
            /\ Become(c, [caller[c] EXCEPT !.pc = "failing", !.health = @ + 1])
       ELSE row' = row /\ Goto(c, "failing")
    /\ Quiet

\* The lease is renewed once more, and the heartbeat stopped, before the write.
Renew(c) ==
    /\ caller[c].pc = "answered"
    /\ Goto(c, IF row.lease = c /\ row.live THEN "writing" ELSE "failing")
    /\ UNCHANGED row /\ Quiet

\* Mutant of CanWrite: the lease and the health revision alone.
CanWriteUnderLease(c) ==
    Exists /\ row.lease = c /\ row.health = caller[c].health /\ ~row.reauth

CanWrite(c) ==
    /\ row.lease = c
    /\ row.credential = caller[c].credential
    /\ row.health = caller[c].health
    /\ ~row.reauth

\* Mutant of Write: the refresh token of the reply is forgotten.
WriteAccessToken(c) ==
    /\ caller[c].pc = "writing"
    /\ IF CanWrite(c)
       THEN /\ row' = [row EXCEPT !.expired = FALSE, !.credential = @ + 1,
                                  !.lease = NoLease, !.live = FALSE]
            /\ Become(c, [caller[c] EXCEPT !.pc = "succeeding", !.reply = 0,
                                           !.expired = FALSE, !.credential = @ + 1])
       ELSE row' = row /\ Goto(c, "failing")
    /\ Quiet

\* The new tokens are stored, or dropped as ErrCredentialInvalidated.
Write(c) ==
    /\ caller[c].pc = "writing"
    /\ IF CanWrite(c)
       THEN LET health == IF caller[c].affectsHealth THEN row.health + 1 ELSE row.health IN
            /\ row' = [row EXCEPT !.grant = caller[c].reply, !.expired = FALSE,
                                  !.credential = @ + 1, !.health = health,
                                  !.cooldown = @ /\ ~caller[c].affectsHealth,
                                  !.lease = NoLease, !.live = FALSE]
            /\ Become(c, [caller[c] EXCEPT !.pc = "succeeding", !.reply = 0,
                                           !.grant = caller[c].reply,
                                           !.expired = FALSE, !.credential = @ + 1,
                                           !.health = health])
       ELSE row' = row /\ Goto(c, "failing")
    /\ Quiet

\* The deferred releaseOAuthRefreshLease, then the local lock.
Return(c) ==
    /\ caller[c].pc \in {"succeeding", "failing"}
    /\ row' = IF row.lease = c THEN [row EXCEPT !.lease = NoLease, !.live = FALSE] ELSE row
    /\ IF caller[c].pc = "succeeding" THEN Succeed(c) /\ UNCHANGED troubled
       ELSE Fail(c) /\ troubled' = troubled \union {caller[c].grant}
    /\ UNCHANGED <<provider, replayed, interruptions>>

\* The process stops, or the client goes away and the release of the lease
\* fails: the lease stands until it expires.
Crash(c) ==
    /\ caller[c].pc \notin {"new", "ended"} /\ interruptions < MaxInterruptions
    /\ row' = [row EXCEPT !.lease = IF @ = c THEN DeadLease ELSE @]
    /\ End(c)
    /\ interruptions' = interruptions + 1
    /\ UNCHANGED <<provider, troubled, replayed>>

-----------------------------------------------------------------------------
(* The rest of the service, the provider, and time.                        *)

TokenExpires ==
    /\ Exists /\ ~row.expired
    /\ row' = [row EXCEPT !.expired = TRUE]
    /\ UNCHANGED caller /\ Quiet

CooldownEnds ==
    /\ row.cooldown
    /\ row' = [row EXCEPT !.cooldown = FALSE]
    /\ UNCHANGED caller /\ Quiet

\* The lease of a dead refresher runs out ...
DeadLeaseExpires ==
    /\ row.live /\ row.lease = DeadLease
    /\ row' = [row EXCEPT !.live = FALSE]
    /\ UNCHANGED caller /\ Quiet

\* ... or that of one that is stalled longer than its heartbeat allows.
LeaseExpires ==
    /\ row.live /\ row.lease \in Caller /\ interruptions < MaxInterruptions
    /\ row' = [row EXCEPT !.live = FALSE]
    /\ interruptions' = interruptions + 1
    /\ UNCHANGED <<caller, provider, troubled, replayed>>

\* Another request records the health of the account.
HealthRecorded ==
    /\ Exists /\ ~row.reauth /\ interruptions < MaxInterruptions
    /\ \E cooldown \in BOOLEAN :
         row' = [row EXCEPT !.health = @ + 1, !.cooldown = cooldown]
    /\ interruptions' = interruptions + 1
    /\ UNCHANGED <<caller, provider, troubled, replayed>>

\* upsertOAuthAccountTx: a repeated login stores a grant of its own; health_revision
\* and the refresh lease stay as they are.
Login ==
    /\ Exists /\ issued < MaxGrant
    /\ issued' = issued + 1
    /\ accepted' = accepted \union {issued + 1}
    /\ row' = [row EXCEPT !.credential = @ + 1, !.grant = issued + 1,
                          !.expired = FALSE, !.reauth = FALSE, !.cooldown = FALSE]
    /\ UNCHANGED <<caller, parent, troubled, replayed, interruptions>>

\* The account is deleted.
Delete ==
    /\ Exists /\ interruptions < MaxInterruptions
    /\ row' = [row EXCEPT !.credential = 0, !.lease = NoLease, !.live = FALSE]
    /\ interruptions' = interruptions + 1
    /\ UNCHANGED <<caller, provider, troubled, replayed>>

\* The user revokes a grant at the provider.
Revoke ==
    /\ interruptions < MaxInterruptions
    /\ \E g \in accepted : accepted' = accepted \ {g}
    /\ interruptions' = interruptions + 1
    /\ UNCHANGED <<row, caller, issued, parent, troubled, replayed>>

Step(c) ==
    \/ EnsureUsable(c) \/ Accepted(c) \/ NeedsRefresh(c) \/ Unauthorized(c) \/ Expire(c)
    \/ Condemned(c) \/ Faulted(c) \/ Lock(c) \/ Load(c) \/ Claim(c) \/ Reload(c)
    \/ HeartbeatFails(c) \/ Granted(c) \/ Refused(c) \/ Unavailable(c)
    \/ RecordRefreshFailure(c) \/ Reread(c) \/ Condemn(c)
    \/ Renew(c) \/ Write(c) \/ Return(c)

Next ==
    \/ \E c \in Caller : Pick(c) \/ Step(c) \/ ReplyLost(c) \/ Crash(c)
    \/ TokenExpires \/ CooldownEnds \/ DeadLeaseExpires \/ LeaseExpires \/ HealthRecorded
    \/ Login \/ Delete \/ Revoke

Spec == Init /\ [][Next]_vars

\* Callers that can go on do, the provider answers or the HTTP client gives up
\* after its timeout, the local lock is handed over in order, leases of dead
\* refreshers expire.
FairSpec ==
    /\ Spec
    /\ \A c \in Caller : WF_vars(Step(c)) /\ SF_vars(Lock(c))
    /\ WF_vars(DeadLeaseExpires)

-----------------------------------------------------------------------------
(* What must hold.                                                         *)

\* Tokens are only ever replaced by those of a login, or by those obtained with
\* the very refresh token they replace: a refresh that was overtaken by a login
\* or by another refresh never writes its tokens over theirs.
TokensSucceedTheirParent ==
    [][row'.grant # row.grant
         => parent'[row'.grant] \in {0, row.grant}]_vars

\* A refresh token is spent at most once, as long as nothing interrupts a refresh
\* and the account was not waiting for a login when the refresher loaded it: whoever
\* waited for the lock or the lease finds the new tokens before asking the provider.
SpentOnce == replayed => interruptions > 0

\* The account is only sent back to the login for what befell the tokens it
\* holds: rejected by the gateway, or not refreshed by the provider.
LoginAskedForTheseTokens ==
    [][row'.reauth /\ ~row.reauth => row.grant \in troubled']_vars

\* The refresh token of the row is only ever used up by a refresh that is about to
\* replace it, or the account has been sent back to the login: a refresh that
\* nothing interrupts stores what it got.
StoredTokenUsable ==
    interruptions = 0 /\ Exists /\ ~row.reauth /\ (\E g \in Grant : parent[g] = row.grant) =>
        \E c \in Caller :
            /\ caller[c].pc \in {"answered", "writing"}
            /\ caller[c].reply \in Grant /\ parent[caller[c].reply] = row.grant

\* Nobody waits for good, for the local lock or for a lease whose owner died: in the end
\* those that have begun have come to their end.
EveryCallerEnds == <>[](\A c \in Caller : caller[c].pc \in {"new", "ended"})

=============================================================================
