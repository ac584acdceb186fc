---------------------------- MODULE OAuthSession ----------------------------
(***************************************************************************)
(* ONE login with the provider: the row that remembers it until the        *)
(* browser comes back, and the callbacks that complete it. The browser,    *)
(* the user and several service instances may deliver the callback more    *)
(* than once; a claim in the row, renewed by a heartbeat, picks the one     *)
(* that may exchange the code, and a transaction makes it the last.        *)
(*                                                                         *)
(* The row expires after ten minutes, a claim that is not renewed goes     *)
(* stale after two; both are facts that an action turns. Claim ids are     *)
(* drawn at random, so that a callback is its own claim id.                *)
(***************************************************************************)
EXTENDS Naturals

CONSTANTS
    Callback, \* deliveries of the callback
    Nobody    \* no claim

VARIABLES
    session,  \* the oauth_sessions row
    account,  \* credential_revision of the account that the login is for; 0: no row
    callback  \* the progress of each delivery

vars == <<session, account, callback>>

\* The places in CompleteZencoderLogin, and how it ends.
Working == {"exchanging", "profiling", "committing", "releasing", "deleting"}
Ended == {"new", "refused", "failed", "unreleased", "succeeded", "dead"}

TypeOK ==
    /\ session \in [exists: BOOLEAN, expired: BOOLEAN, claim: Callback \union {Nobody},
                    stale: BOOLEAN, consumed: BOOLEAN]
    /\ session.stale => session.claim # Nobody
    /\ account \in Nat
    /\ callback \in [Callback -> [pc: Working \union Ended, heartbeat: {"off", "on", "lost"},
                                  cancelled: BOOLEAN]]

NoSession == [exists |-> FALSE, expired |-> FALSE, claim |-> Nobody, stale |-> FALSE, consumed |-> FALSE]
At(label) == [pc |-> label, heartbeat |-> "off", cancelled |-> FALSE]

\* StartZencoderLogin has written the row.
Init ==
    /\ session = [NoSession EXCEPT !.exists = TRUE]
    /\ account = 0
    /\ callback = [c \in Callback |-> At("new")]

-----------------------------------------------------------------------------
(* CompleteZencoderLogin.                                                  *)

Open == session.exists /\ ~session.consumed /\ ~session.expired

Claimable == Open /\ (session.claim = Nobody \/ session.stale)

\* The WHERE clause of the owner: claim_id, and whatever the row must still be.
Mine(c) == session.exists /\ session.claim = c

Goto(c, label) == callback' = [callback EXCEPT ![c].pc = label]

\* claimOAuthSession, and the start of the heartbeat.
Claim(c) ==
    /\ callback[c].pc = "new"
    /\ IF Claimable
       THEN /\ session' = [session EXCEPT !.claim = c, !.stale = FALSE]
            /\ callback' = [callback EXCEPT ![c].pc = "exchanging", ![c].heartbeat = "on"]
       ELSE Goto(c, "refused") /\ UNCHANGED session
    /\ UNCHANGED account

\* renewOAuthSessionClaim: the claim of a callback that is still its owner's, stale or
\* not. Otherwise, or when the database fails, the heartbeat ends and the exchange is
\* cancelled. After the client has gone it only ends.
Renew(c) ==
    /\ callback[c].heartbeat = "on" /\ ~callback[c].cancelled
    /\ \/ /\ Mine(c) /\ Open
          /\ session' = [session EXCEPT !.stale = FALSE]
          /\ UNCHANGED callback
       \/ /\ callback' = [callback EXCEPT ![c].heartbeat = "lost"]
          /\ UNCHANGED session
    /\ UNCHANGED account

\* The code is exchanged for tokens: the provider decides, a lost claim or a client that
\* has gone makes it fail.
Exchange(c) ==
    /\ callback[c].pc = "exchanging"
    /\ \/ callback[c].heartbeat = "on" /\ ~callback[c].cancelled /\ Goto(c, "profiling")
       \/ Goto(c, "releasing")
    /\ UNCHANGED <<session, account>>

\* The profile is in the token or is fetched; then the heartbeat is stopped.
Profile(c) ==
    /\ callback[c].pc = "profiling"
    /\ \/ /\ callback[c].heartbeat = "on"
          /\ callback' = [callback EXCEPT ![c].pc = "committing", ![c].heartbeat = "off"]
       \/ Goto(c, "releasing")
    /\ UNCHANGED <<session, account>>

\* Mutant of MayConsume: the transaction does not look at the owner.
MayConsumeAny(c) == Open

MayConsume(c) == Mine(c) /\ Open

\* upsertAndConsumeOAuthAccount: the account and the end of the session, or neither.
Commit(c) ==
    /\ callback[c].pc = "committing"
    /\ \/ /\ MayConsume(c) /\ ~callback[c].cancelled
          /\ account' = account + 1
          /\ session' = [session EXCEPT !.consumed = TRUE]
          /\ Goto(c, "deleting")
       \/ Goto(c, "releasing") /\ UNCHANGED <<session, account>>

Released(c) ==
    IF Mine(c) /\ ~session.consumed THEN [session EXCEPT !.claim = Nobody, !.stale = FALSE] ELSE session

\* The deferred end of a callback that has failed: the heartbeat stops, and the claim is
\* given back for the next try even if the client has gone, unless the database fails too.
Release(c) ==
    /\ callback[c].pc = "releasing"
    /\ \/ session' = Released(c) /\ callback' = [callback EXCEPT ![c] = At("failed")]
       \/ UNCHANGED session /\ callback' = [callback EXCEPT ![c] = At("unreleased")]
    /\ UNCHANGED account

\* deleteOAuthSession, or a log entry; the login has succeeded.
Delete(c) ==
    /\ callback[c].pc = "deleting"
    /\ session' \in {IF Mine(c) THEN NoSession ELSE session, session}
    /\ callback' = [callback EXCEPT ![c] = At("succeeded")]
    /\ UNCHANGED account

ClientLeaves(c) ==
    /\ callback[c].pc \in Working /\ ~callback[c].cancelled
    /\ callback' = [callback EXCEPT ![c].cancelled = TRUE]
    /\ UNCHANGED <<session, account>>

\* The instance stops.
Crash(c) ==
    /\ callback[c].pc \in Working
    /\ callback' = [callback EXCEPT ![c] = At("dead")]
    /\ UNCHANGED <<session, account>>

-----------------------------------------------------------------------------
(* Time, and other logins.                                                 *)

ClaimGoesStale ==
    /\ session.claim # Nobody /\ ~session.stale
    /\ session' = [session EXCEPT !.stale = TRUE]
    /\ UNCHANGED <<account, callback>>

Expire ==
    /\ session.exists /\ ~session.expired
    /\ session' = [session EXCEPT !.expired = TRUE]
    /\ UNCHANGED <<account, callback>>

\* StartZencoderLogin of a later login deletes the rows that have expired.
Purge ==
    /\ session.exists /\ session.expired
    /\ session' = NoSession
    /\ UNCHANGED <<account, callback>>

Next ==
    \/ \E c \in Callback :
         \/ Claim(c) \/ Renew(c) \/ Exchange(c) \/ Profile(c) \/ Commit(c) \/ Release(c) \/ Delete(c)
         \/ ClientLeaves(c) \/ Crash(c)
    \/ ClaimGoesStale \/ Expire \/ Purge

Spec == Init /\ [][Next]_vars

-----------------------------------------------------------------------------
(* What must hold.                                                         *)

\* "One-time": a login gives an account new tokens at most once, and the row is consumed
\* exactly when it has. Of all the callbacks only the one that has done it reports success,
\* however the claim has wandered; and it owns the claim until it has deleted the row.
LoginOnce ==
    LET committed == {c \in Callback : callback[c].pc \in {"deleting", "succeeded"}} IN
      /\ account = 0 => committed = {} /\ ~session.consumed
      /\ account > 0 => account = 1 /\ (session.exists => session.consumed)
      /\ \A c, d \in committed : c = d
      /\ \A c \in committed : session.exists => session.claim = c

\* A callback that ends leaves no claim behind: only one at work holds one, or one whose
\* process died, or whose last statement failed. The user can try again at once.
ClaimsAreLive ==
    session.claim # Nobody /\ ~session.consumed =>
        callback[session.claim].pc \in (Working \ {"deleting"}) \union {"dead", "unreleased"}

\* Both: CompleteZencoderLogin takes effect once, and can be tried again until it has.
OneLogin == LoginOnce /\ ClaimsAreLive

=============================================================================
