----------------------------- MODULE CreditScan -----------------------------
(***************************************************************************)
(* The periodic scan for balances that are due. Every instance has a       *)
(* ticker; a lease in the database, renewed by a heartbeat, picks the one  *)
(* that scans. The instances share one clock, and a process may be         *)
(* suspended for any time between two steps, unless Punctual.              *)
(***************************************************************************)
EXTENDS Naturals, FiniteSets

CONSTANTS
    Instance,  \* service instances; while one scans, also the holder id of its scan
    Account,
    NoHolder,  \* the empty holder
    OldHolder, \* the id of a scan that is over
    Interval,  \* between two ticks
    Lease,     \* the time that a lease is taken for; Lease < Interval
    Duration,  \* that a punctual scan takes
    Horizon,   \* bound: the last instant
    Punctual   \* ticks are received and scans end in time

VARIABLES
    now,
    lease,     \* the scheduler_leases row of the job
    attempt,   \* usage_credits_last_attempt_at of each account; 0 is none
    outdated,  \* accounts whose billing period is over
    scan       \* the scheduler of each instance

vars == <<now, lease, attempt, outdated, scan>>

Instant == 1 .. Horizon

Scanning == {"claimed", "loaded"}

TypeOK ==
    /\ now \in Instant
    /\ lease \in [holder: Instance \union {NoHolder, OldHolder}, until: 0 .. Horizon + Lease]
    /\ lease.holder \in Instance => scan[lease.holder].pc \in Scanning \union {"ending"}
    /\ attempt \in [Account -> Instant \union {0}]
    /\ \A a \in Account : attempt[a] <= now
    /\ outdated \subseteq Account
    /\ scan \in [Instance -> [pc: {"off", "waiting", "due"} \union Scanning \union {"ending"},
                              next: 0 .. Horizon + Interval, at: Instant \union {0},
                              until: 0 .. Horizon + Lease, todo: SUBSET Account, lost: BOOLEAN]]

Off == [pc |-> "off", next |-> 0, at |-> 0, until |-> 0, todo |-> {}, lost |-> FALSE]

\* No row, or one whose lease is over: both may be claimed.
Init ==
    /\ now = 1
    /\ lease = [holder |-> NoHolder, until |-> 0]
    /\ attempt = [a \in Account |-> 0] /\ outdated = {}
    /\ scan = [i \in Instance |-> Off]

-----------------------------------------------------------------------------
(* The scheduler of an instance.                                           *)

\* The tick after the present one; those that a slow scan has missed are dropped.
NextTick(tick) == tick + Interval * (((now - tick) \div Interval) + 1)

\* The first scan is at the start and the ticker starts after it; then at every tick. The
\* time of the scan is read, and a holder id is drawn.
Begin(i) ==
    /\ \/ scan[i].pc = "off"
       \/ scan[i].pc = "waiting" /\ scan[i].next <= now
    /\ scan' = [scan EXCEPT ![i] = [Off EXCEPT !.pc = "due", !.at = now,
                    !.next = IF scan[i].pc = "off" THEN 0 ELSE NextTick(scan[i].next)]]
    /\ UNCHANGED <<now, lease, attempt, outdated>>

\* Back to the ticker.
Waiting(i) ==
    [Off EXCEPT !.pc = "waiting",
                !.next = IF scan[i].next = 0 THEN now + Interval ELSE scan[i].next]

\* claimRecurringJobLease, as of the time that was read.
Claim(i) ==
    /\ scan[i].pc = "due"
    /\ \/ /\ lease.until <= scan[i].at
          /\ lease' = [holder |-> i, until |-> scan[i].at + Lease]
          /\ scan' = [scan EXCEPT ![i].pc = "claimed", ![i].until = scan[i].at + Lease]
       \/ /\ lease.until > scan[i].at
          /\ scan' = [scan EXCEPT ![i] = Waiting(i)]
          /\ UNCHANGED lease
    /\ UNCHANGED <<now, attempt, outdated>>

\* Every third of the lease: the lease of this holder, expired or not.
Renew(i) ==
    /\ scan[i].pc \in Scanning /\ ~scan[i].lost
    /\ lease.holder = i /\ lease.until # now + Lease
    /\ lease' = [lease EXCEPT !.until = now + Lease]
    /\ scan' = [scan EXCEPT ![i].until = now + Lease]
    /\ UNCHANGED <<now, attempt, outdated>>

\* The lease has gone to another holder, or the database fails: the scan is cancelled.
RenewFails(i) ==
    /\ scan[i].pc \in Scanning /\ ~scan[i].lost
    /\ lease.holder # i \/ ~Punctual
    /\ scan' = [scan EXCEPT ![i].lost = TRUE]
    /\ UNCHANGED <<now, lease, attempt, outdated>>

\* usageCreditsRefreshDue
Due(a, time) == a \in outdated \/ attempt[a] = 0 \/ attempt[a] + Interval <= time

Load(i) ==
    /\ scan[i].pc = "claimed"
    /\ scan' = [scan EXCEPT ![i].pc = "loaded", ![i].todo = {a \in Account : Due(a, scan[i].at)}]
    /\ UNCHANGED <<now, lease, attempt, outdated>>

\* RefreshAccountsCredits: one of those that are left, until the scan is cancelled. The
\* refresh records its attempt; with it may come a new period.
Refresh(i) ==
    /\ scan[i].pc = "loaded" /\ ~scan[i].lost
    /\ \E a \in scan[i].todo :
         /\ attempt' = [attempt EXCEPT ![a] = now]
         /\ outdated' \in {outdated, outdated \ {a}}
         /\ scan' = [scan EXCEPT ![i].todo = @ \ {a}]
    /\ UNCHANGED <<now, lease>>

\* Nothing is left to do, or the scan has been cancelled, or the accounts cannot be loaded,
\* or the service is being stopped: the heartbeat is.
End(i) ==
    /\ \/ scan[i].pc = "loaded" /\ (scan[i].todo = {} \/ scan[i].lost)
       \/ scan[i].pc \in Scanning /\ ~Punctual
    /\ scan' = [scan EXCEPT ![i].pc = "ending", ![i].todo = {}]
    /\ UNCHANGED <<now, lease, attempt, outdated>>

\* Mutant of Released: whoever the holder is.
ReleasedAnyway(i) == [holder |-> NoHolder, until |-> now]

Released(i) == IF lease.holder = i THEN [holder |-> NoHolder, until |-> now] ELSE lease

\* The id of a scan that leaves the lease without releasing it.
Forgotten(i) == IF lease.holder = i THEN [lease EXCEPT !.holder = OldHolder] ELSE lease

\* releaseRecurringJobLease; its error is ignored.
Release(i) ==
    /\ scan[i].pc = "ending"
    /\ lease' \in {Released(i)} \union (IF Punctual THEN {} ELSE {Forgotten(i)})
    /\ scan' = [scan EXCEPT ![i] = Waiting(i)]
    /\ UNCHANGED <<now, attempt, outdated>>

\* The process stops; another starts in its place.
Crash(i) ==
    /\ scan[i].pc # "off" /\ ~Punctual
    /\ lease' = Forgotten(i)
    /\ scan' = [scan EXCEPT ![i] = Off]
    /\ UNCHANGED <<now, attempt, outdated>>

-----------------------------------------------------------------------------
(* The other refreshes, and time.                                          *)

\* A request or the management API refreshes an account.
RefreshOnDemand(a) ==
    /\ attempt[a] # now /\ ~Punctual
    /\ attempt' = [attempt EXCEPT ![a] = now]
    /\ UNCHANGED <<now, lease, outdated, scan>>

PeriodEnds(a) ==
    /\ a \notin outdated /\ ~Punctual
    /\ outdated' = outdated \union {a}
    /\ UNCHANGED <<now, lease, attempt, scan>>

\* A punctual instance does not miss a tick, and its scan does not take longer.
Late(i) ==
    \/ scan[i].pc \in {"off", "due"}
    \/ scan[i].pc = "waiting" /\ scan[i].next <= now
    \/ scan[i].pc \in Scanning \union {"ending"} /\ scan[i].at + Duration <= now

Tick ==
    /\ now < Horizon
    /\ Punctual => \A i \in Instance : ~Late(i)
    /\ now' = now + 1
    /\ UNCHANGED <<lease, attempt, outdated, scan>>

Next ==
    \/ \E i \in Instance :
         \/ Begin(i) \/ Claim(i) \/ Renew(i) \/ RenewFails(i) \/ Load(i) \/ Refresh(i) \/ End(i) \/ Release(i) \/ Crash(i)
    \/ \E a \in Account : RefreshOnDemand(a) \/ PeriodEnds(a)
    \/ Tick

Spec == Init /\ [][Next]_vars

-----------------------------------------------------------------------------
(* What must hold.                                                         *)

\* "Single-owner": of the scans whose lease, as they know it, has not run out there is at
\* most one, and the row names it. One that was suspended for longer finds out at its next
\* heartbeat; until then it may overlap, and its end does not take the lease of another.
InTime(i) == scan[i].pc \in Scanning \union {"ending"} /\ now < scan[i].until
OneScan ==
    \A i \in Instance : InTime(i) =>
        /\ lease.holder = i
        /\ \A j \in Instance \ {i} : ~InTime(j)

\* DEPLOYMENT.md 15: balances are refreshed every 15 minutes. With every instance punctual,
\* the last attempt gets no older than the interval and the time of the scans around it.
RefreshedEveryInterval ==
    \A a \in Account : attempt[a] > 0 => now - attempt[a] <= Interval + 2 * Duration

=============================================================================
