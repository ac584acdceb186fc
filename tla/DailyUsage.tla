----------------------------- MODULE DailyUsage -----------------------------
(***************************************************************************)
(* The usage counters and the pricing-period quota of ONE account, and the *)
(* daily job that wipes the counter of the day.  Completed requests count  *)
(* themselves and report what the gateway says of the quota, in any order; *)
(* every service instance runs the job, a lease in the database picks the  *)
(* one that does it.                                                       *)
(*                                                                         *)
(* Days are numbered from 1, and so are billing periods; 0 is none.  The   *)
(* instances share one clock.  A lease is live until LeaseExpires.         *)
(***************************************************************************)
EXTENDS Naturals

CONSTANTS
    Request,    \* requests that use the account, once each
    Instance,   \* service instances; the holder ids of their leases
    NoHolder,   \* the empty holder
    Absent,     \* a header that the gateway did not send
    MaxDay,     \* bound: the last day
    MaxPeriod,  \* bound: the last billing period
    MaxCredential, \* bound: the last credential_revision
    MaxCost,    \* bound: the highest period cost
    MaxLimit    \* bound: the highest period limit

ASSUME UsageConstants ==
    /\ NoHolder \notin Instance
    /\ Absent \notin Nat
    /\ MaxDay \in Nat \ {0} /\ MaxPeriod \in Nat \ {0}
    /\ MaxCost \in Nat /\ MaxLimit \in Nat /\ MaxCredential \in Nat

VARIABLES
    account,   \* the usage, quota and last_reset_date columns
    lease,     \* the scheduler_leases row of the job
    today,     \* the clock
    request,   \* the progress of each request
    instance,  \* the progress of each instance's job, and the day it was started for
    uses,      \* history: requests counted, ...
    wiped      \* history: ... and how many of them the last reset wiped

vars == <<account, lease, today, request, instance, uses, wiped>>

Day == 1 .. MaxDay
Period == 1 .. MaxPeriod
Cost == 0 .. MaxCost
Limit == 1 .. MaxLimit

Account ==
    [exists: BOOLEAN, credential: Nat, dailyUsed: Nat, totalUsed: Nat, lastReset: Day \union {0},
     period: Period \union {0}, quotaUsed: Cost, quotaLimit: Limit \union {0}]

Headers ==
    [cost: Cost \union {Absent}, limit: Limit \union {Absent}, period: Period \union {Absent}]

RequestState ==
    [pc: {"new", "sent", "counted", "done"}, credential: Nat, total: Nat,
     headers: Headers]

TypeOK ==
    /\ account \in Account
    /\ account.dailyUsed <= account.totalUsed
    /\ lease \in [exists: BOOLEAN, holder: Instance \union {NoHolder}, live: BOOLEAN,
                  lastRun: Day \union {0}]
    /\ today \in Day
    /\ request \in [Request -> RequestState]
    /\ instance \in [Instance -> [pc: {"waiting", "due", "claimed", "failed"},
                                  day: Day \union {0}]]
    /\ uses \in Nat /\ wiped \in Nat

NoHeaders == [cost |-> Absent, limit |-> Absent, period |-> Absent]
Idle(label) == [pc |-> label, credential |-> 0, total |-> 0, headers |-> NoHeaders]
Done == Idle("done")
Waiting == [pc |-> "waiting", day |-> 0]

Init ==
    /\ account = [exists |-> FALSE, credential |-> 1, dailyUsed |-> 0, totalUsed |-> 0,
                  lastReset |-> 0, period |-> 0, quotaUsed |-> 0, quotaLimit |-> 0]
    /\ lease = [exists |-> FALSE, holder |-> NoHolder, live |-> FALSE, lastRun |-> 0]
    /\ today = 1
    /\ request = [r \in Request |-> Idle("new")]
    /\ instance = [i \in Instance |-> Waiting]
    /\ uses = 0 /\ wiped = 0

-----------------------------------------------------------------------------
(* Requests.                                                               *)

Send(r) ==
    /\ request[r].pc = "new" /\ account.exists
    /\ request' = [request EXCEPT ![r].pc = "sent", ![r].credential = account.credential,
                                  ![r].total = account.totalUsed]
    /\ UNCHANGED <<account, lease, today, instance, uses, wiped>>

\* Mutant of Counted: the counters of the copy are stored.
CountedInCopy(r) ==
    [account EXCEPT !.dailyUsed = @ + 1, !.totalUsed = request[r].total + 1]

Counted(r) == [account EXCEPT !.dailyUsed = @ + 1, !.totalUsed = @ + 1]

\* updateAccountCreditsFromResponse, or UseCredit when there are no headers: the
\* counters, whatever the credential has become since.  A statement that fails is
\* logged, and the quota reported nevertheless.
Count(r) ==
    /\ request[r].pc = "sent"
    /\ \E headers \in Headers :
         request' = [request EXCEPT ![r] = IF headers = NoHeaders THEN Done
                                           ELSE [@ EXCEPT !.pc = "counted", !.total = 0,
                                                          !.headers = headers]]
    /\ \/ account' = Counted(r) /\ uses' = uses + 1
       \/ UNCHANGED <<account, uses>>
    /\ UNCHANGED <<lease, today, instance, wiped>>

\* The quota of an older period is outdated; within one, or without a period, a
\* lower value is.
MayReport(r) ==
    LET headers == request[r].headers
        fits == /\ headers.cost = Absent \/ account.quotaUsed <= headers.cost
                /\ headers.limit = Absent \/ account.quotaLimit <= headers.limit IN
      /\ account.credential = request[r].credential
      /\ IF headers.period = Absent THEN fits
         ELSE account.period < headers.period \/ (account.period = headers.period /\ fits)

\* Mutant of Given: a header that is missing is stored.
GivenAnything(header, stored) == header

Given(header, stored) == IF header = Absent THEN stored ELSE header

\* The second statement: the absolute values.
Report(r) ==
    /\ request[r].pc = "counted"
    /\ account' =
         IF MayReport(r)
         THEN [account EXCEPT !.quotaUsed = Given(request[r].headers.cost, @),
                              !.quotaLimit = Given(request[r].headers.limit, @),
                              !.period = Given(request[r].headers.period, @)]
         ELSE account
    /\ request' = [request EXCEPT ![r] = Done]
    /\ UNCHANGED <<lease, today, instance, uses, wiped>>

-----------------------------------------------------------------------------
(* The daily job of an instance.                                           *)

\* The timer fires: the job is for the day that it is now.
Start(i) ==
    /\ instance[i].pc = "waiting" /\ instance[i].day < today
    /\ instance' = [instance EXCEPT ![i] = [pc |-> "due", day |-> today]]
    /\ UNCHANGED <<account, lease, today, request, uses, wiped>>

\* Mutant of CanClaim: no last_run_date in the WHERE clause.
CanClaimAgain(i) == ~lease.exists \/ ~lease.live

CanClaim(i) == ~lease.exists \/ (lease.lastRun # instance[i].day /\ ~lease.live)

Goto(i, label) == instance' = [instance EXCEPT ![i].pc = label]

\* claimDailyJobLease
Claim(i) ==
    /\ instance[i].pc = "due"
    /\ IF CanClaim(i)
       THEN /\ lease' = [lease EXCEPT !.exists = TRUE, !.holder = i, !.live = TRUE]
            /\ Goto(i, "claimed")
       ELSE /\ lease' = lease
            /\ Goto(i, "waiting")
    /\ UNCHANGED <<account, today, request, uses, wiped>>

HoldsLease(i) == lease.holder = i

\* The transaction of resetAllCreditsAt: the counter of every account that has not
\* been reset on this day, and the end of the lease; or neither.
Reset(i) ==
    /\ instance[i].pc = "claimed" /\ HoldsLease(i)
    /\ lease' = [lease EXCEPT !.holder = NoHolder, !.live = FALSE, !.lastRun = instance[i].day]
    /\ IF account.exists /\ account.lastReset # instance[i].day
       THEN /\ account' = [account EXCEPT !.dailyUsed = 0, !.lastReset = instance[i].day]
            /\ wiped' = uses
       ELSE UNCHANGED <<account, wiped>>
    /\ Goto(i, "waiting")
    /\ UNCHANGED <<today, request, uses>>

\* The lease was lost, or the database fails: the transaction is rolled back.
RollBack(i) ==
    /\ instance[i].pc = "claimed"
    /\ Goto(i, "failed")
    /\ UNCHANGED <<account, lease, today, request, uses, wiped>>

\* releaseDailyJobLease
Release(i) ==
    /\ instance[i].pc = "failed"
    /\ lease' = IF lease.holder = i
                THEN [lease EXCEPT !.holder = NoHolder, !.live = FALSE] ELSE lease
    /\ Goto(i, "waiting")
    /\ UNCHANGED <<account, today, request, uses, wiped>>

\* The process stops; when it is started again the timer is set to the next day.
Crash(i) ==
    /\ instance[i].pc # "waiting"
    /\ Goto(i, "waiting")
    /\ UNCHANGED <<account, lease, today, request, uses, wiped>>

-----------------------------------------------------------------------------
(* The rest of the service, and time.                                      *)

CreateAccount ==
    /\ ~account.exists
    /\ account' = [account EXCEPT !.exists = TRUE]
    /\ UNCHANGED <<lease, today, request, instance, uses, wiped>>

\* A new credential; counters and quota stay.
ReplaceCredential ==
    /\ account.exists /\ account.credential < MaxCredential
    /\ account' = [account EXCEPT !.credential = @ + 1]
    /\ UNCHANGED <<lease, today, request, instance, uses, wiped>>

LeaseExpires ==
    /\ lease.live
    /\ lease' = [lease EXCEPT !.live = FALSE]
    /\ UNCHANGED <<account, today, request, instance, uses, wiped>>

\* No instance takes a day between the timer and the claim, its next statement.
NextDay ==
    /\ today < MaxDay
    /\ \A i \in Instance : instance[i].pc # "due"
    /\ today' = today + 1
    /\ UNCHANGED <<account, lease, request, instance, uses, wiped>>

Next ==
    \/ \E r \in Request : Send(r) \/ Count(r) \/ Report(r)
    \/ \E i \in Instance :
         Start(i) \/ Claim(i) \/ Reset(i) \/ RollBack(i) \/ Release(i) \/ Crash(i)
    \/ CreateAccount \/ ReplaceCredential \/ LeaseExpires \/ NextDay

Spec == Init /\ [][Next]_vars

-----------------------------------------------------------------------------
(* What must hold.                                                         *)

\* No use is lost and none counted twice: the total is the number of requests that
\* were counted, the counter of the day that of those since the last reset, although
\* requests and the job write the same columns.
EveryUseCounted ==
    /\ account.totalUsed = uses
    /\ account.dailyUsed = uses - wiped

\* The counter is wiped once a day: what was counted after the job ran is not wiped by
\* another instance or by the former holder of an expired lease, on the same day or for
\* an earlier one.  An account that is younger than the run of the day keeps its counter
\* until the next day.  And the quota of a late answer does not replace that of a newer
\* period, nor lower the use within one.
CountersForward ==
    [][/\ wiped' # wiped =>
            /\ account'.lastReset > account.lastReset
            /\ lease.lastRun < account'.lastReset
       /\ account'.period >= account.period
       /\ account'.period = account.period => account'.quotaUsed >= account.quotaUsed]_vars

=============================================================================
