--------------------------- MODULE DailyUsageProofs ---------------------------
(***************************************************************************)
(* Theorems about DailyUsage, for any number of requests, instances, days  *)
(* and billing periods.                                                    *)
(***************************************************************************)
EXTENDS DailyUsage, TLAPS

-----------------------------------------------------------------------------
(* Type correctness.                                                       *)

LEMMA IdleType ==
  /\ NoHeaders \in Headers
  /\ \A label \in {"new", "done"} : Idle(label) \in RequestState
  BY DEF NoHeaders, Headers, Idle, RequestState

\* What TypeOK says of the columns and the clock.
LEMMA Columns ==
  ASSUME TypeOK
  PROVE  /\ account.credential \in Nat /\ account.totalUsed \in Nat /\ account.dailyUsed \in Nat
         /\ account.credential + 1 \in Nat /\ account.totalUsed + 1 \in Nat
         /\ account.dailyUsed + 1 \in Nat /\ account.lastReset \in Nat /\ account.period \in Nat /\ account.quotaUsed \in Nat
         /\ lease.lastRun \in Nat /\ today \in Nat \ {0}
         /\ \A i \in Instance : instance[i].day \in Nat
  BY UsageConstants DEF TypeOK, Account, Day, Period, Cost

LEMMA RequestColumns ==
  ASSUME TypeOK, NEW r \in Request
  PROVE  /\ request[r] \in RequestState
         /\ request[r].credential \in Nat /\ request[r].headers \in Headers
  BY DEF TypeOK, RequestState

LEMMA RequestStep ==
  ASSUME TypeOK, NEW r \in Request, NEW state \in RequestState
  PROVE  [request EXCEPT ![r] = state] \in [Request -> RequestState]
  BY DEF TypeOK

LEMMA InstanceStep ==
  ASSUME TypeOK, NEW i \in Instance, NEW label \in {"waiting", "claimed", "failed"}, Goto(i, label)
  PROVE  instance' \in [Instance -> [pc: {"waiting", "due", "claimed", "failed"}, day: Day \union {0}]]
  BY DEF TypeOK, Goto

\* Type correctness: the columns, the lease and the progress of requests and jobs keep their
\* types through every statement, and the day's counter is never above the total.
THEOREM TypeCorrect == Spec => []TypeOK
<1>1. Init => TypeOK
  BY UsageConstants, IdleType DEF Init, TypeOK, Account, Day, Period, Cost, Limit, Waiting
<1>2. ASSUME TypeOK, NEW r \in Request, Send(r) PROVE TypeOK'
  <2>1. [request[r] EXCEPT !.pc = "sent", !.credential = account.credential,
                           !.total = account.totalUsed] \in RequestState
    BY Columns, RequestColumns, <1>2 DEF RequestState
  <2>2. request' = [request EXCEPT ![r] = [request[r] EXCEPT !.pc = "sent",
                      !.credential = account.credential, !.total = account.totalUsed]]
    BY <1>2 DEF Send, TypeOK
  <2>3. QED
    BY <1>2, <2>1, <2>2, RequestStep DEF TypeOK, Send
<1>3. ASSUME TypeOK, NEW r \in Request, Count(r) PROVE TypeOK'
  <2>1. PICK headers \in Headers :
          request' = [request EXCEPT ![r] = IF headers = NoHeaders THEN Done
                        ELSE [@ EXCEPT !.pc = "counted", !.total = 0, !.headers = headers]]
    BY <1>3 DEF Count
  <2>2. [request[r] EXCEPT !.pc = "counted", !.total = 0, !.headers = headers] \in RequestState
    BY RequestColumns, <1>3 DEF RequestState
  <2>3. request' \in [Request -> RequestState]
    BY <1>3, <2>1, <2>2, IdleType, RequestStep DEF Done, TypeOK
  <2>4. account \in Account /\ account.dailyUsed <= account.totalUsed /\ uses \in Nat
    BY <1>3 DEF TypeOK
  <2>5. Counted(r) \in Account /\ Counted(r).dailyUsed <= Counted(r).totalUsed
    <3>1. Counted(r) \in Account
      BY <2>4, <1>3, Columns DEF Counted, Account
    <3>2. Counted(r).dailyUsed = account.dailyUsed + 1 /\ Counted(r).totalUsed = account.totalUsed + 1
      BY <2>4 DEF Counted, Account
    <3>3. QED
      BY <1>3, <2>4, <3>1, <3>2, Columns
  <2>6. account' \in Account /\ account'.dailyUsed <= account'.totalUsed /\ uses' \in Nat
    BY <1>3, <2>4, <2>5 DEF Count
  <2>7. QED
    BY <1>3, <2>3, <2>6 DEF TypeOK, Count
<1>4. ASSUME TypeOK, NEW r \in Request, Report(r) PROVE TypeOK'
  <2>1. account \in Account /\ account.dailyUsed <= account.totalUsed
    BY <1>4 DEF TypeOK
  <2>2. /\ Given(request[r].headers.cost, account.quotaUsed) \in Cost
        /\ Given(request[r].headers.limit, account.quotaLimit) \in Limit \union {0}
        /\ Given(request[r].headers.period, account.period) \in Period \union {0}
    BY <1>4, <2>1, RequestColumns DEF Headers, Account, Given
  <2>3. account' \in Account /\ account'.dailyUsed <= account'.totalUsed
    BY <1>4, <2>1, <2>2 DEF Report, Account
  <2>4. request' \in [Request -> RequestState]
    BY <1>4, IdleType, RequestStep DEF Report, Done
  <2>5. QED
    BY <1>4, <2>3, <2>4 DEF TypeOK, Report
<1>5. ASSUME TypeOK, NEW i \in Instance, Start(i) PROVE TypeOK'
  BY <1>5 DEF TypeOK, Start
<1>6. ASSUME TypeOK, NEW i \in Instance, Claim(i) PROVE TypeOK'
  BY <1>6, InstanceStep DEF TypeOK, Claim
<1>7. ASSUME TypeOK, NEW i \in Instance, Reset(i) PROVE TypeOK'
  <2>1. /\ instance[i].day \in Day \union {0}
        /\ account \in Account /\ account.dailyUsed <= account.totalUsed
        /\ wiped \in Nat /\ uses \in Nat
    BY <1>7 DEF TypeOK
  <2> DEFINE reset == [account EXCEPT !.dailyUsed = 0, !.lastReset = instance[i].day]
  <2>2. account' \in {account, reset} /\ wiped' \in {wiped, uses}
    BY <1>7 DEF Reset
  <2>3. reset \in Account /\ reset.dailyUsed = 0 /\ reset.totalUsed = account.totalUsed
    BY <2>1 DEF Account
  <2> HIDE DEF reset
  <2>4. account' \in Account /\ account'.dailyUsed <= account'.totalUsed /\ wiped' \in Nat
    BY <1>7, <2>1, <2>2, <2>3, Columns
  <2>5. QED
    BY <1>7, <2>1, <2>4, InstanceStep DEF TypeOK, Reset
<1>8. ASSUME TypeOK, NEW i \in Instance, RollBack(i) \/ Release(i) \/ Crash(i) PROVE TypeOK'
  BY <1>8, InstanceStep DEF TypeOK, RollBack, Release, Crash
<1>9. ASSUME TypeOK, CreateAccount \/ ReplaceCredential PROVE TypeOK'
  <2>1. account \in Account /\ account.dailyUsed <= account.totalUsed
    BY <1>9 DEF TypeOK
  <2>2. account' \in Account
    BY <1>9, <2>1, Columns DEF CreateAccount, ReplaceCredential, Account
  <2>3. account'.dailyUsed <= account'.totalUsed
    BY <1>9, <2>1 DEF CreateAccount, ReplaceCredential, Account
  <2>4. QED
    BY <1>9, <2>2, <2>3 DEF TypeOK, CreateAccount, ReplaceCredential
<1>10. ASSUME TypeOK, LeaseExpires \/ NextDay PROVE TypeOK'
  <2>1. today' \in Day
    BY <1>10, UsageConstants DEF TypeOK, LeaseExpires, NextDay, Day
  <2>2. QED
    BY <1>10, <2>1 DEF TypeOK, LeaseExpires, NextDay
<1>11. ASSUME TypeOK, UNCHANGED vars PROVE TypeOK'
  BY <1>11 DEF TypeOK, vars
<1>12. TypeOK /\ [Next]_vars => TypeOK'
  BY <1>2, <1>3, <1>4, <1>5, <1>6, <1>7, <1>8, <1>9, <1>10, <1>11 DEF Next
<1>13. QED
  BY <1>1, <1>12, PTL DEF Spec

-----------------------------------------------------------------------------
(* The counters.                                                           *)

\* No use is lost and none counted twice, although requests and the job write the same
\* columns: every statement adds to what is stored, and the reset takes what it wipes.
THEOREM UsesCounted == Spec => []EveryUseCounted
<1>1. Init => EveryUseCounted
  BY DEF Init, EveryUseCounted
<1>2. ASSUME TypeOK, EveryUseCounted, NEW r \in Request, Count(r) PROVE EveryUseCounted'
  <2>1. account \in Account /\ uses \in Nat /\ wiped \in Nat
    BY <1>2 DEF TypeOK
  <2>2. CASE account' = Counted(r) /\ uses' = uses + 1
    <3>1. /\ account'.totalUsed = account.totalUsed + 1
          /\ account'.dailyUsed = account.dailyUsed + 1
      BY <2>1, <2>2 DEF Counted, Account
    <3>2. QED
      BY <1>2, <2>1, <2>2, <3>1 DEF EveryUseCounted, Count
  <2>3. CASE UNCHANGED <<account, uses>>
    BY <1>2, <2>3 DEF EveryUseCounted, Count
  <2>4. QED
    BY <1>2, <2>2, <2>3 DEF Count
<1>3. ASSUME TypeOK, EveryUseCounted, NEW i \in Instance, Reset(i) PROVE EveryUseCounted'
  <2>1. account \in Account /\ uses \in Nat
    BY <1>3 DEF TypeOK
  <2>2. CASE account.exists /\ account.lastReset # instance[i].day
    <3>1. account'.totalUsed = account.totalUsed /\ account'.dailyUsed = 0
      BY <1>3, <2>1, <2>2 DEF Reset, Account
    <3>2. QED
      BY <1>3, <2>1, <2>2, <3>1 DEF EveryUseCounted, Reset
  <2>3. CASE ~(account.exists /\ account.lastReset # instance[i].day)
    BY <1>3, <2>3 DEF EveryUseCounted, Reset
  <2>4. QED
    BY <2>2, <2>3
<1>4. ASSUME TypeOK, EveryUseCounted, NEW r \in Request, Report(r) PROVE EveryUseCounted'
  <2>1. account'.totalUsed = account.totalUsed /\ account'.dailyUsed = account.dailyUsed
    BY <1>4 DEF TypeOK, Account, Report
  <2>2. QED
    BY <1>4, <2>1 DEF EveryUseCounted, Report
<1>5. ASSUME TypeOK, EveryUseCounted, CreateAccount \/ ReplaceCredential PROVE EveryUseCounted'
  <2>1. account'.totalUsed = account.totalUsed /\ account'.dailyUsed = account.dailyUsed
    BY <1>5 DEF TypeOK, Account, CreateAccount, ReplaceCredential
  <2>2. QED
    BY <1>5, <2>1 DEF EveryUseCounted, CreateAccount, ReplaceCredential
<1>6. EveryUseCounted /\ UNCHANGED <<account, uses, wiped>> => EveryUseCounted'
  BY DEF EveryUseCounted
<1>7. TypeOK /\ EveryUseCounted /\ [Next]_vars => EveryUseCounted'
  BY <1>2, <1>3, <1>4, <1>5, <1>6
     DEF Next, Send, Start, Claim, RollBack, Release, Crash, LeaseExpires, NextDay, vars
<1>8. QED
  BY <1>1, <1>7, TypeCorrect, PTL DEF Spec

-----------------------------------------------------------------------------
(* The days of the job, and the quota.                                     *)

\* A job that holds the lease runs for a later day than the last run.
HolderIsAhead(i) ==
    instance[i].pc = "claimed" /\ lease.holder = i => lease.lastRun < instance[i].day

\* The days of accounts, lease, jobs and clock are in this order.
DaysInOrder ==
    /\ account.lastReset <= lease.lastRun /\ lease.lastRun <= today
    /\ ~lease.exists => lease.lastRun = 0 /\ lease.holder = NoHolder
    /\ \A i \in Instance :
         /\ instance[i].day <= today
         /\ instance[i].pc = "due" => instance[i].day = today
         /\ HolderIsAhead(i)

LEMMA LeaseColumns ==
  ASSUME TypeOK
  PROVE  /\ lease \in [exists: BOOLEAN, holder: Instance \union {NoHolder}, live: BOOLEAN,
                       lastRun: Day \union {0}]
         /\ instance \in [Instance -> [pc: {"waiting", "due", "claimed", "failed"},
                                      day: Day \union {0}]]
  BY DEF TypeOK

\* A job that goes on to another place keeps its day.
LEMMA GotoDay ==
  ASSUME TypeOK, NEW i \in Instance, NEW label, Goto(i, label)
  PROVE  /\ instance'[i].pc = label
         /\ \A j \in Instance : instance'[j].day = instance[j].day
         /\ \A j \in Instance \ {i} : instance'[j] = instance[j]
  BY LeaseColumns DEF Goto

LEMMA DaysStayInOrder == Spec => []DaysInOrder
<1>1. Init => DaysInOrder
  BY DEF Init, DaysInOrder, HolderIsAhead, Waiting
<1>2. ASSUME TypeOK, DaysInOrder, NEW i \in Instance, Start(i) PROVE DaysInOrder'
  BY <1>2, LeaseColumns, Columns DEF Start, DaysInOrder, HolderIsAhead
<1>3. ASSUME TypeOK, DaysInOrder, NEW i \in Instance, Claim(i) PROVE DaysInOrder'
  <2>1. CASE CanClaim(i)
    <3>1. Goto(i, "claimed") /\ account' = account /\ today' = today
      BY <1>3, <2>1 DEF Claim
    <3>2. lease'.exists /\ lease'.holder = i /\ lease'.lastRun = lease.lastRun
      BY <1>3, <2>1, LeaseColumns DEF Claim
    <3>3. lease.lastRun < instance[i].day
      BY <1>3, <2>1, Columns DEF Claim, CanClaim, DaysInOrder
    <3>4. QED
      BY <1>3, <3>1, <3>2, <3>3, GotoDay DEF DaysInOrder, HolderIsAhead
  <2>2. CASE ~CanClaim(i)
    <3>1. Goto(i, "waiting") /\ UNCHANGED <<account, lease, today>>
      BY <1>3, <2>2 DEF Claim
    <3>2. QED
      BY <1>3, <3>1, GotoDay DEF DaysInOrder, HolderIsAhead
  <2>3. QED
    BY <2>1, <2>2
<1>4. ASSUME TypeOK, DaysInOrder, NEW i \in Instance, Reset(i) PROVE DaysInOrder'
  <2>1. Goto(i, "waiting") /\ today' = today /\ lease.holder = i /\ instance[i].pc = "claimed"
    BY <1>4 DEF Reset, HoldsLease
  <2>2. /\ lease'.exists = lease.exists /\ lease'.holder = NoHolder
        /\ lease'.lastRun = instance[i].day
    BY <1>4, LeaseColumns DEF Reset
  <2>3. account'.lastReset \in {account.lastReset, instance[i].day}
    BY <1>4 DEF Reset, TypeOK, Account
  <2>4. lease.lastRun < instance[i].day /\ lease.exists
    BY <1>4, <2>1, UsageConstants DEF DaysInOrder, HolderIsAhead
  <2>5. QED
    BY <1>4, <2>1, <2>2, <2>3, <2>4, GotoDay, Columns, UsageConstants
       DEF DaysInOrder, HolderIsAhead
<1>5. ASSUME TypeOK, DaysInOrder, NEW i \in Instance, RollBack(i) \/ Release(i) \/ Crash(i)
      PROVE DaysInOrder'
  <2>1. PICK label \in {"waiting", "failed"} : Goto(i, label)
    BY <1>5 DEF RollBack, Release, Crash
  <2>2. /\ lease'.holder \in {lease.holder, NoHolder} /\ lease'.lastRun = lease.lastRun
        /\ lease'.exists = lease.exists /\ UNCHANGED <<account, today>>
    BY <1>5, LeaseColumns DEF RollBack, Release, Crash
  <2>3. QED
    BY <1>5, <2>1, <2>2, GotoDay, UsageConstants DEF DaysInOrder, HolderIsAhead
<1>6. ASSUME TypeOK, DaysInOrder, LeaseExpires \/ NextDay PROVE DaysInOrder'
  BY <1>6, LeaseColumns, Columns DEF LeaseExpires, NextDay, DaysInOrder, HolderIsAhead
<1>7. ASSUME TypeOK, DaysInOrder, account'.lastReset = account.lastReset,
             UNCHANGED <<lease, today, instance>>
      PROVE DaysInOrder'
  BY <1>7 DEF DaysInOrder, HolderIsAhead
<1>8. ASSUME TypeOK, NEW r \in Request, Count(r) \/ Report(r)
      PROVE account'.lastReset = account.lastReset
  BY <1>8 DEF Count, Counted, Report, TypeOK, Account
<1>9. ASSUME TypeOK, CreateAccount \/ ReplaceCredential
      PROVE account'.lastReset = account.lastReset
  BY <1>9 DEF CreateAccount, ReplaceCredential, TypeOK, Account
<1>10. TypeOK /\ DaysInOrder /\ [Next]_vars => DaysInOrder'
  BY <1>2, <1>3, <1>4, <1>5, <1>6, <1>7, <1>8, <1>9
     DEF Next, Send, Count, Report, CreateAccount, ReplaceCredential, vars
<1>11. QED
  BY <1>1, <1>10, TypeCorrect, PTL DEF Spec

LEMMA ResetForward ==
  ASSUME TypeOK, DaysInOrder, NEW i \in Instance, Reset(i)
  PROVE  /\ wiped' # wiped => /\ account'.lastReset > account.lastReset
                             /\ lease.lastRun < account'.lastReset
         /\ account'.period = account.period /\ account'.quotaUsed = account.quotaUsed
<1>1. lease.lastRun < instance[i].day /\ account.lastReset < instance[i].day
  BY Columns DEF Reset, HoldsLease, DaysInOrder, HolderIsAhead
<1>2. wiped' # wiped => account'.lastReset = instance[i].day
  BY DEF Reset, TypeOK, Account
<1>3. account'.period = account.period /\ account'.quotaUsed = account.quotaUsed
  BY DEF Reset, TypeOK, Account
<1>4. QED
  BY <1>1, <1>2, <1>3, Columns

LEMMA ReportForward ==
  ASSUME TypeOK, NEW r \in Request, Report(r)
  PROVE  /\ account'.period >= account.period
         /\ account'.period = account.period => account'.quotaUsed >= account.quotaUsed
<1> DEFINE headers == request[r].headers
<1>1. /\ headers.cost \in Cost \union {Absent} /\ headers.period \in Period \union {Absent}
      /\ account \in Account
  BY RequestColumns DEF Headers, TypeOK
<1>2. CASE MayReport(r)
  <2>1. /\ account'.period = Given(headers.period, account.period)
        /\ account'.quotaUsed = Given(headers.cost, account.quotaUsed)
    BY <1>1, <1>2 DEF Report, Account
  <2>2. QED
    BY <1>1, <1>2, <2>1, Columns, UsageConstants DEF MayReport, Given, Cost, Period
<1>3. CASE ~MayReport(r)
  BY <1>3, Columns DEF Report
<1>4. QED
  BY <1>2, <1>3

\* The counter of a day is wiped once, by the run of a later day than the one before, and the
\* quota of a late answer does not replace that of a newer period, nor lower the use in one.
THEOREM CountersOnlyForward == Spec => CountersForward
<1> DEFINE Forward ==
       /\ wiped' # wiped =>
            /\ account'.lastReset > account.lastReset
            /\ lease.lastRun < account'.lastReset
       /\ account'.period >= account.period
       /\ account'.period = account.period => account'.quotaUsed >= account.quotaUsed
<1>1. ASSUME TypeOK, account'.period = account.period, account'.quotaUsed = account.quotaUsed,
             UNCHANGED wiped
      PROVE Forward
  BY <1>1, Columns
<1>2. ASSUME TypeOK, NEW r \in Request, Count(r) PROVE Forward
  <2>1. account'.period = account.period /\ account'.quotaUsed = account.quotaUsed
    BY <1>2 DEF Count, Counted, TypeOK, Account
  <2>2. QED
    BY <1>1, <1>2, <2>1 DEF Count
<1>3. ASSUME TypeOK, CreateAccount \/ ReplaceCredential PROVE Forward
  <2>1. account'.period = account.period /\ account'.quotaUsed = account.quotaUsed
    BY <1>3 DEF CreateAccount, ReplaceCredential, TypeOK, Account
  <2>2. QED
    BY <1>1, <1>3, <2>1 DEF CreateAccount, ReplaceCredential
<1>4. ASSUME TypeOK, DaysInOrder, NEW i \in Instance, Reset(i) PROVE Forward
  BY <1>4, ResetForward, Columns
<1>5. ASSUME TypeOK, NEW r \in Request, Report(r) PROVE Forward
  BY <1>5, ReportForward DEF Report
<1>6. TypeOK /\ DaysInOrder /\ [Next]_vars => [Forward]_vars
  BY <1>1, <1>2, <1>3, <1>4, <1>5
     DEF Next, Send, Start, Claim, RollBack, Release, Crash, LeaseExpires, NextDay
<1>7. QED
  BY <1>6, TypeCorrect, DaysStayInOrder, PTL DEF Spec, CountersForward

=============================================================================
