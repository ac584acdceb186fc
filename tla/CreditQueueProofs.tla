--------------------------- MODULE CreditQueueProofs ---------------------------
(***************************************************************************)
(* Theorems about CreditQueue, for any number of accounts and callers and  *)
(* any capacity of the channel.                                            *)
(***************************************************************************)
EXTENDS CreditQueue, TLAPS

-----------------------------------------------------------------------------
(* The channel.                                                            *)

LEMMA Appended ==
  ASSUME NEW q \in Seq(Account), NEW a \in Account
  PROVE  /\ Append(q, a) \in Seq(Account) /\ Len(Append(q, a)) = Len(q) + 1
         /\ DOMAIN Append(q, a) = 1 .. Len(q) + 1 /\ DOMAIN q = 1 .. Len(q) /\ Len(q) \in Nat
         /\ \A i \in 1 .. Len(q) : Append(q, a)[i] = q[i]
         /\ Append(q, a)[Len(q) + 1] = a
  OBVIOUS

LEMMA Received ==
  ASSUME NEW q \in Seq(Account), q # <<>>
  PROVE  /\ Head(q) \in Account /\ Head(q) = q[1] /\ 1 \in 1 .. Len(q)
         /\ Tail(q) \in Seq(Account) /\ Len(Tail(q)) = Len(q) - 1 /\ Len(q) \in Nat
         /\ DOMAIN Tail(q) = 1 .. Len(q) - 1 /\ DOMAIN q = 1 .. Len(q)
         /\ \A i \in 1 .. Len(q) - 1 : Tail(q)[i] = q[i + 1] /\ i + 1 \in 1 .. Len(q) /\ i + 1 # 1
  OBVIOUS

-----------------------------------------------------------------------------
(* Type correctness.                                                       *)

\* Whoever is busy is busy with an account.
BusyWithAccounts ==
    /\ \A c \in Caller : caller[c].pc # "idle" => caller[c].account \in Account
    /\ worker.pc \notin {"idle", "exited"} => worker.account \in Account

Typed == TypeOK /\ BusyWithAccounts

LEMMA RestingType ==
  /\ Resting \in CallerState /\ Resting \in WorkerState
  /\ Resting.pc = "idle" /\ Resting.account = Idle
  BY DEF Resting, CallerState, WorkerState

\* The two ways in which a caller goes on, and what it is busy with then.
LEMMA CallerGoes ==
  ASSUME Typed, NEW c \in Caller, caller[c].pc # "idle"
  PROVE  /\ \A label \in {"sending", "full"} :
              LET goes == [caller EXCEPT ![c].pc = label] IN
                /\ goes \in [Caller -> CallerState] /\ goes[c].pc = label /\ goes[c].account = caller[c].account
                /\ \A d \in Caller \ {c} : goes[d] = caller[d]
         /\ LET rests == [caller EXCEPT ![c] = Resting] IN
              /\ rests \in [Caller -> CallerState] /\ rests[c].pc = "idle"
              /\ \A d \in Caller \ {c} : rests[d] = caller[d]
         /\ caller[c].account \in Account
  BY RestingType DEF Typed, TypeOK, BusyWithAccounts, CallerState

LEMMA WorkerGoing ==
  ASSUME Typed, NEW label \in {"received", "begun", "loaded", "busy", "asking", "finishing", "resending", "unsent"},
         worker.pc \notin {"idle", "exited"}
  PROVE  LET goes == [worker EXCEPT !.pc = label] IN
           goes \in WorkerState /\ goes.pc = label /\ goes.account = worker.account /\ goes.account \in Account
  BY DEF Typed, TypeOK, BusyWithAccounts, WorkerState

\* The data that the marks and the channel are made of.
DataTyped ==
    /\ queue \in Seq(Account) /\ Len(queue) <= Capacity
    /\ pending \subseteq Account /\ running \subseteq Account /\ followup \subseteq Account
    /\ phase \in {"on", "stopped", "cancelled"}
    /\ contention \in 0 .. Contention
    /\ due \subseteq Account /\ dropped \subseteq Account

LEMMA CallerTyped == ASSUME Typed, NEW c \in Caller, Enqueue(c) PROVE Typed'
<1>1. caller' \in [Caller -> CallerState] /\ \A d \in Caller : caller'[d].pc # "idle" => caller'[d].account \in Account
  <2>1. caller[c].pc # "idle"
    BY DEF Enqueue, TriggerIgnored, AskFollowup, Coalesce, Reserve, Send, Full, Withdraw
  <2>2. \A d \in Caller : caller[d].pc # "idle" => caller[d].account \in Account
    BY DEF Typed, BusyWithAccounts
  <2>3. CASE caller' = [caller EXCEPT ![c] = Resting]
    BY <2>1, <2>2, <2>3, CallerGoes
  <2>4. CASE caller' = [caller EXCEPT ![c].pc = "sending"]
    BY <2>1, <2>2, <2>4, CallerGoes
  <2>5. CASE caller' = [caller EXCEPT ![c].pc = "full"]
    BY <2>1, <2>2, <2>5, CallerGoes
  <2> QED
    BY <2>3, <2>4, <2>5 DEF Enqueue, TriggerIgnored, AskFollowup, Coalesce, Reserve, Send, Full, Withdraw
<1>2. worker' = worker
  BY DEF Enqueue, TriggerIgnored, AskFollowup, Coalesce, Reserve, Send, Full, Withdraw
<1>3. DataTyped'
  <2>1. DataTyped /\ caller[c].account \in Account \union {Idle}
    BY DEF Typed, TypeOK, DataTyped, CallerState
  <2>2. CASE TriggerIgnored(c) \/ AskFollowup(c) \/ Coalesce(c) \/ Full(c)
    BY <2>1, <2>2 DEF TriggerIgnored, AskFollowup, Coalesce, Full, DataTyped, sets, Typed, BusyWithAccounts
  <2>3. CASE Reserve(c)
    BY <2>1, <2>3 DEF Reserve, DataTyped, Typed, BusyWithAccounts
  <2>4. CASE Send(c)
    <3>1. caller[c].account \in Account
      BY <2>4 DEF Send, Typed, BusyWithAccounts
    <3>2. queue' \in Seq(Account) /\ Len(queue') <= Capacity
      BY <2>1, <2>4, <3>1, Appended, QueueConstants DEF Send, DataTyped
    <3> QED
      BY <2>1, <2>4, <3>2 DEF Send, DataTyped, sets
  <2>5. CASE Withdraw(c)
    BY <2>1, <2>5 DEF Withdraw, DataTyped
  <2> QED
    BY <2>2, <2>3, <2>4, <2>5 DEF Enqueue
<1> QED
  BY <1>1, <1>2, <1>3 DEF DataTyped, Typed, TypeOK, BusyWithAccounts

LEMMA TriggerTyped == ASSUME Typed, NEW c \in Caller, NEW a \in Account, Trigger(c, a) PROVE Typed'
  BY DEF Trigger, Typed, TypeOK, BusyWithAccounts, CallerState, sets

LEMMA WorkTyped == ASSUME Typed, Work PROVE Typed'
<1>1. worker' \in WorkerState /\ (worker'.pc \notin {"idle", "exited"} => worker'.account \in Account)
  <2>1. CASE Receive
    BY <2>1, Received DEF Receive, Typed, TypeOK, WorkerState
  <2>2. CASE Exit
    BY <2>2 DEF Exit, WorkerState
  <2>3. CASE \E label \in {"begun", "loaded", "busy", "asking", "finishing", "resending", "unsent"} :
               worker.pc \notin {"idle", "exited"} /\ worker' = [worker EXCEPT !.pc = label]
    BY <2>3, WorkerGoing
  <2>4. CASE worker' = Resting
    BY <2>4, RestingType
  <2> QED
    BY <2>1, <2>2, <2>3, <2>4 DEF Work, Begin, LoadAccount, Claimed, Busy, RetryLater, RefreshFails, QueryEnds, Finish, Resend,
      ResendFull, WithdrawResend, WorkerGoes
<1>2. caller' = caller
  BY DEF Work, Receive, Begin, LoadAccount, Claimed, Busy, RetryLater, RefreshFails, QueryEnds, Finish, Resend, ResendFull,
    WithdrawResend, Exit
<1>3. DataTyped'
  <2>1. DataTyped /\ (worker.pc \notin {"idle", "exited"} => worker.account \in Account)
    BY DEF Typed, TypeOK, DataTyped, BusyWithAccounts
  <2>2. CASE Receive
    <3>1. queue' \in Seq(Account) /\ Len(queue') <= Capacity
      BY <2>1, <2>2, Received, QueueConstants DEF Receive, DataTyped
    <3> QED
      BY <2>1, <2>2, <3>1 DEF Receive, DataTyped, sets
  <2>3. CASE Resend
    <3>1. queue' \in Seq(Account) /\ Len(queue') <= Capacity
      BY <2>1, <2>3, Appended, QueueConstants DEF Resend, DataTyped
    <3> QED
      BY <2>1, <2>3, <3>1 DEF Resend, DataTyped, sets
  <2>4. CASE Busy
    BY <2>1, <2>4, QueueConstants DEF Busy, DataTyped, sets
  <2>5. CASE Begin \/ RetryLater \/ Finish
    BY <2>1, <2>5 DEF Begin, RetryLater, Finish, DataTyped
  <2>6. CASE LoadAccount \/ Claimed \/ RefreshFails \/ QueryEnds \/ ResendFull \/ WithdrawResend \/ Exit
    BY <2>1, <2>6 DEF LoadAccount, Claimed, RefreshFails, QueryEnds, ResendFull, WithdrawResend, Exit, DataTyped, sets
  <2> QED
    BY <2>2, <2>3, <2>4, <2>5, <2>6 DEF Work
<1> QED
  BY <1>1, <1>2, <1>3 DEF DataTyped, Typed, TypeOK, BusyWithAccounts

LEMMA TypedAlways == Spec => []Typed
<1>1. Init => Typed
  <2>1. SUFFICES ASSUME Init PROVE Typed
    OBVIOUS
  <2>2. caller \in [Caller -> CallerState] /\ \A c \in Caller : caller[c].pc = "idle"
    BY <2>1, RestingType DEF Init
  <2>3. worker \in WorkerState /\ worker.pc = "idle"
    BY <2>1, RestingType DEF Init
  <2> QED
    BY <2>1, <2>2, <2>3, QueueConstants DEF Init, Typed, TypeOK, BusyWithAccounts
<1>2. ASSUME Typed, Stop \/ Cancel \/ UNCHANGED vars PROVE Typed'
  BY <1>2 DEF Stop, Cancel, vars, Typed, TypeOK, BusyWithAccounts, sets
<1>3. Typed /\ [Next]_vars => Typed'
  BY <1>2, CallerTyped, TriggerTyped, WorkTyped DEF Next
<1> QED
  BY <1>1, <1>3, PTL DEF Spec

\* Type correctness: the channel never holds more jobs than its capacity, and the marks, the
\* callers and the worker keep their types.
THEOREM TypeCorrect == Spec => []TypeOK
<1>1. Typed => TypeOK
  BY DEF Typed
<1> QED
  BY <1>1, TypedAlways, PTL

-----------------------------------------------------------------------------
(* One job for each mark.                                                  *)

Sends(c) == caller[c].pc \in {"sending", "full"}
WorkerCarries == worker.pc \in {"received", "resending", "unsent"}
WorkerRuns == worker.pc \in {"begun", "loaded", "busy", "asking", "finishing"}

Queued == 1 .. Len(queue)

\* Every job on its way is the only one of its account, which is marked pending ...
JobsAreMarked ==
    /\ \A i \in Queued : queue[i] \in pending
    /\ \A i, j \in Queued : queue[i] = queue[j] => i = j
    /\ \A c \in Caller : Sends(c) => caller[c].account \in pending /\ \A i \in Queued : queue[i] # caller[c].account
    /\ \A c, d \in Caller : Sends(c) /\ Sends(d) /\ caller[c].account = caller[d].account => c = d
    /\ WorkerCarries =>
         /\ worker.account \in pending
         /\ \A i \in Queued : queue[i] # worker.account
         /\ \A c \in Caller : Sends(c) => caller[c].account # worker.account

\* ... and every account that is marked has a job on its way.
MarksAreCarried ==
    \A a \in pending :
        \/ \E i \in Queued : queue[i] = a
        \/ \E c \in Caller : Sends(c) /\ caller[c].account = a
        \/ WorkerCarries /\ worker.account = a

\* An account that the worker refreshes is not pending: it asks for a follow-up.
RunningIsWorkers ==
    /\ running = IF WorkerRuns THEN {worker.account} ELSE {}
    /\ pending \intersect running = {}
    /\ followup \subseteq running

JobInv == phase = "on" => JobsAreMarked /\ MarksAreCarried /\ RunningIsWorkers

\* A caller that goes on without taking, or giving up, a job.
LEMMA JobsStay ==
  ASSUME Typed, JobInv, phase = "on", UNCHANGED <<queue, pending, running, worker>>, followup' \subseteq running,
         \A c \in Caller : (Sends(c)' <=> Sends(c)) /\ (Sends(c) => caller'[c].account = caller[c].account)
  PROVE  JobInv'
<1>1. JobsAreMarked'
  BY DEF JobInv, JobsAreMarked, Queued, WorkerCarries
<1>2. MarksAreCarried'
  BY DEF JobInv, MarksAreCarried, Queued, WorkerCarries
<1>3. RunningIsWorkers'
  BY DEF JobInv, RunningIsWorkers, WorkerRuns
<1> QED
  BY <1>1, <1>2, <1>3 DEF JobInv

LEMMA CallerJobs == ASSUME Typed, JobInv, phase = "on", NEW c \in Caller, Enqueue(c) PROVE JobInv'
<1> DEFINE a == caller[c].account
<1>1. caller[c].pc # "idle" /\ phase' = "on" /\ UNCHANGED <<running, worker>> /\ caller \in [Caller -> CallerState]
  BY DEF Enqueue, TriggerIgnored, AskFollowup, Coalesce, Reserve, Send, Full, Withdraw, sets, Typed, TypeOK
<1>2. a \in Account
  BY <1>1 DEF Typed, BusyWithAccounts
<1>3. CASE AskFollowup(c) \/ Coalesce(c) \/ Full(c)
  <2>1. \A d \in Caller : (Sends(d)' <=> Sends(d)) /\ (Sends(d) => caller'[d].account = caller[d].account)
    <3>1. CASE caller[c].pc = "entering" /\ caller' = [caller EXCEPT ![c] = Resting]
      BY <1>1, <3>1, CallerGoes DEF Sends
    <3>2. CASE caller[c].pc = "sending" /\ caller' = [caller EXCEPT ![c].pc = "full"]
      BY <1>1, <3>2, CallerGoes DEF Sends
    <3> QED
      BY <1>3, <3>1, <3>2 DEF AskFollowup, Coalesce, Full
  <2>2. followup' \subseteq running
    BY <1>3 DEF AskFollowup, Coalesce, Full, JobInv, RunningIsWorkers, sets
  <2>3. UNCHANGED <<queue, pending, running, worker>>
    BY <1>3 DEF AskFollowup, Coalesce, Full, sets
  <2> QED
    BY <2>1, <2>2, <2>3, JobsStay
<1>4. CASE Reserve(c)
  <2>1. /\ caller'[c].pc = "sending" /\ caller'[c].account = a /\ \A d \in Caller \ {c} : caller'[d] = caller[d]
    BY <1>1, <1>4, CallerGoes DEF Reserve
  <2>2. a \notin pending /\ a \notin running /\ pending' = pending \union {a} /\ UNCHANGED <<queue, followup>> /\ ~Sends(c)
    BY <1>4 DEF Reserve, Sends
  <2>3. JobsAreMarked'
    BY <1>1, <2>1, <2>2 DEF JobInv, JobsAreMarked, Queued, Sends, WorkerCarries
  <2>4. MarksAreCarried'
    BY <1>1, <2>1, <2>2 DEF JobInv, MarksAreCarried, Queued, Sends, WorkerCarries
  <2>5. RunningIsWorkers'
    BY <1>1, <2>2 DEF JobInv, RunningIsWorkers, WorkerRuns
  <2> QED
    BY <2>3, <2>4, <2>5 DEF JobInv
<1>5. CASE Send(c)
  <2>1. /\ caller'[c].pc = "idle" /\ \A d \in Caller \ {c} : caller'[d] = caller[d]
    BY <1>1, <1>5, CallerGoes DEF Send
  <2>2. queue' = Append(queue, a) /\ UNCHANGED <<pending, followup>> /\ Sends(c)
    BY <1>5 DEF Send, Sends, sets
  <2>3. /\ Len(queue) \in Nat /\ Queued' = 1 .. Len(queue) + 1 /\ queue'[Len(queue) + 1] = a
        /\ \A i \in Queued : queue'[i] = queue[i]
    BY <1>2, <2>2, Appended DEF Queued, Typed, TypeOK
  <2>4. JobsAreMarked'
    BY <1>1, <2>1, <2>2, <2>3 DEF JobInv, JobsAreMarked, Queued, Sends, WorkerCarries
  <2>5. MarksAreCarried'
    BY <1>1, <2>1, <2>2, <2>3 DEF JobInv, MarksAreCarried, Queued, Sends, WorkerCarries
  <2>6. RunningIsWorkers'
    BY <1>1, <2>2 DEF JobInv, RunningIsWorkers, WorkerRuns
  <2> QED
    BY <2>4, <2>5, <2>6 DEF JobInv
<1>6. CASE Withdraw(c)
  <2>1. /\ caller'[c].pc = "idle" /\ \A d \in Caller \ {c} : caller'[d] = caller[d]
    BY <1>1, <1>6, CallerGoes DEF Withdraw
  <2>2. pending' = pending \ {a} /\ UNCHANGED <<queue, followup>> /\ Sends(c)
    BY <1>6 DEF Withdraw, Sends
  <2>3. JobsAreMarked'
    BY <1>1, <2>1, <2>2 DEF JobInv, JobsAreMarked, Queued, Sends, WorkerCarries
  <2>4. MarksAreCarried'
    BY <1>1, <2>1, <2>2 DEF JobInv, MarksAreCarried, Queued, Sends, WorkerCarries
  <2>5. RunningIsWorkers'
    BY <1>1, <2>2 DEF JobInv, RunningIsWorkers, WorkerRuns
  <2> QED
    BY <2>3, <2>4, <2>5 DEF JobInv
<1>7. ~TriggerIgnored(c)
  BY DEF TriggerIgnored
<1> QED
  BY <1>3, <1>4, <1>5, <1>6, <1>7 DEF Enqueue

\* A worker that goes on with the account that it refreshes, or has just finished.
LEMMA WorkStays ==
  ASSUME Typed, JobInv, phase = "on", UNCHANGED <<queue, pending, running, caller, phase>>, followup' \subseteq running,
         ~WorkerCarries, ~WorkerCarries', worker'.account = worker.account, WorkerRuns, WorkerRuns'
  PROVE  JobInv'
<1>1. JobsAreMarked' /\ MarksAreCarried'
  BY DEF JobInv, JobsAreMarked, MarksAreCarried, Queued, Sends
<1>2. RunningIsWorkers'
  BY DEF JobInv, RunningIsWorkers
<1> QED
  BY <1>1, <1>2 DEF JobInv

LEMMA WorkJobs == ASSUME Typed, JobInv, phase = "on", Work PROVE JobInv'
<1> DEFINE a == worker.account
<1>1. phase' = "on" /\ UNCHANGED caller /\ ~Exit
  BY DEF Work, Receive, Begin, LoadAccount, Claimed, Busy, RetryLater, RefreshFails, QueryEnds, Finish, Resend, ResendFull,
    WithdrawResend, Exit
<1>2. worker \in WorkerState
  BY DEF Typed, TypeOK
<1>3. CASE Receive
  <2>1. worker'.pc = "received" /\ worker'.account = queue[1] /\ worker.pc = "idle" /\ UNCHANGED <<pending, running, followup>>
    BY <1>3, Received DEF Receive, Typed, TypeOK, sets
  <2>2. /\ Len(queue) \in Nat /\ Queued' = 1 .. Len(queue) - 1 /\ 1 \in Queued
        /\ \A i \in 1 .. Len(queue) - 1 : queue'[i] = queue[i + 1] /\ i + 1 \in Queued /\ i + 1 # 1
    BY <1>3, Received DEF Receive, Queued, Typed, TypeOK
  <2>3. JobsAreMarked'
    <3>1. JobsAreMarked /\ ~WorkerCarries
      BY <2>1 DEF JobInv, WorkerCarries
    <3>2. \A i \in Queued' : i \in Nat /\ i + 1 \in Queued /\ i + 1 # 1 /\ queue'[i] = queue[i + 1]
      BY <2>2
    <3>3. \A i \in Queued' : queue'[i] \in pending' /\ queue'[i] # worker'.account
      BY <2>1, <2>2, <3>1, <3>2 DEF JobsAreMarked
    <3>4. ASSUME NEW i \in Queued', NEW j \in Queued', queue'[i] = queue'[j] PROVE i = j
      <4>1. i + 1 = j + 1
        BY <3>1, <3>2, <3>4 DEF JobsAreMarked
      <4> QED
        BY <3>2, <4>1
    <3>5. \A c \in Caller : Sends(c)' => /\ caller'[c].account \in pending' /\ caller'[c].account # worker'.account
                                        /\ \A i \in Queued' : queue'[i] # caller'[c].account
      BY <1>1, <2>1, <2>2, <3>1, <3>2 DEF JobsAreMarked, Sends
    <3>6. \A c, d \in Caller : Sends(c)' /\ Sends(d)' /\ caller'[c].account = caller'[d].account => c = d
      BY <1>1, <3>1 DEF JobsAreMarked, Sends
    <3>7. worker'.account \in pending'
      BY <2>1, <2>2, <3>1 DEF JobsAreMarked
    <3> QED
      BY <3>3, <3>4, <3>5, <3>6, <3>7 DEF JobsAreMarked
  <2>4. ASSUME NEW i \in Queued, i # 1 PROVE i - 1 \in Queued' /\ queue'[i - 1] = queue[i]
    BY <2>2, <2>4 DEF Queued
  <2>5. MarksAreCarried'
    BY <1>1, <2>1, <2>4 DEF JobInv, MarksAreCarried, Sends, WorkerCarries
  <2>6. RunningIsWorkers'
    BY <1>1, <2>1 DEF JobInv, RunningIsWorkers, WorkerRuns
  <2> QED
    BY <2>3, <2>5, <2>6 DEF JobInv
<1>4. CASE Begin
  <2>1. /\ worker.pc = "received" /\ worker'.pc = "begun" /\ worker'.account = a
        /\ pending' = pending \ {a} /\ running' = running \union {a} /\ UNCHANGED <<queue, followup>>
    BY <1>2, <1>4 DEF Begin, WorkerGoes, WorkerState
  <2>2. JobsAreMarked'
    BY <1>1, <2>1 DEF JobInv, JobsAreMarked, Queued, Sends, WorkerCarries
  <2>3. MarksAreCarried'
    BY <1>1, <2>1 DEF JobInv, MarksAreCarried, Queued, Sends, WorkerCarries
  <2>4. RunningIsWorkers'
    BY <1>1, <2>1 DEF JobInv, RunningIsWorkers, WorkerRuns
  <2> QED
    BY <2>2, <2>3, <2>4 DEF JobInv
<1>5. CASE LoadAccount \/ Claimed \/ Busy \/ RetryLater \/ RefreshFails \/ QueryEnds
  <2>1. /\ worker.pc \in {"begun", "loaded", "busy", "asking"}
        /\ worker'.pc \in {"loaded", "busy", "asking", "finishing"} /\ worker'.account = a
        /\ UNCHANGED <<queue, pending, running, phase>>
    BY <1>2, <1>5 DEF LoadAccount, Claimed, Busy, RetryLater, RefreshFails, QueryEnds, WorkerGoes, WorkerState, sets
  <2>2. running = {a} /\ followup' \subseteq running
    BY <1>5, <2>1 DEF LoadAccount, Claimed, Busy, RetryLater, RefreshFails, QueryEnds, sets, JobInv, RunningIsWorkers, WorkerRuns
  <2> QED
    BY <1>1, <2>1, <2>2, WorkStays DEF WorkerCarries, WorkerRuns
<1>6. CASE Finish
  <2>1. running = {a} /\ running' = {} /\ followup' = {} /\ UNCHANGED queue /\ a \notin pending /\ worker.pc = "finishing"
    BY <1>6 DEF Finish, JobInv, RunningIsWorkers, WorkerRuns
  <2>2. CASE a \in followup
    <3>1. pending' = pending \union {a} /\ worker'.pc = "resending" /\ worker'.account = a
      BY <1>2, <1>6, <2>2 DEF Finish, WorkerState
    <3>2. JobsAreMarked'
      BY <1>1, <2>1, <3>1 DEF JobInv, JobsAreMarked, Queued, Sends, WorkerCarries
    <3>3. MarksAreCarried'
      BY <1>1, <2>1, <3>1 DEF JobInv, MarksAreCarried, Queued, Sends, WorkerCarries
    <3>4. RunningIsWorkers'
      BY <1>1, <2>1, <3>1 DEF JobInv, RunningIsWorkers, WorkerRuns
    <3> QED
      BY <3>2, <3>3, <3>4 DEF JobInv
  <2>3. CASE a \notin followup
    <3>1. pending' = pending /\ worker'.pc = "idle"
      BY <1>6, <2>3, RestingType DEF Finish
    <3>2. JobsAreMarked'
      BY <1>1, <2>1, <3>1 DEF JobInv, JobsAreMarked, Queued, Sends, WorkerCarries
    <3>3. MarksAreCarried'
      BY <1>1, <2>1, <3>1 DEF JobInv, MarksAreCarried, Queued, Sends, WorkerCarries
    <3>4. RunningIsWorkers'
      BY <1>1, <2>1, <3>1 DEF JobInv, RunningIsWorkers, WorkerRuns
    <3> QED
      BY <3>2, <3>3, <3>4 DEF JobInv
  <2> QED
    BY <2>2, <2>3
<1>7. CASE Resend
  <2>1. worker.pc = "resending" /\ worker'.pc = "idle" /\ UNCHANGED <<pending, running, followup>> /\ a \in Account
    BY <1>7, RestingType DEF Resend, sets, Typed, BusyWithAccounts
  <2>2. /\ Len(queue) \in Nat /\ Queued' = 1 .. Len(queue) + 1 /\ queue'[Len(queue) + 1] = a
        /\ \A i \in Queued : queue'[i] = queue[i]
    BY <1>7, <2>1, Appended DEF Resend, Queued, Typed, TypeOK
  <2>3. JobsAreMarked'
    BY <1>1, <2>1, <2>2 DEF JobInv, JobsAreMarked, Queued, Sends, WorkerCarries
  <2>4. MarksAreCarried'
    BY <1>1, <2>1, <2>2 DEF JobInv, MarksAreCarried, Queued, Sends, WorkerCarries
  <2>5. RunningIsWorkers'
    BY <1>1, <2>1 DEF JobInv, RunningIsWorkers, WorkerRuns
  <2> QED
    BY <2>3, <2>4, <2>5 DEF JobInv
<1>8. CASE ResendFull
  <2>1. /\ worker.pc = "resending" /\ worker'.pc = "unsent" /\ worker'.account = a
        /\ UNCHANGED <<queue, pending, running, followup>>
    BY <1>2, <1>8 DEF ResendFull, WorkerGoes, WorkerState, sets
  <2>2. JobsAreMarked' /\ MarksAreCarried' /\ RunningIsWorkers'
    BY <1>1, <2>1 DEF JobInv, JobsAreMarked, MarksAreCarried, RunningIsWorkers, Queued, Sends, WorkerCarries, WorkerRuns
  <2> QED
    BY <2>2 DEF JobInv
<1>9. CASE WithdrawResend
  <2>1. worker.pc = "unsent" /\ worker'.pc = "idle" /\ pending' = pending \ {a} /\ UNCHANGED <<queue, running, followup>>
    BY <1>9, RestingType DEF WithdrawResend
  <2>2. JobsAreMarked'
    BY <1>1, <2>1 DEF JobInv, JobsAreMarked, Queued, Sends, WorkerCarries
  <2>3. MarksAreCarried'
    BY <1>1, <2>1 DEF JobInv, MarksAreCarried, Queued, Sends, WorkerCarries
  <2>4. RunningIsWorkers'
    BY <1>1, <2>1 DEF JobInv, RunningIsWorkers, WorkerRuns
  <2> QED
    BY <2>2, <2>3, <2>4 DEF JobInv
<1> QED
  BY <1>1, <1>3, <1>4, <1>5, <1>6, <1>7, <1>8, <1>9 DEF Work

LEMMA JobsAlways == Spec => []JobInv
<1>1. Init => JobInv
  BY RestingType DEF Init, JobInv, JobsAreMarked, MarksAreCarried, RunningIsWorkers, Queued, Sends, WorkerCarries, WorkerRuns
<1>2. ASSUME Typed, JobInv, [Next]_vars PROVE JobInv'
  <2>1. CASE phase' # "on"
    BY <2>1 DEF JobInv
  <2>2. CASE phase' = "on"
    <3>1. phase = "on" /\ ~Stop /\ ~Cancel
      BY <1>2, <2>2 DEF Next, Enqueue, Work, Stop, Cancel, vars, Trigger, TriggerIgnored, AskFollowup, Coalesce, Reserve, Send, Full,
        Withdraw, Receive, Begin, LoadAccount, Claimed, Busy, RetryLater, RefreshFails, QueryEnds, Finish, Resend, ResendFull,
        WithdrawResend, Exit
    <3>2. ASSUME NEW c \in Caller, NEW a \in Account, Trigger(c, a) PROVE JobInv'
      <4>1. \A d \in Caller : (Sends(d)' <=> Sends(d)) /\ (Sends(d) => caller'[d].account = caller[d].account)
        BY <1>2, <3>2 DEF Trigger, Sends, Typed, TypeOK
      <4>2. UNCHANGED <<queue, pending, running, worker>> /\ followup' \subseteq running
        BY <1>2, <3>1, <3>2 DEF Trigger, sets, JobInv, RunningIsWorkers
      <4> QED
        BY <1>2, <3>1, <4>1, <4>2, JobsStay
    <3>3. CASE UNCHANGED vars
      BY <1>2, <3>3 DEF vars, sets, JobInv, JobsAreMarked, MarksAreCarried, RunningIsWorkers, Queued, Sends, WorkerCarries, WorkerRuns
    <3> QED
      BY <1>2, <3>1, <3>2, <3>3, CallerJobs, WorkJobs DEF Next
  <2> QED
    BY <2>1, <2>2
<1> QED
  BY <1>1, <1>2, TypedAlways, PTL DEF Spec

\* A union of three kinds of carriers, at most one of which has a member.
LEMMA OneCarrier ==
  ASSUME NEW Q, NEW S, NEW W, NEW x
  PROVE  LET all == [queued : Q] \union [sending : S] \union [worker : W] IN
           /\ Q = {} /\ S = {} /\ W = {} => all = {}
           /\ Q = {x} /\ S = {} /\ W = {} => all = {[queued |-> x]}
           /\ Q = {} /\ S = {x} /\ W = {} => all = {[sending |-> x]}
           /\ Q = {} /\ S = {} /\ W = {x} => all = {[worker |-> x]}
<1>1. [queued : {x}] = {[queued |-> x]} /\ [sending : {x}] = {[sending |-> x]} /\ [worker : {x}] = {[worker |-> x]}
  <2>1. \A r \in [queued : {x}] : r = [queued |-> x]
    OBVIOUS
  <2>2. \A r \in [sending : {x}] : r = [sending |-> x]
    OBVIOUS
  <2>3. \A r \in [worker : {x}] : r = [worker |-> x]
    OBVIOUS
  <2>4. [queued |-> x] \in [queued : {x}] /\ [sending |-> x] \in [sending : {x}] /\ [worker |-> x] \in [worker : {x}]
    OBVIOUS
  <2> QED
    BY <2>1, <2>2, <2>3, <2>4
<1>2. [queued : {}] = {} /\ [sending : {}] = {} /\ [worker : {}] = {}
  OBVIOUS
<1> QED
  BY <1>1, <1>2

\* While the worker is on, an account is marked pending exactly when one job of it is on its
\* way, no follow-up waits for a job that has ended, and none is left running: no mark
\* swallows triggers for good (enqueueAccountCreditsRefresh, the worker and finishCreditRefreshJob).
THEOREM MarksAlwaysMatchJobs == Spec => []MarksMatchJobs
<1>1. ASSUME Typed, JobInv, phase = "on" PROVE MarksMatchJobs
  <2>1. DOMAIN queue = Queued
    BY <1>1 DEF Typed, TypeOK, Queued
  <2>2. ASSUME NEW a \in Account
        PROVE IF a \in pending THEN \E x \in Carriers(a) : Carriers(a) = {x} ELSE Carriers(a) = {}
    <3> DEFINE Q == {i \in DOMAIN queue : queue[i] = a}
    <3> DEFINE S == {c \in Caller : caller[c].pc \in {"sending", "full"} /\ caller[c].account = a}
    <3> DEFINE W == {x \in {worker.pc} : x \in {"received", "resending", "unsent"} /\ worker.account = a}
    <3>1. Carriers(a) = [queued : Q] \union [sending : S] \union [worker : W]
      BY DEF Carriers
    <3>2. S = {c \in Caller : Sends(c) /\ caller[c].account = a} /\ Q = {i \in Queued : queue[i] = a}
      BY <2>1 DEF Sends
    <3>3. W = IF WorkerCarries /\ worker.account = a THEN {worker.pc} ELSE {}
      BY DEF WorkerCarries
    <3> HIDE DEF Q, S, W
    <3>4. CASE a \notin pending
      <4>1. Q = {} /\ S = {} /\ W = {}
        BY <1>1, <3>2, <3>3, <3>4 DEF JobInv, JobsAreMarked
      <4> QED
        BY <3>1, <3>4, <4>1, OneCarrier
    <3>5. CASE a \in pending
      <4>1. CASE \E i \in Queued : queue[i] = a
        <5>1. PICK i \in Queued : queue[i] = a
          BY <4>1
        <5>2. Q = {i} /\ S = {} /\ W = {}
          BY <1>1, <3>2, <3>3, <5>1 DEF JobInv, JobsAreMarked
        <5>3. Carriers(a) = {[queued |-> i]}
          BY <3>1, <5>2, OneCarrier
        <5> QED
          BY <3>5, <5>3
      <4>2. CASE \E c \in Caller : Sends(c) /\ caller[c].account = a
        <5>1. PICK c \in Caller : Sends(c) /\ caller[c].account = a
          BY <4>2
        <5>2. Q = {} /\ S = {c} /\ W = {}
          BY <1>1, <3>2, <3>3, <5>1 DEF JobInv, JobsAreMarked
        <5>3. Carriers(a) = {[sending |-> c]}
          BY <3>1, <5>2, OneCarrier
        <5> QED
          BY <3>5, <5>3
      <4>3. CASE WorkerCarries /\ worker.account = a
        <5>1. Q = {} /\ S = {} /\ W = {worker.pc}
          BY <1>1, <3>2, <3>3, <4>3 DEF JobInv, JobsAreMarked
        <5>2. Carriers(a) = {[worker |-> worker.pc]}
          BY <3>1, <5>1, OneCarrier
        <5> QED
          BY <3>5, <5>2
      <4> QED
        BY <1>1, <3>5, <4>1, <4>2, <4>3 DEF JobInv, MarksAreCarried
    <3> QED
      BY <3>4, <3>5
  <2>3. followup \subseteq running /\ running = IF WorkerRuns THEN {worker.account} ELSE {}
    BY <1>1 DEF JobInv, RunningIsWorkers
  <2> QED
    BY <2>2, <2>3 DEF MarksMatchJobs, WorkerRuns
<1>2. Typed /\ JobInv => MarksMatchJobs
  BY <1>1 DEF MarksMatchJobs
<1> QED
  BY <1>2, JobsAlways, TypedAlways, PTL

-----------------------------------------------------------------------------
(* No trigger is lost.                                                     *)

\* What still leads to a claim of a's row.
Covered(a) ==
    \/ a \in pending \union followup
    \/ \E c \in Caller : caller[c] = [pc |-> "entering", account |-> a]
    \/ worker.account = a /\ worker.pc \in {"begun", "loaded", "busy"}

LEMMA CallerCovers ==
  ASSUME Typed, JobInv, NoTriggerLost, phase = "on", NEW c \in Caller, Enqueue(c),
         NEW a \in due' \ dropped'
  PROVE  Covered(a)'
<1>1. /\ UNCHANGED <<worker, due>> /\ dropped \subseteq dropped' /\ ~TriggerIgnored(c) /\ caller[c].pc # "idle"
      /\ followup \subseteq followup'
  BY DEF Enqueue, TriggerIgnored, AskFollowup, Coalesce, Reserve, Send, Full, Withdraw, sets
<1>2. Covered(a) /\ a \in due
  BY <1>1 DEF NoTriggerLost, Covered
<1>3. \A d \in Caller \ {c} : caller'[d] = caller[d]
  BY <1>1, CallerGoes DEF Enqueue, TriggerIgnored, AskFollowup, Coalesce, Reserve, Send, Full, Withdraw
<1>4. ASSUME a \in pending PROVE Covered(a)'
  <2>1. CASE Withdraw(c)
    BY <1>1, <1>2, <1>4, <2>1 DEF Withdraw, Covered
  <2>2. CASE ~Withdraw(c)
    BY <1>1, <1>4, <2>2 DEF Enqueue, AskFollowup, Coalesce, Reserve, Send, Full, sets, Covered
  <2> QED
    BY <2>1, <2>2
<1>5. ASSUME a \in followup PROVE Covered(a)'
  BY <1>1, <1>5 DEF Covered
<1>6. ASSUME NEW d \in Caller, caller[d] = [pc |-> "entering", account |-> a] PROVE Covered(a)'
  <2>1. CASE d # c
    BY <1>3, <1>6, <2>1 DEF Covered
  <2>2. CASE d = c
    <3>1. caller[c].pc = "entering" /\ caller[c].account = a
      BY <1>6, <2>2
    <3> QED
      BY <1>1, <1>4, <3>1 DEF Enqueue, AskFollowup, Coalesce, Reserve, Send, Full, Withdraw, Covered
  <2> QED
    BY <2>1, <2>2
<1>7. ASSUME worker.account = a, worker.pc \in {"begun", "loaded", "busy"} PROVE Covered(a)'
  BY <1>1, <1>7 DEF Covered
<1> QED
  BY <1>2, <1>4, <1>5, <1>6, <1>7 DEF Covered

LEMMA WorkCovers ==
  ASSUME Typed, JobInv, NoTriggerLost, phase = "on", Work, NEW a \in due' \ dropped'
  PROVE  Covered(a)'
<1>1. UNCHANGED caller /\ due' \subseteq due /\ ~Exit /\ worker \in WorkerState
  BY DEF Work, Receive, Begin, LoadAccount, Claimed, Busy, RetryLater, RefreshFails, QueryEnds, Finish, Resend, ResendFull,
    WithdrawResend, Exit, Typed, TypeOK
<1>2. a \in due /\ (a \in dropped => Claimed /\ a = worker.account)
  BY <1>1 DEF Work, Receive, Begin, LoadAccount, Claimed, Busy, RetryLater, RefreshFails, QueryEnds, Finish, Resend, ResendFull,
    WithdrawResend, Exit
<1>3. a \notin dropped
  BY <1>2 DEF Claimed
<1>4. Covered(a)
  BY <1>2, <1>3 DEF NoTriggerLost, Covered
<1>5. ASSUME NEW c \in Caller, caller[c] = [pc |-> "entering", account |-> a] PROVE Covered(a)'
  BY <1>1, <1>5 DEF Covered
<1>6. ASSUME a \in pending PROVE Covered(a)'
  <2>1. CASE Begin
    BY <1>1, <1>6, <2>1 DEF Begin, WorkerGoes, WorkerState, Covered
  <2>2. CASE WithdrawResend
    BY <1>2, <1>6, <2>2 DEF WithdrawResend, Covered
  <2>3. CASE ~Begin /\ ~WithdrawResend
    <3>1. a \in pending'
      BY <1>1, <1>6, <2>3 DEF Work, Receive, LoadAccount, Claimed, Busy, RetryLater, RefreshFails, QueryEnds, Finish, Resend,
        ResendFull, sets
    <3> QED
      BY <3>1 DEF Covered
  <2> QED
    BY <2>1, <2>2, <2>3
<1>7. ASSUME a \in followup PROVE Covered(a)'
  <2>1. CASE Finish
    <3>1. a = worker.account
      BY <1>7, <2>1 DEF Finish, JobInv, RunningIsWorkers, WorkerRuns
    <3> QED
      BY <1>7, <2>1, <3>1 DEF Finish, Covered
  <2>2. CASE ~Finish
    <3>1. a \in followup'
      BY <1>1, <1>7, <2>2 DEF Work, Receive, Begin, LoadAccount, Claimed, Busy, RetryLater, RefreshFails, QueryEnds, Resend,
        ResendFull, WithdrawResend, sets
    <3> QED
      BY <3>1 DEF Covered
  <2> QED
    BY <2>1, <2>2
<1>8. ASSUME worker.account = a, worker.pc \in {"begun", "loaded", "busy"} PROVE Covered(a)'
  <2>1. CASE RetryLater
    BY <1>8, <2>1 DEF RetryLater, JobInv, RunningIsWorkers, WorkerRuns, Covered
  <2>2. ~RefreshFails /\ ~Claimed
    BY <1>2, <1>8 DEF RefreshFails, Claimed
  <2>3. CASE LoadAccount \/ Busy
    BY <1>1, <1>8, <2>3 DEF LoadAccount, Busy, WorkerGoes, WorkerState, Covered
  <2> QED
    BY <1>1, <1>8, <2>1, <2>2, <2>3 DEF Work, Receive, Begin, QueryEnds, Finish, Resend, ResendFull, WithdrawResend
<1> QED
  BY <1>4, <1>5, <1>6, <1>7, <1>8 DEF Covered

\* A trigger is covered until a refresh claims the row after it: no order of triggers, jobs
\* and follow-ups loses one that a full queue or a failed refresh did not give up
\* (enqueueAccountCreditsRefresh and finishCreditRefreshJob).
THEOREM TriggersAreKept == Spec => []NoTriggerLost
<1>1. Init => NoTriggerLost
  BY DEF Init, NoTriggerLost
<1>2. ASSUME Typed, JobInv, NoTriggerLost, [Next]_vars PROVE NoTriggerLost'
  <2>1. SUFFICES ASSUME phase' = "on", NEW a \in due' \ dropped' PROVE Covered(a)'
    BY DEF NoTriggerLost, Covered
  <2>2. phase = "on" /\ ~Stop /\ ~Cancel
    BY <1>2, <2>1 DEF Next, Enqueue, Work, Stop, Cancel, vars, Trigger, TriggerIgnored, AskFollowup, Coalesce, Reserve, Send, Full,
      Withdraw, Receive, Begin, LoadAccount, Claimed, Busy, RetryLater, RefreshFails, QueryEnds, Finish, Resend, ResendFull,
      WithdrawResend, Exit
  <2>3. ASSUME NEW c \in Caller, NEW b \in Account, Trigger(c, b) PROVE Covered(a)'
    <3>1. CASE a = b
      BY <1>2, <2>3, <3>1 DEF Trigger, Covered, Typed, TypeOK
    <3>2. CASE a # b
      <4>1. Covered(a)
        BY <1>2, <2>1, <2>2, <2>3, <3>2 DEF Trigger, NoTriggerLost, Covered
      <4>2. \A d \in Caller : caller[d].pc # "idle" => caller'[d] = caller[d]
        BY <1>2, <2>3 DEF Trigger, Typed, TypeOK
      <4> QED
        BY <2>3, <4>1, <4>2 DEF Trigger, Covered, sets
    <3> QED
      BY <3>1, <3>2
  <2>4. CASE UNCHANGED vars
    BY <1>2, <2>1, <2>4 DEF vars, sets, NoTriggerLost, Covered
  <2> QED
    BY <1>2, <2>1, <2>2, <2>3, <2>4, CallerCovers, WorkCovers DEF Next
<1> QED
  BY <1>1, <1>2, TypedAlways, JobsAlways, PTL DEF Spec

=============================================================================
