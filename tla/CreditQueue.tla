----------------------------- MODULE CreditQueue -----------------------------
(***************************************************************************)
(* The queue of background balance refreshes: request completions trigger  *)
(* a refresh of their account, one worker serves them.  Three sets under   *)
(* one mutex coalesce the triggers of an account; the non-blocking send to *)
(* the bounded channel is outside the mutex.  A refresh is abstracted to   *)
(* what CreditRefresh makes of it: it claims the account row, finds it     *)
(* busy, or fails before it claims.                                        *)
(***************************************************************************)
EXTENDS Naturals, Sequences

CONSTANTS
    Account,   \* accounts
    Caller,    \* goroutines that end a request body or a streaming account
    Idle,      \* no account
    Capacity,  \* creditRefreshQueueSize
    Contention \* bound: how often another refresh or boundary beats a claim

ASSUME QueueConstants ==
    /\ Idle \notin Account
    /\ Capacity \in Nat \ {0}
    /\ Contention \in Nat

VARIABLES
    queue,     \* the channel
    pending,   \* creditRefreshPending: accounts with a job on its way to the worker
    running,   \* creditRefreshRunning
    followup,  \* creditRefreshFollowup: to be refreshed again after this job
    caller,    \* what each caller is doing, and for which account
    worker,    \* the same for the worker
    phase,     \* "on", "stopped" once the globals are cleared, then "cancelled"
    contention,
    due,       \* history: accounts triggered since the last claim of a refresh
    dropped    \* history: due accounts whose job a full queue or an error ended

vars == <<queue, pending, running, followup, caller, worker, phase, contention, due, dropped>>
sets == <<pending, running, followup>>

CallerState == [pc: {"idle", "entering", "sending", "full"}, account: Account \union {Idle}]
WorkerState ==
    [pc: {"idle", "received", "begun", "loaded", "busy", "asking", "finishing",
          "resending", "unsent", "exited"},
     account: Account \union {Idle}]

TypeOK ==
    /\ queue \in Seq(Account) /\ Len(queue) <= Capacity
    /\ pending \subseteq Account
    /\ running \subseteq Account
    /\ followup \subseteq Account
    /\ caller \in [Caller -> CallerState]
    /\ worker \in WorkerState
    /\ phase \in {"on", "stopped", "cancelled"}
    /\ contention \in 0 .. Contention
    /\ due \subseteq Account
    /\ dropped \subseteq Account

Resting == [pc |-> "idle", account |-> Idle]

\* StartUsageCreditsWorker has run.
Init ==
    /\ queue = <<>>
    /\ pending = {} /\ running = {} /\ followup = {}
    /\ caller = [c \in Caller |-> Resting]
    /\ worker = Resting
    /\ phase = "on"
    /\ contention = Contention
    /\ due = {} /\ dropped = {}

-----------------------------------------------------------------------------
(* enqueueAccountCreditsRefresh.                                           *)

\* A request of account a ends; its caller is about to enqueue a refresh.
Trigger(c, a) ==
    /\ caller[c].pc = "idle"
    /\ caller' = [caller EXCEPT ![c] = [pc |-> "entering", account |-> a]]
    /\ due' = due \union {a}
    /\ dropped' = dropped \ {a}
    /\ UNCHANGED <<queue, sets, worker, phase, contention>>

\* The worker is not running: nothing to do.
TriggerIgnored(c) ==
    /\ caller[c].pc = "entering" /\ phase # "on"
    /\ caller' = [caller EXCEPT ![c] = Resting]
    /\ UNCHANGED <<queue, sets, worker, phase, contention, due, dropped>>

\* Mutant of AskFollowup: a running refresh is taken to cover the trigger.
AskNothing(c) ==
    /\ caller[c].pc = "entering" /\ phase = "on"
    /\ caller[c].account \in running
    /\ caller' = [caller EXCEPT ![c] = Resting]
    /\ UNCHANGED <<queue, sets, worker, phase, contention, due, dropped>>

\* The account is being refreshed: one follow-up job.
AskFollowup(c) ==
    /\ caller[c].pc = "entering" /\ phase = "on"
    /\ caller[c].account \in running
    /\ followup' = followup \union {caller[c].account}
    /\ caller' = [caller EXCEPT ![c] = Resting]
    /\ UNCHANGED <<queue, pending, running, worker, phase, contention, due, dropped>>

\* A job of the account is on its way already.
Coalesce(c) ==
    /\ caller[c].pc = "entering" /\ phase = "on"
    /\ caller[c].account \in pending \ running
    /\ caller' = [caller EXCEPT ![c] = Resting]
    /\ UNCHANGED <<queue, sets, worker, phase, contention, due, dropped>>

\* The caller becomes the one that sends the account's job.
Reserve(c) ==
    /\ caller[c].pc = "entering" /\ phase = "on"
    /\ caller[c].account \notin pending \union running
    /\ pending' = pending \union {caller[c].account}
    /\ caller' = [caller EXCEPT ![c].pc = "sending"]
    /\ UNCHANGED <<queue, running, followup, worker, phase, contention, due, dropped>>

\* Mutant of Send: an unbounded queue.
SendUnbounded(c) ==
    /\ caller[c].pc = "sending"
    /\ queue' = Append(queue, caller[c].account)
    /\ caller' = [caller EXCEPT ![c] = Resting]
    /\ UNCHANGED <<sets, worker, phase, contention, due, dropped>>

Send(c) ==
    /\ caller[c].pc = "sending" /\ Len(queue) < Capacity
    /\ queue' = Append(queue, caller[c].account)
    /\ caller' = [caller EXCEPT ![c] = Resting]
    /\ UNCHANGED <<sets, worker, phase, contention, due, dropped>>

\* The channel is full: the select takes its default branch.
Full(c) ==
    /\ caller[c].pc = "sending" /\ Len(queue) = Capacity
    /\ caller' = [caller EXCEPT ![c].pc = "full"]
    /\ UNCHANGED <<queue, sets, worker, phase, contention, due, dropped>>

Withdraw(c) ==
    /\ caller[c].pc = "full"
    /\ pending' = pending \ {caller[c].account}
    /\ dropped' = dropped \union ({caller[c].account} \intersect due)
    /\ caller' = [caller EXCEPT ![c] = Resting]
    /\ UNCHANGED <<queue, running, followup, worker, phase, contention, due>>

-----------------------------------------------------------------------------
(* runUsageCreditsWorker.                                                  *)

WorkerGoes(label) == worker' = [worker EXCEPT !.pc = label]

Receive ==
    /\ worker.pc = "idle" /\ queue # <<>>
    /\ worker' = [pc |-> "received", account |-> Head(queue)]
    /\ queue' = Tail(queue)
    /\ UNCHANGED <<sets, caller, phase, contention, due, dropped>>

\* beginCreditRefreshJob
Begin ==
    /\ worker.pc = "received"
    /\ pending' = pending \ {worker.account}
    /\ running' = running \union {worker.account}
    /\ WorkerGoes("begun")
    /\ UNCHANGED <<queue, followup, caller, phase, contention, due, dropped>>

LoadAccount ==
    /\ worker.pc = "begun"
    /\ WorkerGoes("loaded")
    /\ UNCHANGED <<queue, sets, caller, phase, contention, due, dropped>>

\* The refresh claims the row: a balance is queried from here on.
Claimed ==
    /\ worker.pc = "loaded"
    /\ due' = due \ {worker.account}
    /\ dropped' = dropped \ {worker.account}
    /\ WorkerGoes("asking")
    /\ UNCHANGED <<queue, sets, caller, phase, contention>>

\* errCreditRefreshBusy: another refresh holds the lease, or a boundary moved
\* the query revision between the load and the claim.
Busy ==
    /\ worker.pc = "loaded" /\ contention > 0
    /\ contention' = contention - 1
    /\ WorkerGoes("busy")
    /\ UNCHANGED <<queue, sets, caller, phase, due, dropped>>

\* Mutant of RetryLater: a busy refresh is taken for a finished one.
RetryNever ==
    /\ worker.pc = "busy"
    /\ WorkerGoes("finishing")
    /\ UNCHANGED <<queue, sets, caller, phase, contention, due, dropped>>

\* The worker enqueues the account that it is running, and waits a moment.
RetryLater ==
    /\ worker.pc = "busy"
    /\ followup' = IF phase = "on" /\ worker.account \in running
                   THEN followup \union {worker.account} ELSE followup
    /\ WorkerGoes("finishing")
    /\ UNCHANGED <<queue, pending, running, caller, phase, contention, due, dropped>>

\* The account cannot be loaded or its request not authenticated.
RefreshFails ==
    /\ worker.pc \in {"begun", "loaded"}
    /\ dropped' = dropped \union ({worker.account} \intersect due)
    /\ WorkerGoes("finishing")
    /\ UNCHANGED <<queue, sets, caller, phase, contention, due>>

\* The query ends, with any outcome.
QueryEnds ==
    /\ worker.pc = "asking"
    /\ WorkerGoes("finishing")
    /\ UNCHANGED <<queue, sets, caller, phase, contention, due, dropped>>

\* Mutant of Finish: the follow-up is not cleared when it is turned into a job.
FinishKeepingFollowup ==
    /\ worker.pc = "finishing"
    /\ running' = running \ {worker.account}
    /\ LET again == worker.account \in followup /\ phase = "on" IN
         /\ pending' = IF again THEN pending \union {worker.account} ELSE pending
         /\ worker' = IF again THEN [worker EXCEPT !.pc = "resending"] ELSE Resting
    /\ UNCHANGED <<queue, followup, caller, phase, contention, due, dropped>>

\* finishCreditRefreshJob, under the mutex.
Finish ==
    /\ worker.pc = "finishing"
    /\ running' = running \ {worker.account}
    /\ followup' = followup \ {worker.account}
    /\ LET again == worker.account \in followup /\ phase = "on" IN
         /\ pending' = IF again THEN pending \union {worker.account} ELSE pending
         /\ worker' = IF again THEN [worker EXCEPT !.pc = "resending"] ELSE Resting
    /\ UNCHANGED <<queue, caller, phase, contention, due, dropped>>

Resend ==
    /\ worker.pc = "resending" /\ Len(queue) < Capacity
    /\ queue' = Append(queue, worker.account)
    /\ worker' = Resting
    /\ UNCHANGED <<sets, caller, phase, contention, due, dropped>>

ResendFull ==
    /\ worker.pc = "resending" /\ Len(queue) = Capacity
    /\ WorkerGoes("unsent")
    /\ UNCHANGED <<queue, sets, caller, phase, contention, due, dropped>>

WithdrawResend ==
    /\ worker.pc = "unsent"
    /\ pending' = IF phase = "on" THEN pending \ {worker.account} ELSE pending
    /\ dropped' = dropped \union ({worker.account} \intersect due)
    /\ worker' = Resting
    /\ UNCHANGED <<queue, running, followup, caller, phase, contention, due>>

\* The worker sees the cancelled context, in its select or after a receive.
Exit ==
    /\ worker.pc \in {"idle", "received"} /\ phase = "cancelled"
    /\ worker' = [pc |-> "exited", account |-> Idle]
    /\ UNCHANGED <<queue, sets, caller, phase, contention, due, dropped>>

\* stopUsageCreditsWorker clears the globals under the mutex, ...
Stop ==
    /\ phase = "on"
    /\ phase' = "stopped"
    /\ pending' = {} /\ running' = {} /\ followup' = {}
    /\ UNCHANGED <<queue, caller, worker, contention, due, dropped>>

\* ... then it cancels the context.
Cancel ==
    /\ phase = "stopped"
    /\ phase' = "cancelled"
    /\ UNCHANGED <<queue, sets, caller, worker, contention, due, dropped>>

Enqueue(c) ==
    \/ TriggerIgnored(c) \/ AskFollowup(c) \/ Coalesce(c) \/ Reserve(c)
    \/ Send(c) \/ Full(c) \/ Withdraw(c)

Work ==
    \/ Receive \/ Begin \/ LoadAccount \/ Claimed \/ Busy \/ RetryLater
    \/ RefreshFails \/ QueryEnds \/ Finish \/ Resend \/ ResendFull
    \/ WithdrawResend \/ Exit

Next ==
    \/ \E c \in Caller : Enqueue(c) \/ \E a \in Account : Trigger(c, a)
    \/ Work
    \/ Stop \/ Cancel

Spec == Init /\ [][Next]_vars

\* Goroutines that can run do run; nothing forces a request to end or the
\* service to stop.
FairSpec ==
    /\ Spec
    /\ WF_vars(Work)
    /\ \A c \in Caller : WF_vars(Enqueue(c))
    /\ WF_vars(Cancel)

-----------------------------------------------------------------------------
(* What must hold.                                                         *)

\* Who carries a job of account a to the worker.
Carriers(a) ==
    [queued  : {i \in DOMAIN queue : queue[i] = a}] \union
    [sending : {c \in Caller : caller[c].pc \in {"sending", "full"} /\ caller[c].account = a}] \union
    [worker  : {x \in {worker.pc} : x \in {"received", "resending", "unsent"}
                                    /\ worker.account = a}]

\* While the worker is on, the marks are those of jobs in progress. An account is marked
\* pending exactly when one job of it is on its way: a mark without a job would swallow
\* every later trigger of the account, a second job would refresh it twice. No follow-up
\* waits for a job that has ended, and no account is left running.
MarksMatchJobs ==
    phase = "on" =>
        /\ \A a \in Account :
             IF a \in pending THEN \E x \in Carriers(a) : Carriers(a) = {x}
             ELSE Carriers(a) = {}
        /\ followup \subseteq running
        /\ running = IF worker.pc \in {"begun", "loaded", "busy", "asking", "finishing"}
                     THEN {worker.account} ELSE {}

\* A trigger is covered until a refresh claims the row after it: by a job on its
\* way, by the follow-up of a running one, or by one that has not claimed yet.
\* Only a full queue and a failed refresh give it up.
NoTriggerLost ==
    phase = "on" =>
        \A a \in due \ dropped :
            \/ a \in pending \union followup
            \/ \E c \in Caller : caller[c] = [pc |-> "entering", account |-> a]
            \/ worker.account = a /\ worker.pc \in {"begun", "loaded", "busy"}

\* A refresh that nothing beats for good claims every triggered account, unless
\* its job is given up or the worker stops.
EveryTriggerServed ==
    \A a \in Account :
        a \in due \ dropped ~> a \notin due \/ a \in dropped \/ phase # "on"

=============================================================================
