------------------------------- MODULE MCWaits -------------------------------
(* The two places where goroutines wait for each other, each on its own: the *)
(* refresh queue, and the lock and the lease of a token refresh, here with   *)
(* both callers in one instance.                                             *)
EXTENDS CreditQueue, TLC

CONSTANTS host, NoLease, DeadLease, MaxGrant, MaxInterruptions

VARIABLES machine, row, refresher, accepted, issued, parent, troubled, replayed, interruptions

Refreshes == INSTANCE OAuthRefresh WITH
    caller <- refresher, Instance <- {host}, HostOf <- [c \in Caller |-> host]

refreshVars == <<row, refresher, accepted, issued, parent, troubled, replayed, interruptions>>
eachVars == <<machine, vars, refreshVars>>

\* The machine that does not move stays where it begins, where nothing is to be done.
EachInit == machine \in {"queue", "refresh"} /\ Init /\ Refreshes!Init

EachNext ==
    \/ machine = "queue" /\ Next /\ UNCHANGED <<machine, refreshVars>>
    \/ machine = "refresh" /\ Refreshes!Next /\ UNCHANGED <<machine, vars>>

\* The fairness of CreditQueue!FairSpec and of OAuthRefresh!FairSpec; what it names can
\* only be enabled in the machine that moves.
EachSpec ==
    /\ EachInit /\ [][EachNext]_eachVars
    /\ WF_vars(machine = "queue" /\ Work)
    /\ \A c \in Caller : WF_vars(machine = "queue" /\ Enqueue(c))
    /\ WF_vars(machine = "queue" /\ Cancel)
    /\ \A c \in Caller : /\ WF_refreshVars(machine = "refresh" /\ Refreshes!Step(c))
                         /\ SF_refreshVars(machine = "refresh" /\ Refreshes!Lock(c))
    /\ WF_refreshVars(machine = "refresh" /\ Refreshes!DeadLeaseExpires)

\* Whoever waits for the lock or the lease of a token refresh comes to an end (token.go).
EveryCallerEnds == Refreshes!EveryCallerEnds

=============================================================================
