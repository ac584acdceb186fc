------------------------------- MODULE MCJobs -------------------------------
(* What several instances do to one database, each on its own: the daily job, *)
(* the scan for due balances, a login, and the start.                        *)
EXTENDS DailyUsage, TLC

CONSTANTS Callback, Nobody, Balances, OldHolder, Interval, Lease, Duration, Horizon

\* A claim, a lease or a transaction that nobody has is told from one that somebody has.
ASSUME JobsConstants ==
    /\ Nobody \notin Callback \union Instance
    /\ NoHolder \notin Instance /\ OldHolder \notin Instance
    /\ Interval \in Nat \ {0} /\ Lease \in Nat \ {0}
    /\ Horizon \in Nat \ {0}

VARIABLES machine, session, tokens, callback, now, scanLease, attempt, outdated, scan, db, writer, copy, start

Logins == INSTANCE OAuthSession WITH account <- tokens
Scans == INSTANCE CreditScan WITH Account <- Balances, Punctual <- FALSE, lease <- scanLease
Starts == INSTANCE Migration WITH instance <- start

loginVars == <<session, tokens, callback>>
scanVars == <<now, scanLease, attempt, outdated, scan>>
startVars == <<db, writer, copy, start>>
eachVars == <<machine, vars, loginVars, scanVars, startVars>>

\* Requests, and instances, may be exchanged.
Symmetry == Permutations(Request) \union Permutations(Instance)

\* The machines that do not move stay where they begin.
EachInit ==
    /\ machine \in {"job", "login", "scan", "start"}
    /\ Init /\ Logins!Init /\ Scans!Init /\ Starts!Init
    /\ machine # "start" => db.version = Starts!Latest

EachNext ==
    /\ UNCHANGED machine
    /\ \/ machine = "job" /\ Next /\ UNCHANGED <<loginVars, scanVars, startVars>>
       \/ machine = "login" /\ Logins!Next /\ UNCHANGED <<vars, scanVars, startVars>>
       \/ machine = "scan" /\ Scans!Next /\ UNCHANGED <<vars, loginVars, startVars>>
       \/ machine = "start" /\ Starts!Next /\ UNCHANGED <<vars, loginVars, scanVars>>

EachSpec == EachInit /\ [][EachNext]_eachVars

\* The variables of the machine that moves have their types.
EachTypeOK ==
    CASE machine = "job" -> TypeOK
      [] machine = "login" -> Logins!TypeOK
      [] machine = "scan" -> Scans!TypeOK
      [] machine = "start" -> Starts!TypeOK

\* A login gives tokens once, to the callback that says so, and a failed callback leaves no
\* claim behind (CompleteZencoderLogin).
OneLogin == machine = "login" => Logins!OneLogin

\* One scan at a time has a lease that has not run out (refreshDueUsageCredits).
OneScan == machine = "scan" => Scans!OneScan

\* No instance serves on a schema half way (runSchemaMigrations).
SchemaWhole == machine = "start" => Starts!SchemaWhole

=============================================================================
