------------------------------- MODULE Snapshot -------------------------------
(* What the balance of an account promises to whoever reads the row, without  *)
(* leases, query revisions and the order of the answers: a balance is ready    *)
(* only as of the last operation boundary, its billing period moves forward,   *)
(* and the operation endpoint does not displace the tokens endpoint.           *)
EXTENDS Naturals

VARIABLES
    balance,    \* the last balance that was accepted
    ready,      \* it is shown as current
    asOf,       \* how many boundaries the upstream had seen when it produced it
    boundaries, \* how many operation boundaries and replacements there have been
    credential, \* the credential revision of the account
    today       \* billing periods up to this one have ended

vars == <<balance, ready, asOf, boundaries, credential, today>>

NoBalance == [available |-> FALSE, source |-> "none", period |-> 0, consumed |-> 0, credential |-> 0]

Init ==
    /\ balance = NoBalance /\ ready = FALSE
    /\ asOf = 0 /\ boundaries = 0 /\ credential = 1 /\ today = 0

\* Within a period that has not ended the total consumed only grows.
NotBefore(old, new) ==
    old.available /\ old.period > today =>
        \/ new.period > old.period
        \/ new.period = old.period /\ new.consumed >= old.consumed

\* A balance is accepted: produced after the last boundary, for today's credential.
Accept ==
    /\ ready' = TRUE /\ asOf' = boundaries
    /\ balance'.available /\ balance'.credential = credential
    /\ \/ balance'.source = "tokens" /\ NotBefore(balance, balance')
       \/ balance'.source = "operation" /\ balance.source # "tokens" /\ balance'.period = 0
    /\ UNCHANGED <<boundaries, credential, today>>

\* A query begins or fails.
Doubt ==
    /\ ready' = FALSE
    /\ UNCHANGED <<balance, asOf, boundaries, credential, today>>

\* A request begins or ends.
Cross ==
    /\ ready' = FALSE /\ boundaries' = boundaries + 1
    /\ UNCHANGED <<balance, asOf, credential, today>>

\* The tokens of the account are renewed, or it gets another credential.
Renew ==
    /\ credential' = credential + 1
    /\ UNCHANGED <<balance, ready, asOf, boundaries, today>>
Replace ==
    /\ credential' = credential + 1 /\ boundaries' = boundaries + 1
    /\ balance' = NoBalance /\ ready' = FALSE
    /\ UNCHANGED <<asOf, today>>

PeriodEnds ==
    /\ today' = today + 1
    /\ UNCHANGED <<balance, ready, asOf, boundaries, credential>>

Next == Accept \/ Doubt \/ Cross \/ Renew \/ Replace \/ PeriodEnds

Spec == Init /\ [][Next]_vars

=============================================================================
