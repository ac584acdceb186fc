-------------------------------- MODULE Relay --------------------------------
(* What a converter promises to its client: at any time the client has the   *)
(* beginning of the words and thoughts that the upstream has sent, and it is *)
(* told of a whole answer only when the upstream has given one and the client *)
(* has all of it, the calls, their arguments and the reason of its end.      *)
EXTENDS Sequences, SequencesExt

CONSTANTS Candidates, Nothing

VARIABLES
    sent,    \* the answer of the upstream so far, by candidate
    whole,   \* it is complete
    shown,   \* what the client has of it
    outcome  \* "open", and then what the client takes its answer for

vars == <<sent, whole, shown, outcome>>

\* Texts grow and are not changed.
Begins(a, b) ==
    \A c \in Candidates : IsPrefix(a[c].words, b[c].words) /\ IsPrefix(a[c].thoughts, b[c].thoughts)

Init ==
    /\ sent = [c \in Candidates |-> Nothing] /\ whole = FALSE
    /\ shown = [c \in Candidates |-> Nothing] /\ outcome = "open"

Upstream ==
    /\ UNCHANGED <<shown, outcome>>
    /\ Begins(sent, sent')

Show ==
    /\ outcome = "open"
    /\ Begins(shown, shown') /\ Begins(shown', sent)
    /\ \/ outcome' = "open"
       \/ outcome' = "failed"
       \/ outcome' = "whole" /\ whole /\ shown' = sent
    /\ UNCHANGED <<sent, whole>>

Next == Upstream \/ Show

Spec == Init /\ [][Next]_vars

=============================================================================
