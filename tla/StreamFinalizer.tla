--------------------------- MODULE StreamFinalizer ---------------------------
(***************************************************************************)
(* The body of ONE upstream response on its way to the client, and what is *)
(* recorded about the account on that way: for a stream the verdict on it, *)
(* which depends on a terminal event that the reads cut anywhere; for any  *)
(* body its end as the boundary of an operation.                           *)
(*                                                                         *)
(* A body is read and closed by one consumer; only the cancellation of the *)
(* request is concurrent, and the handlers look at it in one place.  Bytes *)
(* are members of a small alphabet.                                        *)
(***************************************************************************)
EXTENDS Naturals, Sequences

CONSTANTS
    Byte,      \* what a body consists of
    Newline,   \* the byte that ends a line
    Markers,   \* the terminal events of the protocol, as sequences of bytes
    Window,    \* terminalMarkerWindow
    MaxLength  \* bound: the length of a body

ASSUME StreamConstants ==
    /\ Newline \in Byte
    /\ \A marker \in Markers :
         marker \in Seq(Byte) /\ Len(marker) \in 1 .. Window
         /\ \A i \in DOMAIN marker : marker[i] # Newline
    /\ Window \in Nat /\ MaxLength \in Nat

VARIABLES
    body,      \* the fields of the wrapped body
    text,      \* what the consumer has read
    ended,     \* a read has returned an error
    cancelled, \* the client has gone
    effects    \* history: what was recorded about the account, in order

vars == <<body, text, ended, cancelled, effects>>

\* "lines" is the body of a stream whose events begin a line, "anywhere" one of the
\* Gemini protocol; "plain" is the body of a request that did not ask for a stream.
Kind == {"lines", "anywhere", "plain"}

Effect == {"usage", "remember", "complete", "enqueue", "healthy", "failure"}

Body == [kind: Kind, operation: BOOLEAN, tail: Seq(Byte),
         finalized: BOOLEAN, closed: BOOLEAN, refreshed: BOOLEAN]

TypeOK ==
    /\ body \in Body /\ Len(body.tail) <= Window
    /\ text \in Seq(Byte)
    /\ ended \in BOOLEAN
    /\ cancelled \in BOOLEAN
    /\ effects \in Seq(Effect)

-----------------------------------------------------------------------------
(* The search for a terminal event.                                        *)

At(data, i, marker) == SubSeq(data, i, i + Len(marker) - 1) = marker

Starts(data, marker) == 1 .. Len(data) - Len(marker) + 1

\* containsSSELinePrefix: what begins the data passes for the beginning of a line.
BeginsLine(data, marker) ==
    \E i \in Starts(data, marker) :
        At(data, i, marker) /\ (i = 1 \/ data[i - 1] = Newline)

\* bytes.Contains
Contains(data, marker) == \E i \in Starts(data, marker) : At(data, i, marker)

\* streamTerminalSeen
TerminalSeen(kind, data) ==
    \E marker \in Markers :
        CASE kind = "lines" -> BeginsLine(data, marker)
          [] kind = "anywhere" -> Contains(data, marker)
          [] OTHER -> FALSE

\* Mutant of Kept: the search goes on with all that was read.
KeptForever(combined, data) == combined

\* Mutant of Kept: the search goes on with the last read.
KeptOfRead(combined, data) ==
    IF Len(data) > Window THEN SubSeq(data, Len(data) - Window + 1, Len(data)) ELSE data

\* The tail that is searched again with the next read.
Kept(combined, data) ==
    IF Len(combined) > Window
    THEN SubSeq(combined, Len(combined) - Window + 1, Len(combined)) ELSE combined

-----------------------------------------------------------------------------
(* What is recorded.                                                       *)

IfOperation(effect) == IF body.operation THEN <<effect>> ELSE <<>>

\* queueRefresh, once: the end of the operation, and a balance query.
Refresh == IF body.refreshed THEN <<>> ELSE IfOperation("complete") \o <<"enqueue">>

\* The response headers are in: finalizeStreamingAccount, or
\* UpdateAccountCreditsFromResponse and MarkAccountHealthy.
Init ==
    /\ \E kind \in Kind, operation \in BOOLEAN :
         /\ body = [kind |-> kind, operation |-> operation, tail |-> <<>>,
                    finalized |-> FALSE, closed |-> FALSE, refreshed |-> FALSE]
         /\ effects =
              LET remember == IF operation THEN <<"remember">> ELSE <<>> IN
                IF kind = "plain" THEN <<"usage">> \o remember \o <<"healthy">> ELSE remember
    /\ text = <<>>
    /\ ended = FALSE
    /\ cancelled = FALSE

Chunk == UNION {[1 .. n -> Byte] : n \in 0 .. MaxLength - Len(text)}

\* Mutant of Blames: a client that goes away counts as a truncated stream.
BlamesAlways(error) == error # "none"

\* The stream has ended for a reason that is the upstream's.
Blames(error) == error # "none" /\ ~body.closed /\ ~cancelled

\* accountFinalizingBody.Read: a read may return data and an error at once; one that
\* sees the terminal event does not blame the account for the error.
ReadStream(data, error) ==
    LET searched == data # <<>> /\ ~body.finalized
        combined == body.tail \o data
        seen == searched /\ TerminalSeen(body.kind, combined)
        failed == Blames(error) /\ ~body.finalized /\ ~seen IN
      /\ body.kind # "plain"
      /\ body' = [body EXCEPT !.tail = IF searched THEN Kept(combined, data) ELSE @,
                              !.finalized = @ \/ seen \/ failed,
                              !.refreshed = @ \/ seen \/ failed]
      /\ effects' = effects \o
                    (IF seen THEN <<"usage">> \o Refresh \o <<"healthy">>
                     ELSE IF failed THEN Refresh \o <<"failure">> ELSE <<>>)

\* accountCreditsRefreshBody.Read
ReadPlain(error) ==
    /\ body.kind = "plain"
    /\ IF error = "eof"
       THEN body' = [body EXCEPT !.refreshed = TRUE] /\ effects' = effects \o Refresh
       ELSE UNCHANGED <<body, effects>>

Read ==
    /\ ~ended /\ ~body.closed
    /\ \E data \in Chunk, error \in {"none", "eof", "broken"} :
         /\ data # <<>> \/ error # "none"
         /\ text' = text \o data
         /\ ended' = (error # "none")
         /\ ReadStream(data, error) \/ ReadPlain(error)
    /\ UNCHANGED cancelled

\* The consumer closes the body when it has ended, when the client cannot be written
\* to, or when a converter has found what ends its stream.
Close ==
    /\ ~body.closed
    /\ body' = [body EXCEPT !.closed = TRUE, !.refreshed = TRUE]
    /\ effects' = effects \o Refresh
    /\ UNCHANGED <<text, ended, cancelled>>

Cancel ==
    /\ ~cancelled /\ ~body.closed
    /\ cancelled' = TRUE
    /\ UNCHANGED <<body, text, ended, effects>>

Next == Read \/ Close \/ Cancel

Spec == Init /\ [][Next]_vars

-----------------------------------------------------------------------------
(* What must hold.                                                         *)

Recorded(effect) == \E i \in DOMAIN effects : effects[i] = effect

\* A stream whose terminal event has been read is a success of the account, and its
\* usage counts, wherever the reads have cut the event and whatever follows it: a
\* connection that breaks behind it, a client that goes away.
TerminalNotMissed ==
    body.kind # "plain" /\ TerminalSeen(body.kind, text)
        => Recorded("healthy") /\ Recorded("usage") /\ ~Recorded("failure")

\* An account is blamed only for a stream that ended while its client was waiting for
\* it, and before a terminal event; only a stream that holds one is a success.
VerdictJustified ==
    /\ [][Recorded("failure")' /\ ~Recorded("failure") =>
            ended' /\ ~cancelled /\ ~body.closed /\ ~TerminalSeen(body.kind, text')]_vars
    /\ [][body.kind # "plain" /\ Recorded("healthy")' =>
            \E marker \in Markers : Contains(text', marker)]_vars

\* A terminal event is never missed; one request is one operation, one use and one
\* verdict, in the order that the balance depends on: the end of the operation is recorded
\* before the query that is to see it, neither happens twice, and both have happened when
\* the body is closed.
AccountedOnce ==
    LET remember == IfOperation("remember")
        refresh == IfOperation("complete") \o <<"enqueue">>
        first == IF body.kind = "plain" THEN <<"usage">> \o remember \o <<"healthy">>
                 ELSE remember
    IN  /\ TerminalNotMissed
        /\ \/ effects = first /\ ~body.closed
           \/ effects = first \o refresh
           \/ body.kind # "plain" /\ effects = first \o <<"usage">> \o refresh \o <<"healthy">>
           \/ body.kind # "plain" /\ effects = first \o refresh \o <<"failure">>

=============================================================================
