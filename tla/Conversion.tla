------------------------------ MODULE Conversion ------------------------------
(***************************************************************************)
(* A streamed answer on its way through the converters: the upstream, one  *)
(* or two converters and the client. Where there are two, the first one is *)
(* a goroutine that writes into a pipe, and the second one is the handler. *)
(* The client may leave; then, or when the handler returns, the context of *)
(* the upstream request is cancelled.                                      *)
(***************************************************************************)
EXTENDS Upstream

CONSTANTS
    Selected(_) \* the paths that are looked at

VARIABLES
    route,   \* the converters on the path, and the style of the upstream
    upstream, \* what the upstream has sent
    input,   \* what of it waits for the goroutine
    first,   \* the local variables of the goroutine
    mid,     \* what waits for the handler
    last,    \* the local variables of the handler
    client,  \* what the client has read
    gone     \* the client has left

vars == <<route, upstream, input, first, mid, last, client, gone>>

Route(from, via, by, to, style) == [from |-> from, via |-> via, by |-> by, to |-> to, style |-> style]

\* The paths of the proxies: responsesViaAnthropic, the Messages proxy, the Gemini proxy
\* and the Chat proxy, each with the protocol of the model that was asked for.
AllRoutes ==
    {Route("responses", "none", "RC", "chat", "fragments"),
     Route("anthropic", "none", "AC", "chat", "fragments"),
     Route("anthropic", "none", "AF", "anthropic", "fragments"),
     Route("anthropic", "AC", "CR", "responses", "fragments"),
     Route("chat", "none", "CA", "anthropic", "fragments"),
     Route("chat", "none", "CA", "anthropic", "cumulative"),
     Route("responses", "RC", "CA", "anthropic", "fragments"),
     Route("chat", "none", "CG", "gemini", "fragments"),
     Route("anthropic", "AC", "CG", "gemini", "fragments"),
     Route("responses", "RC", "CG", "gemini", "fragments")}
    \union {Route("gemini", "none", by, to, style) :
              <<by, to>> \in {<<"GC", "chat">>, <<"GR", "responses">>, <<"GA", "anthropic">>},
              style \in {"ids", "names", "same"}}
    \union {Route("gemini", "none", "GC", "chat", "choices")}

LastDone == last.pc = "done"
FirstDone == first.pc = "done"

\* A pipe, and a client that reads what is written to it.
Queued(queue, events) == queue \o events
ReadAll(reader, events) == FoldLeft(LAMBDA r, e : Read(r, "fragments", e), reader, events)

FirstRC == INSTANCE ResponsesToChat WITH source <- input, state <- first, sink <- mid, closed <- LastDone, Written <- Queued
FirstAC == INSTANCE AnthropicToChat WITH source <- input, state <- first, sink <- mid, closed <- LastDone, Written <- Queued
LastRC == INSTANCE ResponsesToChat WITH source <- mid, state <- last, sink <- client, closed <- gone, Written <- ReadAll
LastAC == INSTANCE AnthropicToChat WITH source <- mid, state <- last, sink <- client, closed <- gone, Written <- ReadAll
LastAF == INSTANCE AnthropicFilter WITH source <- mid, state <- last, sink <- client, closed <- gone, Written <- ReadAll
LastCA == INSTANCE ChatToAnthropic WITH source <- mid, state <- last, sink <- client, closed <- gone, Written <- ReadAll
LastCR == INSTANCE ChatToResponses WITH source <- mid, state <- last, sink <- client, closed <- gone, Written <- ReadAll
LastCG == INSTANCE ChatToGemini WITH source <- mid, state <- last, sink <- client, closed <- gone, Written <- ReadAll
LastGC == INSTANCE GeminiToChat WITH source <- mid, state <- last, sink <- client, closed <- gone, Written <- ReadAll
LastGR == INSTANCE GeminiToResponses WITH source <- mid, state <- last, sink <- client, closed <- gone, Written <- ReadAll
LastGA == INSTANCE GeminiToAnthropic WITH source <- mid, state <- last, sink <- client, closed <- gone, Written <- ReadAll

StartOf(converter) ==
    CASE converter = "RC" -> LastRC!Start
      [] converter = "AC" -> LastAC!Start
      [] converter = "AF" -> LastAF!Start
      [] converter = "CA" -> LastCA!Start
      [] converter = "CR" -> LastCR!Start
      [] converter = "CG" -> LastCG!Start
      [] converter = "GC" -> LastGC!Start
      [] converter = "GR" -> LastGR!Start
      [] converter = "GA" -> LastGA!Start
      [] OTHER -> [pc |-> "done"]

PrologueOf(converter) ==
    CASE converter = "CA" -> LastCA!Prologue
      [] converter = "CR" -> LastCR!Prologue
      [] converter = "GR" -> LastGR!Prologue
      [] converter = "GA" -> LastGA!Prologue
      [] OTHER -> <<>>

\* The handler has the header of an upstream answer and has written its first event.
Init ==
    /\ route \in {r \in AllRoutes : Selected(r)}
    /\ upstream = NewUpstream(route.from)
    /\ input = <<>> /\ mid = <<>>
    /\ first = StartOf(route.via) /\ last = StartOf(route.by)
    /\ client = ReadAll(NewReader(route.to), PrologueOf(route.by))
    /\ gone = FALSE

Over == upstream.reader.over # ""

\* An event joins those that wait to be read.
Sends(e) ==
    /\ upstream' = After(upstream, route.style, e)
    /\ IF route.via = "none"
       THEN mid' = Append(mid, e) /\ UNCHANGED input
       ELSE input' = Append(input, e) /\ UNCHANGED mid
    /\ UNCHANGED <<route, first, last, client, gone>>

\* The upstream sends an event when the last one has been read and as long as somebody reads.
\* Refusals have no place in the Gemini protocol and are not sent on a path to it. Several
\* candidates are one event where the converter refuses them.
Send ==
    /\ ~Over /\ ~(FirstDone /\ LastDone)
    /\ input = <<>> /\ (mid = <<>> \/ LastDone)
    /\ \E e \in Following(upstream, route.style) :
         /\ route.to = "gemini" /\ e.ev = "item_delta" => e.kind # "refusal"
         /\ route.by = "GC" => e.ev # "several"
         /\ Sends(e)

\* A pipe has no buffer: the goroutine goes on when all it has written is read, or when
\* nobody is left to read it.
FirstStep ==
    /\ mid = <<>> \/ LastDone
    /\ \/ route.via = "RC" /\ FirstRC!Next
       \/ route.via = "AC" /\ FirstAC!Next
    /\ UNCHANGED <<route, upstream, last, client, gone>>

LastStep ==
    /\ \/ route.by = "RC" /\ LastRC!Next
       \/ route.by = "AC" /\ LastAC!Next
       \/ route.by = "AF" /\ LastAF!Next
       \/ route.by = "CA" /\ LastCA!Next
       \/ route.by = "CR" /\ LastCR!Next
       \/ route.by = "CG" /\ LastCG!Next
       \/ route.by = "GC" /\ LastGC!Next
       \/ route.by = "GR" /\ LastGR!Next
       \/ route.by = "GA" /\ LastGA!Next
    /\ UNCHANGED <<route, upstream, input, first, gone>>

ClientLeaves ==
    /\ ~gone /\ ~LastDone
    /\ gone' = TRUE
    /\ UNCHANGED <<route, upstream, input, first, mid, last, client>>

\* Mutant of Cancelled: only the client cancels.
CancelledByClient == gone

\* The context of the upstream request is that of the client's.
Cancelled == gone \/ LastDone

\* The cancelled request breaks the body of the upstream.
Cancel ==
    /\ Cancelled
    /\ ~Over
    /\ Sends(Plain("broken"))

\* Everybody is done.
Stop == FirstDone /\ LastDone /\ UNCHANGED vars

Next == Send \/ FirstStep \/ LastStep \/ ClientLeaves \/ Cancel \/ Stop

Spec == Init /\ [][Next]_vars

\* The goroutine and the handler go on reading what there is to read, and the cancellation
\* takes effect; nothing is expected of the upstream and of the client. That a converter has
\* an action for whatever it reads is checked too: there is no deadlock.
FirstReads == first.pc = "read" /\ (mid = <<>> \/ LastDone) /\ input # <<>> /\ input' = Tail(input)
LastReads == last.pc = "read" /\ mid # <<>> /\ mid' = Tail(mid)
Fairness == WF_input(FirstReads) /\ WF_mid(LastReads) /\ WF_vars(Cancel)
FairSpec == Spec /\ Fairness

-----------------------------------------------------------------------------
(* What must hold.                                                         *)

Given == upstream.reader.answer

TypeOK ==
    /\ route \in AllRoutes
    /\ upstream.size \in 0 .. MaxItems + 1 /\ Cardinality(DOMAIN Given[0].calls) <= MaxCalls
    /\ Len(input) <= 2 /\ (route.via = "none" => Len(mid) <= 2)
    /\ {first.pc, last.pc} \subseteq {"read", "done"}
    /\ client.protocol = route.to /\ client.over \in {"", "eof", "broken"}
    /\ gone \in BOOLEAN

\* What the client takes its stream for.
Verdict == Outcome(client)

\* Where the code does not keep the promise, and the README says how: these answers are
\* outside the claims.
Claimed ==
    LET calls == Cardinality(DOMAIN Given[0].calls) IN
      CASE route.by \in {"CA", "CR", "GC", "GR"} -> ~upstream.muddled
        [] route.by = "GA" -> calls = 0 \/ (calls = 1 /\ Given[0].cut \in {"", "ended"})
        [] route.by = "CG" -> Whole(upstream.reader) /\ AllWhole(Started(upstream))
        [] OTHER -> TRUE

\* The client acts upon the calls and the end when it has a whole answer. The filter takes
\* the thoughts away.
Shown ==
    [c \in Candidates |->
        IF Verdict = "whole" /\ Claimed
        THEN [client.answer[c] EXCEPT !.calls = InOrder(@)]
        ELSE [client.answer[c] EXCEPT !.calls = <<>>, !.cut = ""]]
Expected ==
    [c \in Candidates |->
        [Given[c] EXCEPT !.calls = InOrder(@), !.thoughts = IF route.by = "AF" THEN <<>> ELSE @]]

Promise == INSTANCE Relay WITH
    sent <- Expected, whole <- Whole(upstream.reader), shown <- Shown,
    outcome <- IF Verdict = "whole" /\ ~Claimed THEN "open" ELSE Verdict

\* Every path implements a relay: the client has at any time the beginning of the texts
\* that were sent, in their order and nothing twice, and a stream that looks complete to
\* it is complete, with the calls, their arguments and the reason of its end.
Relayed == Promise!Spec

\* Whatever the upstream does, the events that a client gets keep to the rules of its
\* protocol, and those of a whole answer are all there: every block and item is closed,
\* every call is named, and indexes leave no gap (but where a filter took a block away).
WellFormed ==
    /\ ~client.bad
    /\ Verdict = "whole" =>
         /\ \A c \in Candidates : \A k \in DOMAIN client.answer[c].calls :
              client.answer[c].calls[k].name # 0
         /\ route.by # "AF" => DOMAIN client.parts = 0 .. Cardinality(DOMAIN client.parts) - 1

\* A whole answer reaches a client that waits for it as a whole answer: no path fails it.
WholeAnswerArrives ==
    LastDone /\ ~gone /\ Whole(upstream.reader) /\ upstream.reader.over = "eof" =>
        \/ Verdict = "whole"
        \/ route.by = "CA" /\ (upstream.muddled \/ ~AllWhole(Started(upstream)))
        \/ route.by = "GR" /\ Given[0].cut = "filter" /\ upstream.size = 0

\* When the upstream has ended, the client has left or the handler has returned, every
\* converter comes to its end: the goroutine stays behind neither at the pipe nor at an
\* upstream that sends nothing more.
EveryStreamEnds == (Over \/ gone \/ LastDone) ~> (LastDone /\ FirstDone)

=============================================================================
