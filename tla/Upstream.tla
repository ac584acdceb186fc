------------------------------- MODULE Upstream -------------------------------
(* The streams of the upstream in the four protocols, with what may go wrong *)
(* in them: the environment of the converters. The state of a stream is what *)
(* a reader has of it, and a little more; operators give the events that may *)
(* follow.                                                                   *)
EXTENDS Reader

CONSTANTS
    MaxItems, \* bound: pieces of text and fragments of arguments in a stream
    MaxCalls  \* bound: tool calls in a stream

\* "size" counts pieces and fragments; "fresh" marks an empty block; "failed" is set by an error, after which nothing
\* follows but the end; "calls" are the calls without id of the events so far;
\* "muddled" that what was sent has two readings.
NewUpstream(protocol) ==
    [reader |-> NewReader(protocol), size |-> 0, fresh |-> FALSE, failed |-> FALSE, calls |-> {}, muddled |-> FALSE]

\* The arguments of a candidate's call number t, an object in an object for the first one.
WholeArgs(t) == Object(MaxCalls + 1 - t)
Rest(t, args) == SubSeq(WholeArgs(t), Len(args) + 1, Len(WholeArgs(t)))
Fragments(t, args) == {SubSeq(Rest(t, args), 1, n) : n \in 1..Len(Rest(t, args))}

Started(u) == InOrder(u.reader.answer[0].calls)
AllWhole(calls) == \A t \in DOMAIN calls : calls[t].args = WholeArgs(t)

\* A stream may end at any time, or break, or report an error; one event may be garbled.
Ending == {Plain("eof"), Plain("broken")}
Breaks(u) ==
    Ending \union {Plain("error")} \union (IF u.reader.faulty THEN {} ELSE {Plain("malformed")})

If(condition, events) == IF condition THEN events ELSE {}

\* Why an answer ends: it is cut short, a long one by its length only, or its calls are
\* complete.
Filtered(u, reason) == If(u.size <= 1, {reason})
Reasons(u, plain, used) ==
    {"length"} \union Filtered(u, "content_filter") \union
    (IF Started(u) = <<>> THEN {plain} ELSE If(AllWhole(Started(u)), {used}))

-----------------------------------------------------------------------------
\* Chat Completions. A call may be named after its first fragment; in the cumulative
\* style its arguments are repeated.
ChatTools(u, style) ==
    LET calls == Started(u)
        Sofar(t) == IF t <= Len(calls) THEN calls[t].args ELSE <<>>
        Names(t, args) ==
            IF t <= Len(calls) /\ calls[t].name # 0 THEN {0}
            ELSE IF args = Rest(t, Sofar(t)) THEN {t} ELSE {0, t}
        Args(t, args) == IF style = "cumulative" THEN Sofar(t) \o args ELSE args
        Calls(t) == UNION {{Call(t - 1, name, name, Args(t, args)) : name \in Names(t, args)}
                           : args \in Fragments(t, Sofar(t))}
    IN  {ToolChunk(call) : call \in UNION {Calls(t) : t \in 1..MaxCalls \intersect 1..Len(calls) + 1}}

ChatNext(u, style) ==
    LET named == \A t \in DOMAIN Started(u) : Started(u)[t].name # 0
        cut == u.reader.answer[0].cut # ""
    IN  IF u.reader.marked THEN Ending
        ELSE Breaks(u)
             \union If(cut, {Plain("DONE")})
             \union If(~cut /\ u.size < MaxItems,
                       {TextChunk(item, u.size + 1) : item \in {"text", "think"}} \union ChatTools(u, style))
             \union If(~cut /\ named, {FinishChunk(reason) : reason \in Reasons(u, "stop", "tool_calls")})

\* Anthropic Messages: one block after the other, none of them empty; thoughts may be
\* signed; a call may be incomplete when the answer is cut.
AnthropicReason(r) == CASE r = "length" -> "max_tokens" [] r = "content_filter" -> "refusal" [] OTHER -> r
AnthropicNext(u) ==
    LET r == u.reader
        calls == Started(u)
        index == Cardinality(DOMAIN r.parts) - 1
        kind == r.parts[index].kind
        more == u.size < MaxItems
        inside ==
            CASE kind = "text" -> {BlockDelta(index, "text", u.size + 1, <<>>)}
              [] kind = "thinking" -> {BlockDelta(index, k, u.size + 1, <<>>) : k \in {"think", "sign"}}
              [] OTHER -> {BlockDelta(index, "json", 0, args) :
                              args \in Fragments(Len(calls), calls[Len(calls)].args)}
        starts == {BlockStart(index + 1, k, 0) : k \in {"text", "thinking"}} \union
                  If(Len(calls) < MaxCalls, {BlockStart(index + 1, "tool_use", Len(calls) + 1)})
        cut == r.answer[0].cut # ""
    IN  IF r.marked THEN Ending
        ELSE Breaks(u)
             \union If(~r.begun, {Plain("message_start")})
             \union If(SomeOpen(r), If(more, inside) \union If(~u.fresh, {BlockStop(index)}))
             \union If(r.begun /\ ~SomeOpen(r) /\ ~cut,
                       If(more /\ AllWhole(calls), starts) \union
                       {MessageDelta(AnthropicReason(reason)) : reason \in Reasons(u, "end_turn", "tool_use")})
             \union If(cut, {Plain("message_stop")})

\* Responses: the deltas of texts, whose items are left out, and of calls, which are
\* items 1, 2 and so on.
ResponsesNext(u) ==
    LET calls == Started(u)
        more == u.size < MaxItems
        texts == {ItemDelta(0, kind, u.size + 1, <<>>) : kind \in {"text", "think", "refusal"}}
        tools == UNION {{ItemDelta(t, "function_call", 0, args) : args \in Fragments(t, calls[t].args)}
                        : t \in DOMAIN calls}
        next == Len(calls) + 1
    IN  IF u.reader.marked THEN Ending
        ELSE Breaks(u)
             \union If(~u.reader.begun, {Plain("created")})
             \union If(u.reader.begun, {Plain("failed")})
             \union If(u.reader.begun /\ more,
                       texts \union tools \union If(next <= MaxCalls, {ItemAdded(next, "function_call", next)}))
             \union If(u.reader.begun,
                       {Completed(reason, <<>>) : reason \in Reasons(u, "completed", "completed")})

\* Gemini: events of up to two parts of one candidate. In the style "ids" calls have ids
\* and one name, in the style "names" names of their own, in the style "same" neither; in
\* the style "choices" neither, and there are two candidates, one part in an event, and no
\* thoughts and signatures.
\* No error follows when all candidates have ended.
GeminiNext(u, style) ==
    LET r == u.reader
        candidates == IF style = "choices" THEN Candidates ELSE {0}
        Total(c) == Cardinality(DOMAIN r.answer[c].calls)
        calls == Total(0) + Total(1)
        CallPart(t, sign) ==
            Part("call", 0, sign, Call(0, IF style = "ids" THEN t ELSE 0,
                                       IF style = "names" THEN t ELSE 1, WholeArgs(t)))
        Parts(n, t) ==
            {Part("text", n, 0, NoCall)}
            \union If(style # "choices", {Part("think", n, sign, NoCall) : sign \in {0, n}})
            \union If(t <= MaxCalls, {CallPart(t, sign) : sign \in If(style # "choices", {n}) \union {0}})
        one == {<<p>> : p \in Parts(u.size + 1, calls + 1)}
        two == UNION {{p \o <<q>> : q \in Parts(u.size + 2, IF p[1].kind = "call" THEN calls + 2 ELSE calls + 1)}
                      : p \in one}
        contents == If(u.size < MaxItems, one) \union If(style # "choices" /\ u.size + 1 < MaxItems, two)
        finishes == {"STOP", "MAX_TOKENS"} \union Filtered(u, "SAFETY")
        unfinished == {c \in candidates : r.answer[c].cut = ""}
    IN  (IF r.seen # {} /\ AllEnd(r) THEN Breaks(u) \ {Plain("error")} ELSE Breaks(u))
             \union If(r.seen = {}, {Plain("blocked")})
             \union If(~r.faulty, {Plain("several")})
             \union {Candidate(c, parts, finish) : c \in unfinished, parts \in contents, finish \in finishes \union {""}}
             \union {Candidate(c, <<>>, finish) : c \in unfinished, finish \in finishes}

-----------------------------------------------------------------------------
\* A fragment that repeats all that came before it of the arguments of its call.
Repeats(sofar, args) == sofar # <<>> /\ IsPrefix(sofar, args)
Ambiguous(u, style, e) ==
    LET Sofar(k) == CallOf(u.reader, 0, k).args IN
      CASE e.ev = "chunk" -> style = "fragments" /\ Repeats(Sofar(e.call.index), e.call.args)
        [] e.ev \in {"block_delta", "item_delta"} -> Repeats(Sofar(e.index), e.args)
        [] OTHER -> FALSE

\* Calls of two events that cannot be told apart: of one candidate, without ids, with one
\* name and at the same place among the calls of their event.
CallKeys(e) ==
    IF e.ev # "candidate" THEN {}
    ELSE LET calls == Select(e.parts, LAMBDA p : p.kind = "call")
         IN  {<<e.cand, calls[i].call.name, i>> : i \in {j \in DOMAIN calls : calls[j].call.id = 0}}

Content(e) ==
    CASE e.ev = "chunk" -> IF e.item = "none" THEN 0 ELSE 1
      [] e.ev = "candidate" -> Len(e.parts)
      [] e.ev \in {"block_delta", "item_delta"} -> 1
      [] OTHER -> 0

After(u, style, e) ==
    [reader |-> [Read(u.reader, style, e) EXCEPT !.bad = FALSE],
     size |-> u.size + Content(e),
     fresh |-> e.ev = "block_start" \/ (u.fresh /\ e.ev # "block_delta"),
     failed |-> u.failed \/ e.ev = "error",
     calls |-> u.calls \union CallKeys(e),
     muddled |-> u.muddled \/ Ambiguous(u, style, e) \/ u.calls \intersect CallKeys(e) # {}]

\* The events that may follow.
Following(u, style) ==
    CASE u.failed -> Ending
      [] u.reader.protocol = "chat" -> ChatNext(u, style)
      [] u.reader.protocol = "anthropic" -> AnthropicNext(u)
      [] u.reader.protocol = "responses" -> ResponsesNext(u)
      [] OTHER -> GeminiNext(u, style)

=============================================================================
