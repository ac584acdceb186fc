-------------------------- MODULE GeminiToResponses --------------------------
(* streamGeminiAsResponses: from the Gemini events of an upstream to the     *)
(* Responses events of the client (gemini_responses.go).                     *)
EXTENDS Converter

\* The output items in the order of their indexes.
Prologue == <<Plain("created")>>
Start == [pc |-> "read", items |-> <<>>, finish |-> "stop", terminalSeen |-> FALSE]

New(kind, key, name) ==
    [kind |-> kind, key |-> key, name |-> name, pieces |-> NoPieces, args |-> <<>>]
Sent(item) == Item(item.kind, item.name, item.pieces, item.args)

\* writeFailure
Fails == Return(<<Plain("failed")>>, "eof")

\* The loop over the parts of an event: the items and the events written so far.
Position(items, kind, key) == SelectInSeq(items, LAMBDA x : x.kind = kind /\ x.key = key)
Begun(acc, kind, key, name) ==
    IF Position(acc.items, kind, key) # 0 THEN acc
    ELSE [acc EXCEPT !.items = Append(@, New(kind, key, name)),
                     !.events = Append(@, ItemAdded(Len(acc.items), kind, name))]
Added(acc, itemKind, kind, piece) ==
    LET at == Position(acc.items, itemKind, <<>>)
    IN  [acc EXCEPT !.items[at].pieces[kind] = Append(@, piece),
                    !.events = IF kind = "sign" THEN @
                               ELSE Append(@, ItemDelta(at - 1, kind, piece, <<>>))]

\* startReasoningSummary, startTextMessage
WithText(acc, part) ==
    CASE part.kind = "think" -> Added(Begun(acc, "reasoning", <<>>, 0), "reasoning", "think", part.piece)
      [] part.kind = "text" -> Added(Begun(acc, "message", <<>>, 0), "message", "text", part.piece)
      [] OTHER -> acc

\* A signature of any part is one of the reasoning.
WithSignature(acc, part) ==
    IF part.sign = 0 THEN acc
    ELSE Added(Begun(acc, "reasoning", <<>>, 0), "reasoning", "sign", part.sign)

\* A call is known by its id, or by its name and place among the calls of its event; a
\* known one takes the new name and arguments.
Key(call, ordinal) ==
    IF call.id # 0 THEN <<"id", call.id, 0>> ELSE <<"name", call.name, ordinal>>
WithCall(acc, part) ==
    IF part.kind # "call" THEN acc
    ELSE LET key == Key(part.call, acc.ordinal)
             begun == Begun(acc, "function_call", key, part.call.name)
             at == Position(begun.items, "function_call", key)
         IN  [begun EXCEPT !.ordinal = @ + 1, !.items[at].name = part.call.name,
                           !.items[at].args = IF part.call.args = <<>> THEN @ ELSE part.call.args]

Taken == FoldLeft(LAMBDA acc, part : WithCall(WithSignature(WithText(acc, part), part), part),
                  [items |-> state.items, events |-> <<>>, ordinal |-> 0], Incoming.parts)

\* geminiFinishReason
FinishReason(reason) ==
    CASE reason = "MAX_TOKENS" -> "length"
      [] reason = "SAFETY" -> "content_filter"
      [] OTHER -> "stop"

Content ==
    /\ Reads("candidate")
    /\ Emit([state EXCEPT !.items = Taken.items,
                          !.terminalSeen = @ \/ Incoming.finish # "",
                          !.finish = IF Incoming.finish = "" THEN @ ELSE FinishReason(Incoming.finish)],
            Taken.events)

\* What is not JSON, an error object, a blocked prompt, an event with several candidates.
Fail ==
    /\ Reads("malformed") \/ Reads("error") \/ Reads("blocked") \/ Reads("several")
    /\ Fails

\* At the end the reasoning is done, the arguments of the calls are sent and they are
\* done, then the message; the last event holds all items by index.
Indexes(kind) == Select([i \in DOMAIN state.items |-> i], LAMBDA i : state.items[i].kind = kind)
DoneOf(kind) ==
    LET Done(i) ==
          (IF kind = "function_call" /\ state.items[i].args # <<>>
           THEN <<ItemDelta(i - 1, kind, 0, state.items[i].args)>> ELSE <<>>)
          \o <<ItemDone(i - 1, Sent(state.items[i]))>>
    IN  Concat(Indexes(kind), Done)
Status == IF state.finish \in {"length", "content_filter"} THEN state.finish ELSE "completed"

EndOfSource ==
    /\ Reads("eof")
    /\ IF state.terminalSeen
       THEN Return(DoneOf("reasoning") \o DoneOf("function_call") \o DoneOf("message")
                   \o <<Completed(Status, [i \in DOMAIN state.items |-> Sent(state.items[i])])>>,
                   "eof")
       ELSE Fails

SourceBroken == Reads("broken") /\ Fails

Next == Content \/ Fail \/ EndOfSource \/ SourceBroken

=============================================================================
