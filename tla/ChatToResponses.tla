--------------------------- MODULE ChatToResponses ---------------------------
(* streamChatAsResponses: from the Chat Completions chunks of another        *)
(* converter to the Responses events of the client (gemini_responses.go).    *)
(* That converter writes one choice, so the refusal of several is left out.  *)
EXTENDS Converter

\* The output items in the order of their indexes; a tool has the index of the call.
Prologue == <<Plain("created")>>
Start == [pc |-> "read", items |-> <<>>, finish |-> "stop",
          terminalSeen |-> FALSE, transportDone |-> FALSE]

New(kind, key, name) ==
    [kind |-> kind, key |-> key, name |-> name, pieces |-> NoPieces, args |-> <<>>]
Sent(item) == Item(item.kind, item.name, item.pieces, item.args)

\* writeFailure.
Fails == Return(<<Plain("failed")>>, "eof")

\* The item of that kind and key, a new one if need be.
Position(kind, key) == SelectInSeq(state.items, LAMBDA x : x.kind = kind /\ x.key = key)
Current(kind, key) == LET known == Position(kind, key) IN IF known = 0 THEN New(kind, key, 0) ELSE state.items[known]
Index(kind, key) == LET known == Position(kind, key) IN IF known = 0 THEN Len(state.items) ELSE known - 1

\* The item takes its new value; a new one is announced.
With(kind, key, item, deltas) ==
    LET known == Position(kind, key)
    IN  IF known = 0
        THEN Emit([state EXCEPT !.items = Append(@, item)],
                  <<ItemAdded(Index(kind, key), kind, item.name)>> \o deltas)
        ELSE Emit([state EXCEPT !.items[known] = item], deltas)

\* startReasoning, startReasoningSummary, startMessagePart: one item of reasoning and one
\* message; a signature is not sent before the end.
Text ==
    /\ Reads("chunk")
    /\ Incoming.item \in TextKinds
    /\ LET kind == IF Incoming.item \in {"think", "sign"} THEN "reasoning" ELSE "message"
       IN  With(kind, 0, [Current(kind, 0) EXCEPT !.pieces[Incoming.item] = Append(@, Incoming.piece)],
                IF Incoming.item = "sign" THEN <<>>
                ELSE <<ItemDelta(Index(kind, 0), Incoming.item, Incoming.piece, <<>>)>>)

\* Arguments that begin with all that preceded them replace it; others are a fragment:
\* either way TrimPrefix(arguments, preceding) is what is new.
Tool ==
    /\ Reads("chunk")
    /\ Incoming.item = "tool"
    /\ LET call == Incoming.call
           last == Current("function_call", call.index)
           delta == TrimPrefix(call.args, last.args)
       IN  With("function_call", call.index,
                [last EXCEPT !.name = IF call.name = 0 THEN @ ELSE call.name, !.args = @ \o delta],
                IF delta = <<>> THEN <<>>
                ELSE <<ItemDelta(Index("function_call", call.index), "function_call", 0, delta)>>)

Finish ==
    /\ Reads("chunk")
    /\ Incoming.finish # ""
    /\ Emit([state EXCEPT !.terminalSeen = TRUE, !.finish = Incoming.finish], <<>>)

Done == Reads("DONE") /\ Emit([state EXCEPT !.transportDone = TRUE], <<>>)

Fail == (Reads("error") \/ Reads("malformed")) /\ Fails

Other == Reads("chunk") /\ Incoming.item = "role" /\ Skip

\* The items are done by kind, and the last event holds them by index.
DoneOf(kind) ==
    FoldLeft(LAMBDA all, i : IF state.items[i].kind = kind
                             THEN Append(all, ItemDone(i - 1, Sent(state.items[i]))) ELSE all,
             <<>>, [i \in DOMAIN state.items |-> i])
Status == IF state.finish \in {"length", "content_filter"} THEN state.finish ELSE "completed"

EndOfSource ==
    /\ Reads("eof")
    /\ IF state.terminalSeen /\ state.transportDone
       THEN Return(DoneOf("reasoning") \o DoneOf("message") \o DoneOf("function_call")
                   \o <<Completed(Status, [i \in DOMAIN state.items |-> Sent(state.items[i])])>>,
                   "eof")
       ELSE Fails

SourceBroken == Reads("broken") /\ Fails

Next ==
    \/ Text \/ Tool \/ Finish \/ Done \/ Fail \/ Other \/ EndOfSource \/ SourceBroken

=============================================================================
