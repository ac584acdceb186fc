--------------------------- MODULE ResponsesToChat ---------------------------
(* convertResponsesStreamToChat: a goroutine between the body of a Responses *)
(* answer and a pipe that carries Chat Completions chunks (openai.go).       *)
EXTENDS Converter

\* The tools in the order of their indexes, and the flags of the function.
Prologue == <<>>
Start == [pc |-> "read", tools |-> <<>>, toolCallSeen |-> FALSE,
          terminalSeen |-> FALSE, doneWritten |-> FALSE]

\* writeDone: the end marker is written once.
Done(s) == IF s.doneWritten THEN <<>> ELSE <<Plain("DONE")>>
DoneWritten(s) == [s EXCEPT !.doneWritten = TRUE]

\* writeStreamError.
Failure(s) == <<Plain("error")>> \o Done(s)
Failed(s) == DoneWritten([s EXCEPT !.terminalSeen = TRUE])

TextDelta ==
    /\ Reads("item_delta")
    /\ Incoming.kind \in {"text", "think", "refusal"}
    /\ Emit(state, <<TextChunk(Incoming.kind, Incoming.piece)>>)

ToolAdded ==
    /\ Reads("item_added")
    /\ Incoming.kind = "function_call"
    /\ Emit([state EXCEPT !.toolCallSeen = TRUE, !.tools = Append(@, Incoming.index)],
            <<ToolChunk(Call(Len(state.tools), Incoming.name, Incoming.name, <<>>))>>)

\* Mutant of ToolIndex: the index of the item.
ToolIndexOfItem(item) == item

\* An item that was never announced passes for the first tool.
ToolIndex(item) ==
    LET known == SelectInSeq(state.tools, LAMBDA t : t = item)
    IN  IF known = 0 THEN 0 ELSE known - 1

ToolArguments ==
    /\ Reads("item_delta")
    /\ Incoming.kind = "function_call"
    /\ Emit([state EXCEPT !.toolCallSeen = TRUE],
            <<ToolChunk(Call(ToolIndex(Incoming.index), 0, 0, Incoming.args))>>)

FinishReason(status) ==
    IF status # "completed"
    THEN IF status = "content_filter" THEN "content_filter" ELSE "length"
    ELSE IF state.toolCallSeen THEN "tool_calls" ELSE "stop"

Finish ==
    /\ Reads("completed")
    /\ Emit(DoneWritten([state EXCEPT !.terminalSeen = TRUE]),
            <<FinishChunk(FinishReason(Incoming.status))>> \o Done(state))

\* response.failed, error, or an event that is not JSON: reported, and the
\* function goes on to read.
Fail ==
    /\ Reads("failed") \/ Reads("error") \/ Reads("malformed")
    /\ Emit(Failed(state), Failure(state))

Other ==
    /\ \/ Reads("created") \/ Reads("item_done")
       \/ Reads("item_added") /\ Incoming.kind # "function_call"
    /\ Skip

EndOfSource ==
    /\ Reads("eof")
    /\ Return(IF state.terminalSeen THEN <<>> ELSE Failure(state), "eof")

SourceBroken == Reads("broken") /\ Return(<<>>, "broken")

Next ==
    \/ TextDelta \/ ToolAdded \/ ToolArguments \/ Finish \/ Fail \/ Other
    \/ EndOfSource \/ SourceBroken

=============================================================================
