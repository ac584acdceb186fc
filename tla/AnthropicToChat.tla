--------------------------- MODULE AnthropicToChat ---------------------------
(* convertAnthropicStream: a goroutine between the body of an Anthropic      *)
(* answer and a pipe that carries Chat Completions chunks                    *)
(* (anthropic_compat.go).                                                    *)
EXTENDS Converter

Prologue == <<>>
Start == [pc |-> "read", toolIndex |-> -1, toolCount |-> 0, terminalSeen |-> FALSE]

\* anthropicStopReasonToChat.
StopReason(stop) ==
    CASE stop = "tool_use" -> "tool_calls"
      [] stop = "max_tokens" -> "length"
      [] stop = "refusal" -> "content_filter"
      [] OTHER -> "stop"

\* The first chunk gives the role.
MessageStart == Reads("message_start") /\ Emit(state, <<TextChunk("role", 0)>>)

ToolStart ==
    /\ Reads("block_start")
    /\ Incoming.kind = "tool_use"
    /\ Emit([state EXCEPT !.toolIndex = state.toolCount, !.toolCount = @ + 1],
            <<ToolChunk(Call(state.toolCount, Incoming.name, Incoming.name, <<>>))>>)

TextDelta ==
    /\ Reads("block_delta")
    /\ Incoming.kind \in {"text", "think", "sign"}
    /\ Emit(state, <<TextChunk(Incoming.kind, Incoming.piece)>>)

\* Fragments belong to the tool that was started last.
ToolArguments ==
    /\ Reads("block_delta")
    /\ Incoming.kind = "json"
    /\ Emit(state, <<ToolChunk(Call(state.toolIndex, 0, 0, Incoming.args))>>)

Finish ==
    /\ Reads("message_delta")
    /\ Emit(state, <<FinishChunk(StopReason(Incoming.stop))>>)

MessageStop ==
    /\ Reads("message_stop")
    /\ Emit([state EXCEPT !.terminalSeen = TRUE], <<Plain("DONE")>>)

\* An event that is not JSON breaks the pipe.
Malformed == Reads("malformed") /\ Return(<<>>, "broken")

\* An error event has no case of its own.
Other ==
    /\ \/ Reads("error") \/ Reads("block_stop")
       \/ Reads("block_start") /\ Incoming.kind # "tool_use"
    /\ Skip

EndOfSource ==
    /\ Reads("eof")
    /\ Return(IF state.terminalSeen THEN <<>> ELSE <<Plain("error"), Plain("DONE")>>, "eof")

SourceBroken == Reads("broken") /\ Return(<<>>, "broken")

Next ==
    \/ MessageStart \/ ToolStart \/ TextDelta \/ ToolArguments \/ Finish \/ MessageStop
    \/ Malformed \/ Other \/ EndOfSource \/ SourceBroken

=============================================================================
