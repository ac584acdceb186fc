--------------------------- MODULE AnthropicFilter ---------------------------
(* streamFilteredResponse: an Anthropic stream without the thinking blocks   *)
(* that the catalogue forced on the request (anthropic.go).                  *)
EXTENDS Converter

Prologue == <<>>
Start == [pc |-> "read", isThinking |-> FALSE]

ThinkingStart ==
    /\ Reads("block_start")
    /\ Incoming.kind = "thinking"
    /\ Emit([state EXCEPT !.isThinking = TRUE], <<>>)

ThinkingDelta == Reads("block_delta") /\ state.isThinking /\ Skip

ThinkingStop ==
    /\ Reads("block_stop")
    /\ state.isThinking
    /\ Emit([state EXCEPT !.isThinking = FALSE], <<>>)

\* Everything else is copied, line by line and unparsed.
PassThrough ==
    /\ \/ Reads("message_start") \/ Reads("message_delta") \/ Reads("message_stop")
       \/ Reads("error") \/ Reads("malformed")
       \/ Reads("block_start") /\ Incoming.kind # "thinking"
       \/ (Reads("block_delta") \/ Reads("block_stop")) /\ ~state.isThinking
    /\ Emit(state, <<Incoming>>)

\* The client finds the end of the stream either way: errors after the header
\* are not reported.
EndOfSource == (Reads("eof") \/ Reads("broken")) /\ Return(<<>>, "eof")

Next == ThinkingStart \/ ThinkingDelta \/ ThinkingStop \/ PassThrough \/ EndOfSource

=============================================================================
