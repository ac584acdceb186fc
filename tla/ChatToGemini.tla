----------------------------- MODULE ChatToGemini -----------------------------
(* streamChatAsNativeGemini: from Chat Completions chunks, an upstream's or  *)
(* of another converter, to the Gemini events of the client                  *)
(* (gemini_cross_compat.go).                                                 *)
EXTENDS Converter

\* The tools of a candidate in the order of their indexes.
Prologue == <<>>
Start == [pc |-> "read", tools |-> <<>>, seen |-> {}, finished |-> {}]

NewTool(cand, index) == [cand |-> cand, index |-> index, name |-> 0, arguments |-> <<>>]

\* Every chunk with a choice shows its candidate.
Seen(s) == [s EXCEPT !.seen = @ \union {Incoming.cand}]

Text ==
    /\ Reads("chunk")
    /\ Incoming.item \in {"text", "think"}
    /\ Emit(Seen(state), <<Candidate(Incoming.cand, <<Part(Incoming.item, Incoming.piece, 0, NoCall)>>, "")>>)

\* Calls are kept until their candidate ends.
Tool ==
    /\ Reads("chunk")
    /\ Incoming.item = "tool"
    /\ LET call == Incoming.call
           known == SelectInSeq(state.tools, LAMBDA t : t.cand = Incoming.cand /\ t.index = call.index)
           all == IF known = 0 THEN Append(state.tools, NewTool(Incoming.cand, call.index)) ELSE state.tools
           at == IF known = 0 THEN Len(all) ELSE known
       IN  Emit(Seen([state EXCEPT !.tools =
                        [all EXCEPT ![at].name = IF call.name = 0 THEN @ ELSE call.name,
                                    ![at].arguments = @ \o call.args]]), <<>>)

\* decodeGeminiArguments: what is not JSON is wrapped as a text.
DecodeArguments(args) == IF ValidJSON(args) THEN args ELSE <<"text">>

CallParts(cand) ==
    LET named == Select(state.tools, LAMBDA t : t.cand = cand /\ t.name # 0)
    IN  [i \in DOMAIN named |->
            Part("call", 0, 0, Call(0, 0, named[i].name, DecodeArguments(named[i].arguments)))]

\* chatFinishReasonToGemini
FinishReason(finish) ==
    CASE finish = "length" -> "MAX_TOKENS"
      [] finish = "content_filter" -> "SAFETY"
      [] OTHER -> "STOP"

Finish ==
    /\ Reads("chunk")
    /\ Incoming.finish # ""
    /\ Emit([Seen(state) EXCEPT !.finished = @ \union {Incoming.cand}],
            <<Candidate(Incoming.cand, CallParts(Incoming.cand), FinishReason(Incoming.finish))>>)

\* Only what is not JSON ends the stream: an error object has no choices.
Malformed == Reads("malformed") /\ Return(<<>>, "eof")

Other ==
    /\ \/ Reads("error") \/ Reads("DONE")
       \/ Reads("chunk") /\ Incoming.item \in {"role", "sign", "refusal"}
    /\ Emit(IF Incoming.ev = "chunk" THEN Seen(state) ELSE state, <<>>)

\* A candidate that has not ended is ended; without any, and when the upstream breaks,
\* the handler returns an error that no longer reaches the client.
EndOfSource ==
    /\ Reads("eof")
    /\ LET open == SetToSeq(state.seen \ state.finished)
       IN  Return([i \in DOMAIN open |-> Candidate(open[i], <<>>, "STOP")], "eof")

SourceBroken == Reads("broken") /\ Return(<<>>, "eof")

Next == Text \/ Tool \/ Finish \/ Malformed \/ Other \/ EndOfSource \/ SourceBroken

=============================================================================
