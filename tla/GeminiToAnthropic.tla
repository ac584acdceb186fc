-------------------------- MODULE GeminiToAnthropic --------------------------
(* streamGeminiAsAnthropic: from the Gemini events of an upstream to the     *)
(* Anthropic events of the client (gemini_anthropic_compat.go).              *)
EXTENDS Converter

\* The blocks in the order of their indexes.
Prologue == <<Plain("message_start")>>
Start == [pc |-> "read", blocks |-> <<>>, signed |-> FALSE, stop |-> "end_turn",
          terminalSeen |-> FALSE]

Error == Return(<<Plain("error")>>, "eof")

\* The loop over the parts of an event: the local variables and the events so far.
Position(s, kind) == SelectInSeq(s.blocks, LAMBDA b : b.kind = kind)
Begun(acc, kind, name) ==
    IF Position(acc.s, kind) # 0 THEN acc
    ELSE [acc EXCEPT !.s.blocks = Append(@, [kind |-> kind, arguments |-> <<>>]),
                     !.events = Append(@, BlockStart(Len(acc.s.blocks), kind, name))]
Delta(acc, block, kind, piece) ==
    [acc EXCEPT !.events = Append(@, BlockDelta(Position(acc.s, block) - 1, kind, piece, <<>>))]

\* Only the first signature of a thought is sent.
WithThought(acc, part) ==
    LET thought == Delta(Begun(acc, "thinking", 0), "thinking", "think", part.piece)
    IN  IF part.sign = 0 \/ acc.s.signed THEN thought
        ELSE Delta([thought EXCEPT !.s.signed = TRUE], "thinking", "sign", part.sign)

\* Calls have no index in this protocol: the first one has index 0, and as that one then
\* exists, the others are taken for it.
WithCall(acc, part) ==
    LET begun == Begun(acc, "tool_use", part.call.name)
        at == Position(begun.s, "tool_use")
    IN  [begun EXCEPT !.s.stop = "tool_use",
                      !.s.blocks[at].arguments =
                          IF part.call.args = <<>> THEN @ ELSE part.call.args]

Taken(s) ==
    FoldLeft(LAMBDA acc, part :
                 CASE part.kind = "think" -> WithThought(acc, part)
                   [] part.kind = "text" -> Delta(Begun(acc, "text", 0), "text", "text", part.piece)
                   [] OTHER -> WithCall(acc, part),
             [s |-> s, events |-> <<>>], Incoming.parts)

StopReason(reason) ==
    CASE reason = "MAX_TOKENS" -> "max_tokens"
      [] reason = "STOP" -> "end_turn"
      [] OTHER -> "refusal"

\* The finish reason is read before the parts.
Content ==
    /\ Reads("candidate")
    /\ LET taken == Taken(IF Incoming.finish = "" THEN state
                          ELSE [state EXCEPT !.terminalSeen = TRUE, !.stop = StopReason(Incoming.finish)])
       IN  Emit(taken.s, taken.events)

Blocked ==
    /\ Reads("blocked")
    /\ Emit([state EXCEPT !.terminalSeen = TRUE, !.stop = "refusal"], <<>>)

Fail == (Reads("malformed") \/ Reads("several")) /\ Error

\* An error object has no candidates.
Other == Reads("error") /\ Skip

Stops(kind) ==
    LET at == Position(state, kind)
    IN  IF at = 0 THEN <<>>
        ELSE (IF state.blocks[at].arguments # <<>>
              THEN <<BlockDelta(at - 1, "json", 0, state.blocks[at].arguments)>> ELSE <<>>)
             \o <<BlockStop(at - 1)>>

EndOfSource ==
    /\ Reads("eof")
    /\ IF state.terminalSeen
       THEN Return(Stops("thinking") \o Stops("text") \o Stops("tool_use")
                   \o <<MessageDelta(state.stop), Plain("message_stop")>>, "eof")
       ELSE Error

SourceBroken == Reads("broken") /\ Error

Next == Content \/ Blocked \/ Fail \/ Other \/ EndOfSource \/ SourceBroken

=============================================================================
