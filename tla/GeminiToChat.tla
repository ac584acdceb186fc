----------------------------- MODULE GeminiToChat -----------------------------
(* streamGeminiAsChat: from the Gemini events of an upstream to the Chat     *)
(* Completions chunks of the client (gemini_compat.go). The deltas of one    *)
(* chunk are written here as chunks of one item each.                        *)
EXTENDS Converter

\* The tools of all candidates in the order in which they came.
Prologue == <<>>
Start == [pc |-> "read", tools |-> <<>>, seen |-> {}, finished |-> {}]

\* writeError
Error == Return(<<Plain("error"), Plain("DONE")>>, "eof")

Cand == Incoming.cand
Pieces(kind) == Select(Incoming.parts, LAMBDA p : p.kind = kind)
Deltas(kind) ==
    [i \in 1..Len(Pieces(kind)) |-> Chunk(Cand, kind, Pieces(kind)[i].piece, NoCall, "")]

\* Of several signatures of thoughts the last one is kept.
Signature ==
    LET signed == Select(Incoming.parts, LAMBDA p : p.kind = "think" /\ p.sign # 0)
    IN  IF signed = <<>> THEN <<>>
        ELSE <<Chunk(Cand, "sign", signed[Len(signed)].sign, NoCall, "")>>

\* A call is known by its id, or by its name and place among the calls of its event. A
\* known one takes the new arguments; a new one has the next index of its candidate.
Key(call, ordinal) ==
    IF call.id # 0 THEN <<Cand, "id", call.id, 0>> ELSE <<Cand, "name", call.name, ordinal>>

Taken(tools, call, ordinal) ==
    LET key == Key(call, ordinal)
        known == SelectInSeq(tools, LAMBDA t : t.key = key)
        index == Len(Select(tools, LAMBDA t : t.cand = Cand))
    IN  IF known = 0
        THEN Append(tools, [key |-> key, cand |-> Cand, index |-> index, name |-> call.name,
                            arguments |-> call.args, flushed |-> FALSE])
        ELSE [tools EXCEPT ![known].arguments = IF call.args = <<>> THEN @ ELSE call.args]

Tools ==
    LET calls == Pieces("call")
        Take(tools, i) == Taken(tools, calls[i].call, i - 1)
    IN  FoldLeft(Take, state.tools, [i \in DOMAIN calls |-> i])

\* flushTools: the arguments are sent with the finish of the candidate, in the delta that
\* starts the tool or in one of their own.
Arguments(t) == IF t.arguments = <<>> THEN Object(1) ELSE t.arguments
Flushed(tools, cand) ==
    [i \in DOMAIN tools |-> IF tools[i].cand = cand THEN [tools[i] EXCEPT !.flushed = TRUE] ELSE tools[i]]
FlushDeltas(tools, cand) ==
    LET left == Select(tools, LAMBDA t : t.cand = cand /\ ~t.flushed)
    IN  [i \in DOMAIN left |-> Chunk(cand, "tool", 0, Call(left[i].index, 0, 0, Arguments(left[i])), "")]
StartDeltas(tools, finishes) ==
    [i \in 1..Len(tools) - Len(state.tools) |->
        LET t == tools[Len(state.tools) + i]
        IN  Chunk(Cand, "tool", 0,
                  Call(t.index, t.name, t.name, IF finishes THEN Arguments(t) ELSE <<>>), "")]

\* geminiFinishReason
FinishReason(reason) ==
    CASE reason = "MAX_TOKENS" -> "length"
      [] reason = "SAFETY" -> "content_filter"
      [] OTHER -> "stop"

Content ==
    /\ Reads("candidate")
    /\ LET finishes == Incoming.finish # ""
           old == SubSeq(Tools, 1, Len(state.tools))
       IN  Emit([state EXCEPT !.seen = @ \union {Cand},
                              !.finished = IF finishes THEN @ \union {Cand} ELSE @,
                              !.tools = IF finishes THEN Flushed(Tools, Cand) ELSE Tools],
                Deltas("text") \o Deltas("think") \o Signature \o StartDeltas(Tools, finishes)
                \o (IF finishes
                    THEN FlushDeltas(old, Cand)
                         \o <<Chunk(Cand, "none", 0, NoCall, FinishReason(Incoming.finish))>>
                    ELSE <<>>))

\* A prompt that was blocked is an answer of its own.
Blocked ==
    /\ Reads("blocked")
    /\ Emit([state EXCEPT !.seen = @ \union {0}, !.finished = @ \union {0}],
            <<TextChunk("refusal", 0), FinishChunk("content_filter")>>)

\* What is not JSON, or a call without a name.
Malformed == Reads("malformed") /\ Error

\* An error object has no candidates.
Other == Reads("error") /\ Skip

EndOfSource ==
    /\ Reads("eof")
    /\ IF state.seen = {} \/ state.seen # state.finished THEN Error
       ELSE LET left == SetToSeq(state.seen)
            IN  Return(FoldLeft(LAMBDA all, c : all \o FlushDeltas(state.tools, c), <<>>, left)
                       \o <<Plain("DONE")>>, "eof")

SourceBroken == Reads("broken") /\ Error

Next == Content \/ Blocked \/ Malformed \/ Other \/ EndOfSource \/ SourceBroken

=============================================================================
