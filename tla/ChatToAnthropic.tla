--------------------------- MODULE ChatToAnthropic ---------------------------
(* streamChatAsAnthropic: from Chat Completions chunks, an upstream's or of  *)
(* another converter, to the Anthropic events of the client                  *)
(* (anthropic_openai_compat.go). Identifiers of calls are left out.          *)
EXTENDS Converter

\* The blocks in the order of their indexes. "last" is what has come of the arguments of
\* a tool, "pending" what could not be sent before its name, "json" that they came whole.
Block(kind, key) ==
    [kind |-> kind, key |-> key, name |-> 0, started |-> FALSE, pending |-> <<>>,
     last |-> <<>>, sent |-> FALSE, json |-> FALSE]

Prologue == <<Plain("message_start")>>
Start == [pc |-> "read", blocks |-> <<>>, stop |-> "end_turn",
          terminalSeen |-> FALSE, transportDone |-> FALSE]

Error(events) == Return(Append(events, Plain("error")), "eof")

\* startText, startThinking: the first piece of a kind starts its block.
Position(kind, key) == SelectInSeq(state.blocks, LAMBDA b : b.kind = kind /\ b.key = key)

Piece(kind) ==
    LET known == Position(kind, 0)
        index == IF known = 0 THEN Len(state.blocks) ELSE known - 1
        delta == BlockDelta(index, IF Incoming.item = "refusal" THEN "text" ELSE Incoming.item,
                            Incoming.piece, <<>>)
    IN  IF known = 0
        THEN Emit([state EXCEPT !.blocks = Append(@, Block(kind, 0))],
                  <<BlockStart(index, kind, 0), delta>>)
        ELSE Emit(state, <<delta>>)

Text == Reads("chunk") /\ Incoming.item \in {"text", "refusal"} /\ Piece("text")
Thinking == Reads("chunk") /\ Incoming.item \in {"think", "sign"} /\ Piece("thinking")

\* A block is announced when its name is known, with what has been pending.
Named(b, name) == IF name = 0 THEN b ELSE [b EXCEPT !.name = name]
Starts(b) == b.name # 0 /\ ~b.started
Announced(b) ==
    IF b.started \/ Starts(b) THEN [b EXCEPT !.started = TRUE, !.pending = <<>>] ELSE b
Announcement(b, index) ==
    (IF Starts(b) THEN <<BlockStart(index, "tool_use", b.name)>> ELSE <<>>)
    \o (IF (b.started \/ Starts(b)) /\ b.pending # <<>>
        THEN <<BlockDelta(index, "json", 0, b.pending)>> ELSE <<>>)

\* Mutant of Joined: all arguments are fragments.
JoinedAlways(b, args) == b.last \o args

\* Arguments that begin with all that preceded them replace it; others are a fragment.
Joined(b, args) == IF IsPrefix(b.last, args) THEN args ELSE b.last \o args

\* A fragment after complete arguments.
Excess(b, args) == b.json /\ ~ValidJSON(args)

\* Arguments that are valid before any has been sent are kept until the end.
Whole(b, args) == ~b.sent /\ ValidJSON(Joined(b, args))

Received(b, args) ==
    CASE b.json -> [b EXCEPT !.last = args]
      [] ~b.json /\ Whole(b, args) -> [b EXCEPT !.last = Joined(b, args), !.json = TRUE]
      [] OTHER ->
           LET delta == TrimPrefix(args, b.last) IN
             [b EXCEPT !.last = Joined(b, args), !.sent = @ \/ delta # <<>>,
                       !.pending = IF b.started THEN @ ELSE @ \o delta]
Delta(b, args, index) ==
    LET delta == TrimPrefix(args, b.last) IN
      IF b.json \/ Whole(b, args) \/ ~b.started \/ delta = <<>> THEN <<>>
      ELSE <<BlockDelta(index, "json", 0, delta)>>

Tool ==
    /\ Reads("chunk")
    /\ Incoming.item = "tool"
    /\ LET call == Incoming.call
           known == Position("tool_use", call.index)
           at == IF known = 0 THEN Len(state.blocks) + 1 ELSE known
           old == IF known = 0 THEN Block("tool_use", call.index) ELSE state.blocks[known]
           named == Named(old, call.name)
           told == Announcement(named, at - 1)
           block == Announced(named)
           With(b) == IF known = 0 THEN Append(state.blocks, b)
                      ELSE [state.blocks EXCEPT ![at] = b]
       IN  \/ call.args = <<>> /\ Emit([state EXCEPT !.blocks = With(block)], told)
           \/ /\ call.args # <<>> /\ Excess(block, call.args)
              /\ Error(told)
           \/ /\ call.args # <<>> /\ ~Excess(block, call.args)
              /\ Emit([state EXCEPT !.blocks = With(Received(block, call.args))],
                      told \o Delta(block, call.args, at - 1))

StopReason(finish) ==
    CASE finish = "tool_calls" -> "tool_use"
      [] finish = "length" -> "max_tokens"
      [] finish = "content_filter" -> "refusal"
      [] OTHER -> "end_turn"

Finish ==
    /\ Reads("chunk")
    /\ Incoming.finish # ""
    /\ Emit([state EXCEPT !.terminalSeen = TRUE, !.stop = StopReason(Incoming.finish)], <<>>)

Done == Reads("DONE") /\ Emit([state EXCEPT !.transportDone = TRUE], <<>>)

Fail == (Reads("error") \/ Reads("malformed")) /\ Error(<<>>)

Other == Reads("chunk") /\ Incoming.item = "role" /\ Skip

\* The blocks are closed: thinking, text and the tools. What is wrong with a tool ends
\* the stream with an error.
Wrong(b) == (b.json /\ ~b.started) \/ (b.last # <<>> /\ ~ValidJSON(b.last))
Stops(i) ==
    (IF state.blocks[i].json THEN <<BlockDelta(i - 1, "json", 0, state.blocks[i].last)>> ELSE <<>>)
    \o <<BlockStop(i - 1)>>
StopsOf(kind, upTo) ==
    FoldLeft(LAMBDA all, i : IF state.blocks[i].kind = kind THEN all \o Stops(i) ELSE all,
             <<>>, [i \in 1..upTo |-> i])

\* Mutant of Complete: the end marker of the transport is not asked for.
CompleteByFinish == state.terminalSeen

Complete == state.terminalSeen /\ state.transportDone

EndOfSource ==
    /\ Reads("eof")
    /\ LET plain == StopsOf("thinking", Len(state.blocks)) \o StopsOf("text", Len(state.blocks))
           wrong == SelectInSeq(state.blocks, Wrong)
       IN  IF ~Complete THEN Error(<<>>)
           ELSE IF wrong # 0 THEN Error(plain \o StopsOf("tool_use", wrong - 1))
           ELSE Return(plain \o StopsOf("tool_use", Len(state.blocks))
                       \o <<MessageDelta(state.stop), Plain("message_stop")>>, "eof")

SourceBroken == Reads("broken") /\ Error(<<>>)

Next ==
    \/ Text \/ Thinking \/ Tool \/ Finish \/ Done \/ Fail \/ Other
    \/ EndOfSource \/ SourceBroken

=============================================================================
