--------------------------- MODULE StreamProtocols ---------------------------
(* The events of the four streaming protocols the gateway speaks, as far as  *)
(* the converters tell them apart. Texts are numbered pieces; the arguments  *)
(* of a tool call are a string over brackets, an object in which at most one *)
(* member is again such an object; usage numbers, identifiers of messages    *)
(* and timestamps are left out.                                              *)
EXTENDS Integers, Sequences, SequencesExt, FiniteSets

\* Events without content. "eof" and "broken" are how a stream ends for its
\* reader: at its end, or with an error of the transport.
Plain(e) == [ev |-> e]

\* One tool call, or a part of one, in a chunk. Number 0 stands for an absent
\* id or name.
Call(index, id, name, args) == [index |-> index, id |-> id, name |-> name, args |-> args]
NoCall == Call(0, 0, 0, <<>>)

\* Chat Completions: one item of the delta of one choice.
Chunk(cand, item, piece, call, finish) ==
    [ev |-> "chunk", cand |-> cand, item |-> item, piece |-> piece, call |-> call, finish |-> finish]
TextChunk(item, piece) == Chunk(0, item, piece, NoCall, "")
ToolChunk(call) == Chunk(0, "tool", 0, call, "")
FinishChunk(reason) == Chunk(0, "none", 0, NoCall, reason)

\* Anthropic Messages: blocks with an index.
BlockStart(index, kind, name) == [ev |-> "block_start", index |-> index, kind |-> kind, name |-> name]
BlockDelta(index, kind, piece, args) ==
    [ev |-> "block_delta", index |-> index, kind |-> kind, piece |-> piece, args |-> args]
BlockStop(index) == [ev |-> "block_stop", index |-> index]
MessageDelta(stop) == [ev |-> "message_delta", stop |-> stop]

\* Responses: output items with an index; the last event holds all of them. The pieces
\* of an item are kept by their kind.
TextKinds == {"text", "refusal", "think", "sign"}
NoPieces == [kind \in TextKinds |-> <<>>]
Item(kind, name, pieces, args) == [kind |-> kind, name |-> name, pieces |-> pieces, args |-> args]
ItemAdded(index, kind, name) == [ev |-> "item_added", index |-> index, kind |-> kind, name |-> name]
ItemDelta(index, kind, piece, args) ==
    [ev |-> "item_delta", index |-> index, kind |-> kind, piece |-> piece, args |-> args]
ItemDone(index, item) == [ev |-> "item_done", index |-> index, item |-> item]
Completed(status, output) == [ev |-> "completed", status |-> status, output |-> output]

\* Gemini: the parts of one candidate; a part may carry a signature.
Part(kind, piece, sign, call) == [kind |-> kind, piece |-> piece, sign |-> sign, call |-> call]
Candidate(cand, parts, finish) ==
    [ev |-> "candidate", cand |-> cand, parts |-> parts, finish |-> finish]

-----------------------------------------------------------------------------
(* Arguments of a tool. *)

Open == "{"
Close == "}"
Object(depth) == [i \in 1..(2 * depth) |-> IF i <= depth THEN Open ELSE Close]

\* json.Valid for such strings.
ValidJSON(s) == \E depth \in 1..Len(s) : s = Object(depth)

\* strings.TrimPrefix(s, p).
TrimPrefix(s, p) == IF IsPrefix(p, s) THEN SubSeq(s, Len(p) + 1, Len(s)) ELSE s

-----------------------------------------------------------------------------
(* Sequences of events. *)

Select(s, Test(_)) == SelectSeq(s, Test)
Concat(s, Value(_)) == FoldLeft(LAMBDA all, x : all \o Value(x), <<>>, s)

=============================================================================
