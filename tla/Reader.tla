-------------------------------- MODULE Reader --------------------------------
(* A reader of a stream in one of the protocols: what it has understood so   *)
(* far, whether the stream is a whole answer, and whether it has kept to the *)
(* protocol. The clients are such readers, and so is the account of what the *)
(* upstream has sent.                                                        *)
EXTENDS StreamProtocols

Candidates == {0, 1}

\* The words, the thoughts and, by their index, the calls of one candidate; how it ended:
\* "length" and "filter" cut it short.
Nothing == [words |-> <<>>, thoughts |-> <<>>, calls |-> <<>>, cut |-> ""]

Cut(reason) ==
    CASE reason \in {"length", "max_tokens", "MAX_TOKENS"} -> "length"
      [] reason \in {"content_filter", "refusal", "SAFETY"} -> "filter"
      [] OTHER -> "ended"

\* "parts" are the blocks or output items by their index, "marked" that the last event of
\* the protocol has come, "over" how the stream ended.
NewReader(protocol) ==
    [protocol |-> protocol, answer |-> [c \in Candidates |-> Nothing], seen |-> {}, begun |-> FALSE, parts |-> <<>>,
     marked |-> FALSE, over |-> "", faulty |-> FALSE, bad |-> FALSE]

Update(f, k, v) == (k :> v) @@ f

\* A piece of text, a fragment of the arguments of a call and the end, of one candidate.
Word(r, c, piece) == [r EXCEPT !.answer[c].words = Append(@, piece)]
Thought(r, c, piece) == [r EXCEPT !.answer[c].thoughts = Append(@, piece)]
CallOf(r, c, k) == IF k \in DOMAIN r.answer[c].calls THEN r.answer[c].calls[k] ELSE [name |-> 0, args |-> <<>>]
Named(r, c, k, name) ==
    [r EXCEPT !.answer[c].calls =
        Update(@, k, [CallOf(r, c, k) EXCEPT !.name = IF name = 0 THEN @ ELSE name])]
Argument(r, c, k, args) ==
    [r EXCEPT !.answer[c].calls = Update(@, k, [CallOf(r, c, k) EXCEPT !.args = @ \o args])]
Ends(r, c, reason) ==
    IF reason = "" THEN r
    ELSE [r EXCEPT !.answer[c].cut = Cut(reason), !.bad = @ \/ r.answer[c].cut # ""]
Bad(r, condition) == [r EXCEPT !.bad = @ \/ condition]

-----------------------------------------------------------------------------
(* Chat Completions: calls have the next index when they start; nothing follows *)
(* the end of a candidate. In the "cumulative" style the arguments so far are   *)
(* repeated in every event.                                                     *)
ReadChunk(r, style, e) ==
    LET c == e.cand
        calls == r.answer[c].calls
        s == Bad([r EXCEPT !.seen = @ \union {c}], r.answer[c].cut # "" /\ e.item # "role")
        named == Bad(Named(s, c, e.call.index, e.call.name),
                     e.call.index \notin DOMAIN calls /\ e.call.index # Cardinality(DOMAIN calls))
        had == CallOf(r, c, e.call.index).args
        new == IF style = "cumulative" THEN TrimPrefix(e.call.args, had) ELSE e.call.args
    IN  CASE e.item \in {"text", "refusal"} /\ e.piece > 0 -> Word(s, c, e.piece)
          [] e.item = "think" -> Thought(s, c, e.piece)
          [] e.item = "tool" -> Argument(named, c, e.call.index, new)
          [] OTHER -> Ends(s, c, e.finish)

-----------------------------------------------------------------------------
(* Anthropic Messages: deltas stay within an open block of their kind; at the end *)
(* all blocks are closed.                                                         *)
BlockOf(kind) == CASE kind = "text" -> "text" [] kind \in {"think", "sign"} -> "thinking" [] OTHER -> "tool_use"
OpenBlock(r, index) == index \in DOMAIN r.parts /\ r.parts[index].open
SomeOpen(r) == \E i \in DOMAIN r.parts : r.parts[i].open

ReadAnthropic(r, e) ==
    CASE e.ev = "message_start" -> Bad([r EXCEPT !.begun = TRUE], r.begun)
      [] e.ev = "block_start" ->
           LET s == Bad([r EXCEPT !.parts = Update(@, e.index, [kind |-> e.kind, open |-> TRUE])],
                        ~r.begun \/ e.index \in DOMAIN r.parts \/ r.answer[0].cut # "")
           IN  IF e.kind = "tool_use" THEN Named(s, 0, e.index, e.name) ELSE s
      [] e.ev = "block_delta" ->
           LET s == Bad(r, ~OpenBlock(r, e.index) \/ r.parts[e.index].kind # BlockOf(e.kind))
           IN  CASE e.kind = "text" -> Word(s, 0, e.piece)
                 [] e.kind = "think" -> Thought(s, 0, e.piece)
                 [] e.kind = "json" -> Argument(s, 0, e.index, e.args)
                 [] OTHER -> s
      [] e.ev = "block_stop" ->
           IF OpenBlock(r, e.index) THEN [r EXCEPT !.parts[e.index].open = FALSE] ELSE Bad(r, TRUE)
      [] e.ev = "message_delta" -> Bad(Ends(r, 0, e.stop), SomeOpen(r))
      [] OTHER -> r

-----------------------------------------------------------------------------
(* Responses: items are added with the next index; deltas stay within an item    *)
(* that is not done; a done item and the last event repeat what was sent before. *)
(* Signatures have no deltas.                                                    *)
ItemOf(kind) == CASE kind \in {"text", "refusal"} -> "message" [] kind = "think" -> "reasoning" [] OTHER -> kind
OpenItem(r, index) == index \in DOMAIN r.parts /\ ~r.parts[index].done

ReadResponses(r, e) ==
    CASE e.ev = "created" -> Bad([r EXCEPT !.begun = TRUE], r.begun)
      [] e.ev = "item_added" ->
           LET s == Bad([r EXCEPT !.parts = Update(@, e.index, [item |-> Item(e.kind, e.name, NoPieces, <<>>), done |-> FALSE])],
                        ~r.begun \/ e.index # Cardinality(DOMAIN r.parts))
           IN  IF e.kind = "function_call" THEN Named(s, 0, e.index, e.name) ELSE s
      [] e.ev = "item_delta" ->
           LET ok == OpenItem(r, e.index) /\ r.parts[e.index].item.kind = ItemOf(e.kind)
               s == IF ~ok THEN Bad(r, TRUE)
                    ELSE IF e.kind = "function_call" THEN [r EXCEPT !.parts[e.index].item.args = @ \o e.args]
                    ELSE [r EXCEPT !.parts[e.index].item.pieces[e.kind] = Append(@, e.piece)]
           IN  CASE e.kind \in {"text", "refusal"} -> Word(s, 0, e.piece)
                 [] e.kind = "think" -> Thought(s, 0, e.piece)
                 [] OTHER -> Argument(s, 0, e.index, e.args)
      [] e.ev = "item_done" ->
           IF OpenItem(r, e.index)
           THEN Bad([r EXCEPT !.parts[e.index].done = TRUE, !.parts[e.index].item.pieces["sign"] = e.item.pieces["sign"]],
                    [e.item EXCEPT !.pieces["sign"] = <<>>] # r.parts[e.index].item)
           ELSE Bad(r, TRUE)
      [] e.ev = "completed" ->
           Bad(Ends(r, 0, e.status),
               \/ Len(e.output) # Cardinality(DOMAIN r.parts)
               \/ \E i \in DOMAIN e.output : OpenItem(r, i - 1) \/ r.parts[i - 1].item # e.output[i])
      [] OTHER -> r

-----------------------------------------------------------------------------
(* Gemini: nothing follows the end of a candidate. *)
ReadPart(r, c, p) ==
    CASE p.kind = "text" -> Word(r, c, p.piece)
      [] p.kind = "think" -> Thought(r, c, p.piece)
      [] OTHER -> LET k == Cardinality(DOMAIN r.answer[c].calls)
                  IN  Argument(Named(r, c, k, p.call.name), c, k, p.call.args)
ReadGemini(r, e) ==
    CASE e.ev = "candidate" ->
           Ends(FoldLeft(LAMBDA s, p : ReadPart(s, e.cand, p),
                         Bad([r EXCEPT !.seen = @ \union {e.cand}], r.answer[e.cand].cut # ""), e.parts),
                e.cand, e.finish)
      [] e.ev = "blocked" -> Ends([r EXCEPT !.seen = @ \union {0}], 0, "SAFETY")
      [] OTHER -> r

-----------------------------------------------------------------------------
(* One event. A reader stops at the event that ends an answer in its protocol. *)

Marks == [chat |-> {"DONE"}, anthropic |-> {"message_stop", "error"},
          responses |-> {"completed", "failed"}, gemini |-> {}]
Faults == {"error", "failed", "malformed", "several"}

Understand(r, style, e) ==
    CASE r.protocol = "chat" -> IF e.ev = "chunk" THEN ReadChunk(r, style, e) ELSE r
      [] r.protocol = "anthropic" -> ReadAnthropic(r, e)
      [] r.protocol = "responses" -> ReadResponses(r, e)
      [] r.protocol = "gemini" -> ReadGemini(r, e)

Read(r, style, e) ==
    IF e.ev \in {"eof", "broken"} THEN [r EXCEPT !.over = e.ev]
    ELSE IF r.marked THEN r
    ELSE [Understand(r, style, e) EXCEPT
            !.marked = e.ev \in Marks[r.protocol], !.faulty = @ \/ e.ev \in Faults]

AllEnd(r) == \A c \in r.seen : r.answer[c].cut # ""

\* The stream is a whole answer. The Gemini protocol has no last event: there an answer is
\* whole when every candidate that was seen has ended.
Whole(r) ==
    /\ ~r.faulty
    /\ CASE r.protocol = "gemini" -> r.over = "eof" /\ r.seen # {} /\ AllEnd(r)
         [] r.protocol = "chat" -> r.marked /\ \E c \in r.seen : r.answer[c].cut # ""
         [] OTHER -> r.marked

\* What a client takes it for.
Outcome(r) ==
    IF Whole(r) THEN "whole" ELSE IF r.marked \/ r.over # "" THEN "failed" ELSE "open"

\* Calls are compared by name and arguments, in the order of their indexes.
InOrder(calls) ==
    [i \in 1..Cardinality(DOMAIN calls) |->
        calls[CHOOSE k \in DOMAIN calls : Cardinality({j \in DOMAIN calls : j < k}) = i - 1]]

=============================================================================
