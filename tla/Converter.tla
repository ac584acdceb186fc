------------------------------ MODULE Converter ------------------------------
(* What the stream converters have in common: one goroutine reads a stream   *)
(* event by event and writes the events of another one. The module is the    *)
(* frame of the others; it is instantiated over the stream that is read, the *)
(* converter's local variables and the stream that is written.               *)
EXTENDS StreamProtocols

CONSTANT
    Written(_, _)  \* what the sink becomes by a write: a longer queue, or a client who has read it

VARIABLES
    source,  \* the events that the converter has not read yet
    state,   \* its local variables; "pc" is "read" or "done"
    sink,    \* where it writes: a pipe, or the client
    closed   \* the reader of the sink has gone

\* The next event is of this kind.
Incoming == Head(source)
Reads(e) == state.pc = "read" /\ source # <<>> /\ Incoming.ev = e

\* The event is consumed, the local variables become s and the events are
\* written; a write to a reader that has gone ends the converter.
Emit(s, events) ==
    /\ source' = Tail(source)
    /\ IF closed /\ events # <<>>
       THEN state' = [state EXCEPT !.pc = "done"] /\ UNCHANGED sink
       ELSE state' = s /\ sink' = Written(sink, events)

\* The converter writes its last events and returns; its reader then finds the
\* end of the stream, or an error.
Return(events, how) == Emit([state EXCEPT !.pc = "done"], Append(events, Plain(how)))

\* The event has no counterpart in the other protocol.
Skip == Emit(state, <<>>)

=============================================================================
