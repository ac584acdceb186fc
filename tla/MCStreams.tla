------------------------------- MODULE MCStreams -------------------------------
(* The two things that happen to a streamed answer, each on its own: what the *)
(* finalizer makes of the bytes that are read (StreamFinalizer, over an       *)
(* alphabet of three bytes) and what the converters make of the events        *)
(* (Conversion).                                                              *)
EXTENDS StreamFinalizer, TLC

CONSTANTS newline, e, d, MaxItems, MaxCalls

VARIABLES machine, route, upstream, input, first, mid, last, client, gone

\* One terminal event; its first byte occurs in it twice.
OneMarker == {<<e, e, d>>}

\* All converters, but of the paths that differ in the first converter or in the style
\* only, those that the last one tells apart.
SomeRoutes(r) ==
    CASE r.by = "CG" -> r.from = "chat"
      [] r.by = "GC" -> r.style # "names"
      [] r.by = "GR" -> r.style # "ids"
      [] r.by = "GA" -> r.style = "names"
      [] OTHER -> TRUE

Converters == INSTANCE Conversion WITH Selected <- SomeRoutes

answerVars == <<route, upstream, input, first, mid, last, client, gone>>
eachVars == <<machine, vars, answerVars>>

\* The machine that does not move has nothing left to do.
Idle ==
    /\ route = CHOOSE r \in Converters!AllRoutes : r.via = "none"
    /\ upstream = Converters!After(Converters!NewUpstream(route.from), route.style, [ev |-> "eof"])
    /\ input = <<>> /\ mid = <<>>
    /\ first = [pc |-> "done"] /\ last = [pc |-> "done"]
    /\ client = Converters!NewReader(route.to) /\ gone = FALSE
Finalized ==
    /\ body = [kind |-> "plain", operation |-> FALSE, tail |-> <<>>,
               finalized |-> FALSE, closed |-> TRUE, refreshed |-> TRUE]
    /\ text = <<>> /\ ended = TRUE /\ cancelled = FALSE
    /\ effects = <<"usage", "healthy", "enqueue">>

EachInit ==
    \/ machine = "finalizer" /\ Init /\ Idle
    \/ machine = "converters" /\ Converters!Init /\ Finalized

\* A closed body stays closed.
EachNext ==
    \/ machine = "finalizer" /\ Next /\ UNCHANGED <<machine, answerVars>>
    \/ machine = "finalizer" /\ body.closed /\ UNCHANGED eachVars
    \/ machine = "converters" /\ Converters!Next /\ UNCHANGED <<machine, vars>>

EachSpec == EachInit /\ [][EachNext]_eachVars /\ Converters!Fairness

\* The variables of both machines have their types.
EachTypeOK == TypeOK /\ Converters!TypeOK

\* A client gets events by the rules of its protocol, all of them if the answer is whole.
WellFormed == Converters!WellFormed

\* No converter fails a whole answer.
WholeAnswerArrives == Converters!WholeAnswerArrives

\* The converters implement the abstract relay.
Relayed == Converters!Relayed

\* No goroutine or handler of a stream that is over stays behind.
EveryStreamEnds == Converters!EveryStreamEnds

=============================================================================
