------------------------------ MODULE Metering ------------------------------
(***************************************************************************)
(* serving/metering.py: what the gateway does to a request so that the     *)
(* upstream counts its tokens, and how it reads the counts off a response  *)
(* while the client receives it.                                           *)
(*                                                                         *)
(* A byte is the kind of its line and its place in it, or a line feed: a   *)
(* line of kind k is <<k, 1>>, <<k, 2>>, a line feed, so a chunk may end   *)
(* anywhere in it.  What a data line says is what the meter asks of its    *)
(* JSON: whether it parses, the counts in it, choices, and text in them.   *)
(***************************************************************************)
EXTENDS Integers, Sequences, SequencesExt, FiniteSets, FiniteSetsExt

CONSTANTS
    Counts,    \* token counts an upstream reports
    MaxLines,  \* bound: chunks of a stream before its usage chunk
    MaxBody    \* _MAX_ACCUMULATE_BYTES

VARIABLE input  \* the request and the lines of its answer, or NoInput

ASSUME MeteringAssumption == Counts \subseteq Nat /\ MaxLines \in Nat /\ MaxBody \in Nat

LF == <<"lf", 0>>
Bytes(kind) == IF kind = "blank" THEN <<LF>> ELSE <<<<kind, 1>>, <<kind, 2>>, LF>>
Text(lines) == FlattenSeq([i \in 1..Len(lines) |-> Bytes(lines[i])])

NoCount == -1

\* A chunk of text; one whose usage is null; text and usage in one chunk (some
\* engines); the terminal chunk of usage alone; the end; a comment.
Says(kind) ==
    CASE kind = "text" -> [json |-> TRUE, usage |-> NoCount, choices |-> TRUE, content |-> TRUE]
      [] kind = "role" -> [json |-> TRUE, usage |-> NoCount, choices |-> TRUE, content |-> FALSE]
      [] kind = "both" -> [json |-> TRUE, usage |-> Min(Counts), choices |-> TRUE, content |-> TRUE]
      [] kind = "usage" -> [json |-> TRUE, usage |-> Max(Counts), choices |-> FALSE, content |-> FALSE]
      [] OTHER -> [json |-> FALSE, usage |-> NoCount, choices |-> FALSE, content |-> FALSE]

-----------------------------------------------------------------------------
(* The request. *)

(* A body: whether it is a JSON object, streams, and asks for usage:       *)
(* "unset" when stream_options does not say (or is no object).             *)
Requests == [object : BOOLEAN, stream : BOOLEAN, usage : {"unset", "yes", "no"}]

(* What goes upstream: the body, and whether the proxy added the request   *)
(* for usage.                                                              *)
PlanRequest(r) ==
    IF ~r.object THEN [body |-> r, streaming |-> FALSE, injected |-> FALSE]
    ELSE IF ~r.stream THEN [body |-> r, streaming |-> FALSE, injected |-> FALSE]
    ELSE IF r.usage # "unset" THEN [body |-> r, streaming |-> TRUE, injected |-> FALSE]
    ELSE [body |-> [r EXCEPT !.usage = "yes"], streaming |-> TRUE, injected |-> TRUE]

-----------------------------------------------------------------------------
(* ResponseMeter. *)

NewMeter(plan) ==
    [streaming |-> plan.streaming, suppress |-> plan.injected, buffer |-> << >>,
     body |-> << >>, truncated |-> FALSE, usage |-> NoCount, deltas |-> 0,
     drop |-> FALSE, out |-> << >>]

\* A line reads as its kind when both its bytes are there.
KindOf(line) ==
    LET s == SelectSeq(line, LAMBDA b : b # LF)
    IN  IF Len(s) = 2 /\ s[1][1] = s[2][1] /\ s[1][2] = 1 THEN s[1][1] ELSE "garbled"

(* Mutant: usage is suppressed whatever else the chunk carries.            *)
InspectAnyUsage(m, line) ==
    LET said == Says(KindOf(line))
    IN  IF ~said.json THEN [m |-> m, suppress |-> FALSE]
        ELSE IF said.usage # NoCount
             THEN [m |-> [m EXCEPT !.usage = said.usage], suppress |-> m.suppress]
        ELSE [m |-> [m EXCEPT !.deltas = @ + IF said.content THEN 1 ELSE 0], suppress |-> FALSE]

\* _inspect_sse_line: counts what the line says; whether to hold it back.
InspectSSELine(m, line) ==
    LET said == Says(KindOf(line))
    IN  IF ~said.json THEN [m |-> m, suppress |-> FALSE]
        ELSE IF said.usage # NoCount
             THEN [m |-> [m EXCEPT !.usage = said.usage],
                   suppress |-> m.suppress /\ ~said.choices]
        ELSE [m |-> [m EXCEPT !.deltas = @ + IF said.content THEN 1 ELSE 0], suppress |-> FALSE]

\* _forward_line: a held back line takes the blank line after it along.
ForwardLine(m, line) ==
    LET seen == InspectSSELine(m, line)
    IN  IF line = <<LF>>
        THEN IF m.drop THEN [m EXCEPT !.drop = FALSE] ELSE [m EXCEPT !.out = @ \o line]
        ELSE IF seen.suppress THEN [seen.m EXCEPT !.drop = TRUE]
        ELSE [seen.m EXCEPT !.drop = FALSE, !.out = @ \o line]

\* _feed_sse: every line that is complete.
FeedSSE(m, chunk) ==
    LET byte(acc, b) ==
            IF b = LF THEN ForwardLine([acc EXCEPT !.buffer = << >>], Append(acc.buffer, b))
                      ELSE [acc EXCEPT !.buffer = Append(@, b)]
    IN  FoldLeft(byte, m, chunk)

\* feed: a body that is not streamed is kept as long as it is not too long.
FeedChunk(m, chunk) ==
    IF m.streaming THEN FeedSSE(m, chunk)
    ELSE LET over == m.truncated \/ Len(m.body) + Len(chunk) > MaxBody
         IN  [m EXCEPT !.out = @ \o chunk, !.truncated = over,
                       !.body = IF over THEN << >> ELSE @ \o chunk]

\* finish: what is left in the buffer is counted and forwarded as it is.
Finish(m) ==
    IF ~m.streaming
    THEN [m EXCEPT !.usage =
            IF m.truncated THEN @
            ELSE Says(KindOf(m.body)).usage]
    ELSE IF m.buffer = << >> THEN m
    ELSE [InspectSSELine(m, m.buffer).m EXCEPT !.out = @ \o m.buffer, !.buffer = << >>]

Tokens(m) == IF m.usage # NoCount THEN m.usage ELSE m.deltas
Exact(m) == m.usage # NoCount

\* The meter after the chunks; cuts are the places where a chunk ends.
Metered(plan, text, cuts) ==
    LET step(st, i) ==
            IF i \in cuts \cup {Len(text)}
            THEN [m |-> FeedChunk(st.m, Append(st.chunk, text[i])), chunk |-> << >>]
            ELSE [st EXCEPT !.chunk = Append(@, text[i])]
        read == FoldLeft(step, [m |-> NewMeter(plan), chunk |-> << >>],
                         [i \in 1..Len(text) |-> i])
    IN  Finish(Finish(read.m))

-----------------------------------------------------------------------------
(* Properties. *)

Kinds == {"text", "role", "both", "comment"}
\* In one piece, in two or three, and byte by byte.
Cuttings(n) == {{}, 1..n} \cup {{c[1], c[2]} : c \in (1..n) \X (1..n)}
Streams == UNION {[1..n -> Kinds] : n \in 0..MaxLines}

\* What an upstream answers to a body: usage alone when it was asked for.
Upstream(body, lines) ==
    IF body.stream /\ body.object
    THEN FlattenSeq([i \in 1..Len(lines) |-> <<lines[i], "blank">>])
         \o (IF body.usage = "yes" THEN <<"usage", "blank">> ELSE << >>)
         \o <<"done", "blank">>
    ELSE <<"both">>

NoInput == [request |-> CHOOSE r \in Requests : TRUE, lines |-> <<"none">>]

\* The inputs the meter is evaluated on: one state each.
Inputs == [request : Requests, lines : Streams]

Plan == PlanRequest(input.request)
Sent == Text(Upstream(Plan.body, input.lines))

(* "byte-identical stream from the client's side": however the stream is   *)
(* cut into chunks, the client receives what the upstream would have       *)
(* answered to the body the client sent.                                   *)
ByteIdentical ==
    input # NoInput =>
        \A cuts \in Cuttings(Len(Sent) - 1) :
            Metered(Plan, Sent, cuts).out = Text(Upstream(input.request, input.lines))

(* What is billed for a stream does not depend on where its chunks end,    *)
(* nor on where it breaks off: it is the last count that arrived whole,    *)
(* and without one the chunks of text, flagged as an estimate.             *)
BilledAsRead ==
    input # NoInput /\ Plan.streaming =>
        \A n \in 0..Len(Sent) :
            LET text == SubSeq(Sent, 1, n)
                whole == {i \in 2..n : text[i][2] = 2}
                counted == {i \in whole : Says(text[i][1]).usage # NoCount}
                words == {i \in whole : Says(text[i][1]).content /\ i \notin counted}
            IN  \A cuts \in Cuttings(n - 1) :
                    LET m == Metered(Plan, text, cuts)
                    IN  /\ Exact(m) = (counted # {})
                        /\ Tokens(m) = IF counted = {} THEN Cardinality(words)
                                       ELSE Says(text[Max(counted)][1]).usage

(* The meter only listens: the client sees what it would have seen without *)
(* it, and it hears what was said, however the stream is cut.              *)
MeterOnlyListens == ByteIdentical /\ BilledAsRead

=============================================================================
