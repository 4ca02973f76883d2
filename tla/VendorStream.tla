----------------------------- MODULE VendorStream -----------------------------
(***************************************************************************)
(* One vendor call of a gateway (crates/gateway/vendor.rs) and what becomes*)
(* of its answer (crates/gateway/streaming.rs): the answer arrives line by *)
(* line and can break off anywhere; it is parsed into server-sent events,  *)
(* the final body is taken from them, both go into one cached object, and  *)
(* later clients, streaming or not, are answered from that object.         *)
(*                                                                         *)
(* A line is [field, value]: an event line has the name as its value, a    *)
(* data line a piece of JSON text, a blank line and any other line nothing.*)
(* Pieces keep their order and their line breaks when they are joined.     *)
(* A plain response never carries the type marker of a stored stream.      *)
(***************************************************************************)
EXTENDS Integers, Sequences, FiniteSets, SequencesExt

CONSTANTS
  Lines,        \* the lines a vendor may send
  Documents,    \* the JSON documents: the sequences of pieces that parse
  Wrapped,      \* those that are an object with a member "response"
  MaxLines      \* bound on the length of a response

ASSUME DocumentsAssumption == Wrapped \subseteq Documents

VARIABLES
  streaming,    \* the client asked for a stream
  phase,        \* where the call is
  text,         \* the lines received so far
  outcome,      \* what the call returned
  object,       \* the cached object, NoObject before it is written
  replay        \* what a later client got from the object

vars == <<streaming, phase, text, outcome, object, replay>>

NoName == "none"
Completed == "response.completed"
NoValue == <<>>

Pending == [result |-> "pending", events |-> <<>>, body |-> NoValue]
Error(why) == [result |-> why, events |-> <<>>, body |-> NoValue]
Ok(events, body) == [result |-> "ok", events |-> events, body |-> body]
NoObject == [marker |-> "absent", events |-> <<>>, body |-> NoValue]

-----------------------------------------------------------------------------
(* parse_sse_events: a fold over the lines, and a flush at the end.        *)

Fresh == [events |-> <<>>, name |-> NoName, data |-> <<>>]

\* Mutant: an event without data keeps its name for the next one.
FlushSseEvent_KeepsName(p) ==
  IF p.data = <<>> THEN p
  ELSE [events |-> Append(p.events, [name |-> p.name, data |-> p.data]), name |-> NoName, data |-> <<>>]

FlushSseEvent(p) ==
  IF p.data = <<>> THEN [p EXCEPT !.name = NoName]
  ELSE [events |-> Append(p.events, [name |-> p.name, data |-> p.data]), name |-> NoName, data |-> <<>>]

ParseLine(p, line) ==
  CASE line.field = "blank" -> FlushSseEvent(p)
    [] line.field = "event" -> [p EXCEPT !.name = line.value]
    [] line.field = "data" -> [p EXCEPT !.data = Append(@, line.value)]
    [] OTHER -> p

ParseSseEvents(lines) == FlushSseEvent(FoldLeft(ParseLine, Fresh, lines)).events

-----------------------------------------------------------------------------
(* collect_stream and aggregate_final_body. *)

\* The member "response" of an object that has one, any other value itself.
FinalValue(doc) == IF doc \in Wrapped THEN <<"response", doc>> ELSE <<"value", doc>>

\* NoValue: there is no completed event, or its data is not JSON.
AggregateFinalBody(events) ==
  LET i == SelectLastInSeq(events, LAMBDA e : e.name = Completed)
  IN  IF i = 0 \/ events[i].data \notin Documents THEN NoValue ELSE FinalValue(events[i].data)

CollectStream(events) ==
  IF events = <<>> \/ AggregateFinalBody(events) = NoValue THEN Error("invalid")
  ELSE Ok(events, AggregateFinalBody(events))

-----------------------------------------------------------------------------
(* The call. *)

Init ==
  /\ streaming \in BOOLEAN
  /\ phase = "called"
  /\ text = <<>>
  /\ outcome = Pending
  /\ object = NoObject
  /\ replay = [as |-> "nobody", got |-> Pending]

Return(result) ==
  /\ phase' = "returned"
  /\ outcome' = result
  /\ UNCHANGED <<streaming, text, object, replay>>

\* A status that is not a success ends the call, whatever its body.
HttpStatus ==
  /\ phase = "called"
  /\ Return(Error("status"))

Success ==
  /\ phase = "called"
  /\ phase' = "receiving"
  /\ UNCHANGED <<streaming, text, outcome, object, replay>>

\* No connection or a timeout, or a body that breaks off: response.json reports
\* that as invalid, response.text as a transport error.
Transport ==
  /\ phase \in {"called", "receiving"}
  /\ Return(Error(IF phase = "receiving" /\ ~streaming THEN "invalid" ELSE "transport"))

ReceiveLine(line) ==
  /\ phase = "receiving"
  /\ Len(text) < MaxLines
  /\ text' = Append(text, line)
  /\ UNCHANGED <<streaming, phase, outcome, object, replay>>

\* The end of a streaming response. Nothing tells an orderly end from a vendor
\* that stopped early: the last event counts without a blank line after it.
EndOfStream ==
  /\ phase = "receiving"
  /\ streaming
  /\ Return(CollectStream(ParseSseEvents(text)))

\* The end of a plain response: its lines, joined, are a document or not.
EndOfBody ==
  /\ phase = "receiving"
  /\ ~streaming
  /\ LET doc == [i \in DOMAIN text |-> text[i].value]
     IN  Return(IF doc \in Documents THEN Ok(<<>>, <<"value", doc>>) ELSE Error("invalid"))

\* Mutant: only the final body is stored.
Store_BodyOnly ==
  /\ phase = "returned"
  /\ outcome.result = "ok"
  /\ object' = [marker |-> "none", events |-> <<>>, body |-> outcome.body]
  /\ phase' = "stored"
  /\ UNCHANGED <<streaming, text, outcome, replay>>

\* write_cached_body or serialize_stream_object, once the call succeeded.
Store ==
  /\ phase = "returned"
  /\ outcome.result = "ok"
  /\ object' = [marker |-> IF streaming THEN "stream" ELSE "none", events |-> outcome.events,
                body |-> outcome.body]
  /\ phase' = "stored"
  /\ UNCHANGED <<streaming, text, outcome, replay>>

\* cached_body_from_bytes
ReplayBody ==
  /\ phase = "stored"
  /\ replay' = [as |-> "plain", got |-> Ok(<<>>, object.body)]
  /\ phase' = "replayed"
  /\ UNCHANGED <<streaming, text, outcome, object>>

\* stream_object_from_bytes: an object without the marker is a miss.
ReplayStream ==
  /\ phase = "stored"
  /\ replay' = [as |-> "stream", got |-> IF object.marker = "stream" THEN Ok(object.events, object.body)
                                         ELSE Pending]
  /\ phase' = "replayed"
  /\ UNCHANGED <<streaming, text, outcome, object>>

Next ==
  \/ HttpStatus \/ Success \/ Transport
  \/ \E line \in Lines : ReceiveLine(line)
  \/ EndOfStream \/ EndOfBody
  \/ Store \/ ReplayBody \/ ReplayStream

Spec == Init /\ [][Next]_vars

-----------------------------------------------------------------------------
(* What a stream says, read off the whole text: events are the blocks      *)
(* between blank lines that have data, named by their last event line.     *)

Cuts(lines) == {0, Len(lines) + 1} \cup {i \in DOMAIN lines : lines[i].field = "blank"}

BlockFrom(lines, a) ==
  LET b == CHOOSE c \in Cuts(lines) : c > a /\ \A d \in Cuts(lines) : d > a => d >= c
  IN  SubSeq(lines, a + 1, b - 1)

LinesOf(block, field) == {i \in DOMAIN block : block[i].field = field}

Rank(i, positions) == Cardinality({j \in positions : j <= i})

EventOf(block) ==
  LET names == LinesOf(block, "event")
      data == LinesOf(block, "data")
      Nth(n) == CHOOSE i \in data : Rank(i, data) = n
  IN  [name |-> IF names = {} THEN NoName ELSE block[Max(names)].value,
       data |-> [n \in 1..Cardinality(data) |-> block[Nth(n)].value]]

Starts(lines) ==
  {a \in Cuts(lines) : a <= Len(lines) /\ EventOf(BlockFrom(lines, a)).data # <<>>}

\* A streaming call returns exactly the events of the text, in order, and with
\* them the body of the last response.completed among them; it fails if there is
\* no such event or it is cut short, so that nothing but a complete response is
\* returned or, by write_cached_stream_object, kept.
StreamDecoded ==
  streaming /\ outcome.result \in {"ok", "invalid"} =>
    LET starts == Starts(text)
        Event(a) == EventOf(BlockFrom(text, a))
        done == {a \in starts : Event(a).name = Completed}
        last == CHOOSE a \in done : \A b \in done : b <= a
        body == Event(last).data
    IN  IF done # {} /\ body \in Documents
        THEN /\ outcome.result = "ok"
             /\ Len(outcome.events) = Cardinality(starts)
             /\ \A a \in starts : outcome.events[Rank(a, starts)] = Event(a)
             /\ outcome.body = FinalValue(body)
        ELSE outcome.result = "invalid" /\ object = NoObject

\* Whoever is answered from the cache gets what the first client got: a plain
\* client the same body, a streaming client the same events and body, or a miss
\* when the first client was not streaming; and only a whole answer is replayed.
ReplayFaithful ==
  /\ replay.as # "nobody" => outcome.result = "ok"
  /\ replay.as = "plain" => replay.got.body = outcome.body
  /\ replay.as = "stream" => replay.got = IF streaming THEN outcome ELSE Pending

=============================================================================
