---------------------------- MODULE EventSource ----------------------------
(***************************************************************************)
(* A source of server-sent events (tokio-cronet/src/sse.rs): the           *)
(* incremental parser of text/event-stream, fed with whatever chunks the   *)
(* response body yields, and the connection, which an auto-reconnecting    *)
(* source replaces when it ends or fails.                                  *)
(*                                                                         *)
(* The server sends tokens: "CR", "LF", a byte order mark, or a piece of   *)
(* text that is a line of one field when it stands at the beginning of a   *)
(* line, and part of that field's value when it does not.  A token is      *)
(* known by its number, so that the value of a field is the number of the  *)
(* token it begins with.                                                   *)
(***************************************************************************)
EXTENDS Naturals, Sequences, FiniteSets, SequencesExt

CONSTANTS
  Kinds,      \* of tokens: "CR", "LF", "bom", "data", "id", "event" and "other"
              \* (a comment, retry or a field that is not known)
  MaxTokens,  \* bound: tokens sent over all connections
  MaxMark,    \* bound: the last position of a byte order mark in the stream of a
              \* connection
  MaxChunk,   \* bound: tokens in a chunk
  MaxConnects \* bound: connections

ASSUME EventSourceAssumption ==
  /\ Kinds \subseteq {"CR", "LF", "bom", "data", "id", "event", "other"}
  /\ MaxTokens \in Nat /\ MaxMark \in Nat /\ MaxChunk \in Nat \ {0} /\ MaxConnects \in Nat \ {0}

VARIABLES
  auto,     \* auto_reconnect
  body,     \* EventSource::body: "open", "ended" or "none"
  canceled, \* cancel() was called on it
  call,     \* where next_event stands: "idle", "reading", "sleeping" or "sending"
  answer,   \* its last answer that is no event: "none", "error" or "end"
  parser,   \* SseParser
  pending,  \* EventSource::pending
  received, \* the events the consumer got
  given,    \* EventSourceBuilder::last_event_id
  asked,    \* the last-event-id headers of the request that is under way
  connects, \* connections made
  tokens,   \* tokens sent
  stream,   \* what this connection has sent
  past,     \* the events earlier connections sent
  tainted   \* a boundary of a chunk or a connection has changed the events

calling == <<call, answer>>
events == <<parser, pending, received>>
wire == <<given, connects, tokens, stream, past, tainted>>
vars == <<auto, body, canceled, calling, events, asked, wire>>

None == 0
GivenId == MaxTokens + 1   \* an id that is not the server's
Fresh == [buffer |-> <<>>, event |-> None, data |-> <<>>, id |-> None, last |-> None]

\* The last-event-id header of a request, if there is an id.
Header(id) == IF id = None THEN <<>> ELSE <<id>>

\* EventSourceBuilder::open
Init ==
  /\ auto \in BOOLEAN
  /\ body = "open" /\ canceled = FALSE
  /\ call = "idle" /\ answer = "none"
  /\ given \in {None, GivenId}
  /\ parser = [Fresh EXCEPT !.last = given] /\ pending = <<>> /\ received = <<>>
  /\ asked = <<>> /\ connects = 1
  /\ tokens = 0 /\ stream = <<>> /\ past = <<>> /\ tainted = FALSE

-----------------------------------------------------------------------------
(* The parser.                                                             *)

Ends(token) == token.kind \in {"CR", "LF"}

\* dispatch: an empty line.  Without data the event and id are forgotten.
Dispatch(p) ==
  IF p.data = <<>>
    THEN [parser |-> [p EXCEPT !.event = None, !.id = None], events |-> <<>>]
    ELSE [parser |-> [p EXCEPT !.event = None, !.data = <<>>, !.id = None,
                               !.last = IF p.id = None THEN p.last ELSE p.id],
          events |-> <<[id |-> p.id, event |-> p.event, data |-> p.data]>>]

\* Mutant: an id counts from its line on.
FieldAtOnce(p, token) ==
  CASE token.kind = "data"  -> [p EXCEPT !.data = Append(@, token.at)]
    [] token.kind = "id"    -> [p EXCEPT !.id = token.at, !.last = token.at]
    [] token.kind = "event" -> [p EXCEPT !.event = token.at]
    [] OTHER -> p

\* push_line of a line that is not empty: a comment, a field that is not known
\* and the delay of a retry field change nothing here.
Field(p, token) ==
  CASE token.kind = "data"  -> [p EXCEPT !.data = Append(@, token.at)]
    [] token.kind = "id"    -> [p EXCEPT !.id = token.at]
    [] token.kind = "event" -> [p EXCEPT !.event = token.at]
    [] OTHER -> p

\* Mutant: a line ends at LF only.
LineEndLF(b) == SelectInSeq(b, LAMBDA token : token.kind = "LF")

\* find_line_end: the length of the first line of b with its ending, 0 if b has
\* no complete line.
LineEnd(b) ==
  LET i == SelectInSeq(b, Ends)
  IN  IF i > 0 /\ i < Len(b) /\ b[i].kind = "CR" /\ b[i + 1].kind = "LF" THEN i + 1 ELSE i

\* A round of the loop of push: it takes a complete line out of the buffer, if
\* there is one, and adds its event, if it has one, to the output.
PushLine(s) ==
  LET p    == s.parser
      end  == LineEnd(p.buffer)
      rest == [p EXCEPT !.buffer = SubSeq(@, end + 1, Len(@))]
      line == IF Ends(p.buffer[1]) THEN Dispatch(rest)
              ELSE [parser |-> Field(rest, p.buffer[1]), events |-> <<>>]
  IN  IF end = 0 THEN s
      ELSE [parser |-> line.parser, events |-> s.events \o line.events]

\* The parser and the output after n rounds.
Rounds(p) ==
  LET round[n \in Nat] ==
        IF n = 0 THEN [parser |-> p, events |-> <<>>] ELSE PushLine(round[n - 1])
  IN  round

\* The loop of push: no line is shorter than a token, so that after as many rounds
\* as the buffer has tokens no complete line is left.
Drain(p) == Rounds(p)[Len(p.buffer)]

\* Mutant: the buffer is replaced by the chunk.
PushFresh(p, chunk) == Drain([p EXCEPT !.buffer = chunk])

\* push: the byte order mark is looked for at every chunk.
Push(p, chunk) ==
  LET all == p.buffer \o chunk
  IN  Drain([p EXCEPT !.buffer = IF all[1].kind = "bom" THEN Tail(all) ELSE all])

\* A chunk boundary changes the events if it parts a CR from its LF, or if a byte
\* order mark in the middle of the stream stands at the beginning of the buffer.
BoundaryMatters(p, chunk) ==
  LET all == p.buffer \o chunk
  IN  /\ stream # <<>>
      /\ \/ Last(stream).kind = "CR" /\ chunk[1].kind = "LF"
         \/ all[1].kind = "bom"

\* What is left of a broken connection is glued to the next one.
Leftover(p) == p.buffer # <<>> \/ p.data # <<>> \/ p.id # None \/ p.event # None

-----------------------------------------------------------------------------
(* What a stream says, whole: the reference for the parser.                *)

\* A set of positions in ascending order: the n-th has n of them up to it.
Ascending(positions) ==
  [n \in 1..Cardinality(positions) |->
     CHOOSE i \in positions : Cardinality({j \in positions : j <= i}) = n]

\* The events of a stream: it is cut into lines at every CR, LF or CR LF, and the
\* lines into blocks at the empty ones; a block with data is an event.
First(s) == IF s # <<>> /\ s[1].kind = "bom" THEN 2 ELSE 1

\* Where a line begins that is not empty, and where an empty one stands.
Starts(s) == {i \in First(s)..Len(s) : ~Ends(s[i]) /\ (i = First(s) \/ Ends(s[i - 1]))}
Blanks(s) == {i \in First(s)..Len(s) : /\ Ends(s[i])
                                       /\ i > First(s) => /\ Ends(s[i - 1])
                                                          /\ ~(s[i].kind = "LF" /\ s[i - 1].kind = "CR")}

\* The lines of one field in the block that the empty line at i ends.
Lines(s, i, kind) ==
  {k \in Starts(s) : k < i /\ s[k].kind = kind /\ \A j \in Blanks(s) : ~(k < j /\ j < i)}

Data(s, i) == LET lines == Ascending(Lines(s, i, "data")) IN [n \in DOMAIN lines |-> s[lines[n]].at]
Final(s, i, kind) == IF Lines(s, i, kind) = {} THEN None ELSE s[Max(Lines(s, i, kind))].at
EventAt(s, i) == [id |-> Final(s, i, "id"), event |-> Final(s, i, "event"), data |-> Data(s, i)]

Reference(s) ==
  LET blocks == Ascending({i \in Blanks(s) : Lines(s, i, "data") # {}})
  IN  [n \in DOMAIN blocks |-> EventAt(s, blocks[n])]

-----------------------------------------------------------------------------
(* The consumer.                                                           *)

\* next_event: a pending event, or the end without a body, or a read.
NextEvent ==
  /\ call = "idle"
  /\ \/ /\ pending # <<>>
        /\ received' = Append(received, Head(pending)) /\ pending' = Tail(pending)
        /\ UNCHANGED calling
     \/ /\ pending = <<>> /\ body = "none"
        /\ answer' = "end"
        /\ UNCHANGED <<call, pending, received>>
     \/ /\ pending = <<>> /\ body # "none"
        /\ call' = "reading" /\ answer' = "none"
        /\ UNCHANGED <<pending, received>>
  /\ UNCHANGED <<auto, body, canceled, parser, asked, wire>>

\* ingest: a chunk arrives; next_event goes on with what it yields.
Chunk ==
  /\ call = "reading" /\ body = "open"
  /\ \E size \in 1..MaxChunk : \E kinds \in [1..size -> Kinds] :
       LET chunk == [i \in 1..size |-> [at |-> tokens + i, kind |-> kinds[i]]]
           parsed == Push(parser, chunk)
       IN  /\ tokens + size <= MaxTokens
           /\ tokens' = tokens + size
           /\ parser' = parsed.parser
           /\ pending' = parsed.events
           /\ stream' = stream \o chunk
           /\ \A i \in DOMAIN stream' : stream'[i].kind = "bom" => i <= MaxMark
           /\ tainted' = (tainted \/ BoundaryMatters(parser, chunk))
  /\ call' = "idle"
  /\ UNCHANGED <<auto, body, canceled, answer, received, given, asked, connects, past>>

\* The body ends, or yields an error and then ends.  A source that reconnects
\* drops it and sleeps.
BodyEnds(error) ==
  /\ call = "reading" /\ (error => body = "open")
  /\ IF auto
       THEN body' = "none" /\ call' = "sleeping" /\ UNCHANGED answer
       ELSE body' = "ended" /\ call' = "idle" /\ answer' = IF error THEN "error" ELSE "end"
  /\ canceled' = FALSE
  /\ UNCHANGED <<auto, events, asked, wire>>

\* The delay is over; the request carries the headers of the first one, among them
\* the id that the builder was given, and then the last id.
Wake ==
  /\ call = "sleeping"
  /\ call' = "sending"
  /\ asked' = Header(given) \o Header(parser.last)
  /\ UNCHANGED <<auto, body, canceled, answer, events, wire>>

\* The request is answered; the parser goes on where it stood.
Connected ==
  /\ call = "sending" /\ connects < MaxConnects
  /\ call' = "reading" /\ body' = "open"
  /\ connects' = connects + 1
  /\ past' = past \o Reference(stream) /\ stream' = <<>>
  /\ tainted' = (tainted \/ Leftover(parser))
  /\ asked' = <<>>
  /\ UNCHANGED <<auto, canceled, answer, events, given, tokens>>

\* Mutant: a request that fails is tried again, and nobody is told.
ConnectFailsQuietly ==
  /\ call = "sending"
  /\ call' = "sleeping" /\ asked' = <<>>
  /\ UNCHANGED <<auto, body, canceled, answer, events, wire>>

\* The request fails: next_event returns the error and there is no body any more.
ConnectFails ==
  /\ call = "sending"
  /\ call' = "idle" /\ answer' = "error" /\ asked' = <<>>
  /\ UNCHANGED <<auto, body, canceled, events, wire>>

\* The future of next_event is dropped where it awaits.
DropCall ==
  /\ call # "idle"
  /\ call' = "idle" /\ asked' = <<>>
  /\ UNCHANGED <<auto, body, canceled, answer, events, wire>>

\* cancel(), on a body that has not ended.
Cancel ==
  /\ body = "open" /\ ~canceled
  /\ canceled' = TRUE
  /\ UNCHANGED <<auto, body, calling, events, asked, wire>>

-----------------------------------------------------------------------------
BodyEnd == BodyEnds(FALSE) \/ BodyEnds(TRUE)

Next ==
  \/ NextEvent \/ Chunk \/ BodyEnd
  \/ Wake \/ Connected \/ ConnectFails \/ DropCall \/ Cancel

Spec == Init /\ [][Next]_vars

\* The consumer goes on asking; a body that was canceled ends, as one that has
\* ended says so again: the end stays in the body's channel, so a call that is
\* dropped leaves it to the next one, hence strong fairness; the delay and the
\* request come to an end.
Fairness ==
  /\ WF_vars(NextEvent)
  /\ SF_vars((canceled \/ body = "ended") /\ BodyEnd)
  /\ WF_vars(Wake)
  /\ WF_vars(Connected \/ ConnectFails)

FairSpec == Spec /\ Fairness

-----------------------------------------------------------------------------
(* Properties.                                                             *)

\* Type invariant: the range of every variable.
TypeOK ==
  /\ auto \in BOOLEAN /\ body \in {"open", "ended", "none"} /\ canceled \in BOOLEAN
  /\ call \in {"idle", "reading", "sleeping", "sending"}
  /\ answer \in {"none", "error", "end"}
  /\ {parser.event, parser.id} \subseteq 0..MaxTokens
  /\ given \in {None, GivenId} /\ parser.last \in 0..GivenId /\ asked \in Seq(0..GivenId)
  /\ \A i \in DOMAIN parser.buffer : ~Ends(parser.buffer[i])
  /\ connects \in 1..MaxConnects /\ tokens \in 0..MaxTokens
  /\ tainted \in BOOLEAN

\* No line of data is delivered twice or out of order, whatever a boundary did.
DataInOrder ==
  \A m, n \in DOMAIN received : \A i \in DOMAIN received[m].data, j \in DOMAIN received[n].data :
    m < n \/ (m = n /\ i < j) => received[m].data[i] < received[n].data[j]

\* The consumer gets the events that the server sent, whole and in order, however
\* the stream was cut into chunks and over however many connections it came;
\* but for the boundaries that push (sse.rs:35) does not get right.
EventsAreTheServers ==
  DataInOrder /\ (~tainted => received \o pending = past \o Reference(stream))

\* A source that reconnects asks to resume after the last event with an id that
\* the consumer has got, not after one that was half sent or is still pending; and
\* after the id it was given if there was none.  That is its last word: the id it
\* was given is repeated before.
ResumesAfterReceived ==
  call = "sending" =>
    LET named == {n \in DOMAIN received : received[n].id # None}
        id    == IF named = {} THEN given ELSE received[Max(named)].id
    IN  IF id = None THEN asked = <<>> ELSE asked # <<>> /\ Last(asked) = id

\* A broken or canceled connection does not leave the consumer waiting: there is
\* another connection, or next_event says that there is none.
BreakIsAnswered ==
  canceled \/ body # "open" ~> (body = "open" /\ ~canceled) \/ answer \in {"error", "end"}
=============================================================================
