------------------------- MODULE BidiStream_proofs -------------------------
(***************************************************************************)
(* Theorems about a bidirectional stream (BidiStream), for a read channel  *)
(* of any capacity and any number of chunks.                               *)
(***************************************************************************)
EXTENDS BidiStream, SequenceTheorems, TLAPS

Event == {Eof, Failure} \cup {Chunk(n) : n \in 1..MaxChunks}

\* The types of what has finitely many values.
ControlTypes ==
  /\ raw \in BOOLEAN /\ started \in BOOLEAN /\ done \in BOOLEAN /\ cancelRequested \in BOOLEAN
  /\ gate \in Cancelers \cup {"free", "reader"} /\ canceling \subseteq Cancelers
  /\ pendingError \in BOOLEAN

WorldTypes ==
  /\ owner \in {"begin", "registered", "started", "opening", "reading", "finished", "gone"}
  /\ native \in {"none", "created", "running", "ended", "destroyed"}
  /\ nativeCanceled \in BOOLEAN /\ operation \in BOOLEAN
  /\ receiver \in BOOLEAN /\ readEof \in BOOLEAN

CallbackTypes ==
  /\ callback \in {"none", "answering", "ending", "leaving", "left"} /\ lease \in BOOLEAN
  /\ outcome \in {"none", "ok", "err"}
  /\ readySender \in BOOLEAN
  /\ opened \in {"none", "ok", "err"} /\ headers \in {"none", "ok", "err"}
  /\ trailers \in {"none", "ok", "err"} /\ result \in {"none", "ok", "err"}
  /\ signal \in BOOLEAN /\ cleanup \in {"none", "waiting", "done"}

ReadTypes ==
  /\ inFlight \in BOOLEAN /\ eof \in BOOLEAN /\ reading \in BOOLEAN
  /\ readTask \in {"none", "sending", "starting", "calling"}

StateTypes == ControlTypes /\ WorldTypes /\ CallbackTypes /\ ReadTypes

\* The types of what carries data.
DataTypes ==
  /\ chunks \in 0..MaxChunks
  /\ sending \subseteq Event
  /\ channel \in Seq(Event) /\ Len(channel) <= ChannelCapacity
  /\ seen \in Seq(1..MaxChunks)

-----------------------------------------------------------------------------
(* The life of the native stream.                                          *)

\* The pointer is there as long as the stream is, and so is the operation; who
\* holds the gate has seen the pointer, and the terminal callback runs in a stream
\* that has ended and that nobody destroys before it leaves.
LifeInv ==
  /\ raw <=> native \in {"created", "running", "ended"}
  /\ raw => operation
  /\ gate # "free" => raw
  /\ lease => native = "ended"
  /\ owner = "begin" => native = "none"
  /\ owner = "registered" => native = "created"
  /\ cleanup = "waiting" => owner \notin {"begin", "registered"}

LEMMA LifeInit == Init => LifeInv
BY DEF Init, LifeInv

LEMMA LifeNext == LifeInv /\ [Next]_vars => LifeInv'
<1> SUFFICES ASSUME LifeInv, [Next]_vars PROVE LifeInv'
  OBVIOUS
<1> USE DEF LifeInv, flags, world, network, cleaning, Flag, FailThenCancel
<1>1. ASSUME NEW who \in Cancelers, Cancel(who) PROVE LifeInv'
  BY <1>1 DEF Cancel, CancelLock, CancelCall, Cancelers
<1>2. CASE Create \/ StartFails \/ Start
  BY <1>2 DEF Create, StartFails, Start
<1>3. CASE SetStarted \/ Recheck \/ Open \/ OpenFails
  BY <1>3 DEF SetStarted, Recheck, Open, OpenFails
<1>4. CASE Receive \/ DropStream
  BY <1>4 DEF Receive, DropStream
<1>5. CASE StartReadLock \/ StartReadCall \/ ReadRefused
  BY <1>5 DEF StartReadLock, StartReadCall, ReadRefused
<1>6. CASE OnTerminal
  BY <1>6 DEF OnTerminal, MayCall
<1>7. CASE Leave
  BY <1>7 DEF Leave
<1>8. CASE Destroy
  BY <1>8 DEF Destroy
<1>9. CASE EngineCancels \/ SendChunk \/ ChunkRefused \/ \E event \in sending : SendEvent(event)
  BY <1>9 DEF EngineCancels, SendChunk, ChunkRefused, SendEvent
<1>10. CASE OnReady \/ OnHeaders \/ OnChunk \/ OnEof \/ OnBadRead \/ OnTrailers \/ Answer \/ End
  BY <1>10 DEF OnReady, OnHeaders, OnChunk, OnEof, OnBadRead, OnTrailers, Answer, End
<1>11. CASE UNCHANGED vars
  BY <1>11 DEF vars
<1>12. QED
  BY <1>1, <1>2, <1>3, <1>4, <1>5, <1>6, <1>7, <1>8, <1>9, <1>10, <1>11
     DEF Next, OpenStep, TaskStep, CallbackStep

-----------------------------------------------------------------------------
(* The reads.                                                              *)

\* One read is under way at a time: none before the headers, none while a chunk is
\* sent or another is started, and none after the end of the data.
ReadInv ==
  /\ headers = "none" => readTask = "none" /\ ~inFlight /\ ~reading /\ ~eof
  /\ reading => readTask = "none" /\ inFlight /\ native = "running" /\ ~eof
  /\ readTask = "calling" => inFlight
  /\ eof => readTask = "none"

\* The terminal callback, which tells the cleanup task, comes once the stream has
\* ended, and reports success only after the end of the data.
EndInv ==
  /\ callback # "none" \/ signal => native \in {"ended", "destroyed"}
  /\ outcome = "ok" => eof

\* The events that tasks have still to send.
SendingInv ==
  /\ sending \subseteq {Eof, Failure}
  /\ Eof \in sending => eof
  /\ Failure \in sending => native \in {"ended", "destroyed"}

LEMMA ReadInit == Init => ReadInv /\ EndInv /\ SendingInv
BY DEF Init, ReadInv, EndInv, SendingInv

LEMMA ReadNext == StateTypes /\ LifeInv /\ ReadInv /\ EndInv /\ [Next]_vars => ReadInv' /\ EndInv'
<1> SUFFICES ASSUME StateTypes, LifeInv, ReadInv, EndInv, [Next]_vars PROVE ReadInv' /\ EndInv'
  OBVIOUS
<1> USE DEF StateTypes, CallbackTypes, ReadTypes, LifeInv, ReadInv, EndInv, flags, world, answers, readState,
        network, cleaning, Flag, FailThenCancel
<1>1. ASSUME NEW who \in Cancelers, Cancel(who) PROVE ReadInv' /\ EndInv'
  BY <1>1 DEF Cancel, CancelLock, CancelCall
<1>2. CASE Create \/ StartFails \/ Start
  BY <1>2 DEF Create, StartFails, Start
<1>3. CASE SetStarted \/ Recheck \/ Open \/ OpenFails
  BY <1>3 DEF SetStarted, Recheck, Open, OpenFails
<1>4. CASE Receive \/ DropStream \/ EngineCancels
  BY <1>4 DEF Receive, DropStream, EngineCancels
<1>5. CASE SendChunk \/ ChunkRefused
  BY <1>5 DEF SendChunk, ChunkRefused
<1>6. CASE StartReadLock \/ StartReadCall \/ ReadRefused
  BY <1>6 DEF StartReadLock, StartReadCall, ReadRefused
<1>7. ASSUME NEW event \in sending, SendEvent(event) PROVE ReadInv' /\ EndInv'
  BY <1>7 DEF SendEvent
<1>8. CASE OnReady \/ OnHeaders \/ OnTrailers
  BY <1>8 DEF OnReady, OnHeaders, OnTrailers, MayCall
<1>9. CASE OnChunk \/ OnEof \/ OnBadRead
  BY <1>9 DEF OnChunk, OnEof, OnBadRead, MayCall
<1>10. CASE OnTerminal
  <2>1. outcome' = "ok" => eof
    BY <1>10 DEF OnTerminal, Endings
  <2>2. QED BY <1>10, <2>1 DEF OnTerminal, MayCall
<1>11. CASE Answer \/ End \/ Leave
  BY <1>11 DEF Answer, End, Leave
<1>12. CASE Destroy
  BY <1>12 DEF Destroy
<1>13. CASE UNCHANGED vars
  BY <1>13 DEF vars
<1>14. QED
  BY <1>1, <1>2, <1>3, <1>4, <1>5, <1>6, <1>7, <1>8, <1>9, <1>10, <1>11, <1>12, <1>13
     DEF Next, OpenStep, TaskStep, CallbackStep

-----------------------------------------------------------------------------
(* The events on their way to the owner.                                   *)

InHand == IF readTask = "sending" THEN 1 ELSE 0

\* The first i events of q are chunks.
Whole(q, i) == \A j \in 1..i : q[j].kind = "chunk"

\* Who has stopped reading has seen the end of the data, or an error that only a
\* stream which has ended sends.
ReaderInv ==
  /\ ChunksInOrder
  /\ readEof => owner \in {"finished", "gone"} /\ eof /\ Len(seen) = chunks
  /\ readTask = "sending" => chunks > 0
  /\ owner = "finished" => eof \/ native \in {"ended", "destroyed"}
  /\ owner = "finished" => chunks <= Len(seen) + ChannelCapacity + 1

\* Until then, what is in the channel continues what was received: chunks that no
\* other event precedes are the next ones, an end that only chunks precede comes
\* after all of them, and a chunk is in the channel, received or held by its task.
ChannelInv ==
  owner \notin {"finished", "gone"} =>
    /\ \A i \in 1..Len(channel) : Whole(channel, i) => channel[i] = Chunk(Len(seen) + i)
    /\ \A i \in 1..Len(channel) : channel[i] = Eof =>
         eof /\ (Whole(channel, i - 1) => Len(seen) + i = chunks + 1)
    /\ \A i \in 1..Len(channel) : channel[i] = Failure => native \in {"ended", "destroyed"}
    /\ chunks <= Len(seen) + Len(channel) + InHand
    /\ Whole(channel, Len(channel)) => chunks = Len(seen) + Len(channel) + InHand

LEMMA EventKinds ==
  /\ \A e \in Event : e.kind = "chunk" <=> e \notin {Eof, Failure}
  /\ \A e \in Event : e.kind = "chunk" => e.number \in 1..MaxChunks /\ e = Chunk(e.number)
  /\ \A n : Chunk(n).kind = "chunk" /\ Chunk(n).number = n
  /\ \A n \in 1..MaxChunks : Chunk(n) \in Event
  /\ Eof \in Event /\ Failure \in Event /\ Eof # Failure
<1>1. \A n : Chunk(n).kind = "chunk" /\ Chunk(n).number = n
  BY DEF Chunk
<1>2. Eof.kind = "eof" /\ Failure.kind = "error"
  BY DEF Eof, Failure
<1>3. \A e \in Event : e \in {Eof, Failure} \/ \E n \in 1..MaxChunks : e = Chunk(n)
  BY DEF Event
<1>4. \A n \in 1..MaxChunks : Chunk(n) \in Event
  BY DEF Event
<1>5. Eof \in Event /\ Failure \in Event
  BY DEF Event
<1>6. QED BY <1>1, <1>2, <1>3, <1>4, <1>5

\* What a channel holds after one more event, and after its first was taken.
LEMMA Appended ==
  ASSUME NEW S, NEW q \in Seq(S), NEW e \in S
  PROVE  /\ Append(q, e) \in Seq(S) /\ Len(Append(q, e)) = Len(q) + 1
         /\ \A i \in 1..Len(q) : Append(q, e)[i] = q[i]
         /\ Append(q, e)[Len(q) + 1] = e
BY AppendProperties

LEMMA Taken ==
  ASSUME NEW S, NEW q \in Seq(S), q # <<>>
  PROVE  /\ Head(q) \in S /\ Head(q) = q[1] /\ Len(q) > 0
         /\ Tail(q) \in Seq(S) /\ Len(Tail(q)) = Len(q) - 1
         /\ \A i \in 1..Len(q) - 1 : Tail(q)[i] = q[i + 1]
BY HeadTailProperties, EmptySeq

-----------------------------------------------------------------------------
(* What the owner and the tasks do with them.                              *)

\* Steps that move no event.
LEMMA Quiet ==
  ASSUME ReaderInv, ChannelInv, UNCHANGED <<channel, seen, chunks, readEof>>,
         InHand' = InHand, readTask' = "sending" => readTask = "sending",
         eof => eof', native \in {"ended", "destroyed"} => native' \in {"ended", "destroyed"},
         owner' # "gone" => (owner' = "finished" <=> owner = "finished"),
         owner = "finished" => owner' \in {"finished", "gone"},
         owner = "gone" => owner' = "gone"
  PROVE  ReaderInv' /\ ChannelInv'
<1>1. ReaderInv'
  BY DEF ReaderInv, ChunksInOrder
<1>2. ChannelInv'
  BY DEF ChannelInv
<1>3. QED BY <1>1, <1>2

Context == StateTypes /\ DataTypes /\ LifeInv /\ ReadInv /\ EndInv /\ SendingInv /\ ReaderInv /\ ChannelInv

\* The chunks at the beginning of a channel, when one more event is put behind.
LEMMA WholeAppended ==
  ASSUME NEW q \in Seq(Event), NEW e \in Event
  PROVE  /\ Len(q) \in Nat /\ Len(Append(q, e)) = Len(q) + 1
         /\ Append(q, e)[Len(q) + 1] = e
         /\ \A i \in 1..Len(q) : Append(q, e)[i] = q[i]
         /\ \A i \in 0..Len(q) : Whole(Append(q, e), i) <=> Whole(q, i)
         /\ Whole(Append(q, e), Len(q) + 1) <=> Whole(q, Len(q)) /\ e.kind = "chunk"
<1>1. /\ Len(q) \in Nat /\ Len(Append(q, e)) = Len(q) + 1
      /\ Append(q, e)[Len(q) + 1] = e
      /\ \A i \in 1..Len(q) : Append(q, e)[i] = q[i]
  BY Appended, LenProperties
<1>2. \A i \in 0..Len(q) : Whole(Append(q, e), i) <=> Whole(q, i)
  BY <1>1 DEF Whole
<1>3. Whole(Append(q, e), Len(q) + 1) <=> Whole(q, Len(q)) /\ e.kind = "chunk"
  <2>1. \A i \in 1..Len(q) + 1 : i \in 1..Len(q) \/ i = Len(q) + 1
    BY <1>1
  <2>2. 1..Len(q) \subseteq 1..Len(q) + 1 /\ Len(q) + 1 \in 1..Len(q) + 1
    BY <1>1
  <2>3. QED BY <1>1, <2>1, <2>2 DEF Whole
<1>4. QED BY <1>1, <1>2, <1>3

LEMMA SendChunkReader == Context /\ SendChunk => ReaderInv' /\ ChannelInv'
<1> SUFFICES ASSUME Context, SendChunk PROVE ReaderInv' /\ ChannelInv'
  OBVIOUS
<1>1. /\ readTask = "sending" /\ readTask' = "starting" /\ Len(channel) < ChannelCapacity
      /\ channel' = Append(channel, Chunk(chunks))
      /\ UNCHANGED <<owner, seen, readEof, chunks, eof, native>>
  BY DEF SendChunk, Room, network, readState, world, reader
<1>2. ReaderInv'
  BY <1>1 DEF Context, ReaderInv, ChunksInOrder
<1>3. chunks \in 1..MaxChunks /\ channel \in Seq(Event) /\ seen \in Seq(1..MaxChunks) /\ InHand = 1 /\ InHand' = 0
  BY <1>1, StreamAssumption DEF Context, DataTypes, ReaderInv, InHand
<1>4. Chunk(chunks) \in Event /\ Chunk(chunks).kind = "chunk" /\ Chunk(chunks) \notin {Eof, Failure}
  BY <1>3, EventKinds
<1>5. Len(seen) \in Nat
  BY <1>3, LenProperties
<1>6. /\ Len(channel) \in Nat /\ Len(channel') = Len(channel) + 1
      /\ channel'[Len(channel) + 1] = Chunk(chunks)
      /\ \A i \in 1..Len(channel) : channel'[i] = channel[i]
      /\ \A i \in 0..Len(channel) : Whole(channel', i) <=> Whole(channel, i)
      /\ Whole(channel', Len(channel) + 1) <=> Whole(channel, Len(channel))
  BY <1>1, <1>3, <1>4, WholeAppended
<1>7. ASSUME owner \notin {"finished", "gone"} PROVE ChannelInv'
  <2> USE <1>1, <1>3, <1>4, <1>5, <1>6, <1>7
  <2>1. /\ \A i \in 1..Len(channel) : Whole(channel, i) => channel[i] = Chunk(Len(seen) + i)
        /\ \A i \in 1..Len(channel) : channel[i] = Eof =>
             eof /\ (Whole(channel, i - 1) => Len(seen) + i = chunks + 1)
        /\ \A i \in 1..Len(channel) : channel[i] = Failure => native \in {"ended", "destroyed"}
        /\ chunks <= Len(seen) + Len(channel) + 1
        /\ Whole(channel, Len(channel)) => chunks = Len(seen) + Len(channel) + 1
    BY DEF Context, ChannelInv
  <2>2. \A i \in 1..Len(channel') : Whole(channel', i) => channel'[i] = Chunk(Len(seen) + i)
    <3> SUFFICES ASSUME NEW i \in 1..Len(channel'), Whole(channel', i) PROVE channel'[i] = Chunk(Len(seen) + i)
      OBVIOUS
    <3>1. CASE i \in 1..Len(channel)
      <4>1. i \in 0..Len(channel)
        BY <3>1
      <4>2. QED BY <2>1, <3>1, <4>1
    <3>2. CASE i = Len(channel) + 1
      BY <2>1, <3>2
    <3>3. QED BY <3>1, <3>2
  <2>3. \A i \in 1..Len(channel') : channel'[i] = Eof => eof /\ (Whole(channel', i - 1) => Len(seen) + i = chunks + 1)
    <3> SUFFICES ASSUME NEW i \in 1..Len(channel'), channel'[i] = Eof
                 PROVE  eof /\ (Whole(channel', i - 1) => Len(seen) + i = chunks + 1)
      OBVIOUS
    <3>1. i \in 1..Len(channel) /\ i - 1 \in 0..Len(channel)
      OBVIOUS
    <3>2. QED BY <2>1, <3>1
  <2>4. \A i \in 1..Len(channel') : channel'[i] = Failure => native \in {"ended", "destroyed"}
    BY <2>1
  <2>5. /\ chunks <= Len(seen) + Len(channel') + InHand'
        /\ Whole(channel', Len(channel')) => chunks = Len(seen) + Len(channel') + InHand'
    BY <2>1
  <2>6. QED BY <2>2, <2>3, <2>4, <2>5 DEF ChannelInv
<1>8. QED BY <1>1, <1>2, <1>7 DEF ChannelInv

LEMMA SendEventReader ==
  ASSUME Context, NEW event \in sending, SendEvent(event)
  PROVE  ReaderInv' /\ ChannelInv'
<1>1. /\ readTask' = readTask
      /\ UNCHANGED <<owner, seen, readEof, chunks, eof, native>>
      /\ channel' = channel \/ channel' = Append(channel, event)
      /\ InHand' = InHand
  BY DEF SendEvent, network, readState, world, reader, InHand
<1>2. CASE channel' = channel
  BY <1>1, <1>2, Quiet DEF Context
<1>3. CASE channel' = Append(channel, event)
  <2>1. ReaderInv'
    BY <1>1 DEF Context, ReaderInv, ChunksInOrder
  <2>2. /\ event \in {Eof, Failure} /\ event \in Event /\ event.kind # "chunk"
        /\ event = Eof => eof /\ InHand = 0
        /\ event = Failure => native \in {"ended", "destroyed"}
    BY EventKinds DEF Context, SendingInv, ReadInv, InHand
  <2>3. channel \in Seq(Event) /\ seen \in Seq(1..MaxChunks) /\ chunks \in Nat /\ InHand \in {0, 1}
    BY StreamAssumption DEF Context, DataTypes, InHand
  <2>4. Len(seen) \in Nat
    BY <2>3, LenProperties
  <2>5. /\ Len(channel) \in Nat /\ Len(channel') = Len(channel) + 1
        /\ channel'[Len(channel) + 1] = event
        /\ \A i \in 1..Len(channel) : channel'[i] = channel[i]
        /\ \A i \in 0..Len(channel) : Whole(channel', i) <=> Whole(channel, i)
        /\ ~Whole(channel', Len(channel) + 1)
    BY <1>3, <2>2, <2>3, WholeAppended
  <2>6. ASSUME owner \notin {"finished", "gone"} PROVE ChannelInv'
    <3> USE <1>1, <1>3, <2>2, <2>3, <2>4, <2>5, <2>6
    <3>1. /\ \A i \in 1..Len(channel) : Whole(channel, i) => channel[i] = Chunk(Len(seen) + i)
          /\ \A i \in 1..Len(channel) : channel[i] = Eof =>
               eof /\ (Whole(channel, i - 1) => Len(seen) + i = chunks + 1)
          /\ \A i \in 1..Len(channel) : channel[i] = Failure => native \in {"ended", "destroyed"}
          /\ chunks <= Len(seen) + Len(channel) + InHand
          /\ Whole(channel, Len(channel)) => chunks = Len(seen) + Len(channel) + InHand
      BY DEF Context, ChannelInv
    <3>2. \A i \in 1..Len(channel') : Whole(channel', i) => channel'[i] = Chunk(Len(seen) + i)
      <4> SUFFICES ASSUME NEW i \in 1..Len(channel'), Whole(channel', i) PROVE channel'[i] = Chunk(Len(seen) + i)
        OBVIOUS
      <4>1. i # Len(channel) + 1
        OBVIOUS
      <4>2. i \in 1..Len(channel) /\ i \in 0..Len(channel)
        BY <4>1
      <4>3. QED BY <3>1, <4>2
    <3>3. \A i \in 1..Len(channel') : channel'[i] = Eof => eof /\ (Whole(channel', i - 1) => Len(seen) + i = chunks + 1)
      <4> SUFFICES ASSUME NEW i \in 1..Len(channel'), channel'[i] = Eof
                   PROVE  eof /\ (Whole(channel', i - 1) => Len(seen) + i = chunks + 1)
        OBVIOUS
      <4>1. CASE i \in 1..Len(channel)
        <5>1. i - 1 \in 0..Len(channel)
          BY <4>1
        <5>2. QED BY <3>1, <4>1, <5>1
      <4>2. CASE i = Len(channel) + 1
        <5>1. i - 1 = Len(channel) /\ event = Eof /\ Len(channel) \in 0..Len(channel)
          BY <4>2
        <5>2. Whole(channel', i - 1) => Whole(channel, Len(channel))
          BY <5>1
        <5>3. QED BY <3>1, <4>2, <5>1, <5>2
      <4>3. QED BY <4>1, <4>2
    <3>4. \A i \in 1..Len(channel') : channel'[i] = Failure => native \in {"ended", "destroyed"}
      <4> SUFFICES ASSUME NEW i \in 1..Len(channel'), channel'[i] = Failure
                   PROVE  native \in {"ended", "destroyed"}
        OBVIOUS
      <4>1. i \in 1..Len(channel) \/ i = Len(channel) + 1
        OBVIOUS
      <4>2. QED BY <3>1, <4>1
    <3>5. /\ chunks <= Len(seen) + Len(channel') + InHand'
          /\ Whole(channel', Len(channel')) => chunks = Len(seen) + Len(channel') + InHand'
      BY <3>1
    <3>6. QED BY <3>2, <3>3, <3>4, <3>5 DEF ChannelInv
  <2>7. QED BY <1>1, <2>1, <2>6 DEF ChannelInv
<1>4. QED BY <1>1, <1>2, <1>3

\* The owner takes an event: the next chunk, or the end, or an error.
LEMMA WholeTaken ==
  ASSUME NEW q \in Seq(Event), q # <<>>
  PROVE  /\ Len(q) \in Nat /\ Len(q) > 0 /\ Len(Tail(q)) = Len(q) - 1
         /\ \A i \in 1..Len(q) - 1 : Tail(q)[i] = q[i + 1]
         /\ q[1].kind = "chunk" => \A i \in 0..Len(q) - 1 : Whole(Tail(q), i) <=> Whole(q, i + 1)
<1>1. /\ Len(q) \in Nat /\ Len(q) > 0 /\ Len(Tail(q)) = Len(q) - 1
      /\ \A i \in 1..Len(q) - 1 : Tail(q)[i] = q[i + 1]
  BY Taken, LenProperties
<1>2. ASSUME q[1].kind = "chunk", NEW i \in 0..Len(q) - 1
      PROVE  Whole(Tail(q), i) <=> Whole(q, i + 1)
  <2>1. ASSUME Whole(q, i + 1) PROVE Whole(Tail(q), i)
    <3>1. \A j \in 1..i : j + 1 \in 1..i + 1 /\ j \in 1..Len(q) - 1
      BY <1>1
    <3>2. QED BY <1>1, <2>1, <3>1 DEF Whole
  <2>2. ASSUME Whole(Tail(q), i) PROVE Whole(q, i + 1)
    <3>1. \A j \in 1..i + 1 : j = 1 \/ (j - 1 \in 1..i /\ j - 1 \in 1..Len(q) - 1 /\ (j - 1) + 1 = j)
      BY <1>1
    <3>2. QED BY <1>1, <1>2, <2>2, <3>1 DEF Whole
  <2>3. QED BY <2>1, <2>2
<1>3. QED BY <1>1, <1>2

LEMMA ReceiveReader == Context /\ Receive => ReaderInv' /\ ChannelInv'
<1> SUFFICES ASSUME Context, Receive PROVE ReaderInv' /\ ChannelInv'
  OBVIOUS
<1>1. /\ owner = "reading" /\ channel # <<>> /\ channel' = Tail(channel)
      /\ UNCHANGED <<chunks, readTask, eof, native>>
      /\ InHand' = InHand
  BY DEF Receive, network, readState, world, InHand
<1>2. /\ channel \in Seq(Event) /\ seen \in Seq(1..MaxChunks) /\ chunks \in Nat /\ InHand \in {0, 1}
      /\ Len(channel) <= ChannelCapacity /\ ChannelCapacity \in Nat
  BY StreamAssumption DEF Context, DataTypes, InHand
<1>3. /\ Len(channel) \in Nat /\ Len(channel) > 0 /\ Len(channel') = Len(channel) - 1
      /\ \A i \in 1..Len(channel) - 1 : channel'[i] = channel[i + 1]
      /\ channel[1].kind = "chunk" => \A i \in 0..Len(channel) - 1 : Whole(channel', i) <=> Whole(channel, i + 1)
  BY <1>1, <1>2, WholeTaken
<1>4. Len(seen) \in Nat /\ Head(channel) = channel[1] /\ channel[1] \in Event
  BY <1>1, <1>2, Taken, LenProperties
<1>5. /\ \A i \in 1..Len(channel) : Whole(channel, i) => channel[i] = Chunk(Len(seen) + i)
      /\ \A i \in 1..Len(channel) : channel[i] = Eof =>
           eof /\ (Whole(channel, i - 1) => Len(seen) + i = chunks + 1)
      /\ \A i \in 1..Len(channel) : channel[i] = Failure => native \in {"ended", "destroyed"}
      /\ chunks <= Len(seen) + Len(channel) + InHand
      /\ Whole(channel, Len(channel)) => chunks = Len(seen) + Len(channel) + InHand
  BY <1>1 DEF Context, ChannelInv
<1>6. 1 \in 1..Len(channel)
  BY <1>3
<1>7. CASE channel[1].kind = "chunk"
  <2>1. Whole(channel, 1)
    BY <1>7 DEF Whole
  <2>2. channel[1] = Chunk(Len(seen) + 1) /\ channel[1].number = Len(seen) + 1 /\ channel[1].number \in 1..MaxChunks
        /\ channel[1] # Eof
    BY <1>4, <1>5, <1>6, <1>7, <2>1, EventKinds
  <2>3. /\ seen' = Append(seen, Len(seen) + 1) /\ owner' = "reading" /\ readEof' = FALSE
    BY <1>4, <1>7, <2>2 DEF Receive
  <2>4. /\ Len(seen') = Len(seen) + 1 /\ \A i \in 1..Len(seen) : seen'[i] = seen[i]
        /\ seen'[Len(seen) + 1] = Len(seen) + 1
        /\ seen' \in Seq(1..MaxChunks)
    BY <1>2, <2>2, <2>3, Appended
  <2>5. ReaderInv'
    <3>1. ChunksInOrder'
      <4>1. DOMAIN seen = 1..Len(seen) /\ DOMAIN seen' = 1..Len(seen')
        BY <1>2, <2>4, LenProperties
      <4>2. \A i \in 1..Len(seen') : i \in 1..Len(seen) \/ i = Len(seen) + 1
        BY <1>4, <2>4
      <4>3. \A i \in 1..Len(seen) : seen[i] = i
        BY <4>1 DEF Context, ReaderInv, ChunksInOrder
      <4>4. QED BY <2>4, <4>1, <4>2, <4>3 DEF ChunksInOrder
    <3>2. QED BY <1>1, <2>3, <3>1 DEF Context, ReaderInv
  <2>6. \A i \in 1..Len(channel') : Whole(channel', i) => channel'[i] = Chunk(Len(seen') + i)
    <3> SUFFICES ASSUME NEW i \in 1..Len(channel'), Whole(channel', i) PROVE channel'[i] = Chunk(Len(seen') + i)
      OBVIOUS
    <3>1. i + 1 \in 1..Len(channel) /\ i \in 1..Len(channel) - 1 /\ i \in 0..Len(channel) - 1
      BY <1>3
    <3>2. channel'[i] = channel[i + 1] /\ Whole(channel, i + 1)
      BY <1>3, <1>7, <3>1
    <3>3. Len(seen) + (i + 1) = Len(seen') + i
      BY <1>4, <2>4
    <3>4. QED BY <1>5, <3>1, <3>2, <3>3
  <2>7. \A i \in 1..Len(channel') : channel'[i] = Eof =>
          eof /\ (Whole(channel', i - 1) => Len(seen') + i = chunks + 1)
    <3> SUFFICES ASSUME NEW i \in 1..Len(channel'), channel'[i] = Eof
                 PROVE  eof /\ (Whole(channel', i - 1) => Len(seen') + i = chunks + 1)
      OBVIOUS
    <3>1. i + 1 \in 1..Len(channel) /\ i \in 1..Len(channel) - 1 /\ i - 1 \in 0..Len(channel) - 1
          /\ (i - 1) + 1 = i /\ (i + 1) - 1 = i
      BY <1>3
    <3>2. channel[i + 1] = Eof /\ (Whole(channel', i - 1) => Whole(channel, i))
      BY <1>3, <1>7, <3>1
    <3>3. eof /\ (Whole(channel, i) => Len(seen) + (i + 1) = chunks + 1)
      BY <1>5, <3>1, <3>2
    <3>4. QED BY <1>4, <2>4, <3>2, <3>3
  <2>8. \A i \in 1..Len(channel') : channel'[i] = Failure => native \in {"ended", "destroyed"}
    <3> SUFFICES ASSUME NEW i \in 1..Len(channel'), channel'[i] = Failure
                 PROVE  native \in {"ended", "destroyed"}
      OBVIOUS
    <3>1. i + 1 \in 1..Len(channel) /\ i \in 1..Len(channel) - 1
      BY <1>3
    <3>2. QED BY <1>3, <1>5, <3>1
  <2>9. /\ chunks <= Len(seen') + Len(channel') + InHand'
        /\ Whole(channel', Len(channel')) => chunks = Len(seen') + Len(channel') + InHand'
    <3>1. Len(channel') \in 0..Len(channel) - 1 /\ Len(channel') + 1 = Len(channel)
      BY <1>3
    <3>2. Whole(channel', Len(channel')) => Whole(channel, Len(channel))
      BY <1>3, <1>7, <3>1
    <3>3. Len(seen') + Len(channel') + InHand' = Len(seen) + Len(channel) + InHand
      BY <1>1, <1>2, <1>3, <1>4, <2>4
    <3>4. QED BY <1>5, <3>2, <3>3
  <2>10. ChannelInv'
    BY <1>1, <2>6, <2>7, <2>8, <2>9 DEF ChannelInv
  <2>11. QED BY <2>5, <2>10
<1>8. CASE channel[1].kind # "chunk"
  <2>1. seen' = seen /\ owner' = "finished" /\ readEof' = (channel[1] = Eof)
    BY <1>4, <1>8 DEF Receive
  <2>2. channel[1] \in {Eof, Failure}
    BY <1>4, <1>8, EventKinds
  <2>3. Whole(channel, 1 - 1)
    BY DEF Whole
  <2>4. channel[1] = Eof => eof /\ Len(seen) = chunks
    BY <1>2, <1>4, <1>5, <1>6, <2>3
  <2>5. channel[1] = Failure => native \in {"ended", "destroyed"}
    BY <1>5, <1>6
  <2>6. chunks <= Len(seen) + ChannelCapacity + 1
    BY <1>2, <1>3, <1>4, <1>5
  <2>7. ReaderInv'
    BY <1>1, <2>1, <2>2, <2>4, <2>5, <2>6 DEF Context, ReaderInv, ChunksInOrder
  <2>8. ChannelInv'
    BY <2>1 DEF ChannelInv
  <2>9. QED BY <2>7, <2>8
<1>9. QED BY <1>7, <1>8

\* Cronet completes a read: one more chunk in the hand of its task, or the end.
LEMMA OnChunkReader == Context /\ OnChunk => ReaderInv' /\ ChannelInv'
<1> SUFFICES ASSUME Context, OnChunk PROVE ReaderInv' /\ ChannelInv'
  OBVIOUS
<1>1. /\ reading /\ native = "running" /\ chunks' = chunks + 1 /\ readTask' = "sending"
      /\ UNCHANGED <<owner, eof, native, channel, seen, readEof>>
  BY DEF OnChunk, MayCall, world, reader
<1>2. readTask = "none" /\ ~eof /\ chunks \in Nat /\ InHand = 0 /\ InHand' = 1
  BY <1>1 DEF Context, DataTypes, ReadInv, InHand
<1>3. owner # "finished" /\ readEof # TRUE
  BY <1>1, <1>2 DEF Context, ReaderInv
<1>4. Len(seen) \in Nat /\ Len(channel) \in Nat
  BY LenProperties DEF Context, DataTypes
<1>5. ReaderInv'
  BY <1>1, <1>2, <1>3 DEF Context, StateTypes, WorldTypes, ReaderInv, ChunksInOrder
<1>6. ASSUME owner \notin {"finished", "gone"} PROVE ChannelInv'
  <2>1. /\ \A i \in 1..Len(channel) : Whole(channel, i) => channel[i] = Chunk(Len(seen) + i)
        /\ \A i \in 1..Len(channel) : channel[i] # Eof
        /\ \A i \in 1..Len(channel) : channel[i] = Failure => native \in {"ended", "destroyed"}
        /\ chunks <= Len(seen) + Len(channel) + InHand
        /\ Whole(channel, Len(channel)) => chunks = Len(seen) + Len(channel) + InHand
    BY <1>2, <1>6 DEF Context, ChannelInv
  <2>2. /\ chunks' <= Len(seen) + Len(channel) + InHand'
        /\ Whole(channel, Len(channel)) => chunks' = Len(seen) + Len(channel) + InHand'
    BY <1>1, <1>2, <1>4, <2>1
  <2>3. QED BY <1>1, <2>1, <2>2 DEF ChannelInv
<1>7. QED BY <1>1, <1>5, <1>6 DEF ChannelInv

\* Where the stream is given up nothing is promised of the channel.
LEMMA GoneReader ==
  Context /\ (StartFails \/ OpenFails \/ DropStream \/ ChunkRefused) => ReaderInv' /\ ChannelInv'
<1> SUFFICES ASSUME Context, StartFails \/ OpenFails \/ DropStream \/ ChunkRefused
             PROVE  ReaderInv' /\ ChannelInv'
  OBVIOUS
<1>1. owner' = "gone" /\ (readTask' = "sending" => readTask = "sending")
  BY DEF StartFails, OpenFails, DropStream, ChunkRefused, Closed
<1>2. UNCHANGED <<seen, readEof, chunks, eof>>
  BY DEF StartFails, OpenFails, DropStream, ChunkRefused, reader, network, readState
<1>3. QED BY <1>1, <1>2 DEF Context, ReaderInv, ChunksInOrder, ChannelInv

LEMMA ReaderNext == Context /\ [Next]_vars => ReaderInv' /\ ChannelInv'
<1> SUFFICES ASSUME Context, [Next]_vars PROVE ReaderInv' /\ ChannelInv'
  OBVIOUS
<1> DEFINE Still ==
      /\ UNCHANGED <<channel, seen, chunks, readEof>>
      /\ readTask' = "sending" <=> readTask = "sending"
      /\ eof => eof'
      /\ native \in {"ended", "destroyed"} => native' \in {"ended", "destroyed"}
      /\ \/ owner \notin {"finished", "gone"} /\ owner' \notin {"finished", "gone"}
         \/ UNCHANGED owner
<1>1. Still => ReaderInv' /\ ChannelInv'
  <2> SUFFICES ASSUME Still PROVE ReaderInv' /\ ChannelInv'
    OBVIOUS
  <2>1. InHand' = InHand
    BY DEF InHand
  <2>2. QED BY <2>1, Quiet DEF Context
<1> USE DEF flags, world, answers, readState, network, cleaning, reader, Flag, FailThenCancel
<1>2. ASSUME NEW who \in Cancelers, Cancel(who) PROVE Still
  BY <1>2 DEF Cancel, CancelLock, CancelCall
<1>3. ASSUME Create \/ Start \/ SetStarted \/ Recheck \/ Open \/ EngineCancels PROVE Still
  <2>1. native \in {"ended", "destroyed"} => native' \in {"ended", "destroyed"}
    BY <1>3 DEF Context, LifeInv, Create, Start, SetStarted, Recheck, Open, EngineCancels
  <2>2. QED BY <1>3, <2>1 DEF Create, Start, SetStarted, Recheck, Open, EngineCancels
<1>4. ASSUME StartReadLock \/ StartReadCall \/ ReadRefused PROVE Still
  BY <1>4 DEF StartReadLock, StartReadCall, ReadRefused
<1>5. ASSUME OnReady \/ OnHeaders \/ OnTrailers \/ OnEof \/ OnBadRead PROVE Still
  BY <1>5 DEF OnReady, OnHeaders, OnTrailers, OnEof, OnBadRead, Context, ReadInv
<1>6. ASSUME OnTerminal \/ Answer \/ End \/ Leave \/ Destroy PROVE Still
  BY <1>6 DEF OnTerminal, Answer, End, Leave, Destroy
<1>7. ASSUME UNCHANGED vars PROVE Still
  BY <1>7 DEF vars
<1>8. QED
  BY <1>1, <1>2, <1>3, <1>4, <1>5, <1>6, <1>7, GoneReader, OnChunkReader, SendChunkReader, SendEventReader,
     ReceiveReader DEF Next, OpenStep, TaskStep, CallbackStep

LEMMA SendingNext == Context /\ [Next]_vars => SendingInv'
<1> SUFFICES ASSUME Context, [Next]_vars PROVE SendingInv'
  OBVIOUS
<1>1. /\ sending \subseteq {Eof, Failure}
      /\ Eof \in sending => eof
      /\ Failure \in sending => native \in {"ended", "destroyed"}
  BY DEF Context, SendingInv
<1> DEFINE Fewer ==
      /\ sending' \subseteq sending
      /\ eof => eof'
      /\ native \in {"ended", "destroyed"} => native' \in {"ended", "destroyed"}
<1>2. Fewer => SendingInv'
  BY <1>1 DEF SendingInv
<1> HIDE DEF Fewer
<1> USE DEF flags, world, answers, readState, network, cleaning, reader, Flag, FailThenCancel
<1>3. ASSUME NEW who \in Cancelers, Cancel(who) PROVE Fewer
  BY <1>3 DEF Fewer, Cancel, CancelLock, CancelCall
<1>4. ASSUME Create \/ StartFails \/ Start \/ SetStarted \/ Recheck \/ Open \/ OpenFails \/ EngineCancels PROVE Fewer
  BY <1>4 DEF Fewer, Context, LifeInv, Create, StartFails, Start, SetStarted, Recheck, Open, OpenFails, EngineCancels
<1>5. ASSUME Receive \/ DropStream \/ SendChunk \/ ChunkRefused PROVE Fewer
  BY <1>5 DEF Fewer, Receive, DropStream, SendChunk, ChunkRefused
<1>6. ASSUME StartReadLock \/ StartReadCall \/ ReadRefused PROVE Fewer
  BY <1>6 DEF Fewer, StartReadLock, StartReadCall, ReadRefused
<1>7. ASSUME NEW event \in sending, SendEvent(event) PROVE Fewer
  BY <1>7 DEF Fewer, SendEvent
<1>8. ASSUME OnReady \/ OnHeaders \/ OnTrailers \/ OnChunk \/ OnBadRead PROVE Fewer
  BY <1>8 DEF Fewer, OnReady, OnHeaders, OnTrailers, OnChunk, OnBadRead
<1>9. ASSUME OnTerminal \/ Answer \/ Leave \/ Destroy PROVE Fewer
  BY <1>9 DEF Fewer, OnTerminal, Answer, Leave, Destroy
<1>10. ASSUME UNCHANGED vars PROVE Fewer
  BY <1>10 DEF Fewer, vars
<1>11. CASE OnEof
  BY <1>1, <1>11, EventKinds DEF OnEof, SendingInv
<1>12. CASE End
  <2>1. sending' \subseteq {Eof, Failure} /\ UNCHANGED <<eof, native>>
    BY <1>1, <1>12 DEF End
  <2>2. Eof \in sending' => eof
    BY <1>1, <1>12, EventKinds DEF End, Context, EndInv
  <2>3. Failure \in sending' => native \in {"ended", "destroyed"}
    BY <1>12 DEF End, Context, EndInv
  <2>4. QED BY <2>1, <2>2, <2>3 DEF SendingInv
<1>13. QED
  BY <1>2, <1>3, <1>4, <1>5, <1>6, <1>7, <1>8, <1>9, <1>10, <1>11, <1>12
     DEF Next, OpenStep, TaskStep, CallbackStep

-----------------------------------------------------------------------------
(* The types.                                                              *)

LEMMA ControlNext == ControlTypes /\ [Next]_vars => ControlTypes'
<1> SUFFICES ASSUME ControlTypes, [Next]_vars PROVE ControlTypes'
  OBVIOUS
<1> USE DEF ControlTypes, flags, world, answers, readState, network, cleaning, reader, Flag, FailThenCancel
<1>1. ASSUME NEW who \in Cancelers, Cancel(who) PROVE ControlTypes'
  BY <1>1 DEF Cancel, CancelLock, CancelCall, Cancelers
<1>2. ASSUME NEW event \in sending, SendEvent(event) PROVE ControlTypes'
  BY <1>2 DEF SendEvent
<1>3. CASE Recheck \/ OpenFails \/ EngineCancels \/ DropStream
  <2>1. CASE Recheck \/ OpenFails
    BY <2>1 DEF Recheck, OpenFails, Cancelers
  <2>2. CASE EngineCancels \/ DropStream
    BY <2>2 DEF EngineCancels, DropStream, Cancelers
  <2> QED  BY <1>3, <2>1, <2>2
<1>4. CASE ChunkRefused \/ ReadRefused \/ OnBadRead
  BY <1>4 DEF ChunkRefused, ReadRefused, OnBadRead, Cancelers
<1>5. CASE StartReadLock \/ StartReadCall
  BY <1>5 DEF StartReadLock, StartReadCall, Cancelers
<1>6. CASE Create \/ StartFails \/ Start \/ SetStarted \/ Open \/ Receive
  BY <1>6 DEF Create, StartFails, Start, SetStarted, Open, Receive
<1>7. CASE SendChunk \/ OnReady \/ OnHeaders \/ OnChunk \/ OnEof \/ OnTrailers
  BY <1>7 DEF SendChunk, OnReady, OnHeaders, OnChunk, OnEof, OnTrailers
<1>8. CASE OnTerminal \/ Answer \/ End \/ Leave \/ Destroy
  BY <1>8 DEF OnTerminal, Answer, End, Leave, Destroy
<1>9. CASE UNCHANGED vars
  BY <1>9 DEF vars
<1>10. QED
  BY <1>1, <1>2, <1>3, <1>4, <1>5, <1>6, <1>7, <1>8, <1>9
     DEF Next, OpenStep, TaskStep, CallbackStep

LEMMA WorldNext == WorldTypes /\ [Next]_vars => WorldTypes'
<1> SUFFICES ASSUME WorldTypes, [Next]_vars PROVE WorldTypes'
  OBVIOUS
<1> USE DEF WorldTypes, flags, world, answers, readState, network, cleaning, reader, Flag, FailThenCancel
<1>1. ASSUME NEW who \in Cancelers, Cancel(who) PROVE WorldTypes'
  BY <1>1 DEF Cancel, CancelLock, CancelCall, Cancelers
<1>2. ASSUME NEW event \in sending, SendEvent(event) PROVE WorldTypes'
  BY <1>2 DEF SendEvent
<1>3. CASE Create \/ StartFails \/ Start
  BY <1>3 DEF Create, StartFails, Start
<1>4. CASE Open \/ OpenFails \/ Receive \/ DropStream
  BY <1>4 DEF Open, OpenFails, Receive, DropStream
<1>5. CASE OnTerminal \/ Destroy
  BY <1>5 DEF OnTerminal, Destroy
<1>6. CASE SetStarted \/ Recheck \/ EngineCancels \/ SendChunk \/ ChunkRefused \/ StartReadLock
  BY <1>6 DEF SetStarted, Recheck, EngineCancels, SendChunk, ChunkRefused, StartReadLock
<1>7. CASE StartReadCall \/ ReadRefused \/ OnReady \/ OnHeaders \/ OnChunk \/ OnEof
  BY <1>7 DEF StartReadCall, ReadRefused, OnReady, OnHeaders, OnChunk, OnEof
<1>8. CASE OnBadRead \/ OnTrailers \/ Answer \/ End \/ Leave
  BY <1>8 DEF OnBadRead, OnTrailers, Answer, End, Leave
<1>9. CASE UNCHANGED vars
  BY <1>9 DEF vars
<1>10. QED
  BY <1>1, <1>2, <1>3, <1>4, <1>5, <1>6, <1>7, <1>8, <1>9
     DEF Next, OpenStep, TaskStep, CallbackStep

LEMMA CallbackNext == CallbackTypes /\ [Next]_vars => CallbackTypes'
<1> SUFFICES ASSUME CallbackTypes, [Next]_vars PROVE CallbackTypes'
  OBVIOUS
<1> USE DEF CallbackTypes, flags, world, answers, readState, network, cleaning, reader, Flag, FailThenCancel
<1>1. ASSUME NEW who \in Cancelers, Cancel(who) PROVE CallbackTypes'
  BY <1>1 DEF Cancel, CancelLock, CancelCall, Cancelers
<1>2. ASSUME NEW event \in sending, SendEvent(event) PROVE CallbackTypes'
  BY <1>2 DEF SendEvent
<1>3. CASE OnReady \/ OnHeaders \/ OnTrailers
  BY <1>3 DEF OnReady, OnHeaders, OnTrailers, Endings
<1>4. CASE OnTerminal
  BY <1>4 DEF OnTerminal, Endings
<1>5. CASE Answer
  BY <1>5 DEF Answer, Endings
<1>6. CASE End \/ Leave \/ Destroy
  BY <1>6 DEF End, Leave, Destroy, Endings
<1>7. CASE Create \/ StartFails \/ Start \/ SetStarted \/ Recheck \/ Open
  BY <1>7 DEF Create, StartFails, Start, SetStarted, Recheck, Open
<1>8. CASE OpenFails \/ EngineCancels \/ Receive \/ DropStream \/ SendChunk \/ ChunkRefused
  BY <1>8 DEF OpenFails, EngineCancels, Receive, DropStream, SendChunk, ChunkRefused
<1>9. CASE StartReadLock \/ StartReadCall \/ ReadRefused \/ OnChunk \/ OnEof \/ OnBadRead
  BY <1>9 DEF StartReadLock, StartReadCall, ReadRefused, OnChunk, OnEof, OnBadRead
<1>10. CASE UNCHANGED vars
  BY <1>10 DEF vars
<1>11. QED
  BY <1>1, <1>2, <1>3, <1>4, <1>5, <1>6, <1>7, <1>8, <1>9, <1>10
     DEF Next, OpenStep, TaskStep, CallbackStep

LEMMA ReadTypesNext == ReadTypes /\ [Next]_vars => ReadTypes'
<1> SUFFICES ASSUME ReadTypes, [Next]_vars PROVE ReadTypes'
  OBVIOUS
<1> USE DEF ReadTypes, flags, world, answers, readState, network, cleaning, reader, Flag, FailThenCancel
<1>1. ASSUME NEW who \in Cancelers, Cancel(who) PROVE ReadTypes'
  BY <1>1 DEF Cancel, CancelLock, CancelCall, Cancelers
<1>2. ASSUME NEW event \in sending, SendEvent(event) PROVE ReadTypes'
  BY <1>2 DEF SendEvent
<1>3. CASE StartReadLock \/ StartReadCall \/ ReadRefused
  BY <1>3 DEF StartReadLock, StartReadCall, ReadRefused
<1>4. CASE OnHeaders \/ OnChunk \/ OnEof \/ OnBadRead \/ OnTerminal
  BY <1>4 DEF OnHeaders, OnChunk, OnEof, OnBadRead, OnTerminal
<1>5. CASE Create \/ StartFails \/ Start \/ SetStarted \/ Recheck \/ Open
  BY <1>5 DEF Create, StartFails, Start, SetStarted, Recheck, Open
<1>6. CASE OpenFails \/ EngineCancels \/ Receive \/ DropStream \/ SendChunk \/ ChunkRefused
  BY <1>6 DEF OpenFails, EngineCancels, Receive, DropStream, SendChunk, ChunkRefused
<1>7. CASE OnReady \/ OnTrailers \/ Answer \/ End \/ Leave \/ Destroy
  BY <1>7 DEF OnReady, OnTrailers, Answer, End, Leave, Destroy
<1>8. CASE UNCHANGED vars
  BY <1>8 DEF vars
<1>9. QED
  BY <1>1, <1>2, <1>3, <1>4, <1>5, <1>6, <1>7, <1>8
     DEF Next, OpenStep, TaskStep, CallbackStep

LEMMA StateNext == StateTypes /\ [Next]_vars => StateTypes'
BY ControlNext, WorldNext, CallbackNext, ReadTypesNext DEF StateTypes

LEMMA DataNext == Context /\ [Next]_vars => DataTypes'
<1> SUFFICES ASSUME Context, [Next]_vars PROVE DataTypes'
  OBVIOUS
<1> USE DEF Context, DataTypes, flags, world, answers, readState, network, cleaning, reader, Flag, FailThenCancel
<1>1. ASSUME NEW who \in Cancelers, Cancel(who) PROVE DataTypes'
  BY <1>1 DEF Cancel, CancelLock, CancelCall
<1>2. CASE Create \/ StartFails \/ Start \/ SetStarted \/ Recheck \/ Open \/ OpenFails \/ EngineCancels
  BY <1>2 DEF Create, StartFails, Start, SetStarted, Recheck, Open, OpenFails, EngineCancels
<1>3. CASE Receive
  <2>1. channel \in Seq(Event) /\ channel # <<>> /\ channel' = Tail(channel) /\ UNCHANGED <<chunks, sending>>
    BY <1>3 DEF Receive
  <2>2. /\ Head(channel) \in Event /\ Tail(channel) \in Seq(Event) /\ Len(Tail(channel)) = Len(channel) - 1
        /\ Len(channel) \in Nat
    BY <2>1, Taken, LenProperties
  <2>3. Head(channel).kind = "chunk" => Head(channel).number \in 1..MaxChunks
    BY <2>2, EventKinds
  <2>4. seen' \in Seq(1..MaxChunks)
    BY <1>3, <2>3, Appended DEF Receive
  <2>5. QED BY <2>1, <2>2, <2>4, StreamAssumption
<1>4. CASE SendChunk
  <2>1. chunks \in 1..MaxChunks /\ Chunk(chunks) \in Event
    BY <1>4, EventKinds DEF SendChunk, ReaderInv
  <2>2. channel' \in Seq(Event) /\ Len(channel') = Len(channel) + 1 /\ Len(channel) \in Nat
    BY <1>4, <2>1, Appended, LenProperties DEF SendChunk
  <2>3. QED BY <1>4, <2>2, StreamAssumption DEF SendChunk, Room
<1>5. ASSUME NEW event \in sending, SendEvent(event) PROVE DataTypes'
  <2>1. sending' \subseteq Event /\ UNCHANGED <<chunks, seen>>
    BY <1>5 DEF SendEvent
  <2>2. channel' = channel \/ (channel' = Append(channel, event) /\ Len(channel) < ChannelCapacity)
    BY <1>5 DEF SendEvent, Room
  <2>3. Append(channel, event) \in Seq(Event) /\ Len(Append(channel, event)) = Len(channel) + 1 /\ Len(channel) \in Nat
    BY Appended, LenProperties
  <2>4. channel' \in Seq(Event) /\ Len(channel') <= ChannelCapacity
    <3>1. CASE channel' = channel
      BY <3>1
    <3>2. CASE channel' = Append(channel, event) /\ Len(channel) < ChannelCapacity
      <4>1. ChannelCapacity \in Nat
        BY StreamAssumption
      <4>2. Len(channel) + 1 <= ChannelCapacity
        BY <2>3, <3>2, <4>1
      <4> QED  BY <2>3, <3>2, <4>2
    <3> QED  BY <2>2, <3>1, <3>2
  <2>5. QED BY <2>1, <2>4
<1>6. CASE DropStream
  BY <1>6, EmptySeq, StreamAssumption DEF DropStream
<1>7. CASE ChunkRefused \/ StartReadLock \/ StartReadCall \/ ReadRefused
  BY <1>7 DEF ChunkRefused, StartReadLock, StartReadCall, ReadRefused
<1>8. CASE OnReady \/ OnHeaders \/ OnTrailers \/ OnBadRead
  BY <1>8 DEF OnReady, OnHeaders, OnTrailers, OnBadRead
<1>9. CASE OnChunk
  BY <1>9, StreamAssumption DEF OnChunk
<1>10. CASE OnEof \/ End
  BY <1>10, EventKinds DEF OnEof, End
<1>11. CASE OnTerminal \/ Answer \/ Leave \/ Destroy
  BY <1>11 DEF OnTerminal, Answer, Leave, Destroy
<1>12. CASE UNCHANGED vars
  BY <1>12 DEF vars
<1>13. QED
  BY <1>1, <1>2, <1>3, <1>4, <1>5, <1>6, <1>7, <1>8, <1>9, <1>10, <1>11, <1>12
     DEF Next, OpenStep, TaskStep, CallbackStep

-----------------------------------------------------------------------------
LEMMA ContextInit == Init => Context
<1> SUFFICES ASSUME Init PROVE Context
  OBVIOUS
<1>1. ControlTypes /\ WorldTypes
  BY DEF Init, ControlTypes, WorldTypes
<1>2. CallbackTypes /\ ReadTypes
  BY DEF Init, CallbackTypes, ReadTypes
<1>3. DataTypes
  BY StreamAssumption, EmptySeq DEF Init, DataTypes
<1>4. channel = <<>> /\ seen = <<>> /\ Len(channel) = 0 /\ Len(seen) = 0 /\ DOMAIN seen = {}
  BY EmptySeq DEF Init
<1>5. ReaderInv
  BY <1>4 DEF Init, ReaderInv, ChunksInOrder
<1>6. ChannelInv
  BY <1>4 DEF Init, ChannelInv, InHand
<1>7. QED BY <1>1, <1>2, <1>3, <1>5, <1>6, LifeInit, ReadInit DEF Context, StateTypes

LEMMA ContextInvariant == Spec => []Context
<1>1. Context /\ [Next]_vars => Context'
  BY StateNext, DataNext, LifeNext, ReadNext, SendingNext, ReaderNext DEF Context
<1>2. QED BY <1>1, ContextInit, PTL DEF Spec

\* Every variable of a stream keeps its type; the read channel never holds more
\* events than read_channel_capacity.
THEOREM TypeCorrect == Spec => []TypeOK
<1>1. Context => TypeOK
  <2>1. StateTypes => {opened, headers, trailers, result, outcome} \subseteq {"none", "ok", "err"}
    BY DEF StateTypes, CallbackTypes
  <2>2. Event = {Eof, Failure} \cup {Chunk(n) : n \in 1..MaxChunks}
    BY DEF Event
  <2>3. QED BY <2>1, <2>2 DEF Context, TypeOK, StateTypes, ControlTypes, WorldTypes, CallbackTypes, ReadTypes, DataTypes
<1>2. QED BY <1>1, ContextInvariant, PTL

\* Nothing is called on a stream that was destroyed, no callback is inside one, and a
\* stream that exists keeps its engine, whoever cancels it and whenever it ends.
THEOREM LifetimeSafe == Spec => []StreamOutlivesItsUses
<1>1. Context => StreamOutlivesItsUses
  BY DEF Context, LifeInv, StreamOutlivesItsUses
<1>2. QED BY <1>1, ContextInvariant, PTL

\* The owner receives the chunks in order and without gaps, all of them before an end
\* of the data, and Cronet is never asked for more than the channel has room for.
THEOREM ReadSideFaithful == Spec => []ReadSideIsFaithful
<1>1. Context => ReadSideIsFaithful
  <2> SUFFICES ASSUME Context PROVE ReadSideIsFaithful
    OBVIOUS
  <2>1. ChunksInOrder /\ EofMeansComplete
    BY DEF Context, ReaderInv, EofMeansComplete
  <2>2. Len(seen) \in Nat /\ Len(channel) \in Nat /\ chunks \in Nat /\ ChannelCapacity \in Nat
        /\ Len(channel) <= ChannelCapacity /\ InHand \in {0, 1}
    BY LenProperties, StreamAssumption DEF Context, DataTypes, InHand
  <2>3. ReadBackpressure
    <3>1. CASE owner = "finished"
      BY <2>2, <3>1 DEF Context, ReaderInv, ReadBackpressure
    <3>2. CASE owner \notin {"finished", "gone"}
      <4>1. chunks <= Len(seen) + Len(channel) + InHand
        BY <3>2 DEF Context, ChannelInv
      <4>2. QED BY <2>2, <4>1 DEF ReadBackpressure
    <3>3. CASE owner = "gone"
      BY <3>3 DEF ReadBackpressure
    <3>4. QED BY <3>1, <3>2, <3>3
  <2>4. QED BY <2>1, <2>3 DEF ReadSideIsFaithful
<1>2. QED BY <1>1, ContextInvariant, PTL
=============================================================================
