----------------------------- MODULE BidiStream -----------------------------
(***************************************************************************)
(* A bidirectional stream from open() to its destruction, with its read    *)
(* side (tokio-cronet/src/bidirectional.rs).  Its write side is module     *)
(* BidiWrite.                                                              *)
(*                                                                         *)
(* Actors: the owner, who opens the stream, then reads and drops it; the   *)
(* engine, whose shutdown may cancel it from registration on; Cronet's     *)
(* network thread, which makes one callback at a time; and the tasks the   *)
(* callbacks spawn: one that sends a chunk and starts the next read, one   *)
(* for the end of the data, one for the terminal result, and the cleanup.  *)
(* A chunk is its number in the order Cronet delivered it.                 *)
(***************************************************************************)
EXTENDS Naturals, Sequences

CONSTANTS
  ChannelCapacity, \* read_channel_capacity
  MaxChunks,       \* bound: chunks the server sends
  StoreBuffered    \* may open()'s store of `started` be seen after its next load?

ASSUME StreamAssumption ==
  /\ ChannelCapacity \in Nat \ {0}
  /\ MaxChunks \in Nat
  /\ StoreBuffered \in BOOLEAN

VARIABLES
  owner,           \* where the owner of the stream stands
  raw, started, done, cancelRequested, \* BidirectionalControl's
  gate,            \* who holds BidirectionalControl::gate, or "free"
  canceling,       \* who has set the flag in cancel() and has yet to take the gate
  native,          \* the native stream: "none", "created", "running", "ended", "destroyed"
  nativeCanceled,  \* Cronet was asked to cancel
  operation,       \* the EngineOperation is held
  readySender,     \* BidirectionalContext::ready_sender is Some
  opened,          \* what it sent: "none", "ok" or "err"
  headers, trailers, result, \* the watch channels: "none", "ok" or "err"
  inFlight, eof,   \* ReadState's
  reading,         \* Cronet fills the read buffer
  pendingError,    \* BidirectionalContext::pending_error is Some
  callback,        \* where the network thread stands in the terminal callback
  outcome,         \* the result of that callback: "none", "ok" or "err"
  lease,           \* callback_count, of one network thread
  chunks,          \* chunks Cronet completed
  readTask,        \* the task that sends a chunk or starts a read
  sending,         \* events that tasks have still to send, besides its chunk
  signal,          \* cleanup_sender was used
  cleanup,         \* the cleanup task: "none", "waiting" or "done"
  channel,         \* what the read channel holds
  receiver,        \* BidirectionalStream, with the receiver, lives
  seen,            \* chunks the owner has received, in order
  readEof          \* BidirectionalStream::read_eof

flags == <<raw, started, done, cancelRequested, canceling>>
world == <<native, nativeCanceled, operation>>
answers == <<readySender, opened, headers, trailers, result>>
readState == <<inFlight, eof, reading>>
network == <<callback, outcome, lease, chunks>>
cleaning == <<signal, cleanup>>
reader == <<receiver, seen, readEof>>
vars == <<owner, flags, gate, world, answers, readState, pendingError, network, readTask,
          sending, cleaning, channel, reader>>

Chunk(n) == [kind |-> "chunk", number |-> n]
Eof == [kind |-> "eof", number |-> 0]
Failure == [kind |-> "error", number |-> 0]

Init ==
  /\ owner = "begin"
  /\ raw = FALSE /\ started = FALSE /\ done = FALSE /\ cancelRequested = FALSE
  /\ gate = "free" /\ canceling = {}
  /\ native = "none" /\ nativeCanceled = FALSE /\ operation = FALSE
  /\ readySender = TRUE /\ opened = "none"
  /\ headers = "none" /\ trailers = "none" /\ result = "none"
  /\ inFlight = FALSE /\ eof = FALSE /\ reading = FALSE /\ pendingError = FALSE
  /\ callback = "none" /\ outcome = "none" /\ lease = FALSE /\ chunks = 0
  /\ readTask = "none" /\ sending = {} /\ signal = FALSE /\ cleanup = "none"
  /\ channel = <<>> /\ receiver = FALSE /\ seen = <<>> /\ readEof = FALSE

-----------------------------------------------------------------------------
(* cancel(): the flag, then under the gate a look at the stream and the    *)
(* native call.                                                            *)

Flag(who) ==
  /\ cancelRequested' = TRUE
  /\ canceling' = canceling \cup {who}
  /\ UNCHANGED <<raw, started, done>>

CancelLock(who) ==
  /\ who \in canceling /\ gate = "free"
  /\ canceling' = canceling \ {who}
  /\ gate' = IF raw /\ started /\ ~done THEN who ELSE "free"
  /\ UNCHANGED <<owner, raw, started, done, cancelRequested, world, answers, readState,
                 pendingError, network, readTask, sending, cleaning, channel, reader>>

CancelCall(who) ==
  /\ gate = who
  /\ gate' = "free"
  /\ nativeCanceled' = TRUE
  /\ UNCHANGED <<owner, flags, native, operation, answers, readState, pendingError, network,
                 readTask, sending, cleaning, channel, reader>>

\* fail_then_cancel, up to its call of cancel().
FailThenCancel(who) ==
  /\ pendingError' = TRUE
  /\ Flag(who)

\* EngineInner::shutdown cancels a registered stream.
EngineCancels ==
  /\ owner # "begin" /\ ~cancelRequested
  /\ Flag("engine")
  /\ UNCHANGED <<owner, gate, world, answers, readState, pendingError, network, readTask,
                 sending, cleaning, channel, reader>>

-----------------------------------------------------------------------------
(* open().                                                                 *)

\* begin_operation, the native stream and its registration with the engine.
Create ==
  /\ owner = "begin"
  /\ owner' = "registered"
  /\ raw' = TRUE /\ native' = "created" /\ operation' = TRUE
  /\ UNCHANGED <<started, done, cancelRequested, canceling, gate, nativeCanceled, answers,
                 readState, pendingError, network, readTask, sending, cleaning, channel, reader>>

\* The registration finds the engine closed, or the native start fails: the
\* native stream is destroyed, under the gate, and the operation ends.
StartFails ==
  /\ owner = "registered" /\ gate = "free"
  /\ owner' = "gone"
  /\ raw' = FALSE /\ native' = "destroyed" /\ operation' = FALSE
  /\ UNCHANGED <<started, done, cancelRequested, canceling, gate, nativeCanceled, answers,
                 readState, pendingError, network, readTask, sending, cleaning, channel, reader>>

\* bidirectional_stream_start: callbacks may come from now on.
Start ==
  /\ owner = "registered"
  /\ owner' = "started"
  /\ native' = "running"
  /\ UNCHANGED <<flags, gate, nativeCanceled, operation, answers, readState, pendingError,
                 network, readTask, sending, cleaning, channel, reader>>

\* control.started.store; on a machine that buffers stores it may take effect
\* after the load that follows it.
SetStarted ==
  /\ owner = "started" \/ (StoreBuffered /\ owner \notin {"begin", "registered"})
  /\ native # "none" /\ ~started
  /\ started' = TRUE
  /\ UNCHANGED <<owner, raw, done, cancelRequested, canceling, gate, world, answers, readState,
                 pendingError, network, readTask, sending, cleaning, channel, reader>>

\* Mutant: a cancellation that came before the start is not repeated.
NoRecheck ==
  /\ owner = "started" /\ started
  /\ owner' = "opening" /\ cleanup' = "waiting"
  /\ UNCHANGED <<flags, gate, world, answers, readState, pendingError, network, readTask,
                 sending, signal, channel, reader>>

\* A cancellation that came too early is repeated; then the writer and the
\* cleanup task are spawned.
Recheck ==
  /\ owner = "started" /\ (started \/ StoreBuffered)
  /\ owner' = "opening" /\ cleanup' = "waiting"
  /\ IF cancelRequested THEN Flag("opener") ELSE UNCHANGED flags
  /\ UNCHANGED <<gate, world, answers, readState, pendingError, network, readTask, sending,
                 signal, channel, reader>>

\* open() returns the stream, its guard disarmed, or the error of a stream that
\* ended first; the guard then cancels, as it does when the future is dropped.
Open ==
  /\ owner = "opening" /\ opened = "ok"
  /\ owner' = "reading" /\ receiver' = TRUE
  /\ UNCHANGED <<flags, gate, world, answers, readState, pendingError, network, readTask,
                 sending, cleaning, channel, seen, readEof>>

OpenFails ==
  /\ owner = "opening" /\ opened # "ok"
  /\ owner' = "gone"
  /\ Flag("owner")
  /\ UNCHANGED <<gate, world, answers, readState, pendingError, network, readTask, sending,
                 cleaning, channel, reader>>

-----------------------------------------------------------------------------
(* The owner of an open stream.                                            *)

\* next_chunk, poll_next or poll_read takes an event; the owner stops reading
\* at the end or at an error.
Receive ==
  /\ owner = "reading" /\ channel # <<>>
  /\ channel' = Tail(channel)
  /\ LET event == Head(channel)
     IN  /\ seen' = IF event.kind = "chunk" THEN Append(seen, event.number) ELSE seen
         /\ readEof' = (event = Eof)
         /\ owner' = IF event.kind = "chunk" THEN "reading" ELSE "finished"
  /\ UNCHANGED <<flags, gate, world, answers, readState, pendingError, network, readTask,
                 sending, cleaning, receiver>>

\* Drop: a stream that is not done is canceled, and its channel closes.
DropStream ==
  /\ owner \in {"reading", "finished"}
  /\ owner' = "gone" /\ receiver' = FALSE /\ channel' = <<>>
  /\ IF done THEN UNCHANGED flags ELSE Flag("owner")
  /\ UNCHANGED <<gate, world, answers, readState, pendingError, network, readTask, sending,
                 cleaning, seen, readEof>>

-----------------------------------------------------------------------------
(* The tasks of the read side.                                             *)

\* The receiver is gone: with the stream, or with the future of open().
Closed == ~receiver /\ owner = "gone"

\* Mutant: the channel takes one event too many.
RoomAndOne == Len(channel) <= ChannelCapacity

Room == Len(channel) < ChannelCapacity

\* Mutant: the next read is started while the chunk waits for room.
SendAndRead ==
  /\ readTask = "sending"
  /\ readTask' = "starting"
  /\ sending' = sending \cup {Chunk(chunks)}
  /\ UNCHANGED <<owner, flags, gate, world, answers, readState, pendingError, network, cleaning,
                 channel, reader>>

\* The chunk is in the channel; the next read may start.
SendChunk ==
  /\ readTask = "sending" /\ ~Closed /\ Room
  /\ readTask' = "starting"
  /\ channel' = Append(channel, Chunk(chunks))
  /\ UNCHANGED <<owner, flags, gate, world, answers, readState, pendingError, network, sending,
                 cleaning, reader>>

\* Nobody will receive the chunk: the stream is canceled.
ChunkRefused ==
  /\ readTask = "sending" /\ Closed
  /\ readTask' = "none"
  /\ FailThenCancel("task")
  /\ UNCHANGED <<owner, gate, world, answers, readState, network, sending, cleaning, channel,
                 reader>>

\* start_read, under the gate: a stream that is done, destroyed, already
\* reading or at its end is left alone.
StartReadLock ==
  /\ readTask = "starting" /\ gate = "free"
  /\ IF raw /\ ~done /\ ~inFlight /\ ~eof
       THEN gate' = "reader" /\ inFlight' = TRUE /\ readTask' = "calling"
       ELSE readTask' = "none" /\ UNCHANGED <<gate, inFlight>>
  /\ UNCHANGED <<owner, flags, world, answers, eof, reading, pendingError, network, sending,
                 cleaning, channel, reader>>

\* Cronet takes the buffer; a stream that has ended meanwhile is left alone.
StartReadCall ==
  /\ readTask = "calling"
  /\ readTask' = "none" /\ gate' = "free"
  /\ reading' = (native = "running")
  /\ UNCHANGED <<owner, flags, world, answers, inFlight, eof, pendingError, network, sending,
                 cleaning, channel, reader>>

\* Cronet refuses the read: both locks are left before the stream is canceled.
ReadRefused ==
  /\ readTask = "calling"
  /\ readTask' = "none" /\ gate' = "free" /\ inFlight' = FALSE
  /\ FailThenCancel("task")
  /\ UNCHANGED <<owner, world, answers, eof, reading, network, sending, cleaning, channel, reader>>

\* A task sends an end of data or the terminal result; what nobody will
\* receive is dropped.
SendEvent(event) ==
  /\ event \in sending /\ (Closed \/ Room)
  /\ sending' = sending \ {event}
  /\ channel' = IF Closed THEN channel ELSE Append(channel, event)
  /\ UNCHANGED <<owner, flags, gate, world, answers, readState, pendingError, network, readTask,
                 cleaning, reader>>

-----------------------------------------------------------------------------
(* The network thread.                                                     *)

MayCall == native = "running" /\ callback = "none" /\ "network" \notin canceling
           /\ gate # "network"

\* on_stream_ready answers open().
OnReady ==
  /\ MayCall /\ readySender
  /\ readySender' = FALSE /\ opened' = "ok"
  /\ UNCHANGED <<owner, flags, gate, world, headers, trailers, result, readState, pendingError,
                 network, readTask, sending, cleaning, channel, reader>>

\* on_response_headers stores them and spawns the first read.
OnHeaders ==
  /\ MayCall /\ ~readySender /\ headers = "none"
  /\ headers' = "ok"
  /\ readTask' = "starting"
  /\ UNCHANGED <<owner, flags, gate, world, readySender, opened, trailers, result, readState,
                 pendingError, network, sending, cleaning, channel, reader>>

\* on_read_completed with data: it is copied and a task sends it.
OnChunk ==
  /\ MayCall /\ reading /\ chunks < MaxChunks
  /\ reading' = FALSE /\ inFlight' = FALSE
  /\ chunks' = chunks + 1
  /\ readTask' = "sending"
  /\ UNCHANGED <<owner, flags, gate, world, answers, eof, pendingError, callback, outcome, lease,
                 sending, cleaning, channel, reader>>

\* on_read_completed with no data: the end.
OnEof ==
  /\ MayCall /\ reading
  /\ reading' = FALSE /\ inFlight' = FALSE /\ eof' = TRUE
  /\ sending' = sending \cup {Eof}
  /\ UNCHANGED <<owner, flags, gate, world, answers, pendingError, network, readTask, cleaning,
                 channel, reader>>

\* on_read_completed with an error or an impossible size.
OnBadRead ==
  /\ MayCall /\ reading
  /\ reading' = FALSE /\ inFlight' = FALSE
  /\ FailThenCancel("network")
  /\ UNCHANGED <<owner, gate, world, answers, eof, network, readTask, sending, cleaning, channel,
                 reader>>

\* on_response_trailers.
OnTrailers ==
  /\ MayCall /\ headers = "ok" /\ trailers = "none"
  /\ trailers' = "ok"
  /\ UNCHANGED <<owner, flags, gate, world, readySender, opened, headers, result, readState,
                 pendingError, network, readTask, sending, cleaning, channel, reader>>

\* What Cronet may end with: success needs the end of the data, a cancellation
\* was asked for, a failure may come at any time.
Endings == (IF eof THEN {"ok"} ELSE {}) \cup {"err"}

\* on_succeeded, on_failed or on_canceled: terminal() marks the stream as done
\* and takes the error recorded for it, if any.
OnTerminal ==
  /\ MayCall
  /\ \E ending \in Endings : outcome' = IF pendingError THEN "err" ELSE ending
  /\ native' = "ended" /\ reading' = FALSE /\ lease' = TRUE
  /\ done' = TRUE /\ pendingError' = FALSE
  /\ callback' = "answering"
  /\ UNCHANGED <<owner, raw, started, cancelRequested, canceling, gate, nativeCanceled, operation,
                 answers, inFlight, eof, chunks, readTask, sending, cleaning, channel, reader>>

\* Everything that was not answered yet is answered with the result.
Answer ==
  /\ callback = "answering"
  /\ callback' = "ending"
  /\ readySender' = FALSE
  /\ opened' = IF readySender THEN outcome ELSE opened
  /\ headers' = IF headers = "none" THEN outcome ELSE headers
  /\ trailers' = IF trailers = "none" THEN outcome ELSE trailers
  /\ result' = outcome
  /\ UNCHANGED <<owner, flags, gate, world, readState, pendingError, outcome, lease, chunks,
                 readTask, sending, cleaning, channel, reader>>

\* A task is spawned that sends the result, and the cleanup task is told.
End ==
  /\ callback = "ending"
  /\ callback' = "leaving"
  /\ sending' = sending \cup {IF outcome = "ok" THEN Eof ELSE Failure}
  /\ signal' = TRUE
  /\ UNCHANGED <<owner, flags, gate, world, answers, readState, pendingError, outcome, lease,
                 chunks, readTask, cleanup, channel, reader>>

\* BidirectionalCallbackLease::drop.
Leave ==
  /\ callback = "leaving"
  /\ callback' = "left" /\ lease' = FALSE
  /\ UNCHANGED <<owner, flags, gate, world, answers, readState, pendingError, outcome, chunks,
                 readTask, sending, cleaning, channel, reader>>

-----------------------------------------------------------------------------
(* The cleanup task.                                                       *)

\* Mutant: the cleanup does not wait for the callback that told it.
DestroyUnderCallback ==
  /\ cleanup = "waiting" /\ signal /\ gate = "free"
  /\ cleanup' = "done"
  /\ raw' = FALSE /\ native' = "destroyed" /\ operation' = FALSE
  /\ UNCHANGED <<owner, started, done, cancelRequested, canceling, gate, nativeCanceled, answers,
                 readState, pendingError, network, readTask, sending, signal, channel, reader>>

\* It waits for the terminal callback and its lease, destroys the stream under
\* the gate, and ends the operation.
Destroy ==
  /\ cleanup = "waiting" /\ signal /\ ~lease /\ gate = "free"
  /\ cleanup' = "done"
  /\ raw' = FALSE /\ native' = "destroyed" /\ operation' = FALSE
  /\ UNCHANGED <<owner, started, done, cancelRequested, canceling, gate, nativeCanceled, answers,
                 readState, pendingError, network, readTask, sending, signal, channel, reader>>

-----------------------------------------------------------------------------
Cancelers == {"engine", "opener", "owner", "task", "network"}

OpenStep == SetStarted \/ Recheck \/ Open \/ (opened # "none" /\ OpenFails)
TaskStep == SendChunk \/ ChunkRefused \/ StartReadLock \/ StartReadCall
CallbackStep == Answer \/ End \/ Leave
Cancel(who) == CancelLock(who) \/ CancelCall(who)

Next ==
  \/ \E who \in Cancelers : Cancel(who)
  \/ \E event \in sending : SendEvent(event)
  \/ EngineCancels
  \/ Create \/ StartFails \/ Start \/ OpenStep \/ OpenFails
  \/ Receive \/ DropStream
  \/ TaskStep \/ ReadRefused
  \/ OnReady \/ OnHeaders \/ OnChunk \/ OnEof \/ OnBadRead \/ OnTrailers \/ OnTerminal
  \/ CallbackStep
  \/ Destroy

Spec == Init /\ [][Next]_vars

\* Threads and tasks that can go on do, and Cronet ends a canceled stream.
\* Nothing makes the server answer, or the owner read or drop the stream.
Fairness ==
  /\ WF_vars(\E who \in Cancelers : Cancel(who))
  /\ WF_vars(\E event \in sending : SendEvent(event))
  /\ WF_vars(OpenStep)
  /\ WF_vars(TaskStep)
  /\ WF_vars(CallbackStep)
  /\ WF_vars(nativeCanceled /\ OnTerminal)
  /\ WF_vars(Destroy)

\* An owner who goes on reading.
FairSpec == Spec /\ Fairness /\ WF_vars(Receive)

-----------------------------------------------------------------------------
(* Properties.                                                             *)

\* Type invariant: the range of every variable; the read channel never holds
\* more than read_channel_capacity events.
TypeOK ==
  /\ owner \in {"begin", "registered", "started", "opening", "reading", "finished", "gone"}
  /\ raw \in BOOLEAN /\ started \in BOOLEAN /\ done \in BOOLEAN /\ cancelRequested \in BOOLEAN
  /\ gate \in Cancelers \cup {"free", "reader"} /\ canceling \subseteq Cancelers
  /\ native \in {"none", "created", "running", "ended", "destroyed"}
  /\ nativeCanceled \in BOOLEAN /\ operation \in BOOLEAN /\ readySender \in BOOLEAN
  /\ {opened, headers, trailers, result, outcome} \subseteq {"none", "ok", "err"}
  /\ inFlight \in BOOLEAN /\ eof \in BOOLEAN /\ reading \in BOOLEAN /\ pendingError \in BOOLEAN
  /\ callback \in {"none", "answering", "ending", "leaving", "left"} /\ lease \in BOOLEAN
  /\ chunks \in 0..MaxChunks
  /\ readTask \in {"none", "sending", "starting", "calling"}
  /\ LET Event == {Eof, Failure} \cup {Chunk(n) : n \in 1..MaxChunks}
     IN  sending \subseteq Event /\ channel \in Seq(Event) /\ Len(channel) <= ChannelCapacity
  /\ signal \in BOOLEAN /\ cleanup \in {"none", "waiting", "done"}
  /\ receiver \in BOOLEAN /\ seen \in Seq(1..MaxChunks) /\ readEof \in BOOLEAN

\* No native call is made on a destroyed stream and no callback runs in one,
\* and a stream that exists keeps its engine alive (bidirectional.rs:575 "gate
\* keeps raw stream alive through the call").
StreamOutlivesItsUses ==
  /\ gate # "free" \/ lease => native # "destroyed"
  /\ native \in {"created", "running", "ended"} => operation

\* What was received is the data from its beginning, in order and without gaps,
\* although every chunk is sent by a task of its own.
ChunksInOrder == \A i \in DOMAIN seen : seen[i] = i

\* The owner who sees the end of the data, and no error, has all of it.
EofMeansComplete == readEof => eof /\ Len(seen) = chunks

\* Cronet is not asked for data the owner has no room for: at most one chunk
\* waits outside the channel.
ReadBackpressure == owner # "gone" => chunks - Len(seen) <= ChannelCapacity + 1

\* The reading side, on_read_completed to poll_read: chunks in order, all of them
\* before an end, and no more asked for than there is room for.
ReadSideIsFaithful == ChunksInOrder /\ EofMeansComplete /\ ReadBackpressure

\* A cancellation reaches Cronet whenever it comes, before the start, during it
\* or while a read is being started (open() re-checks cancel_requested).
CancelIsNotLost == cancelRequested /\ native = "running" ~> done

\* An owner who drops the future of open(), or the stream, leaves nothing
\* behind: the stream is destroyed and its engine operation ends.
AbandonedStreamIsReleased == owner = "gone" ~> ~operation

\* A stream that has ended is released even if nobody reads what is left, and
\* everybody who waits for headers, trailers or the result is answered.
EndedStreamSettles ==
  done ~> /\ ~operation /\ owner # "opening"
          /\ "none" \notin {headers, trailers, result}

\* An owner who reads on sees the end of the data or the error of every stream
\* that ended, however full the channel was.
ReaderSeesTheEnd == done /\ owner = "reading" ~> owner # "reading"

\* However a stream ends, canceled, abandoned or by itself, it settles: nothing waits
\* on it, and nothing of it is left that its owner does not hold.
StreamSettles ==
  CancelIsNotLost /\ AbandonedStreamIsReleased /\ EndedStreamSettles /\ ReaderSeesTheEnd
=============================================================================
