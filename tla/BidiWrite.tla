------------------------------ MODULE BidiWrite ------------------------------
(***************************************************************************)
(* The write side of a bidirectional stream                                *)
(* (tokio-cronet/src/bidirectional.rs).                                    *)
(*                                                                         *)
(* Actors: the producer, the task that polls AsyncWrite and then may drop  *)
(* the stream; write_loop, the task that hands queued commands to Cronet;  *)
(* and Cronet's network thread, which calls on_stream_ready,               *)
(* on_write_completed and one terminal callback, one at a time.  They meet *)
(* in WriteShared: a queue, the writes in flight and the flushes that wait *)
(* for them, with a Notify for write_loop and a Waker for the producer.    *)
(*                                                                         *)
(* A write is its number in the order of acceptance, a flush its number in *)
(* the order of queueing.  One action is one critical section of           *)
(* WriteShared::state, one native call, or one signal.                     *)
(***************************************************************************)
EXTENDS Naturals, Sequences, FiniteSets

CONSTANTS
  Capacity,  \* write_capacity
  MaxWrites, \* bound: writes the producer makes, the end of stream included
  MaxFlushes \* bound: flushes the producer queues

ASSUME WriteAssumption ==
  /\ Capacity \in Nat \ {0}
  /\ MaxWrites \in Nat
  /\ MaxFlushes \in Nat

VARIABLES
  autoFlush,    \* ~disable_auto_flush
  queue,        \* WriteState::queue, of data and flush commands
  inFlight,     \* WriteState::in_flight
  flushWaiters, \* WriteState::flush_waiters
  flushBlocked, \* WriteState::flush_blocked
  dataClosed,   \* WriteState::local_closed
  terminal,     \* WriteState::terminal: "none", "ok" or "err"
  ready,        \* WriteShared::ready
  permit,       \* WriteShared::notify stores a notify_one
  heard,        \* write_loop's Notified was notified since it was made
  waker,        \* WriteShared::producer_waker is Some
  woken,        \* the producer's task was woken since it was last polled
  loop,         \* where write_loop stands
  popped,       \* the command write_loop holds
  prod,         \* where the producer stands
  call,         \* the method it polls: "write", "flush" or "shutdown"
  accepted,     \* writes accepted so far
  eosAt,        \* the write that ends the stream, or 0
  shutdownStarted, streamClosed, \* BidirectionalStream's; local_closed is streamClosed
  receiver,     \* flush_receiver: the flush whose answer it holds, or 0
  issued,       \* flushes queued so far
  goals,        \* goals[k]: writes accepted before flush k was queued
  answer,       \* answer[k]: what flush k was told
  net,          \* where the network thread stands
  outcome,      \* the result of its terminal callback
  done,         \* BidirectionalControl::done
  canceled,     \* Cronet was asked to cancel
  sent,         \* writes Cronet took
  completed,    \* how many of them it completed
  released      \* how many of them it need not hold back for a flush

state == <<queue, inFlight, flushWaiters, flushBlocked, dataClosed, terminal>>
signals == <<ready, permit, heard, waker, woken>>
writer == <<loop, popped>>
producer == <<prod, call, accepted, eosAt, shutdownStarted, streamClosed, receiver,
              issued, goals>>
native == <<net, outcome, done, canceled, sent, completed, released>>
vars == <<autoFlush, state, signals, writer, producer, answer, native>>

Flushes == 1..MaxFlushes
Data(n) == [kind |-> "data", number |-> n]

Flush(k) == [kind |-> "flush", number |-> k]
NoCommand == [kind |-> "none", number |-> 0]

-----------------------------------------------------------------------------
(* WriteShared.                                                            *)

\* queue_data_count
QueuedData == Cardinality({i \in DOMAIN queue : queue[i].kind = "data"})

QueuedFlushes == {queue[i].number : i \in {j \in DOMAIN queue : queue[j].kind = "flush"}}

\* Mutant: the bound forgets the writes in flight.
FullQueue == QueuedData >= Capacity

Full == QueuedData + Cardinality(inFlight) >= Capacity

\* Notify::notify_one: it releases the Notified that waits, or stores a permit.
NotifyOne ==
  IF loop = "waiting" /\ ~heard
    THEN heard' = TRUE /\ UNCHANGED permit
    ELSE permit' = TRUE /\ UNCHANGED heard

\* wake_producer: the waker is taken and used once.
WakeProducer ==
  /\ waker' = FALSE
  /\ woken' = (woken \/ waker)

\* Every flush in ks is told how its wait ended.
Tell(ks, told) == answer' = [k \in Flushes |-> IF k \in ks THEN told ELSE answer[k]]

\* finish, under the lock.  in_flight and flush_blocked stay as they are.
Finish(result) ==
  /\ terminal' = result
  /\ Tell(flushWaiters \cup QueuedFlushes, result)
  /\ flushWaiters' = {} /\ queue' = <<>>
  /\ UNCHANGED <<inFlight, flushBlocked, dataClosed>>

Init ==
  /\ autoFlush \in BOOLEAN
  /\ queue = <<>> /\ inFlight = {}
  /\ flushWaiters = {} /\ flushBlocked = FALSE
  /\ dataClosed = FALSE /\ terminal = "none"
  /\ ready = FALSE /\ permit = FALSE /\ heard = FALSE
  /\ waker = FALSE /\ woken = FALSE
  /\ loop = "top" /\ popped = NoCommand
  /\ prod = "opening" /\ call = "none"
  /\ accepted = 0 /\ eosAt = 0
  /\ shutdownStarted \in BOOLEAN /\ streamClosed = shutdownStarted
  /\ receiver = 0 /\ issued = 0
  /\ goals = [k \in Flushes |-> 0]
  /\ answer = [k \in Flushes |-> "none"]
  /\ net = "idle" /\ outcome = "none" /\ done = FALSE /\ canceled = FALSE
  /\ sent = 0 /\ completed = 0 /\ released = 0

-----------------------------------------------------------------------------
(* The producer.                                                           *)

\* The poll returns Ready.
Return ==
  /\ prod' = "idle" /\ call' = "none"

\* poll_write starts; a closed write side is refused at once.
Write ==
  /\ prod = "idle"
  /\ ~shutdownStarted /\ ~streamClosed
  /\ accepted < MaxWrites
  /\ prod' = "enqueue" /\ call' = "write" /\ woken' = FALSE
  /\ UNCHANGED <<autoFlush, state, ready, permit, heard, waker, writer, accepted, eosAt,
                 shutdownStarted, streamClosed, receiver, issued, goals, answer, native>>

\* poll_shutdown starts.  One that was started before only waits for its
\* flush; when no flush is outstanding it takes that for success.
Shutdown ==
  /\ prod = "idle" /\ ~streamClosed
  /\ woken' = FALSE
  /\ \/ /\ ~shutdownStarted /\ accepted < MaxWrites /\ issued < MaxFlushes
        /\ prod' = "enqueue" /\ call' = "shutdown"
        /\ UNCHANGED streamClosed
     \/ /\ shutdownStarted /\ receiver # 0
        /\ prod' = "awaitFlush" /\ call' = "shutdown"
        /\ UNCHANGED streamClosed
     \/ /\ shutdownStarted /\ receiver = 0
        /\ streamClosed' = TRUE
        /\ UNCHANGED <<prod, call>>
  /\ UNCHANGED <<autoFlush, state, ready, permit, heard, waker, writer, accepted, eosAt,
                 shutdownStarted, receiver, issued, goals, answer, native>>

\* Mutant: poll_flush forgets the flush it already waits for.
FlushCallAnew ==
  /\ prod = "idle"
  /\ prod' = "enqueueFlush"
  /\ receiver = 0 => issued < MaxFlushes
  /\ call' = "flush" /\ woken' = FALSE
  /\ UNCHANGED <<autoFlush, state, ready, permit, heard, waker, writer, accepted, eosAt,
                 shutdownStarted, streamClosed, receiver, issued, goals, answer, native>>

\* poll_flush starts.  A flush left behind by an abandoned call is waited for
\* instead of a new one.
FlushCall ==
  /\ prod = "idle"
  /\ prod' = (IF receiver = 0 THEN "enqueueFlush" ELSE "awaitFlush")
  /\ receiver = 0 => issued < MaxFlushes
  /\ call' = "flush" /\ woken' = FALSE
  /\ UNCHANGED <<autoFlush, state, ready, permit, heard, waker, writer, accepted, eosAt,
                 shutdownStarted, streamClosed, receiver, issued, goals, answer, native>>

\* enqueue_data, first critical section: refuse, find no room, or accept.
EnqueueData ==
  /\ prod = "enqueue"
  /\ \/ /\ terminal = "err" \/ dataClosed
        /\ Return
        /\ UNCHANGED <<queue, dataClosed, accepted, eosAt>>
     \/ /\ terminal # "err" /\ ~dataClosed
        /\ Full
        /\ prod' = "storeWaker"
        /\ UNCHANGED <<queue, dataClosed, call, accepted, eosAt>>
     \/ /\ terminal # "err" /\ ~dataClosed
        /\ ~Full
        /\ accepted' = accepted + 1
        /\ queue' = Append(queue, Data(accepted'))
        /\ eosAt' = (IF call = "shutdown" THEN accepted' ELSE eosAt)
        /\ dataClosed' = (call = "shutdown")
        /\ prod' = "notify"
        /\ UNCHANGED call
  /\ UNCHANGED <<autoFlush, inFlight, flushWaiters, flushBlocked, terminal, signals, writer,
                 shutdownStarted, streamClosed, receiver, issued, goals, answer, native>>

\* enqueue_data: the producer leaves its waker.
StoreWaker ==
  /\ prod = "storeWaker"
  /\ prod' = "recheck" /\ waker' = TRUE
  /\ UNCHANGED <<autoFlush, state, ready, permit, heard, woken, writer, call, accepted, eosAt,
                 shutdownStarted, streamClosed, receiver, issued, goals, answer, native>>

\* enqueue_data, second critical section: it returns Pending or starts over.
Recheck ==
  /\ prod = "recheck"
  /\ prod' = (IF Full THEN "parked" ELSE "enqueue")
  /\ UNCHANGED <<autoFlush, state, signals, writer, call, accepted, eosAt,
                 shutdownStarted, streamClosed, receiver, issued, goals, answer, native>>

\* The woken producer polls again.
Repoll ==
  /\ prod = "parked" /\ woken
  /\ prod' = "enqueue" /\ woken' = FALSE
  /\ UNCHANGED <<autoFlush, state, ready, permit, heard, waker, writer, call, accepted, eosAt,
                 shutdownStarted, streamClosed, receiver, issued, goals, answer, native>>

\* enqueue_data returns Ok(true): poll_write is done, poll_shutdown goes on to
\* queue its flush.
NotifyData ==
  /\ prod = "notify"
  /\ NotifyOne
  /\ \/ call = "write" /\ Return /\ UNCHANGED shutdownStarted
     \/ /\ call = "shutdown"
        /\ shutdownStarted' = TRUE
        /\ prod' = "enqueueFlush" /\ UNCHANGED call
  /\ UNCHANGED <<autoFlush, state, ready, waker, woken, writer, accepted, eosAt, streamClosed,
                 receiver, issued, goals, answer, native>>

\* enqueue_control
EnqueueFlush ==
  /\ prod = "enqueueFlush"
  /\ \/ terminal = "err" /\ Return /\ UNCHANGED <<queue, issued, goals>>
     \/ /\ terminal # "err"
        /\ issued' = issued + 1
        /\ queue' = Append(queue, Flush(issued'))
        /\ goals' = [goals EXCEPT ![issued'] = accepted]
        /\ prod' = "notifyFlush" /\ UNCHANGED call
  /\ UNCHANGED <<autoFlush, inFlight, flushWaiters, flushBlocked, dataClosed, terminal, signals,
                 writer, accepted, eosAt, shutdownStarted, streamClosed, receiver, answer, native>>

\* Mutant: write_loop is not told of the flush.
NotifyNobody ==
  /\ prod = "notifyFlush"
  /\ receiver' = issued
  /\ prod' = "awaitFlush"
  /\ UNCHANGED <<autoFlush, state, signals, writer, call, accepted, eosAt,
                 shutdownStarted, streamClosed, issued, goals, answer, native>>

\* enqueue_control ends and the call starts to wait for the answer.
NotifyFlush ==
  /\ prod = "notifyFlush"
  /\ NotifyOne
  /\ receiver' = issued
  /\ prod' = "awaitFlush"
  /\ UNCHANGED <<autoFlush, state, ready, waker, woken, writer, call, accepted, eosAt,
                 shutdownStarted, streamClosed, issued, goals, answer, native>>

\* poll_flush_receiver resolves; a shutdown told Ok closes the stream.
FlushAnswer ==
  /\ prod = "awaitFlush" /\ answer[receiver] # "none"
  /\ Return
  /\ receiver' = 0
  /\ streamClosed' = (streamClosed \/ (call = "shutdown" /\ answer[receiver] = "ok"))
  /\ UNCHANGED <<autoFlush, state, signals, writer, accepted, eosAt, shutdownStarted, issued,
                 goals, answer, native>>

\* The caller stops polling: the future of write_all, flush or shutdown is
\* dropped while Pending.  The stream keeps its flush_receiver.
Abandon ==
  /\ prod \in {"parked", "awaitFlush"}
  /\ Return
  /\ UNCHANGED <<autoFlush, state, signals, writer, accepted, eosAt, shutdownStarted,
                 streamClosed, receiver, issued, goals, answer, native>>

\* BidirectionalStream::drop, and CancelOnDrop while open waits.
Drop ==
  /\ prod \in {"opening", "idle", "parked", "awaitFlush"}
  /\ prod' = "dropped" /\ call' = "none"
  /\ canceled' = (canceled \/ ~done)
  /\ UNCHANGED <<autoFlush, state, signals, writer, accepted, eosAt, shutdownStarted,
                 streamClosed, receiver, issued, goals, answer, net, outcome, done, sent,
                 completed, released>>

\* BidirectionalStream::cancel
Cancel ==
  /\ prod = "idle" /\ ~done
  /\ canceled' = TRUE
  /\ UNCHANGED <<autoFlush, state, signals, writer, producer, answer, net, outcome, done, sent,
                 completed, released>>

ProducerPoll ==
  \/ EnqueueData \/ StoreWaker \/ Recheck \/ Repoll \/ NotifyData
  \/ EnqueueFlush \/ NotifyFlush \/ FlushAnswer

ProducerChoice == Write \/ Shutdown \/ FlushCall \/ Abandon \/ Drop \/ Cancel

-----------------------------------------------------------------------------
(* write_loop.                                                             *)

\* The loop makes its Notified, then looks whether the stream is ready.
LoopTop ==
  /\ loop = "top"
  /\ heard' = FALSE
  /\ loop' = "ready?"
  /\ UNCHANGED <<autoFlush, state, ready, permit, waker, woken, popped, producer, answer, native>>

LoopReady ==
  /\ loop = "ready?"
  /\ loop' = (IF ready THEN "pop" ELSE "await")
  /\ UNCHANGED <<autoFlush, state, signals, popped, producer, answer, native>>

\* The loop takes a command, unless the stream ended or a flush is waited for.
Pop ==
  /\ loop = "pop"
  /\ \/ /\ terminal # "none" \/ flushBlocked \/ queue = <<>>
        /\ loop' = "check"
        /\ UNCHANGED <<popped, queue>>
     \/ /\ terminal = "none" /\ ~flushBlocked /\ queue # <<>>
        /\ popped' = Head(queue) /\ queue' = Tail(queue)
        /\ loop' = (IF popped'.kind = "data" THEN "insert" ELSE "flush")
  /\ UNCHANGED <<autoFlush, inFlight, flushWaiters, flushBlocked, dataClosed, terminal,
                 signals, producer, answer, native>>

\* No command: the loop ends with the stream, or waits.
Check ==
  /\ loop = "check"
  /\ loop' = (IF terminal # "none" THEN "exit" ELSE "await")
  /\ UNCHANGED <<autoFlush, state, signals, popped, producer, answer, native>>

\* First poll of the Notified: it takes a permit, or a signal sent since it
\* was made, or starts to wait.
Await ==
  /\ loop = "await"
  /\ permit' = FALSE
  /\ loop' = (IF permit \/ heard THEN "top" ELSE "waiting")
  /\ UNCHANGED <<autoFlush, state, ready, heard, waker, woken, popped, producer, answer, native>>

Resume ==
  /\ loop = "waiting" /\ heard
  /\ loop' = "top"
  /\ UNCHANGED <<autoFlush, state, signals, popped, producer, answer, native>>

\* A write counts as in flight before Cronet has it.
InsertInFlight ==
  /\ loop = "insert"
  /\ inFlight' = inFlight \cup {popped.number}
  /\ loop' = "write"
  /\ UNCHANGED <<autoFlush, queue, flushWaiters, flushBlocked, dataClosed, terminal, signals,
                 popped, producer, answer, native>>

\* BidirectionalControl::write: refused once the stream is done, or by Cronet.
NativeWrite ==
  /\ loop = "write"
  /\ popped' = NoCommand
  /\ \/ /\ ~done
        /\ sent' = sent + 1
        /\ released' = (IF autoFlush THEN sent' ELSE released)
        /\ loop' = "top"
     \/ loop' = "fail" /\ UNCHANGED <<sent, released>>
  /\ UNCHANGED <<autoFlush, state, signals, producer, answer, net, outcome, done, canceled,
                 completed>>

\* BidirectionalControl::flush; when it fails the flush is told so.
NativeFlush ==
  /\ loop = "flush"
  /\ \/ /\ done
        /\ Tell({popped.number}, "err")
        /\ popped' = NoCommand /\ loop' = "fail"
        /\ UNCHANGED released
     \/ /\ ~done
        /\ released' = sent
        /\ loop' = "answer"
        /\ UNCHANGED <<answer, popped>>
  /\ UNCHANGED <<autoFlush, state, signals, producer, net, outcome, done, canceled, sent,
                 completed>>

\* Mutant: Cronet was told to flush, so the flush is answered.
AnswerAtOnce ==
  /\ loop = "answer"
  /\ Tell({popped.number}, "ok")
  /\ popped' = NoCommand /\ loop' = "top"
  /\ UNCHANGED <<autoFlush, state, signals, producer, native>>

\* A flush with writes in flight waits for them and blocks the queue.
Answer ==
  /\ loop = "answer"
  /\ popped' = NoCommand /\ loop' = "top"
  /\ \/ /\ inFlight = {}
        /\ Tell({popped.number}, "ok")
        /\ UNCHANGED <<flushBlocked, flushWaiters>>
     \/ /\ inFlight # {}
        /\ flushBlocked' = TRUE
        /\ flushWaiters' = flushWaiters \cup {popped.number}
        /\ UNCHANGED answer
  /\ UNCHANGED <<autoFlush, queue, inFlight, dataClosed, terminal, signals, producer, native>>

\* The error path: finish, which wakes the producer, cancel, return.  Its
\* notify_waiters reaches nobody: only write_loop itself ever waits.
LoopFinish ==
  /\ loop = "fail"
  /\ Finish("err")
  /\ loop' = "wake"
  /\ UNCHANGED <<autoFlush, signals, popped, producer, native>>

LoopWake ==
  /\ loop = "wake"
  /\ WakeProducer
  /\ loop' = "cancel"
  /\ UNCHANGED <<autoFlush, state, ready, permit, heard, popped, producer, answer, native>>

LoopCancel ==
  /\ loop = "cancel"
  /\ canceled' = (canceled \/ ~done)
  /\ loop' = "exit"
  /\ UNCHANGED <<autoFlush, state, signals, popped, producer, answer, net, outcome, done, sent,
                 completed, released>>

WriteLoop ==
  \/ LoopTop \/ LoopReady \/ Pop \/ Check \/ Await \/ Resume
  \/ InsertInFlight \/ NativeWrite \/ NativeFlush \/ Answer
  \/ LoopFinish \/ LoopWake \/ LoopCancel

-----------------------------------------------------------------------------
(* Cronet's network thread.  External: when it calls back.                 *)

\* on_stream_ready, until ready is stored.
StreamReady ==
  /\ net = "idle" /\ ~ready /\ ~done
  /\ ready' = TRUE
  /\ net' = "readyNotify"
  /\ UNCHANGED <<autoFlush, state, permit, heard, waker, woken, writer, producer, answer,
                 outcome, done, canceled, sent, completed, released>>

\* on_stream_ready: notify_waiters, and open returns.
ReadyNotify ==
  /\ net = "readyNotify"
  /\ heard' = TRUE
  /\ net' = "idle"
  /\ prod' = (IF prod = "opening" THEN "idle" ELSE prod)
  /\ UNCHANGED <<autoFlush, state, ready, permit, waker, woken, writer, call, accepted, eosAt,
                 shutdownStarted, streamClosed, receiver, issued, goals, answer, outcome, done,
                 canceled, sent, completed, released>>

\* Mutant: the waiting flushes are answered but the queue stays blocked.
CompleteStillBlocked ==
  /\ net = "idle" /\ ~done
  /\ completed < released
  /\ completed' = completed + 1
  /\ inFlight' = inFlight \ {completed'}
  /\ dataClosed' = (dataClosed \/ completed' = eosAt)
  /\ IF inFlight' = {} /\ flushBlocked
       THEN /\ Tell(flushWaiters, "ok")
            /\ flushWaiters' = {}
            /\ NotifyOne
       ELSE UNCHANGED <<flushWaiters, answer, permit, heard>>
  /\ net' = "completeWake"
  /\ UNCHANGED <<autoFlush, queue, flushBlocked, terminal, ready, waker, woken, writer, producer,
                 outcome, done, canceled, sent, released>>

\* on_write_completed: complete, under the lock.
Complete ==
  /\ net = "idle" /\ ~done
  /\ completed < released
  /\ completed' = completed + 1
  /\ inFlight' = inFlight \ {completed'}
  /\ dataClosed' = (dataClosed \/ completed' = eosAt)
  /\ IF inFlight' = {} /\ flushBlocked
       THEN /\ flushBlocked' = FALSE
            /\ Tell(flushWaiters, "ok")
            /\ flushWaiters' = {}
            /\ NotifyOne
       ELSE UNCHANGED <<flushBlocked, flushWaiters, answer, permit, heard>>
  /\ net' = "completeWake"
  /\ UNCHANGED <<autoFlush, queue, terminal, ready, waker, woken, writer, producer, outcome,
                 done, canceled, sent, released>>

CompleteWake ==
  /\ net = "completeWake"
  /\ WakeProducer
  /\ net' = "idle"
  /\ UNCHANGED <<autoFlush, state, ready, permit, heard, writer, producer, answer, outcome, done,
                 canceled, sent, completed, released>>

\* Cronet ends the write side with success only after the end of the stream
\* is completed; a read-only stream has none to send.
MaySucceed ==
  IF eosAt # 0 THEN completed = eosAt ELSE shutdownStarted /\ streamClosed

\* terminal, until finish: on_succeeded, on_failed or on_canceled.
Terminal ==
  /\ net = "idle" /\ ~done
  /\ done' = TRUE
  /\ outcome' \in (IF ready /\ MaySucceed THEN {"ok", "err"} ELSE {"err"})
  /\ prod' = (IF prod = "opening" THEN "dropped" ELSE prod)
  /\ net' = "finish"
  /\ UNCHANGED <<autoFlush, state, signals, writer, call, accepted, eosAt, shutdownStarted,
                 streamClosed, receiver, issued, goals, answer, canceled, sent, completed,
                 released>>

NetFinish ==
  /\ net = "finish"
  /\ Finish(outcome)
  /\ net' = "finishWake"
  /\ UNCHANGED <<autoFlush, signals, writer, producer, outcome, done, canceled, sent, completed,
                 released>>

FinishWake ==
  /\ net = "finishWake"
  /\ WakeProducer
  /\ net' = "finishNotify"
  /\ UNCHANGED <<autoFlush, state, ready, permit, heard, writer, producer, answer, outcome, done,
                 canceled, sent, completed, released>>

\* finish ends with notify_waiters.
FinishNotify ==
  /\ net = "finishNotify"
  /\ heard' = TRUE
  /\ net' = "ended"
  /\ UNCHANGED <<autoFlush, state, ready, permit, waker, woken, writer, producer, answer,
                 outcome, done, canceled, sent, completed, released>>

Callback == ReadyNotify \/ CompleteWake \/ NetFinish \/ FinishWake \/ FinishNotify

Network == StreamReady \/ Complete \/ Terminal \/ Callback

-----------------------------------------------------------------------------
Next == ProducerPoll \/ ProducerChoice \/ WriteLoop \/ Network

Spec == Init /\ [][Next]_vars

\* The runtime runs both tasks, a callback that started returns, Cronet
\* completes the writes it need not hold back and ends a canceled stream.
\* Nothing makes the producer call, or a stream become ready or end.
Fairness ==
  /\ WF_vars(ProducerPoll)
  /\ WF_vars(WriteLoop)
  /\ WF_vars(Callback)
  /\ WF_vars(Complete)
  /\ WF_vars(canceled /\ Terminal)

FairSpec == Spec /\ Fairness

-----------------------------------------------------------------------------
(* Properties.                                                             *)

\* Every variable keeps its type.
TypeOK ==
  /\ autoFlush \in BOOLEAN
  /\ queue \in Seq([kind : {"data", "flush"}, number : Nat])
  /\ inFlight \subseteq Nat /\ flushWaiters \subseteq Flushes
  /\ flushBlocked \in BOOLEAN /\ dataClosed \in BOOLEAN
  /\ terminal \in {"none", "ok", "err"}
  /\ ready \in BOOLEAN /\ permit \in BOOLEAN /\ heard \in BOOLEAN
  /\ waker \in BOOLEAN /\ woken \in BOOLEAN
  /\ loop \in {"top", "ready?", "pop", "check", "await", "waiting", "insert", "write", "flush",
               "answer", "fail", "wake", "cancel", "exit"}
  /\ popped \in [kind : {"none", "data", "flush"}, number : Nat]
  /\ prod \in {"opening", "idle", "enqueue", "storeWaker", "recheck", "parked", "notify",
               "enqueueFlush", "notifyFlush", "awaitFlush", "dropped"}
  /\ call \in {"none", "write", "flush", "shutdown"}
  /\ accepted \in Nat /\ eosAt \in Nat
  /\ shutdownStarted \in BOOLEAN /\ streamClosed \in BOOLEAN
  /\ receiver \in 0..MaxFlushes /\ issued \in 0..MaxFlushes
  /\ goals \in [Flushes -> Nat]
  /\ answer \in [Flushes -> {"none", "ok", "err"}]
  /\ net \in {"idle", "readyNotify", "completeWake", "finish", "finishWake", "finishNotify",
              "ended"}
  /\ outcome \in {"none", "ok", "err"}
  /\ done \in BOOLEAN /\ canceled \in BOOLEAN
  /\ sent \in Nat /\ completed \in Nat /\ released \in Nat

\* What the documentation of write_capacity says: it bounds the writes that are
\* queued and in flight.
WithinCapacity ==
  QueuedData + Cardinality(inFlight) <= Capacity

\* At most one write more than write_capacity is queued or in flight: the one
\* write_loop held, counted by neither, when enqueue_data looked for room.
BufferBound ==
  QueuedData + Cardinality(inFlight) <= Capacity + 1

\* A flush is told Ok only when Cronet has completed every write accepted
\* before the flush was queued, those of other polls included.
FlushOkMeansDelivered ==
  \A k \in Flushes : answer[k] = "ok" => completed >= goals[k]

\* While the queue is blocked for a flush of a live stream, some write is in
\* flight whose completion unblocks it, and that flush waits to be told.
BlockedFlushHasWrite ==
  flushBlocked /\ terminal = "none" => inFlight # {} /\ flushWaiters # {}

\* A producer that parks for room gets it, or the stream ends: the waker is
\* stored before the second look, so no completion is missed.
ParkedProducerReleased ==
  prod = "parked" /\ autoFlush ~> prod # "parked" \/ done \/ terminal # "none"

\* A call that waits for a flush of a live stream returns, or the stream ends.
FlushWaitEnds ==
  prod = "awaitFlush" ~> prod # "awaitFlush" \/ done

\* write_loop of a stream that was ready returns once the stream has ended.
WriterEnds ==
  terminal # "none" /\ ready ~> loop = "exit"

\* No wake-up of the write side is lost, the producer's, the flusher's or the
\* writer's: who waits goes on, or the stream ends and lets the writer go.
NoWakeUpLost == ParkedProducerReleased /\ FlushWaitEnds /\ WriterEnds

\* What the error of poll_flush_receiver for a stopped writer promises: a call
\* that waits for a flush is told, also when the stream has ended.
FlushAnswered ==
  prod = "awaitFlush" ~> prod # "awaitFlush"
=============================================================================
