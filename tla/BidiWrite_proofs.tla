-------------------------- MODULE BidiWrite_proofs --------------------------
(***************************************************************************)
(* Proofs about BidiWrite, for every capacity and every number of writes   *)
(* and flushes.  The argument for FlushOkMeansDelivered: no write of a     *)
(* live stream is lost (CoverInv), and the queue is first in, first out    *)
(* (OrderInv); so when a flush leaves the queue, the writes accepted       *)
(* before it are completed or in flight, and what answers it with Ok has   *)
(* seen nothing in flight, or the success of the whole stream (ProdInv).   *)
(***************************************************************************)
EXTENDS BidiWrite, FiniteSetTheorems, FunctionTheorems, SequenceTheorems, TLAPS

-----------------------------------------------------------------------------
(* The inductive invariant.                                                *)

Enqueueing == {"enqueue", "storeWaker", "recheck", "parked", "notify"}
Handling == {"insert", "write", "flush", "answer"}

\* What a poll that goes on has found, and what the end of the stream implies:
\* nothing is accepted after it, nor after the stream has succeeded.
ProdInv ==
  /\ prod \in Enqueueing => ~shutdownStarted
  /\ prod \in Enqueueing /\ call = "shutdown" => issued < MaxFlushes
  /\ prod = "notify" /\ call = "shutdown" => eosAt # 0
  /\ prod = "enqueueFlush" => issued < MaxFlushes
  /\ eosAt # 0 => dataClosed /\ eosAt = accepted
  /\ eosAt = 0 /\ shutdownStarted => accepted = 0
  /\ net = "finish" => outcome # "none"
  /\ outcome = "ok" => completed >= accepted /\ (dataClosed \/ shutdownStarted)

\* The command write_loop holds is the one its place asks for.
LoopInv ==
  /\ loop \in {"insert", "write"} => popped.kind = "data"
  /\ loop \in {"flush", "answer"} => popped.kind = "flush" /\ popped.number \in 1..issued
  /\ loop \notin Handling => popped = NoCommand
  /\ loop = "write" => popped.number \in inFlight

\* Only flushes that were queued are anywhere, and they cover what had been
\* accepted by then.
IssuedInv ==
  /\ \A i \in DOMAIN queue : queue[i].kind = "flush" => queue[i].number \in 1..issued
  /\ flushWaiters \subseteq 1..issued
  /\ \A k \in Flushes : answer[k] # "none" => k <= issued
  /\ \A k \in Flushes : goals[k] <= accepted

\* The queue is first in, first out.
OrderInv ==
  /\ completed <= released /\ released <= sent /\ sent <= accepted
  /\ loop \in {"insert", "write"} => sent < popped.number /\ popped.number <= accepted
  /\ \A i \in DOMAIN queue : queue[i].kind = "data" =>
       /\ sent < queue[i].number /\ queue[i].number <= accepted
       /\ loop \in {"insert", "write"} => popped.number < queue[i].number
  /\ \A i, j \in DOMAIN queue : i < j /\ queue[j].kind = "data" =>
       /\ queue[i].kind = "data" => queue[i].number < queue[j].number
       /\ queue[i].kind = "flush" => goals[queue[i].number] < queue[j].number

\* The flushes outside the queue that nobody has answered.
Pending == flushWaiters \cup (IF loop \in {"flush", "answer"} THEN {popped.number} ELSE {})

\* No write of a live stream is lost, and a flush that left the queue waits
\* for writes in flight only.
CoverInv ==
  /\ terminal = "none" =>
       \A n \in 1..accepted :
         \/ n <= completed \/ n \in inFlight \/ popped = Data(n)
         \/ \E i \in DOMAIN queue : queue[i] = Data(n)
  /\ \A k \in Pending : \A n \in 1..goals[k] : n <= completed \/ n \in inFlight

\* A write between the queue and the count of those in flight is counted here.
BoundInv ==
  /\ IsFiniteSet(inFlight)
  /\ QueuedData + Cardinality(inFlight) + (IF loop = "insert" THEN 1 ELSE 0) <= Capacity + 1

ControlInv == TypeOK /\ ProdInv /\ LoopInv /\ IssuedInv /\ OrderInv

-----------------------------------------------------------------------------
(* The steps that touch the queue, the writes or the flushes; the others   *)
(* are quiet.                                                              *)

Quiet ==
  /\ UNCHANGED <<queue, popped, inFlight, flushWaiters, terminal, accepted, issued, goals,
                 answer, sent, completed, released>>
  /\ loop' = loop \/ (loop \notin Handling /\ loop' \notin Handling)

LEMMA Frame ==
  ASSUME TypeOK, Next
  PROVE  \/ EnqueueData \/ EnqueueFlush
         \/ Pop \/ InsertInFlight \/ NativeWrite \/ NativeFlush \/ Answer \/ LoopFinish
         \/ Complete \/ NetFinish
         \/ Quiet
<1> USE DEF Quiet, Handling, state, writer, producer, native
<1>1. CASE ProducerPoll
  BY <1>1 DEF ProducerPoll, StoreWaker, Recheck, Repoll, NotifyData, NotifyFlush, FlushAnswer
<1>2. CASE ProducerChoice
  BY <1>2 DEF ProducerChoice, Write, Shutdown, FlushCall, Abandon, Drop, Cancel
<1>3. CASE WriteLoop
  <2>1. CASE LoopTop \/ LoopReady \/ Check \/ Await \/ Resume \/ LoopWake \/ LoopCancel
    BY <2>1 DEF LoopTop, LoopReady, Check, Await, Resume, LoopWake, LoopCancel
  <2>2. QED BY <1>3, <2>1 DEF WriteLoop
<1>4. CASE Network
  BY <1>4 DEF Network, Callback, StreamReady, ReadyNotify, CompleteWake, Terminal,
              FinishWake, FinishNotify
<1>5. QED BY <1>1, <1>2, <1>3, <1>4 DEF Next

-----------------------------------------------------------------------------
(* Type correctness, in the parts that each need their own prover.         *)

BoolType ==
  /\ autoFlush \in BOOLEAN
  /\ flushBlocked \in BOOLEAN /\ dataClosed \in BOOLEAN
  /\ ready \in BOOLEAN /\ permit \in BOOLEAN /\ heard \in BOOLEAN
  /\ waker \in BOOLEAN /\ woken \in BOOLEAN
  /\ shutdownStarted \in BOOLEAN /\ streamClosed \in BOOLEAN
  /\ done \in BOOLEAN /\ canceled \in BOOLEAN

PlaceType ==
  /\ inFlight \subseteq Nat
  /\ terminal \in {"none", "ok", "err"}
  /\ loop \in {"top", "ready?", "pop", "check", "await", "waiting", "insert", "write", "flush",
               "answer", "fail", "wake", "cancel", "exit"}
  /\ prod \in {"opening", "idle", "enqueue", "storeWaker", "recheck", "parked", "notify",
               "enqueueFlush", "notifyFlush", "awaitFlush", "dropped"}
  /\ call \in {"none", "write", "flush", "shutdown"}
  /\ accepted \in Nat /\ eosAt \in Nat
  /\ net \in {"idle", "readyNotify", "completeWake", "finish", "finishWake", "finishNotify",
              "ended"}
  /\ outcome \in {"none", "ok", "err"}
  /\ sent \in Nat /\ completed \in Nat /\ released \in Nat
  /\ receiver \in 0..MaxFlushes

QueueType ==
  /\ queue \in Seq([kind : {"data", "flush"}, number : Nat])
  /\ popped \in [kind : {"none", "data", "flush"}, number : Nat]

FlushType ==
  /\ flushWaiters \subseteq Flushes /\ issued \in 0..MaxFlushes
  /\ goals \in [Flushes -> Nat]
  /\ answer \in [Flushes -> {"none", "ok", "err"}]

LEMMA TypeParts == TypeOK <=> BoolType /\ PlaceType /\ QueueType /\ FlushType
BY Zenon DEF TypeOK, BoolType, PlaceType, QueueType, FlushType

LEMMA BoolTypeStep ==
  ASSUME BoolType, Next
  PROVE  BoolType'
<1> USE DEF BoolType, state, signals, writer, producer, native
<1>1. CASE ProducerPoll
  <2>1. CASE EnqueueData
    <3>1. dataClosed' \in BOOLEAN BY <2>1 DEF EnqueueData
    <3>2. /\ UNCHANGED <<autoFlush, flushBlocked, ready, permit, heard, waker, woken>>
          /\ UNCHANGED <<shutdownStarted, streamClosed, done, canceled>>
      BY <2>1 DEF EnqueueData
    <3>3. QED BY <3>1, <3>2
  <2>2. CASE StoreWaker BY <2>2 DEF StoreWaker
  <2>3. CASE Recheck BY <2>3 DEF Recheck
  <2>4. CASE Repoll BY <2>4 DEF Repoll
  <2>5. CASE NotifyData
    <3>1. permit' \in BOOLEAN /\ heard' \in BOOLEAN BY <2>5 DEF NotifyData, NotifyOne
    <3>2. shutdownStarted' \in BOOLEAN BY <2>5 DEF NotifyData
    <3>3. /\ UNCHANGED <<autoFlush, flushBlocked, dataClosed, ready, waker, woken>>
          /\ UNCHANGED <<streamClosed, done, canceled>>
      BY <2>5 DEF NotifyData
    <3>4. QED BY <3>1, <3>2, <3>3
  <2>6. CASE EnqueueFlush BY <2>6 DEF EnqueueFlush, Return
  <2>7. CASE NotifyFlush
    <3>1. permit' \in BOOLEAN /\ heard' \in BOOLEAN BY <2>7 DEF NotifyFlush, NotifyOne
    <3>2. /\ UNCHANGED <<autoFlush, flushBlocked, dataClosed, ready, waker, woken>>
          /\ UNCHANGED <<shutdownStarted, streamClosed, done, canceled>>
      BY <2>7 DEF NotifyFlush
    <3>3. QED BY <3>1, <3>2
  <2>8. CASE FlushAnswer BY <2>8 DEF FlushAnswer, Return
  <2>9. QED BY <1>1, <2>1, <2>2, <2>3, <2>4, <2>5, <2>6, <2>7, <2>8 DEF ProducerPoll
<1>2. CASE ProducerChoice
  <2>1. CASE Write BY <2>1 DEF Write
  <2>2. CASE Shutdown BY <2>2 DEF Shutdown
  <2>3. CASE FlushCall BY <2>3 DEF FlushCall
  <2>4. CASE Abandon BY <2>4 DEF Abandon, Return
  <2>5. CASE Drop BY <2>5 DEF Drop
  <2>6. CASE Cancel BY <2>6 DEF Cancel
  <2>7. QED BY <1>2, <2>1, <2>2, <2>3, <2>4, <2>5, <2>6 DEF ProducerChoice
<1>3. CASE WriteLoop
  <2>1. CASE LoopTop BY <2>1 DEF LoopTop
  <2>2. CASE LoopReady BY <2>2 DEF LoopReady
  <2>3. CASE Pop BY <2>3 DEF Pop
  <2>4. CASE Check BY <2>4 DEF Check
  <2>5. CASE Await BY <2>5 DEF Await
  <2>6. CASE Resume BY <2>6 DEF Resume
  <2>7. CASE InsertInFlight BY <2>7 DEF InsertInFlight
  <2>8. CASE NativeWrite BY <2>8 DEF NativeWrite
  <2>9. CASE NativeFlush BY <2>9 DEF NativeFlush
  <2>10. CASE Answer
    <3>1. flushBlocked' \in BOOLEAN BY <2>10 DEF Answer
    <3>2. /\ UNCHANGED <<autoFlush, dataClosed, ready, permit, heard, waker, woken>>
          /\ UNCHANGED <<shutdownStarted, streamClosed, done, canceled>>
      BY <2>10 DEF Answer
    <3>3. QED BY <3>1, <3>2
  <2>11. CASE LoopFinish BY <2>11 DEF LoopFinish, Finish
  <2>12. CASE LoopWake BY <2>12 DEF LoopWake, WakeProducer
  <2>13. CASE LoopCancel BY <2>13 DEF LoopCancel
  <2>14. QED BY <1>3, <2>1, <2>2, <2>3, <2>4, <2>5, <2>6, <2>7, <2>8, <2>9, <2>10, <2>11, <2>12, <2>13 DEF WriteLoop
<1>4. CASE Network
  <2>1. CASE StreamReady BY <2>1 DEF StreamReady
  <2>2. CASE ReadyNotify BY <2>2 DEF ReadyNotify
  <2>3. CASE Complete BY <2>3 DEF Complete, NotifyOne
  <2>4. CASE CompleteWake BY <2>4 DEF CompleteWake, WakeProducer
  <2>5. CASE Terminal BY <2>5 DEF Terminal
  <2>6. CASE NetFinish BY <2>6 DEF NetFinish, Finish
  <2>7. CASE FinishWake BY <2>7 DEF FinishWake, WakeProducer
  <2>8. CASE FinishNotify BY <2>8 DEF FinishNotify
  <2>9. QED BY <1>4, <2>1, <2>2, <2>3, <2>4, <2>5, <2>6, <2>7, <2>8 DEF Network, Callback
<1>5. QED BY <1>1, <1>2, <1>3, <1>4 DEF Next

LEMMA PlaceTypeStep ==
  ASSUME PlaceType, popped.number \in Nat, issued \in 0..MaxFlushes, Next
  PROVE  PlaceType'
<1> USE WriteAssumption DEF WriteAssumption, PlaceType, state, signals, writer, producer, native
<1>1. CASE ProducerPoll
  <2>1. CASE EnqueueData BY <2>1 DEF EnqueueData, Return
  <2>2. CASE StoreWaker BY <2>2 DEF StoreWaker
  <2>3. CASE Recheck BY <2>3 DEF Recheck
  <2>4. CASE Repoll BY <2>4 DEF Repoll
  <2>5. CASE NotifyData BY <2>5 DEF NotifyData, NotifyOne, Return
  <2>6. CASE EnqueueFlush BY <2>6 DEF EnqueueFlush, Return
  <2>7. CASE NotifyFlush BY <2>7 DEF NotifyFlush, NotifyOne
  <2>8. CASE FlushAnswer BY <2>8 DEF FlushAnswer, Return
  <2>9. QED BY <1>1, <2>1, <2>2, <2>3, <2>4, <2>5, <2>6, <2>7, <2>8 DEF ProducerPoll
<1>2. CASE ProducerChoice
  <2>1. CASE Write BY <2>1 DEF Write
  <2>2. CASE Shutdown BY <2>2 DEF Shutdown
  <2>3. CASE FlushCall BY <2>3 DEF FlushCall
  <2>4. CASE Abandon BY <2>4 DEF Abandon, Return
  <2>5. CASE Drop BY <2>5 DEF Drop
  <2>6. CASE Cancel BY <2>6 DEF Cancel
  <2>7. QED BY <1>2, <2>1, <2>2, <2>3, <2>4, <2>5, <2>6 DEF ProducerChoice
<1>3. CASE WriteLoop
  <2>1. CASE LoopTop BY <2>1 DEF LoopTop
  <2>2. CASE LoopReady BY <2>2 DEF LoopReady
  <2>3. CASE Pop BY <2>3 DEF Pop
  <2>4. CASE Check BY <2>4 DEF Check
  <2>5. CASE Await BY <2>5 DEF Await
  <2>6. CASE Resume BY <2>6 DEF Resume
  <2>7. CASE InsertInFlight
    <3>1. inFlight' \subseteq Nat /\ loop' = "write" BY <2>7 DEF InsertInFlight
    <3>2. /\ UNCHANGED <<terminal, prod, call, accepted, eosAt, net, outcome>>
          /\ UNCHANGED <<sent, completed, released, receiver>>
      BY <2>7 DEF InsertInFlight
    <3>3. QED BY <3>1, <3>2
  <2>8. CASE NativeWrite BY <2>8 DEF NativeWrite
  <2>9. CASE NativeFlush BY <2>9 DEF NativeFlush
  <2>10. CASE Answer BY <2>10 DEF Answer
  <2>11. CASE LoopFinish BY <2>11 DEF LoopFinish, Finish
  <2>12. CASE LoopWake BY <2>12 DEF LoopWake, WakeProducer
  <2>13. CASE LoopCancel BY <2>13 DEF LoopCancel
  <2>14. QED BY <1>3, <2>1, <2>2, <2>3, <2>4, <2>5, <2>6, <2>7, <2>8, <2>9, <2>10, <2>11, <2>12, <2>13 DEF WriteLoop
<1>4. CASE Network
  <2>1. CASE StreamReady BY <2>1 DEF StreamReady
  <2>2. CASE ReadyNotify BY <2>2 DEF ReadyNotify
  <2>3. CASE Complete BY <2>3 DEF Complete, NotifyOne
  <2>4. CASE CompleteWake BY <2>4 DEF CompleteWake, WakeProducer
  <2>5. CASE Terminal BY <2>5 DEF Terminal
  <2>6. CASE NetFinish BY <2>6 DEF NetFinish, Finish
  <2>7. CASE FinishWake BY <2>7 DEF FinishWake, WakeProducer
  <2>8. CASE FinishNotify BY <2>8 DEF FinishNotify
  <2>9. QED BY <1>4, <2>1, <2>2, <2>3, <2>4, <2>5, <2>6, <2>7, <2>8 DEF Network, Callback
<1>5. QED BY <1>1, <1>2, <1>3, <1>4 DEF Next

LEMMA QueueTypeStep ==
  ASSUME TypeOK, Next
  PROVE  QueueType'
<1> DEFINE Command == [kind : {"data", "flush"}, number : Nat]
<1> QueueType /\ accepted \in Nat /\ issued \in Nat
  BY WriteAssumption DEF QueueType, TypeOK, WriteAssumption
<1> USE DEF QueueType
<1>1. CASE EnqueueData
  <2>1. Data(accepted + 1) \in Command
    BY DEF Data
  <2>2. popped' = popped /\ (queue' = queue \/ queue' = Append(queue, Data(accepted + 1)))
    BY <1>1 DEF EnqueueData, writer
  <2>3. Append(queue, Data(accepted + 1)) \in Seq(Command) BY <2>1, AppendProperties
  <2>4. QED BY <2>2, <2>3
<1>2. CASE EnqueueFlush
  <2>1. Flush(issued + 1) \in Command
    BY DEF Flush
  <2>2. popped' = popped /\ (queue' = queue \/ queue' = Append(queue, Flush(issued + 1)))
    BY <1>2 DEF EnqueueFlush, writer
  <2>3. Append(queue, Flush(issued + 1)) \in Seq(Command) BY <2>1, AppendProperties
  <2>4. QED BY <2>2, <2>3
<1>3. CASE Pop
  <2>1. CASE popped' = Head(queue) /\ queue' = Tail(queue) /\ queue # <<>>
    <3>1. Head(queue) \in Command /\ Tail(queue) \in Seq(Command)
      BY <2>1, HeadTailProperties
    <3>2. QED BY <3>1, <2>1
  <2>2. QED BY <1>3, <2>1 DEF Pop
<1>4. CASE NativeWrite BY <1>4 DEF NativeWrite, NoCommand, state
<1>5. CASE NativeFlush BY <1>5 DEF NativeFlush, NoCommand, state
<1>6. CASE Answer BY <1>6 DEF Answer, NoCommand
<1>7. CASE LoopFinish BY <1>7, EmptySeq DEF LoopFinish, Finish
<1>8. CASE NetFinish BY <1>8, EmptySeq DEF NetFinish, Finish, writer
<1>9. CASE InsertInFlight \/ Complete BY <1>9 DEF InsertInFlight, Complete, writer
<1>10. CASE Quiet BY <1>10 DEF Quiet
<1>11. QED BY Frame, <1>1, <1>2, <1>3, <1>4, <1>5, <1>6, <1>7, <1>8, <1>9, <1>10

LEMMA TellType ==
  ASSUME NEW ks, NEW told \in {"none", "ok", "err"},
         answer \in [Flushes -> {"none", "ok", "err"}], Tell(ks, told)
  PROVE  answer' \in [Flushes -> {"none", "ok", "err"}]
BY DEF Tell

LEMMA FlushTypeStep ==
  ASSUME TypeOK, ProdInv, LoopInv, Next
  PROVE  FlushType'
<1> USE DEF FlushType
<1>0. /\ FlushType /\ accepted \in Nat /\ MaxFlushes \in Nat
      /\ Flushes = 1..MaxFlushes
      /\ terminal \in {"none", "ok", "err"} /\ outcome \in {"none", "ok", "err"}
  BY WriteAssumption DEF TypeOK, WriteAssumption, Flushes
<1>1. CASE EnqueueFlush
  <2>1. CASE UNCHANGED <<issued, goals>>
    BY <1>0, <1>1, <2>1 DEF EnqueueFlush
  <2>2. CASE issued' = issued + 1 /\ goals' = [goals EXCEPT ![issued'] = accepted]
    <3>1. issued' \in 0..MaxFlushes
      BY <1>0, <1>1, <2>2 DEF EnqueueFlush, ProdInv
    <3>2. goals' \in [Flushes -> Nat]
      BY <1>0, <2>2
    <3>3. UNCHANGED <<flushWaiters, answer>>
      BY <1>1 DEF EnqueueFlush
    <3>4. QED BY <1>0, <3>1, <3>2, <3>3
  <2>3. QED BY <1>1, <2>1, <2>2 DEF EnqueueFlush
<1>2. CASE EnqueueData \/ Pop \/ InsertInFlight \/ NativeWrite
  BY <1>0, <1>2 DEF EnqueueData, Pop, InsertInFlight, NativeWrite, state, producer
<1>4. CASE NativeFlush BY <1>0, <1>4, TellType DEF NativeFlush, state, producer
<1>5. CASE Answer
  <2>1. popped.number \in Flushes BY <1>0, <1>5 DEF LoopInv, Answer
  <2>2. QED BY <1>0, <1>5, <2>1, TellType DEF Answer, producer
<1>6. CASE LoopFinish BY <1>0, <1>6, TellType DEF LoopFinish, Finish, producer
<1>7. CASE NetFinish BY <1>0, <1>7, TellType DEF NetFinish, Finish, producer
<1>8. CASE Complete BY <1>0, <1>8, TellType DEF Complete, producer
<1>9. CASE Quiet BY <1>0, <1>9 DEF Quiet
<1>10. QED BY Frame, <1>1, <1>2, <1>4, <1>5, <1>6, <1>7, <1>8, <1>9

LEMMA TypeInit == Init => TypeOK
<1> USE WriteAssumption DEF WriteAssumption, Init
<1>1. Init => BoolType BY Zenon DEF BoolType
<1>2. Init => PlaceType BY DEF PlaceType
<1>3. Init => QueueType BY EmptySeq DEF QueueType, NoCommand
<1>4. Init => FlushType BY DEF FlushType
<1>5. QED BY <1>1, <1>2, <1>3, <1>4, TypeParts

LEMMA TypeStep ==
  ASSUME TypeOK, ProdInv, LoopInv, Next
  PROVE  TypeOK'
<1>1. BoolType /\ PlaceType /\ QueueType /\ FlushType
  BY TypeParts
<1>2. BoolType' BY <1>1, BoolTypeStep
<1>3. PlaceType' BY <1>1, PlaceTypeStep DEF QueueType, FlushType
<1>4. QueueType' BY QueueTypeStep
<1>5. FlushType' BY FlushTypeStep
<1>6. QED BY <1>2, <1>3, <1>4, <1>5, Zenon DEF TypeOK, BoolType, PlaceType, QueueType, FlushType

-----------------------------------------------------------------------------
(* Control.                                                                *)

LEMMA ProdStep ==
  ASSUME TypeOK, ProdInv, Next
  PROVE  ProdInv'
<1> USE DEF ProdInv, Enqueueing, state, signals, producer, native
<1>1. /\ accepted \in Nat /\ eosAt \in Nat /\ completed \in Nat /\ issued \in Nat
      /\ MaxFlushes \in Nat
  BY WriteAssumption DEF TypeOK, WriteAssumption
<1>2. CASE EnqueueData
  <2>1. CASE UNCHANGED <<accepted, eosAt, dataClosed>>
    BY <1>2, <2>1 DEF EnqueueData, Return
  <2>2. CASE ~dataClosed /\ accepted' = accepted + 1 /\ prod' = "notify" /\ UNCHANGED call
    <3>1. /\ prod = "enqueue" /\ ~shutdownStarted /\ outcome # "ok"
          /\ eosAt = 0
      BY <1>2, <2>2 DEF EnqueueData
    <3>2. /\ UNCHANGED <<shutdownStarted, issued, net, outcome, completed>>
          /\ eosAt' = (IF call = "shutdown" THEN accepted' ELSE eosAt)
          /\ dataClosed' = (call = "shutdown")
      BY <1>1, <1>2, <2>2 DEF EnqueueData
    <3>3. CASE call = "shutdown"
      <4>1. dataClosed'
        BY <3>2, <3>3, Zenon
      <4>2. eosAt' = accepted' /\ accepted' # 0
        BY <1>1, <2>2, <3>2, <3>3
      <4>3. QED BY <2>2, <3>1, <3>2, <4>1, <4>2
    <3>4. CASE call # "shutdown"
      BY <2>2, <3>1, <3>2, <3>4
    <3>5. QED BY <3>3, <3>4
  <2>3. QED BY <1>2, <2>1, <2>2 DEF EnqueueData
<1>3. CASE StoreWaker \/ Recheck \/ Repoll \/ FlushAnswer
  BY <1>1, <1>3 DEF StoreWaker, Recheck, Repoll, FlushAnswer, Return
<1>4. CASE NotifyData BY <1>1, <1>4 DEF NotifyData, Return
<1>5. CASE EnqueueFlush \/ NotifyFlush
  BY <1>1, <1>5 DEF EnqueueFlush, NotifyFlush, Return
<1>6. CASE ProducerChoice
  <2>1. CASE Write BY <1>1, <2>1 DEF Write
  <2>2. CASE Shutdown BY <1>1, <2>2 DEF Shutdown
  <2>3. CASE FlushCall BY <1>1, <2>3 DEF FlushCall
  <2>4. CASE Abandon \/ Drop \/ Cancel BY <1>1, <2>4 DEF Abandon, Drop, Cancel, Return
  <2>5. QED BY <1>6, <2>1, <2>2, <2>3, <2>4 DEF ProducerChoice
<1>7. CASE WriteLoop
  BY <1>7 DEF WriteLoop, LoopTop, LoopReady, Pop, Check, Await, Resume, InsertInFlight,
              NativeWrite, NativeFlush, Answer, LoopFinish, Finish, LoopWake, LoopCancel
<1>8. CASE Complete
  <2>1. dataClosed => dataClosed'
    BY <1>8, Zenon DEF Complete
  <2>2. /\ UNCHANGED <<prod, call, accepted, eosAt, shutdownStarted, issued, outcome>>
        /\ completed' = completed + 1 /\ net' = "completeWake"
    BY <1>8 DEF Complete
  <2>3. QED BY <1>1, <2>1, <2>2
<1>9. CASE Terminal
  BY <1>1, <1>9 DEF Terminal, MaySucceed
<1>10. CASE StreamReady \/ Callback
  BY <1>1, <1>10 DEF StreamReady, Callback, ReadyNotify, CompleteWake, NetFinish, Finish,
                     FinishWake, FinishNotify
<1>11. QED
  BY <1>2, <1>3, <1>4, <1>5, <1>6, <1>7, <1>8, <1>9, <1>10 DEF Next, ProducerPoll, Network

\* The parts of TypeOK that the steps of the queue need.
Typed ==
  /\ queue \in Seq([kind : {"data", "flush"}, number : Nat])
  /\ popped \in [kind : {"none", "data", "flush"}, number : Nat]
  /\ accepted \in Nat /\ sent \in Nat /\ completed \in Nat /\ released \in Nat
  /\ MaxFlushes \in Nat /\ issued \in 0..MaxFlushes /\ Flushes = 1..MaxFlushes
  /\ goals \in [Flushes -> Nat]
  /\ flushWaiters \subseteq Flushes
  /\ answer \in [Flushes -> {"none", "ok", "err"}]

LEMMA TypedHere == TypeOK => Typed
BY WriteAssumption DEF TypeOK, Typed, WriteAssumption, Flushes

\* What a sequence holds after Append and after Tail.
LEMMA AppendHolds ==
  ASSUME NEW S, NEW q \in Seq(S), NEW c \in S
  PROVE  /\ DOMAIN Append(q, c) = DOMAIN q \cup {Len(q) + 1}
         /\ \A i \in DOMAIN q : i \in Nat /\ i < Len(q) + 1 /\ Append(q, c)[i] = q[i]
         /\ Append(q, c)[Len(q) + 1] = c
BY AppendProperties

LEMMA TailHolds ==
  ASSUME NEW S, NEW q \in Seq(S), q # <<>>
  PROVE  /\ 1 \in DOMAIN q /\ Head(q) = q[1]
         /\ \A i \in DOMAIN Tail(q) : i \in Nat /\ i + 1 \in DOMAIN q /\ 1 < i + 1
                                      /\ Tail(q)[i] = q[i + 1]
         /\ \A i \in DOMAIN q : i # 1 => i \in Nat /\ i - 1 \in DOMAIN Tail(q) /\ Tail(q)[i - 1] = q[i]
BY HeadTailProperties, LenProperties

LEMMA LoopStep ==
  ASSUME TypeOK, LoopInv, IssuedInv, OrderInv, Next
  PROVE  LoopInv'
<1> USE DEF LoopInv, Handling
<1>1. Typed BY TypedHere
<1>2. CASE EnqueueData \/ EnqueueFlush
  BY <1>1, <1>2 DEF EnqueueData, EnqueueFlush, writer, Typed
<1>3. CASE Pop
  <2>1. CASE queue # <<>> /\ popped' = Head(queue) /\ queue' = Tail(queue)
             /\ loop' = (IF popped'.kind = "data" THEN "insert" ELSE "flush")
    <3>1. 1 \in DOMAIN queue /\ Head(queue) = queue[1]
      BY <1>1, <2>1, TailHolds, Zenon DEF Typed
    <3>2. queue[1].kind \in {"data", "flush"}
      <4>1. queue \in Seq([kind : {"data", "flush"}, number : Nat])
        BY <1>1 DEF Typed
      <4>2. 1 \in 1..Len(queue)
        BY <3>1, <4>1, LenProperties
      <4>3. queue[1] \in [kind : {"data", "flush"}, number : Nat]
        BY <4>1, <4>2, ElementOfSeq
      <4>4. QED BY <4>3
    <3>3. issued' = issued BY <1>3 DEF Pop, producer
    <3>4. QED BY <2>1, <3>1, <3>2, <3>3 DEF IssuedInv
  <2>2. QED BY <1>3, <2>1 DEF Pop, producer
<1>4. CASE InsertInFlight BY <1>4 DEF InsertInFlight, producer
<1>5. CASE NativeWrite BY <1>5 DEF NativeWrite
<1>6. CASE NativeFlush BY <1>6 DEF NativeFlush, producer
<1>7. CASE Answer BY <1>7 DEF Answer
<1>8. CASE LoopFinish BY <1>8 DEF LoopFinish
<1>9. CASE Complete BY <1>1, <1>9 DEF Complete, OrderInv, Typed, writer, producer
<1>10. CASE NetFinish BY <1>10 DEF NetFinish, Finish, writer, producer
<1>11. CASE Quiet BY <1>11 DEF Quiet
<1>12. QED
  BY Frame, <1>2, <1>3, <1>4, <1>5, <1>6, <1>7, <1>8, <1>9, <1>10, <1>11

LEMMA IssuedStep ==
  ASSUME TypeOK, LoopInv, IssuedInv, ProdInv, Next
  PROVE  IssuedInv'
<1> USE DEF IssuedInv
<1>1. Typed BY TypedHere
<1>2. CASE EnqueueData
  <2>1. UNCHANGED <<issued, flushWaiters, answer, goals>> /\ accepted' >= accepted
    BY <1>1, <1>2 DEF EnqueueData, Typed
  <2>2. \A i \in DOMAIN queue' : queue'[i].kind = "flush" => i \in DOMAIN queue /\ queue'[i] = queue[i]
    <3>1. /\ Data(accepted + 1) \in [kind : {"data", "flush"}, number : Nat]
          /\ queue \in Seq([kind : {"data", "flush"}, number : Nat])
      BY <1>1 DEF Data, Typed
    <3>2. queue' = queue \/ queue' = Append(queue, Data(accepted + 1))
      BY <1>2 DEF EnqueueData
    <3>3. CASE queue' = Append(queue, Data(accepted + 1))
      <4>1. /\ DOMAIN queue' = DOMAIN queue \cup {Len(queue) + 1}
            /\ \A i \in DOMAIN queue : queue'[i] = queue[i]
            /\ queue'[Len(queue) + 1] = Data(accepted + 1)
        BY <3>1, <3>3, AppendHolds
      <4>2. QED BY <4>1 DEF Data
    <3>4. QED BY <3>2, <3>3
  <2>3. accepted' \in Nat
    BY <1>1, <1>2 DEF EnqueueData, Typed
  <2>4. QED BY <1>1, <2>1, <2>2, <2>3 DEF Typed
<1>3. CASE EnqueueFlush
  <2>1. CASE UNCHANGED <<queue, issued, goals>>
    BY <1>3, <2>1 DEF EnqueueFlush
  <2>2. CASE /\ issued' = issued + 1 /\ queue' = Append(queue, Flush(issued'))
             /\ goals' = [goals EXCEPT ![issued'] = accepted]
    <3>1. Flush(issued') \in [kind : {"data", "flush"}, number : Nat] /\ Flush(issued').number = issued'
      BY <1>1, <2>2 DEF Flush, Typed
    <3>2. \A i \in DOMAIN queue' : queue'[i].kind = "flush" => queue'[i].number \in 1..issued'
      <4>1. /\ DOMAIN queue' = DOMAIN queue \cup {Len(queue) + 1}
            /\ \A i \in DOMAIN queue : queue'[i] = queue[i]
            /\ queue'[Len(queue) + 1] = Flush(issued')
        BY <1>1, <2>2, <3>1, AppendHolds DEF Typed
      <4>2. issued \in Nat
        BY <1>1 DEF Typed
      <4>3. QED BY <2>2, <3>1, <4>1, <4>2
    <3>3. \A k \in Flushes : goals'[k] <= accepted
      BY <1>1, <2>2 DEF Typed
    <3>4. UNCHANGED <<flushWaiters, answer, accepted>>
      BY <1>3 DEF EnqueueFlush
    <3>5. QED BY <1>1, <2>2, <3>2, <3>3, <3>4 DEF Typed
  <2>3. QED BY <1>3, <2>1, <2>2 DEF EnqueueFlush
<1>4. CASE Pop
  <2>1. CASE queue # <<>> /\ queue' = Tail(queue)
    BY <1>1, <1>4, <2>1, TailHolds DEF Pop, producer, Typed
  <2>2. QED BY <1>4, <2>1 DEF Pop, producer
<1>5. CASE InsertInFlight \/ NativeWrite
  BY <1>5 DEF InsertInFlight, NativeWrite, state, producer
<1>6. CASE NativeFlush
  <2>1. UNCHANGED <<queue, flushWaiters, issued, goals, accepted>>
    BY <1>6 DEF NativeFlush, state, producer
  <2>2. \A k \in Flushes : answer'[k] # "none" => answer[k] # "none" \/ k = popped.number
    BY <1>6 DEF NativeFlush, Tell
  <2>3. popped.number \in 1..issued
    BY <1>6 DEF NativeFlush, LoopInv
  <2>4. \A k \in Flushes : answer'[k] # "none" => k <= issued'
    <3>1. issued \in Nat
      BY <1>1 DEF Typed
    <3>2. QED BY <2>1, <2>2, <2>3, <3>1
  <2>5. QED BY <2>1, <2>4
<1>7. CASE Answer
  <2>1. popped.number \in 1..issued /\ UNCHANGED <<queue, issued, goals, accepted>>
    BY <1>7 DEF Answer, producer, LoopInv
  <2>2. flushWaiters' \subseteq 1..issued
    BY <1>7, <2>1 DEF Answer
  <2>3. \A k \in Flushes : answer'[k] = answer[k] \/ k = popped.number
    BY <1>1, <1>7 DEF Answer, Tell, Typed
  <2>4. \A k \in Flushes : answer'[k] # "none" => k <= issued
    BY <2>1, <2>3
  <2>5. QED BY <2>1, <2>2, <2>4
<1>8. CASE Complete
  <2>1. UNCHANGED <<queue, issued, goals, accepted>> /\ flushWaiters' \subseteq flushWaiters
    BY <1>8 DEF Complete, producer
  <2>2. \A k \in Flushes : answer'[k] = answer[k] \/ k \in flushWaiters
    BY <1>1, <1>8 DEF Complete, Tell, Typed
  <2>3. ASSUME NEW k \in Flushes, answer'[k] # "none" PROVE k <= issued
    <3>1. issued \in Nat /\ Flushes \subseteq Nat BY <1>1 DEF Typed
    <3>2. CASE k \in flushWaiters BY <3>1, <3>2
    <3>3. CASE answer'[k] = answer[k] BY <2>3, <3>3
    <3>4. QED BY <2>2, <3>2, <3>3
  <2>4. QED BY <2>1, <2>3
<1>9. CASE LoopFinish \/ NetFinish
  <2>1. queue' = <<>> /\ flushWaiters' = {} /\ UNCHANGED <<issued, goals, accepted>>
    BY <1>9 DEF LoopFinish, NetFinish, Finish, producer
  <2>2. \A k \in Flushes : answer'[k] = answer[k] \/ k \in flushWaiters \cup QueuedFlushes
    BY <1>1, <1>9 DEF LoopFinish, NetFinish, Finish, Tell, Typed
  <2>3. flushWaiters \cup QueuedFlushes \subseteq 1..issued
    BY DEF QueuedFlushes
  <2>4. \A k \in Flushes : answer'[k] # "none" => k <= issued
    BY <1>1, <2>2, <2>3 DEF Typed
  <2>5. QED BY <2>1, <2>4
<1>10. CASE Quiet BY <1>10 DEF Quiet
<1>11. QED
  BY Frame, <1>2, <1>3, <1>4, <1>5, <1>6, <1>7, <1>8, <1>9, <1>10

LEMMA OrderStep ==
  ASSUME TypeOK, LoopInv, IssuedInv, OrderInv, ProdInv, Next
  PROVE  OrderInv'
<1> DEFINE Command == [kind : {"data", "flush"}, number : Nat]
<1> HIDE DEF Command
<1>1. Typed BY TypedHere
<1>2. queue \in Seq(Command) /\ (\A i \in DOMAIN queue : i \in Nat /\ queue[i] \in Command)
  <2>1. queue \in Seq(Command) BY <1>1 DEF Typed, Command
  <2>2. DOMAIN queue = 1..Len(queue) /\ Len(queue) \in Nat BY <2>1, LenProperties
  <2>3. QED BY <2>1, <2>2, ElementOfSeq
<1>3. /\ accepted \in Nat /\ sent \in Nat /\ completed \in Nat /\ released \in Nat
      /\ issued \in Nat /\ popped.number \in Nat /\ goals \in [Flushes -> Nat]
      /\ \A k \in 1..issued : k \in Flushes
      /\ \A k \in Flushes : goals[k] \in Nat
  BY <1>1 DEF Typed
<1>4. CASE EnqueueData
  <2>1. CASE UNCHANGED <<queue, accepted>>
    BY <1>4, <2>1 DEF EnqueueData, OrderInv, writer, native
  <2>2. CASE accepted' = accepted + 1 /\ queue' = Append(queue, Data(accepted'))
    <3>1. Data(accepted + 1) \in Command
      BY <1>3 DEF Data, Command
    <3>2. /\ DOMAIN queue' = DOMAIN queue \cup {Len(queue) + 1}
          /\ \A i \in DOMAIN queue : i < Len(queue) + 1 /\ queue'[i] = queue[i]
          /\ queue'[Len(queue) + 1] = Data(accepted + 1)
      BY <1>2, <2>2, <3>1, AppendHolds
    <3>3. UNCHANGED <<loop, popped, sent, completed, released, goals>>
      BY <1>4 DEF EnqueueData, writer, native
    <3>4. \A i \in DOMAIN queue' : queue'[i].kind = "data" =>
            /\ sent < queue'[i].number /\ queue'[i].number <= accepted'
            /\ loop \in {"insert", "write"} => popped.number < queue'[i].number
      BY <1>2, <1>3, <2>2, <3>2 DEF OrderInv, Data, Command
    <3>5. \A i, j \in DOMAIN queue' : i < j /\ queue'[j].kind = "data" =>
            /\ queue'[i].kind = "data" => queue'[i].number < queue'[j].number
            /\ queue'[i].kind = "flush" => goals[queue'[i].number] < queue'[j].number
      <4>1. SUFFICES ASSUME NEW i \in DOMAIN queue', NEW j \in DOMAIN queue',
                            i < j, queue'[j].kind = "data"
                     PROVE  /\ queue'[i].kind = "data" => queue'[i].number < queue'[j].number
                            /\ queue'[i].kind = "flush" => goals[queue'[i].number] < queue'[j].number
        OBVIOUS
      <4>2. Len(queue) \in Nat
        BY <1>2, LenProperties
      <4>3. i \in DOMAIN queue /\ queue'[i] = queue[i]
        BY <1>2, <3>2, <4>1, <4>2
      <4>4. CASE j \in DOMAIN queue
        BY <3>2, <4>1, <4>3, <4>4 DEF OrderInv
      <4>5. CASE j = Len(queue) + 1
        <5>1. queue'[j].number = accepted + 1
          BY <3>2, <4>5 DEF Data
        <5>2. queue[i].kind = "data" => queue[i].number <= accepted
          BY <4>3 DEF OrderInv
        <5>3. queue[i].kind = "flush" => goals[queue[i].number] <= accepted
          BY <1>3, <4>3 DEF IssuedInv
        <5>4. queue[i].kind = "flush" => goals[queue[i].number] \in Nat
          BY <1>3, <4>3 DEF IssuedInv
        <5>5. queue[i].number \in Nat
          BY <1>2, <4>3 DEF Command
        <5>6. QED BY <1>3, <4>3, <5>1, <5>2, <5>3, <5>4, <5>5
      <4>6. QED BY <3>2, <4>4, <4>5
    <3>6. QED BY <1>3, <2>2, <3>3, <3>4, <3>5 DEF OrderInv
  <2>3. QED BY <1>4, <2>1, <2>2 DEF EnqueueData
<1>5. CASE EnqueueFlush
  <2>1. CASE UNCHANGED <<queue, goals>>
    BY <1>5, <2>1 DEF EnqueueFlush, OrderInv, writer, native
  <2>2. CASE /\ issued' = issued + 1 /\ queue' = Append(queue, Flush(issued'))
             /\ goals' = [goals EXCEPT ![issued'] = accepted]
    <3>1. Flush(issued + 1) \in Command
      BY <1>3 DEF Flush, Command
    <3>2. /\ DOMAIN queue' = DOMAIN queue \cup {Len(queue) + 1}
          /\ \A i \in DOMAIN queue : i < Len(queue) + 1 /\ queue'[i] = queue[i]
          /\ queue'[Len(queue) + 1].kind = "flush"
      BY <1>2, <2>2, <3>1, AppendHolds DEF Flush
    <3>3. UNCHANGED <<loop, popped, sent, completed, released, accepted>>
      BY <1>5 DEF EnqueueFlush, writer, native
    <3>4. \A i \in DOMAIN queue : queue[i].kind = "flush" =>
            goals'[queue[i].number] = goals[queue[i].number]
      <4>1. SUFFICES ASSUME NEW i \in DOMAIN queue, queue[i].kind = "flush"
                     PROVE  goals'[queue[i].number] = goals[queue[i].number]
        OBVIOUS
      <4>2. queue[i].number \in 1..issued
        BY <4>1 DEF IssuedInv
      <4>3. queue[i].number \in Flushes /\ queue[i].number # issued'
        BY <1>3, <2>2, <4>2
      <4>4. QED BY <1>3, <2>2, <4>3
    <3>5. \A i \in DOMAIN queue' : queue'[i].kind = "data" => i \in DOMAIN queue
      BY <3>2
    <3>6. \A i, j \in DOMAIN queue' : i < j /\ queue'[j].kind = "data" =>
            /\ i \in DOMAIN queue /\ j \in DOMAIN queue
            /\ queue'[i] = queue[i] /\ queue'[j] = queue[j]
      <4>1. Len(queue) \in Nat
        BY <1>2, LenProperties
      <4>2. QED BY <1>2, <3>2, <3>5, <4>1
    <3>7. \A i, j \in DOMAIN queue' : i < j /\ queue'[j].kind = "data" =>
            /\ queue'[i].kind = "data" => queue'[i].number < queue'[j].number
            /\ queue'[i].kind = "flush" => goals'[queue'[i].number] < queue'[j].number
      BY <3>4, <3>6 DEF OrderInv
    <3>8. QED BY <3>2, <3>3, <3>5, <3>7 DEF OrderInv
  <2>3. QED BY <1>5, <2>1, <2>2 DEF EnqueueFlush
<1>6. CASE Pop
  <2>1. CASE queue # <<>> /\ popped' = Head(queue) /\ queue' = Tail(queue)
             /\ loop' = (IF popped'.kind = "data" THEN "insert" ELSE "flush")
    <3>1. /\ 1 \in DOMAIN queue /\ popped' = queue[1]
          /\ \A i \in DOMAIN queue' : i \in Nat /\ i + 1 \in DOMAIN queue /\ 1 < i + 1
                                      /\ queue'[i] = queue[i + 1]
      BY <1>2, <2>1, TailHolds
    <3>2. UNCHANGED <<sent, completed, released, accepted, goals>>
      BY <1>6 DEF Pop, producer, native
    <3>3. loop' \in {"insert", "write"} => queue[1].kind = "data"
      BY <2>1, <3>1
    <3>4. \A i \in DOMAIN queue' : queue'[i].kind = "data" /\ loop' \in {"insert", "write"}
            => popped'.number < queue'[i].number
      BY <3>1, <3>3 DEF OrderInv
    <3>5. \A i, j \in DOMAIN queue' : i < j /\ queue'[j].kind = "data" =>
            /\ queue'[i].kind = "data" => queue'[i].number < queue'[j].number
            /\ queue'[i].kind = "flush" => goals[queue'[i].number] < queue'[j].number
      <4>1. \A i, j \in DOMAIN queue' : i < j => i + 1 < j + 1
        BY <3>1
      <4>2. QED BY <3>1, <4>1 DEF OrderInv
    <3>6. QED BY <3>1, <3>2, <3>3, <3>4, <3>5 DEF OrderInv
  <2>2. QED BY <1>6, <2>1 DEF Pop, producer, native, OrderInv
<1>7. CASE InsertInFlight
  BY <1>7 DEF InsertInFlight, OrderInv, producer, native
<1>8. CASE NativeWrite
  <2>1. UNCHANGED <<queue, accepted, goals, completed>> /\ loop = "write" /\ loop' \in {"top", "fail"}
    BY <1>8 DEF NativeWrite, state, producer
  <2>2. sent' \in {sent, sent + 1} /\ released' \in {released, sent'}
    BY <1>8 DEF NativeWrite
  <2>3. sent' \in Nat /\ sent <= sent' /\ sent' <= popped.number
    BY <1>3, <2>1, <2>2 DEF OrderInv
  <2>4. completed' <= released' /\ released' <= sent' /\ sent' <= accepted'
    BY <1>3, <2>1, <2>2, <2>3 DEF OrderInv
  <2>5. \A i \in DOMAIN queue : queue[i].kind = "data" =>
          sent' < queue[i].number /\ queue[i].number <= accepted
    <3>1. SUFFICES ASSUME NEW i \in DOMAIN queue, queue[i].kind = "data"
                   PROVE  sent' < queue[i].number /\ queue[i].number <= accepted
      OBVIOUS
    <3>2. popped.number < queue[i].number /\ queue[i].number <= accepted
      BY <2>1, <3>1 DEF OrderInv
    <3>3. queue[i].number \in Nat
      BY <1>2 DEF Command
    <3>4. QED BY <1>3, <2>3, <3>2, <3>3
  <2>6. QED BY <2>1, <2>4, <2>5 DEF OrderInv
<1>9. CASE NativeFlush
  <2>1. UNCHANGED <<queue, accepted, goals, completed, sent>> /\ loop' \in {"fail", "answer"}
    BY <1>9 DEF NativeFlush, state, producer
  <2>2. released' \in {released, sent}
    BY <1>9 DEF NativeFlush
  <2>3. QED BY <1>3, <2>1, <2>2 DEF OrderInv
<1>10. CASE Answer
  BY <1>10 DEF Answer, OrderInv, producer, native
<1>11. CASE LoopFinish
  BY <1>11 DEF LoopFinish, Finish, OrderInv, producer, native
<1>12. CASE NetFinish
  BY <1>12 DEF NetFinish, Finish, OrderInv, producer, writer
<1>13. CASE Complete
  <2>1. /\ UNCHANGED <<queue, accepted, goals, sent, released, loop, popped>>
        /\ completed' = completed + 1 /\ completed < released
    BY <1>13 DEF Complete, producer, writer
  <2>2. completed' <= released
    BY <1>3, <2>1
  <2>3. QED BY <2>1, <2>2 DEF OrderInv
<1>14. CASE Quiet
  BY <1>14 DEF Quiet, OrderInv, Handling
<1>15. QED
  BY Frame, <1>4, <1>5, <1>6, <1>7, <1>8, <1>9, <1>10, <1>11, <1>12, <1>13, <1>14

-----------------------------------------------------------------------------
(* No write is lost.                                                       *)

LEMMA CoverStep ==
  ASSUME TypeOK, LoopInv, IssuedInv, OrderInv, ProdInv, CoverInv, Next
  PROVE  CoverInv'
<1> DEFINE Command == [kind : {"data", "flush"}, number : Nat]
<1> DEFINE Found(n) == \/ n <= completed \/ n \in inFlight \/ popped = Data(n)
                       \/ \E i \in DOMAIN queue : queue[i] = Data(n)
           Going(n) == n <= completed \/ n \in inFlight
<1>1. Typed BY TypedHere
<1>2. queue \in Seq(Command)
  BY <1>1 DEF Typed
<1>3. /\ accepted \in Nat /\ completed \in Nat /\ issued \in Nat /\ popped.number \in Nat
      /\ goals \in [Flushes -> Nat] /\ \A k \in 1..issued : k \in Flushes /\ goals[k] \in Nat
      /\ terminal = "none" => \A n \in 1..accepted : Found(n)
      /\ \A k \in Pending : \A n \in 1..goals[k] : Going(n)
      /\ Pending \subseteq 1..issued
  <2>1. /\ accepted \in Nat /\ completed \in Nat /\ issued \in Nat /\ popped.number \in Nat
        /\ goals \in [Flushes -> Nat] /\ \A k \in 1..issued : k \in Flushes
    BY <1>1 DEF Typed
  <2>2. /\ terminal = "none" => \A n \in 1..accepted : Found(n)
        /\ \A k \in Pending : \A n \in 1..goals[k] : Going(n)
    BY DEF CoverInv
  <2>3. Pending \subseteq 1..issued
    BY DEF Pending, LoopInv, IssuedInv
  <2>4. QED BY <2>1, <2>2, <2>3
<1> HIDE DEF Command
<1>4. CASE EnqueueData
  <2>1. CASE UNCHANGED <<queue, accepted>>
    BY <1>4, <2>1 DEF EnqueueData, CoverInv, Pending, writer, native
  <2>2. CASE accepted' = accepted + 1 /\ queue' = Append(queue, Data(accepted'))
    <3>1. Data(accepted + 1) \in Command
      BY <1>3 DEF Data, Command
    <3>2. /\ DOMAIN queue' = DOMAIN queue \cup {Len(queue) + 1}
          /\ \A i \in DOMAIN queue : queue'[i] = queue[i]
          /\ queue'[Len(queue) + 1] = Data(accepted')
      BY <1>2, <2>2, <3>1, AppendHolds
    <3>3. UNCHANGED <<loop, popped, inFlight, flushWaiters, completed, goals, terminal>>
      BY <1>4 DEF EnqueueData, writer, native
    <3>4. \A n \in 1..accepted' : n \in 1..accepted \/ n = accepted'
      BY <1>3, <2>2
    <3>5. ASSUME terminal = "none", NEW n \in 1..accepted'
          PROVE  \/ Going(n) \/ popped = Data(n) \/ \E i \in DOMAIN queue' : queue'[i] = Data(n)
      BY <1>3, <3>2, <3>4, <3>5
    <3>6. QED BY <1>3, <3>3, <3>5 DEF CoverInv, Pending
  <2>3. QED BY <1>4, <2>1, <2>2 DEF EnqueueData
<1>5. CASE EnqueueFlush
  <2>1. CASE UNCHANGED <<queue, goals>>
    BY <1>5, <2>1 DEF EnqueueFlush, CoverInv, Pending, writer, native
  <2>2. CASE /\ issued' = issued + 1 /\ queue' = Append(queue, Flush(issued'))
             /\ goals' = [goals EXCEPT ![issued'] = accepted]
    <3>1. Flush(issued + 1) \in Command
      BY <1>3 DEF Flush, Command
    <3>2. /\ DOMAIN queue' = DOMAIN queue \cup {Len(queue) + 1}
          /\ \A i \in DOMAIN queue : queue'[i] = queue[i]
      BY <1>2, <2>2, <3>1, AppendHolds
    <3>3. UNCHANGED <<loop, popped, inFlight, flushWaiters, completed, accepted, terminal>>
      BY <1>5 DEF EnqueueFlush, writer, native
    <3>4. \A k \in Pending : goals'[k] = goals[k]
      BY <1>3, <2>2
    <3>5. Pending' = Pending
      BY <3>3 DEF Pending
    <3>6. QED BY <1>3, <3>2, <3>3, <3>4, <3>5 DEF CoverInv
  <2>3. QED BY <1>5, <2>1, <2>2 DEF EnqueueFlush
<1>6. CASE Pop
  <2>1. CASE /\ terminal = "none" /\ queue # <<>> /\ popped' = Head(queue) /\ queue' = Tail(queue)
             /\ loop' = (IF popped'.kind = "data" THEN "insert" ELSE "flush")
    <3>1. /\ 1 \in DOMAIN queue /\ popped' = queue[1]
          /\ \A i \in DOMAIN queue : i # 1 => i \in Nat /\ i - 1 \in DOMAIN queue'
                                              /\ queue'[i - 1] = queue[i]
      BY <1>2, <2>1, TailHolds
    <3>2. /\ UNCHANGED <<inFlight, flushWaiters, completed, accepted, goals, terminal, issued>>
          /\ loop = "pop"
      BY <1>6 DEF Pop, producer, native
    <3>3. popped.kind = "none"
      BY <3>2 DEF LoopInv, Handling, NoCommand
    <3>4. ASSUME NEW n \in 1..accepted
          PROVE  \/ Going(n) \/ popped' = Data(n) \/ \E i \in DOMAIN queue' : queue'[i] = Data(n)
      <4>1. popped # Data(n)
        BY <3>3 DEF Data
      <4>2. QED BY <1>3, <2>1, <3>1, <4>1
    <3>5. ASSUME popped'.kind = "flush", NEW n \in 1..goals[popped'.number]
          PROVE  Going(n)
      <4>1. popped'.number \in 1..issued
        BY <3>1, <3>5 DEF IssuedInv
      <4>2. n \in 1..accepted
        BY <1>3, <3>5, <4>1 DEF IssuedInv
      <4>3. CASE \E i \in DOMAIN queue : queue[i] = Data(n)
        <5>1. PICK i \in DOMAIN queue : queue[i] = Data(n)
          BY <4>3
        <5>2. i # 1
          BY <3>1, <3>5, <5>1 DEF Data
        <5>3. 1 < i
          BY <1>2, <5>2, LenProperties
        <5>4. goals[popped'.number] < n
          BY <3>1, <3>5, <5>1, <5>3 DEF OrderInv, Data
        <5>5. QED BY <1>3, <3>5, <4>1, <5>4
      <4>4. popped # Data(n)
        BY <3>3 DEF Data
      <4>5. QED BY <1>3, <2>1, <4>2, <4>3, <4>4
    <3>6. \A k \in Pending' : k \in Pending \/ (popped'.kind = "flush" /\ k = popped'.number)
      <4>1. loop' \in {"flush", "answer"} => popped'.kind # "data"
        BY <2>1
      <4>2. popped' \in Command
        BY <1>2, <3>1, ElementOfSeq, LenProperties
      <4>3. QED BY <3>2, <4>1, <4>2 DEF Pending, Command
    <3>7. QED BY <1>3, <3>2, <3>4, <3>5, <3>6 DEF CoverInv
  <2>2. CASE UNCHANGED <<popped, queue>> /\ loop = "pop" /\ loop' = "check"
    BY <1>6, <2>2 DEF Pop, producer, native, CoverInv, Pending
  <2>3. QED BY <1>6, <2>1, <2>2 DEF Pop
<1>7. CASE InsertInFlight
  BY <1>7 DEF InsertInFlight, CoverInv, Pending, producer, native
<1>8. CASE NativeWrite
  <2>1. /\ UNCHANGED <<queue, inFlight, flushWaiters, terminal, accepted, goals, completed>>
        /\ loop = "write" /\ loop' \in {"top", "fail"}
    BY <1>8 DEF NativeWrite, state, producer
  <2>2. \A n \in 1..accepted : popped = Data(n) => n \in inFlight
    BY <2>1 DEF LoopInv, Data
  <2>3. Pending' = Pending
    BY <2>1 DEF Pending
  <2>4. QED BY <1>3, <2>1, <2>2, <2>3 DEF CoverInv
<1>9. CASE NativeFlush \/ Answer
  <2>1. /\ UNCHANGED <<queue, inFlight, terminal, accepted, goals, completed>>
        /\ loop \in {"flush", "answer"} /\ Pending' \subseteq Pending
    <3>1. CASE NativeFlush BY <3>1 DEF NativeFlush, state, producer, Pending
    <3>2. CASE Answer BY <3>2 DEF Answer, producer, native, Pending
    <3>3. QED BY <1>9, <3>1, <3>2
  <2>2. \A n \in 1..accepted : popped # Data(n)
    BY <2>1 DEF LoopInv, Data
  <2>3. QED BY <1>3, <2>1, <2>2 DEF CoverInv
<1>10. CASE LoopFinish \/ NetFinish
  <2>1. terminal' # "none" /\ UNCHANGED <<inFlight, goals, completed>>
    BY <1>10 DEF LoopFinish, NetFinish, Finish, ProdInv, producer, native
  <2>2. Pending' \subseteq Pending
    <3>1. CASE LoopFinish BY <3>1 DEF LoopFinish, Finish, Pending
    <3>2. CASE NetFinish BY <3>2 DEF NetFinish, Finish, Pending, writer
    <3>3. QED BY <1>10, <3>1, <3>2
  <2>3. QED BY <1>3, <2>1, <2>2 DEF CoverInv
<1>11. CASE Complete
  <2>1. /\ UNCHANGED <<queue, popped, loop, terminal, accepted, goals>>
        /\ completed' = completed + 1 /\ inFlight' = inFlight \ {completed'}
        /\ flushWaiters' \subseteq flushWaiters
    BY <1>11 DEF Complete, producer, writer
  <2>2. \A n \in Nat : Going(n) => n <= completed' \/ n \in inFlight'
    BY <1>3, <2>1
  <2>3. Pending' \subseteq Pending
    BY <2>1 DEF Pending
  <2>4. QED BY <1>3, <2>1, <2>2, <2>3 DEF CoverInv
<1>12. CASE Quiet
  <2>1. Pending' = Pending
    BY <1>12 DEF Quiet, Handling, Pending
  <2>2. QED BY <1>3, <1>12, <2>1 DEF Quiet, CoverInv
<1>13. QED
  BY Frame, <1>4, <1>5, <1>6, <1>7, <1>8, <1>9, <1>10, <1>11, <1>12

-----------------------------------------------------------------------------
(* The answers.                                                            *)

LEMMA FlushOkStep ==
  ASSUME TypeOK, LoopInv, IssuedInv, ProdInv, CoverInv, FlushOkMeansDelivered, Next
  PROVE  FlushOkMeansDelivered'
<1>1. Typed BY TypedHere
<1>2. /\ accepted \in Nat /\ completed \in Nat /\ goals \in [Flushes -> Nat]
      /\ issued \in Nat /\ \A k \in Flushes : goals[k] \in Nat
  BY <1>1 DEF Typed
<1>3. CASE EnqueueData \/ Pop \/ InsertInFlight \/ NativeWrite
  BY <1>3 DEF EnqueueData, Pop, InsertInFlight, NativeWrite, producer, native,
              FlushOkMeansDelivered
<1>4. CASE EnqueueFlush
  <2>1. UNCHANGED <<answer, completed>>
    BY <1>4 DEF EnqueueFlush, native
  <2>2. \A k \in Flushes : answer[k] # "none" => goals'[k] = goals[k]
    BY <1>2, <1>4 DEF EnqueueFlush, IssuedInv
  <2>3. QED BY <2>1, <2>2 DEF FlushOkMeansDelivered
<1>5. CASE NativeFlush
  BY <1>1, <1>5 DEF NativeFlush, Tell, producer, FlushOkMeansDelivered, Typed
<1>6. CASE Answer
  <2>1. UNCHANGED <<goals, completed>>
    BY <1>6 DEF Answer, producer, native
  <2>2. CASE UNCHANGED answer
    BY <2>1, <2>2 DEF FlushOkMeansDelivered
  <2>3. CASE inFlight = {} /\ Tell({popped.number}, "ok")
    <3>1. ASSUME NEW k \in Flushes, k = popped.number
          PROVE  completed >= goals[k]
      <4>1. k \in Pending
        BY <1>6, <3>1 DEF Answer, Pending
      <4>2. \A n \in 1..goals[k] : n <= completed
        BY <2>3, <4>1 DEF CoverInv
      <4>3. QED BY <1>2, <4>2
    <3>2. QED BY <2>1, <2>3, <3>1 DEF Tell, FlushOkMeansDelivered
  <2>4. QED BY <1>6, <2>2, <2>3 DEF Answer
<1>7. CASE LoopFinish
  BY <1>7 DEF LoopFinish, Finish, Tell, producer, native, FlushOkMeansDelivered
<1>8. CASE NetFinish
  <2>1. UNCHANGED <<goals, completed>>
    BY <1>8 DEF NetFinish, Finish, producer
  <2>2. ASSUME NEW k \in Flushes, answer'[k] = "ok", answer[k] # "ok"
        PROVE  completed >= goals[k]
    <3>1. outcome = "ok"
      BY <1>8, <2>2 DEF NetFinish, Finish, Tell
    <3>2. completed >= accepted /\ goals[k] <= accepted
      BY <3>1 DEF ProdInv, IssuedInv
    <3>3. QED BY <1>2, <3>2
  <2>3. QED BY <2>1, <2>2 DEF FlushOkMeansDelivered
<1>9. CASE Complete
  <2>1. UNCHANGED goals /\ completed' = completed + 1 /\ inFlight' = inFlight \ {completed'}
    BY <1>9 DEF Complete, producer
  <2>2. CASE UNCHANGED answer
    BY <1>2, <2>1, <2>2 DEF FlushOkMeansDelivered
  <2>3. CASE inFlight' = {} /\ Tell(flushWaiters, "ok")
    <3>1. ASSUME NEW k \in Flushes, k \in flushWaiters
          PROVE  completed' >= goals[k]
      <4>1. \A n \in 1..goals[k] : n <= completed \/ n \in inFlight
        BY <3>1 DEF CoverInv, Pending
      <4>2. \A n \in 1..goals[k] : n <= completed'
        BY <1>2, <2>1, <2>3, <4>1
      <4>3. QED BY <1>2, <2>1, <4>2
    <3>2. \A k \in Flushes : answer'[k] = answer[k] \/ k \in flushWaiters
      BY <2>3 DEF Tell
    <3>3. QED BY <1>2, <2>1, <3>1, <3>2 DEF FlushOkMeansDelivered
  <2>4. QED BY <1>9, <2>2, <2>3 DEF Complete
<1>10. CASE Quiet
  BY <1>10 DEF Quiet, FlushOkMeansDelivered
<1>11. QED
  BY Frame, <1>3, <1>4, <1>5, <1>6, <1>7, <1>8, <1>9, <1>10

LEMMA BlockedStep ==
  ASSUME TypeOK, ProdInv, BlockedFlushHasWrite, Next
  PROVE  BlockedFlushHasWrite'
<1> USE DEF BlockedFlushHasWrite
<1>1. CASE Answer BY <1>1 DEF Answer
<1>2. CASE InsertInFlight BY <1>2 DEF InsertInFlight
<1>3. CASE Complete
  <2>1. CASE inFlight' = {} /\ flushBlocked BY <1>3, <2>1 DEF Complete
  <2>2. CASE ~(inFlight' = {} /\ flushBlocked) BY <1>3, <2>2 DEF Complete
  <2>3. QED BY <2>1, <2>2
<1>4. CASE LoopFinish \/ NetFinish
  BY <1>4 DEF LoopFinish, NetFinish, Finish, ProdInv
<1>5. CASE UNCHANGED <<flushBlocked, terminal, inFlight, flushWaiters>>
  BY <1>5
<1>6. CASE ProducerPoll \/ ProducerChoice
  BY <1>5, <1>6 DEF ProducerPoll, ProducerChoice, EnqueueData, StoreWaker, Recheck, Repoll,
     NotifyData, EnqueueFlush, NotifyFlush, FlushAnswer, Write, Shutdown, FlushCall, Abandon,
     Drop, Cancel, state
<1>7. CASE WriteLoop
  BY <1>1, <1>2, <1>4, <1>5, <1>7 DEF WriteLoop, LoopTop, LoopReady, Pop, Check, Await, Resume,
     NativeWrite, NativeFlush, LoopWake, LoopCancel, state
<1>8. CASE Network
  BY <1>3, <1>4, <1>5, <1>8 DEF Network, Callback, StreamReady, ReadyNotify, CompleteWake,
     Terminal, FinishWake, FinishNotify, state
<1>9. QED BY <1>6, <1>7, <1>8 DEF Next

-----------------------------------------------------------------------------
(* The bound on the buffered writes.                                       *)

DataIn(q) == {i \in DOMAIN q : q[i].kind = "data"}

LEMMA DataFinite ==
  ASSUME NEW S, NEW q \in Seq(S)
  PROVE  IsFiniteSet(DataIn(q)) /\ Cardinality(DataIn(q)) \in Nat
<1>1. DOMAIN q = 1..Len(q) /\ Len(q) \in Nat
  BY LenProperties
<1>2. IsFiniteSet(1..Len(q))
  BY <1>1, FS_Interval
<1>3. DataIn(q) \subseteq 1..Len(q)
  BY <1>1 DEF DataIn
<1>4. QED BY <1>2, <1>3, FS_Subset, FS_CardinalityType

\* A write appended counts one more, a flush none.
LEMMA DataAppend ==
  ASSUME NEW S, NEW q \in Seq(S), NEW c \in S
  PROVE  Cardinality(DataIn(Append(q, c)))
           = Cardinality(DataIn(q)) + (IF c.kind = "data" THEN 1 ELSE 0)
<1>1. /\ DOMAIN Append(q, c) = DOMAIN q \cup {Len(q) + 1}
      /\ \A i \in DOMAIN q : i \in Nat /\ i < Len(q) + 1 /\ Append(q, c)[i] = q[i]
      /\ Append(q, c)[Len(q) + 1] = c
  BY AppendHolds
<1>2. IsFiniteSet(DataIn(q)) /\ Cardinality(DataIn(q)) \in Nat
  BY DataFinite
<1>3. Len(q) \in Nat /\ Len(q) + 1 \notin DataIn(q)
  BY LenProperties DEF DataIn
<1>4. CASE c.kind = "data"
  <2>1. DataIn(Append(q, c)) = DataIn(q) \cup {Len(q) + 1}
    BY <1>1, <1>4 DEF DataIn
  <2>2. QED BY <1>2, <1>3, <1>4, <2>1, FS_AddElement
<1>5. CASE c.kind # "data"
  <2>1. DataIn(Append(q, c)) = DataIn(q)
    BY <1>1, <1>5 DEF DataIn
  <2>2. QED BY <1>2, <1>5, <2>1
<1>6. QED BY <1>4, <1>5

\* A write taken from the front counts one less, a flush none.
LEMMA DataTail ==
  ASSUME NEW S, NEW q \in Seq(S), q # <<>>
  PROVE  Cardinality(DataIn(q))
           = Cardinality(DataIn(Tail(q))) + (IF Head(q).kind = "data" THEN 1 ELSE 0)
<1>1. /\ 1 \in DOMAIN q /\ Head(q) = q[1]
      /\ \A i \in DOMAIN Tail(q) : i \in Nat /\ i + 1 \in DOMAIN q /\ 1 < i + 1
                                   /\ Tail(q)[i] = q[i + 1]
      /\ \A i \in DOMAIN q : i # 1 => i \in Nat /\ i - 1 \in DOMAIN Tail(q) /\ Tail(q)[i - 1] = q[i]
  BY TailHolds
<1>2. Tail(q) \in Seq(S)
  BY HeadTailProperties
<1>3. /\ IsFiniteSet(DataIn(q)) /\ Cardinality(DataIn(q)) \in Nat
      /\ IsFiniteSet(DataIn(Tail(q))) /\ Cardinality(DataIn(Tail(q))) \in Nat
  BY <1>2, DataFinite
<1>4. Cardinality(DataIn(q) \ {1}) = Cardinality(DataIn(Tail(q)))
  <2> DEFINE A == DataIn(Tail(q))
             B == DataIn(q) \ {1}
             shift == [i \in A |-> i + 1]
  <2>1. \A i \in A : i \in Nat /\ i + 1 \in B
    BY <1>1 DEF DataIn
  <2>2. \A j \in B : j \in Nat /\ j - 1 \in A /\ (j - 1) + 1 = j
    BY <1>1 DEF DataIn
  <2> HIDE DEF A, B
  <2>3. shift \in [A -> B]
    BY <2>1
  <2>4. \A a, b \in A : shift[a] = shift[b] => a = b
    BY <2>1
  <2>5. \A j \in B : \E i \in A : shift[i] = j
    BY <2>2
  <2>6. shift \in Bijection(A, B)
    BY <2>3, <2>4, <2>5, Fun_IsBij
  <2>7. QED BY <1>3, <2>6, FS_Bijection DEF ExistsBijection, A, B
<1>5. CASE Head(q).kind = "data"
  <2>1. 1 \in DataIn(q) BY <1>1, <1>5 DEF DataIn
  <2>2. Cardinality(DataIn(q) \ {1}) = Cardinality(DataIn(q)) - 1
    BY <1>3, <2>1, FS_RemoveElement
  <2>3. QED BY <1>3, <1>4, <1>5, <2>2
<1>6. CASE Head(q).kind # "data"
  <2>1. DataIn(q) \ {1} = DataIn(q) BY <1>1, <1>6 DEF DataIn
  <2>2. Cardinality(DataIn(q)) = Cardinality(DataIn(Tail(q)))
    BY ONLY <1>4, <2>1
  <2>3. Cardinality(DataIn(Tail(q))) + 0 = Cardinality(DataIn(q))
    BY ONLY <1>3, <2>2
  <2>4. QED BY <1>6, <2>2, <2>3
<1>7. QED BY <1>5, <1>6

LEMMA BoundStep ==
  ASSUME TypeOK, LoopInv, BoundInv, Next
  PROVE  BoundInv'
<1> DEFINE Command == [kind : {"data", "flush"}, number : Nat]
           Q == Cardinality(DataIn(queue))
           F == Cardinality(inFlight)
<1>1. Typed /\ Capacity \in Nat
  BY TypedHere, WriteAssumption DEF WriteAssumption
<1>2. queue \in Seq(Command) /\ QueuedData = Q /\ QueuedData' = Cardinality(DataIn(queue'))
  BY <1>1 DEF Typed, QueuedData, DataIn
<1>3. /\ IsFiniteSet(inFlight) /\ F \in Nat /\ Q \in Nat
      /\ Q + F + (IF loop = "insert" THEN 1 ELSE 0) <= Capacity + 1
  BY <1>2, DataFinite, FS_CardinalityType DEF BoundInv
<1> HIDE DEF Command, Q, F
<1>4. CASE EnqueueData
  <2>1. UNCHANGED <<inFlight, loop>> BY <1>4 DEF EnqueueData, writer
  <2>2. CASE queue' = queue BY <1>2, <1>3, <2>1, <2>2 DEF BoundInv, Q, F
  <2>3. CASE ~Full /\ queue' = Append(queue, Data(accepted'))
             /\ accepted' = accepted + 1
    <3>1. Data(accepted') \in Command /\ Data(accepted').kind = "data"
      BY <1>1, <2>3 DEF Typed, Command, Data
    <3>2. Cardinality(DataIn(queue')) = Q + 1
      BY <1>2, <2>3, <3>1, DataAppend DEF Q
    <3>3. Q + F < Capacity
      BY <1>1, <1>2, <1>3, <2>3 DEF Full, F
    <3>4. QED BY <1>1, <1>2, <1>3, <2>1, <3>2, <3>3 DEF BoundInv, F
  <2>4. QED BY <1>4, <2>2, <2>3 DEF EnqueueData
<1>5. CASE EnqueueFlush
  <2>1. UNCHANGED <<inFlight, loop>> BY <1>5 DEF EnqueueFlush, writer
  <2>2. CASE queue' = queue BY <1>2, <1>3, <2>1, <2>2 DEF BoundInv, Q, F
  <2>3. CASE queue' = Append(queue, Flush(issued')) /\ issued' = issued + 1
    <3>1. Flush(issued') \in Command /\ Flush(issued').kind # "data"
      BY <1>1, <2>3 DEF Typed, Command, Flush
    <3>2. Cardinality(DataIn(queue')) = Q
      BY <1>2, <1>3, <2>3, <3>1, DataAppend DEF Q
    <3>3. QED BY <1>2, <1>3, <2>1, <3>2 DEF BoundInv, F
  <2>4. QED BY <1>5, <2>2, <2>3 DEF EnqueueFlush
<1>6. CASE Pop
  <2>1. inFlight' = inFlight /\ loop = "pop" BY <1>6 DEF Pop
  <2>2. CASE queue' = queue /\ loop' = "check" BY <1>2, <1>3, <2>1, <2>2 DEF BoundInv, Q, F
  <2>3. CASE queue # <<>> /\ queue' = Tail(queue) /\ popped' = Head(queue)
             /\ loop' = (IF popped'.kind = "data" THEN "insert" ELSE "flush")
    <3>1. Q = Cardinality(DataIn(queue')) + (IF Head(queue).kind = "data" THEN 1 ELSE 0)
      BY <1>2, <2>3, DataTail DEF Q
    <3>2. queue' \in Seq(Command)
      BY <1>2, <2>3, HeadTailProperties
    <3>3. Cardinality(DataIn(queue')) \in Nat
      BY <3>2, DataFinite
    <3>4. QED BY <1>1, <1>2, <1>3, <2>1, <2>3, <3>1, <3>3 DEF BoundInv, F
  <2>4. QED BY <1>6, <2>2, <2>3 DEF Pop
<1>7. CASE InsertInFlight
  <2>1. queue' = queue /\ inFlight' = inFlight \cup {popped.number}
        /\ loop = "insert" /\ loop' = "write"
    BY <1>7 DEF InsertInFlight
  <2>2. IsFiniteSet(inFlight') /\ Cardinality(inFlight') \in Nat /\ Cardinality(inFlight') <= F + 1
    <3>1. /\ IsFiniteSet(inFlight \cup {popped.number})
          /\ Cardinality(inFlight \cup {popped.number}) \in {Cardinality(inFlight), Cardinality(inFlight) + 1}
      BY <1>3, FS_AddElement
    <3>2. Cardinality(inFlight) \in Nat
      BY <1>3, FS_CardinalityType
    <3>3. QED BY <2>1, <3>1, <3>2 DEF F
  <2>3. QED BY <1>1, <1>2, <1>3, <2>1, <2>2 DEF BoundInv, Q
<1>8. CASE LoopFinish \/ NetFinish
  <2>1. queue' = <<>> /\ inFlight' = inFlight /\ (loop' = "insert" => loop = "insert")
    BY <1>8 DEF LoopFinish, NetFinish, Finish, writer
  <2>2. Cardinality(DataIn(queue')) = 0
    <3>1. DataIn(queue') = {} BY <2>1, EmptySeq DEF DataIn
    <3>2. QED BY <3>1, FS_EmptySet
  <2>3. QED BY <1>1, <1>2, <1>3, <2>1, <2>2 DEF BoundInv, F
<1>9. CASE Complete
  <2>1. queue' = queue /\ loop' = loop /\ inFlight' = inFlight \ {completed'}
    BY <1>9 DEF Complete, writer
  <2>2. IsFiniteSet(inFlight') /\ Cardinality(inFlight') \in Nat /\ Cardinality(inFlight') <= F
    <3>1. inFlight' \subseteq inFlight BY <2>1
    <3>2. IsFiniteSet(inFlight') /\ Cardinality(inFlight') <= Cardinality(inFlight)
      BY <1>3, <3>1, FS_Subset
    <3>3. Cardinality(inFlight') \in Nat BY <3>2, FS_CardinalityType
    <3>4. QED BY <1>3, <3>2, <3>3 DEF F
  <2>3. QED BY <1>1, <1>2, <1>3, <2>1, <2>2 DEF BoundInv, Q
<1>10. CASE NativeWrite \/ NativeFlush \/ Answer \/ Quiet
  <2>1. UNCHANGED <<queue, inFlight>> /\ (loop' = "insert" => loop = "insert")
    BY <1>10 DEF NativeWrite, NativeFlush, Answer, Quiet, Handling, state
  <2>2. QED BY <1>1, <1>2, <1>3, <2>1 DEF BoundInv, Q, F
<1>11. QED
  BY Frame, <1>4, <1>5, <1>6, <1>7, <1>8, <1>9, <1>10

-----------------------------------------------------------------------------
(* The theorems.                                                           *)

Inv == /\ TypeOK /\ ProdInv /\ LoopInv /\ IssuedInv /\ OrderInv
       /\ CoverInv /\ BoundInv /\ BlockedFlushHasWrite /\ FlushOkMeansDelivered

LEMMA InvInit == Init => Inv
<1> SUFFICES ASSUME Init PROVE Inv
  OBVIOUS
<1>1. TypeOK BY TypeInit
<1>2. Typed BY <1>1, TypedHere
<1>3. DOMAIN queue = {} BY EmptySeq DEF Init
<1>4. ProdInv /\ LoopInv
  BY DEF Init, ProdInv, LoopInv, Enqueueing, Handling
<1>5. IssuedInv /\ OrderInv
  BY <1>2, <1>3 DEF Init, IssuedInv, OrderInv, Typed
<1>6. CoverInv /\ BlockedFlushHasWrite /\ FlushOkMeansDelivered
  BY DEF Init, CoverInv, Pending, BlockedFlushHasWrite, FlushOkMeansDelivered
<1>7. BoundInv
  <2>1. {i \in DOMAIN queue : queue[i].kind = "data"} = {} BY <1>3
  <2>2. QED
    BY <2>1, FS_EmptySet, WriteAssumption DEF BoundInv, QueuedData, WriteAssumption, Init
<1>8. QED BY <1>1, <1>4, <1>5, <1>6, <1>7 DEF Inv

LEMMA InvNext == Inv /\ [Next]_vars => Inv'
<1> SUFFICES ASSUME Inv, [Next]_vars PROVE Inv'
  OBVIOUS
<1>1. CASE Next
  BY <1>1, TypeStep, ProdStep, LoopStep, IssuedStep, OrderStep, CoverStep, BoundStep,
     BlockedStep, FlushOkStep DEF Inv
<1>2. CASE UNCHANGED vars
  <2>1. UNCHANGED <<autoFlush, queue, inFlight, flushWaiters, flushBlocked, dataClosed, terminal,
                    ready, permit, heard, waker, woken, loop, popped, prod, call, accepted, eosAt,
                    shutdownStarted, streamClosed, receiver, issued, goals, answer, net, outcome,
                    done, canceled, sent, completed, released>>
    BY <1>2 DEF vars, state, signals, writer, producer, native
  <2>2. TypeOK' BY <2>1 DEF Inv, TypeOK
  <2>3. (ProdInv /\ LoopInv /\ IssuedInv /\ OrderInv)'
    BY <2>1 DEF Inv, ProdInv, LoopInv, IssuedInv, OrderInv
  <2>4. (CoverInv /\ BoundInv /\ BlockedFlushHasWrite /\ FlushOkMeansDelivered)'
    BY <2>1 DEF Inv, CoverInv, Pending, BoundInv, QueuedData, BlockedFlushHasWrite,
                FlushOkMeansDelivered
  <2>5. QED BY <2>2, <2>3, <2>4 DEF Inv
<1>3. QED BY <1>1, <1>2

LEMMA Invariant == Spec => []Inv
BY InvInit, InvNext, PTL DEF Spec

\* Every variable of the write side keeps its type, whatever the order of the
\* producer, write_loop and the callbacks.
THEOREM TypeCorrect == Spec => []TypeOK
BY Invariant, PTL DEF Inv

\* enqueue_data and write_loop together exceed write_capacity by one write at most.
THEOREM Bounded == Spec => []BufferBound
<1>1. Inv => BufferBound
  <2> SUFFICES ASSUME Inv PROVE BufferBound
    OBVIOUS
  <2>1. queue \in Seq([kind : {"data", "flush"}, number : Nat]) /\ Capacity \in Nat
    BY WriteAssumption DEF Inv, TypeOK, WriteAssumption
  <2>2. QueuedData \in Nat
    BY <2>1, DataFinite DEF QueuedData, DataIn
  <2>3. Cardinality(inFlight) \in Nat
    BY FS_CardinalityType DEF Inv, BoundInv
  <2>4. QED BY <2>1, <2>2, <2>3 DEF Inv, BoundInv, BufferBound
<1>2. QED BY <1>1, Invariant, PTL

\* A flush or shutdown is told Ok only when Cronet has completed every write
\* accepted before it was queued.
THEOREM FlushDelivered == Spec => []FlushOkMeansDelivered
BY Invariant, PTL DEF Inv

\* The queue of a live stream is blocked only while a write in flight will
\* unblock it.
THEOREM BlockedHasWrite == Spec => []BlockedFlushHasWrite
BY Invariant, PTL DEF Inv
=============================================================================
