-------------------------- MODULE WebSocket_proofs --------------------------
(***************************************************************************)
(* Theorems about a WebSocket (WebSocket), for a message channel of any    *)
(* capacity and any number of messages, sends and closes.                  *)
(***************************************************************************)
EXTENDS WebSocket, SequenceTheorems, TLAPS

Task == {"connect", "send", "close", "destroy"}

-----------------------------------------------------------------------------
(* Types.                                                                  *)

OwnerTypes ==
  /\ owner \in {"begin", "created", "registered", "waiting", "open", "sending", "clearing",
                "destroying", "deleting", "leaked", "gone", "undefined"}
  /\ posts \in 0..MaxPosts

SocketTypes ==
  /\ pointer \in BOOLEAN /\ native \in {"none", "live", "deleted"} /\ context \in BOOLEAN
  /\ operation \in BOOLEAN
  /\ opened \in {"none", "ok", "err"} /\ terminal \in {"none", "ok", "err"}

ThreadTypes ==
  /\ channel \in {"none", "connecting", "open", "closing"}
  /\ callback \in {"none", "closed", "failed", "returning"} /\ destroyed \in BOOLEAN
  /\ engine \in {"open", "closing", "down"}
  /\ canceler \in {"none", "loaded", "called", "late"} /\ early \in BOOLEAN

ChannelType == messages \in Seq({"message", "error"}) /\ Len(messages) <= Capacity

ReceiverTypes == receiver \in BOOLEAN /\ arrived \in 0..MaxMessages

QueueType == posted \in Seq(Task)

Types == OwnerTypes /\ SocketTypes /\ ThreadTypes /\ QueueType /\ ChannelType /\ ReceiverTypes

-----------------------------------------------------------------------------
(* The socket.                                                             *)

\* What the owner has made, and what it has taken back.
OwnerInv ==
  /\ owner \in {"begin", "created"} => posted = <<>> /\ canceler \notin {"loaded", "late"}
  /\ owner \in {"begin", "created", "registered"} =>
       opened = "none" /\ channel = "none" /\ callback = "none"
  /\ owner \in {"created", "registered"} => operation
  /\ owner \in {"created", "registered", "waiting", "open", "sending", "leaked"} => pointer
  /\ owner \in {"begin", "clearing", "destroying", "deleting", "gone"} => ~pointer
  /\ owner = "begin" => native = "none"
  /\ owner = "gone" => native = "deleted"
  /\ owner \notin {"begin", "gone"} => native = "live"
  /\ owner \notin {"begin", "created", "registered", "gone"} => context
  /\ destroyed => owner \in {"destroying", "deleting", "gone", "undefined"}

\* The operation lasts as long as the channel, until the terminal callback has
\* finished, and an engine that is down has none.
OperationInv ==
  /\ channel # "none" => operation \/ callback = "returning"
  /\ engine = "down" => ~operation

\* The one Connect comes before everything that needs a channel.
ConnectInv ==
  /\ \A i \in 1..Len(posted) : posted[i] = "connect" =>
       /\ owner \in {"waiting", "leaked"} /\ opened = "none"
       /\ operation /\ channel = "none" /\ callback = "none"
  /\ \A i, j \in 1..Len(posted) : posted[i] = "connect" /\ posted[j] = "connect" => i = j
  /\ \A i \in 1..Len(posted) : posted[i] = "send" =>
       owner \in {"open", "sending", "clearing", "destroying", "undefined"}

\* A Destroy is the last task, but for the Close of a cancellation that came too late.
DestroyInv ==
  /\ \A i \in 1..Len(posted) : posted[i] = "destroy" =>
       owner \in {"destroying", "deleting", "undefined"} /\ ~pointer /\ ~destroyed
  /\ \A i, j \in 1..Len(posted) :
       i < j /\ posted[i] = "destroy" => posted[j] = "close" /\ canceler = "late"

\* Once a Destroy has run nothing is left that could call back.
QuietInv ==
  owner \in {"deleting", "gone"} \/ (owner = "destroying" /\ destroyed) =>
    /\ channel = "none" /\ callback = "none"
    /\ \A i \in 1..Len(posted) :
         posted[i] = "destroy" \/ (posted[i] = "close" /\ canceler = "late")

Inv == Types /\ OwnerInv /\ OperationInv /\ ConnectInv /\ DestroyInv /\ QuietInv

-----------------------------------------------------------------------------
(* Every step keeps the invariant.                                         *)

\* The owner's variables keep their types.
LEMMA OwnerTypesKept ==
  ASSUME Inv, [Next]_vars
  PROVE  OwnerTypes'
<1> USE SocketAssumption DEF SocketAssumption, Inv, Types, OwnerTypes, vars, handle, shared, stream,
    network, shutdown
<1>1. ASSUME UNCHANGED <<owner, posts>>
      PROVE  OwnerTypes'
  BY <1>1
<1>2. CASE NextMessage \/ RunConnect \/ RunSend \/ RunClose \/ RunDestroy \/ OnClosed
            \/ OnFailure \/ ResetChannel \/ Handshake \/ Message \/ ChannelDrops \/ ChannelFails
            \/ EngineCloses \/ LoadPointer \/ CancelClose \/ EngineGoesDown \/ UNCHANGED vars
  BY <1>2, <1>1 DEF NextMessage, RunConnect, RunSend, RunClose, RunDestroy, OnClosed, OnFailure,
         ResetChannel, Handshake, Message, ChannelDrops, ChannelFails, EngineCloses, LoadPointer,
         CancelClose, EngineGoesDown, Runs, Fail, Finish, Deliver, Post
<1>3. CASE Create \/ Register
  BY <1>3 DEF Create, Register
<1>4. CASE Connect \/ OpenReturns \/ Clear \/ DropOpen \/ UseFreedEngine \/ Delete
  BY <1>4 DEF Connect, OpenReturns, Clear, DropOpen, UseFreedEngine, Delete, Post
<1>5. CASE Send \/ SendPosts \/ Close
  BY <1>5 DEF Send, SendPosts, Close, Post
<1>6. CASE Destroy
  BY <1>6 DEF Destroy, Post
<1>7. CASE DestroyAgain
  BY <1>7 DEF DestroyAgain, Post
<1> QED  BY <1>2, <1>3, <1>4, <1>5, <1>6, <1>7 DEF Next, OwnerStep, NetworkStep, ShutdownStep

\* The socket's variables keep their types.
LEMMA SocketTypesKept ==
  ASSUME Inv, [Next]_vars
  PROVE  SocketTypes'
<1> USE DEF Inv, Types, SocketTypes, vars, handle, shared, stream, network,
    shutdown
<1>1. ASSUME UNCHANGED <<handle, shared>>
      PROVE  SocketTypes'
  BY <1>1
<1>2. CASE OpenReturns \/ DropOpen \/ NextMessage \/ Send \/ SendPosts \/ Close \/ UseFreedEngine
            \/ Destroy \/ DestroyAgain \/ RunDestroy \/ Message \/ EngineCloses \/ LoadPointer
            \/ CancelClose \/ EngineGoesDown \/ UNCHANGED vars
  BY <1>2, <1>1 DEF OpenReturns, DropOpen, NextMessage, Send, SendPosts, Close, UseFreedEngine,
         Destroy, DestroyAgain, RunDestroy, Message, EngineCloses, LoadPointer, CancelClose,
         EngineGoesDown, Post, Runs, Deliver
<1>3. CASE Create \/ Register
  BY <1>3 DEF Create, Register
<1>4. CASE Connect \/ Clear \/ Delete
  BY <1>4 DEF Connect, Clear, Delete, Post
<1>5. CASE RunConnect \/ RunSend \/ ChannelFails \/ Handshake
  BY <1>5 DEF RunConnect, RunSend, ChannelFails, Handshake, Runs, Fail
<1>6. CASE RunClose \/ OnClosed \/ OnFailure \/ ResetChannel \/ ChannelDrops
  BY <1>6 DEF RunClose, OnClosed, OnFailure, ResetChannel, ChannelDrops, Runs, Finish, Deliver
<1> QED  BY <1>2, <1>3, <1>4, <1>5, <1>6 DEF Next, OwnerStep, NetworkStep, ShutdownStep

\* The threads' variables keep their types.
LEMMA ThreadTypesKept ==
  ASSUME Inv, [Next]_vars
  PROVE  ThreadTypes'
<1> USE DEF Inv, Types, ThreadTypes, vars, handle, shared, stream, network,
    shutdown
<1>1. CASE Create \/ Register \/ Connect \/ OpenReturns \/ Clear \/ DropOpen \/ NextMessage
            \/ Send \/ SendPosts \/ Close \/ UseFreedEngine \/ Destroy \/ Delete \/ Message
            \/ UNCHANGED vars
  BY <1>1 DEF Create, Register, Connect, OpenReturns, Clear, DropOpen, NextMessage, Send,
         SendPosts, Close, UseFreedEngine, Destroy, Delete, Message, Post, Deliver
<1>2. CASE DestroyAgain \/ OnClosed \/ OnFailure \/ ResetChannel
  BY <1>2 DEF DestroyAgain, OnClosed, OnFailure, ResetChannel, Post, Deliver, Finish
<1>3. CASE RunConnect \/ RunSend
  BY <1>3 DEF RunConnect, RunSend, Runs, Fail
<1>4. CASE RunClose \/ RunDestroy \/ Handshake \/ ChannelDrops \/ ChannelFails
  BY <1>4 DEF RunClose, RunDestroy, Handshake, ChannelDrops, ChannelFails, Runs, Finish, Fail
<1>5. CASE EngineCloses \/ LoadPointer \/ CancelClose \/ EngineGoesDown
  BY <1>5 DEF EngineCloses, LoadPointer, CancelClose, EngineGoesDown, Post
<1> QED  BY <1>1, <1>2, <1>3, <1>4, <1>5 DEF Next, OwnerStep, NetworkStep, ShutdownStep

\* The queue holds tasks.
LEMMA QueueTypeKept ==
  ASSUME Inv, [Next]_vars
  PROVE  QueueType'
<1> USE DEF Inv, Types, QueueType, Task, vars, handle, shared, stream, network,
    shutdown
<1>1. ASSUME UNCHANGED <<posted>>
      PROVE  QueueType'
  BY <1>1
<1>2. CASE Create \/ Register \/ OpenReturns \/ Clear \/ DropOpen \/ NextMessage
            \/ UseFreedEngine \/ Delete \/ OnClosed \/ OnFailure \/ ResetChannel \/ Handshake
            \/ Message \/ ChannelDrops \/ ChannelFails \/ EngineCloses \/ LoadPointer
            \/ EngineGoesDown \/ UNCHANGED vars
  BY <1>2, <1>1 DEF Create, Register, OpenReturns, Clear, DropOpen, NextMessage, UseFreedEngine,
         Delete, OnClosed, OnFailure, ResetChannel, Handshake, Message, ChannelDrops,
         ChannelFails, EngineCloses, LoadPointer, EngineGoesDown, Deliver, Finish, Fail
<1>3. CASE Connect \/ Send \/ SendPosts \/ Close \/ Destroy \/ DestroyAgain \/ CancelClose
  BY <1>3 DEF Connect, Send, SendPosts, Close, Destroy, DestroyAgain, CancelClose, Post
<1>4. CASE RunConnect \/ RunSend \/ RunClose \/ RunDestroy
  BY <1>4 DEF RunConnect, RunSend, RunClose, RunDestroy, Runs, Fail, Finish
<1> QED  BY <1>2, <1>3, <1>4 DEF Next, OwnerStep, NetworkStep, ShutdownStep

\* The message channel keeps its bound: try_send drops what does not fit.
LEMMA ChannelTypeKept ==
  ASSUME Inv, [Next]_vars
  PROVE  ChannelType'
<1>0. ChannelType /\ Capacity \in Nat \ {0}
  BY SocketAssumption DEF SocketAssumption, Inv, Types
<1> USE DEF ChannelType
<1>1. ASSUME UNCHANGED messages
      PROVE  ChannelType'
  BY <1>0, <1>1
<1>2. ASSUME messages' = <<>>
      PROVE  ChannelType'
  BY <1>0, <1>2
<1>3. ASSUME NEW event \in {"message", "error"}, Deliver(event)
      PROVE  ChannelType'
  <2>1. \/ UNCHANGED messages
        \/ messages' = Append(messages, event) /\ Len(messages) < Capacity
    BY <1>3, Zenon DEF Deliver
  <2>2. /\ Append(messages, event) \in Seq({"message", "error"})
        /\ Len(Append(messages, event)) = Len(messages) + 1
    BY <1>0, AppendProperties
  <2>3. CASE UNCHANGED messages
    BY <1>1, <2>3
  <2>4. CASE messages' = Append(messages, event) /\ Len(messages) < Capacity
    <3>1. Len(messages) \in Nat /\ Capacity \in Nat
      BY <1>0, LenProperties
    <3>2. messages' \in Seq({"message", "error"}) /\ Len(messages') <= Capacity
      BY <2>2, <2>4, <3>1
    <3> QED  BY <3>2
  <2> QED  BY <2>1, <2>3, <2>4
<1>4. CASE Create \/ Register \/ Connect \/ OpenReturns \/ Clear \/ Send \/ SendPosts \/ Close
            \/ UseFreedEngine \/ Destroy \/ DestroyAgain \/ RunConnect \/ RunSend \/ RunClose
            \/ RunDestroy \/ OnClosed \/ ResetChannel \/ Handshake \/ ChannelDrops
            \/ ChannelFails \/ EngineCloses \/ LoadPointer \/ CancelClose \/ EngineGoesDown
            \/ UNCHANGED vars
  <2>1. UNCHANGED messages
    BY <1>4 DEF Create, Register, Connect, OpenReturns, Clear, Send, SendPosts, Close,
           UseFreedEngine, Destroy, DestroyAgain, RunConnect, RunSend, RunClose, RunDestroy,
           OnClosed, ResetChannel, Handshake, ChannelDrops, ChannelFails, EngineCloses,
           LoadPointer, CancelClose, EngineGoesDown, vars, stream
  <2> QED  BY <1>1, <2>1
<1>5. CASE DropOpen \/ Delete
  BY <1>2, <1>5 DEF DropOpen, Delete
<1>6. CASE NextMessage
  <2>1. messages # <<>> /\ messages' = Tail(messages)
    BY <1>6 DEF NextMessage
  <2>2. /\ Tail(messages) \in Seq({"message", "error"})
        /\ Len(Tail(messages)) = Len(messages) - 1
    BY <1>0, <2>1, HeadTailProperties
  <2> QED  BY <1>0, <2>1, <2>2
<1>7. CASE OnFailure
  BY <1>0, <1>3, <1>7 DEF OnFailure
<1>8. CASE Message
  BY <1>3, <1>8 DEF Message
<1> QED  BY <1>4, <1>5, <1>6, <1>7, <1>8 DEF Next, OwnerStep, NetworkStep, ShutdownStep

\* The owner's end of the channel and the count of messages keep their types.
LEMMA ReceiverTypesKept ==
  ASSUME Inv, [Next]_vars
  PROVE  ReceiverTypes'
<1>0. ReceiverTypes /\ MaxMessages \in Nat
  BY SocketAssumption DEF SocketAssumption, Inv, Types
<1> USE DEF ReceiverTypes, vars, stream
<1>1. CASE Create \/ Register \/ Connect \/ OpenReturns \/ Clear \/ NextMessage \/ Send
            \/ SendPosts \/ Close \/ UseFreedEngine \/ Destroy \/ DestroyAgain \/ RunConnect
            \/ RunSend \/ RunClose \/ RunDestroy \/ OnClosed \/ OnFailure \/ ResetChannel
            \/ Handshake \/ ChannelDrops \/ ChannelFails \/ EngineCloses \/ LoadPointer
            \/ CancelClose \/ EngineGoesDown \/ UNCHANGED vars
  <2>1. UNCHANGED <<receiver, arrived>>
    BY <1>1 DEF Create, Register, Connect, OpenReturns, Clear, NextMessage, Send, SendPosts,
           Close, UseFreedEngine, Destroy, DestroyAgain, RunConnect, RunSend, RunClose,
           RunDestroy, OnClosed, OnFailure, ResetChannel, Handshake, ChannelDrops, ChannelFails,
           EngineCloses, LoadPointer, CancelClose, EngineGoesDown
  <2> QED  BY <1>0, <2>1
<1>2. CASE DropOpen \/ Delete
  BY <1>0, <1>2 DEF DropOpen, Delete
<1>3. CASE Message
  BY <1>0, <1>3 DEF Message
<1> QED  BY <1>1, <1>2, <1>3 DEF Next, OwnerStep, NetworkStep, ShutdownStep

\* What the owner takes back it takes back in order, whoever else runs.
LEMMA OwnerKept ==
  ASSUME Inv, [Next]_vars
  PROVE  OwnerInv'
<1> USE DEF Inv, Types, OwnerTypes, SocketTypes, ThreadTypes, QueueType, Task,
    OwnerInv, OperationInv, ConnectInv, DestroyInv, QuietInv, vars, handle, shared, stream,
    network, shutdown
<1>1. CASE Create \/ Register \/ OpenReturns \/ Clear \/ DropOpen \/ NextMessage
            \/ UseFreedEngine \/ Delete \/ OnClosed \/ OnFailure \/ ResetChannel \/ Handshake
            \/ Message \/ ChannelDrops \/ ChannelFails \/ EngineCloses \/ LoadPointer
            \/ EngineGoesDown \/ UNCHANGED vars
  BY <1>1 DEF Create, Register, OpenReturns, Clear, DropOpen, NextMessage, UseFreedEngine,
         Delete, OnClosed, OnFailure, ResetChannel, Handshake, Message, ChannelDrops,
         ChannelFails, EngineCloses, LoadPointer, EngineGoesDown, Deliver, Finish, Fail
<1>2. CASE Connect \/ Send \/ SendPosts \/ Close \/ Destroy \/ DestroyAgain \/ CancelClose
  BY <1>2 DEF Connect, Send, SendPosts, Close, Destroy, DestroyAgain, CancelClose, Post
<1>3. CASE RunConnect \/ RunSend \/ RunClose \/ RunDestroy
  BY <1>3 DEF RunConnect, RunSend, RunClose, RunDestroy, Runs, Fail, Finish
<1> QED  BY <1>1, <1>2, <1>3 DEF Next, OwnerStep, NetworkStep, ShutdownStep

\* Only the terminal callback of a channel ends its operation, and a new one needs
\* an open engine.
LEMMA OperationKept ==
  ASSUME Inv, [Next]_vars
  PROVE  OperationInv'
<1> USE DEF Inv, Types, OwnerTypes, SocketTypes, ThreadTypes, QueueType, Task,
    OwnerInv, OperationInv, ConnectInv, DestroyInv, QuietInv, vars, handle, shared, stream,
    network, shutdown
<1>1. CASE Create \/ Register \/ OpenReturns \/ Clear \/ DropOpen \/ NextMessage
            \/ UseFreedEngine \/ Delete \/ OnClosed \/ OnFailure \/ ResetChannel \/ Handshake
            \/ Message \/ ChannelDrops \/ ChannelFails \/ EngineCloses \/ LoadPointer
            \/ EngineGoesDown \/ UNCHANGED vars
  BY <1>1 DEF Create, Register, OpenReturns, Clear, DropOpen, NextMessage, UseFreedEngine,
         Delete, OnClosed, OnFailure, ResetChannel, Handshake, Message, ChannelDrops,
         ChannelFails, EngineCloses, LoadPointer, EngineGoesDown, Deliver, Finish, Fail
<1>2. CASE Connect \/ Send \/ SendPosts \/ Close \/ Destroy \/ DestroyAgain \/ CancelClose
  BY <1>2 DEF Connect, Send, SendPosts, Close, Destroy, DestroyAgain, CancelClose, Post
<1>3. CASE RunConnect \/ RunSend \/ RunClose \/ RunDestroy
  BY <1>3 DEF RunConnect, RunSend, RunClose, RunDestroy, Runs, Fail, Finish
<1> QED  BY <1>1, <1>2, <1>3 DEF Next, OwnerStep, NetworkStep, ShutdownStep

\* Connect is posted once, and nothing that needs its channel is posted before it.
LEMMA ConnectKept ==
  ASSUME Inv, [Next]_vars
  PROVE  ConnectInv'
<1> USE DEF Inv, Types, OwnerTypes, SocketTypes, ThreadTypes, QueueType, Task,
    OwnerInv, OperationInv, ConnectInv, vars, handle, shared, stream, network, shutdown
<1>1. CASE Create \/ Register \/ OpenReturns \/ Clear \/ DropOpen \/ NextMessage \/ Send
            \/ UseFreedEngine \/ Delete \/ OnClosed \/ OnFailure \/ ResetChannel \/ Handshake
            \/ Message \/ ChannelDrops \/ ChannelFails \/ EngineCloses \/ LoadPointer
            \/ EngineGoesDown \/ UNCHANGED vars
  BY <1>1 DEF Create, Register, OpenReturns, Clear, DropOpen, NextMessage, Send, UseFreedEngine,
         Delete, OnClosed, OnFailure, ResetChannel, Handshake, Message, ChannelDrops,
         ChannelFails, EngineCloses, LoadPointer, EngineGoesDown, Deliver, Finish, Fail
<1>2. CASE Connect
  BY <1>2 DEF Connect, Post
<1>3. CASE SendPosts
  BY <1>3 DEF SendPosts, Post
<1>4. CASE Close
  BY <1>4 DEF Close, Post
<1>5. CASE Destroy
  BY <1>5 DEF Destroy, Post
<1>6. CASE DestroyAgain
  <2>1. posted' = Append(posted, "destroy")
    BY <1>6 DEF DestroyAgain, Post
  <2>2. \A i \in 1..Len(posted) : posted[i] # "connect"
    BY <1>6 DEF DestroyAgain
  <2>3. owner' = "deleting" /\ \A i \in 1..Len(posted) : posted[i] # "send"
    BY <1>6 DEF DestroyAgain, QuietInv
  <2> QED  BY <2>1, <2>2, <2>3
<1>7. CASE CancelClose
  <2>1. CASE posted' = posted
    BY <1>7, <2>1 DEF CancelClose
  <2>2. CASE posted' = Append(posted, "close")
    BY <1>7, <2>2 DEF CancelClose
  <2> QED  BY <1>7, <2>1, <2>2 DEF CancelClose, Post
<1>8. CASE RunConnect
  BY <1>8 DEF RunConnect, Runs, Fail
<1>9. CASE RunSend
  BY <1>9 DEF RunSend, Runs, Fail
<1>10. CASE RunClose
  <2>1. posted # <<>> /\ posted' = Tail(posted) /\ UNCHANGED <<owner, handle, destroyed, shutdown>>
    BY <1>10 DEF RunClose, Runs
  <2>2. CASE channel = "connecting"
    <3>1. \A i \in 1..Len(posted) : posted[i] # "connect"
      BY <2>2
    <3>2. \A i \in 1..Len(posted') : posted'[i] = posted[i + 1] /\ i + 1 \in 1..Len(posted)
      BY <2>1
    <3>3. \A i \in 1..Len(posted') : posted'[i] # "connect"
      BY <3>1, <3>2
    <3> QED  BY <2>1, <3>2, <3>3
  <2>3. CASE channel # "connecting"
    <3>1. UNCHANGED <<shared, callback>> /\ (channel' = "none" <=> channel = "none")
      BY <1>10, <2>3 DEF RunClose
    <3> QED  BY <2>1, <3>1
  <2> QED  BY <2>2, <2>3
<1>11. CASE RunDestroy
  BY <1>11 DEF RunDestroy, Runs
<1> QED  BY <1>1, <1>2, <1>3, <1>4, <1>5, <1>6, <1>7, <1>8, <1>9, <1>10, <1>11
     DEF Next, OwnerStep, NetworkStep, ShutdownStep

\* Nothing the owner posts follows its Destroy; a late cancellation may.
LEMMA DestroyKept ==
  ASSUME Inv, [Next]_vars
  PROVE  DestroyInv'
<1> USE DEF Inv, Types, OwnerTypes, SocketTypes, ThreadTypes, QueueType, Task,
    OwnerInv, ConnectInv, DestroyInv, QuietInv, vars, handle, shared, stream, network, shutdown
<1>1. CASE Create \/ Register \/ OpenReturns \/ Clear \/ DropOpen \/ NextMessage \/ Send
            \/ UseFreedEngine \/ Delete \/ OnClosed \/ OnFailure \/ ResetChannel \/ Handshake
            \/ Message \/ ChannelDrops \/ ChannelFails \/ EngineCloses \/ LoadPointer
            \/ EngineGoesDown \/ UNCHANGED vars
  BY <1>1 DEF Create, Register, OpenReturns, Clear, DropOpen, NextMessage, Send, UseFreedEngine,
         Delete, OnClosed, OnFailure, ResetChannel, Handshake, Message, ChannelDrops,
         ChannelFails, EngineCloses, LoadPointer, EngineGoesDown, Deliver, Finish, Fail
<1>2. CASE Connect
  BY <1>2 DEF Connect, Post
<1>3. CASE SendPosts
  BY <1>3 DEF SendPosts, Post
<1>4. CASE Close
  BY <1>4 DEF Close, Post
<1>5. CASE Destroy
  BY <1>5 DEF Destroy, Post
<1>6. CASE DestroyAgain
  BY <1>6 DEF DestroyAgain, Post
<1>7. CASE CancelClose
  <2>1. CASE posted' = posted
    BY <1>7, <2>1 DEF CancelClose
  <2>2. CASE posted' = Append(posted, "close")
    BY <1>7, <2>2 DEF CancelClose
  <2> QED  BY <1>7, <2>1, <2>2 DEF CancelClose, Post
<1>8. CASE RunConnect
  BY <1>8 DEF RunConnect, Runs, Fail
<1>9. CASE RunSend
  BY <1>9 DEF RunSend, Runs, Fail
<1>10. CASE RunClose
  <2>1. posted # <<>> /\ posted' = Tail(posted) /\ UNCHANGED <<owner, handle, destroyed, shutdown>>
    BY <1>10 DEF RunClose, Runs
  <2> QED  BY <2>1
<1>11. CASE RunDestroy
  BY <1>11 DEF RunDestroy, Runs
<1> QED  BY <1>1, <1>2, <1>3, <1>4, <1>5, <1>6, <1>7, <1>8, <1>9, <1>10, <1>11
     DEF Next, OwnerStep, NetworkStep, ShutdownStep

\* After a Destroy has run no task makes a channel or a callback again.
LEMMA QuietKept ==
  ASSUME Inv, [Next]_vars
  PROVE  QuietInv'
<1> USE DEF Inv, Types, OwnerTypes, SocketTypes, ThreadTypes, QueueType, Task,
    OwnerInv, OperationInv, ConnectInv, DestroyInv, QuietInv, vars, handle, shared, stream,
    network, shutdown
<1>1. CASE Create \/ Register \/ OpenReturns \/ Clear \/ DropOpen \/ NextMessage \/ Send
            \/ UseFreedEngine \/ Delete \/ OnClosed \/ OnFailure \/ ResetChannel \/ Handshake
            \/ Message \/ ChannelDrops \/ ChannelFails \/ EngineCloses \/ LoadPointer
            \/ EngineGoesDown \/ UNCHANGED vars
  BY <1>1 DEF Create, Register, OpenReturns, Clear, DropOpen, NextMessage, Send, UseFreedEngine,
         Delete, OnClosed, OnFailure, ResetChannel, Handshake, Message, ChannelDrops,
         ChannelFails, EngineCloses, LoadPointer, EngineGoesDown, Deliver, Finish, Fail
<1>2. CASE Connect
  BY <1>2 DEF Connect, Post
<1>3. CASE SendPosts
  BY <1>3 DEF SendPosts, Post
<1>4. CASE Close
  BY <1>4 DEF Close, Post
<1>5. CASE Destroy
  BY <1>5 DEF Destroy, Post
<1>6. CASE DestroyAgain
  BY <1>6 DEF DestroyAgain, Post
<1>7. CASE CancelClose
  BY <1>7 DEF CancelClose, Post
<1>8. CASE RunConnect
  BY <1>8 DEF RunConnect, Runs, Fail
<1>9. CASE RunSend
  BY <1>9 DEF RunSend, Runs, Fail
<1>10. CASE RunClose
  <2>1. posted # <<>> /\ posted' = Tail(posted) /\ UNCHANGED <<owner, handle, destroyed, shutdown>>
    BY <1>10 DEF RunClose, Runs
  <2>2. CASE channel = "connecting"
    BY <1>10, <2>1, <2>2 DEF RunClose, Finish
  <2>3. CASE channel # "connecting"
    <3>1. UNCHANGED <<shared, callback>> /\ (channel' = "none" <=> channel = "none")
      BY <1>10, <2>3 DEF RunClose
    <3> QED  BY <2>1, <3>1
  <2> QED  BY <2>2, <2>3
<1>11. CASE RunDestroy
  BY <1>11 DEF RunDestroy, Runs
<1> QED  BY <1>1, <1>2, <1>3, <1>4, <1>5, <1>6, <1>7, <1>8, <1>9, <1>10, <1>11
     DEF Next, OwnerStep, NetworkStep, ShutdownStep

\* The first state has no socket, no message and no task.
LEMMA Begins == Init => Inv
<1> SUFFICES ASSUME Init
             PROVE  Inv
  OBVIOUS
<1> USE SocketAssumption DEF Init, SocketAssumption
<1>1. OwnerTypes
  BY DEF OwnerTypes
<1>2. SocketTypes
  BY DEF SocketTypes
<1>3. ThreadTypes
  BY DEF ThreadTypes
<1>4. QueueType /\ ChannelType /\ ReceiverTypes
  BY EmptySeq DEF QueueType, ChannelType, ReceiverTypes
<1>5. OwnerInv
  BY DEF OwnerInv
<1>6. OperationInv /\ ConnectInv /\ DestroyInv /\ QuietInv
  BY DEF OperationInv, ConnectInv, DestroyInv, QuietInv
<1> QED  BY <1>1, <1>2, <1>3, <1>4, <1>5, <1>6 DEF Inv, Types

LEMMA Invariance == Spec => []Inv
<1>1. Inv /\ [Next]_vars => Inv'
  <2> SUFFICES ASSUME Inv, [Next]_vars
               PROVE  Inv'
    OBVIOUS
  <2>1. Types'
    BY OwnerTypesKept, SocketTypesKept, ThreadTypesKept, QueueTypeKept, ChannelTypeKept,
       ReceiverTypesKept DEF Types
  <2> QED  BY <2>1, OwnerKept, OperationKept, ConnectKept, DestroyKept, QuietKept DEF Inv
<1> QED  BY <1>1, Begins, PTL DEF Spec

-----------------------------------------------------------------------------
(* Theorems.                                                               *)

\* Every variable stays in its range, and the channel of messages within its
\* capacity (try_send, websocket.rs:371).
THEOREM TypeCorrect == Spec => []TypeOK
<1>1. Inv => TypeOK
  BY DEF Inv, Types, OwnerTypes, SocketTypes, ThreadTypes, QueueType, ChannelType, ReceiverTypes,
         Task, TypeOK
<1> QED  BY <1>1, Invariance, PTL

\* The engine is not destroyed under a channel before the terminal callback of its
\* socket has finished (WsContext::operation, websocket.rs:212-219); from there to
\* the reset of the channel (cronet_rs_websocket.cc:417-431) nothing holds it back.
THEOREM EngineOutlives == Spec => []EngineOutlivesOpenSocket
<1>1. Inv => EngineOutlivesOpenSocket
  BY DEF Inv, OperationInv, EngineOutlivesOpenSocket
<1> QED  BY <1>1, Invariance, PTL

\* Neither a callback nor a task of the network thread finds the socket or its
\* context gone, but for the Close of a cancellation that came too late
\* (DestroyAndWait, Unretained).
THEOREM DeletedUnused == Spec => []DeletedSocketIsUnused
<1>1. ASSUME Inv
      PROVE  CallbacksFindContext
  <2> SUFFICES ASSUME channel # "none" \/ callback # "none"
               PROVE  context /\ native = "live"
    BY DEF CallbacksFindContext
  <2>1. owner \notin {"begin", "created", "registered", "gone"}
    BY <1>1, Zenon DEF Inv, OwnerInv, QuietInv
  <2> QED  BY <1>1, <2>1 DEF Inv, OwnerInv
<1>2. ASSUME Inv
      PROVE  NoTaskOutlivesSocket
  <2> SUFFICES ASSUME native = "deleted", canceler # "late"
               PROVE  posted = <<>>
    BY DEF NoTaskOutlivesSocket
  <2>1. owner = "gone"
    BY <1>2 DEF Inv, OwnerInv
  <2>2. \A i \in 1..Len(posted) : posted[i] = "destroy"
    BY <1>2, <2>1 DEF Inv, QuietInv
  <2>3. \A i \in 1..Len(posted) : posted[i] # "destroy"
    BY <1>2, <2>1 DEF Inv, DestroyInv
  <2>4. posted \in Seq(Task)
    BY <1>2 DEF Inv, Types, QueueType
  <2> QED  BY <2>2, <2>3, <2>4
<1> QED  BY <1>1, <1>2, Invariance, PTL DEF DeletedSocketIsUnused
=============================================================================
