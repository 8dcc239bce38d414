----------------------------- MODULE WebSocket -----------------------------
(***************************************************************************)
(* A WebSocket (tokio-cronet/src/websocket.rs) over the native socket of   *)
(* tokio-cronet-sys/native/cronet_rs_websocket.cc.                         *)
(*                                                                         *)
(* Actors: the owner, who opens, uses and drops the socket; the shutdown   *)
(* of the engine, which may cancel it; and Cronet's network thread, which  *)
(* runs posted tasks in order, and between them the events of the          *)
(* channel.  Every method of the native socket only posts a task, except   *)
(* Destroy, which waits until its task has run.                            *)
(***************************************************************************)
EXTENDS Naturals, Sequences

CONSTANTS
  Capacity,    \* of the message channel (32 in the code)
  MaxMessages, \* bound: messages the server sends
  MaxPosts     \* bound: sends and closes of the owner

ASSUME SocketAssumption ==
  /\ Capacity \in Nat \ {0}
  /\ MaxMessages \in Nat
  /\ MaxPosts \in Nat

VARIABLES
  owner,     \* where the owner stands
  posts,     \* sends and closes it made
  pointer,   \* WsControl::native is not 0
  native,    \* Cronet_WebSocketImpl: "none", "live" or "deleted"
  context,   \* the WsContext behind context_ptr lives
  operation, \* WsContext::operation is Some
  opened,    \* what was sent through WsContext::open
  terminal,  \* WsContext::terminal
  messages,  \* what the message channel holds: messages and errors
  receiver,  \* its receiver lives
  arrived,   \* messages that came from the server
  posted,    \* tasks posted to the network thread
  channel,   \* channel_: "none", "connecting", "open" or "closing"
  callback,  \* the terminal callback the network thread is inside of, if any:
             \* "closed" and "failed" until it has finished, then "returning"
  destroyed, \* DestroyAndWait was signaled
  engine,    \* "open", "closing" or "down"
  canceler,  \* the shutdown's cancellation: "none", "loaded", "called" or "late"
  early      \* its Close was posted before Connect

handle == <<pointer, native, context>>
shared == <<operation, opened, terminal>>
stream == <<messages, receiver, arrived>>
network == <<channel, callback, destroyed>>
shutdown == <<engine, canceler, early>>
vars == <<owner, posts, handle, shared, stream, posted, network, shutdown>>

Init ==
  /\ owner = "begin" /\ posts = 0
  /\ pointer = FALSE /\ native = "none" /\ context = FALSE
  /\ operation = FALSE /\ opened = "none" /\ terminal = "none"
  /\ messages = <<>> /\ receiver = TRUE /\ arrived = 0
  /\ posted = <<>>
  /\ channel = "none" /\ callback = "none" /\ destroyed = FALSE
  /\ engine = "open" /\ canceler = "none" /\ early = FALSE

Post(task) == posted' = Append(posted, task)

-----------------------------------------------------------------------------
(* The owner.                                                              *)

\* Mutant: the operation is not kept in the context.
CreateUncounted ==
  /\ owner = "begin" /\ engine = "open"
  /\ owner' = "created"
  /\ pointer' = TRUE /\ native' = "live"
  /\ UNCHANGED <<posts, context, shared, stream, posted, network, shutdown>>

\* begin_operation and Cronet_RS_WebSocket_Create; set_native.
Create ==
  /\ owner = "begin" /\ engine = "open"
  /\ owner' = "created"
  /\ pointer' = TRUE /\ native' = "live" /\ operation' = TRUE
  /\ UNCHANGED <<posts, context, opened, terminal, stream, posted, network, shutdown>>

\* EngineInner::register; a closing engine refuses, and the socket that was
\* never connected is destroyed.
Register ==
  /\ owner = "created"
  /\ IF engine = "open"
       THEN owner' = "registered" /\ UNCHANGED <<pointer, native, operation>>
       ELSE /\ owner' = "gone"
            /\ pointer' = FALSE /\ native' = "deleted" /\ operation' = FALSE
  /\ UNCHANGED <<posts, context, opened, terminal, stream, posted, network, shutdown>>

\* The callbacks are set and Connect posts its task.
Connect ==
  /\ owner = "registered"
  /\ owner' = "waiting"
  /\ context' = TRUE
  /\ Post("connect")
  /\ UNCHANGED <<posts, pointer, native, shared, stream, network, shutdown>>

OpenReturns ==
  /\ owner = "waiting" /\ opened = "ok"
  /\ owner' = "open"
  /\ UNCHANGED <<posts, handle, shared, stream, posted, network, shutdown>>

\* open() fails, or the socket is dropped: the pointer is cleared first.
Clear ==
  /\ owner = "open" \/ (owner = "waiting" /\ opened = "err")
  /\ owner' = "clearing"
  /\ pointer' = FALSE
  /\ UNCHANGED <<posts, native, context, shared, stream, posted, network, shutdown>>

\* The future of open() is dropped at its await: nothing of it has a guard.
DropOpen ==
  /\ owner = "waiting"
  /\ owner' = "leaked"
  /\ receiver' = FALSE /\ messages' = <<>>
  /\ UNCHANGED <<posts, handle, shared, arrived, posted, network, shutdown>>

\* next_message.
NextMessage ==
  /\ owner = "open" /\ messages # <<>>
  /\ messages' = Tail(messages)
  /\ UNCHANGED <<owner, posts, handle, shared, receiver, arrived, posted, network, shutdown>>

\* send_text and send_binary refuse after the end; close and cancel do not.
Send ==
  /\ owner = "open" /\ terminal = "none" /\ posts < MaxPosts
  /\ owner' = "sending"
  /\ posts' = posts + 1
  /\ UNCHANGED <<handle, shared, stream, posted, network, shutdown>>

\* A moment after that look they call Cronet_RS_WebSocket_Send.
SendPosts ==
  /\ owner = "sending" /\ engine # "down"
  /\ owner' = "open"
  /\ Post("send")
  /\ UNCHANGED <<posts, handle, shared, stream, network, shutdown>>

Close ==
  /\ owner = "open" /\ engine # "down" /\ posts < MaxPosts
  /\ posts' = posts + 1
  /\ Post("close")
  /\ UNCHANGED <<owner, handle, shared, stream, network, shutdown>>

\* Send, Close, cancel and Destroy all ask the engine for its context: on an
\* engine that was destroyed this is undefined, and the model ends here.
UseFreedEngine ==
  /\ owner \in {"open", "sending", "clearing", "destroying"} /\ engine = "down"
  /\ owner' = "undefined"
  /\ UNCHANGED <<posts, handle, shared, stream, posted, network, shutdown>>

\* Cronet_RS_WebSocket_Destroy: DestroyAndWait posts its task.
Destroy ==
  /\ owner = "clearing" /\ engine # "down"
  /\ owner' = "destroying"
  /\ Post("destroy")
  /\ UNCHANGED <<posts, handle, shared, stream, network, shutdown>>

\* Once it has run, the destructor does the same again.
DestroyAgain ==
  /\ owner = "destroying" /\ destroyed /\ engine # "down"
  /\ owner' = "deleting"
  /\ Post("destroy") /\ destroyed' = FALSE
  /\ UNCHANGED <<posts, handle, shared, stream, channel, callback, shutdown>>

\* Mutant: nobody waits for the tasks of the socket.
DeleteNow ==
  /\ owner \in {"destroying", "deleting"}
  /\ owner' = "gone"
  /\ native' = "deleted" /\ context' = FALSE
  /\ operation' = FALSE
  /\ receiver' = FALSE /\ messages' = <<>>
  /\ UNCHANGED <<posts, pointer, opened, terminal, arrived, posted, network, shutdown>>

\* The socket is deleted, context_ptr and the last handles on the context are
\* released, and an operation it still holds ends.
Delete ==
  /\ owner = "deleting" /\ destroyed
  /\ owner' = "gone"
  /\ native' = "deleted" /\ context' = FALSE
  /\ operation' = FALSE
  /\ receiver' = FALSE /\ messages' = <<>>
  /\ UNCHANGED <<posts, pointer, opened, terminal, arrived, posted, network, shutdown>>

-----------------------------------------------------------------------------
(* The callbacks of websocket.rs, on the network thread.                   *)

\* Mutant: the channel grows.
DeliverAlways(event) == messages' = IF receiver THEN Append(messages, event) ELSE messages

\* try_send: what does not fit is lost.
Deliver(event) ==
  messages' = IF receiver /\ Len(messages) < Capacity THEN Append(messages, event) ELSE messages

\* Mutant: the result is stored, but the operation goes on.
FinishKeepsOperation(result) ==
  /\ terminal' = result
  /\ UNCHANGED operation

\* WsContext::finish: nobody is left to be told after a dropped open().
Finish(result) ==
  /\ terminal' = IF receiver THEN result ELSE terminal
  /\ operation' = FALSE

\* on_failure answers a waiting open() and then, a moment later, queues the
\* error and finishes.
Fail == opened' = (IF opened = "none" THEN "err" ELSE opened) /\ callback' = "failed"

\* on_closed finishes, and answers no open() that still waits.
OnClosed ==
  /\ callback = "closed"
  /\ callback' = "returning"
  /\ Finish("ok")
  /\ UNCHANGED <<owner, posts, handle, opened, stream, posted, channel, destroyed, shutdown>>

OnFailure ==
  /\ callback = "failed"
  /\ callback' = "returning"
  /\ Deliver("error")
  /\ Finish("err")
  /\ UNCHANGED <<owner, posts, handle, opened, receiver, arrived, posted, channel, destroyed,
                 shutdown>>

\* The callback returns to OnDropChannel or OnFailChannel, which resets the
\* channel, or to a task that found none.
ResetChannel ==
  /\ callback = "returning"
  /\ callback' = "none"
  /\ channel' = "none"
  /\ UNCHANGED <<owner, posts, handle, shared, stream, posted, destroyed, shutdown>>

-----------------------------------------------------------------------------
(* The network thread.                                                     *)

Runs(task) == posted # <<>> /\ Head(posted) = task /\ posted' = Tail(posted) /\ callback = "none"

\* ConnectOnNetworkThread: the channel is made and begins its handshake, or the
\* URL or the network's context is refused.
RunConnect ==
  /\ Runs("connect")
  /\ \/ channel' = "connecting" /\ UNCHANGED <<opened, callback>>
     \/ Fail /\ UNCHANGED channel
  /\ UNCHANGED <<owner, posts, handle, operation, terminal, stream, destroyed, shutdown>>

\* SendOnNetworkThread: without a channel this is a failure.
RunSend ==
  /\ Runs("send")
  /\ IF channel = "none" THEN Fail ELSE UNCHANGED <<opened, callback>>
  /\ UNCHANGED <<owner, posts, handle, operation, terminal, stream, channel, destroyed, shutdown>>

\* CloseOnNetworkThread: nothing without a channel; a connecting channel is
\* dropped at once; an open one begins the closing handshake.
RunClose ==
  /\ Runs("close")
  /\ CASE channel = "connecting" -> callback' = "closed" /\ UNCHANGED channel
       [] channel = "open" -> channel' = "closing" /\ UNCHANGED callback
       [] OTHER -> UNCHANGED <<channel, callback>>
  /\ UNCHANGED <<owner, posts, handle, shared, stream, destroyed, shutdown>>

\* DestroyOnNetworkThread: no event comes after it.
RunDestroy ==
  /\ Runs("destroy")
  /\ channel' = "none" /\ destroyed' = TRUE
  /\ UNCHANGED <<owner, posts, handle, shared, stream, callback, shutdown>>

\* OnAddChannelResponse: the handshake succeeds, on_open.
Handshake ==
  /\ channel = "connecting" /\ callback = "none"
  /\ channel' = "open"
  /\ opened' = IF opened = "none" THEN "ok" ELSE opened
  /\ UNCHANGED <<owner, posts, handle, operation, terminal, stream, posted, callback, destroyed,
                 shutdown>>

\* OnDataFrame with the last fragment of a message: AppendFrame, on_message.
Message ==
  /\ channel \in {"open", "closing"} /\ callback = "none" /\ arrived < MaxMessages
  /\ arrived' = arrived + 1
  /\ Deliver("message")
  /\ UNCHANGED <<owner, posts, handle, shared, receiver, posted, network, shutdown>>

\* OnDropChannel: the server closes, or the closing handshake ends.
ChannelDrops ==
  /\ channel \in {"open", "closing"} /\ callback = "none"
  /\ callback' = "closed"
  /\ UNCHANGED <<owner, posts, handle, shared, stream, posted, channel, destroyed, shutdown>>

\* OnFailChannel.
ChannelFails ==
  /\ channel # "none" /\ callback = "none"
  /\ Fail
  /\ UNCHANGED <<owner, posts, handle, operation, terminal, stream, posted, channel, destroyed,
                 shutdown>>

-----------------------------------------------------------------------------
(* The shutdown of the engine.                                             *)

EngineCloses ==
  /\ engine = "open"
  /\ engine' = "closing"
  /\ UNCHANGED <<owner, posts, handle, shared, stream, posted, network, canceler, early>>

\* A registered control is canceled: WsControl::cancel loads the pointer.
LoadPointer ==
  /\ engine = "closing" /\ canceler = "none"
  /\ canceler' = IF owner \notin {"begin", "created"} /\ pointer THEN "loaded" ELSE "called"
  /\ UNCHANGED <<owner, posts, handle, shared, stream, posted, network, engine, early>>

\* It then closes the socket.  Once Drop has cleared the pointer this comes too
\* late: the task may run after the deletion, or Close itself meet freed memory.
CancelClose ==
  /\ canceler = "loaded"
  /\ canceler' = (IF pointer THEN "called" ELSE "late")
  /\ IF native = "live" THEN Post("close") ELSE UNCHANGED posted
  /\ early' = (owner = "registered")
  /\ UNCHANGED <<owner, posts, handle, shared, stream, network, engine>>

\* With no operation left the engine is shut down and destroyed.
EngineGoesDown ==
  /\ engine = "closing" /\ canceler \in {"called", "late"} /\ ~operation
  /\ engine' = "down"
  /\ UNCHANGED <<owner, posts, handle, shared, stream, posted, network, canceler, early>>

-----------------------------------------------------------------------------
OwnerStep == Register \/ Connect \/ OpenReturns \/ (opened = "err" /\ Clear)
             \/ SendPosts \/ Destroy \/ DestroyAgain \/ Delete
NetworkStep == RunConnect \/ RunSend \/ RunClose \/ RunDestroy
               \/ OnClosed \/ OnFailure \/ ResetChannel
ShutdownStep == LoadPointer \/ CancelClose \/ EngineGoesDown

Next ==
  \/ Create \/ OwnerStep \/ Clear \/ DropOpen \/ NextMessage \/ Send \/ Close \/ UseFreedEngine
  \/ NetworkStep \/ Handshake \/ Message \/ ChannelDrops \/ ChannelFails
  \/ EngineCloses \/ ShutdownStep

Spec == Init /\ [][Next]_vars

\* Threads that can go on do, and a closing handshake ends, by its timeout if
\* need be.  Nothing makes a server answer, or the owner use or drop the socket.
Fairness ==
  /\ WF_vars(OwnerStep)
  /\ WF_vars(NetworkStep)
  /\ WF_vars(ShutdownStep)
  /\ WF_vars(channel = "closing" /\ ChannelDrops)

FairSpec == Spec /\ Fairness

-----------------------------------------------------------------------------
(* Properties.                                                             *)

\* Type invariant: the range of every variable; the message channel never holds
\* more than its capacity.
TypeOK ==
  /\ owner \in {"begin", "created", "registered", "waiting", "open", "sending", "clearing",
                "destroying", "deleting", "leaked", "gone", "undefined"}
  /\ posts \in 0..MaxPosts
  /\ pointer \in BOOLEAN /\ native \in {"none", "live", "deleted"} /\ context \in BOOLEAN
  /\ operation \in BOOLEAN
  /\ {opened, terminal} \subseteq {"none", "ok", "err"}
  /\ messages \in Seq({"message", "error"}) /\ Len(messages) <= Capacity
  /\ receiver \in BOOLEAN /\ arrived \in 0..MaxMessages
  /\ posted \in Seq({"connect", "send", "close", "destroy"})
  /\ channel \in {"none", "connecting", "open", "closing"}
  /\ callback \in {"none", "closed", "failed", "returning"} /\ destroyed \in BOOLEAN
  /\ engine \in {"open", "closing", "down"}
  /\ canceler \in {"none", "loaded", "called", "late"} /\ early \in BOOLEAN

\* Whatever may still call back, a channel or a callback that runs, finds the
\* socket and its context alive (websocket.rs:344 "retained until Destroy"): the
\* owner deletes them only after the network thread has let go.
CallbacksFindContext ==
  channel # "none" \/ callback # "none" => context /\ native = "live"

\* No task is left behind for a socket that was deleted, unless the shutdown's
\* Close came too late (Close and Send post with Unretained).
NoTaskOutlivesSocket == native = "deleted" /\ canceler # "late" => posted = <<>>

\* Deleting a socket is safe for the network thread: neither a callback nor a task
\* posted to it finds the socket gone (DestroyAndWait).
DeletedSocketIsUnused == CallbacksFindContext /\ NoTaskOutlivesSocket

\* The engine is destroyed under a channel only once the socket's terminal
\* callback has finished: until then the operation in its context holds the
\* shutdown back.  From there to the reset of the channel nothing does.
EngineOutlivesOpenSocket == engine = "down" => channel = "none" \/ callback = "returning"

\* A handshake that fails is reported by open(), which leaves nothing behind but
\* what an engine destroyed in the meantime makes undefined.
FailedOpenIsReleased ==
  opened = "err" /\ owner = "waiting" ~> owner \in {"gone", "leaked"} \/ engine = "down"

\* A dropped socket is deleted and its operation ends, wherever its network
\* thread and the server are, unless the engine was destroyed before it.
DroppedSocketIsReleased ==
  owner = "clearing" ~> engine = "down" \/ (native = "deleted" /\ ~operation)

\* A shutdown whose Close was posted behind Connect, or that found no socket to
\* close, comes to its end, even if nobody owns the socket any more.
CancelEndsSocket == canceler \in {"called", "late"} /\ ~early ~> engine = "down"

\* A failed open(), a dropped socket and a shutdown that cancels it in time settle.
\* It does not say that open() returns: on_closed answers none that waits.
SocketSettles == FailedOpenIsReleased /\ DroppedSocketIsReleased /\ CancelEndsSocket
=============================================================================
