----------------------------- MODULE UrlRequest -----------------------------
(***************************************************************************)
(* One HTTP request from start_request to the release of its native        *)
(* objects (tokio-cronet/src/request.rs).                                  *)
(*                                                                         *)
(* Actors, each with a program counter: the thread in start_request;       *)
(* Cronet's callbacks, which executor workers run in parallel; the tasks   *)
(* that send a body chunk and then resume reading; the task that waits for *)
(* a redirect decision; the task that sends the final error; whoever calls *)
(* RequestControl::cancel; the cleanup task; and the consumer, which       *)
(* awaits PendingRequest, then reads ResponseBody, and may drop either.    *)
(* One buffer is passed back and forth between Cronet and the callbacks.   *)
(***************************************************************************)
EXTENDS Naturals, Sequences, FiniteSets

CONSTANTS
  Policies,     \* RedirectPolicy values a request may have
  ReadFrames,   \* workers that may be inside on_read_completed together
  ChunkTasks,   \* chunk tasks that may be alive together
  MaxRounds,    \* bound: redirects the server sends, each counting 2, and reads
                \* that complete before the end of the body, together
  Capacity,     \* body_channel_capacity
  MaxBytes      \* max_response_bytes, a chunk counting 1

\* The actors that have a name, and what the gate is when nobody has it.
Named == {"starter", "redirect", "headers", "terminal", "finished", "decision", "error",
          "handle", "drop", "free"}

ASSUME RequestAssumption ==
  /\ Policies \subseteq {"Follow", "Cancel", "Handler"}
  /\ MaxRounds \in Nat
  /\ MaxBytes \in Nat
  /\ Capacity \in Nat \ {0}
  /\ ReadFrames \cap (ChunkTasks \cup Named) = {}
  /\ ChunkTasks \cap Named = {}

VARIABLES
  policy,          \* redirect_policy; chosen when the code first looks at it
  ns,              \* what the native request is waiting for
  outcome,         \* how it ended, or "none"
  posted,          \* callbacks handed to the executor, not yet invoked
  redirects,       \* redirects so far
  reads,           \* reads completed so far
  produced,        \* non-empty chunks read so far
  pc,              \* where every actor but cleanup and consumer stands
  raw,             \* RequestControl::raw is not null
  done,            \* RequestControl::done
  cancelRequested, \* RequestControl::cancel_requested
  gate,            \* who holds RequestControl::gate
  owner,           \* the buffer: "none", "app", "native" or "freed"
  recorded,        \* CallbackState::buffer is not null
  received,        \* CallbackState::received
  requestError,    \* request_error is Some
  headers,         \* headers channel: "empty", "ok" or "err"
  body,            \* body channel, a sequence of "chunk" and "err"
  terminalSent,    \* terminal_sender has fired
  finished,        \* finished_sender holds the metrics
  cleanup,         \* the cleanup task, or NativeRequest::drop after a failure
  late,            \* history: the callbacks that had begun, but held no lease yet,
                   \* when the cleanup task found no lease
  consumer,        \* the owner of PendingRequest, then of ResponseBody
  delivered        \* chunks the consumer received

network == <<ns, outcome, posted, redirects, reads, produced>>
control == <<raw, done, cancelRequested, gate>>
buffer == <<owner, recorded>>
results == <<requestError, headers, terminalSent, finished>>
reader == <<consumer, delivered>>
vars == <<policy, network, pc, control, buffer, received, results, body, cleanup, late,
          reader>>

-----------------------------------------------------------------------------
Terminal == {"terminal", "finished"}
Callbacks == {"redirect", "headers"} \cup ReadFrames \cup Terminal
Tasks == {"decision", "error"} \cup ChunkTasks
\* Threads that only call RequestControl::cancel: a RequestHandle or an engine
\* shutdown, and the drop of PendingRequest or ResponseBody.
Cancelers == {"handle", "drop"}
Actors == {"starter"} \cup Callbacks \cup Tasks \cup Cancelers

Init ==
  /\ policy = "unset"
  /\ ns = "unstarted" /\ outcome = "none" /\ posted = {}
  /\ redirects = 0 /\ reads = 0 /\ produced = 0
  /\ pc = [a \in Actors |-> IF a = "starter" THEN "created" ELSE "idle"]
  /\ raw = TRUE
  /\ done = FALSE
  /\ cancelRequested = FALSE
  /\ gate = "free"
  /\ owner = "none" /\ recorded = FALSE
  /\ received = 0
  /\ requestError = FALSE
  /\ headers = "empty" /\ body = <<>>
  /\ terminalSent = FALSE /\ finished = FALSE
  /\ cleanup = "none" /\ late = {}
  /\ consumer = "none" /\ delivered = 0

Goto(a, from, to) == pc[a] = from /\ pc' = [pc EXCEPT ![a] = to]

\* Where an actor goes after cancel(): start_request goes on.
Resting(a) == IF a = "starter" THEN "spawning" ELSE "idle"

\* The actor leaves, and releases the gate if it holds it.
Leave(a) ==
  /\ pc' = [pc EXCEPT ![a] = Resting(a)]
  /\ gate' = IF gate = a THEN "free" ELSE gate

\* A callback holds a CallbackLease from callback_context to its return.
Leased(c) == pc[c] \notin {"idle", "entering", "enteringEmpty"}

\* The CallbackContext, and the sender of the body channel in it, is gone.
ContextGone ==
  /\ cleanup = "done"
  /\ \A c \in Callbacks : ~Leased(c)
  /\ \A t \in Tasks : pc[t] = "idle"

ReceiverGone == consumer \in {"failed", "dropped"}

-----------------------------------------------------------------------------
(* Cronet.                                                                 *)

\* The native request ends: a buffer it holds is freed, the terminal callback
\* and the request-finished callback are handed to the executor.
NativeEnd(how) ==
  /\ outcome' = how
  /\ posted' = posted \cup Terminal
  /\ owner' = IF owner = "native" THEN "freed" ELSE owner

\* Cronet_UrlRequest_Cancel: nothing before Start or after the end.
NativeCancel ==
  /\ IF ns = "unstarted" \/ outcome # "none"
       THEN UNCHANGED <<outcome, posted, owner>>
       ELSE NativeEnd("canceled")
  /\ UNCHANGED <<ns, redirects, reads, produced, recorded>>

NetRedirect ==
  /\ ns = "network"
  /\ 2 * redirects + reads + 2 <= MaxRounds
  /\ redirects' = redirects + 1
  /\ ns' = "awaitFollow"
  /\ posted' = posted \cup {"redirect"}
  /\ UNCHANGED <<outcome, reads, produced, owner>>

NetHeaders ==
  /\ ns = "network"
  /\ ns' = "awaitRead"
  /\ posted' = posted \cup {"headers"}
  /\ UNCHANGED <<outcome, redirects, reads, produced, owner>>

\* A read completes with a chunk, or with no bytes.
NetRead ==
  /\ ns = "reading"
  /\ 2 * redirects + reads < MaxRounds
  /\ reads' = reads + 1
  /\ ns' = "awaitRead"
  /\ \/ posted' = posted \cup {"chunk"} /\ produced' = produced + 1
     \/ posted' = posted \cup {"empty"} /\ UNCHANGED produced
  /\ UNCHANGED <<outcome, redirects, owner>>

NetEnd ==
  /\ \/ ns = "reading" /\ NativeEnd("succeeded")
     \/ ns \in {"network", "reading"} /\ NativeEnd("failed")
  /\ UNCHANGED <<ns, redirects, reads, produced>>

Network ==
  /\ outcome = "none"
  /\ NetRedirect \/ NetHeaders \/ NetRead \/ NetEnd
  /\ UNCHANGED <<policy, pc, control, recorded, received, results, body, cleanup, late, reader>>

\* A worker runs a posted callback.  Cronet drops one that is not terminal
\* when the request has ended, and its buffer with it; on_read_completed gives
\* the buffer to the app.
Invoke(p, c) ==
  /\ p \in posted
  /\ c \in IF p \in {"chunk", "empty"} THEN ReadFrames ELSE {p}
  /\ pc[c] = "idle"
  /\ posted' = posted \ {p}
  /\ IF outcome # "none" /\ p \notin Terminal
       THEN UNCHANGED <<pc, owner>>
       ELSE /\ pc' = [pc EXCEPT ![c] = IF p = "empty" THEN "enteringEmpty" ELSE "entering"]
            /\ owner' = IF c \in ReadFrames THEN "app" ELSE owner
  /\ UNCHANGED <<policy, ns, outcome, redirects, reads, produced, control, recorded, received,
                 results, body, cleanup, late, reader>>

\* callback_context or finished_context: take the context and count the lease.
\* The worker may stall before, as long as it likes.
Lease(c) ==
  /\ c \in Callbacks
  /\ Goto(c, "entering", "run") \/ Goto(c, "enteringEmpty", "runEmpty")
  /\ UNCHANGED <<policy, network, control, buffer, received, results, body, cleanup, late,
                 reader>>

-----------------------------------------------------------------------------
(* RequestControl::cancel, and the two ways to fail a request.             *)

\* Store cancel_requested.
CancelFlag(a) ==
  /\ Goto(a, "cancel", "cancelLock")
  /\ cancelRequested' = TRUE
  /\ UNCHANGED <<policy, network, raw, done, gate, buffer, received, results, body, cleanup,
                 late, reader>>

\* Take the gate; nothing to cancel when the request is destroyed or done.
CancelLock(a) ==
  /\ pc[a] = "cancelLock"
  /\ gate = "free"
  /\ IF raw /\ ~done
       THEN gate' = a /\ pc' = [pc EXCEPT ![a] = "nativeCancel"]
       ELSE Leave(a)
  /\ UNCHANGED <<policy, network, raw, done, cancelRequested, buffer, received, results, body,
                 cleanup, late, reader>>

\* The native call: under the gate in cancel(), without it in fail_then_cancel.
CancelCall(a) ==
  /\ pc[a] = "nativeCancel"
  /\ NativeCancel
  /\ Leave(a)
  /\ UNCHANGED <<policy, raw, done, cancelRequested, received, results, body, cleanup, late,
                 reader>>

\* fail_then_cancel ("failing") and fail_from_task ("failingTask") record the
\* error if it is the first one.
RecordError(a) ==
  /\ Goto(a, "failing", "nativeCancel") \/ Goto(a, "failingTask", "cancel")
  /\ requestError' = TRUE
  /\ UNCHANGED <<policy, network, control, buffer, received, headers, terminalSent, finished,
                 body, cleanup, late, reader>>

-----------------------------------------------------------------------------
(* start_request.                                                          *)

\* Cronet_UrlRequest_Start, or the early return of a failed setup, which drops
\* NativeRequest at once.
Start ==
  /\ pc["starter"] = "created"
  /\ \/ /\ pc' = [pc EXCEPT !["starter"] = "started"]
        /\ ns' = "network"
        /\ UNCHANGED <<cleanup, consumer>>
     \/ /\ pc' = [pc EXCEPT !["starter"] = "idle"]
        /\ cleanup' = "destroy"
        /\ consumer' = "failed"
        /\ UNCHANGED ns
  /\ UNCHANGED <<policy, outcome, posted, redirects, reads, produced, control, buffer,
                 received, results, body, delivered, late>>

\* A cancel() that came before Start did nothing: repeat it.
Recheck ==
  /\ Goto("starter", "started", IF cancelRequested THEN "cancel" ELSE "spawning")
  /\ UNCHANGED <<policy, network, control, buffer, received, results, body, cleanup, late,
                 reader>>

\* Spawn the cleanup task and return PendingRequest.
SpawnCleanup ==
  /\ Goto("starter", "spawning", "idle")
  /\ cleanup' = "terminal"
  /\ consumer' = "pending"
  /\ UNCHANGED <<policy, network, control, buffer, received, results, body, delivered, late>>

-----------------------------------------------------------------------------
(* Redirects.                                                              *)

\* on_redirect_received
OnRedirect ==
  /\ pc["redirect"] = "run"
  /\ policy' \in IF policy = "unset" THEN Policies ELSE {policy}
  /\ \/ policy' = "Follow" /\ pc' = [pc EXCEPT !["redirect"] = "followLock"]
     \/ policy' = "Cancel" /\ pc' = [pc EXCEPT !["redirect"] = "failing"]
     \/ /\ policy' = "Handler"
        /\ pc["decision"] = "idle"
        /\ pc' = [pc EXCEPT !["redirect"] = "idle", !["decision"] = "deciding"]
  /\ UNCHANGED <<network, control, buffer, received, results, body, cleanup, late,
                 reader>>

\* The select of the decision task: the handler follows, cancels or panics.
Decide ==
  /\ Goto("decision", "deciding", "followLock") \/ Goto("decision", "deciding", "failingTask")
  /\ UNCHANGED <<policy, network, control, buffer, received, results, body, cleanup, late,
                 reader>>

\* The other branch of the select: the request finishes, the handler is aborted.
AbortDecision ==
  /\ finished
  /\ Goto("decision", "deciding", "idle")
  /\ UNCHANGED <<policy, network, control, buffer, received, results, body, cleanup, late,
                 reader>>

\* What an actor does when follow_redirect fails.
FollowError(a) == IF a = "decision" THEN "failingTask" ELSE "failing"

\* follow_redirect takes the gate and looks whether the request is alive.
FollowLock(a) ==
  /\ pc[a] = "followLock"
  /\ gate = "free"
  /\ IF raw /\ ~done
       THEN gate' = a /\ pc' = [pc EXCEPT ![a] = "followCall"]
       ELSE UNCHANGED gate /\ pc' = [pc EXCEPT ![a] = FollowError(a)]
  /\ UNCHANGED <<policy, network, raw, done, cancelRequested, buffer, received, results, body,
                 cleanup, late, reader>>

\* Cronet_UrlRequest_FollowRedirect, which may fail; it does nothing to a
\* request that has ended.
FollowCall(a) ==
  /\ pc[a] = "followCall"
  /\ \/ ns' = "network" /\ Leave(a)
     \/ /\ gate' = "free"
        /\ pc' = [pc EXCEPT ![a] = FollowError(a)]
        /\ UNCHANGED ns
  /\ UNCHANGED <<policy, outcome, posted, redirects, reads, produced, raw, done,
                 cancelRequested, buffer, received, results, body, cleanup, late, reader>>

-----------------------------------------------------------------------------
(* The response head and the body.                                         *)

\* on_response_started hands the response head over: true when its receiver
\* is gone.
HeadersRefused == headers = "empty" /\ ReceiverGone

\* on_response_started: without a receiver, or without memory for a buffer,
\* the request fails; else the new buffer is recorded and read into.
OnResponseStarted ==
  /\ pc["headers"] = "run"
  /\ headers' = IF headers = "empty" THEN "ok" ELSE headers
  /\ \/ /\ pc' = [pc EXCEPT !["headers"] = "failing"]
        /\ UNCHANGED buffer
     \/ /\ ~HeadersRefused
        /\ owner' = "app" /\ recorded' = TRUE
        /\ pc' = [pc EXCEPT !["headers"] = "read"]
  /\ UNCHANGED <<policy, network, control, received, requestError, terminalSent, finished,
                 body, cleanup, late, reader>>

\* Mutant: the limit is compared with the bytes of the earlier chunks alone.
LimitOffByOne(c) ==
  /\ pc[c] \in {"run", "runEmpty"}
  /\ recorded' = TRUE
  /\ IF pc[c] = "runEmpty"
       THEN pc' = [pc EXCEPT ![c] = "read"] /\ UNCHANGED received
       ELSE IF received > MaxBytes
       THEN pc' = [pc EXCEPT ![c] = "failing"] /\ UNCHANGED received
       ELSE /\ received' = received + 1
            /\ \E t \in ChunkTasks :
                 pc[t] = "idle" /\ pc' = [pc EXCEPT ![c] = "idle", ![t] = "sending"]
  /\ UNCHANGED <<policy, network, control, owner, results, body, cleanup, late, reader>>

\* Mutant: the callback reads on while the task sends.
ReadAhead(c) ==
  /\ pc[c] \in {"run", "runEmpty"}
  /\ recorded' = TRUE
  /\ \/ pc[c] = "runEmpty" /\ pc' = [pc EXCEPT ![c] = "read"] /\ UNCHANGED received
     \/ /\ pc[c] = "run"
        /\ received' = received + 1
        /\ \E t \in ChunkTasks :
             pc[t] = "idle" /\ pc' = [pc EXCEPT ![c] = "read", ![t] = "sending"]
  /\ UNCHANGED <<policy, network, control, owner, results, body, cleanup, late, reader>>

\* The task that is spawned: they are alike, so which place it takes does not matter.
NextTask == CHOOSE t \in ChunkTasks : pc[t] = "idle"

\* on_read_completed records the buffer, then fails if the body grows too
\* large, reads again if there were no bytes, and else leaves the chunk to a
\* task.
OnReadCompleted(c) ==
  /\ pc[c] \in {"run", "runEmpty"}
  /\ recorded' = TRUE
  /\ IF pc[c] = "runEmpty"
       THEN pc' = [pc EXCEPT ![c] = "read"] /\ UNCHANGED received
       ELSE IF received + 1 > MaxBytes
       THEN pc' = [pc EXCEPT ![c] = "failing"] /\ UNCHANGED received
       ELSE /\ received' = received + 1
            /\ \E t \in ChunkTasks :
                 pc[t] = "idle" /\ t = NextTask /\ pc' = [pc EXCEPT ![c] = "idle", ![t] = "sending"]
  /\ UNCHANGED <<policy, network, control, owner, results, body, cleanup, late, reader>>

\* Cronet_UrlRequest_Read: it takes the buffer, or frees that of an ended
\* request; it refuses an unexpected read and leaves the buffer alone; after any
\* other error the code counts the buffer as Cronet's.
Read(a) ==
  /\ pc[a] = "read"
  /\ \/ /\ ns = "awaitRead"
        /\ ns' = "reading"
        /\ owner' = IF outcome = "none" THEN "native" ELSE "freed"
        /\ pc' = [pc EXCEPT ![a] = "forget"]
     \/ /\ ns # "awaitRead"
        /\ pc' = [pc EXCEPT ![a] = "failing"]
        /\ UNCHANGED <<ns, owner>>
     \/ /\ owner' = "freed"
        /\ pc' = [pc EXCEPT ![a] = "forgetFailed"]
        /\ UNCHANGED ns
  /\ UNCHANGED <<policy, outcome, posted, redirects, reads, produced, control, recorded,
                 received, results, body, cleanup, late, reader>>

\* CallbackContext::read, after the call: the buffer is no longer ours, and an
\* error fails the request.
ForgetBuffer(a) ==
  /\ recorded' = FALSE
  /\ \/ pc[a] = "forget" /\ Leave(a)
     \/ Goto(a, "forgetFailed", "failing") /\ UNCHANGED gate
  /\ UNCHANGED <<policy, network, raw, done, cancelRequested, owner, received, results, body,
                 cleanup, late, reader>>

\* The chunk task sends when the channel has room, and fails the request when
\* the receiver is gone.
SendChunk(t) ==
  /\ \/ ReceiverGone /\ Goto(t, "sending", "failingTask") /\ UNCHANGED body
     \/ /\ ~ReceiverGone
        /\ Len(body) < Capacity
        /\ Goto(t, "sending", "resume")
        /\ body' = Append(body, "chunk")
  /\ UNCHANGED <<policy, network, control, buffer, received, results, cleanup, late, reader>>

\* Mutant: resume_read looks at the request and then lets the gate go.
ResumeUnlocked(t) ==
  /\ pc[t] = "resume"
  /\ gate = "free"
  /\ pc' = [pc EXCEPT ![t] = IF raw /\ ~done THEN "read" ELSE "idle"]
  /\ UNCHANGED <<policy, network, control, buffer, received, results, body, cleanup, late,
                 reader>>

\* resume_read takes the gate and keeps it while it reads.
Resume(t) ==
  /\ pc[t] = "resume"
  /\ gate = "free"
  /\ IF raw /\ ~done
       THEN gate' = t /\ pc' = [pc EXCEPT ![t] = "read"]
       ELSE UNCHANGED gate /\ pc' = [pc EXCEPT ![t] = "idle"]
  /\ UNCHANGED <<policy, network, raw, done, cancelRequested, buffer, received, results, body,
                 cleanup, late, reader>>

-----------------------------------------------------------------------------
(* The end of the request.                                                 *)

\* CallbackContext::terminal sets done.
OnTerminal ==
  /\ Goto("terminal", "run", "taking")
  /\ done' = TRUE
  /\ UNCHANGED <<policy, network, raw, cancelRequested, gate, buffer, received, results, body,
                 cleanup, late, reader>>

\* Mutant: the error is sent if there is room for it at once.
TryTakeError ==
  /\ pc["terminal"] = "taking"
  /\ requestError' = FALSE
  /\ headers' = IF headers = "empty" THEN "err" ELSE headers
  /\ pc' = [pc EXCEPT !["terminal"] = "signaling"]
  /\ body' = IF (requestError \/ outcome # "succeeded") /\ ~ReceiverGone /\ Len(body) < Capacity
                THEN Append(body, "err") ELSE body
  /\ UNCHANGED <<policy, network, control, buffer, received, terminalSent, finished, cleanup,
                 late, reader>>

\* The recorded error, or else the one Cronet reports, goes to a task that
\* sends it to the body channel, and to the headers channel if nothing went
\* there yet.
TakeError ==
  /\ pc["terminal"] = "taking"
  /\ requestError' = FALSE
  /\ headers' = IF headers = "empty" THEN "err" ELSE headers
  /\ pc' = [pc EXCEPT !["terminal"] = "signaling",
                      !["error"] = IF requestError \/ outcome # "succeeded"
                                     THEN "sending" ELSE "idle"]
  /\ UNCHANGED <<policy, network, control, buffer, received, terminalSent, finished, body,
                 cleanup, late, reader>>

\* terminal_sender.send(())
SignalTerminal ==
  /\ Goto("terminal", "signaling", "idle")
  /\ terminalSent' = TRUE
  /\ UNCHANGED <<policy, network, control, buffer, received, requestError, headers, finished,
                 body, cleanup, late, reader>>

\* The error task sends when the channel has room, or learns that the receiver
\* is gone.
SendError ==
  /\ Goto("error", "sending", "idle")
  /\ ReceiverGone \/ Len(body) < Capacity
  /\ body' = IF ReceiverGone THEN body ELSE Append(body, "err")
  /\ UNCHANGED <<policy, network, control, buffer, received, results, cleanup, late, reader>>

\* on_request_finished publishes the metrics.
OnRequestFinished ==
  /\ Goto("finished", "run", "idle")
  /\ finished' = TRUE
  /\ UNCHANGED <<policy, network, control, buffer, received, requestError, headers,
                 terminalSent, body, cleanup, late, reader>>

\* The cleanup task waits for the terminal callback, for the metrics and for
\* every lease, in this order.  A callback that has none is not waited for.
CleanupWait ==
  /\ \/ cleanup = "terminal" /\ terminalSent /\ cleanup' = "finished" /\ UNCHANGED late
     \/ cleanup = "finished" /\ finished /\ cleanup' = "callbacks" /\ UNCHANGED late
     \/ /\ cleanup = "callbacks"
        /\ \A c \in Callbacks : ~Leased(c)
        /\ late' = {c \in Callbacks : pc[c] \in {"entering", "enteringEmpty"}}
        /\ cleanup' = "destroy"
  /\ UNCHANGED <<policy, network, pc, control, buffer, received, results, body, reader>>

\* Mutant: NativeRequest::drop destroys the request without the gate.
DestroyUnlocked ==
  /\ cleanup = "destroy"
  /\ raw' = FALSE
  /\ cleanup' = "buffer"
  /\ UNCHANGED <<policy, network, pc, done, cancelRequested, gate, buffer, received, results,
                 body, reader, late>>

\* NativeRequest::drop: destroy_request under the gate, then the callback and
\* the listener.
Destroy ==
  /\ cleanup = "destroy"
  /\ gate = "free"
  /\ raw' = FALSE
  /\ cleanup' = "buffer"
  /\ UNCHANGED <<policy, network, pc, done, cancelRequested, gate, buffer, received, results,
                 body, reader, late>>

\* NativeRequest::drop destroys the buffer that is still recorded.
FreeBuffer ==
  /\ cleanup = "buffer"
  /\ cleanup' = "done"
  /\ owner' = IF recorded THEN "freed" ELSE owner
  /\ UNCHANGED <<policy, network, pc, control, recorded, received, results, body, reader, late>>

-----------------------------------------------------------------------------
(* The consumer and the holders of a RequestHandle.                        *)

\* PendingRequest::poll is ready.
AwaitHeaders ==
  /\ consumer = "pending"
  /\ \/ headers = "ok" /\ consumer' = "body"
     \/ headers = "err" /\ consumer' = "failed"
  /\ UNCHANGED <<policy, network, pc, control, buffer, received, results, body, cleanup, late,
                 delivered>>

\* next_chunk: a chunk, an error, or the end when every sender is gone.
NextChunk ==
  /\ consumer = "body"
  /\ \/ /\ body # <<>>
        /\ body' = Tail(body)
        /\ IF Head(body) = "chunk"
             THEN delivered' = delivered + 1 /\ UNCHANGED consumer
             ELSE consumer' = "errored" /\ UNCHANGED delivered
     \/ /\ body = <<>>
        /\ ContextGone
        /\ consumer' = "ended"
        /\ UNCHANGED <<body, delivered>>
  /\ UNCHANGED <<policy, network, pc, control, buffer, received, results, cleanup, late>>

\* Mutant: dropping the receiver is taken to be enough.
DropSilently ==
  /\ consumer \in {"pending", "body", "errored", "ended"}
  /\ consumer' = "dropping"
  /\ UNCHANGED <<policy, network, pc, control, buffer, received, results, body, cleanup, late,
                 delivered>>

\* PendingRequest::drop or ResponseBody::drop cancels a request that is not done.
DropConsumer ==
  /\ consumer \in {"pending", "body", "errored", "ended"}
  /\ consumer' = "dropping"
  /\ pc' = [pc EXCEPT !["drop"] = IF done THEN "idle" ELSE "cancel"]
  /\ UNCHANGED <<policy, network, control, buffer, received, results, body, cleanup, late,
                 delivered>>

\* Then its receivers are dropped.
DropReceivers ==
  /\ consumer = "dropping"
  /\ pc["drop"] = "idle"
  /\ consumer' = "dropped"
  /\ body' = <<>>
  /\ UNCHANGED <<policy, network, pc, control, buffer, received, results, cleanup, late,
                 delivered>>

\* A RequestHandle or an engine shutdown cancels; once is enough.
HandleCancel ==
  /\ ~cancelRequested
  /\ Goto("handle", "idle", "cancel")
  /\ UNCHANGED <<policy, network, control, buffer, received, results, body, cleanup, late,
                 reader>>

-----------------------------------------------------------------------------
\* What an actor's thread or task does by itself.
Step(a) ==
  \/ Lease(a) \/ CancelFlag(a) \/ CancelLock(a) \/ CancelCall(a) \/ RecordError(a)
  \/ FollowLock(a) \/ FollowCall(a) \/ Read(a) \/ ForgetBuffer(a)
  \/ a = "starter" /\ (Start \/ Recheck \/ SpawnCleanup)
  \/ a = "redirect" /\ OnRedirect
  \/ a = "headers" /\ OnResponseStarted
  \/ a \in ReadFrames /\ OnReadCompleted(a)
  \/ a = "terminal" /\ (OnTerminal \/ TakeError \/ SignalTerminal)
  \/ a = "finished" /\ OnRequestFinished
  \/ a \in ChunkTasks /\ (SendChunk(a) \/ Resume(a))
  \/ a = "error" /\ SendError
  \/ a = "decision" /\ AbortDecision

Cleanup == CleanupWait \/ Destroy \/ FreeBuffer

Run(c) == \E p \in posted : Invoke(p, c)

Next ==
  \/ Network
  \/ \E c \in Callbacks : Run(c)
  \/ \E a \in Actors : Step(a)
  \/ Decide
  \/ Cleanup
  \/ AwaitHeaders \/ NextChunk \/ DropConsumer \/ DropReceivers
  \/ HandleCancel

Spec == Init /\ [][Next]_vars

\* The runtime polls every task that can go on, and runs what the executor was
\* given.  Nothing obliges a server to answer, a redirect handler to decide, or
\* a consumer to read or to drop what it holds.  One of those that can go on
\* does: as no step can be taken for ever, this comes to all of them.
Fairness ==
  WF_vars(\/ \E a \in Actors : Step(a)
          \/ \E c \in Callbacks : Run(c)
          \/ Cleanup
          \/ DropReceivers)

FairSpec == Spec /\ Fairness

-----------------------------------------------------------------------------
(* Properties.                                                             *)

Places == {"idle", "created", "started", "spawning", "entering", "enteringEmpty", "run",
           "runEmpty", "cancel", "cancelLock", "nativeCancel", "failing", "failingTask",
           "deciding", "followLock", "followCall", "read", "forget", "forgetFailed", "sending",
           "resume", "taking", "signaling"}

\* Type invariant: the range of every variable; the body channel never holds
\* more than body_channel_capacity items, nor the body more than
\* max_response_bytes.
TypeOK ==
  /\ policy \in Policies \cup {"unset"}
  /\ ns \in {"unstarted", "network", "awaitFollow", "awaitRead", "reading"}
  /\ outcome \in {"none", "succeeded", "failed", "canceled"}
  /\ posted \subseteq Terminal \cup {"redirect", "headers", "chunk", "empty"}
  /\ redirects \in 0..MaxRounds
  /\ reads \in 0..MaxRounds
  /\ produced \in 0..MaxRounds
  /\ pc \in [Actors -> Places]
  /\ {raw, done, cancelRequested, recorded, requestError, terminalSent, finished}
       \subseteq BOOLEAN
  /\ gate \in Actors \cup {"free"}
  /\ owner \in {"none", "app", "native", "freed"}
  /\ received \in 0..MaxBytes
  /\ headers \in {"empty", "ok", "err"}
  /\ body \in Seq({"chunk", "err"}) /\ Len(body) <= Capacity
  /\ cleanup \in {"none", "terminal", "finished", "callbacks", "destroy", "buffer", "done"}
  /\ late \subseteq Callbacks
  /\ consumer \in {"none", "pending", "body", "errored", "ended", "failed", "dropping",
                   "dropped"}
  /\ delivered \in Nat

\* About to use the native request.
InNative(a) == pc[a] \in {"nativeCancel", "followCall", "read"}

\* No call is made on a native request that was destroyed: cancel(),
\* follow_redirect and resume_read are kept out by the gate (request.rs:774
\* "gate prevents concurrent native destruction"), the callbacks by their
\* leases.  The exception are callbacks that the cleanup task could not see.
NativeCallsOnLive == ~raw => \A a \in Actors : InNative(a) => a \in late

\* The buffer is used only while it is the app's: a read is given a buffer that
\* Cronet does not hold and nobody freed, and NativeRequest::drop frees no
\* other (request.rs:1053 "terminal completion returned buffer ownership to
\* app"), however the callbacks, the chunk task and the cleanup are ordered.
\* The exception, again, is what callbacks do that the cleanup task could not see.
BufferUsedOnlyIfOwned ==
  /\ \A a \in Actors : pc[a] = "read" => owner = "app" \/ a \in late
  /\ cleanup = "buffer" /\ recorded => owner = "app" \/ late # {}

\* Back-pressure (README.md:145): Cronet reads ahead of the body channel by one
\* buffer, never while a chunk still waits to enter the channel.
Backpressure ==
  ns = "reading" /\ outcome = "none" => \A t \in ChunkTasks : pc[t] # "sending"

\* A body that ends without an error is the whole body of a successful
\* request: no failure, cancellation or lost chunk looks like an end of file.
CleanEndMeansComplete ==
  consumer = "ended" => outcome = "succeeded" /\ delivered = produced

\* A worker that Cronet has let into a callback finds the callback object alive
\* (request.rs:1273 "callback is our live native object").  It may not: until
\* it takes its lease nothing makes the cleanup task wait for it.
CallbackObjectsOutlived ==
  cleanup \in {"buffer", "done"} =>
    \A c \in Callbacks : pc[c] \notin {"entering", "enteringEmpty"}

\* Nothing of the request is left: native objects, callbacks or tasks.
Quiescent == cleanup = "done" /\ \A a \in Actors : pc[a] = "idle"

\* Dropping a pending request or a body ends the request and every task of it
\* (README.md:116 "Dropping a pending request or response body cancels its
\* native request"), even one that waits for a redirect handler or for room in
\* the channel.
AbandonedRequestEnded == consumer = "dropped" => Quiescent

\* The native objects of an ended request are released whether or not the
\* consumer reads: no callback waits for room in the body channel.
EndedRequestReleased == outcome # "none" => cleanup = "done"

\* A request lets go of everything in the end: when it has ended, and when nobody
\* wants it any more.
RequestSettles == <>[](AbandonedRequestEnded /\ EndedRequestReleased)
=============================================================================
