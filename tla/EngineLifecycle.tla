-------------------------- MODULE EngineLifecycle --------------------------
(***************************************************************************)
(* The life of one Engine: who may use the native engine, how a shutdown   *)
(* drains its users, and who destroys it (tokio-cronet/src/engine.rs).     *)
(*                                                                         *)
(* Actors: operations (begin_operation ... drop of EngineOperation), here  *)
(* either a request, whose start is in request.rs, or a stop_net_log call; *)
(* direct calls (with_native); tasks that call Engine::shutdown; the       *)
(* native engine, which ends requests and calls the engine's               *)
(* request-finished listener on executor workers; and the thread that      *)
(* drops the last Engine.  One action is one critical section, one atomic  *)
(* access or one native call of one actor.                                 *)
(***************************************************************************)
EXTENDS Naturals, FiniteSets

CONSTANTS
  Ops,         \* operations, each run at most once
  Directs,     \* calls made through with_native, each run at most once
  Callers,     \* tasks that call Engine::shutdown, each at most once
  NoOp,        \* stands for "no operation"
  NoCaller,    \* stands for "no caller"
  FutureDrops, \* may a task drop the future of shutdown() at an await?
  SpawnFails   \* may std::thread::Builder::spawn fail in EngineInner::drop?

ASSUME EngineAssumption ==
  /\ IsFiniteSet(Ops)
  /\ NoOp \notin Ops
  /\ NoCaller \notin Callers
  /\ Ops \cap Directs = {}
  /\ FutureDrops \in BOOLEAN
  /\ SpawnFails \in BOOLEAN

VARIABLES
  closing,         \* EngineInner::closing
  native,          \* EngineInner::native is Some
  active,          \* EngineInner::active
  controls,        \* operations whose control is in EngineInner::controls
  annotations,     \* requests whose tracking annotation is registered
  pending,         \* EngineFinishedContext::pending
  op,              \* progress of each operation
  cancelRequested, \* RequestControl::cancel_requested
  net,             \* the native request: "unstarted", "running", "ended"
  nativeCanceled,  \* requests that got a native Cancel while running
  fin,             \* the engine listener's callback for each request
  direct,          \* progress of each direct call
  pc,              \* progress of each shutdown() call
  toCancel,        \* controls a shutdown() call has yet to cancel
  flagged,         \* the control whose cancel() is between its two steps
  idleWaiters,     \* callers with a live Notified of EngineInner::idle
  pendingWaiters,  \* callers with a live Notified of EngineFinishedContext::idle
  once,            \* shutdown_result: "empty", "ok" or "err"
  holder,          \* the caller that runs shutdown_result's initialiser
  result,          \* what each shutdown() call returned
  job,             \* NativeEngine::shutdown on its thread
  handle           \* some Engine handle is alive

opVars == <<op, cancelRequested, net, nativeCanceled, fin>>
inner == <<closing, native, active, controls, annotations, pending>>
callVars == <<pc, toCancel, flagged, once, holder, result>>
waiters == <<idleWaiters, pendingWaiters>>
vars == <<inner, opVars, direct, callVars, waiters, job, handle>>

-----------------------------------------------------------------------------
(* Where an operation stands.  A request goes admitted, registered,        *)
(* annotated, counted, started, running, releasing, notifying, released.   *)

\* Inside start_request or stop_net_log, which borrow the Engine.
Starting == {"admitting", "admitted", "registered", "annotated", "counted",
             "aborting", "aborted", "started"}

\* An EngineOperation exists and its Drop has not decremented `active`.
Holding == (Starting \ {"admitting"}) \cup {"running", "blocking", "releasing"}

OpStates == Starting \cup Holding \cup {"idle", "notifying", "released", "rejected"}

Holders == {o \in Ops : op[o] \in Holding}

\* Requests that begin_request counted and finish_one has not yet uncounted.
Counted == {o \in Ops : \/ op[o] \in {"counted", "aborting", "aborted"}
                        \/ net[o] # "unstarted" /\ fin[o] # "done"}

\* The native mutex is free: only a direct call holds it across a native call.
NativeUnlocked == \A d \in Directs : direct[d] # "calling"

SetOp(o, from, to) == op[o] = from /\ op' = [op EXCEPT ![o] = to]
SetPc(s, from, to) == pc[s] = from /\ pc' = [pc EXCEPT ![s] = to]

Init ==
  /\ closing = FALSE
  /\ native = TRUE
  /\ active = 0
  /\ controls = {}
  /\ annotations = {}
  /\ pending = 0
  /\ op = [o \in Ops |-> "idle"]
  /\ cancelRequested = {}
  /\ net = [o \in Ops |-> "unstarted"]
  /\ nativeCanceled = {}
  /\ fin = [o \in Ops |-> "none"]
  /\ direct = [d \in Directs |-> "idle"]
  /\ pc = [s \in Callers |-> "idle"]
  /\ toCancel = [s \in Callers |-> {}]
  /\ flagged = [s \in Callers |-> NoOp]
  /\ idleWaiters = {}
  /\ pendingWaiters = {}
  /\ once = "empty"
  /\ holder = NoCaller
  /\ result = [s \in Callers |-> "none"]
  /\ job = "none"
  /\ handle = TRUE

-----------------------------------------------------------------------------
(* Operations.                                                             *)

\* begin_operation up to the first, unlocked look at `closing`.
BeginOperation(o) ==
  /\ handle
  /\ op[o] = "idle"
  /\ op' = [op EXCEPT ![o] = IF closing THEN "rejected" ELSE "admitting"]
  /\ UNCHANGED <<inner, cancelRequested, net, nativeCanceled, fin, direct, callVars,
                 waiters, job, handle>>

\* Mutant: begin_operation trusts its first look at `closing`.
AdmitUnchecked(o) ==
  /\ op[o] = "admitting"
  /\ NativeUnlocked
  /\ IF ~native
       THEN op' = [op EXCEPT ![o] = "rejected"] /\ UNCHANGED active
       ELSE op' = [op EXCEPT ![o] = "admitted"] /\ active' = active + 1
  /\ UNCHANGED <<closing, native, controls, annotations, pending, cancelRequested, net,
                 nativeCanceled, fin, direct, callVars, waiters, job, handle>>

\* begin_operation under the native mutex: look again, then count.
Admit(o) ==
  /\ op[o] = "admitting"
  /\ NativeUnlocked
  /\ IF closing \/ ~native
       THEN op' = [op EXCEPT ![o] = "rejected"] /\ UNCHANGED active
       ELSE op' = [op EXCEPT ![o] = "admitted"] /\ active' = active + 1
  /\ UNCHANGED <<closing, native, controls, annotations, pending, cancelRequested, net,
                 nativeCanceled, fin, direct, callVars, waiters, job, handle>>

\* register: push the control and look at `closing` under the controls mutex.
\* A closing engine cancels the control; its native request is not started
\* yet, so start_request just fails and drops what it built.
Register(o) ==
  /\ controls' = controls \cup {o}
  /\ IF closing
       THEN /\ SetOp(o, "admitted", "releasing")
            /\ cancelRequested' = cancelRequested \cup {o}
       ELSE /\ SetOp(o, "admitted", "registered")
            /\ UNCHANGED cancelRequested
  /\ UNCHANGED <<closing, native, active, annotations, pending, net, nativeCanceled, fin,
                 direct, callVars, waiters, job, handle>>

\* Mutant: the early return releases the operation, and then its drop does.
ReleaseOnFailure(o) ==
  /\ SetOp(o, "registered", "releasing")
  /\ active' = active - 1
  /\ UNCHANGED <<closing, native, controls, annotations, pending, cancelRequested, net,
                 nativeCanceled, fin, direct, callVars, waiters, job, handle>>

\* start_request returns early: NativeRequest::new fails, before the control is
\* registered, or a header, the upload or InitWithParams, after that.
InitFails(o) ==
  /\ SetOp(o, "admitted", "releasing") \/ SetOp(o, "registered", "releasing")
  /\ UNCHANGED <<inner, cancelRequested, net, nativeCanceled, fin, direct, callVars,
                 waiters, job, handle>>

\* begin_request, first mutex: register the tracking annotation.
RegisterAnnotations(o) ==
  /\ SetOp(o, "registered", "annotated")
  /\ annotations' = annotations \cup {o}
  /\ UNCHANGED <<closing, native, active, controls, pending, cancelRequested, net,
                 nativeCanceled, fin, direct, callVars, waiters, job, handle>>

\* begin_request, second mutex: count the request as pending.
CountPending(o) ==
  /\ SetOp(o, "annotated", "counted")
  /\ pending' = pending + 1
  /\ UNCHANGED <<closing, native, active, controls, annotations, cancelRequested, net,
                 nativeCanceled, fin, direct, callVars, waiters, job, handle>>

Start(o) ==
  /\ SetOp(o, "counted", "started")
  /\ net' = [net EXCEPT ![o] = "running"]
  /\ UNCHANGED <<inner, cancelRequested, nativeCanceled, fin, direct, callVars,
                 waiters, job, handle>>

StartFails(o) ==
  /\ SetOp(o, "counted", "aborting")
  /\ UNCHANGED <<inner, cancelRequested, net, nativeCanceled, fin, direct, callVars,
                 waiters, job, handle>>

\* abort_request, first mutex.
AbortAnnotations(o) ==
  /\ SetOp(o, "aborting", "aborted")
  /\ annotations' = annotations \ {o}
  /\ UNCHANGED <<closing, native, active, controls, pending, cancelRequested, net,
                 nativeCanceled, fin, direct, callVars, waiters, job, handle>>

\* finish_one: saturating decrement, and at zero wake every waiter, all under
\* the pending mutex.
FinishOne ==
  /\ pending' = IF pending = 0 THEN 0 ELSE pending - 1
  /\ pendingWaiters' = IF pending = 1 THEN {} ELSE pendingWaiters

\* Mutant: a failed Start forgets to uncount the request.
AbortForgets(o) ==
  /\ SetOp(o, "aborted", "releasing")
  /\ UNCHANGED <<inner, cancelRequested, net, nativeCanceled, fin, direct, callVars,
                 waiters, job, handle>>

AbortFinish(o) ==
  /\ SetOp(o, "aborted", "releasing")
  /\ FinishOne
  /\ UNCHANGED <<closing, native, active, controls, annotations, cancelRequested, net,
                 nativeCanceled, fin, direct, callVars, idleWaiters, job, handle>>

\* The native half of RequestControl::cancel.  Cronet ignores a Cancel that
\* comes before Start or after the end.
NativeCancel(o) ==
  nativeCanceled' = IF net[o] = "running" THEN nativeCanceled \cup {o} ELSE nativeCanceled

\* Mutant: start_request does not look at cancel_requested after Start.
NoRecheck(o) ==
  /\ SetOp(o, "started", "running")
  /\ UNCHANGED <<inner, cancelRequested, net, nativeCanceled, fin, direct, callVars,
                 waiters, job, handle>>

\* start_request looks at cancel_requested again once Start has returned.
RecheckCancel(o) ==
  /\ SetOp(o, "started", "running")
  /\ IF o \in cancelRequested THEN NativeCancel(o) ELSE UNCHANGED nativeCanceled
  /\ UNCHANGED <<inner, cancelRequested, net, fin, direct, callVars, waiters, job, handle>>

\* The native request ends: success, failure or cancellation.
NetEnds(o) ==
  /\ net[o] = "running"
  /\ net' = [net EXCEPT ![o] = "ended"]
  /\ fin' = [fin EXCEPT ![o] = "due"]
  /\ UNCHANGED <<inner, op, cancelRequested, nativeCanceled, direct, callVars, waiters,
                 job, handle>>

\* on_finished, annotations mutex: a callback whose tracking annotation is
\* not registered is ignored.
OnFinished(o) ==
  /\ fin[o] = "due"
  /\ fin' = [fin EXCEPT ![o] = IF o \in annotations THEN "taken" ELSE "ignored"]
  /\ annotations' = annotations \ {o}
  /\ UNCHANGED <<closing, native, active, controls, pending, op, cancelRequested, net,
                 nativeCanceled, direct, callVars, waiters, job, handle>>

\* on_finished, after the event was sent.
OnFinishedCount(o) ==
  /\ fin[o] = "taken"
  /\ fin' = [fin EXCEPT ![o] = "done"]
  /\ FinishOne
  /\ UNCHANGED <<closing, native, active, controls, annotations, op, cancelRequested, net,
                 nativeCanceled, direct, callVars, idleWaiters, job, handle>>

\* The cleanup task of an ended request drops it, and its operation with it.
Cleanup(o) ==
  /\ net[o] = "ended"
  /\ SetOp(o, "running", "releasing")
  /\ UNCHANGED <<inner, cancelRequested, net, nativeCanceled, fin, direct, callVars,
                 waiters, job, handle>>

\* stop_net_log moves its operation to a blocking thread and drops it there
\* after the native call.
StopNetLog(o) ==
  /\ \/ SetOp(o, "admitted", "blocking")
     \/ SetOp(o, "blocking", "releasing")
  /\ UNCHANGED <<inner, cancelRequested, net, nativeCanceled, fin, direct, callVars,
                 waiters, job, handle>>

\* EngineOperation::drop, the fetch_sub.
Release(o) ==
  /\ op[o] = "releasing"
  /\ active' = active - 1
  /\ op' = [op EXCEPT ![o] = IF active = 1 THEN "notifying" ELSE "released"]
  /\ UNCHANGED <<closing, native, controls, annotations, pending, cancelRequested, net,
                 nativeCanceled, fin, direct, callVars, waiters, job, handle>>

\* EngineOperation::drop, notify_waiters.
NotifyIdle(o) ==
  /\ SetOp(o, "notifying", "released")
  /\ idleWaiters' = {}
  /\ UNCHANGED <<inner, cancelRequested, net, nativeCanceled, fin, direct, callVars,
                 pendingWaiters, job, handle>>

-----------------------------------------------------------------------------
(* Direct calls: with_native looks at `closing`, takes the native mutex,   *)
(* looks again, and keeps the mutex for the whole native call.             *)

DirectBegin(d) ==
  /\ handle
  /\ direct[d] = "idle"
  /\ direct' = [direct EXCEPT ![d] = IF closing THEN "refused" ELSE "checked"]
  /\ UNCHANGED <<inner, opVars, callVars, waiters, job, handle>>

\* Mutant: with_native trusts its first look at `closing`.
DirectUnchecked(d) ==
  /\ direct[d] = "checked"
  /\ NativeUnlocked
  /\ direct' = [direct EXCEPT ![d] = IF native THEN "calling" ELSE "refused"]
  /\ UNCHANGED <<inner, opVars, callVars, waiters, job, handle>>

DirectLock(d) ==
  /\ direct[d] = "checked"
  /\ NativeUnlocked
  /\ direct' = [direct EXCEPT ![d] = IF closing \/ ~native THEN "refused" ELSE "calling"]
  /\ UNCHANGED <<inner, opVars, callVars, waiters, job, handle>>

DirectEnd(d) ==
  /\ direct[d] = "calling"
  /\ direct' = [direct EXCEPT ![d] = "done"]
  /\ UNCHANGED <<inner, opVars, callVars, waiters, job, handle>>

-----------------------------------------------------------------------------
(* EngineInner::shutdown.                                                  *)

\* The admission boundary: `closing` is set under the native mutex.
Close(s) ==
  /\ handle
  /\ SetPc(s, "idle", "closed")
  /\ NativeUnlocked
  /\ closing' = TRUE
  /\ UNCHANGED <<native, active, controls, annotations, pending, opVars, direct, toCancel,
                 flagged, once, holder, result, waiters, job, handle>>

\* Upgrade every registered control under the controls mutex.
Snapshot(s) ==
  /\ SetPc(s, "closed", "canceling")
  /\ toCancel' = [toCancel EXCEPT ![s] = controls]
  /\ UNCHANGED <<inner, opVars, direct, flagged, once, holder, result, waiters, job, handle>>

\* RequestControl::cancel, first step: store cancel_requested.
CancelFlag(s) ==
  /\ pc[s] = "canceling"
  /\ flagged[s] = NoOp
  /\ \E o \in toCancel[s] :
       /\ cancelRequested' = cancelRequested \cup {o}
       /\ flagged' = [flagged EXCEPT ![s] = o]
       /\ toCancel' = [toCancel EXCEPT ![s] = @ \ {o}]
  /\ UNCHANGED <<inner, op, net, nativeCanceled, fin, direct, pc, once, holder, result,
                 waiters, job, handle>>

\* RequestControl::cancel, second step: the native call under the gate.
CancelNative(s) ==
  /\ flagged[s] # NoOp
  /\ NativeCancel(flagged[s])
  /\ flagged' = [flagged EXCEPT ![s] = NoOp]
  /\ UNCHANGED <<inner, op, cancelRequested, net, fin, direct, pc, toCancel, once, holder,
                 result, waiters, job, handle>>

AllCanceled(s) ==
  /\ toCancel[s] = {}
  /\ flagged[s] = NoOp
  /\ SetPc(s, "canceling", "once")
  /\ UNCHANGED <<inner, opVars, direct, toCancel, flagged, once, holder, result, waiters,
                 job, handle>>

Return(s, value) ==
  /\ pc' = [pc EXCEPT ![s] = "returned"]
  /\ result' = [result EXCEPT ![s] = value]

\* OnceCell::get_or_init: the stored result, or the turn to initialise it.
GetOrInit(s) ==
  /\ pc[s] = "once"
  /\ \/ once # "empty" /\ Return(s, once) /\ UNCHANGED holder
     \/ /\ once = "empty"
        /\ holder = NoCaller
        /\ holder' = s
        /\ pc' = [pc EXCEPT ![s] = "loadActive"]
        /\ UNCHANGED result
  /\ UNCHANGED <<inner, opVars, direct, toCancel, flagged, once, waiters, job, handle>>

\* while active != 0
LoadActive(s) ==
  /\ \/ active = 0 /\ SetPc(s, "loadActive", "armPending")
     \/ active # 0 /\ SetPc(s, "loadActive", "armActive")
  /\ UNCHANGED <<inner, opVars, direct, toCancel, flagged, once, holder, result, waiters,
                 job, handle>>

\* Mutant: the count is not read again once the Notified exists.
ParkUnchecked(s) ==
  /\ SetPc(s, "armActive", "parkedActive")
  /\ idleWaiters' = idleWaiters \cup {s}
  /\ UNCHANGED <<inner, opVars, direct, toCancel, flagged, once, holder, result,
                 pendingWaiters, job, handle>>

\* idle.notified(), which receives notify_waiters from here on
ArmActive(s) ==
  /\ SetPc(s, "armActive", "reloadActive")
  /\ idleWaiters' = idleWaiters \cup {s}
  /\ UNCHANGED <<inner, opVars, direct, toCancel, flagged, once, holder, result,
                 pendingWaiters, job, handle>>

\* if active != 0 { await } else drop the Notified and go round
ReloadActive(s) ==
  /\ \/ /\ active # 0
        /\ SetPc(s, "reloadActive", "parkedActive")
        /\ UNCHANGED idleWaiters
     \/ /\ active = 0
        /\ SetPc(s, "reloadActive", "loadActive")
        /\ idleWaiters' = idleWaiters \ {s}
  /\ UNCHANGED <<inner, opVars, direct, toCancel, flagged, once, holder, result,
                 pendingWaiters, job, handle>>

WakeActive(s) ==
  /\ s \notin idleWaiters
  /\ SetPc(s, "parkedActive", "loadActive")
  /\ UNCHANGED <<inner, opVars, direct, toCancel, flagged, once, holder, result, waiters,
                 job, handle>>

\* wait_idle: the Notified is created before the count is read.
ArmPending(s) ==
  /\ SetPc(s, "armPending", "loadPending")
  /\ pendingWaiters' = pendingWaiters \cup {s}
  /\ UNCHANGED <<inner, opVars, direct, toCancel, flagged, once, holder, result,
                 idleWaiters, job, handle>>

LoadPending(s) ==
  /\ \/ /\ pending = 0
        /\ SetPc(s, "loadPending", "take")
        /\ pendingWaiters' = pendingWaiters \ {s}
     \/ /\ pending # 0
        /\ SetPc(s, "loadPending", "parkedPending")
        /\ UNCHANGED pendingWaiters
  /\ UNCHANGED <<inner, opVars, direct, toCancel, flagged, once, holder, result,
                 idleWaiters, job, handle>>

WakePending(s) ==
  /\ s \notin pendingWaiters
  /\ SetPc(s, "parkedPending", "armPending")
  /\ UNCHANGED <<inner, opVars, direct, toCancel, flagged, once, holder, result, waiters,
                 job, handle>>

\* Take the native engine; one that is gone already counts as shut down.
TakeNative(s) ==
  /\ pc[s] = "take"
  /\ NativeUnlocked
  /\ native' = FALSE
  /\ IF native
       THEN /\ job' = "queued"
            /\ pc' = [pc EXCEPT ![s] = "joining"]
            /\ UNCHANGED <<once, holder, result>>
       ELSE /\ once' = "ok"
            /\ holder' = NoCaller
            /\ Return(s, "ok")
            /\ UNCHANGED job
  /\ UNCHANGED <<closing, active, controls, annotations, pending, opVars, direct, toCancel,
                 flagged, waiters, handle>>

\* Mutant: the error of the native shutdown is not propagated.
JoinIgnoringError(s) ==
  /\ pc[s] = "joining"
  /\ job \in {"ok", "err"}
  /\ once' = "ok"
  /\ holder' = NoCaller
  /\ Return(s, "ok")
  /\ UNCHANGED <<inner, opVars, direct, toCancel, flagged, waiters, job, handle>>

\* The JoinHandle of spawn_blocking is ready: store its result and return it.
Join(s) ==
  /\ pc[s] = "joining"
  /\ job \in {"ok", "err"}
  /\ once' = job
  /\ holder' = NoCaller
  /\ Return(s, job)
  /\ UNCHANGED <<inner, opVars, direct, toCancel, flagged, waiters, job, handle>>

\* A task drops the future of shutdown() at one of its awaits.  Dropping the
\* initialiser frees the OnceCell for the next caller; the job goes on.
DropFuture(s) ==
  /\ FutureDrops
  /\ pc[s] \in {"once", "parkedActive", "parkedPending", "joining"}
  /\ pc' = [pc EXCEPT ![s] = "dropped"]
  /\ holder' = IF holder = s THEN NoCaller ELSE holder
  /\ idleWaiters' = idleWaiters \ {s}
  /\ pendingWaiters' = pendingWaiters \ {s}
  /\ UNCHANGED <<inner, opVars, direct, toCancel, flagged, once, result, job, handle>>

-----------------------------------------------------------------------------
(* NativeEngine::shutdown on its own thread.                               *)

\* Unregister and destroy the request-finished listener.
JobUnregister ==
  /\ job = "queued"
  /\ job' = "unregistered"
  /\ UNCHANGED <<inner, opVars, direct, callVars, waiters, handle>>

\* Cronet_Engine_Shutdown: on success the engine is destroyed, on failure it
\* and its executor are leaked.
JobShutdown ==
  /\ job = "unregistered"
  /\ job' \in {"ok", "err"}
  /\ UNCHANGED <<inner, opVars, direct, callVars, waiters, handle>>

-----------------------------------------------------------------------------
(* Dropping the last Engine.                                               *)

\* No call borrows the Engine any more and its owner drops it.
DropHandle ==
  /\ handle
  /\ \A o \in Ops : op[o] \notin Starting
  /\ \A d \in Directs : direct[d] \notin {"checked", "calling"}
  /\ \A s \in Callers : pc[s] \in {"idle", "returned", "dropped"}
  /\ handle' = FALSE
  /\ UNCHANGED <<inner, opVars, direct, callVars, waiters, job>>

\* EngineInner::drop, when no operation holds it: take the native engine and
\* let a thread wait for the pending callbacks.  When the thread cannot be
\* spawned its closure is dropped at once: the engine and its executor leak and
\* the listener goes with NativeEngine.
DropInner ==
  /\ ~handle
  /\ native
  /\ \A o \in Ops : op[o] \notin Holding \cup {"notifying"}
  /\ native' = FALSE
  /\ job' \in IF SpawnFails THEN {"waiting", "unspawned"} ELSE {"waiting"}
  /\ UNCHANGED <<closing, active, controls, annotations, pending, opVars, direct, callVars,
                 waiters, handle>>

\* Mutant: the thread does not wait for the pending callbacks.
NoWaitBlocking ==
  /\ job = "waiting"
  /\ job' = "queued"
  /\ UNCHANGED <<inner, opVars, direct, callVars, waiters, handle>>

\* wait_idle_blocking: the condition variable is tested under its mutex.
WaitIdleBlocking ==
  /\ job = "waiting"
  /\ pending = 0
  /\ job' = "queued"
  /\ UNCHANGED <<inner, opVars, direct, callVars, waiters, handle>>

\* A user cancels a request through its PendingRequest, body or handle.
UserCancel(o) ==
  /\ op[o] = "running"
  /\ o \notin cancelRequested
  /\ cancelRequested' = cancelRequested \cup {o}
  /\ NativeCancel(o)
  /\ UNCHANGED <<inner, op, net, fin, direct, callVars, waiters, job, handle>>

-----------------------------------------------------------------------------
\* What the thread that runs the operation does by itself.
OpStep(o) ==
  \/ Admit(o) \/ Register(o) \/ InitFails(o) \/ RegisterAnnotations(o)
  \/ CountPending(o) \/ Start(o) \/ StartFails(o) \/ AbortAnnotations(o)
  \/ AbortFinish(o) \/ RecheckCancel(o) \/ Cleanup(o) \/ StopNetLog(o)
  \/ Release(o) \/ NotifyIdle(o)

\* What the executor's workers do for the engine listener.
ListenerStep(o) == OnFinished(o) \/ OnFinishedCount(o)

DirectStep(d) == DirectLock(d) \/ DirectEnd(d)

\* What a task does once it has begun to poll shutdown().
ShutdownStep(s) ==
  \/ Snapshot(s) \/ CancelFlag(s) \/ CancelNative(s) \/ AllCanceled(s)
  \/ GetOrInit(s) \/ LoadActive(s) \/ ArmActive(s) \/ ReloadActive(s)
  \/ WakeActive(s) \/ ArmPending(s) \/ LoadPending(s) \/ WakePending(s)
  \/ TakeNative(s) \/ Join(s)

JobStep == WaitIdleBlocking \/ JobUnregister \/ JobShutdown

Next ==
  \/ \E o \in Ops : \/ BeginOperation(o) \/ OpStep(o) \/ ListenerStep(o)
                    \/ NetEnds(o) \/ UserCancel(o)
  \/ \E d \in Directs : DirectBegin(d) \/ DirectStep(d)
  \/ \E s \in Callers : Close(s) \/ ShutdownStep(s) \/ DropFuture(s)
  \/ JobStep
  \/ DropHandle
  \/ DropInner

Spec == Init /\ [][Next]_vars

\* Threads and tasks that can go on do; a native request ends once it was
\* canceled; every callback Cronet owes is delivered.  Nothing obliges a user
\* to call anything, nor a server to answer.
Fairness ==
  /\ \A o \in Ops : /\ WF_vars(OpStep(o))
                    /\ WF_vars(ListenerStep(o))
                    /\ WF_vars(o \in nativeCanceled /\ NetEnds(o))
  /\ \A d \in Directs : WF_vars(DirectStep(d))
  /\ \A s \in Callers : WF_vars(ShutdownStep(s))
  /\ WF_vars(JobStep)

FairSpec == Spec /\ Fairness

-----------------------------------------------------------------------------
(* Properties.                                                             *)

CallStates == {"idle", "closed", "canceling", "once", "loadActive", "armActive",
               "reloadActive", "parkedActive", "armPending", "loadPending",
               "parkedPending", "take", "joining", "returned", "dropped"}

\* Type invariant: the range of every variable.
TypeOK ==
  /\ closing \in BOOLEAN
  /\ native \in BOOLEAN
  /\ handle \in BOOLEAN
  /\ active \in Nat
  /\ pending \in Nat
  /\ controls \subseteq Ops
  /\ annotations \subseteq Ops
  /\ op \in [Ops -> OpStates]
  /\ cancelRequested \subseteq Ops
  /\ net \in [Ops -> {"unstarted", "running", "ended"}]
  /\ nativeCanceled \subseteq Ops
  /\ fin \in [Ops -> {"none", "due", "taken", "ignored", "done"}]
  /\ direct \in [Directs -> {"idle", "checked", "calling", "done", "refused"}]
  /\ pc \in [Callers -> CallStates]
  /\ toCancel \in [Callers -> SUBSET Ops]
  /\ flagged \in [Callers -> Ops \cup {NoOp}]
  /\ idleWaiters \subseteq Callers
  /\ pendingWaiters \subseteq Callers
  /\ once \in {"empty", "ok", "err"}
  /\ holder \in Callers \cup {NoCaller}
  /\ result \in [Callers -> {"none", "ok", "err"}]
  /\ job \in {"none", "waiting", "queued", "unregistered", "ok", "err", "unspawned"}

\* The native engine is being torn down, or is gone.
Down == job \in {"unregistered", "ok", "err", "unspawned"}

\* Who is inside the native engine: operations and direct calls.
Users == Holders \cup {d \in Directs : direct[d] = "calling"}

\* The two counters that a shutdown waits on count exactly the live operations
\* and the requests whose engine callback is owed (begin_operation,
\* EngineOperation::drop, begin_request, abort_request, finish_one): on no path
\* is a count lost, doubled or swallowed by the saturating decrement.
AccountsAreExact ==
  /\ active = Cardinality(Holders)
  /\ pending = Cardinality(Counted)

\* The native engine is not torn down under an operation or a direct call
\* (engine.rs:893 "EngineInner waits for all operations before shutdown").
DestroyOnlyWhenUnused == Down => Users = {}

\* The engine's request-finished listener is not destroyed while a callback to
\* it is owed or running (engine.rs:804 "removed only after all tracked
\* callbacks have begun"), unless the thread that should wait for the callbacks
\* could not be spawned.
ListenerOutlivesCallbacks ==
  Down /\ job # "unspawned" => \A o \in Ops : fin[o] \notin {"due", "taken"}

\* Once a shutdown() call has gone past its cancel loop, no request that was
\* started runs uncanceled, however its start was interleaved with the loop:
\* register, the snapshot and the re-check after Start leave no gap.
CancelReachesEveryRequest ==
  \A s \in Callers, o \in Ops :
    /\ pc[s] \notin {"idle", "closed", "canceling"}
    /\ op[o] = "running"
    /\ net[o] = "running"
    => o \in nativeCanceled

\* A shutdown() that returns Ok has shut the native engine down
\* (engine.rs:462 "Cancels active requests, waits for terminal callbacks, and
\* shuts down").  It does not: a caller whose future is dropped while the
\* native shutdown runs leaves the OnceCell empty and `native` None, and the
\* next caller returns Ok at once.
ShutdownOkMeansDestroyed == \A s \in Callers : result[s] = "ok" => job = "ok"

\* The same, as long as every future of shutdown() is polled to the end: no
\* caller overtakes the one that runs the initialiser, and all of them get the
\* result of the native shutdown.
UndroppedShutdownIsHonest ==
  (\A s \in Callers : pc[s] # "dropped") => ShutdownOkMeansDestroyed

\* What the engine promises its users (module EngineContract).
Contract == INSTANCE EngineContract WITH
  Clients <- Ops \cup Directs,
  phase <- IF Down THEN "down" ELSE IF closing THEN "draining" ELSE "open",
  users <- Users

\* The engine implements its contract: users enter while it is open only, and
\* it goes down only when they have all left.
ImplementsContract == Contract!Spec

\* Every shutdown() that is polled to the end returns, whoever else drops its
\* own: neither the wait for operations nor the wait for callbacks loses its
\* wake-up, and a dropped initialiser hands its turn on.
ShutdownCompletes ==
  \A s \in Callers : pc[s] = "closed" ~> pc[s] \in {"returned", "dropped"}
=============================================================================
