----------------------- MODULE EngineLifecycle_proofs -----------------------
(***************************************************************************)
(* Proofs about EngineLifecycle, for any finite set of operations and any  *)
(* number of callers and direct calls.  The argument: the two counters     *)
(* count exactly the live operations and the owed callbacks                *)
(* (AccountsAreExact); hence a shutdown that has read active = 0 has no    *)
(* user left, and admits none since `closing` is set (DrainInv); hence the *)
(* native engine is taken only from nobody.                                *)
(***************************************************************************)
EXTENDS EngineLifecycle, FiniteSetTheorems, TLAPS

-----------------------------------------------------------------------------
(* Type correctness.                                                       *)

LEMMA TypeInit == Init => TypeOK
<1> USE EngineAssumption DEF EngineAssumption
<1> SUFFICES ASSUME Init PROVE TypeOK
  OBVIOUS
<1>1. /\ op \in [Ops -> OpStates]
      /\ net \in [Ops -> {"unstarted", "running", "ended"}]
      /\ fin \in [Ops -> {"none", "due", "taken", "ignored", "done"}]
  BY DEF Init, OpStates
<1>2. /\ pc \in [Callers -> CallStates]
      /\ toCancel \in [Callers -> SUBSET Ops]
      /\ flagged \in [Callers -> Ops \cup {NoOp}]
      /\ result \in [Callers -> {"none", "ok", "err"}]
      /\ direct \in [Directs -> {"idle", "checked", "calling", "done", "refused"}]
  BY DEF Init, CallStates
<1>3. QED
  BY <1>1, <1>2 DEF Init, TypeOK

\* Every step of an operation keeps the types; for Release, because the counter
\* of a live operation is not zero.
LEMMA TypeOp ==
  ASSUME TypeOK, NEW o \in Ops, op[o] = "releasing" => active # 0,
         BeginOperation(o) \/ OpStep(o) \/ ListenerStep(o) \/ NetEnds(o) \/ UserCancel(o)
  PROVE  TypeOK'
<1> USE DEF TypeOK, OpStates, Starting, Holding, inner, opVars, callVars, waiters, SetOp
<1>1. CASE BeginOperation(o) BY <1>1 DEF BeginOperation
<1>2. CASE Admit(o) BY <1>2 DEF Admit
<1>3. CASE Register(o) BY <1>3 DEF Register
<1>4. CASE InitFails(o) BY <1>4 DEF InitFails
<1>5. CASE RegisterAnnotations(o) BY <1>5 DEF RegisterAnnotations
<1>6. CASE CountPending(o) BY <1>6 DEF CountPending
<1>7. CASE Start(o) BY <1>7 DEF Start
<1>8. CASE StartFails(o) BY <1>8 DEF StartFails
<1>9. CASE AbortAnnotations(o) BY <1>9 DEF AbortAnnotations
<1>10. CASE AbortFinish(o) BY <1>10 DEF AbortFinish, FinishOne
<1>11. CASE RecheckCancel(o) BY <1>11 DEF RecheckCancel, NativeCancel
<1>12. CASE Cleanup(o) BY <1>12 DEF Cleanup
<1>13. CASE StopNetLog(o) BY <1>13 DEF StopNetLog
<1>14. CASE Release(o) BY <1>14 DEF Release
<1>15. CASE NotifyIdle(o) BY <1>15 DEF NotifyIdle
<1>16. CASE OnFinished(o) BY <1>16 DEF OnFinished
<1>17. CASE OnFinishedCount(o) BY <1>17 DEF OnFinishedCount, FinishOne
<1>18. CASE NetEnds(o) BY <1>18 DEF NetEnds
<1>19. CASE UserCancel(o) BY <1>19 DEF UserCancel, NativeCancel
<1>20. QED
  BY <1>1, <1>2, <1>3, <1>4, <1>5, <1>6, <1>7, <1>8, <1>9, <1>10, <1>11, <1>12, <1>13,
     <1>14, <1>15, <1>16, <1>17, <1>18, <1>19
  DEF OpStep, ListenerStep

\* Every step of a shutdown() call keeps the types.
LEMMA TypeCall ==
  ASSUME TypeOK, NEW s \in Callers, Close(s) \/ ShutdownStep(s) \/ DropFuture(s)
  PROVE  TypeOK'
<1> USE DEF TypeOK, CallStates, inner, opVars, callVars, waiters, SetPc, Return
<1>1. CASE Close(s) BY <1>1 DEF Close
<1>2. CASE Snapshot(s) BY <1>2 DEF Snapshot
<1>3. CASE CancelFlag(s) BY <1>3 DEF CancelFlag
<1>4. CASE CancelNative(s) BY <1>4 DEF CancelNative, NativeCancel
<1>5. CASE AllCanceled(s) BY <1>5 DEF AllCanceled
<1>6. CASE GetOrInit(s) BY <1>6 DEF GetOrInit
<1>7. CASE LoadActive(s) BY <1>7 DEF LoadActive
<1>8. CASE ArmActive(s) BY <1>8 DEF ArmActive
<1>9. CASE ReloadActive(s) BY <1>9 DEF ReloadActive
<1>10. CASE WakeActive(s) BY <1>10 DEF WakeActive
<1>11. CASE ArmPending(s) BY <1>11 DEF ArmPending
<1>12. CASE LoadPending(s) BY <1>12 DEF LoadPending
<1>13. CASE WakePending(s) BY <1>13 DEF WakePending
<1>14. CASE TakeNative(s) BY <1>14 DEF TakeNative
<1>15. CASE Join(s) BY <1>15 DEF Join
<1>16. CASE DropFuture(s) BY <1>16 DEF DropFuture
<1>17. QED
  BY <1>1, <1>2, <1>3, <1>4, <1>5, <1>6, <1>7, <1>8, <1>9, <1>10, <1>11, <1>12, <1>13,
     <1>14, <1>15, <1>16
  DEF ShutdownStep

\* Direct calls, the shutdown job and the drop of the last Engine.
LEMMA TypeOther ==
  ASSUME TypeOK,
         \/ \E d \in Directs : DirectBegin(d) \/ DirectStep(d)
         \/ JobStep \/ DropHandle \/ DropInner
  PROVE  TypeOK'
<1> USE DEF TypeOK, inner, opVars, callVars, waiters
<1>1. ASSUME NEW d \in Directs, DirectBegin(d) \/ DirectStep(d) PROVE TypeOK'
  BY <1>1 DEF DirectBegin, DirectStep, DirectLock, DirectEnd
<1>2. CASE JobStep BY <1>2 DEF JobStep, WaitIdleBlocking, JobUnregister, JobShutdown
<1>3. CASE DropHandle BY <1>3 DEF DropHandle
<1>4. CASE DropInner BY <1>4 DEF DropInner
<1>5. QED BY <1>1, <1>2, <1>3, <1>4

-----------------------------------------------------------------------------
(* The counters.                                                           *)

\* What the states of one request have to do with each other: the native
\* request runs only once counted, its tracking annotation stays registered
\* until the engine listener takes it, and the cleanup task waits for the end.
OpInv ==
  \A o \in Ops :
    /\ net[o] = "unstarted" => fin[o] = "none"
    /\ net[o] = "running" => /\ fin[o] = "none"
                             /\ op[o] \in {"started", "running"}
                             /\ o \in annotations
    /\ net[o] = "ended" => /\ fin[o] \in {"due", "taken", "done"}
                           /\ op[o] \in {"started", "running", "releasing", "notifying",
                                         "released"}
    /\ fin[o] = "due" => o \in annotations
    /\ op[o] \in {"annotated", "counted"} => o \in annotations
    /\ op[o] \in {"idle", "admitting", "admitted", "registered", "annotated", "counted",
                  "aborting", "aborted", "rejected", "blocking"} => net[o] = "unstarted"

CountInv == TypeOK /\ OpInv /\ AccountsAreExact

LEMMA FiniteParts == IsFiniteSet(Holders) /\ IsFiniteSet(Counted)
BY EngineAssumption, FS_Subset DEF EngineAssumption, Holders, Counted

LEMMA CountInit == Init => CountInv
<1> SUFFICES ASSUME Init PROVE CountInv
  OBVIOUS
<1>1. Holders = {} /\ Counted = {}
  BY DEF Init, Holders, Counted, Holding, Starting
<1>2. AccountsAreExact
  BY <1>1, FS_EmptySet DEF Init, AccountsAreExact
<1>3. QED BY <1>2, TypeInit DEF CountInv, OpInv, Init

\* A member's count is not zero.
LEMMA CountPositive ==
  ASSUME NEW S, NEW x \in S, IsFiniteSet(S)
  PROVE  Cardinality(S) \in Nat \ {0}
BY FS_CardinalityType, FS_EmptySet

LEMMA OpInvOp ==
  ASSUME TypeOK, OpInv, NEW o \in Ops,
         BeginOperation(o) \/ OpStep(o) \/ ListenerStep(o) \/ NetEnds(o) \/ UserCancel(o)
  PROVE  OpInv'
<1> USE DEF TypeOK, OpInv, inner, opVars, SetOp
<1>1. CASE BeginOperation(o) BY <1>1 DEF BeginOperation
<1>2. CASE Admit(o) BY <1>2 DEF Admit
<1>3. CASE Register(o) BY <1>3 DEF Register
<1>4. CASE InitFails(o) BY <1>4 DEF InitFails
<1>5. CASE RegisterAnnotations(o) BY <1>5 DEF RegisterAnnotations
<1>6. CASE CountPending(o)
  BY <1>6 DEF CountPending
<1>7. CASE Start(o) BY <1>7 DEF Start
<1>8. CASE StartFails(o) BY <1>8 DEF StartFails
<1>9. CASE AbortAnnotations(o) BY <1>9 DEF AbortAnnotations
<1>10. CASE AbortFinish(o) BY <1>10 DEF AbortFinish
<1>11. CASE RecheckCancel(o) BY <1>11 DEF RecheckCancel
<1>12. CASE Cleanup(o) BY <1>12 DEF Cleanup
<1>13. CASE StopNetLog(o) BY <1>13 DEF StopNetLog
<1>14. CASE Release(o) BY <1>14 DEF Release
<1>15. CASE NotifyIdle(o) BY <1>15 DEF NotifyIdle
<1>16. CASE OnFinished(o) BY <1>16 DEF OnFinished
<1>17. CASE OnFinishedCount(o) BY <1>17 DEF OnFinishedCount
<1>18. CASE NetEnds(o) BY <1>18 DEF NetEnds
<1>19. CASE UserCancel(o) BY <1>19 DEF UserCancel
<1>20. QED
  BY <1>1, <1>2, <1>3, <1>4, <1>5, <1>6, <1>7, <1>8, <1>9, <1>10, <1>11, <1>12, <1>13,
     <1>14, <1>15, <1>16, <1>17, <1>18, <1>19
  DEF OpStep, ListenerStep

\* The steps of an operation that leave both counters alone touch neither set.
LEMMA CountQuiet ==
  ASSUME CountInv, NEW o \in Ops,
         \/ BeginOperation(o) \/ Register(o) \/ InitFails(o) \/ RegisterAnnotations(o)
         \/ Start(o) \/ StartFails(o) \/ AbortAnnotations(o) \/ RecheckCancel(o)
         \/ Cleanup(o) \/ StopNetLog(o) \/ NotifyIdle(o) \/ OnFinished(o) \/ NetEnds(o)
         \/ UserCancel(o)
  PROVE  AccountsAreExact'
<1> USE DEF CountInv, TypeOK, OpInv, Holders, Counted, Holding, Starting, inner, opVars, SetOp
<1> SUFFICES active' = active /\ pending' = pending /\ Holders' = Holders /\ Counted' = Counted
  BY DEF AccountsAreExact
<1>1. CASE BeginOperation(o) BY <1>1 DEF BeginOperation
<1>2. CASE Register(o) BY <1>2 DEF Register
<1>3. CASE InitFails(o) BY <1>3 DEF InitFails
<1>4. CASE RegisterAnnotations(o) BY <1>4 DEF RegisterAnnotations
<1>5. CASE Start(o) BY <1>5 DEF Start
<1>6. CASE StartFails(o) BY <1>6 DEF StartFails
<1>7. CASE AbortAnnotations(o) BY <1>7 DEF AbortAnnotations
<1>8. CASE RecheckCancel(o) BY <1>8 DEF RecheckCancel
<1>9. CASE Cleanup(o) BY <1>9 DEF Cleanup
<1>10. CASE StopNetLog(o) BY <1>10 DEF StopNetLog
<1>11. CASE NotifyIdle(o) BY <1>11 DEF NotifyIdle
<1>12. CASE OnFinished(o) BY <1>12 DEF OnFinished
<1>13. CASE NetEnds(o) BY <1>13 DEF NetEnds
<1>14. CASE UserCancel(o) BY <1>14 DEF UserCancel
<1>15. QED
  BY <1>1, <1>2, <1>3, <1>4, <1>5, <1>6, <1>7, <1>8, <1>9, <1>10, <1>11, <1>12, <1>13, <1>14

\* The steps that count or uncount add or take one member.
LEMMA CountBusy ==
  ASSUME CountInv, NEW o \in Ops,
         \/ Admit(o) \/ CountPending(o) \/ AbortFinish(o) \/ Release(o) \/ OnFinishedCount(o)
  PROVE  AccountsAreExact'
<1> USE FiniteParts DEF CountInv
<1>1. CASE Admit(o)
  <2>1. /\ pending' = pending /\ Counted' = Counted
        /\ \/ Holders' = Holders /\ active' = active
           \/ o \notin Holders /\ Holders' = Holders \cup {o} /\ active' = active + 1
    BY <1>1 DEF Admit, TypeOK, OpInv, Holders, Counted, Holding, Starting
  <2>2. active' = Cardinality(Holders')
    BY <2>1, FS_AddElement DEF AccountsAreExact
  <2>3. QED BY <2>1, <2>2 DEF AccountsAreExact
<1>2. CASE CountPending(o)
  <2>1. /\ active' = active /\ Holders' = Holders
        /\ o \notin Counted /\ Counted' = Counted \cup {o} /\ pending' = pending + 1
    BY <1>2 DEF CountPending, SetOp, TypeOK, OpInv, Holders, Counted, Holding, Starting
  <2>2. QED BY <2>1, FS_AddElement DEF AccountsAreExact
<1>3. CASE AbortFinish(o)
  <2>1. /\ active' = active /\ Holders' = Holders
        /\ o \in Counted /\ Counted' = Counted \ {o}
    BY <1>3 DEF AbortFinish, SetOp, TypeOK, OpInv, Holders, Counted, Holding, Starting
  <2>2. pending' = pending - 1
    BY <1>3, <2>1, CountPositive DEF AbortFinish, FinishOne, AccountsAreExact
  <2>3. QED BY <2>1, <2>2, FS_RemoveElement DEF AccountsAreExact
<1>4. CASE Release(o)
  <2>1. /\ pending' = pending /\ Counted' = Counted
        /\ o \in Holders /\ Holders' = Holders \ {o} /\ active' = active - 1
    BY <1>4 DEF Release, TypeOK, OpInv, Holders, Counted, Holding, Starting
  <2>2. QED BY <2>1, FS_RemoveElement DEF AccountsAreExact
<1>5. CASE OnFinishedCount(o)
  <2>1. /\ active' = active /\ Holders' = Holders
        /\ o \in Counted /\ Counted' = Counted \ {o}
    BY <1>5 DEF OnFinishedCount, TypeOK, OpInv, Holders, Counted, Holding, Starting
  <2>2. pending' = pending - 1
    BY <1>5, <2>1, CountPositive DEF OnFinishedCount, FinishOne, AccountsAreExact
  <2>3. QED BY <2>1, <2>2, FS_RemoveElement DEF AccountsAreExact
<1>6. QED BY <1>1, <1>2, <1>3, <1>4, <1>5

\* Nothing but an operation's own steps concerns the counters.
LEMMA CountCall ==
  ASSUME CountInv, NEW s \in Callers, Close(s) \/ ShutdownStep(s) \/ DropFuture(s)
  PROVE  OpInv' /\ AccountsAreExact'
<1> SUFFICES UNCHANGED <<active, pending, annotations, op, net, fin>>
  BY DEF CountInv, OpInv, AccountsAreExact, Holders, Counted
<1> USE DEF inner, opVars
<1>1. CASE Close(s) BY <1>1 DEF Close
<1>2. CASE Snapshot(s) \/ CancelFlag(s) \/ CancelNative(s) \/ AllCanceled(s)
  BY <1>2 DEF Snapshot, CancelFlag, CancelNative, AllCanceled
<1>3. CASE GetOrInit(s) \/ LoadActive(s) \/ ArmActive(s) \/ ReloadActive(s) \/ WakeActive(s)
  BY <1>3 DEF GetOrInit, LoadActive, ArmActive, ReloadActive, WakeActive
<1>4. CASE ArmPending(s) \/ LoadPending(s) \/ WakePending(s) \/ TakeNative(s) \/ Join(s)
  BY <1>4 DEF ArmPending, LoadPending, WakePending, TakeNative, Join
<1>5. CASE DropFuture(s) BY <1>5 DEF DropFuture
<1>6. QED BY <1>1, <1>2, <1>3, <1>4, <1>5 DEF ShutdownStep

LEMMA CountOther ==
  ASSUME CountInv,
         \/ \E d \in Directs : DirectBegin(d) \/ DirectStep(d)
         \/ JobStep \/ DropHandle \/ DropInner \/ UNCHANGED vars
  PROVE  OpInv' /\ AccountsAreExact'
<1> SUFFICES UNCHANGED <<active, pending, annotations, op, net, fin>>
  BY DEF CountInv, OpInv, AccountsAreExact, Holders, Counted
<1> USE DEF inner, opVars
<1>1. ASSUME NEW d \in Directs, DirectBegin(d) \/ DirectStep(d)
      PROVE  UNCHANGED <<active, pending, annotations, op, net, fin>>
  BY <1>1 DEF DirectBegin, DirectStep, DirectLock, DirectEnd
<1>2. CASE JobStep BY <1>2 DEF JobStep, WaitIdleBlocking, JobUnregister, JobShutdown
<1>3. CASE DropHandle \/ DropInner BY <1>3 DEF DropHandle, DropInner
<1>4. CASE UNCHANGED vars BY <1>4 DEF vars
<1>5. QED BY <1>1, <1>2, <1>3, <1>4

LEMMA CountNext == CountInv /\ [Next]_vars => CountInv'
<1> SUFFICES ASSUME CountInv, [Next]_vars PROVE CountInv'
  OBVIOUS
<1>1. ASSUME NEW o \in Ops,
             BeginOperation(o) \/ OpStep(o) \/ ListenerStep(o) \/ NetEnds(o) \/ UserCancel(o)
      PROVE  CountInv'
  <2>1. op[o] = "releasing" => active # 0
    BY FiniteParts, CountPositive DEF CountInv, AccountsAreExact, Holders, Holding
  <2>2. TypeOK' BY <1>1, <2>1, TypeOp DEF CountInv
  <2>3. OpInv' BY <1>1, OpInvOp DEF CountInv
  <2>4. AccountsAreExact' BY <1>1, CountQuiet, CountBusy DEF OpStep, ListenerStep
  <2>5. QED BY <2>2, <2>3, <2>4 DEF CountInv
<1>2. ASSUME NEW s \in Callers, Close(s) \/ ShutdownStep(s) \/ DropFuture(s)
      PROVE  CountInv'
  BY <1>2, TypeCall, CountCall DEF CountInv
<1>3. CASE \/ \E d \in Directs : DirectBegin(d) \/ DirectStep(d)
           \/ JobStep \/ DropHandle \/ DropInner
  BY <1>3, TypeOther, CountOther DEF CountInv
<1>4. CASE UNCHANGED vars
  <2>1. TypeOK' BY <1>4 DEF CountInv, TypeOK, vars, inner, opVars, callVars, waiters
  <2>2. QED BY <1>4, <2>1, CountOther DEF CountInv
<1>5. QED BY <1>1, <1>2, <1>3, <1>4 DEF Next

LEMMA CountInvariant == Spec => []CountInv
BY CountInit, CountNext, PTL DEF Spec

\* Every variable keeps its type in every reachable state.
THEOREM TypeCorrect == Spec => []TypeOK
BY CountInvariant, PTL DEF CountInv

\* `active` counts the live operations and `pending` the requests whose engine
\* callback is owed, whatever begins, fails or ends in between.
THEOREM AccountsExact == Spec => []AccountsAreExact
BY CountInvariant, PTL DEF CountInv

-----------------------------------------------------------------------------
(* The native engine is torn down only from nobody.                        *)

\* A caller here has seen active = 0, and one at "take" pending = 0 as well.
Drained == {"armPending", "loadPending", "parkedPending", "take", "joining"}

\* Once `closing` is set nobody is admitted, so an engine that was seen drained
\* stays drained; and once the last Engine is dropped nobody begins.
DrainInv ==
  /\ \A s \in Callers : pc[s] # "idle" => closing
  /\ \A s \in Callers : pc[s] \in Drained => Holders = {}
  /\ \A s \in Callers : pc[s] = "take" => Counted = {}
  /\ ~handle => /\ \A o \in Ops : op[o] \notin Starting
                /\ \A d \in Directs : direct[d] \notin {"checked", "calling"}
  /\ native <=> job = "none"
  /\ ~native => Users = {}
  /\ job \in {"queued", "unregistered", "ok", "err"} => Counted = {}

LEMMA DrainInit == Init => DrainInv
BY DEF Init, DrainInv, Drained

LEMMA DrainOp ==
  ASSUME CountInv, DrainInv, NEW o \in Ops,
         BeginOperation(o) \/ OpStep(o) \/ ListenerStep(o) \/ NetEnds(o) \/ UserCancel(o)
  PROVE  DrainInv'
<1> USE DEF CountInv, TypeOK, OpInv, Holders, Counted, Users, Holding, Starting,
            inner, opVars, callVars, SetOp
<1>1. UNCHANGED <<closing, native, direct, pc, job, handle>>
  BY DEF OpStep, ListenerStep, BeginOperation, Admit, Register, InitFails,
         RegisterAnnotations, CountPending, Start, StartFails, AbortAnnotations,
         AbortFinish, RecheckCancel, Cleanup, StopNetLog, Release, NotifyIdle,
         OnFinished, OnFinishedCount, NetEnds, UserCancel
<1>2. /\ Holders' \subseteq Holders \/ (native /\ ~closing)
      /\ Counted' \subseteq Counted \/ o \in Holders
      /\ ~handle => \A q \in Ops : op'[q] \notin Starting \/ op[q] \in Starting
  <2>1. CASE BeginOperation(o) BY <2>1 DEF BeginOperation
  <2>2. CASE Admit(o) BY <2>2 DEF Admit
  <2>3. CASE Register(o) \/ InitFails(o) \/ RegisterAnnotations(o)
    BY <2>3 DEF Register, InitFails, RegisterAnnotations
  <2>4. CASE CountPending(o) BY <2>4 DEF CountPending
  <2>5. CASE Start(o) BY <2>5 DEF Start
  <2>6. CASE StartFails(o) \/ AbortAnnotations(o)
    BY <2>6 DEF StartFails, AbortAnnotations
  <2>7. CASE AbortFinish(o) BY <2>7 DEF AbortFinish
  <2>8. CASE RecheckCancel(o) \/ Cleanup(o) \/ StopNetLog(o)
    BY <2>8 DEF RecheckCancel, Cleanup, StopNetLog
  <2>9. CASE Release(o) \/ NotifyIdle(o) BY <2>9 DEF Release, NotifyIdle
  <2>10. CASE OnFinished(o) \/ OnFinishedCount(o)
    BY <2>10 DEF OnFinished, OnFinishedCount
  <2>11. CASE NetEnds(o) \/ UserCancel(o) BY <2>11 DEF NetEnds, UserCancel
  <2>12. QED
    BY <2>1, <2>2, <2>3, <2>4, <2>5, <2>6, <2>7, <2>8, <2>9, <2>10, <2>11
    DEF OpStep, ListenerStep
<1>3. QED
  BY <1>1, <1>2 DEF DrainInv, Drained

LEMMA DrainCall ==
  ASSUME CountInv, DrainInv, NEW s \in Callers, Close(s) \/ ShutdownStep(s) \/ DropFuture(s)
  PROVE  DrainInv'
<1> USE DEF DrainInv, Drained, inner, opVars, SetPc, Return, CountInv, TypeOK
<1>1. UNCHANGED <<active, op, net, fin, direct, handle, pending>>
      /\ Holders' = Holders /\ Counted' = Counted /\ Users' = Users
  BY DEF ShutdownStep, Close, DropFuture, Snapshot, CancelFlag, CancelNative, AllCanceled,
         GetOrInit, LoadActive, ArmActive, ReloadActive, WakeActive, ArmPending, LoadPending,
         WakePending, TakeNative, Join, Holders, Counted, Users
<1>2. CASE Close(s) BY <1>1, <1>2 DEF Close
<1>3. CASE Snapshot(s) \/ CancelFlag(s) \/ CancelNative(s) \/ AllCanceled(s)
  BY <1>1, <1>3 DEF Snapshot, CancelFlag, CancelNative, AllCanceled
<1>4. CASE GetOrInit(s) BY <1>1, <1>4 DEF GetOrInit
<1>5. CASE LoadActive(s)
  <2>1. active = 0 => Holders = {}
    BY FiniteParts, CountPositive DEF AccountsAreExact
  <2>2. QED BY <1>1, <1>5, <2>1 DEF LoadActive
<1>6. CASE ArmActive(s) \/ ReloadActive(s) \/ WakeActive(s)
  BY <1>1, <1>6 DEF ArmActive, ReloadActive, WakeActive
<1>7. CASE ArmPending(s) \/ WakePending(s)
  BY <1>1, <1>7 DEF ArmPending, WakePending
<1>8. CASE LoadPending(s)
  <2>1. pending = 0 => Counted = {}
    BY FiniteParts, CountPositive DEF AccountsAreExact
  <2>2. QED BY <1>1, <1>8, <2>1 DEF LoadPending
<1>9. CASE TakeNative(s)
  BY <1>1, <1>9 DEF TakeNative, NativeUnlocked, Users
<1>10. CASE Join(s) BY <1>1, <1>10 DEF Join
<1>11. CASE DropFuture(s) BY <1>1, <1>11 DEF DropFuture
<1>12. QED
  BY <1>2, <1>3, <1>4, <1>5, <1>6, <1>7, <1>8, <1>9, <1>10, <1>11 DEF ShutdownStep

LEMMA DrainOther ==
  ASSUME CountInv, DrainInv,
         \/ \E d \in Directs : DirectBegin(d) \/ DirectStep(d)
         \/ JobStep \/ DropHandle \/ DropInner \/ UNCHANGED vars
  PROVE  DrainInv'
<1> USE DEF DrainInv, Drained, inner, opVars, callVars, CountInv, TypeOK
<1>1. UNCHANGED <<op, net, fin, pc, closing, pending>> /\ Holders' = Holders /\ Counted' = Counted
  BY DEF DirectBegin, DirectStep, DirectLock, DirectEnd, JobStep, WaitIdleBlocking,
         JobUnregister, JobShutdown, DropHandle, DropInner, vars, Holders, Counted
<1>2. ASSUME NEW d \in Directs, DirectBegin(d) \/ DirectStep(d) PROVE DrainInv'
  BY <1>1, <1>2 DEF DirectBegin, DirectStep, DirectLock, DirectEnd, Users
<1>3. CASE WaitIdleBlocking
  <2>1. Counted = {}
    BY <1>3, FiniteParts, CountPositive DEF AccountsAreExact, WaitIdleBlocking
  <2>2. QED BY <1>1, <1>3, <2>1 DEF WaitIdleBlocking, Users
<1>4. CASE JobUnregister \/ JobShutdown
  BY <1>1, <1>4 DEF JobUnregister, JobShutdown, Users
<1>5. CASE DropHandle BY <1>1, <1>5 DEF DropHandle, Users
<1>6. CASE DropInner BY <1>1, <1>6 DEF DropInner, Users, Holders
<1>7. CASE UNCHANGED vars BY <1>1, <1>7 DEF vars, Users
<1>8. QED BY <1>2, <1>3, <1>4, <1>5, <1>6, <1>7 DEF JobStep

LEMMA DrainNext == CountInv /\ DrainInv /\ [Next]_vars => DrainInv'
BY DrainOp, DrainCall, DrainOther DEF Next

LEMMA DrainInvariant == Spec => [](CountInv /\ DrainInv)
BY CountInit, CountNext, DrainInit, DrainNext, PTL DEF Spec

\* The native engine is torn down only when no operation and no direct call is
\* inside it, however shutdowns, drops and admissions interleave.
THEOREM DestroySafe == Spec => []DestroyOnlyWhenUnused
<1>1. DrainInv => DestroyOnlyWhenUnused
  BY DEF DrainInv, DestroyOnlyWhenUnused, Down
<1>2. QED BY <1>1, DrainInvariant, PTL

\* No callback to the engine's listener is owed or running when an engine shut
\* down by shutdown() or by the thread of EngineInner::drop loses its listener.
THEOREM ListenerSafe == Spec => []ListenerOutlivesCallbacks
<1>1. CountInv /\ DrainInv => ListenerOutlivesCallbacks
  BY DEF CountInv, OpInv, DrainInv, ListenerOutlivesCallbacks, Down, Counted, TypeOK
<1>2. QED BY <1>1, DrainInvariant, PTL

-----------------------------------------------------------------------------
(* A shutdown cancels every request.                                       *)

\* A request here is registered and may come to run.
Cancelable == {"registered", "annotated", "counted", "started", "running"}

\* cancel_requested is set; a request that runs already was canceled natively,
\* any other will be by the re-check after Start.
Reached(o) == /\ o \in cancelRequested
              /\ op[o] = "running" /\ net[o] = "running" => o \in nativeCanceled

\* A caller that has its snapshot still has a request before it, is canceling
\* it, or has reached it.
CancelInv ==
  /\ \A o \in Ops : op[o] \in Cancelable => o \in controls
  /\ \A s \in Callers :
       /\ flagged[s] # NoOp => pc[s] = "canceling" /\ flagged[s] \in cancelRequested
       /\ pc[s] \notin {"idle", "closed", "canceling"} => toCancel[s] = {}
       /\ \A o \in Ops : pc[s] \notin {"idle", "closed"} /\ op[o] \in Cancelable =>
            o \in toCancel[s] \/ flagged[s] = o \/ Reached(o)

LEMMA CancelInit == Init => CancelInv
BY DEF Init, CancelInv, Cancelable

LEMMA CancelOp ==
  ASSUME CountInv, DrainInv, CancelInv, NEW o \in Ops,
         BeginOperation(o) \/ OpStep(o) \/ ListenerStep(o) \/ NetEnds(o) \/ UserCancel(o)
  PROVE  CancelInv'
<1> USE EngineAssumption
    DEF EngineAssumption, CountInv, TypeOK, OpInv, CancelInv, Cancelable, Reached, inner,
        opVars, callVars, SetOp
<1>1. CASE BeginOperation(o) BY <1>1 DEF BeginOperation
<1>2. CASE Admit(o) BY <1>2 DEF Admit
<1>3. CASE Register(o) BY <1>3 DEF Register, DrainInv
<1>4. CASE InitFails(o) BY <1>4 DEF InitFails
<1>5. CASE RegisterAnnotations(o) BY <1>5 DEF RegisterAnnotations
<1>6. CASE CountPending(o) BY <1>6 DEF CountPending
<1>7. CASE Start(o) BY <1>7 DEF Start
<1>8. CASE StartFails(o) BY <1>8 DEF StartFails
<1>9. CASE AbortAnnotations(o) BY <1>9 DEF AbortAnnotations
<1>10. CASE AbortFinish(o) BY <1>10 DEF AbortFinish
<1>11. CASE RecheckCancel(o) BY <1>11 DEF RecheckCancel, NativeCancel
<1>12. CASE Cleanup(o) BY <1>12 DEF Cleanup
<1>13. CASE StopNetLog(o) BY <1>13 DEF StopNetLog
<1>14. CASE Release(o) BY <1>14 DEF Release
<1>15. CASE NotifyIdle(o) BY <1>15 DEF NotifyIdle
<1>16. CASE OnFinished(o) BY <1>16 DEF OnFinished
<1>17. CASE OnFinishedCount(o) BY <1>17 DEF OnFinishedCount
<1>18. CASE NetEnds(o) BY <1>18 DEF NetEnds
<1>19. CASE UserCancel(o) BY <1>19 DEF UserCancel, NativeCancel
<1>20. QED
  BY <1>1, <1>2, <1>3, <1>4, <1>5, <1>6, <1>7, <1>8, <1>9, <1>10, <1>11, <1>12, <1>13,
     <1>14, <1>15, <1>16, <1>17, <1>18, <1>19
  DEF OpStep, ListenerStep

LEMMA CancelCall ==
  ASSUME CountInv, CancelInv, NEW s \in Callers, Close(s) \/ ShutdownStep(s) \/ DropFuture(s)
  PROVE  CancelInv'
<1> USE EngineAssumption
    DEF EngineAssumption, CountInv, TypeOK, CancelInv, Cancelable, Reached, inner, opVars,
        callVars, SetPc, Return
<1>1. CASE Close(s) BY <1>1 DEF Close
<1>2. CASE Snapshot(s) BY <1>2 DEF Snapshot
<1>3. CASE CancelFlag(s) BY <1>3 DEF CancelFlag
<1>4. CASE CancelNative(s) BY <1>4 DEF CancelNative, NativeCancel
<1>5. CASE AllCanceled(s) BY <1>5 DEF AllCanceled
<1>6. CASE GetOrInit(s) BY <1>6 DEF GetOrInit
<1>7. CASE LoadActive(s) \/ ArmActive(s) \/ ReloadActive(s) \/ WakeActive(s)
  BY <1>7 DEF LoadActive, ArmActive, ReloadActive, WakeActive
<1>8. CASE ArmPending(s) \/ LoadPending(s) \/ WakePending(s)
  BY <1>8 DEF ArmPending, LoadPending, WakePending
<1>9. CASE TakeNative(s) BY <1>9 DEF TakeNative
<1>10. CASE Join(s) \/ DropFuture(s) BY <1>10 DEF Join, DropFuture
<1>11. QED
  BY <1>1, <1>2, <1>3, <1>4, <1>5, <1>6, <1>7, <1>8, <1>9, <1>10 DEF ShutdownStep

LEMMA CancelOther ==
  ASSUME CancelInv,
         \/ \E d \in Directs : DirectBegin(d) \/ DirectStep(d)
         \/ JobStep \/ DropHandle \/ DropInner \/ UNCHANGED vars
  PROVE  CancelInv'
BY DEF DirectBegin, DirectStep, DirectLock, DirectEnd, JobStep, WaitIdleBlocking,
       JobUnregister, JobShutdown, DropHandle, DropInner, vars, inner, opVars, callVars,
       CancelInv, Reached

\* No request that was started escapes the cancellation of a shutdown, at
\* whatever point of its start the shutdown takes its snapshot.
THEOREM CancelComplete == Spec => []CancelReachesEveryRequest
<1>1. CountInv /\ DrainInv /\ CancelInv /\ [Next]_vars => CancelInv'
  BY CancelOp, CancelCall, CancelOther DEF Next
<1>2. Spec => []CancelInv
  BY CancelInit, <1>1, DrainInvariant, PTL DEF Spec
<1>3. CancelInv => CancelReachesEveryRequest
  BY EngineAssumption
  DEF EngineAssumption, CancelInv, Cancelable, Reached, CancelReachesEveryRequest
<1>4. QED BY <1>2, <1>3, PTL

-----------------------------------------------------------------------------
(* A shutdown that nobody drops tells the truth.                           *)

Undropped == \A s \in Callers : pc[s] # "dropped"

\* Inside the initialiser of the OnceCell.
InOnce == {"loadActive", "armActive", "reloadActive", "parkedActive", "armPending",
           "loadPending", "parkedPending", "take", "joining"}

\* One caller at a time is inside the initialiser, and none after its result.
HolderInv ==
  /\ \A s \in Callers : pc[s] \in InOnce => holder = s
  /\ holder # NoCaller => once = "empty" /\ pc[holder] \in InOnce

\* What is stored and returned is what the native shutdown said; an engine that
\* an initialiser has taken is waited for.
ResultInv ==
  /\ once # "empty" => once = job
  /\ \A s \in Callers : result[s] # "none" => once = result[s]
  /\ ~native /\ handle => once # "empty" \/ (holder # NoCaller /\ pc[holder] = "joining")

HonestInv ==
  /\ ~handle => \A s \in Callers : pc[s] \in {"idle", "returned", "dropped"}
  /\ Undropped => HolderInv /\ ResultInv

LEMMA HonestInit == Init => HonestInv
<1> SUFFICES ASSUME Init PROVE HonestInv
  OBVIOUS
<1>1. HolderInv
  BY DEF Init, HolderInv, InOnce
<1>2. ResultInv
  BY DEF Init, ResultInv
<1>3. QED BY <1>1, <1>2 DEF Init, HonestInv

\* A future that was dropped stays dropped.
LEMMA HonestCall ==
  ASSUME CountInv, DrainInv, HonestInv, NEW s \in Callers,
         Close(s) \/ ShutdownStep(s) \/ DropFuture(s)
  PROVE  HonestInv'
<1> USE DEF HonestInv, Undropped, HolderInv, ResultInv, InOnce, inner, SetPc, Return
<1>0. /\ pc \in [Callers -> CallStates] /\ result \in [Callers -> {"none", "ok", "err"}]
      /\ NoCaller \notin Callers /\ holder \in Callers \cup {NoCaller}
      /\ native <=> job = "none"
  BY EngineAssumption DEF EngineAssumption, CountInv, TypeOK, DrainInv
<1>1. CASE Close(s) BY <1>0, <1>1 DEF Close
<1>2. CASE Snapshot(s) BY <1>0, <1>2 DEF Snapshot
<1>3. CASE CancelFlag(s) \/ CancelNative(s)
  BY <1>0, <1>3 DEF CancelFlag, CancelNative
<1>4. CASE AllCanceled(s) BY <1>0, <1>4 DEF AllCanceled
<1>5. CASE GetOrInit(s) BY <1>0, <1>5 DEF GetOrInit
<1>6. CASE LoadActive(s) BY <1>0, <1>6 DEF LoadActive
<1>7. CASE ArmActive(s) BY <1>0, <1>7 DEF ArmActive
<1>8. CASE ReloadActive(s) BY <1>0, <1>8 DEF ReloadActive
<1>9. CASE WakeActive(s) BY <1>0, <1>9 DEF WakeActive
<1>10. CASE ArmPending(s) BY <1>0, <1>10 DEF ArmPending
<1>11. CASE LoadPending(s) BY <1>0, <1>11 DEF LoadPending
<1>12. CASE WakePending(s) BY <1>0, <1>12 DEF WakePending
<1>13. CASE TakeNative(s) BY <1>0, <1>13 DEF TakeNative
<1>14. CASE Join(s) BY <1>0, <1>14 DEF Join
<1>15. CASE DropFuture(s) BY <1>0, <1>15 DEF DropFuture
<1>16. QED
  BY <1>1, <1>2, <1>3, <1>4, <1>5, <1>6, <1>7, <1>8, <1>9, <1>10, <1>11, <1>12, <1>13,
     <1>14, <1>15 DEF ShutdownStep

LEMMA HonestOp ==
  ASSUME HonestInv, NEW o \in Ops,
         BeginOperation(o) \/ OpStep(o) \/ ListenerStep(o) \/ NetEnds(o) \/ UserCancel(o)
  PROVE  HonestInv'
<1>1. UNCHANGED <<native, callVars, job, handle>>
  BY DEF inner, callVars, BeginOperation, OpStep, ListenerStep, NetEnds, UserCancel, Admit, Register,
         InitFails, RegisterAnnotations, CountPending, Start, StartFails, AbortAnnotations,
         AbortFinish, RecheckCancel, Cleanup, StopNetLog, Release, NotifyIdle, OnFinished,
         OnFinishedCount
<1>2. QED BY <1>1 DEF HonestInv, Undropped, HolderInv, ResultInv, callVars

LEMMA HonestOther ==
  ASSUME CountInv, DrainInv, HonestInv,
         \/ \E d \in Directs : DirectBegin(d) \/ DirectStep(d)
         \/ JobStep \/ DropHandle \/ DropInner \/ UNCHANGED vars
  PROVE  HonestInv'
<1> USE DEF HonestInv, Undropped, HolderInv, ResultInv, InOnce, inner, callVars
<1>0. /\ native <=> job = "none"
      /\ once \in {"empty", "ok", "err"}
  BY DEF CountInv, TypeOK, DrainInv
<1>1. CASE \E d \in Directs : DirectBegin(d) \/ DirectStep(d)
  BY <1>1 DEF DirectBegin, DirectStep, DirectLock, DirectEnd
<1>2. CASE JobStep
  BY <1>0, <1>2 DEF JobStep, WaitIdleBlocking, JobUnregister, JobShutdown
<1>3. CASE DropHandle BY <1>3 DEF DropHandle
<1>4. CASE DropInner BY <1>0, <1>4 DEF DropInner
<1>5. CASE UNCHANGED vars BY <1>5 DEF vars
<1>6. QED BY <1>1, <1>2, <1>3, <1>4, <1>5

LEMMA HonestNext == CountInv /\ DrainInv /\ HonestInv /\ [Next]_vars => HonestInv'
BY HonestOp, HonestCall, HonestOther DEF Next

\* While no future of shutdown() is dropped, every caller that is told Ok has a
\* native engine that was shut down (engine.rs:462): the OnceCell lets one caller
\* at a time take the engine, and the others get its result.
THEOREM ShutdownHonest == Spec => []UndroppedShutdownIsHonest
<1>1. CountInv /\ DrainInv /\ HonestInv => UndroppedShutdownIsHonest
  BY DEF HonestInv, Undropped, ResultInv, UndroppedShutdownIsHonest, ShutdownOkMeansDestroyed
<1>2. QED BY <1>1, HonestInit, HonestNext, DrainInvariant, PTL DEF Spec

-----------------------------------------------------------------------------
(* The engine implements its contract.                                     *)

LEMMA ContractOp ==
  ASSUME CountInv, DrainInv, NEW o \in Ops,
         BeginOperation(o) \/ OpStep(o) \/ ListenerStep(o) \/ NetEnds(o) \/ UserCancel(o)
  PROVE  [Contract!Next]_(Contract!vars)
<1> DEFINE quiet == UNCHANGED <<closing, direct, job>>
<1> USE DEF CountInv, TypeOK, OpInv, Holders, Users, Holding, Starting, inner, opVars,
            callVars, SetOp
<1>1. quiet
  BY DEF OpStep, ListenerStep, BeginOperation, Admit, Register, InitFails,
         RegisterAnnotations, CountPending, Start, StartFails, AbortAnnotations,
         AbortFinish, RecheckCancel, Cleanup, StopNetLog, Release, NotifyIdle,
         OnFinished, OnFinishedCount, NetEnds, UserCancel
<1>2. CASE Admit(o)
  <2>1. \/ Users' = Users
        \/ o \notin Users /\ Users' = Users \cup {o} /\ native /\ ~closing
    BY <1>1, <1>2, EngineAssumption DEF Admit, EngineAssumption
  <2>2. Users' # Users => Contract!Enter(o)
    BY <1>1, <2>1 DEF Contract!Enter, DrainInv, Down
  <2>3. QED BY <1>1, <2>2 DEF Contract!Next, Contract!vars, Down
<1>3. CASE Release(o)
  <2>1. o \in Users /\ Users' = Users \ {o}
    BY <1>1, <1>3, EngineAssumption DEF Release, EngineAssumption
  <2>2. Contract!Leave(o) BY <1>1, <2>1 DEF Contract!Leave, Down
  <2>3. QED BY <2>2 DEF Contract!Next
<1>4. CASE ~Admit(o) /\ ~Release(o)
  <2>1. Holders' = Holders
    <3>1. CASE BeginOperation(o) \/ Register(o) \/ InitFails(o) \/ RegisterAnnotations(o)
               \/ CountPending(o) \/ Start(o) \/ StartFails(o)
      BY <3>1 DEF BeginOperation, Register, InitFails, RegisterAnnotations, CountPending,
                  Start, StartFails
    <3>2. CASE AbortAnnotations(o) \/ AbortFinish(o) \/ RecheckCancel(o) \/ Cleanup(o)
               \/ StopNetLog(o) \/ NotifyIdle(o)
      BY <3>2 DEF AbortAnnotations, AbortFinish, RecheckCancel, Cleanup, StopNetLog, NotifyIdle
    <3>3. CASE ListenerStep(o) \/ NetEnds(o) \/ UserCancel(o)
      BY <3>3 DEF ListenerStep, OnFinished, OnFinishedCount, NetEnds, UserCancel
    <3>4. QED BY <1>4, <3>1, <3>2, <3>3 DEF OpStep
  <2>2. QED BY <1>1, <2>1 DEF Contract!vars, Down
<1>5. QED BY <1>2, <1>3, <1>4

LEMMA ContractCall ==
  ASSUME CountInv, DrainInv, NEW s \in Callers, Close(s) \/ ShutdownStep(s) \/ DropFuture(s)
  PROVE  [Contract!Next]_(Contract!vars)
<1> USE DEF inner, opVars, Down
<1>1. Users' = Users
  BY DEF ShutdownStep, Close, DropFuture, Snapshot, CancelFlag, CancelNative, AllCanceled,
         GetOrInit, LoadActive, ArmActive, ReloadActive, WakeActive, ArmPending, LoadPending,
         WakePending, TakeNative, Join, Holders, Users
<1>2. CASE Close(s)
  <2>1. CASE closing \/ Down
    BY <1>1, <1>2, <2>1 DEF Close, CountInv, TypeOK, Contract!vars
  <2>2. CASE ~closing /\ ~Down
    <3>1. Contract!Drain BY <1>1, <1>2, <2>2 DEF Close, Contract!Drain
    <3>2. QED BY <3>1 DEF Contract!Next
  <2>3. QED BY <2>1, <2>2
<1>3. CASE TakeNative(s)
  BY <1>1, <1>3 DEF TakeNative, DrainInv, Contract!vars
<1>4. CASE ~Close(s) /\ ~TakeNative(s)
  <2>1. UNCHANGED <<closing, job>>
    BY <1>4 DEF ShutdownStep, DropFuture, Snapshot, CancelFlag, CancelNative, AllCanceled,
         GetOrInit, LoadActive, ArmActive, ReloadActive, WakeActive, ArmPending, LoadPending,
         WakePending, Join
  <2>2. QED BY <1>1, <2>1 DEF Contract!vars
<1>5. QED BY <1>2, <1>3, <1>4

LEMMA ContractOther ==
  ASSUME CountInv, DrainInv,
         \/ \E d \in Directs : DirectBegin(d) \/ DirectStep(d)
         \/ JobStep \/ DropHandle \/ DropInner \/ UNCHANGED vars
  PROVE  [Contract!Next]_(Contract!vars)
<1> USE DEF inner, opVars, callVars, Down, Users, Holders
<1>1. ASSUME NEW d \in Directs, DirectBegin(d) \/ DirectStep(d)
      PROVE  [Contract!Next]_(Contract!vars)
  <2> USE EngineAssumption DEF EngineAssumption, CountInv, TypeOK
  <2>1. CASE DirectBegin(d)
    BY <2>1 DEF DirectBegin, Contract!vars
  <2>2. CASE DirectLock(d)
    <3>1. CASE direct'[d] = "calling"
      <4>1. d \notin Users /\ Users' = Users \cup {d} BY <2>2, <3>1 DEF DirectLock
      <4>2. Contract!Enter(d) BY <2>2, <3>1, <4>1 DEF DirectLock, Contract!Enter, DrainInv
      <4>3. QED BY <4>2 DEF Contract!Next
    <3>2. CASE direct'[d] # "calling"
      BY <2>2, <3>2 DEF DirectLock, Contract!vars
    <3>3. QED BY <3>1, <3>2
  <2>3. CASE DirectEnd(d)
    <3>1. d \in Users /\ Users' = Users \ {d} BY <2>3 DEF DirectEnd
    <3>2. Contract!Leave(d) BY <2>3, <3>1 DEF DirectEnd, Contract!Leave
    <3>3. QED BY <3>2 DEF Contract!Next
  <2>4. QED BY <1>1, <2>1, <2>2, <2>3 DEF DirectStep
<1>2. CASE JobUnregister
  <2>1. Contract!GoDown
    BY <1>2 DEF JobUnregister, Contract!GoDown, DrainInv
  <2>2. QED BY <2>1 DEF Contract!Next
<1>3. CASE WaitIdleBlocking \/ JobShutdown
  BY <1>3 DEF WaitIdleBlocking, JobShutdown, Contract!vars
<1>4. CASE DropHandle BY <1>4 DEF DropHandle, Contract!vars
<1>5. CASE DropInner
  <2>1. CASE job' = "unspawned"
    <3>1. Contract!GoDown
      BY <1>5, <2>1 DEF DropInner, Contract!GoDown, DrainInv
    <3>2. QED BY <3>1 DEF Contract!Next
  <2>2. CASE job' # "unspawned"
    BY <1>5, <2>2 DEF DropInner, Contract!vars, DrainInv
  <2>3. QED BY <2>1, <2>2
<1>6. CASE UNCHANGED vars BY <1>6 DEF vars, Contract!vars
<1>7. QED BY <1>1, <1>2, <1>3, <1>4, <1>5, <1>6 DEF JobStep

\* Every behaviour of the engine is one its contract allows: clients enter while
\* it is open, none once a shutdown has begun, and it goes down once, empty.
THEOREM ContractImplemented == Spec => ImplementsContract
<1>1. Init => Contract!Init
  BY DEF Init, Contract!Init, Down, Users, Holders, Holding, Starting
<1>2. CountInv /\ DrainInv /\ [Next]_vars => [Contract!Next]_(Contract!vars)
  BY ContractOp, ContractCall, ContractOther DEF Next
<1>3. QED
  BY <1>1, <1>2, DrainInvariant, PTL DEF Spec, ImplementsContract, Contract!Spec
=============================================================================
