------------------------- MODULE UrlRequest_proofs -------------------------
(***************************************************************************)
(* Theorems about a URL request (UrlRequest), for any channel capacity,    *)
(* any number of redirects and reads, and any number of workers.           *)
(***************************************************************************)
EXTENDS UrlRequest, SequenceTheorems, TLAPS

-----------------------------------------------------------------------------
(* Whose turn it is.                                                       *)

\* At such a place an actor has to follow a redirect: it, and nobody else, may let
\* Cronet go on.
Follows(a, place) ==
  \/ place \in {"deciding", "followLock", "followCall"}
  \/ a = "redirect" /\ place \in {"entering", "run"}

\* At such a place an actor has the buffer, to read into or to read from.
HasBuffer(a, place) ==
  \/ place = "read"
  \/ a \in ReadFrames /\ place \in {"entering", "enteringEmpty", "run", "runEmpty"}
  \/ a \in ChunkTasks /\ place \in {"sending", "resume"}

\* At such a place an actor has to issue the next read, or the first.
Reads(a, place) ==
  \/ HasBuffer(a, place)
  \/ a = "headers" /\ place \in {"entering", "run"}

HasTurn(a, place) == Follows(a, place) \/ Reads(a, place)

Waits(p) == p \in {"redirect", "headers", "chunk", "empty"}

\* Cronet waits for at most one of: a posted callback, or an actor that goes on
\* after one.
OneWaits == \A p, q \in posted : Waits(p) /\ Waits(q) => p = q
OneHasTurn == \A a, b \in Actors : HasTurn(a, pc[a]) /\ HasTurn(b, pc[b]) => a = b
NotBoth == \A p \in posted, a \in Actors : Waits(p) => ~HasTurn(a, pc[a])

\* And it waits for that.
CronetWaits ==
  /\ \A p \in posted : Waits(p) => ns = IF p = "redirect" THEN "awaitFollow" ELSE "awaitRead"
  /\ \A a \in Actors : Follows(a, pc[a]) => ns = "awaitFollow"
  /\ \A a \in Actors : Reads(a, pc[a]) => ns = "awaitRead"

TurnInv == OneWaits /\ OneHasTurn /\ NotBoth /\ CronetWaits

\* follow_redirect is called by the callback or by the decision task, read by the
\* other callbacks and by the chunk tasks.
PlaceInv ==
  \A a \in Actors :
    /\ pc[a] \in {"followLock", "followCall"} => a \in {"redirect", "decision"}
    /\ pc[a] \in {"read", "forget", "forgetFailed"} => a \in {"headers"} \cup ReadFrames \cup ChunkTasks

-----------------------------------------------------------------------------
(* The end.                                                                *)

\* A request succeeds while a read is under way; its terminal and its finished
\* callback are posted with its end, each once.
EndInv ==
  /\ outcome = "succeeded" => ns = "reading"
  /\ outcome = "none" =>
       posted \cap Terminal = {} /\ pc["terminal"] = "idle" /\ pc["finished"] = "idle"
         /\ ~terminalSent /\ ~finished
  /\ terminalSent => "terminal" \notin posted /\ pc["terminal"] = "idle"
  /\ pc["terminal"] # "idle" => "terminal" \notin posted
  /\ finished => "finished" \notin posted /\ pc["finished"] = "idle"
  /\ pc["finished"] # "idle" => "finished" \notin posted

\* Nothing happens before Start, nor after a Start that failed.
UnstartedInv ==
  /\ ns = "unstarted" =>
       outcome = "none" /\ posted = {} /\ \A c \in Callbacks \cup Tasks : pc[c] = "idle"
  /\ pc["starter"] = "created" => ns = "unstarted"
  /\ pc["starter"] \notin {"created", "idle"} => ns # "unstarted"
  /\ pc["starter"] # "idle" => cleanup = "none" /\ consumer = "none"
  /\ ns = "unstarted" /\ cleanup # "none" => consumer = "failed"

\* The native objects are there until the cleanup has waited for both callbacks.
CleanupInv ==
  /\ raw <=> cleanup \notin {"buffer", "done"}
  /\ cleanup \in {"finished", "callbacks"} => terminalSent
  /\ cleanup = "callbacks" => finished
  /\ cleanup \in {"destroy", "buffer", "done"} => ns = "unstarted" \/ (terminalSent /\ finished)

-----------------------------------------------------------------------------
(* The chunks and the error.                                               *)

AllChunks(q) == \A i \in 1..Len(q) : q[i] = "chunk"

\* The consumer has not been told of an error, and has not left.
Sound ==
  AllChunks(body) /\ consumer \in {"none", "pending", "body", "ended"}

\* At such a place an actor has a chunk in hand.
Carries(a, place) ==
  \/ a \in ReadFrames /\ place \in {"entering", "run"}
  \/ a \in ChunkTasks /\ place = "sending"

\* All chunks but n are delivered or in the channel.
InAll(n) == produced = delivered + Len(body) + n

\* With nobody's turn everything is; otherwise whoever has the turn may carry the
\* chunk that is missing.
SettledInv == ns \in {"unstarted", "network", "awaitFollow", "reading"} => InAll(0)
PostedInv == \A p \in posted : Waits(p) => InAll(IF p = "chunk" THEN 1 ELSE 0)
HeldInv == \A a \in Actors : HasTurn(a, pc[a]) => InAll(IF Carries(a, pc[a]) THEN 1 ELSE 0)

AccountInv == Sound => SettledInv /\ PostedInv /\ HeldInv

\* A request that has not succeeded has an error on its way.
ErrorInv ==
  outcome \in {"failed", "canceled"} =>
    \/ "terminal" \in posted
    \/ pc["terminal"] \in {"entering", "run", "taking"}
    \/ pc["error"] = "sending"
    \/ ~Sound

-----------------------------------------------------------------------------
(* The gate, the leases and the buffer.                                    *)

\* Who is not a callback makes its native calls under the gate.
GateInv ==
  /\ gate # "free" => raw
  /\ \A a \in Actors \ Callbacks :
       pc[a] \in {"nativeCancel", "failing", "followCall", "read", "forget", "forgetFailed"}
         => gate = a
  /\ \A a \in Actors : pc[a] = "followCall" => gate = a

\* When the native objects go, a callback has returned or is one that the cleanup
\* could not see.
LeaseInv ==
  IF cleanup \in {"destroy", "buffer", "done"}
    THEN \A c \in Callbacks : pc[c] = "idle" \/ c \in late
    ELSE late = {}

\* As long as the request is not destroyed, who has the buffer owns it.
OwnedInv == raw => \A a \in Actors : HasBuffer(a, pc[a]) => owner = "app"

\* The record is wrong only until the read that gave the buffer away clears it, or
\* after what the cleanup could not see.
RecordedInv ==
  recorded /\ cleanup # "done" =>
    owner = "app" \/ late # {} \/ \E a \in Actors : pc[a] \in {"forget", "forgetFailed"}

BufferInv == OwnedInv /\ RecordedInv

-----------------------------------------------------------------------------
(* Types.                                                                  *)

NetworkTypes ==
  /\ ns \in {"unstarted", "network", "awaitFollow", "awaitRead", "reading"}
  /\ outcome \in {"none", "succeeded", "failed", "canceled"}
  /\ posted \subseteq Terminal \cup {"redirect", "headers", "chunk", "empty"}
  /\ redirects \in 0..MaxRounds
  /\ reads \in 0..MaxRounds /\ produced \in 0..reads

PlaceTypes == pc \in [Actors -> Places]

ControlTypes ==
  /\ policy \in Policies \cup {"unset"}
  /\ raw \in BOOLEAN /\ done \in BOOLEAN /\ cancelRequested \in BOOLEAN
  /\ gate \in Actors \cup {"free"}
  /\ owner \in {"none", "app", "native", "freed"} /\ recorded \in BOOLEAN
  /\ requestError \in BOOLEAN /\ terminalSent \in BOOLEAN /\ finished \in BOOLEAN

ResultTypes ==
  /\ received \in 0..MaxBytes
  /\ headers \in {"empty", "ok", "err"}
  /\ body \in Seq({"chunk", "err"}) /\ Len(body) <= Capacity
  /\ cleanup \in {"none", "terminal", "finished", "callbacks", "destroy", "buffer", "done"}
  /\ late \subseteq Callbacks
  /\ consumer \in {"none", "pending", "body", "errored", "ended", "failed", "dropping",
                   "dropped"}
  /\ delivered \in Nat

Types == NetworkTypes /\ PlaceTypes /\ ControlTypes /\ ResultTypes

LEMMA ActorsAre ==
  /\ Callbacks \subseteq Actors /\ Tasks \subseteq Actors /\ Cancelers \subseteq Actors
  /\ Named \ {"free"} \subseteq Actors /\ "free" \notin Actors
  /\ "starter" \in Actors /\ "terminal" \in Actors /\ "error" \in Actors
  /\ ReadFrames \subseteq Callbacks /\ ChunkTasks \subseteq Tasks
BY RequestAssumption DEF Actors, Callbacks, Tasks, Cancelers, Terminal, Named

LEMMA TypesInit == Init => Types
<1> SUFFICES ASSUME Init PROVE Types
  OBVIOUS
<1>1. NetworkTypes
  BY RequestAssumption DEF Init, NetworkTypes
<1>2. PlaceTypes
  BY DEF Init, PlaceTypes, Places
<1>3. ControlTypes
  BY DEF Init, ControlTypes
<1>4. ResultTypes
  BY RequestAssumption DEF Init, ResultTypes
<1>5. QED BY <1>1, <1>2, <1>3, <1>4 DEF Types

LEMMA NetworkTypesNext == NetworkTypes /\ [Next]_vars => NetworkTypes'
<1> SUFFICES ASSUME NetworkTypes, [Next]_vars PROVE NetworkTypes'
  OBVIOUS
<1> USE RequestAssumption DEF NetworkTypes, network
<1>1. CASE Network
  <2>1. CASE NetRedirect
    BY <2>1 DEF NetRedirect
  <2>2. CASE NetHeaders
    BY <2>2 DEF NetHeaders
  <2>3. CASE NetRead
    BY <2>3 DEF NetRead
  <2>4. CASE NetEnd
    BY <2>4 DEF NetEnd, NativeEnd, Terminal
  <2>5. QED BY <1>1, <2>1, <2>2, <2>3, <2>4 DEF Network
<1>2. ASSUME NEW c \in Callbacks, NEW p \in posted, Invoke(p, c) PROVE NetworkTypes'
  BY <1>2 DEF Invoke
<1>3. ASSUME NEW a \in Actors, Lease(a) \/ CancelFlag(a) \/ CancelLock(a) \/ RecordError(a)
      PROVE  NetworkTypes'
  BY <1>3 DEF Lease, CancelFlag, CancelLock, RecordError
<1>4. ASSUME NEW a \in Actors, CancelCall(a) PROVE NetworkTypes'
  BY <1>4 DEF CancelCall, NativeCancel, NativeEnd, Terminal
<1>5. ASSUME NEW a \in Actors, FollowLock(a) \/ FollowCall(a) \/ Read(a) \/ ForgetBuffer(a)
      PROVE  NetworkTypes'
  BY <1>5 DEF FollowLock, FollowCall, Read, ForgetBuffer
<1>6. CASE Start \/ Recheck \/ SpawnCleanup
  BY <1>6 DEF Start, Recheck, SpawnCleanup
<1>7. CASE OnRedirect \/ OnResponseStarted \/ \E c \in ReadFrames : OnReadCompleted(c)
  BY <1>7 DEF OnRedirect, OnResponseStarted, OnReadCompleted
<1>8. CASE OnTerminal \/ TakeError \/ SignalTerminal \/ OnRequestFinished
  BY <1>8 DEF OnTerminal, TakeError, SignalTerminal, OnRequestFinished
<1>9. CASE SendError \/ AbortDecision \/ Decide \/ \E t \in ChunkTasks : SendChunk(t) \/ Resume(t)
  BY <1>9 DEF SendError, AbortDecision, Decide, SendChunk, Resume
<1>10. CASE Cleanup
  BY <1>10 DEF Cleanup, CleanupWait, Destroy, FreeBuffer
<1>11. CASE AwaitHeaders \/ NextChunk \/ DropConsumer \/ DropReceivers \/ HandleCancel
  BY <1>11 DEF AwaitHeaders, NextChunk, DropConsumer, DropReceivers, HandleCancel
<1>12. CASE UNCHANGED vars
  BY <1>12 DEF vars
<1>13. QED
  BY <1>1, <1>2, <1>3, <1>4, <1>5, <1>6, <1>7, <1>8, <1>9, <1>10, <1>11, <1>12
     DEF Next, Run, Step

LEMMA PlaceTypesNext == PlaceTypes /\ [Next]_vars => PlaceTypes'
<1> SUFFICES ASSUME PlaceTypes, [Next]_vars PROVE PlaceTypes'
  OBVIOUS
<1> USE ActorsAre DEF PlaceTypes, Places, Goto, Leave, Resting, FollowError, control
<1>1. CASE Network
  BY <1>1 DEF Network, NetRedirect, NetHeaders, NetRead, NetEnd, NativeEnd
<1>2. ASSUME NEW c \in Callbacks, NEW p \in posted, Invoke(p, c) PROVE PlaceTypes'
  BY <1>2 DEF Invoke
<1>3. ASSUME NEW a \in Actors, Lease(a) \/ CancelFlag(a) \/ CancelLock(a) \/ RecordError(a)
      PROVE  PlaceTypes'
  BY <1>3 DEF Lease, CancelFlag, CancelLock, RecordError
<1>4. ASSUME NEW a \in Actors, CancelCall(a) PROVE PlaceTypes'
  BY <1>4 DEF CancelCall, NativeCancel, NativeEnd
<1>5. ASSUME NEW a \in Actors, FollowLock(a) \/ FollowCall(a) \/ Read(a) \/ ForgetBuffer(a)
      PROVE  PlaceTypes'
  BY <1>5 DEF FollowLock, FollowCall, Read, ForgetBuffer
<1>6. CASE Start \/ Recheck \/ SpawnCleanup
  BY <1>6 DEF Start, Recheck, SpawnCleanup
<1>7. CASE OnRedirect \/ OnResponseStarted \/ \E c \in ReadFrames : OnReadCompleted(c)
  BY <1>7 DEF OnRedirect, OnResponseStarted, OnReadCompleted
<1>8. CASE OnTerminal \/ TakeError \/ SignalTerminal \/ OnRequestFinished
  BY <1>8 DEF OnTerminal, TakeError, SignalTerminal, OnRequestFinished
<1>9. CASE SendError \/ AbortDecision \/ Decide \/ \E t \in ChunkTasks : SendChunk(t) \/ Resume(t)
  BY <1>9 DEF SendError, AbortDecision, Decide, SendChunk, Resume
<1>10. CASE Cleanup
  BY <1>10 DEF Cleanup, CleanupWait, Destroy, FreeBuffer
<1>11. CASE AwaitHeaders \/ NextChunk \/ DropConsumer \/ DropReceivers \/ HandleCancel
  BY <1>11 DEF AwaitHeaders, NextChunk, DropConsumer, DropReceivers, HandleCancel
<1>12. CASE UNCHANGED vars
  BY <1>12 DEF vars
<1>13. QED
  BY <1>1, <1>2, <1>3, <1>4, <1>5, <1>6, <1>7, <1>8, <1>9, <1>10, <1>11, <1>12
     DEF Next, Run, Step

LEMMA ControlTypesNext == ControlTypes /\ [Next]_vars => ControlTypes'
<1> SUFFICES ASSUME ControlTypes, [Next]_vars PROVE ControlTypes'
  OBVIOUS
<1> USE ActorsAre DEF ControlTypes, control, buffer, results, Leave
<1>1. CASE Network
  BY <1>1 DEF Network, NetRedirect, NetHeaders, NetRead, NetEnd, NativeEnd
<1>2. ASSUME NEW c \in Callbacks, NEW p \in posted, Invoke(p, c) PROVE ControlTypes'
  BY <1>2 DEF Invoke
<1>3. ASSUME NEW a \in Actors, Lease(a) \/ CancelFlag(a) \/ CancelLock(a) \/ RecordError(a)
      PROVE  ControlTypes'
  <2>1. CASE Lease(a) BY <2>1 DEF Lease
  <2>2. CASE CancelFlag(a) BY <2>2 DEF CancelFlag
  <2>3. CASE CancelLock(a) BY <2>3 DEF CancelLock
  <2>4. CASE RecordError(a) BY <2>4 DEF RecordError
  <2> QED  BY <1>3, <2>1, <2>2, <2>3, <2>4
<1>4. ASSUME NEW a \in Actors, CancelCall(a) PROVE ControlTypes'
  BY <1>4 DEF CancelCall, NativeCancel, NativeEnd
<1>5. ASSUME NEW a \in Actors, FollowLock(a) \/ FollowCall(a) \/ Read(a) \/ ForgetBuffer(a)
      PROVE  ControlTypes'
  <2>1. CASE FollowLock(a) BY <2>1 DEF FollowLock
  <2>2. CASE FollowCall(a) BY <2>2 DEF FollowCall
  <2>3. CASE Read(a) BY <2>3 DEF Read
  <2>4. CASE ForgetBuffer(a) BY <2>4 DEF ForgetBuffer
  <2> QED  BY <1>5, <2>1, <2>2, <2>3, <2>4
<1>6. CASE Start \/ Recheck \/ SpawnCleanup
  BY <1>6 DEF Start, Recheck, SpawnCleanup
<1>7. CASE OnRedirect \/ OnResponseStarted \/ \E c \in ReadFrames : OnReadCompleted(c)
  <2>1. CASE OnRedirect BY <2>1 DEF OnRedirect
  <2>2. CASE OnResponseStarted BY <2>2 DEF OnResponseStarted
  <2>3. ASSUME NEW c \in ReadFrames, OnReadCompleted(c) PROVE ControlTypes'
    BY <2>3 DEF OnReadCompleted
  <2> QED  BY <1>7, <2>1, <2>2, <2>3
<1>8. CASE OnTerminal \/ TakeError \/ SignalTerminal \/ OnRequestFinished
  <2>1. CASE OnTerminal BY <2>1 DEF OnTerminal
  <2>2. CASE TakeError BY <2>2 DEF TakeError
  <2>3. CASE SignalTerminal BY <2>3 DEF SignalTerminal
  <2>4. CASE OnRequestFinished BY <2>4 DEF OnRequestFinished
  <2> QED  BY <1>8, <2>1, <2>2, <2>3, <2>4
<1>9. CASE SendError \/ AbortDecision \/ Decide \/ \E t \in ChunkTasks : SendChunk(t) \/ Resume(t)
  BY <1>9 DEF SendError, AbortDecision, Decide, SendChunk, Resume
<1>10. CASE Cleanup
  <2>1. CASE CleanupWait BY <2>1 DEF CleanupWait
  <2>2. CASE Destroy BY <2>2 DEF Destroy
  <2>3. CASE FreeBuffer BY <2>3 DEF FreeBuffer
  <2> QED  BY <1>10, <2>1, <2>2, <2>3 DEF Cleanup
<1>11. CASE AwaitHeaders \/ NextChunk \/ DropConsumer \/ DropReceivers \/ HandleCancel
  BY <1>11 DEF AwaitHeaders, NextChunk, DropConsumer, DropReceivers, HandleCancel
<1>12. CASE UNCHANGED vars
  BY <1>12 DEF vars
<1>13. QED
  BY <1>1, <1>2, <1>3, <1>4, <1>5, <1>6, <1>7, <1>8, <1>9, <1>10, <1>11, <1>12
     DEF Next, Run, Step

LEMMA ResultTypesNext == ResultTypes /\ [Next]_vars => ResultTypes'
<1> SUFFICES ASSUME ResultTypes, [Next]_vars PROVE ResultTypes'
  OBVIOUS
<1> USE RequestAssumption DEF ResultTypes, results, reader
<1>1. CASE Network
  BY <1>1 DEF Network, NetRedirect, NetHeaders, NetRead, NetEnd, NativeEnd
<1>2. ASSUME NEW c \in Callbacks, NEW p \in posted, Invoke(p, c) PROVE ResultTypes'
  BY <1>2 DEF Invoke
<1>3. ASSUME NEW a \in Actors, Lease(a) \/ CancelFlag(a) \/ CancelLock(a) \/ RecordError(a)
      PROVE  ResultTypes'
  BY <1>3 DEF Lease, CancelFlag, CancelLock, RecordError
<1>4. ASSUME NEW a \in Actors, CancelCall(a) PROVE ResultTypes'
  BY <1>4 DEF CancelCall, NativeCancel, NativeEnd
<1>5. ASSUME NEW a \in Actors, FollowLock(a) \/ FollowCall(a) \/ Read(a) \/ ForgetBuffer(a)
      PROVE  ResultTypes'
  BY <1>5 DEF FollowLock, FollowCall, Read, ForgetBuffer
<1>6. CASE Start \/ Recheck \/ SpawnCleanup
  BY <1>6 DEF Start, Recheck, SpawnCleanup
<1>7. CASE OnRedirect \/ OnResponseStarted \/ \E c \in ReadFrames : OnReadCompleted(c)
  BY <1>7 DEF OnRedirect, OnResponseStarted, OnReadCompleted
<1>8. CASE OnTerminal \/ TakeError \/ SignalTerminal \/ OnRequestFinished
  BY <1>8 DEF OnTerminal, TakeError, SignalTerminal, OnRequestFinished
<1>9. CASE SendError \/ AbortDecision \/ Decide \/ \E t \in ChunkTasks : SendChunk(t) \/ Resume(t)
  <2>1. CASE SendError BY <2>1 DEF SendError
  <2>2. CASE AbortDecision \/ Decide BY <2>2 DEF AbortDecision, Decide
  <2>3. ASSUME NEW t \in ChunkTasks, SendChunk(t) PROVE ResultTypes' BY <2>3 DEF SendChunk
  <2>4. ASSUME NEW t \in ChunkTasks, Resume(t) PROVE ResultTypes' BY <2>4 DEF Resume
  <2> QED  BY <1>9, <2>1, <2>2, <2>3, <2>4
<1>10. CASE Cleanup
  BY <1>10 DEF Cleanup, CleanupWait, Destroy, FreeBuffer
<1>11. CASE AwaitHeaders \/ NextChunk \/ DropConsumer \/ DropReceivers \/ HandleCancel
  <2>1. CASE NextChunk
    <3>1. CASE body # <<>>
      <4>1. Tail(body) \in Seq({"chunk", "err"}) /\ Len(Tail(body)) = Len(body) - 1
        BY <3>1, HeadTailProperties
      <4>2. QED BY <2>1, <3>1, <4>1 DEF NextChunk
    <3>2. QED BY <2>1, <3>1 DEF NextChunk
  <2>2. CASE DropReceivers
    <3>1. body' \in Seq({"chunk", "err"}) /\ Len(body') = 0
      BY <2>2 DEF DropReceivers
    <3>2. QED BY <2>2, <3>1 DEF DropReceivers
  <2>3. CASE AwaitHeaders \/ DropConsumer \/ HandleCancel
    BY <2>3 DEF AwaitHeaders, DropConsumer, HandleCancel
  <2>4. QED BY <1>11, <2>1, <2>2, <2>3
<1>12. CASE UNCHANGED vars
  BY <1>12 DEF vars
<1>13. QED
  BY <1>1, <1>2, <1>3, <1>4, <1>5, <1>6, <1>7, <1>8, <1>9, <1>10, <1>11, <1>12
     DEF Next, Run, Step

-----------------------------------------------------------------------------
(* One turn at a time.                                                     *)

LEMMA TypesNext == Types /\ [Next]_vars => Types'
BY NetworkTypesNext, PlaceTypesNext, ControlTypesNext, ResultTypesNext DEF Types

LEMMA PlaceNext == PlaceTypes /\ PlaceInv /\ [Next]_vars => PlaceInv'
<1> SUFFICES ASSUME PlaceTypes, PlaceInv, [Next]_vars PROVE PlaceInv'
  OBVIOUS
<1> USE ActorsAre DEF PlaceTypes, PlaceInv, Goto, Leave, Resting, FollowError, control
<1>1. CASE Network
  BY <1>1 DEF Network, NetRedirect, NetHeaders, NetRead, NetEnd, NativeEnd
<1>2. ASSUME NEW c \in Callbacks, NEW p \in posted, Invoke(p, c) PROVE PlaceInv'
  BY <1>2 DEF Invoke
<1>3. ASSUME NEW a \in Actors, Lease(a) \/ CancelFlag(a) \/ CancelLock(a) \/ RecordError(a)
      PROVE  PlaceInv'
  BY <1>3 DEF Lease, CancelFlag, CancelLock, RecordError
<1>4. ASSUME NEW a \in Actors, CancelCall(a) PROVE PlaceInv'
  BY <1>4 DEF CancelCall, NativeCancel, NativeEnd
<1>5. ASSUME NEW a \in Actors, FollowLock(a) \/ FollowCall(a) \/ Read(a) \/ ForgetBuffer(a)
      PROVE  PlaceInv'
  BY <1>5 DEF FollowLock, FollowCall, Read, ForgetBuffer
<1>6. CASE Start \/ Recheck \/ SpawnCleanup
  BY <1>6 DEF Start, Recheck, SpawnCleanup
<1>7. CASE OnRedirect \/ OnResponseStarted \/ \E c \in ReadFrames : OnReadCompleted(c)
  BY <1>7 DEF OnRedirect, OnResponseStarted, OnReadCompleted
<1>8. CASE OnTerminal \/ TakeError \/ SignalTerminal \/ OnRequestFinished
  BY <1>8 DEF OnTerminal, TakeError, SignalTerminal, OnRequestFinished
<1>9. CASE SendError \/ AbortDecision \/ Decide \/ \E t \in ChunkTasks : SendChunk(t) \/ Resume(t)
  BY <1>9 DEF SendError, AbortDecision, Decide, SendChunk, Resume
<1>10. CASE Cleanup
  BY <1>10 DEF Cleanup, CleanupWait, Destroy, FreeBuffer
<1>11. CASE AwaitHeaders \/ NextChunk \/ DropConsumer \/ DropReceivers \/ HandleCancel
  BY <1>11 DEF AwaitHeaders, NextChunk, DropConsumer, DropReceivers, HandleCancel
<1>12. CASE UNCHANGED vars
  BY <1>12 DEF vars
<1>13. QED
  BY <1>1, <1>2, <1>3, <1>4, <1>5, <1>6, <1>7, <1>8, <1>9, <1>10, <1>11, <1>12
     DEF Next, Run, Step

LEMMA TurnKept ==
  ASSUME TurnInv, ns' = ns, posted' \subseteq posted \cup Terminal,
         \A a \in Actors : /\ Follows(a, pc'[a]) => Follows(a, pc[a])
                           /\ Reads(a, pc'[a]) => Reads(a, pc[a])
  PROVE  TurnInv'
<1> USE DEF TurnInv
<1>1. OneWaits'
  BY DEF OneWaits, Waits, Terminal
<1>2. OneHasTurn'
  BY DEF OneHasTurn, HasTurn
<1>3. NotBoth'
  BY DEF NotBoth, HasTurn, Waits, Terminal
<1>4. CronetWaits'
  BY DEF CronetWaits, Waits, Terminal
<1>5. QED BY <1>1, <1>2, <1>3, <1>4

\* Cronet calls back while nobody has the turn.
LEMMA NetworkTurn == Types /\ TurnInv /\ Network => TurnInv'
<1> SUFFICES ASSUME Types, TurnInv, Network PROVE TurnInv'
  OBVIOUS
<1> USE DEF Network, TurnInv, OneWaits, OneHasTurn, NotBoth, CronetWaits, HasTurn, Waits
<1>1. CASE NetRedirect
  BY <1>1 DEF NetRedirect
<1>2. CASE NetHeaders
  BY <1>2 DEF NetHeaders
<1>3. CASE NetRead
  BY <1>3 DEF NetRead
<1>4. CASE NetEnd
  BY <1>4, TurnKept DEF NetEnd, NativeEnd
<1>5. QED BY <1>1, <1>2, <1>3, <1>4

\* An actor takes the turn, and nobody else had or has it.
LEMMA TurnTaken ==
  ASSUME NEW c \in Actors,
         \A p \in posted' : ~Waits(p),
         \A a \in Actors \ {c} : ~HasTurn(a, pc'[a]),
         Follows(c, pc'[c]) => ns' = "awaitFollow",
         Reads(c, pc'[c]) => ns' = "awaitRead"
  PROVE  TurnInv'
<1>1. OneWaits' /\ NotBoth'
  BY DEF OneWaits, NotBoth
<1>2. OneHasTurn'
  BY DEF OneHasTurn
<1>3. CronetWaits'
  BY DEF CronetWaits, HasTurn
<1>4. QED BY <1>1, <1>2, <1>3 DEF TurnInv

\* A callback takes the turn with it.
LEMMA InvokeTurn ==
  ASSUME Types, TurnInv, NEW c \in Callbacks, NEW p \in posted, Invoke(p, c)
  PROVE  TurnInv'
<1>1. CASE pc' = pc
  BY <1>1, TurnKept DEF Invoke
<1>2. CASE pc' # pc
  <2>1. /\ ns' = ns
        /\ posted' = posted \ {p}
        /\ \A a \in Actors \ {c} : pc'[a] = pc[a]
        /\ pc'[c] \in {"entering", "enteringEmpty", "run", "runEmpty"}
        /\ c \in Actors
    BY <1>2, ActorsAre DEF Types, PlaceTypes, Invoke
  <2>2. CASE c \in Terminal
    <3>1. ~HasTurn(c, pc'[c])
      BY <2>1, <2>2, RequestAssumption DEF HasTurn, Follows, Reads, HasBuffer, Named, Terminal
    <3>2. QED BY <2>1, <3>1, TurnKept DEF HasTurn
  <2>3. CASE c \notin Terminal
    <3>1. /\ p \in {"redirect", "headers", "chunk", "empty"}
          /\ c \in IF p \in {"chunk", "empty"} THEN ReadFrames ELSE {p}
      BY <2>3 DEF Invoke, Types, NetworkTypes
    <3>2. /\ Waits(p)
          /\ Follows(c, pc'[c]) => p = "redirect"
          /\ Reads(c, pc'[c]) => p # "redirect"
      BY <2>1, <3>1, RequestAssumption DEF Waits, Follows, Reads, HasBuffer, Named
    <3>3. \A q \in posted' : ~Waits(q)
      BY <2>1, <3>2 DEF TurnInv, OneWaits
    <3>4. \A a \in Actors \ {c} : ~HasTurn(a, pc'[a])
      BY <2>1, <3>2 DEF TurnInv, NotBoth
    <3>5. ns' = IF p = "redirect" THEN "awaitFollow" ELSE "awaitRead"
      BY <2>1, <3>2 DEF TurnInv, CronetWaits
    <3>6. QED BY <2>1, <3>2, <3>3, <3>4, <3>5, TurnTaken
  <2>4. QED BY <2>2, <2>3
<1>3. QED BY <1>1, <1>2

\* Who has the turn has it alone.
LEMMA Alone ==
  ASSUME TurnInv, NEW c \in Actors, HasTurn(c, pc[c])
  PROVE  /\ \A p \in posted : ~Waits(p)
         /\ \A a \in Actors \ {c} : ~HasTurn(a, pc[a])
BY DEF TurnInv, NotBoth, OneHasTurn

LEMMA FollowTurn ==
  ASSUME Types, TurnInv, NEW a \in Actors, FollowCall(a)
  PROVE  TurnInv'
<1>1. HasTurn(a, pc[a])
  BY DEF FollowCall, HasTurn, Follows
<1>2. /\ posted' = posted
      /\ \A b \in Actors \ {a} : pc'[b] = pc[b]
      /\ ~HasTurn(a, pc'[a])
  BY RequestAssumption DEF FollowCall, Leave, Resting, FollowError, HasTurn, Follows, Reads,
          HasBuffer, Types, PlaceTypes
<1>3. QED BY <1>1, <1>2, Alone, TurnTaken DEF HasTurn

LEMMA ReadTurn ==
  ASSUME Types, TurnInv, NEW a \in Actors, Read(a)
  PROVE  TurnInv'
<1>1. HasTurn(a, pc[a])
  BY DEF Read, HasTurn, Reads, HasBuffer
<1>2. /\ posted' = posted
      /\ \A b \in Actors \ {a} : pc'[b] = pc[b]
      /\ ~HasTurn(a, pc'[a])
  BY DEF Read, HasTurn, Follows, Reads, HasBuffer, Types, PlaceTypes
<1>3. QED BY <1>1, <1>2, Alone, TurnTaken DEF HasTurn

\* on_redirect_received leaves a handler's decision to a task.
LEMMA RedirectTurn ==
  ASSUME Types, TurnInv, OnRedirect
  PROVE  TurnInv'
<1> USE ActorsAre, RequestAssumption DEF Types, PlaceTypes, network, Callbacks, Tasks, Named
<1>1. HasTurn("redirect", pc["redirect"]) /\ ns = "awaitFollow"
  BY DEF OnRedirect, HasTurn, Follows, TurnInv, CronetWaits
<1>2. ns' = ns /\ posted' = posted
  BY DEF OnRedirect
<1>3. CASE policy' = "Handler"
  <2>1. /\ \A b \in Actors \ {"redirect", "decision"} : pc'[b] = pc[b]
        /\ pc'["redirect"] = "idle" /\ pc'["decision"] = "deciding"
    BY <1>3 DEF OnRedirect
  <2>2. \A b \in Actors \ {"decision"} : ~HasTurn(b, pc'[b])
    BY <1>1, <2>1, Alone DEF HasTurn, Follows, Reads, HasBuffer
  <2>3. ~Reads("decision", pc'["decision"])
    BY <2>1 DEF Reads, HasBuffer
  <2>4. QED BY <1>1, <1>2, <2>2, <2>3, Alone, TurnTaken
<1>4. CASE policy' # "Handler"
  <2>1. /\ \A b \in Actors \ {"redirect"} : pc'[b] = pc[b]
        /\ pc'["redirect"] \in {"followLock", "failing"}
    BY <1>4 DEF OnRedirect
  <2>2. ~Reads("redirect", pc'["redirect"])
    BY <2>1 DEF Reads, HasBuffer
  <2>3. QED BY <1>1, <1>2, <2>1, <2>2, Alone, TurnTaken
<1>5. QED BY <1>3, <1>4

\* on_read_completed goes on itself, or leaves the chunk to a task.
LEMMA ReadCompletedTurn ==
  ASSUME Types, TurnInv, NEW c \in ReadFrames, OnReadCompleted(c)
  PROVE  TurnInv'
<1> USE ActorsAre, RequestAssumption DEF Types, PlaceTypes, network
<1>1. Reads(c, pc[c]) /\ HasTurn(c, pc[c]) /\ ns = "awaitRead"
  BY DEF OnReadCompleted, HasTurn, Reads, HasBuffer, TurnInv, CronetWaits
<1>2. ns' = ns /\ posted' = posted
  BY DEF OnReadCompleted
<1>3. ASSUME NEW t \in ChunkTasks, pc[t] = "idle", pc' = [pc EXCEPT ![c] = "idle", ![t] = "sending"]
      PROVE  TurnInv'
  <2>1. /\ \A b \in Actors \ {c, t} : pc'[b] = pc[b]
        /\ pc'[c] = "idle" /\ pc'[t] = "sending"
    BY <1>3
  <2>2. \A b \in Actors \ {t} : ~HasTurn(b, pc'[b])
    BY <1>1, <2>1, Alone DEF HasTurn, Follows, Reads, HasBuffer
  <2>3. ~Follows(t, pc'[t])
    BY <2>1 DEF Follows
  <2>4. QED BY <1>1, <1>2, <2>2, <2>3, Alone, TurnTaken
<1>4. ASSUME NEW place \in {"read", "failing"}, pc' = [pc EXCEPT ![c] = place]
      PROVE  TurnInv'
  <2>1. /\ \A b \in Actors \ {c} : pc'[b] = pc[b]
        /\ pc'[c] \in {"read", "failing"}
    BY <1>4
  <2>2. ~Follows(c, pc'[c])
    BY <2>1 DEF Follows
  <2>3. QED BY <1>1, <1>2, <2>1, <2>2, Alone, TurnTaken
<1>5. QED BY <1>3, <1>4 DEF OnReadCompleted

LEMMA TurnNext == Types /\ UnstartedInv /\ TurnInv /\ [Next]_vars => TurnInv'
<1> SUFFICES ASSUME Types, UnstartedInv, TurnInv, [Next]_vars PROVE TurnInv'
  OBVIOUS
<1> USE ActorsAre, RequestAssumption, TurnKept DEF Types, PlaceTypes, network, Goto, Leave, Resting,
        Follows, Reads, HasBuffer,
        Callbacks, Tasks, Terminal, Named
<1>1. CASE Network
  BY <1>1, NetworkTurn
<1>2. ASSUME NEW c \in Callbacks, NEW p \in posted, Invoke(p, c) PROVE TurnInv'
  BY <1>2, InvokeTurn
<1>3. ASSUME NEW a \in Actors, Lease(a) \/ CancelFlag(a) \/ CancelLock(a) \/ RecordError(a)
      PROVE  TurnInv'
  BY <1>3 DEF Lease, CancelFlag, CancelLock, RecordError
<1>4. ASSUME NEW a \in Actors, CancelCall(a) PROVE TurnInv'
  BY <1>4 DEF CancelCall, NativeCancel, NativeEnd
<1>5. ASSUME NEW a \in Actors, FollowLock(a) \/ FollowCall(a) \/ Read(a) \/ ForgetBuffer(a)
      PROVE  TurnInv'
  <2>1. CASE FollowLock(a)
    BY <2>1 DEF FollowLock, FollowError
  <2>2. CASE ForgetBuffer(a)
    BY <2>2 DEF ForgetBuffer
  <2>3. QED BY <1>5, <2>1, <2>2, FollowTurn, ReadTurn
<1>6. CASE Start \/ Recheck \/ SpawnCleanup
  <2>1. CASE Start
    <3>1. /\ posted = {} /\ posted' = {}
          /\ \A a \in Actors : ~HasTurn(a, pc'[a])
      BY <2>1 DEF Start, UnstartedInv, TurnInv, CronetWaits, HasTurn
    <3>2. QED BY <3>1, TurnTaken DEF HasTurn
  <2>2. CASE Recheck \/ SpawnCleanup
    BY <2>2 DEF Recheck, SpawnCleanup
  <2>3. QED BY <1>6, <2>1, <2>2
<1>7. CASE OnRedirect \/ OnResponseStarted \/ \E c \in ReadFrames : OnReadCompleted(c)
  <2>1. CASE OnResponseStarted
    BY <2>1 DEF OnResponseStarted
  <2>2. QED BY <1>7, <2>1, RedirectTurn, ReadCompletedTurn
<1>8. CASE OnTerminal \/ TakeError \/ SignalTerminal \/ OnRequestFinished
  BY <1>8 DEF OnTerminal, TakeError, SignalTerminal, OnRequestFinished
<1>9. CASE SendError \/ AbortDecision \/ Decide \/ \E t \in ChunkTasks : SendChunk(t) \/ Resume(t)
  BY <1>9 DEF SendError, AbortDecision, Decide, SendChunk, Resume
<1>10. CASE Cleanup
  BY <1>10 DEF Cleanup, CleanupWait, Destroy, FreeBuffer
<1>11. CASE AwaitHeaders \/ NextChunk \/ DropConsumer \/ DropReceivers \/ HandleCancel
  BY <1>11 DEF AwaitHeaders, NextChunk, DropConsumer, DropReceivers, HandleCancel
<1>12. CASE UNCHANGED vars
  BY <1>12 DEF vars
<1>13. QED
  BY <1>1, <1>2, <1>3, <1>4, <1>5, <1>6, <1>7, <1>8, <1>9, <1>10, <1>11, <1>12
     DEF Next, Run, Step

-----------------------------------------------------------------------------
(* The beginning and the end.                                              *)

LEMMA UnstartedNext == Types /\ PlaceInv /\ UnstartedInv /\ [Next]_vars => UnstartedInv'
<1> SUFFICES ASSUME Types, PlaceInv, UnstartedInv, [Next]_vars PROVE UnstartedInv'
  OBVIOUS
<1> USE ActorsAre, RequestAssumption DEF Types, PlaceTypes, PlaceInv, UnstartedInv, network, reader,
        Goto, Leave, Resting, FollowError, Named, Terminal, Callbacks, Tasks
<1>1. CASE Network
  BY <1>1 DEF Network, NetRedirect, NetHeaders, NetRead, NetEnd, NativeEnd
<1>2. ASSUME NEW c \in Callbacks, NEW p \in posted, Invoke(p, c) PROVE UnstartedInv'
  BY <1>2 DEF Invoke
<1>3. ASSUME NEW a \in Actors, Lease(a) \/ CancelFlag(a) \/ CancelLock(a) \/ RecordError(a)
      PROVE  UnstartedInv'
  BY <1>3 DEF Lease, CancelFlag, CancelLock, RecordError
<1>4. ASSUME NEW a \in Actors, CancelCall(a) PROVE UnstartedInv'
  BY <1>4 DEF CancelCall, NativeCancel, NativeEnd
<1>5. ASSUME NEW a \in Actors, FollowLock(a) \/ FollowCall(a) \/ Read(a) \/ ForgetBuffer(a)
      PROVE  UnstartedInv'
  BY <1>5 DEF FollowLock, FollowCall, Read, ForgetBuffer
<1>6. CASE Start \/ Recheck \/ SpawnCleanup
  BY <1>6 DEF Start, Recheck, SpawnCleanup
<1>7. CASE OnRedirect \/ OnResponseStarted \/ \E c \in ReadFrames : OnReadCompleted(c)
  <2>1. CASE OnRedirect
    BY <2>1 DEF OnRedirect
  <2>2. CASE OnResponseStarted
    BY <2>2 DEF OnResponseStarted
  <2>3. ASSUME NEW c \in ReadFrames, OnReadCompleted(c) PROVE UnstartedInv'
    <3>1. ns # "unstarted" /\ UNCHANGED <<ns, cleanup, consumer>>
      BY <2>3 DEF OnReadCompleted
    <3>2. c # "starter" /\ "starter" \notin ChunkTasks
      BY <2>3
    <3>3. pc'["starter"] = pc["starter"]
      BY <2>3, <3>2 DEF OnReadCompleted
    <3>4. QED BY <3>1, <3>3
  <2>4. QED BY <1>7, <2>1, <2>2, <2>3
<1>8. CASE OnTerminal \/ TakeError \/ SignalTerminal \/ OnRequestFinished
  BY <1>8 DEF OnTerminal, TakeError, SignalTerminal, OnRequestFinished
<1>9. CASE SendError \/ AbortDecision \/ Decide \/ \E t \in ChunkTasks : SendChunk(t) \/ Resume(t)
  BY <1>9 DEF SendError, AbortDecision, Decide, SendChunk, Resume
<1>10. CASE Cleanup
  BY <1>10 DEF Cleanup, CleanupWait, Destroy, FreeBuffer
<1>11. CASE AwaitHeaders \/ NextChunk \/ DropConsumer \/ DropReceivers \/ HandleCancel
  BY <1>11 DEF AwaitHeaders, NextChunk, DropConsumer, DropReceivers, HandleCancel
<1>12. CASE UNCHANGED vars
  BY <1>12 DEF vars
<1>13. QED
  BY <1>1, <1>2, <1>3, <1>4, <1>5, <1>6, <1>7, <1>8, <1>9, <1>10, <1>11, <1>12
     DEF Next, Run, Step

LEMMA EndNext == Types /\ PlaceInv /\ UnstartedInv /\ TurnInv /\ EndInv /\ [Next]_vars => EndInv'
<1> SUFFICES ASSUME Types, PlaceInv, UnstartedInv, TurnInv, EndInv, [Next]_vars PROVE EndInv'
  OBVIOUS
<1> USE ActorsAre, RequestAssumption DEF Types, PlaceTypes, UnstartedInv, EndInv, network, results,
        Goto, Leave, Resting, FollowError, Named, Terminal, Callbacks, Tasks
<1>1. CASE Network
  BY <1>1 DEF Network, NetRedirect, NetHeaders, NetRead, NetEnd, NativeEnd
<1>2. ASSUME NEW c \in Callbacks, NEW p \in posted, Invoke(p, c) PROVE EndInv'
  BY <1>2 DEF Invoke
<1>3. ASSUME NEW a \in Actors, Lease(a) \/ CancelFlag(a) \/ CancelLock(a) \/ RecordError(a)
      PROVE  EndInv'
  BY <1>3 DEF Lease, CancelFlag, CancelLock, RecordError
<1>4. ASSUME NEW a \in Actors, CancelCall(a) PROVE EndInv'
  BY <1>4 DEF CancelCall, NativeCancel, NativeEnd
<1>5. ASSUME NEW a \in Actors, FollowLock(a) \/ FollowCall(a) \/ Read(a) \/ ForgetBuffer(a)
      PROVE  EndInv'
  <2>1. CASE FollowCall(a)
    <3>1. ns = "awaitFollow"
      BY <2>1 DEF FollowCall, TurnInv, CronetWaits, Follows
    <3>2. QED BY <2>1, <3>1 DEF FollowCall
  <2>2. CASE Read(a)
    BY <2>2 DEF Read
  <2>3. CASE FollowLock(a) \/ ForgetBuffer(a)
    BY <2>3 DEF FollowLock, ForgetBuffer
  <2>4. QED BY <1>5, <2>1, <2>2, <2>3
<1>6. CASE Start \/ Recheck \/ SpawnCleanup
  BY <1>6 DEF Start, Recheck, SpawnCleanup
<1>7. CASE OnRedirect \/ OnResponseStarted \/ \E c \in ReadFrames : OnReadCompleted(c)
  BY <1>7 DEF OnRedirect, OnResponseStarted, OnReadCompleted
<1>8. CASE OnTerminal \/ TakeError \/ SignalTerminal \/ OnRequestFinished
  BY <1>8 DEF OnTerminal, TakeError, SignalTerminal, OnRequestFinished
<1>9. CASE SendError \/ AbortDecision \/ Decide \/ \E t \in ChunkTasks : SendChunk(t) \/ Resume(t)
  BY <1>9 DEF SendError, AbortDecision, Decide, SendChunk, Resume
<1>10. CASE Cleanup
  BY <1>10 DEF Cleanup, CleanupWait, Destroy, FreeBuffer
<1>11. CASE AwaitHeaders \/ NextChunk \/ DropConsumer \/ DropReceivers \/ HandleCancel
  BY <1>11 DEF AwaitHeaders, NextChunk, DropConsumer, DropReceivers, HandleCancel
<1>12. CASE UNCHANGED vars
  BY <1>12 DEF vars
<1>13. QED
  BY <1>1, <1>2, <1>3, <1>4, <1>5, <1>6, <1>7, <1>8, <1>9, <1>10, <1>11, <1>12
     DEF Next, Run, Step

LEMMA CleanupNext == PlaceInv /\ UnstartedInv /\ CleanupInv /\ [Next]_vars => CleanupInv'
<1> SUFFICES ASSUME PlaceInv, UnstartedInv, CleanupInv, [Next]_vars PROVE CleanupInv'
  OBVIOUS
<1> USE ActorsAre DEF UnstartedInv, CleanupInv, control, network, results
<1>1. CASE Network
  BY <1>1 DEF Network, NetRedirect, NetHeaders, NetRead, NetEnd, NativeEnd
<1>2. ASSUME NEW c \in Callbacks, NEW p \in posted, Invoke(p, c) PROVE CleanupInv'
  BY <1>2 DEF Invoke
<1>3. ASSUME NEW a \in Actors, Lease(a) \/ CancelFlag(a) \/ CancelLock(a) \/ RecordError(a)
      PROVE  CleanupInv'
  BY <1>3 DEF Lease, CancelFlag, CancelLock, RecordError
<1>4. ASSUME NEW a \in Actors, CancelCall(a) PROVE CleanupInv'
  BY <1>4 DEF CancelCall, NativeCancel, NativeEnd
<1>5. ASSUME NEW a \in Actors, FollowLock(a) \/ FollowCall(a) \/ Read(a) \/ ForgetBuffer(a)
      PROVE  CleanupInv'
  <2>1. CASE FollowCall(a)
    <3>1. ns # "unstarted"
      BY <2>1 DEF FollowCall, PlaceInv, UnstartedInv, Callbacks, Tasks
    <3>2. QED BY <2>1, <3>1 DEF FollowCall
  <2>2. CASE Read(a)
    BY <2>2 DEF Read
  <2>3. CASE FollowLock(a) \/ ForgetBuffer(a)
    BY <2>3 DEF FollowLock, ForgetBuffer
  <2>4. QED BY <1>5, <2>1, <2>2, <2>3
<1>6. CASE Start \/ Recheck \/ SpawnCleanup
  <2>1. CASE Start
    BY <2>1 DEF Start
  <2>2. CASE Recheck
    BY <2>2 DEF Recheck
  <2>3. CASE SpawnCleanup
    BY <2>3 DEF SpawnCleanup, Goto
  <2>4. QED BY <1>6, <2>1, <2>2, <2>3
<1>7. CASE OnRedirect \/ OnResponseStarted \/ \E c \in ReadFrames : OnReadCompleted(c)
  BY <1>7 DEF OnRedirect, OnResponseStarted, OnReadCompleted
<1>8. CASE OnTerminal \/ TakeError \/ SignalTerminal \/ OnRequestFinished
  BY <1>8 DEF OnTerminal, TakeError, SignalTerminal, OnRequestFinished
<1>9. CASE SendError \/ AbortDecision \/ Decide \/ \E t \in ChunkTasks : SendChunk(t) \/ Resume(t)
  BY <1>9 DEF SendError, AbortDecision, Decide, SendChunk, Resume
<1>10. CASE Cleanup
  BY <1>10 DEF Cleanup, CleanupWait, Destroy, FreeBuffer
<1>11. CASE AwaitHeaders \/ NextChunk \/ DropConsumer \/ DropReceivers \/ HandleCancel
  BY <1>11 DEF AwaitHeaders, NextChunk, DropConsumer, DropReceivers, HandleCancel
<1>12. CASE UNCHANGED vars
  BY <1>12 DEF vars
<1>13. QED
  BY <1>1, <1>2, <1>3, <1>4, <1>5, <1>6, <1>7, <1>8, <1>9, <1>10, <1>11, <1>12
     DEF Next, Run, Step

-----------------------------------------------------------------------------
(* The gate and the leases.                                                *)

LEMMA GateNext == Types /\ PlaceInv /\ GateInv /\ [Next]_vars => GateInv'
<1> SUFFICES ASSUME Types, PlaceInv, GateInv, [Next]_vars PROVE GateInv'
  OBVIOUS
<1> USE ActorsAre, RequestAssumption DEF Types, PlaceTypes, ControlTypes, PlaceInv, GateInv, control,
        Goto, Leave, Resting, FollowError, Named, Terminal, Callbacks, Tasks
<1>1. CASE Network
  BY <1>1 DEF Network, NetRedirect, NetHeaders, NetRead, NetEnd, NativeEnd
<1>2. ASSUME NEW c \in Callbacks, NEW p \in posted, Invoke(p, c) PROVE GateInv'
  BY <1>2 DEF Invoke
<1>3. ASSUME NEW a \in Actors, Lease(a) \/ CancelFlag(a) \/ CancelLock(a) \/ RecordError(a)
      PROVE  GateInv'
  BY <1>3 DEF Lease, CancelFlag, CancelLock, RecordError
<1>4. ASSUME NEW a \in Actors, CancelCall(a) PROVE GateInv'
  BY <1>4 DEF CancelCall, NativeCancel, NativeEnd
<1>5. ASSUME NEW a \in Actors, FollowLock(a) \/ FollowCall(a) \/ Read(a) \/ ForgetBuffer(a)
      PROVE  GateInv'
  BY <1>5 DEF FollowLock, FollowCall, Read, ForgetBuffer
<1>6. CASE Start \/ Recheck \/ SpawnCleanup
  BY <1>6 DEF Start, Recheck, SpawnCleanup
<1>7. CASE OnRedirect \/ OnResponseStarted \/ \E c \in ReadFrames : OnReadCompleted(c)
  BY <1>7 DEF OnRedirect, OnResponseStarted, OnReadCompleted
<1>8. CASE OnTerminal \/ TakeError \/ SignalTerminal \/ OnRequestFinished
  BY <1>8 DEF OnTerminal, TakeError, SignalTerminal, OnRequestFinished
<1>9. CASE SendError \/ AbortDecision \/ Decide \/ \E t \in ChunkTasks : SendChunk(t) \/ Resume(t)
  BY <1>9 DEF SendError, AbortDecision, Decide, SendChunk, Resume
<1>10. CASE Cleanup
  BY <1>10 DEF Cleanup, CleanupWait, Destroy, FreeBuffer
<1>11. CASE AwaitHeaders \/ NextChunk \/ DropConsumer \/ DropReceivers \/ HandleCancel
  BY <1>11 DEF AwaitHeaders, NextChunk, DropConsumer, DropReceivers, HandleCancel
<1>12. CASE UNCHANGED vars
  BY <1>12 DEF vars
<1>13. QED
  BY <1>1, <1>2, <1>3, <1>4, <1>5, <1>6, <1>7, <1>8, <1>9, <1>10, <1>11, <1>12
     DEF Next, Run, Step

LEMMA LeaseNext ==
  ASSUME Types, UnstartedInv, EndInv, CleanupInv, LeaseInv, [Next]_vars
  PROVE  LeaseInv'
<1> USE ActorsAre, RequestAssumption DEF Types, PlaceTypes, LeaseInv, Goto, Leave, Resting,
        FollowError, Named, Terminal, Callbacks, Tasks
<1>1. CASE Network
  BY <1>1 DEF Network, NetRedirect, NetHeaders, NetRead, NetEnd, NativeEnd
<1>2. ASSUME NEW c \in Callbacks, NEW p \in posted, Invoke(p, c) PROVE LeaseInv'
  <2>1. CASE outcome # "none" /\ p \notin Terminal
    BY <1>2, <2>1 DEF Invoke
  <2>2. CASE outcome = "none" \/ p \in Terminal
    <3>1. p \in posted /\ p \in {"terminal", "finished"} => c = p
      BY <1>2 DEF Invoke
    <3>2. cleanup \notin {"destroy", "buffer", "done"}
      BY <2>2, <3>1 DEF UnstartedInv, EndInv, CleanupInv
    <3>3. UNCHANGED <<cleanup, late>>
      BY <1>2 DEF Invoke
    <3>4. QED BY <3>2, <3>3
  <2>3. QED BY <2>1, <2>2
<1>3. ASSUME NEW a \in Actors, Lease(a) \/ CancelFlag(a) \/ CancelLock(a) \/ RecordError(a)
      PROVE  LeaseInv'
  BY <1>3 DEF Lease, CancelFlag, CancelLock, RecordError
<1>4. ASSUME NEW a \in Actors, CancelCall(a) PROVE LeaseInv'
  BY <1>4 DEF CancelCall, NativeCancel, NativeEnd
<1>5. ASSUME NEW a \in Actors, FollowLock(a) \/ FollowCall(a) \/ Read(a) \/ ForgetBuffer(a)
      PROVE  LeaseInv'
  BY <1>5 DEF FollowLock, FollowCall, Read, ForgetBuffer
<1>6. CASE Start \/ Recheck \/ SpawnCleanup
  BY <1>6 DEF Start, Recheck, SpawnCleanup, UnstartedInv
<1>7. CASE OnRedirect \/ OnResponseStarted \/ \E c \in ReadFrames : OnReadCompleted(c)
  BY <1>7 DEF OnRedirect, OnResponseStarted, OnReadCompleted
<1>8. CASE OnTerminal \/ TakeError \/ SignalTerminal \/ OnRequestFinished
  BY <1>8 DEF OnTerminal, TakeError, SignalTerminal, OnRequestFinished
<1>9. CASE SendError \/ AbortDecision \/ Decide \/ \E t \in ChunkTasks : SendChunk(t) \/ Resume(t)
  BY <1>9 DEF SendError, AbortDecision, Decide, SendChunk, Resume
<1>10. CASE Cleanup
  BY <1>10 DEF Cleanup, CleanupWait, Destroy, FreeBuffer, Leased
<1>11. CASE AwaitHeaders \/ NextChunk \/ DropConsumer \/ DropReceivers \/ HandleCancel
  BY <1>11 DEF AwaitHeaders, NextChunk, DropConsumer, DropReceivers, HandleCancel
<1>12. CASE UNCHANGED vars
  BY <1>12 DEF vars
<1>13. QED
  BY <1>1, <1>2, <1>3, <1>4, <1>5, <1>6, <1>7, <1>8, <1>9, <1>10, <1>11, <1>12
     DEF Next, Run, Step

-----------------------------------------------------------------------------
(* The buffer.                                                             *)

LEMMA BufferKept ==
  ASSUME BufferInv, raw' = raw, owner = "app" => owner' = "app", recorded' = recorded,
         cleanup = "done" => cleanup' = "done",
         late # {} => late' # {},
         \A a \in Actors : /\ HasBuffer(a, pc'[a]) => HasBuffer(a, pc[a])
                           /\ pc[a] \in {"forget", "forgetFailed"} => pc'[a] = pc[a]
  PROVE  BufferInv'
<1> USE DEF BufferInv
<1>1. OwnedInv'
  BY DEF OwnedInv
<1>2. RecordedInv'
  BY DEF RecordedInv
<1>3. QED BY <1>1, <1>2

LEMMA BufferNext ==
  ASSUME Types, PlaceInv, TurnInv, UnstartedInv, CleanupInv, LeaseInv, BufferInv,
         [Next]_vars
  PROVE  BufferInv'
<1> USE ActorsAre, RequestAssumption, BufferKept DEF Types, PlaceTypes, HasBuffer, control, buffer,
        results, Goto, Leave, Resting, FollowError, Named, Terminal, Callbacks, Tasks
<1>1. CASE Network
  BY <1>1 DEF Network, NetRedirect, NetHeaders, NetRead, NetEnd, NativeEnd
<1>2. ASSUME NEW c \in Callbacks, NEW p \in posted, Invoke(p, c) PROVE BufferInv'
  <2>1. CASE c \in ReadFrames /\ owner' = "app"
    BY <2>1 DEF BufferInv, OwnedInv, RecordedInv
  <2>2. CASE ~(c \in ReadFrames /\ owner' = "app")
    BY <1>2, <2>2 DEF Invoke
  <2>3. QED BY <2>1, <2>2
<1>3. ASSUME NEW a \in Actors, Lease(a) \/ CancelFlag(a) \/ CancelLock(a) \/ RecordError(a)
      PROVE  BufferInv'
  BY <1>3 DEF Lease, CancelFlag, CancelLock, RecordError
<1>4. ASSUME NEW a \in Actors, CancelCall(a) PROVE BufferInv'
  BY <1>4 DEF CancelCall, NativeCancel, NativeEnd
<1>5. ASSUME NEW a \in Actors, FollowLock(a) \/ FollowCall(a) \/ Read(a) \/ ForgetBuffer(a)
      PROVE  BufferInv'
  <2>1. CASE FollowLock(a)
    BY <2>1 DEF FollowLock
  <2>2. CASE FollowCall(a)
    BY <2>2 DEF FollowCall
  <2>3. CASE Read(a)
    <3>1. \A b \in Actors \ {a} : pc'[b] = pc[b] /\ ~HasBuffer(b, pc'[b])
      BY <2>3, Alone DEF Read, HasTurn, Reads
    <3>2. CASE pc'[a] = "failing"
      BY <2>3, <3>1, <3>2 DEF Read
    <3>3. CASE pc'[a] \in {"forget", "forgetFailed"}
      BY <3>1, <3>3 DEF BufferInv, OwnedInv, RecordedInv
    <3>4. QED BY <2>3, <3>2, <3>3 DEF Read
  <2>4. CASE ForgetBuffer(a)
    <3>1. /\ recorded' = FALSE /\ UNCHANGED <<raw, owner>>
          /\ \A b \in Actors : HasBuffer(b, pc'[b]) => HasBuffer(b, pc[b])
      BY <2>4 DEF ForgetBuffer
    <3>2. QED BY <3>1 DEF BufferInv, OwnedInv, RecordedInv
  <2>5. QED BY <1>5, <2>1, <2>2, <2>3, <2>4
<1>6. CASE Start \/ Recheck \/ SpawnCleanup
  BY <1>6 DEF Start, Recheck, SpawnCleanup, UnstartedInv
<1>7. CASE OnRedirect \/ OnResponseStarted \/ \E c \in ReadFrames : OnReadCompleted(c)
  <2>1. CASE OnRedirect
    BY <2>1 DEF OnRedirect
  <2>2. CASE OnResponseStarted
    <3>1. CASE pc'["headers"] = "failing"
      BY <2>2, <3>1 DEF OnResponseStarted
    <3>2. CASE owner' = "app"
      BY <3>2 DEF BufferInv, OwnedInv, RecordedInv
    <3>3. QED BY <2>2, <3>1, <3>2 DEF OnResponseStarted
  <2>3. ASSUME NEW c \in ReadFrames, OnReadCompleted(c) PROVE BufferInv'
    <3>1. UNCHANGED <<raw, owner, late, cleanup>>
      BY <2>3 DEF OnReadCompleted
    <3>2. CASE raw
      <4>1. owner = "app"
        BY <2>3, <3>2 DEF OnReadCompleted, BufferInv, OwnedInv
      <4>2. QED BY <3>1, <4>1 DEF BufferInv, OwnedInv, RecordedInv
    <3>3. CASE ~raw
      <4>1. late # {}
        BY <2>3, <3>3 DEF OnReadCompleted, LeaseInv, CleanupInv
      <4>2. QED BY <3>1, <3>3, <4>1 DEF BufferInv, OwnedInv, RecordedInv
    <3>4. QED BY <3>2, <3>3 DEF ControlTypes
  <2>4. QED BY <1>7, <2>1, <2>2, <2>3
<1>8. CASE OnTerminal \/ TakeError \/ SignalTerminal \/ OnRequestFinished
  <2>1. CASE OnTerminal
    BY <2>1 DEF OnTerminal
  <2>2. CASE TakeError
    BY <2>2 DEF TakeError, PlaceInv
  <2>3. CASE SignalTerminal \/ OnRequestFinished
    BY <2>3 DEF SignalTerminal, OnRequestFinished
  <2>4. QED BY <1>8, <2>1, <2>2, <2>3
<1>9. CASE SendError \/ AbortDecision \/ Decide \/ \E t \in ChunkTasks : SendChunk(t) \/ Resume(t)
  BY <1>9 DEF SendError, AbortDecision, Decide, SendChunk, Resume
<1>10. CASE Cleanup
  <2>1. CASE CleanupWait
    BY <2>1 DEF CleanupWait, LeaseInv
  <2>2. CASE Destroy
    BY <2>2 DEF Destroy, BufferInv, OwnedInv, RecordedInv
  <2>3. CASE FreeBuffer
    BY <2>3 DEF FreeBuffer, CleanupInv, BufferInv, OwnedInv, RecordedInv
  <2>4. QED BY <1>10, <2>1, <2>2, <2>3 DEF Cleanup
<1>11. CASE AwaitHeaders \/ NextChunk \/ DropConsumer \/ DropReceivers \/ HandleCancel
  <2>1. CASE AwaitHeaders \/ NextChunk \/ DropReceivers
    BY <2>1 DEF AwaitHeaders, NextChunk, DropReceivers
  <2>2. CASE DropConsumer
    BY <2>2 DEF DropConsumer, PlaceInv
  <2>3. CASE HandleCancel
    BY <2>3 DEF HandleCancel
  <2>4. QED BY <1>11, <2>1, <2>2, <2>3
<1>12. CASE UNCHANGED vars
  BY <1>12 DEF vars
<1>13. QED
  BY <1>1, <1>2, <1>3, <1>4, <1>5, <1>6, <1>7, <1>8, <1>9, <1>10, <1>11, <1>12
     DEF Next, Run, Step

-----------------------------------------------------------------------------
(* The chunks and the error.                                               *)

\* Who was told of an error or has left stays so.
LEMMA SoundNext == Types /\ UnstartedInv /\ [Next]_vars => (Sound' => Sound)
<1> SUFFICES ASSUME Types, UnstartedInv, [Next]_vars PROVE (Sound' => Sound)
  OBVIOUS
<1> USE DEF Types, UnstartedInv, Sound, reader, Goto
<1>1. CASE Network
  BY <1>1 DEF Network, NetRedirect, NetHeaders, NetRead, NetEnd, NativeEnd
<1>2. ASSUME NEW c \in Callbacks, NEW p \in posted, Invoke(p, c) PROVE (Sound' => Sound)
  BY <1>2 DEF Invoke
<1>3. ASSUME NEW a \in Actors, Lease(a) \/ CancelFlag(a) \/ CancelLock(a) \/ RecordError(a)
      PROVE  (Sound' => Sound)
  BY <1>3 DEF Lease, CancelFlag, CancelLock, RecordError
<1>4. ASSUME NEW a \in Actors, CancelCall(a) PROVE (Sound' => Sound)
  BY <1>4 DEF CancelCall, NativeCancel, NativeEnd
<1>5. ASSUME NEW a \in Actors, FollowLock(a) \/ FollowCall(a) \/ Read(a) \/ ForgetBuffer(a)
      PROVE  (Sound' => Sound)
  BY <1>5 DEF FollowLock, FollowCall, Read, ForgetBuffer
<1>6. CASE Start \/ Recheck \/ SpawnCleanup
  BY <1>6 DEF Start, Recheck, SpawnCleanup
<1>7. CASE OnRedirect \/ OnResponseStarted \/ \E c \in ReadFrames : OnReadCompleted(c)
  BY <1>7 DEF OnRedirect, OnResponseStarted, OnReadCompleted
<1>8. CASE OnTerminal \/ TakeError \/ SignalTerminal \/ OnRequestFinished
  BY <1>8 DEF OnTerminal, TakeError, SignalTerminal, OnRequestFinished
<1>9. CASE SendError \/ AbortDecision \/ Decide \/ \E t \in ChunkTasks : SendChunk(t) \/ Resume(t)
  <2>1. ASSUME NEW e \in {"chunk", "err"}, body' = Append(body, e), consumer' = consumer
        PROVE  Sound' => Sound
    <3>1. Len(body') = Len(body) + 1 /\ \A i \in 1..Len(body) : body'[i] = body[i]
      BY <2>1 DEF ResultTypes
    <3>2. QED BY <2>1, <3>1 DEF AllChunks, ResultTypes
  <2>2. (consumer' = consumer) /\ (body' = body \/ \E e \in {"chunk", "err"} : body' = Append(body, e))
    BY <1>9 DEF SendError, AbortDecision, Decide, SendChunk, Resume
  <2>3. QED BY <2>1, <2>2
<1>10. CASE Cleanup
  BY <1>10 DEF Cleanup, CleanupWait, Destroy, FreeBuffer
<1>11. CASE AwaitHeaders \/ NextChunk \/ DropConsumer \/ DropReceivers \/ HandleCancel
  <2>1. CASE NextChunk
    <3>1. ASSUME body # <<>>, Head(body) = "chunk", body' = Tail(body), consumer' = consumer
          PROVE  Sound' => Sound
      <4>1. /\ Len(Tail(body)) = Len(body) - 1
            /\ \A i \in 1..Len(Tail(body)) : Tail(body)[i] = body[i + 1]
            /\ body[1] = "chunk" /\ Len(body) \in Nat \ {0}
        BY <3>1, HeadTailProperties, Head(body) = body[1], Len(body) # 0 DEF ResultTypes
      <4>2. \A i \in 1..Len(body) : i = 1 \/ (i - 1 \in 1..Len(Tail(body)) /\ body[i] = Tail(body)[i - 1])
        BY <4>1
      <4>3. QED BY <3>1, <4>1, <4>2 DEF AllChunks
    <3>2. CASE consumer' = "errored"
      BY <3>2
    <3>3. CASE body' = body /\ consumer = "body"
      BY <3>3
    <3>4. QED BY <2>1, <3>1, <3>2, <3>3 DEF NextChunk
  <2>2. CASE AwaitHeaders \/ DropConsumer \/ DropReceivers \/ HandleCancel
    BY <2>2 DEF AwaitHeaders, DropConsumer, DropReceivers, HandleCancel
  <2>3. QED BY <1>11, <2>1, <2>2
<1>12. CASE UNCHANGED vars
  BY <1>12 DEF vars
<1>13. QED
  BY <1>1, <1>2, <1>3, <1>4, <1>5, <1>6, <1>7, <1>8, <1>9, <1>10, <1>11, <1>12
     DEF Next, Run, Step

LEMMA ErrorKept ==
  ASSUME ErrorInv, ~Sound => ~Sound', outcome' = outcome,
         "terminal" \in posted => "terminal" \in posted',
         pc["terminal"] \in {"entering", "run", "taking"} =>
           pc'["terminal"] \in {"entering", "run", "taking"},
         pc["error"] = "sending" => pc'["error"] = "sending"
  PROVE  ErrorInv'
BY DEF ErrorInv

LEMMA ErrorNext == Types /\ UnstartedInv /\ ErrorInv /\ [Next]_vars => ErrorInv'
<1> SUFFICES ASSUME Types, UnstartedInv, ErrorInv, [Next]_vars PROVE ErrorInv'
  OBVIOUS
<1> USE ActorsAre, RequestAssumption, ErrorKept DEF Types, PlaceTypes, network, Goto, Leave, Resting,
        FollowError, Named, Terminal
<1>0. ~Sound => ~Sound'
  BY SoundNext
<1>1. CASE Network
  BY <1>0, <1>1 DEF ErrorInv, Network, NetRedirect, NetHeaders, NetRead, NetEnd, NativeEnd
<1>2. ASSUME NEW c \in Callbacks, NEW p \in posted, Invoke(p, c) PROVE ErrorInv'
  <2>1. CASE p = "terminal"
    <3>1. CASE pc' = pc
      BY <1>2, <2>1, <3>1 DEF Invoke
    <3>2. CASE pc'["terminal"] \in {"entering", "run"}
      BY <3>2 DEF ErrorInv
    <3>3. QED BY <1>2, <2>1, <3>1, <3>2 DEF Invoke
  <2>2. CASE p # "terminal"
    BY <1>0, <1>2, <2>2 DEF Invoke
  <2>3. QED BY <2>1, <2>2
<1>3. ASSUME NEW a \in Actors, Lease(a) \/ CancelFlag(a) \/ CancelLock(a) \/ RecordError(a)
      PROVE  ErrorInv'
  BY <1>0, <1>3 DEF Lease, CancelFlag, CancelLock, RecordError
<1>4. ASSUME NEW a \in Actors, CancelCall(a) PROVE ErrorInv'
  BY <1>0, <1>4 DEF ErrorInv, CancelCall, NativeCancel, NativeEnd
<1>5. ASSUME NEW a \in Actors, FollowLock(a) \/ FollowCall(a) \/ Read(a) \/ ForgetBuffer(a)
      PROVE  ErrorInv'
  BY <1>0, <1>5 DEF FollowLock, FollowCall, Read, ForgetBuffer
<1>6. CASE Start \/ Recheck \/ SpawnCleanup
  BY <1>0, <1>6 DEF Start, Recheck, SpawnCleanup
<1>7. CASE OnRedirect \/ OnResponseStarted \/ \E c \in ReadFrames : OnReadCompleted(c)
  BY <1>0, <1>7 DEF OnRedirect, OnResponseStarted, OnReadCompleted
<1>8. CASE OnTerminal \/ TakeError \/ SignalTerminal \/ OnRequestFinished
  <2>1. CASE TakeError
    <3>1. CASE outcome = "succeeded"
      BY <2>1, <3>1 DEF TakeError, ErrorInv
    <3>2. CASE outcome # "succeeded"
      BY <2>1, <3>2 DEF TakeError, ErrorInv
    <3>3. QED BY <3>1, <3>2
  <2>2. CASE OnTerminal \/ SignalTerminal \/ OnRequestFinished
    BY <1>0, <2>2 DEF OnTerminal, SignalTerminal, OnRequestFinished
  <2>3. QED BY <1>8, <2>1, <2>2
<1>9. CASE SendError \/ AbortDecision \/ Decide \/ \E t \in ChunkTasks : SendChunk(t) \/ Resume(t)
  <2>1. CASE SendError
    <3>1. CASE ReceiverGone
      BY <2>1, <3>1, <1>0 DEF SendError, ReceiverGone, Sound, ErrorInv
    <3>2. CASE ~ReceiverGone
      <4>1. body' = Append(body, "err") /\ Len(body) \in Nat /\ Len(body') = Len(body) + 1
            /\ body'[Len(body) + 1] = "err"
        BY <2>1, <3>2 DEF SendError, ResultTypes
      <4>2. ~Sound'
        BY <4>1 DEF Sound, AllChunks
      <4>3. QED BY <4>2 DEF ErrorInv
    <3>3. QED BY <3>1, <3>2
  <2>2. CASE AbortDecision \/ Decide \/ \E t \in ChunkTasks : SendChunk(t) \/ Resume(t)
    BY <1>0, <2>2 DEF AbortDecision, Decide, SendChunk, Resume
  <2>3. QED BY <1>9, <2>1, <2>2
<1>10. CASE Cleanup
  BY <1>0, <1>10 DEF Cleanup, CleanupWait, Destroy, FreeBuffer
<1>11. CASE AwaitHeaders \/ NextChunk \/ DropConsumer \/ DropReceivers \/ HandleCancel
  BY <1>0, <1>11 DEF AwaitHeaders, NextChunk, DropConsumer, DropReceivers, HandleCancel
<1>12. CASE UNCHANGED vars
  BY <1>0, <1>12 DEF vars
<1>13. QED
  BY <1>1, <1>2, <1>3, <1>4, <1>5, <1>6, <1>7, <1>8, <1>9, <1>10, <1>11, <1>12
     DEF Next, Run, Step

\* What the chunks' account rests on.
Account == Types /\ UnstartedInv /\ TurnInv /\ AccountInv

LEMMA AccountKept ==
  ASSUME AccountInv, Sound' => Sound, ns' = ns, produced' = produced,
         Sound' => delivered' + Len(body') = delivered + Len(body),
         posted' \subseteq posted \cup Terminal,
         \A a \in Actors :
           HasTurn(a, pc'[a]) => HasTurn(a, pc[a]) /\ (Carries(a, pc'[a]) <=> Carries(a, pc[a]))
  PROVE  AccountInv'
<1> SUFFICES ASSUME Sound' PROVE SettledInv' /\ PostedInv' /\ HeldInv'
  BY DEF AccountInv
<1>1. SettledInv /\ PostedInv /\ HeldInv /\ delivered' + Len(body') = delivered + Len(body)
  BY DEF AccountInv
<1>2. SettledInv'
  BY <1>1 DEF SettledInv, InAll
<1>3. PostedInv'
  BY <1>1 DEF PostedInv, InAll, Waits, Terminal
<1>4. HeldInv'
  BY <1>1 DEF HeldInv, InAll
<1>5. QED BY <1>2, <1>3, <1>4

\* One actor has the turn, or none: it accounts for what is missing.
LEMMA AccountTaken ==
  ASSUME NEW c \in Actors,
         \A p \in posted' : ~Waits(p),
         \A a \in Actors \ {c} : ~HasTurn(a, pc'[a]),
         Carries(c, pc'[c]) => ns' = "awaitRead",
         Sound' => produced' = delivered' + Len(body') + IF Carries(c, pc'[c]) THEN 1 ELSE 0
  PROVE  AccountInv'
<1> SUFFICES ASSUME Sound' PROVE SettledInv' /\ PostedInv' /\ HeldInv'
  BY DEF AccountInv
<1>1. SettledInv'
  BY DEF SettledInv, InAll
<1>2. PostedInv'
  BY DEF PostedInv
<1>3. HeldInv'
  BY DEF HeldInv, InAll
<1>4. QED BY <1>1, <1>2, <1>3

LEMMA NetworkAccount ==
  ASSUME Account, Network
  PROVE  AccountInv'
<1>0. Sound' <=> Sound
  BY DEF Network, Sound, reader
<1>1. CASE NetRedirect \/ NetHeaders \/ NetRead
  <2>1. /\ \A a \in Actors : ~HasTurn(a, pc'[a])
        /\ \A p \in posted : ~Waits(p)
        /\ Sound => InAll(0)
    BY <1>1 DEF Account, TurnInv, CronetWaits, HasTurn, AccountInv, SettledInv, Network, NetRedirect,
            NetHeaders, NetRead
  <2>2. HeldInv'
    BY <2>1 DEF HeldInv
  <2>3. Sound => PostedInv'
    <3>1. CASE NetRedirect
      BY <2>1, <3>1 DEF NetRedirect, PostedInv, InAll, Network, reader
    <3>2. CASE NetHeaders
      BY <2>1, <3>2 DEF NetHeaders, PostedInv, InAll, Network, reader
    <3>3. CASE NetRead
      BY <2>1, <3>3 DEF NetRead, PostedInv, InAll, Network, reader, Account, Types, NetworkTypes,
              ResultTypes
    <3>4. QED BY <1>1, <3>1, <3>2, <3>3
  <2>4. Sound => SettledInv'
    BY <1>1, <2>1 DEF NetRedirect, NetHeaders, NetRead, SettledInv, InAll, Network, reader
  <2>5. QED BY <1>0, <2>2, <2>3, <2>4 DEF AccountInv
<1>2. CASE NetEnd
  BY <1>0, <1>2, AccountKept DEF NetEnd, NativeEnd, Network, reader, Account
<1>3. QED BY <1>1, <1>2 DEF Network

LEMMA InvokeAccount ==
  ASSUME Account, NEW c \in Callbacks, NEW p \in posted, Invoke(p, c)
  PROVE  AccountInv'
<1>0. (Sound' <=> Sound) /\ c \in Actors /\ UNCHANGED <<ns, produced, delivered, body>>
  BY ActorsAre DEF Invoke, Sound, reader
<1>1. CASE ~Waits(p) \/ pc' = pc
  <2>1. p \in Terminal \/ pc' = pc
    BY <1>1 DEF Account, Types, NetworkTypes, Waits
  <2>2. \A a \in Actors : HasTurn(a, pc'[a]) => HasTurn(a, pc[a]) /\ pc'[a] = pc[a]
    BY <2>1, RequestAssumption
       DEF Invoke, HasTurn, Follows, Reads, HasBuffer, Terminal, Named, Account, Types, PlaceTypes
  <2>3. posted' \subseteq posted
    BY DEF Invoke
  <2>4. QED BY <1>0, <2>2, <2>3, AccountKept DEF Account
<1>2. CASE Waits(p) /\ pc' # pc
  <2>1. \A q \in posted' : ~Waits(q)
    BY <1>2 DEF Invoke, Account, TurnInv, OneWaits
  <2>2. \A a \in Actors \ {c} : ~HasTurn(a, pc'[a])
    BY <1>2 DEF Invoke, Account, TurnInv, NotBoth, Types, PlaceTypes
  <2>3. Carries(c, pc'[c]) <=> p = "chunk"
    BY <1>0, <1>2, RequestAssumption DEF Invoke, Waits, Carries, Named, Account, Types, PlaceTypes
  <2>4. Sound => InAll(IF p = "chunk" THEN 1 ELSE 0)
    BY <1>2 DEF Account, AccountInv, PostedInv
  <2>5. p = "chunk" => ns = "awaitRead"
    BY <1>2 DEF Account, TurnInv, CronetWaits
  <2>6. QED BY <1>0, <2>1, <2>2, <2>3, <2>4, <2>5, AccountTaken DEF InAll
<1>3. QED BY <1>1, <1>2

\* Who makes Cronet go on has nothing in hand.
LEMMA GoOnAccount ==
  ASSUME Account, NEW a \in Actors, FollowCall(a) \/ Read(a)
  PROVE  AccountInv'
<1>1. /\ HasTurn(a, pc[a])
      /\ ~Carries(a, pc[a])
      /\ pc[a] \in {"followCall", "read"}
  BY DEF FollowCall, Read, HasTurn, Follows, Reads, HasBuffer, Carries
<1>2. /\ \A b \in Actors \ {a} : ~HasTurn(b, pc'[b])
      /\ \A p \in posted' : ~Waits(p)
  BY <1>1, Alone DEF FollowCall, Read, Leave, Account, Types, PlaceTypes
<1>3. ~Carries(a, pc'[a])
  BY DEF FollowCall, Read, Leave, Resting, FollowError, Carries, Account, Types, PlaceTypes
<1>4. (Sound' => Sound) /\ UNCHANGED <<produced, delivered, body>>
  BY DEF FollowCall, Read, Sound, reader
<1>5. Sound => InAll(0)
  BY <1>1 DEF Account, AccountInv, HeldInv
<1>6. QED BY <1>2, <1>3, <1>4, <1>5, AccountTaken DEF InAll

LEMMA RedirectAccount ==
  ASSUME Account, OnRedirect
  PROVE  AccountInv'
<1> USE ActorsAre, RequestAssumption DEF Account, Types, PlaceTypes, Callbacks, Tasks, Named, network,
        reader
<1>1. /\ HasTurn("redirect", pc["redirect"])
      /\ ~Carries("redirect", pc["redirect"])
  BY DEF OnRedirect, HasTurn, Follows, Carries
<1>2. Sound => InAll(0)
  BY <1>1 DEF AccountInv, HeldInv
<1>3. (Sound' => Sound) /\ UNCHANGED <<ns, posted, produced, delivered, body>>
  BY DEF OnRedirect, Sound
<1>4. CASE policy' = "Handler"
  <2>1. /\ \A b \in Actors \ {"redirect", "decision"} : pc'[b] = pc[b]
        /\ pc'["redirect"] = "idle" /\ pc'["decision"] = "deciding"
    BY <1>4 DEF OnRedirect
  <2>2. \A b \in Actors \ {"decision"} : ~HasTurn(b, pc'[b])
    BY <1>1, <2>1, Alone DEF HasTurn, Follows, Reads, HasBuffer
  <2>3. ~Carries("decision", pc'["decision"])
    BY <2>1 DEF Carries
  <2>4. QED BY <1>1, <1>2, <1>3, <2>2, <2>3, Alone, AccountTaken DEF InAll
<1>5. CASE policy' # "Handler"
  <2>1. /\ \A b \in Actors \ {"redirect"} : pc'[b] = pc[b]
        /\ ~Carries("redirect", pc'["redirect"])
    BY <1>5 DEF OnRedirect, Carries
  <2>2. QED BY <1>1, <1>2, <1>3, <2>1, Alone, AccountTaken DEF InAll
<1>6. QED BY <1>4, <1>5

\* on_read_completed leaves its chunk to a task.
LEMMA ReadCompletedAccount ==
  ASSUME Account, NEW c \in ReadFrames, OnReadCompleted(c)
  PROVE  AccountInv'
<1> USE ActorsAre, RequestAssumption DEF Account, Types, PlaceTypes, network, reader
<1>1. HasTurn(c, pc[c]) /\ ns = "awaitRead"
  BY DEF OnReadCompleted, HasTurn, Reads, HasBuffer, TurnInv, CronetWaits
<1>2. Sound => InAll(IF Carries(c, pc[c]) THEN 1 ELSE 0)
  BY <1>1 DEF AccountInv, HeldInv
<1>3. (Sound' => Sound) /\ UNCHANGED <<ns, posted, produced, delivered, body>>
  BY DEF OnReadCompleted, Sound
<1>4. ASSUME NEW t \in ChunkTasks, pc[c] = "run", pc[t] = "idle",
             pc' = [pc EXCEPT ![c] = "idle", ![t] = "sending"]
      PROVE  AccountInv'
  <2>1. /\ \A b \in Actors \ {c, t} : pc'[b] = pc[b]
        /\ pc'[c] = "idle" /\ pc'[t] = "sending"
    BY <1>4
  <2>2. \A b \in Actors \ {t} : ~HasTurn(b, pc'[b])
    BY <1>1, <2>1, Alone DEF HasTurn, Follows, Reads, HasBuffer
  <2>3. Carries(c, pc[c]) /\ Carries(t, pc'[t])
    BY <1>4, <2>1 DEF Carries
  <2>4. QED BY <1>1, <1>2, <1>3, <2>2, <2>3, Alone, AccountTaken DEF InAll
<1>5. ASSUME pc[c] = "run", pc' = [pc EXCEPT ![c] = "failing"]
      PROVE  AccountInv'
  <2>1. \A b \in Actors : HasTurn(b, pc'[b]) => HasTurn(b, pc[b]) /\ pc'[b] = pc[b]
    BY <1>5 DEF HasTurn, Follows, Reads, HasBuffer
  <2>2. QED BY <1>3, <2>1, AccountKept
<1>6. ASSUME pc[c] = "runEmpty", pc' = [pc EXCEPT ![c] = "read"]
      PROVE  AccountInv'
  <2>1. \A b \in Actors \ {c} : pc'[b] = pc[b]
    BY <1>6
  <2>2. ~Carries(c, pc[c]) /\ ~Carries(c, pc'[c])
    BY <1>6 DEF Carries
  <2>3. QED BY <1>1, <1>2, <1>3, <2>1, <2>2, Alone, AccountTaken DEF InAll
<1>7. QED BY <1>4, <1>5, <1>6 DEF OnReadCompleted

LEMMA SendChunkAccount ==
  ASSUME Account, NEW t \in ChunkTasks, SendChunk(t)
  PROVE  AccountInv'
<1> USE ActorsAre, RequestAssumption DEF Account, Types, PlaceTypes, network, reader, Goto
<1>1. CASE ReceiverGone
  BY <1>1 DEF SendChunk, ReceiverGone, AccountInv, Sound
<1>2. CASE ~ReceiverGone
  <2>1. HasTurn(t, pc[t]) /\ Carries(t, pc[t]) /\ ~Carries(t, pc'[t])
    BY <1>2 DEF SendChunk, HasTurn, Reads, HasBuffer, Carries
  <2>2. /\ Len(body') = Len(body) + 1
        /\ \A i \in 1..Len(body) : body'[i] = body[i]
        /\ Len(body) \in Nat
    BY <1>2 DEF SendChunk, ResultTypes
  <2>3. Sound' => Sound
    BY <2>2 DEF SendChunk, Sound, AllChunks
  <2>4. Sound => InAll(1)
    BY <2>1 DEF AccountInv, HeldInv
  <2>5. \A b \in Actors \ {t} : pc'[b] = pc[b]
    BY <1>2 DEF SendChunk
  <2>6. UNCHANGED <<posted, produced, delivered>> /\ delivered \in Nat
    BY DEF SendChunk, ResultTypes
  <2>7. QED BY <2>1, <2>2, <2>3, <2>4, <2>5, <2>6, Alone, AccountTaken DEF InAll
<1>3. QED BY <1>1, <1>2

LEMMA SendErrorAccount ==
  ASSUME Account, SendError
  PROVE  AccountInv'
<1>1. CASE ReceiverGone
  BY <1>1 DEF SendError, ReceiverGone, AccountInv, Sound, reader
<1>2. CASE ~ReceiverGone
  <2>1. /\ Len(body') = Len(body) + 1 /\ body'[Len(body) + 1] = "err"
        /\ Len(body) \in Nat
    BY <1>2 DEF SendError, Account, Types, ResultTypes
  <2>2. QED BY <2>1 DEF AccountInv, Sound, AllChunks
<1>3. QED BY <1>1, <1>2

LEMMA NextChunkAccount ==
  ASSUME Account, NextChunk
  PROVE  AccountInv'
<1>1. Sound' => Sound
  BY SoundNext DEF Account, Next
<1>2. UNCHANGED <<pc, network>>
  BY DEF NextChunk
<1>3. Sound' => delivered' + Len(body') = delivered + Len(body)
  <2>1. CASE body # <<>>
    <3>1. Len(Tail(body)) = Len(body) - 1 /\ Len(body) \in Nat /\ delivered \in Nat
      BY <2>1, HeadTailProperties DEF Account, Types, ResultTypes
    <3>2. QED BY <2>1, <3>1 DEF NextChunk, Sound
  <2>2. CASE body = <<>>
    BY <2>2 DEF NextChunk
  <2>3. QED BY <2>1, <2>2
<1>4. QED BY <1>1, <1>2, <1>3, AccountKept DEF Account, network

LEMMA AccountNext == Account /\ [Next]_vars => AccountInv'
<1> SUFFICES ASSUME Account, [Next]_vars PROVE AccountInv'
  OBVIOUS
<1> USE ActorsAre, RequestAssumption, AccountKept DEF Account, Types, PlaceTypes, network, reader,
        Goto, Leave, Resting, HasTurn, Follows, Reads, HasBuffer, Carries, Callbacks, Tasks, Terminal,
                Named
<1>0. Sound' => Sound
  BY SoundNext DEF Account
<1>1. CASE Network
  BY <1>0, <1>1, NetworkAccount
<1>2. ASSUME NEW c \in Callbacks, NEW p \in posted, Invoke(p, c) PROVE AccountInv'
  BY <1>2, InvokeAccount
<1>3. ASSUME NEW a \in Actors, Lease(a) \/ CancelFlag(a) \/ CancelLock(a) \/ RecordError(a)
      PROVE  AccountInv'
  BY <1>0, <1>3 DEF Lease, CancelFlag, CancelLock, RecordError
<1>4. ASSUME NEW a \in Actors, CancelCall(a) PROVE AccountInv'
  BY <1>0, <1>4 DEF CancelCall, NativeCancel, NativeEnd
<1>5. ASSUME NEW a \in Actors, FollowLock(a) \/ FollowCall(a) \/ Read(a) \/ ForgetBuffer(a)
      PROVE  AccountInv'
  <2>1. CASE FollowLock(a) \/ ForgetBuffer(a)
    BY <1>0, <2>1 DEF FollowLock, ForgetBuffer, FollowError
  <2>2. CASE FollowCall(a) \/ Read(a)
    BY <2>2, GoOnAccount
  <2>3. QED BY <1>5, <2>1, <2>2
<1>6. CASE Start \/ Recheck \/ SpawnCleanup
  <2>1. CASE Start
    <3>1. CASE consumer' = "failed"
      BY <3>1 DEF AccountInv, Sound
    <3>2. CASE ns' = "network"
      BY <2>1, <3>2, <1>0 DEF Start, UnstartedInv, TurnInv, CronetWaits, AccountInv, SettledInv,
              PostedInv, HeldInv, HasTurn, InAll
    <3>3. QED BY <2>1, <3>1, <3>2 DEF Start
  <2>2. CASE Recheck \/ SpawnCleanup
    BY <1>0, <2>2 DEF Recheck, SpawnCleanup
  <2>3. QED BY <1>6, <2>1, <2>2
<1>7. CASE OnRedirect \/ OnResponseStarted \/ \E c \in ReadFrames : OnReadCompleted(c)
  <2>1. CASE OnResponseStarted
    BY <1>0, <2>1 DEF OnResponseStarted
  <2>2. QED BY <1>7, <2>1, RedirectAccount, ReadCompletedAccount
<1>8. CASE OnTerminal \/ TakeError \/ SignalTerminal \/ OnRequestFinished
  BY <1>0, <1>8 DEF OnTerminal, TakeError, SignalTerminal, OnRequestFinished
<1>9. CASE SendError \/ AbortDecision \/ Decide \/ \E t \in ChunkTasks : SendChunk(t) \/ Resume(t)
  <2>1. CASE SendError
    BY <2>1, SendErrorAccount
  <2>2. ASSUME NEW t \in ChunkTasks, SendChunk(t) PROVE AccountInv'
    BY <2>2, SendChunkAccount
  <2>3. CASE AbortDecision \/ Decide \/ \E t \in ChunkTasks : Resume(t)
    BY <1>0, <2>3 DEF AbortDecision, Decide, Resume
  <2>4. QED BY <1>9, <2>1, <2>2, <2>3
<1>10. CASE Cleanup
  BY <1>0, <1>10 DEF Cleanup, CleanupWait, Destroy, FreeBuffer
<1>11. CASE AwaitHeaders \/ NextChunk \/ DropConsumer \/ DropReceivers \/ HandleCancel
  <2>1. CASE NextChunk
    BY <2>1, NextChunkAccount
  <2>2. CASE DropReceivers
    BY <2>2 DEF DropReceivers, AccountInv, Sound
  <2>3. CASE AwaitHeaders \/ DropConsumer \/ HandleCancel
    BY <1>0, <2>3 DEF AwaitHeaders, DropConsumer, HandleCancel
  <2>4. QED BY <1>11, <2>1, <2>2, <2>3
<1>12. CASE UNCHANGED vars
  BY <1>0, <1>12 DEF vars
<1>13. QED
  BY <1>1, <1>2, <1>3, <1>4, <1>5, <1>6, <1>7, <1>8, <1>9, <1>10, <1>11, <1>12
     DEF Next, Run, Step


-----------------------------------------------------------------------------
(* The theorems.                                                           *)

Context ==
  /\ Types /\ PlaceInv /\ UnstartedInv /\ TurnInv /\ EndInv /\ CleanupInv
  /\ AccountInv /\ ErrorInv /\ GateInv

LEMMA ContextInit == Init => Context
<1> SUFFICES ASSUME Init PROVE Context
  OBVIOUS
<1> USE ActorsAre, RequestAssumption
<1>1. Types
  BY TypesInit
<1>2. \A a \in Actors : pc[a] \in {"idle", "created"} /\ ~HasTurn(a, pc[a])
  BY DEF Init, HasTurn, Follows, Reads, HasBuffer
<1>3. PlaceInv /\ GateInv
  BY <1>2 DEF Init, PlaceInv, GateInv
<1>4. UnstartedInv
  BY DEF Init, UnstartedInv, Callbacks, Tasks, Terminal, Named
<1>5. TurnInv
  BY <1>2 DEF Init, TurnInv, OneWaits, OneHasTurn, NotBoth, CronetWaits, HasTurn
<1>6. EndInv /\ CleanupInv /\ ErrorInv
  BY DEF Init, EndInv, CleanupInv, ErrorInv, Named
<1>7. AccountInv
  BY <1>2 DEF Init, AccountInv, SettledInv, PostedInv, HeldInv, InAll
<1>8. QED BY <1>1, <1>3, <1>4, <1>5, <1>6, <1>7 DEF Context

LEMMA ContextNext == Context /\ [Next]_vars => Context'
<1> SUFFICES ASSUME Context, [Next]_vars PROVE Context'
  OBVIOUS
<1> USE DEF Context
<1>1. Types'
  BY TypesNext
<1>2. PlaceInv'
  BY PlaceNext DEF Types
<1>3. UnstartedInv'
  BY UnstartedNext
<1>4. TurnInv'
  BY TurnNext
<1>5. EndInv'
  BY EndNext
<1>6. CleanupInv'
  BY CleanupNext
<1>7. AccountInv'
  BY AccountNext DEF Account
<1>8. ErrorInv'
  BY ErrorNext
<1>9. GateInv'
  BY GateNext
<1>10. QED BY <1>1, <1>2, <1>3, <1>4, <1>5, <1>6, <1>7, <1>8, <1>9

LEMMA ContextInvariant == Spec => []Context
BY ContextInit, ContextNext, PTL DEF Spec

\* Type correctness: above all, the body channel never holds more than
\* body_channel_capacity items nor the body more than max_response_bytes.
THEOREM TypeCorrect == Spec => []TypeOK
<1>1. Types => TypeOK
  <2> SUFFICES ASSUME Types PROVE TypeOK
    OBVIOUS
  <2>1. produced \in 0..MaxRounds
    BY RequestAssumption DEF Types, NetworkTypes
  <2>2. {raw, done, cancelRequested, recorded, requestError, terminalSent, finished} \subseteq BOOLEAN
    BY DEF Types, ControlTypes
  <2>3. QED
    BY <2>1, <2>2 DEF Types, NetworkTypes, PlaceTypes, ControlTypes, ResultTypes, TypeOK
<1>2. Context => TypeOK
  BY <1>1 DEF Context
<1>3. QED BY <1>2, ContextInvariant, PTL

\* Back-pressure (README.md:145): a read is under way only when nobody has the turn,
\* so no chunk task still waits for room.
THEOREM BackpressureKept == Spec => []Backpressure
<1>1. Context => Backpressure
  BY ActorsAre DEF Context, TurnInv, CronetWaits, Reads, HasBuffer, Backpressure
<1>2. QED BY <1>1, ContextInvariant, PTL

\* The end of the body is reached when the cleanup is done, and that comes after the
\* terminal callback: an error it had to report would be in the way.
LEMMA NextChunkCleanEnd ==
  ASSUME Context, CleanEndMeansComplete, NextChunk
  PROVE  CleanEndMeansComplete'
<1> SUFFICES ASSUME consumer' = "ended" PROVE outcome' = "succeeded" /\ delivered' = produced'
  BY DEF CleanEndMeansComplete
<1>1. /\ body = <<>> /\ consumer = "body" /\ ContextGone
      /\ UNCHANGED <<outcome, produced, delivered>>
  BY DEF NextChunk, network
<1>2. Len(body) = 0 /\ Sound
  BY <1>1 DEF Sound, AllChunks
<1>3. cleanup = "done" /\ pc["error"] = "idle"
  BY <1>1 DEF ContextGone, Tasks
<1>4. ns # "unstarted"
  BY <1>1, <1>3 DEF Context, UnstartedInv
<1>5. terminalSent
  BY <1>3, <1>4 DEF Context, CleanupInv
<1>6. outcome # "none" /\ "terminal" \notin posted /\ pc["terminal"] = "idle"
  BY <1>5 DEF Context, EndInv
<1>7. outcome = "succeeded"
  BY <1>2, <1>3, <1>6 DEF Context, ErrorInv, Types, NetworkTypes
<1>8. delivered = produced
  BY <1>2, <1>7 DEF Context, EndInv, AccountInv, SettledInv, InAll, Types, NetworkTypes, ResultTypes
<1>9. QED BY <1>1, <1>7, <1>8

LEMMA CleanEndNext == Context /\ CleanEndMeansComplete /\ [Next]_vars => CleanEndMeansComplete'
<1> SUFFICES ASSUME Context, CleanEndMeansComplete, [Next]_vars PROVE CleanEndMeansComplete'
  OBVIOUS
<1> USE DEF CleanEndMeansComplete, network, reader
<1>1. CASE Network
  BY <1>1 DEF Network, NetRedirect, NetHeaders, NetRead, NetEnd, NativeEnd
<1>2. ASSUME NEW c \in Callbacks, NEW p \in posted, Invoke(p, c) PROVE CleanEndMeansComplete'
  BY <1>2 DEF Invoke
<1>3. ASSUME NEW a \in Actors, Lease(a) \/ CancelFlag(a) \/ CancelLock(a) \/ RecordError(a)
      PROVE  CleanEndMeansComplete'
  BY <1>3 DEF Lease, CancelFlag, CancelLock, RecordError
<1>4. ASSUME NEW a \in Actors, CancelCall(a) PROVE CleanEndMeansComplete'
  BY <1>4 DEF CancelCall, NativeCancel, NativeEnd
<1>5. ASSUME NEW a \in Actors, FollowLock(a) \/ FollowCall(a) \/ Read(a) \/ ForgetBuffer(a)
      PROVE  CleanEndMeansComplete'
  BY <1>5 DEF FollowLock, FollowCall, Read, ForgetBuffer
<1>6. CASE Start \/ Recheck \/ SpawnCleanup
  BY <1>6 DEF Start, Recheck, SpawnCleanup
<1>7. CASE OnRedirect \/ OnResponseStarted \/ \E c \in ReadFrames : OnReadCompleted(c)
  BY <1>7 DEF OnRedirect, OnResponseStarted, OnReadCompleted
<1>8. CASE OnTerminal \/ TakeError \/ SignalTerminal \/ OnRequestFinished
  BY <1>8 DEF OnTerminal, TakeError, SignalTerminal, OnRequestFinished
<1>9. CASE SendError \/ AbortDecision \/ Decide \/ \E t \in ChunkTasks : SendChunk(t) \/ Resume(t)
  BY <1>9 DEF SendError, AbortDecision, Decide, SendChunk, Resume
<1>10. CASE Cleanup
  BY <1>10 DEF Cleanup, CleanupWait, Destroy, FreeBuffer
<1>11. CASE AwaitHeaders \/ NextChunk \/ DropConsumer \/ DropReceivers \/ HandleCancel
  <2>1. CASE NextChunk
    BY <2>1, NextChunkCleanEnd
  <2>2. CASE AwaitHeaders \/ DropConsumer \/ DropReceivers \/ HandleCancel
    BY <2>2 DEF AwaitHeaders, DropConsumer, DropReceivers, HandleCancel
  <2>3. QED BY <1>11, <2>1, <2>2
<1>12. CASE UNCHANGED vars
  BY <1>12 DEF vars
<1>13. QED
  BY <1>1, <1>2, <1>3, <1>4, <1>5, <1>6, <1>7, <1>8, <1>9, <1>10, <1>11, <1>12
     DEF Next, Run, Step

\* A body that ends without an error is the whole body of a successful request.
THEOREM CleanEnd == Spec => []CleanEndMeansComplete
<1>1. Init => CleanEndMeansComplete
  BY DEF Init, CleanEndMeansComplete
<1>2. QED BY <1>1, CleanEndNext, ContextInvariant, PTL DEF Spec

\* No native call is made on a destroyed request, but for those of callbacks that
\* the cleanup task could not see: however workers stall before their leases,
\* whoever makes its calls under the gate is safe, and so is a callback with a lease.
THEOREM NativeCallsLive == Spec => []NativeCallsOnLive
<1>1. Init => LeaseInv
  BY ActorsAre DEF Init, LeaseInv
<1>2. Context /\ LeaseInv /\ [Next]_vars => LeaseInv'
  BY LeaseNext DEF Context
<1>3. Context /\ LeaseInv => NativeCallsOnLive
  <2> SUFFICES ASSUME Context, LeaseInv, ~raw, NEW a \in Actors, InNative(a) PROVE a \in late
    BY DEF NativeCallsOnLive
  <2>1. CASE a \in Callbacks
    BY <2>1 DEF Context, CleanupInv, LeaseInv, InNative
  <2>2. CASE a \notin Callbacks
    BY <2>2, ActorsAre DEF Context, GateInv, InNative
  <2>3. QED BY <2>1, <2>2
<1>4. QED BY <1>1, <1>2, <1>3, ContextInvariant, PTL DEF Spec

\* The buffer is used, and freed, only while it is the app's, with the same exception.
THEOREM BufferOwned == Spec => []BufferUsedOnlyIfOwned
<1>1. Init => LeaseInv /\ BufferInv
  BY ActorsAre DEF Init, LeaseInv, BufferInv, OwnedInv, RecordedInv, HasBuffer
<1>2. Context /\ LeaseInv /\ BufferInv /\ [Next]_vars => LeaseInv' /\ BufferInv'
  BY LeaseNext, BufferNext DEF Context
<1>3. Context /\ LeaseInv /\ BufferInv => BufferUsedOnlyIfOwned
  <2> SUFFICES ASSUME Context, LeaseInv, BufferInv PROVE BufferUsedOnlyIfOwned
    OBVIOUS
  <2>1. ASSUME ~raw, NEW a \in Actors, pc[a] \in {"read", "forget", "forgetFailed"}
        PROVE  a \in late
    <3>1. a \in Callbacks
      BY <2>1, ActorsAre DEF Context, GateInv
    <3>2. QED BY <2>1, <3>1 DEF Context, CleanupInv, LeaseInv
  <2>2. \A a \in Actors : pc[a] = "read" => owner = "app" \/ a \in late
    BY <2>1 DEF Context, Types, ControlTypes, BufferInv, OwnedInv, HasBuffer
  <2>3. cleanup = "buffer" /\ recorded => owner = "app" \/ late # {}
    BY <2>1 DEF Context, CleanupInv, BufferInv, RecordedInv
  <2>4. QED BY <2>2, <2>3 DEF BufferUsedOnlyIfOwned
<1>4. QED BY <1>1, <1>2, <1>3, ContextInvariant, PTL DEF Spec
=============================================================================
