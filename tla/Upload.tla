------------------------------- MODULE Upload -------------------------------
(***************************************************************************)
(* The upload body of a request (tokio-cronet/src/request.rs).             *)
(*                                                                         *)
(* Cronet asks the provider for one read or one rewind at a time.  The     *)
(* callback spawns a task that works on the Tokio source and answers       *)
(* through the sink.  Cronet may close the provider and end the request at *)
(* any moment, while a task waits for a source that never answers.         *)
(*                                                                         *)
(* Bytes are counted, not represented: `position` is how far the source    *)
(* was consumed, `sent` what Cronet was given since the last rewind.       *)
(***************************************************************************)
EXTENDS Integers

CONSTANTS
  MaxContent, \* bound: bytes a source holds, and the length it declares
  MaxBuffer,  \* bound: size of the buffers Cronet lends
  MaxRewinds  \* bound: rewinds Cronet asks for

ASSUME UploadAssumption ==
  /\ MaxContent \in Nat
  /\ MaxBuffer \in Nat \ {0}
  /\ MaxRewinds \in Nat

Unknown == -1  \* UploadContext::length of a chunked body

VARIABLES
  kind,         \* the variant of UploadSource
  content,      \* bytes the source holds
  length,       \* the declared length, or Unknown
  position,     \* bytes consumed from the source
  remaining,    \* what `remaining` holds, or Unknown
  task,         \* where the spawned task stands
  capacity,     \* size of the buffer it fills
  got,          \* [count, final] of a read that succeeded
  fault,        \* the error of one that did not
  closed,       \* UploadContext::closed
  requestError, \* UploadContext::request_error, shared with the request
  provider,     \* UploadProvider lives (NativeRequest holds it)
  asked,        \* what Cronet waits for: "none", "read" or "rewind"
  sent,         \* bytes Cronet took since the start or the last rewind
  finalSeen,    \* Cronet was told that this was the last chunk
  refused,      \* Cronet was told of an error
  answers,      \* reads and rewinds asked for, less the answers given
  rewinds,      \* rewinds asked for
  outcome       \* what terminal() reported: "none", "ok" or an error

source == <<kind, content, length, position, remaining>>
work == <<task, capacity, got, fault>>
native == <<asked, sent, finalSeen, refused, answers, rewinds>>
vars == <<source, work, closed, requestError, provider, native, outcome>>

Least(a, b) == IF a < b THEN a ELSE b

\* UploadProvider::new: Bytes declare their own length, the others what the
\* caller says, or nothing.
Init ==
  /\ kind \in {"bytes", "reader", "rewindable"}
  /\ content \in 0..MaxContent
  /\ length \in IF kind = "bytes" THEN {content} ELSE {Unknown} \cup 0..MaxContent
  /\ position = 0 /\ remaining = length
  /\ task = "none" /\ capacity = 0 /\ got = [count |-> 0, final |-> FALSE] /\ fault = "none"
  /\ closed = FALSE /\ requestError = "none" /\ provider = TRUE
  /\ asked = "none" /\ sent = 0 /\ finalSeen = FALSE /\ refused = FALSE
  /\ answers = 0 /\ rewinds = 0 /\ outcome = "none"

-----------------------------------------------------------------------------
(* Cronet.                                                                 *)

\* It asks for more while it expects more, one call at a time.
Expects == IF length = Unknown THEN ~finalSeen ELSE sent < length
Idle == provider /\ asked = "none" /\ ~refused /\ ~closed /\ outcome = "none"

\* upload_read spawns a task that will fill a buffer of this size.
Read(size) ==
  /\ Idle /\ Expects /\ task = "none"
  /\ asked' = "read" /\ answers' = answers + 1
  /\ task' = "reading" /\ capacity' = size
  /\ UNCHANGED <<source, got, fault, closed, requestError, provider, sent, finalSeen, refused,
                 rewinds, outcome>>

\* upload_rewind: Cronet rewinds to send the body again.
Rewind ==
  /\ Idle /\ task = "none" /\ rewinds < MaxRewinds
  /\ asked' = "rewind" /\ answers' = answers + 1 /\ rewinds' = rewinds + 1
  /\ task' = "rewinding"
  /\ UNCHANGED <<source, capacity, got, fault, closed, requestError, provider, sent, finalSeen,
                 refused, outcome>>

\* upload_close, whether or not a call is pending.
Close ==
  /\ provider /\ ~closed
  /\ closed' = TRUE
  /\ UNCHANGED <<source, work, requestError, provider, native, outcome>>

\* The request ends: terminal() takes the recorded error first, and what
\* Cronet reports otherwise.  It ends well only if the body was accepted.
Terminal ==
  /\ outcome = "none"
  /\ \E reported \in {"ok", "network", "canceled"} :
       /\ reported = "ok" => asked = "none" /\ ~refused /\ ~Expects
       /\ outcome' = IF requestError # "none" THEN requestError ELSE reported
  /\ requestError' = "none"
  /\ UNCHANGED <<source, work, closed, provider, native>>

\* The cleanup task drops NativeRequest, and with it the provider; Cronet has
\* closed it.  The task that waits keeps the source alive.
DropProvider ==
  /\ provider /\ closed /\ outcome # "none"
  /\ provider' = FALSE
  /\ UNCHANGED <<source, work, closed, requestError, native, outcome>>

-----------------------------------------------------------------------------
(* The spawned task.                                                       *)

Fail(error) == task' = "failing" /\ fault' = error /\ UNCHANGED <<capacity, got>>

\* The temporary buffer cannot be allocated.
ReserveFails ==
  /\ task = "reading"
  /\ Fail("memory")
  /\ UNCHANGED <<source, closed, requestError, provider, native, outcome>>

\* Mutant: only a read waits for the close as well.
SeesCloseReading ==
  /\ task = "reading"
  /\ closed
  /\ Fail("canceled")
  /\ UNCHANGED <<source, closed, requestError, provider, native, outcome>>

\* The select finds the provider closed and gives the source up.
SeesClose ==
  /\ task \in {"reading", "rewinding"}
  /\ closed
  /\ Fail("canceled")
  /\ UNCHANGED <<source, closed, requestError, provider, native, outcome>>

\* The part of the buffer a read may fill.
Limit == IF kind = "bytes" \/ remaining = Unknown THEN capacity ELSE Least(remaining, capacity)

\* A source that ends before its declared length.
Short(count) == kind # "bytes" /\ count = 0 /\ remaining > 0

\* saturating_sub.
RemainingAfter(count) ==
  IF kind = "bytes" \/ remaining = Unknown THEN remaining
  ELSE remaining - Least(count, remaining)

FinalChunk(count) == kind # "bytes" /\ length = Unknown /\ count = 0

\* The source answers: some bytes that are left, as few as it likes, or its
\* end.  Bytes give all that fit.
ReadSource ==
  /\ task = "reading" /\ ~closed
  /\ LET most == Least(Limit, content - position)
     IN  \E count \in IF kind = "bytes" \/ most = 0 THEN {most} ELSE 1..most :
           /\ position' = position + count
           /\ IF Short(count)
                THEN Fail("upload") /\ UNCHANGED remaining
                ELSE /\ task' = "filled"
                     /\ got' = [count |-> count, final |-> FinalChunk(count)]
                     /\ remaining' = RemainingAfter(count)
                     /\ UNCHANGED <<capacity, fault>>
  /\ UNCHANGED <<kind, content, length, closed, requestError, provider, native, outcome>>

\* The source's read or seek fails; a plain reader cannot be rewound.
SourceFails ==
  /\ ~closed /\ kind # "bytes"
  /\ task \in {"reading", "rewinding"}
  /\ Fail("upload")
  /\ UNCHANGED <<source, closed, requestError, provider, native, outcome>>

\* Mutant: a rewound source keeps what remained of its length.
RewindPositionOnly ==
  /\ task = "rewinding" /\ ~closed /\ kind # "reader"
  /\ position' = 0
  /\ task' = "rewound"
  /\ UNCHANGED <<kind, content, length, remaining, capacity, got, fault, closed, requestError,
                 provider, native, outcome>>

\* Mutant: a rewound source is sought to its declared length.
RewindToLength ==
  /\ task = "rewinding" /\ ~closed /\ kind # "reader"
  /\ position' = length /\ remaining' = length
  /\ task' = "rewound"
  /\ UNCHANGED <<kind, content, length, capacity, got, fault, closed, requestError, provider,
                 native, outcome>>

\* Bytes and seekable sources start again.
RewindSource ==
  /\ task = "rewinding" /\ ~closed /\ kind # "reader"
  /\ position' = 0 /\ remaining' = length
  /\ task' = "rewound"
  /\ UNCHANGED <<kind, content, length, capacity, got, fault, closed, requestError, provider,
                 native, outcome>>

Answer == answers' = answers - 1 /\ asked' = "none"

\* Under completion_gate the bytes are copied and OnReadSucceeded is called.
SendRead ==
  /\ task = "filled"
  /\ Answer
  /\ sent' = sent + got.count /\ finalSeen' = got.final
  /\ task' = "none"
  /\ UNCHANGED <<source, capacity, got, fault, closed, requestError, provider, refused, rewinds,
                 outcome>>

\* Mutant: the gate is left but the task goes on to report success.
NoDestinationGoesOn ==
  /\ task = "filled" /\ got.count # 0
  /\ refused' = TRUE /\ Answer
  /\ UNCHANGED <<source, work, closed, requestError, provider, sent, finalSeen, rewinds, outcome>>

\* Cronet's buffer has no data.
NoDestination ==
  /\ task = "filled" /\ got.count # 0
  /\ Fail("memory")
  /\ UNCHANGED <<source, closed, requestError, provider, native, outcome>>

\* OnRewindSucceeded.
SendRewound ==
  /\ task = "rewound"
  /\ Answer
  /\ sent' = 0 /\ finalSeen' = FALSE
  /\ task' = "none"
  /\ UNCHANGED <<source, capacity, got, fault, closed, requestError, provider, refused, rewinds,
                 outcome>>

\* record_upload_error: the first error of the request is kept.
RecordError ==
  /\ task = "failing"
  /\ requestError' = IF requestError = "none" THEN fault ELSE requestError
  /\ task' = "refusing"
  /\ UNCHANGED <<source, capacity, got, fault, closed, provider, native, outcome>>

\* OnReadError or OnRewindError.
SendError ==
  /\ task = "refusing"
  /\ Answer
  /\ refused' = TRUE
  /\ task' = "none"
  /\ UNCHANGED <<source, capacity, got, fault, closed, requestError, provider, sent, finalSeen,
                 rewinds, outcome>>

-----------------------------------------------------------------------------
\* What the task does without its source's help.
TaskStep ==
  \/ SeesClose \/ SendRead \/ NoDestination \/ SendRewound \/ RecordError \/ SendError

Next ==
  \/ \E size \in 1..MaxBuffer : Read(size)
  \/ Rewind \/ Close \/ Terminal \/ DropProvider
  \/ ReserveFails \/ ReadSource \/ SourceFails \/ RewindSource
  \/ TaskStep

Spec == Init /\ [][Next]_vars

\* The runtime polls the task and the cleanup task; Cronet closes the provider
\* of an ended request.  Nothing obliges the source ever to answer.
Fairness ==
  /\ WF_vars(TaskStep)
  /\ WF_vars(DropProvider)
  /\ WF_vars(outcome # "none" /\ Close)

FairSpec == Spec /\ Fairness

-----------------------------------------------------------------------------
(* Properties.                                                             *)

\* Type invariant: the range of every variable.
TypeOK ==
  /\ kind \in {"bytes", "reader", "rewindable"}
  /\ content \in Nat /\ position \in 0..content
  /\ length \in Nat \cup {Unknown} /\ remaining \in Nat \cup {Unknown}
  /\ task \in {"none", "reading", "rewinding", "filled", "rewound", "failing", "refusing"}
  /\ capacity \in Nat /\ got \in [count : Nat, final : BOOLEAN]
  /\ fault \in {"none", "memory", "canceled", "upload"}
  /\ closed \in BOOLEAN /\ provider \in BOOLEAN
  /\ requestError \in {"none", "memory", "canceled", "upload"}
  /\ asked \in {"none", "read", "rewind"}
  /\ sent \in Nat /\ finalSeen \in BOOLEAN /\ refused \in BOOLEAN
  /\ answers \in Int /\ rewinds \in Nat
  /\ outcome \in {"none", "ok", "network", "canceled", "memory", "upload"}

\* Every read or rewind has exactly one completion, whatever the source and
\* the close do (docs/capability-matrix.md "exactly one native sink completion").
OneCompletionEach == answers = IF task = "none" THEN 0 ELSE 1

\* Whenever no call is pending and none failed, what Cronet holds is the prefix of
\* the body that was consumed, also after rewinds, within the declared length.
SentIsPrefix ==
  task = "none" /\ ~refused =>
    /\ sent = position
    /\ length # Unknown => sent <= length
    /\ kind # "bytes" /\ length # Unknown => remaining = length - sent

\* A request does not end well on a body cut short: all of a declared length
\* was sent, or all the source held.
EndsWellOnlyIfComplete ==
  outcome = "ok" => sent = IF length = Unknown THEN content ELSE length

\* Cronet is never given an empty chunk while it expects bytes: a source that
\* ends early is an error, and the end of a chunked body is marked as final.
NoEmptyChunk ==
  task = "filled" /\ got.count = 0 => length = Unknown /\ got.final

\* Cronet gets the body the source held (request.rs:1683 upload_read): a prefix at
\* all times, never an empty chunk, and all of it before a request ends well.
BodyIsFaithful == SentIsPrefix /\ NoEmptyChunk /\ EndsWellOnlyIfComplete

\* A closed provider's pending call is answered even if its source never is
\* (docs/capability-matrix.md "cancels even permanently-pending Tokio I/O").
ClosedCallAnswered == closed /\ asked # "none" ~> asked = "none"

\* An ended request lets go of the source: neither the provider nor a task
\* holds it (docs/capability-matrix.md "Rust source is released").
SourceReleased == outcome # "none" ~> ~provider /\ task = "none"

\* Closing a provider and ending its request settle what upload_read and
\* upload_rewind began, with sources that never yield.
ClosedUploadSettles == ClosedCallAnswered /\ SourceReleased
=============================================================================
