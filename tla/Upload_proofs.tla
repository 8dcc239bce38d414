--------------------------- MODULE Upload_proofs ---------------------------
(***************************************************************************)
(* Theorems about the upload body (Upload): for sources of any length,     *)
(* buffers of any size and any number of rewinds.  The inductive invariant *)
(* follows the bytes from the source, through the task that holds them, to *)
(* Cronet.                                                                 *)
(***************************************************************************)
EXTENDS Upload, TLAPS

\* UploadProvider::new: Bytes declare their length; `remaining` counts within a
\* declared length.
SourceInv ==
  /\ kind = "bytes" => length = content /\ remaining = length
  /\ length = Unknown <=> remaining = Unknown

\* A task runs for the call that Cronet waits for, and only before a refusal; a
\* read has a buffer, and Cronet still expects something of it.
CallInv ==
  /\ asked = "none" <=> task = "none"
  /\ task # "none" => ~refused
  /\ task = "reading" => capacity > 0 /\ Expects

\* The bytes that left the source are with Cronet, or held by the task.
Held == IF task = "filled" THEN got.count ELSE 0

\* A rewound source is at its beginning; otherwise the bytes consumed are those
\* that Cronet has and the task holds, within what was declared.
BodyInv ==
  /\ task = "rewound" => position = 0 /\ remaining = length
  /\ task \in {"none", "reading", "rewinding", "filled"} /\ ~refused =>
       /\ position = sent + Held
       /\ length # Unknown => position <= length
       /\ kind # "bytes" /\ length # Unknown => remaining = length - position

\* The final chunk of a body of unknown length comes when the source has ended.
FinalInv ==
  /\ task = "filled" => (got.final => length = Unknown /\ position = content)
  /\ finalSeen => length = Unknown
  /\ finalSeen /\ task \in {"none", "rewinding"} /\ ~refused => position = content

\* A request ends well between two calls, and none begins after it.
OutcomeInv == outcome = "ok" => task = "none" /\ ~refused

Inv ==
  /\ TypeOK /\ OneCompletionEach
  /\ SourceInv /\ CallInv /\ BodyInv /\ FinalInv /\ OutcomeInv
  /\ NoEmptyChunk /\ EndsWellOnlyIfComplete

-----------------------------------------------------------------------------
LEMMA InvInit == Init => Inv
<1> SUFFICES ASSUME Init PROVE Inv
  OBVIOUS
<1>1. /\ content \in Nat /\ length \in Nat \cup {Unknown} /\ remaining = length
      /\ kind = "bytes" => length = content
  BY UploadAssumption DEF Init
<1>2. TypeOK
  <2>1. got \in [count : Nat, final : BOOLEAN]
    BY DEF Init
  <2>2. /\ position \in 0..content /\ capacity \in Nat /\ sent \in Nat
        /\ answers \in Int /\ rewinds \in Nat
    BY <1>1 DEF Init
  <2>3. {closed, provider, finalSeen, refused} \subseteq BOOLEAN
    BY DEF Init
  <2>4. QED BY <1>1, <2>1, <2>2, <2>3 DEF Init, TypeOK
<1>3. SourceInv /\ BodyInv
  BY <1>1 DEF Init, SourceInv, BodyInv, Held, Unknown
<1>4. OneCompletionEach /\ CallInv /\ FinalInv /\ OutcomeInv /\ NoEmptyChunk /\ EndsWellOnlyIfComplete
  <2>1. OneCompletionEach
    BY DEF Init, OneCompletionEach
  <2>2. CallInv
    BY DEF Init, CallInv
  <2>3. FinalInv
    BY DEF Init, FinalInv
  <2>4. OutcomeInv /\ NoEmptyChunk /\ EndsWellOnlyIfComplete
    BY DEF Init, OutcomeInv, NoEmptyChunk, EndsWellOnlyIfComplete
  <2>5. QED BY <2>1, <2>2, <2>3, <2>4
<1>5. QED BY <1>2, <1>3, <1>4 DEF Inv

\* A call begins: Cronet expects something, and the source is where Cronet left it.
LEMMA CallKeepsInv ==
  ASSUME Inv, (\E size \in 1..MaxBuffer : Read(size)) \/ Rewind
  PROVE  Inv'
<1> USE UploadAssumption DEF Inv, TypeOK, OneCompletionEach, SourceInv, CallInv, BodyInv, Held, FinalInv,
        OutcomeInv, NoEmptyChunk, EndsWellOnlyIfComplete, Unknown, source, Idle, Expects
<1>1. ASSUME NEW size \in 1..MaxBuffer, Read(size) PROVE Inv'
  BY <1>1 DEF Read
<1>2. CASE Rewind
  BY <1>2 DEF Rewind
<1>3. QED BY <1>1, <1>2

\* The end: everything that Cronet expected was sent.
LEMMA EndKeepsInv ==
  ASSUME Inv, Close \/ Terminal \/ DropProvider
  PROVE  Inv'
<1> USE DEF Inv, TypeOK, OneCompletionEach, SourceInv, CallInv, BodyInv, Held, FinalInv,
        OutcomeInv, NoEmptyChunk, EndsWellOnlyIfComplete, Unknown, source, work, native, Expects
<1>1. CASE Close
  BY <1>1 DEF Close
<1>2. CASE Terminal
  BY <1>2 DEF Terminal
<1>3. CASE DropProvider
  <2>1. TypeOK'
    <3>1. provider' \in BOOLEAN
      BY <1>3 DEF DropProvider
    <3>2. UNCHANGED <<source, work, closed, requestError, native, outcome>>
      BY <1>3 DEF DropProvider
    <3>3. QED BY <3>1, <3>2
  <2>2. OneCompletionEach' /\ SourceInv' /\ CallInv' 
    BY <1>3 DEF DropProvider
  <2>3. BodyInv' /\ FinalInv'
    BY <1>3 DEF DropProvider
  <2>4. OutcomeInv' /\ NoEmptyChunk' /\ EndsWellOnlyIfComplete'
    BY <1>3 DEF DropProvider
  <2>5. QED BY <2>1, <2>2, <2>3, <2>4
<1>4. QED BY <1>1, <1>2, <1>3

\* What a read of the source may yield: no more than the buffer and the declared
\* length have room for, and nothing only at the end of the source or of the length.
LEMMA CountBounds ==
  ASSUME Inv, task = "reading",
         NEW count \in IF kind = "bytes" \/ Least(Limit, content - position) = 0
                         THEN {Least(Limit, content - position)}
                         ELSE 1..Least(Limit, content - position)
  PROVE  /\ count \in Nat
         /\ position + count <= content
         /\ remaining # Unknown /\ kind # "bytes" => count <= remaining
         /\ count = 0 => position = content \/ (remaining = 0 /\ kind # "bytes")
BY DEF Inv, TypeOK, SourceInv, CallInv, Limit, Least, Unknown

LEMMA ReadSourceKeepsInv == Inv /\ ReadSource => Inv'
<1> SUFFICES ASSUME Inv, ReadSource PROVE Inv'
  OBVIOUS
<1>1. PICK count \in IF kind = "bytes" \/ Least(Limit, content - position) = 0
                       THEN {Least(Limit, content - position)}
                       ELSE 1..Least(Limit, content - position) :
        /\ position' = position + count
        /\ IF Short(count)
             THEN Fail("upload") /\ UNCHANGED remaining
             ELSE /\ task' = "filled"
                  /\ got' = [count |-> count, final |-> FinalChunk(count)]
                  /\ remaining' = RemainingAfter(count)
                  /\ UNCHANGED <<capacity, fault>>
  BY DEF ReadSource
<1>2. /\ task = "reading"
      /\ UNCHANGED <<kind, content, length, closed, requestError, provider, native, outcome>>
  BY DEF ReadSource
<1>3. /\ count \in Nat
      /\ position + count <= content
      /\ remaining # Unknown /\ kind # "bytes" => count <= remaining
      /\ count = 0 => position = content \/ (remaining = 0 /\ kind # "bytes")
  BY <1>2, CountBounds
<1> USE DEF Inv, TypeOK, OneCompletionEach, SourceInv, CallInv, BodyInv, Held, FinalInv,
        OutcomeInv, NoEmptyChunk, EndsWellOnlyIfComplete, Unknown, native, Expects
<1>4. CASE Short(count)
  BY <1>1, <1>2, <1>3, <1>4 DEF Fail
<1>5. CASE ~Short(count)
  <2>1. FinalChunk(count) \in BOOLEAN
    BY DEF FinalChunk
  <2>2. got' = [count |-> count, final |-> FinalChunk(count)] /\ task' = "filled"
        /\ remaining' = RemainingAfter(count) /\ UNCHANGED <<capacity, fault>>
    BY <1>1, <1>5
  <2>3. remaining' = IF kind = "bytes" \/ remaining = Unknown THEN remaining ELSE remaining - count
    BY <2>2, <1>3 DEF RemainingAfter, Least
  <2>4. TypeOK'
    BY <1>1, <1>2, <1>3, <2>1, <2>2, <2>3
  <2>5. /\ OneCompletionEach' /\ SourceInv' /\ CallInv' /\ OutcomeInv' /\ EndsWellOnlyIfComplete'
    BY <1>1, <1>2, <1>3, <2>2, <2>3
  <2>6. BodyInv'
    BY <1>1, <1>2, <1>3, <2>2, <2>3
  <2>7. FinalInv' /\ NoEmptyChunk'
    <3>1. got'.count = count /\ got'.final = FinalChunk(count) /\ task' = "filled"
      BY <2>2
    <3>2. FinalChunk(count) => length = Unknown /\ position' = content
      BY <1>1, <1>3 DEF FinalChunk
    <3>3. count = 0 => FinalChunk(count)
      BY <1>2, <1>3, <1>5 DEF FinalChunk, Short
    <3>4. QED BY <1>2, <3>1, <3>2, <3>3
  <2>8. QED BY <2>4, <2>5, <2>6, <2>7
<1>6. QED BY <1>4, <1>5

LEMMA RewoundKeepsTypes ==
  ASSUME TypeOK, SendRewound
  PROVE  TypeOK'
<1>1. UNCHANGED <<kind, content, length, position, remaining, capacity, fault, requestError, rewinds, outcome>>
  BY DEF SendRewound, source
<1>2. got' \in [count : Nat, final : BOOLEAN]
  BY DEF SendRewound, TypeOK
<1>3. {closed', provider', finalSeen', refused'} \subseteq BOOLEAN
  BY DEF SendRewound, TypeOK
<1>4. sent' = 0 /\ answers' \in Int /\ asked' = "none" /\ task' = "none"
  BY DEF SendRewound, Answer, TypeOK
<1>5. QED BY <1>1, <1>2, <1>3, <1>4 DEF TypeOK

\* The other steps of the task: it fails, rewinds or answers.
LEMMA TaskKeepsInv ==
  ASSUME Inv, ReserveFails \/ SourceFails \/ RewindSource \/ TaskStep
  PROVE  Inv'
<1> USE DEF Inv, TypeOK, OneCompletionEach, SourceInv, CallInv, BodyInv, Held, FinalInv,
        OutcomeInv, NoEmptyChunk, EndsWellOnlyIfComplete, Unknown, source, native, Expects, Fail, Answer
<1>1. CASE ReserveFails
  BY <1>1 DEF ReserveFails
<1>2. CASE SourceFails
  BY <1>2 DEF SourceFails
<1>3. CASE RewindSource
  BY <1>3 DEF RewindSource
<1>4. CASE SeesClose
  BY <1>4 DEF SeesClose
<1>5. CASE SendRead
  BY <1>5 DEF SendRead
<1>6. CASE NoDestination
  BY <1>6 DEF NoDestination
<1>7. CASE SendRewound
  <2>1. TypeOK'
    BY <1>7, RewoundKeepsTypes
  <2>2. OneCompletionEach' /\ SourceInv' /\ CallInv' 
    BY <1>7 DEF SendRewound
  <2>3. BodyInv'
    BY <1>7 DEF SendRewound
  <2>4. FinalInv'
    BY <1>7 DEF SendRewound
  <2>5. OutcomeInv' /\ NoEmptyChunk' /\ EndsWellOnlyIfComplete'
    BY <1>7 DEF SendRewound
  <2>6. QED BY <2>1, <2>2, <2>3, <2>4, <2>5
<1>8. CASE RecordError
  BY <1>8 DEF RecordError
<1>9. CASE SendError
  BY <1>9 DEF SendError
<1>10. QED BY <1>1, <1>2, <1>3, <1>4, <1>5, <1>6, <1>7, <1>8, <1>9 DEF TaskStep

LEMMA InvNext == Inv /\ [Next]_vars => Inv'
<1> SUFFICES ASSUME Inv, [Next]_vars PROVE Inv'
  OBVIOUS
<1>1. CASE UNCHANGED vars
  BY <1>1 DEF Inv, TypeOK, OneCompletionEach, SourceInv, CallInv, BodyInv, Held, FinalInv, OutcomeInv,
              NoEmptyChunk, EndsWellOnlyIfComplete, Expects, vars, source, work, native
<1>2. CASE Next
  BY <1>2, CallKeepsInv, EndKeepsInv, ReadSourceKeepsInv, TaskKeepsInv DEF Next
<1>3. QED BY <1>1, <1>2

LEMMA Invariant == Spec => []Inv
BY InvInit, InvNext, PTL DEF Spec

\* Every variable of an upload keeps its type: no source is read past its end, and
\* `remaining` never goes below zero.
THEOREM TypeCorrect == Spec => []TypeOK
BY Invariant, PTL DEF Inv

\* Whatever the source, the close and the end of the request do, each read and each
\* rewind is answered by one native completion, and by no second one.
THEOREM CompletionsExact == Spec => []OneCompletionEach
BY Invariant, PTL DEF Inv

\* Cronet gets the body of the source, its declared length or all of it, or an error.
THEOREM BodyFaithful == Spec => []BodyIsFaithful
<1>1. Inv => BodyIsFaithful
  BY DEF Inv, BodyIsFaithful, SentIsPrefix, BodyInv, Held, TypeOK
<1>2. QED BY <1>1, Invariant, PTL
=============================================================================
