------------------------ MODULE EventSource_proofs ------------------------
(***************************************************************************)
(* Theorems about a source of server-sent events (EventSource), for any    *)
(* number of tokens, chunks of any size and any number of connections.     *)
(* The parser is a loop over a buffer, so that the proofs need induction   *)
(* over its rounds.  The first section derives, from the fact that < is    *)
(* well-founded on the natural numbers, an induction principle for sets of *)
(* numbers and what a function defined by recursion on a number computes.  *)
(***************************************************************************)
EXTENDS EventSource, WellFoundedInduction, FiniteSetTheorems, SequenceTheorems, TLAPS

-----------------------------------------------------------------------------
(* Induction and recursion.                                                *)

Less == {pair \in Nat \X Nat : pair[1] < pair[2]}

LEMMA LessWellFounded == IsWellFoundedOn(Less, Nat)
<1>1. IsWellFoundedOn(OpToRel(<, Nat), Nat)
  BY NatLessThanWellFounded
<1>2. OpToRel(<, Nat) = Less
  BY DEF OpToRel, Less
<1> QED  BY <1>1, <1>2

LEMMA Smallest ==
  ASSUME NEW T \in SUBSET Nat, T # {}
  PROVE  \E x \in T : \A y \in T : ~(y < x)
<1>1. \E x \in T : \A y \in T : ~(<<y, x>> \in Less)
  BY LessWellFounded, WFMin
<1> QED  BY <1>1 DEF Less

\* Induction: a set of numbers with 0 and the successor of each of its members.
LEMMA Induction ==
  ASSUME NEW T \in SUBSET Nat, 0 \in T, \A n \in T : n + 1 \in T
  PROVE  T = Nat
<1> SUFFICES ASSUME Nat \ T # {} PROVE FALSE
  OBVIOUS
<1>1. PICK x \in Nat \ T : \A y \in Nat \ T : ~(y < x)
  BY Smallest
<1>2. x # 0
  BY <1>1
<1>3. x - 1 \in T /\ x - 1 \in Nat
  BY <1>1, <1>2
<1> QED  BY <1>1, <1>3

\* g follows the recursion f[0] = a, f[m + 1] = G[f[m]] as far as n.
Follows(g, n, S, a, G) ==
  g \in [Nat -> S] /\ g[0] = a /\ \A m \in Nat : m < n => g[m + 1] = G[g[m]]

LEMMA FollowsExists ==
  ASSUME NEW S, NEW a \in S, NEW G \in [S -> S]
  PROVE  \A n \in Nat : \E g : Follows(g, n, S, a, G)
<1> DEFINE T == {n \in Nat : \E g : Follows(g, n, S, a, G)}
<1>1. 0 \in T
  <2>1. Follows([n \in Nat |-> a], 0, S, a, G)
    BY DEF Follows
  <2> QED  BY <2>1
<1>2. ASSUME NEW n \in T PROVE n + 1 \in T
  <2>1. PICK g : Follows(g, n, S, a, G)
    OBVIOUS
  <2>2. Follows([g EXCEPT ![n + 1] = G[g[n]]], n + 1, S, a, G)
    BY <2>1 DEF Follows
  <2> QED  BY <2>2
<1> HIDE DEF T
<1>3. T \in SUBSET Nat
  BY DEF T
<1>4. T = Nat
  BY <1>1, <1>2, <1>3, Induction
<1> QED  BY <1>4 DEF T

LEMMA FollowsUnique ==
  ASSUME NEW S, NEW a \in S, NEW G \in [S -> S], NEW g, NEW h,
         NEW n \in Nat, NEW m \in Nat, Follows(g, n, S, a, G), Follows(h, m, S, a, G)
  PROVE  \A k \in Nat : k =< n /\ k =< m => g[k] = h[k]
<1> DEFINE T == {k \in Nat : k =< n /\ k =< m => g[k] = h[k]}
<1>1. 0 \in T
  BY DEF Follows
<1>2. ASSUME NEW k \in T PROVE k + 1 \in T
  BY DEF Follows
<1> HIDE DEF T
<1>3. T \in SUBSET Nat
  BY DEF T
<1>4. T = Nat
  BY <1>1, <1>2, <1>3, Induction
<1> QED  BY <1>4 DEF T

Recursive(f, S, a, G) == f \in [Nat -> S] /\ f[0] = a /\ \A n \in Nat : f[n + 1] = G[f[n]]

\* Recursion: there is a function with the value a at 0 and G of the last value next.
LEMMA Recursion ==
  ASSUME NEW S, NEW a \in S, NEW G \in [S -> S]
  PROVE  \E f : Recursive(f, S, a, G)
<1> DEFINE F(n) == CHOOSE g : Follows(g, n, S, a, G)
           f == [n \in Nat |-> F(n)[n]]
<1>1. ASSUME NEW n \in Nat PROVE Follows(F(n), n, S, a, G)
  BY FollowsExists
<1> HIDE DEF F
<1>2. f \in [Nat -> S] /\ f[0] = a
  BY <1>1 DEF Follows
<1>3. ASSUME NEW n \in Nat PROVE f[n + 1] = G[f[n]]
  <2>1. F(n + 1)[n + 1] = G[F(n + 1)[n]]
    BY <1>1 DEF Follows
  <2>2. F(n + 1)[n] = F(n)[n]
    BY <1>1, FollowsUnique
  <2> QED  BY <2>1, <2>2
<1> QED  BY <1>2, <1>3 DEF Recursive

-----------------------------------------------------------------------------
(* The range of the parser.                                                *)

Numbers == 0..MaxTokens
Token == [at : 1..MaxTokens, kind : Kinds]
Event == [id : Numbers, event : Numbers, data : Seq(1..MaxTokens)]
Ids == 0..GivenId
Parser == [buffer : Seq(Token), event : Numbers, data : Seq(1..MaxTokens), id : Numbers, last : Ids]
State == [parser : Parser, events : Seq(Event)]

LEMMA LineEndFacts ==
  ASSUME NEW b \in Seq(Token)
  PROVE  \/ LineEnd(b) = 0 /\ \A i \in 1..Len(b) : ~Ends(b[i])
         \/ \E i \in 1..Len(b) :
              /\ Ends(b[i]) /\ \A j \in 1..(i - 1) : ~Ends(b[j])
              /\ \/ i < Len(b) /\ b[i].kind = "CR" /\ b[i + 1].kind = "LF" /\ LineEnd(b) = i + 1
                 \/ (i = Len(b) \/ b[i].kind # "CR" \/ b[i + 1].kind # "LF") /\ LineEnd(b) = i
<1> DEFINE I == {i \in 1..Len(b) : Ends(b[i])}
           first == SelectInSeq(b, Ends)
<1>1. first = IF I # {} THEN CHOOSE x \in I : \A y \in I : x =< y ELSE 0
  BY DEF SelectInSeq, Min
<1>2. LineEnd(b) = IF first > 0 /\ first < Len(b) /\ b[first].kind = "CR" /\ b[first + 1].kind = "LF"
                     THEN first + 1 ELSE first
  BY DEF LineEnd
<1> HIDE DEF first
<1>3. CASE I = {}
  BY <1>1, <1>2, <1>3
<1>4. CASE I # {}
  <2>1. \E x \in I : \A y \in I : x =< y
    <3>1. I \in SUBSET Nat
      OBVIOUS
    <3>2. PICK x \in I : \A y \in I : ~(y < x)
      BY <1>4, <3>1, Smallest
    <3> QED  BY <3>1, <3>2
  <2>2. first \in I /\ \A y \in I : first =< y
    BY <1>1, <1>4, <2>1
  <2> QED  BY <1>2, <2>2
<1> QED  BY <1>3, <1>4

\* The parser without the first line of its buffer.
Rest(p) == [p EXCEPT !.buffer = SubSeq(p.buffer, LineEnd(p.buffer) + 1, Len(p.buffer))]

\* What a round does from s to t: nothing without a complete line; else it takes
\* the line, which is either empty or begins with the first token of the buffer.
NoLine(s, t) == LineEnd(s.parser.buffer) = 0 /\ t = s

TakesLine(s) ==
  /\ s.parser.buffer \in Seq(Token)
  /\ LineEnd(s.parser.buffer) \in 1..Len(s.parser.buffer)
  /\ Rest(s.parser) \in Parser

EmptyLine(s, t) ==
  /\ TakesLine(s) /\ Ends(s.parser.buffer[1])
  /\ t = [parser |-> Dispatch(Rest(s.parser)).parser,
          events |-> s.events \o Dispatch(Rest(s.parser)).events]

FieldLine(s, t) ==
  /\ TakesLine(s) /\ ~Ends(s.parser.buffer[1])
  /\ t = [parser |-> Field(Rest(s.parser), s.parser.buffer[1]), events |-> s.events]

LEMMA PushLineCases ==
  ASSUME NEW s \in State
  PROVE  NoLine(s, PushLine(s)) \/ EmptyLine(s, PushLine(s)) \/ FieldLine(s, PushLine(s))
<1> DEFINE b == s.parser.buffer
           end == LineEnd(b)
           rest == Rest(s.parser)
           line == IF Ends(b[1]) THEN Dispatch(rest)
                   ELSE [parser |-> Field(rest, b[1]), events |-> <<>>]
<1>1. s.parser \in Parser /\ b \in Seq(Token) /\ s.events \in Seq(Event)
  BY DEF State, Parser
<1>2. PushLine(s) = IF end = 0 THEN s ELSE [parser |-> line.parser, events |-> s.events \o line.events]
  BY DEF PushLine, Rest
<1>3. end \in 0..Len(b)
  BY <1>1, LineEndFacts
<1>4. end # 0 => TakesLine(s)
  <2>1. rest = [s.parser EXCEPT !.buffer = SubSeq(b, end + 1, Len(b))]
    BY DEF Rest
  <2> HIDE DEF end, rest
  <2>2. end # 0 => SubSeq(b, end + 1, Len(b)) \in Seq(Token)
    BY <1>1, <1>3
  <2>3. end # 0 => rest \in Parser
    BY <1>1, <2>1, <2>2 DEF Parser
  <2> QED  BY <1>1, <1>3, <2>3 DEF TakesLine, end, rest
<1>5. line = IF Ends(b[1]) THEN Dispatch(rest) ELSE [parser |-> Field(rest, b[1]), events |-> <<>>]
  OBVIOUS
<1>6. s.events \o <<>> = s.events
  BY <1>1
<1> HIDE DEF end, rest, line
<1>7. CASE end = 0
  BY <1>2, <1>7 DEF NoLine, end
<1>8. CASE end # 0 /\ Ends(b[1])
  <2>1. PushLine(s) = [parser |-> Dispatch(rest).parser, events |-> s.events \o Dispatch(rest).events]
    BY <1>2, <1>5, <1>8
  <2> QED  BY <1>4, <1>8, <2>1 DEF EmptyLine, rest
<1>9. CASE end # 0 /\ ~Ends(b[1])
  <2>1. PushLine(s) = [parser |-> Field(rest, b[1]), events |-> s.events]
    BY <1>2, <1>5, <1>6, <1>9
  <2> QED  BY <1>4, <1>9, <2>1 DEF FieldLine, rest
<1> QED  BY <1>7, <1>8, <1>9

LEMMA DispatchType ==
  ASSUME NEW p \in Parser
  PROVE  Dispatch(p).parser \in Parser /\ Dispatch(p).events \in Seq(Event)
<1>1. None \in Numbers
  BY EventSourceAssumption DEF EventSourceAssumption, None, Numbers
<1>2. CASE p.data = <<>>
  <2>1. Dispatch(p) = [parser |-> [p EXCEPT !.event = None, !.id = None], events |-> <<>>]
    BY <1>2 DEF Dispatch
  <2>2. [p EXCEPT !.event = None, !.id = None] \in Parser
    BY <1>1 DEF Parser
  <2> QED  BY <2>1, <2>2
<1>3. CASE p.data # <<>>
  <2>1. <<>> \in Seq(1..MaxTokens) /\ Numbers \subseteq Ids
    BY EventSourceAssumption DEF Numbers, Ids, GivenId
  <2>2. Dispatch(p).parser \in Parser
    BY <1>1, <1>3, <2>1 DEF Dispatch, Parser
  <2>3. [id |-> p.id, event |-> p.event, data |-> p.data] \in Event
    BY DEF Event, Parser
  <2> QED  BY <1>3, <2>2, <2>3 DEF Dispatch
<1> QED  BY <1>2, <1>3

LEMMA FieldType ==
  ASSUME NEW p \in Parser, NEW token \in Token
  PROVE  Field(p, token) \in Parser /\ Field(p, token).buffer = p.buffer
<1>1. token.at \in 1..MaxTokens /\ token.at \in Numbers
  BY EventSourceAssumption DEF EventSourceAssumption, Token, Numbers
<1>2. CASE token.kind = "data"
  <2>1. Append(p.data, token.at) \in Seq(1..MaxTokens)
    BY <1>1 DEF Parser
  <2> QED  BY <1>2, <2>1 DEF Field, Parser
<1>3. CASE token.kind = "id"
  BY <1>1, <1>3 DEF Field, Parser
<1>4. CASE token.kind = "event"
  BY <1>1, <1>4 DEF Field, Parser
<1>5. CASE token.kind \notin {"data", "id", "event"}
  BY <1>5 DEF Field, Parser
<1> QED  BY <1>2, <1>3, <1>4, <1>5

LEMMA PushLineType ==
  ASSUME NEW s \in State
  PROVE  PushLine(s) \in State
<1> DEFINE rest == Rest(s.parser)
<1>1. s.events \in Seq(Event)
  BY DEF State
<1>2. CASE NoLine(s, PushLine(s))
  BY <1>2 DEF NoLine
<1>3. CASE EmptyLine(s, PushLine(s))
  <2>1. Dispatch(rest).parser \in Parser /\ s.events \o Dispatch(rest).events \in Seq(Event)
    BY <1>1, <1>3, DispatchType DEF EmptyLine, TakesLine
  <2> QED  BY <1>3, <2>1 DEF EmptyLine, State
<1>4. CASE FieldLine(s, PushLine(s))
  <2>1. s.parser.buffer[1] \in Token /\ rest \in Parser
    BY <1>4 DEF FieldLine, TakesLine
  <2>2. Field(rest, s.parser.buffer[1]) \in Parser
    BY <2>1, FieldType
  <2> QED  BY <1>1, <1>4, <2>2 DEF FieldLine, State
<1> QED  BY <1>2, <1>3, <1>4, PushLineCases

\* A round that takes a line leaves the rest of the buffer.
LEMMA PushLineBuffer ==
  ASSUME NEW s \in State, TakesLine(s)
  PROVE  LET b == s.parser.buffer
             end == LineEnd(b)
         IN /\ PushLine(s).parser.buffer = SubSeq(b, end + 1, Len(b))
            /\ Len(PushLine(s).parser.buffer) = Len(b) - end
            /\ \A i \in 1..(Len(b) - end) : PushLine(s).parser.buffer[i] = b[end + i]
<1> DEFINE b == s.parser.buffer
           end == LineEnd(b)
           rest == Rest(s.parser)
<1>1. b \in Seq(Token) /\ end \in 1..Len(b) /\ rest \in Parser
  BY DEF TakesLine
<1>2. rest.buffer = SubSeq(b, end + 1, Len(b))
  BY DEF Rest, State, Parser
<1>3. PushLine(s).parser.buffer = rest.buffer
  <2>1. CASE EmptyLine(s, PushLine(s))
    <3>1. Dispatch(rest).parser.buffer = rest.buffer
      BY <1>1 DEF Dispatch, Parser
    <3> QED  BY <2>1, <3>1 DEF EmptyLine
  <2>2. CASE FieldLine(s, PushLine(s))
    <3>1. b[1] \in Token
      BY <1>1
    <3>2. Field(rest, b[1]).buffer = rest.buffer
      BY <1>1, <3>1, FieldType
    <3> QED  BY <2>2, <3>2 DEF FieldLine
  <2>3. ~NoLine(s, PushLine(s))
    BY <1>1 DEF NoLine
  <2> QED  BY <2>1, <2>2, <2>3, PushLineCases
<1> HIDE DEF b, end, rest
<1>4. /\ Len(SubSeq(b, end + 1, Len(b))) = Len(b) - end
      /\ \A i \in 1..(Len(b) - end) : SubSeq(b, end + 1, Len(b))[i] = b[end + i]
  BY <1>1
<1> QED  BY <1>2, <1>3, <1>4 DEF b, end

Output(p) == [parser |-> p, events |-> <<>>]

LEMMA RoundsUnfold ==
  ASSUME NEW p \in Parser
  PROVE  /\ Rounds(p) \in [Nat -> State] /\ Rounds(p)[0] = Output(p)
         /\ \A n \in Nat : Rounds(p)[n + 1] = PushLine(Rounds(p)[n])
<1> DEFINE G == [s \in State |-> PushLine(s)]
           a == Output(p)
           Def(f) == [n \in Nat |-> IF n = 0 THEN Output(p) ELSE PushLine(f[n - 1])]
<1>1. Output(p) \in State
  BY DEF Output, State
<1>2. PICK f : Recursive(f, State, a, G)
  <2>1. G \in [State -> State]
    BY PushLineType
  <2>2. a \in State
    BY <1>1
  <2> HIDE DEF G, a
  <2> QED  BY <2>1, <2>2, Recursion
<1>3. f = Def(f)
  <2>1. ASSUME NEW n \in Nat PROVE f[n] = Def(f)[n]
    <3>1. CASE n = 0
      BY <1>2, <3>1 DEF Recursive
    <3>2. CASE n # 0
      <4>1. n - 1 \in Nat /\ n = (n - 1) + 1
        BY <3>2
      <4>2. f[n] = G[f[n - 1]] /\ f[n - 1] \in State
        BY <1>2, <4>1 DEF Recursive
      <4> QED  BY <3>2, <4>1, <4>2
    <3> QED  BY <3>1, <3>2
  <2> QED  BY <1>2, <2>1 DEF Recursive
<1>4. Rounds(p) = CHOOSE r : r = Def(r)
  BY DEF Rounds, Output
<1>5. Rounds(p) = Def(Rounds(p))
  <2> HIDE DEF Def
  <2> QED  BY <1>3, <1>4
<1>6. Rounds(p)[0] = Output(p)
  BY <1>5
<1>7. ASSUME NEW n \in Nat PROVE Rounds(p)[n + 1] = PushLine(Rounds(p)[n])
  BY <1>5
<1> DEFINE T == {n \in Nat : Rounds(p)[n] \in State}
<1>8. T = Nat
  <2>1. 0 \in T /\ T \in SUBSET Nat
    BY <1>1, <1>6
  <2>2. ASSUME NEW n \in T PROVE n + 1 \in T
    BY <1>7, PushLineType
  <2> HIDE DEF T
  <2> QED  BY <2>1, <2>2, Induction
<1> QED  BY <1>5, <1>6, <1>7, <1>8

\* Induction over the rounds of the loop: what holds before the first round and is
\* kept by every round holds at the end.
LEMMA DrainInduction ==
  ASSUME NEW p \in Parser, NEW J \in SUBSET State,
         Output(p) \in J, \A s \in J : PushLine(s) \in J
  PROVE  Drain(p) \in J
<1> DEFINE T == {n \in Nat : Rounds(p)[n] \in J}
<1>1. 0 \in T /\ T \in SUBSET Nat
  BY RoundsUnfold
<1>2. ASSUME NEW n \in T PROVE n + 1 \in T
  BY RoundsUnfold
<1> HIDE DEF T
<1>3. T = Nat
  BY <1>1, <1>2, Induction
<1>4. Len(p.buffer) \in Nat
  BY DEF Parser
<1> QED  BY <1>3, <1>4 DEF T, Drain

LEMMA DrainType ==
  ASSUME NEW p \in Parser
  PROVE  Drain(p) \in State
<1>1. Output(p) \in State
  BY DEF Output, State
<1> QED  BY <1>1, PushLineType, DrainInduction

\* The loop ends with no complete line in the buffer.
LEMMA DrainComplete ==
  ASSUME NEW p \in Parser
  PROVE  \A i \in DOMAIN Drain(p).parser.buffer : ~Ends(Drain(p).parser.buffer[i])
<1> DEFINE B(n) == Rounds(p)[n].parser.buffer
           T == {n \in Nat : LineEnd(B(n)) = 0 \/ Len(B(n)) + n =< Len(p.buffer)}
<1>1. ASSUME NEW n \in Nat PROVE Rounds(p)[n] \in State /\ B(n) \in Seq(Token)
  BY RoundsUnfold DEF State, Parser
<1>2. 0 \in T /\ T \in SUBSET Nat
  <2>1. Rounds(p)[0] = Output(p)
    BY RoundsUnfold
  <2>2. B(0) = p.buffer /\ Len(B(0)) \in Nat
    BY <2>1 DEF Output, Parser
  <2> QED  BY <2>2
<1>3. ASSUME NEW n \in T PROVE n + 1 \in T
  <2> DEFINE s == Rounds(p)[n]
             b == s.parser.buffer
  <2>1. s \in State /\ b \in Seq(Token) /\ B(n + 1) = PushLine(s).parser.buffer /\ n \in Nat
    BY <1>1, RoundsUnfold
  <2>2. LineEnd(b) = 0 \/ Len(b) + n =< Len(p.buffer)
    OBVIOUS
  <2>3. Len(p.buffer) \in Nat
    BY DEF Parser
  <2>4. CASE NoLine(s, PushLine(s))
    BY <2>1, <2>4 DEF NoLine
  <2>5. CASE TakesLine(s)
    <3>1. Len(B(n + 1)) = Len(b) - LineEnd(b) /\ LineEnd(b) \in 1..Len(b)
      BY <2>1, <2>5, PushLineBuffer DEF TakesLine
    <3> HIDE DEF B, b
    <3>2. Len(B(n + 1)) + (n + 1) =< Len(p.buffer)
      BY <2>1, <2>2, <2>3, <3>1
    <3> QED  BY <2>1, <3>2
  <2> QED  BY <2>1, <2>4, <2>5, PushLineCases DEF EmptyLine, FieldLine
<1> HIDE DEF T
<1>4. T = Nat
  BY <1>2, <1>3, Induction
<1>5. Len(p.buffer) \in Nat
  BY DEF Parser
<1>6. LineEnd(B(Len(p.buffer))) = 0
  <2>1. LineEnd(B(Len(p.buffer))) = 0 \/ Len(B(Len(p.buffer))) + Len(p.buffer) =< Len(p.buffer)
    BY <1>4, <1>5 DEF T
  <2>2. B(Len(p.buffer)) \in Seq(Token)
    BY <1>1, <1>5
  <2> DEFINE b == B(Len(p.buffer))
  <2>3. b \in Seq(Token) /\ (LineEnd(b) = 0 \/ Len(b) + Len(p.buffer) =< Len(p.buffer))
    BY <2>1, <2>2
  <2> HIDE DEF b
  <2>4. LineEnd(b) = 0
    BY <1>5, <2>3, LineEndFacts
  <2> QED  BY <2>4 DEF b
<1> DEFINE b == B(Len(p.buffer))
<1>7. b \in Seq(Token) /\ LineEnd(b) = 0
  BY <1>1, <1>5, <1>6
<1>8. Drain(p).parser.buffer = b
  BY DEF Drain
<1> HIDE DEF b
<1>9. \A i \in 1..Len(b) : ~Ends(b[i])
  BY <1>7, LineEndFacts
<1> QED  BY <1>7, <1>8, <1>9

-----------------------------------------------------------------------------
(* The type invariant.                                                     *)

TypeInv ==
  /\ auto \in BOOLEAN /\ body \in {"open", "ended", "none"} /\ canceled \in BOOLEAN
  /\ call \in {"idle", "reading", "sleeping", "sending"}
  /\ answer \in {"none", "error", "end"}
  /\ parser \in Parser /\ \A i \in DOMAIN parser.buffer : ~Ends(parser.buffer[i])
  /\ pending \in Seq(Event) /\ received \in Seq(Event) /\ asked \in Seq(Ids)
  /\ given \in {None, GivenId}
  /\ connects \in 1..MaxConnects /\ tokens \in 0..MaxTokens
  /\ stream \in Seq(Token) /\ tainted \in BOOLEAN

\* The parser that the loop of push begins with.
Filled(p, chunk) ==
  LET all == p.buffer \o chunk
  IN  [p EXCEPT !.buffer = IF all[1].kind = "bom" THEN Tail(all) ELSE all]

\* The arrival of a chunk, given the chunk.
Arrives(chunk) ==
  /\ chunk \in Seq(Token) /\ Len(chunk) > 0
  /\ \A i \in 1..Len(chunk) : chunk[i].at = tokens + i
  /\ tokens' = tokens + Len(chunk) /\ tokens' \in 0..MaxTokens
  /\ Filled(parser, chunk) \in Parser
  /\ parser' = Drain(Filled(parser, chunk)).parser
  /\ pending' = Drain(Filled(parser, chunk)).events
  /\ stream' = stream \o chunk
  /\ tainted' = (tainted \/ BoundaryMatters(parser, chunk))

LEMMA FilledType ==
  ASSUME NEW p \in Parser, NEW chunk \in Seq(Token), Len(chunk) > 0
  PROVE  LET all == p.buffer \o chunk
         IN /\ Filled(p, chunk) \in Parser /\ all \in Seq(Token) /\ Len(all) > 0
            /\ Filled(p, chunk).buffer = IF all[1].kind = "bom" THEN Tail(all) ELSE all
            /\ Filled(p, chunk).data = p.data /\ Filled(p, chunk).id = p.id
            /\ Filled(p, chunk).event = p.event /\ Filled(p, chunk).last = p.last
<1> DEFINE all == p.buffer \o chunk
           buffer == IF all[1].kind = "bom" THEN Tail(all) ELSE all
<1>1. p.buffer \in Seq(Token)
  BY DEF Parser
<1>2. all \in Seq(Token) /\ Len(all) > 0
  BY <1>1
<1>3. Filled(p, chunk) = [p EXCEPT !.buffer = buffer]
  BY DEF Filled
<1> HIDE DEF all
<1>4. buffer \in Seq(Token)
  BY <1>2
<1> HIDE DEF buffer
<1>5. Filled(p, chunk) \in Parser /\ Filled(p, chunk).buffer = buffer
      /\ Filled(p, chunk).data = p.data /\ Filled(p, chunk).id = p.id
      /\ Filled(p, chunk).event = p.event /\ Filled(p, chunk).last = p.last
  BY <1>3, <1>4 DEF Parser
<1> QED  BY <1>2, <1>5 DEF all, buffer

LEMMA ChunkArrives ==
  ASSUME TypeInv, Chunk
  PROVE  \E chunk : Arrives(chunk)
<1>0. PICK size \in 1..MaxChunk : \E kinds \in [1..size -> Kinds] :
        LET chunk == [i \in 1..size |-> [at |-> tokens + i, kind |-> kinds[i]]]
            parsed == Push(parser, chunk)
        IN  /\ tokens + size <= MaxTokens
            /\ tokens' = tokens + size
            /\ parser' = parsed.parser
            /\ pending' = parsed.events
            /\ stream' = stream \o chunk
            /\ tainted' = (tainted \/ BoundaryMatters(parser, chunk))
  BY DEF Chunk
<1>1. PICK kinds \in [1..size -> Kinds] :
        LET chunk == [i \in 1..size |-> [at |-> tokens + i, kind |-> kinds[i]]]
            parsed == Push(parser, chunk)
        IN  /\ tokens + size <= MaxTokens
            /\ tokens' = tokens + size
            /\ parser' = parsed.parser
            /\ pending' = parsed.events
            /\ stream' = stream \o chunk
            /\ tainted' = (tainted \/ BoundaryMatters(parser, chunk))
  BY <1>0
<1> DEFINE chunk == [i \in 1..size |-> [at |-> tokens + i, kind |-> kinds[i]]]
<1>2. MaxTokens \in Nat /\ MaxChunk \in Nat /\ tokens \in Nat /\ parser \in Parser
  BY EventSourceAssumption DEF EventSourceAssumption, TypeInv
<1>3. \A i \in 1..size : [at |-> tokens + i, kind |-> kinds[i]] \in Token
  BY <1>1, <1>2 DEF Token
<1>4. chunk \in Seq(Token) /\ Len(chunk) = size
  BY <1>1, <1>2, <1>3
<1>5. \A i \in 1..Len(chunk) : chunk[i].at = tokens + i
  BY <1>4
<1>6. Push(parser, chunk) = Drain(Filled(parser, chunk))
  BY DEF Push, Filled
<1> HIDE DEF chunk
<1>7. Filled(parser, chunk) \in Parser
  BY <1>1, <1>2, <1>4, FilledType
<1>8. Arrives(chunk)
  BY <1>1, <1>2, <1>4, <1>5, <1>6, <1>7 DEF Arrives, chunk
<1> QED  BY <1>8

LEMMA TypeInit ==
  ASSUME Init
  PROVE  TypeInv
<1>1. [Fresh EXCEPT !.last = given] \in Parser /\ Fresh.buffer = <<>>
  <2>1. given \in Ids /\ None \in Numbers
    BY EventSourceAssumption DEF Init, None, Numbers, Ids, GivenId
  <2>2. <<>> \in Seq(Token) /\ <<>> \in Seq(1..MaxTokens)
    OBVIOUS
  <2> QED  BY <2>1, <2>2 DEF Fresh, Parser
<1>2. given \in {None, GivenId} /\ 1 \in 1..MaxConnects /\ 0 \in 0..MaxTokens
  BY EventSourceAssumption DEF EventSourceAssumption, Init
<1>3. <<>> \in Seq(Event) /\ <<>> \in Seq(Token) /\ <<>> \in Seq(Ids)
  OBVIOUS
<1>4. parser \in Parser /\ \A i \in DOMAIN parser.buffer : ~Ends(parser.buffer[i])
  BY <1>1 DEF Init, Fresh
<1> QED  BY <1>2, <1>3, <1>4 DEF Init, TypeInv

LEMMA TypeStep ==
  ASSUME TypeInv, [Next]_vars
  PROVE  TypeInv'
<1> USE DEF TypeInv, calling, events, wire
<1>1. CASE NextEvent
  <2>1. CASE pending # <<>> /\ received' = Append(received, Head(pending)) /\ pending' = Tail(pending)
    <3>1. received' \in Seq(Event) /\ pending' \in Seq(Event)
      BY <2>1
    <3> QED  BY <1>1, <3>1 DEF NextEvent
  <2>2. CASE UNCHANGED <<pending, received>>
    BY <1>1, <2>2 DEF NextEvent
  <2> QED  BY <1>1, <2>1, <2>2 DEF NextEvent
<1>2. CASE Chunk
  <2>1. PICK chunk : Arrives(chunk)
    BY <1>2, ChunkArrives
  <2>2. Drain(Filled(parser, chunk)) \in State
    BY <2>1, DrainType DEF Arrives
  <2>3. parser' \in Parser /\ pending' \in Seq(Event) /\ tokens' \in 0..MaxTokens
    BY <2>1, <2>2 DEF Arrives, State
  <2>4. \A i \in DOMAIN parser'.buffer : ~Ends(parser'.buffer[i])
    BY <2>1, DrainComplete DEF Arrives
  <2>5. stream' \in Seq(Token) /\ tainted' \in BOOLEAN
    BY <2>1 DEF Arrives, BoundaryMatters
  <2> QED  BY <1>2, <2>3, <2>4, <2>5 DEF Chunk
<1>3. CASE BodyEnd
  BY <1>3 DEF BodyEnd, BodyEnds
<1>4. CASE Wake
  <2>1. \A id \in Ids : Header(id) \in Seq(Ids)
    BY DEF Header
  <2>2. given \in Ids /\ parser.last \in Ids
    BY EventSourceAssumption DEF EventSourceAssumption, Parser, Ids, GivenId, None
  <2>3. Header(given) \o Header(parser.last) \in Seq(Ids)
    BY <2>1, <2>2
  <2> QED  BY <1>4, <2>3 DEF Wake
<1>5. CASE Connected
  <2>1. <<>> \in Seq(Token) /\ <<>> \in Seq(Ids) /\ (tainted \/ Leftover(parser)) \in BOOLEAN
    BY DEF Leftover
  <2>2. connects + 1 \in 1..MaxConnects
    BY <1>5, EventSourceAssumption DEF Connected, EventSourceAssumption
  <2> QED  BY <1>5, <2>1, <2>2 DEF Connected
<1>6. CASE ConnectFails
  BY <1>6 DEF ConnectFails
<1>7. CASE DropCall
  BY <1>7 DEF DropCall
<1>8. CASE Cancel
  BY <1>8 DEF Cancel
<1>9. CASE UNCHANGED vars
  BY <1>9 DEF vars
<1> QED  BY <1>1, <1>2, <1>3, <1>4, <1>5, <1>6, <1>7, <1>8, <1>9 DEF Next

\* Every variable keeps to its range, and whatever the chunks were, the parser never
\* keeps a complete line for later (SseParser::push, sse.rs:35).
THEOREM TypeCorrect == Spec => []TypeOK
<1>1. TypeInv => TypeOK
  BY DEF TypeInv, TypeOK, Parser, Numbers, Ids
<1>2. Init => TypeInv
  BY TypeInit
<1>3. TypeInv /\ [Next]_vars => TypeInv'
  BY TypeStep
<1> QED  BY <1>1, <1>2, <1>3, PTL DEF Spec

-----------------------------------------------------------------------------
(* The last event with an id.                                              *)

LEMMA MaxFacts ==
  ASSUME NEW n \in Nat, NEW S \in SUBSET (1..n), S # {}
  PROVE  Max(S) \in S /\ \A y \in S : y =< Max(S)
<1> DEFINE T == {n - x : x \in S}
<1>1. T \in SUBSET Nat /\ T # {}
  <2>1. \A x \in S : x \in 1..n
    OBVIOUS
  <2>2. \A x \in 1..n : n - x \in Nat
    OBVIOUS
  <2> QED  BY <2>1, <2>2
<1>2. PICK t \in T : \A y \in T : ~(y < t)
  BY <1>1, Smallest
<1>3. PICK x \in S : t = n - x
  OBVIOUS
<1>4. \A y \in S : x >= y
  <2> TAKE y \in S
  <2>1. ~(n - y < t)
    BY <1>2
  <2>2. x \in 1..n /\ y \in 1..n
    OBVIOUS
  <2> QED  BY <1>3, <2>1, <2>2
<1>5. Max(S) \in S /\ \A y \in S : Max(S) >= y
  BY <1>3, <1>4 DEF Max
<1> QED  BY <1>5

\* The maximum of a set is the member that is not less than any.
LEMMA MaxIs ==
  ASSUME NEW n \in Nat, NEW S \in SUBSET (1..n), NEW x \in S, \A y \in S : y =< x
  PROVE  Max(S) = x
<1>1. Max(S) \in S /\ x =< Max(S)
  BY MaxFacts
<1>2. Max(S) =< x /\ Max(S) \in 1..n /\ x \in 1..n
  BY <1>1
<1> QED  BY <1>1, <1>2

LEMMA ConcatLast ==
  ASSUME NEW S, NEW pre \in Seq(S), NEW q \in Seq(S), NEW e \in S
  PROVE  pre \o (q \o <<e>>) = Append(pre \o q, e)
OBVIOUS

LEMMA HeadMoves ==
  ASSUME NEW S, NEW pre \in Seq(S), NEW q \in Seq(S), q # <<>>
  PROVE  Append(pre, Head(q)) \o Tail(q) = pre \o q
OBVIOUS

LEMMA ConcatAppend ==
  ASSUME NEW pre \in Seq(Event), NEW q \in Seq(Event), NEW e \in Event
  PROVE  Append(pre \o q, e) = pre \o Append(q, e)
OBVIOUS

Named(q) == {n \in DOMAIN q : q[n].id # None}
LastNamed(d, q) == IF Named(q) = {} THEN d ELSE q[Max(Named(q))].id

LEMMA LastNamedAppend ==
  ASSUME NEW d, NEW q \in Seq(Event), NEW e \in Event
  PROVE  LastNamed(d, Append(q, e)) = IF e.id = None THEN LastNamed(d, q) ELSE e.id
<1> DEFINE new == Append(q, e)
           n == Len(q) + 1
<1>1. /\ DOMAIN new = 1..n /\ new[n] = e /\ n \in Nat /\ DOMAIN q = 1..Len(q)
      /\ \A i \in 1..Len(q) : new[i] = q[i]
  OBVIOUS
<1> HIDE DEF new
<1>2. CASE e.id = None
  <2>1. Named(new) = Named(q)
    BY <1>1, <1>2 DEF Named
  <2>2. Named(q) # {} => Max(Named(q)) \in 1..Len(q)
    <3>1. Named(q) \in SUBSET (1..Len(q)) /\ Len(q) \in Nat
      BY <1>1 DEF Named
    <3> QED  BY <3>1, MaxFacts
  <2> QED  BY <1>1, <1>2, <2>1, <2>2 DEF LastNamed, new
<1>3. CASE e.id # None
  <2>1. n \in Named(new) /\ Named(new) \in SUBSET (1..n) /\ \A y \in Named(new) : y =< n
    BY <1>1, <1>3 DEF Named
  <2>2. Max(Named(new)) = n
    <3> HIDE DEF n
    <3> QED  BY <1>1, <2>1, MaxIs
  <2>3. Named(new) # {}
    BY <2>1
  <2> QED  BY <1>1, <1>3, <2>2, <2>3 DEF LastNamed, new
<1> QED  BY <1>2, <1>3

\* What a round does to the parser and to what the source has yielded so far, the
\* events pre before the chunk among it: a line without an ending; an empty line
\* with and without data before it; a line of a field.
LEMMA RoundCases ==
  ASSUME NEW s \in State, NEW pre \in Seq(Event)
  PROVE  LET t    == PushLine(s)
             p    == s.parser
             rest == Rest(p)
             all  == pre \o s.events
         IN \/ t = s
            \/ /\ TakesLine(s) /\ Ends(p.buffer[1]) /\ p.data = <<>>
               /\ t.parser = [rest EXCEPT !.event = None, !.id = None]
               /\ pre \o t.events = all
            \/ /\ TakesLine(s) /\ Ends(p.buffer[1]) /\ p.data # <<>>
               /\ t.parser = [rest EXCEPT !.event = None, !.data = <<>>, !.id = None,
                                          !.last = IF p.id = None THEN p.last ELSE p.id]
               /\ [id |-> p.id, event |-> p.event, data |-> p.data] \in Event
               /\ pre \o t.events = Append(all, [id |-> p.id, event |-> p.event, data |-> p.data])
            \/ /\ TakesLine(s) /\ ~Ends(p.buffer[1]) /\ p.buffer[1] \in Token
               /\ t.parser = Field(rest, p.buffer[1])
               /\ pre \o t.events = all
<1> DEFINE p    == s.parser
           rest == Rest(p)
           all  == pre \o s.events
           event == [id |-> p.id, event |-> p.event, data |-> p.data]
<1>1. p \in Parser /\ s.events \in Seq(Event) /\ event \in Event
  BY DEF State, Parser, Event
<1>2. /\ rest.data = p.data /\ rest.id = p.id /\ rest.event = p.event /\ rest.last = p.last
  BY <1>1 DEF Rest, Parser
<1>3. CASE NoLine(s, PushLine(s))
  BY <1>3 DEF NoLine
<1>4. CASE EmptyLine(s, PushLine(s)) /\ p.data = <<>>
  <2>1. Dispatch(rest) = [parser |-> [rest EXCEPT !.event = None, !.id = None], events |-> <<>>]
    BY <1>2, <1>4 DEF Dispatch
  <2>2. s.events \o <<>> = s.events
    BY <1>1
  <2> QED  BY <1>4, <2>1, <2>2 DEF EmptyLine
<1>5. CASE EmptyLine(s, PushLine(s)) /\ p.data # <<>>
  <2>1. Dispatch(rest) =
          [parser |-> [rest EXCEPT !.event = None, !.data = <<>>, !.id = None,
                                   !.last = IF rest.id = None THEN rest.last ELSE rest.id],
           events |-> <<[id |-> rest.id, event |-> rest.event, data |-> rest.data]>>]
    BY <1>2, <1>5 DEF Dispatch
  <2>2. PushLine(s).events = s.events \o <<event>>
    BY <1>2, <1>5, <2>1 DEF EmptyLine
  <2>3. pre \o PushLine(s).events = Append(all, event)
    <3> HIDE DEF event
    <3> QED  BY <1>1, <2>2, ConcatLast
  <2>4. PushLine(s).parser = [rest EXCEPT !.event = None, !.data = <<>>, !.id = None,
                                          !.last = IF p.id = None THEN p.last ELSE p.id]
    BY <1>2, <1>5, <2>1 DEF EmptyLine
  <2> QED  BY <1>1, <1>5, <2>3, <2>4 DEF EmptyLine
<1>6. CASE FieldLine(s, PushLine(s))
  <2>1. p.buffer[1] \in Token
    BY <1>6 DEF FieldLine, TakesLine
  <2> QED  BY <1>6, <2>1 DEF FieldLine
<1> QED  BY <1>3, <1>4, <1>5, <1>6, PushLineCases

\* What the parser has of a line, in the terms of the parser before it.
LEMMA RestFields ==
  ASSUME NEW s \in State, TakesLine(s)
  PROVE  LET p == s.parser
         IN /\ Rest(p) \in Parser
            /\ Rest(p).data = p.data /\ Rest(p).id = p.id /\ Rest(p).event = p.event
            /\ Rest(p).last = p.last
BY DEF State, Parser, Rest, TakesLine

\* The last id of the parser is that of the last event with an id.
LEMMA DrainNamed ==
  ASSUME NEW d, NEW p \in Parser, NEW pre \in Seq(Event), p.last = LastNamed(d, pre)
  PROVE  Drain(p).parser.last = LastNamed(d, pre \o Drain(p).events)
<1> DEFINE J == {s \in State : s.parser.last = LastNamed(d, pre \o s.events)}
<1>1. Output(p) \in J
  <2>1. pre \o <<>> = pre /\ Output(p) \in State
    BY DEF Output, State
  <2> QED  BY <2>1 DEF Output
<1>2. ASSUME NEW s \in J PROVE PushLine(s) \in J
  <2> DEFINE t == PushLine(s)
             e == [id |-> s.parser.id, event |-> s.parser.event, data |-> s.parser.data]
             all == pre \o s.events
  <2>1. s \in State /\ t \in State /\ s.parser.last = LastNamed(d, all) /\ all \in Seq(Event)
    BY PushLineType DEF State
  <2>2. TakesLine(s) => Rest(s.parser) \in Parser /\ Rest(s.parser).last = s.parser.last
    BY <2>1, RestFields
  <2>3. CASE t = s
    BY <2>3
  <2>4. CASE TakesLine(s) /\ t.parser = [Rest(s.parser) EXCEPT !.event = None, !.id = None]
             /\ pre \o t.events = all
    BY <2>1, <2>2, <2>4 DEF Parser
  <2>5. CASE /\ TakesLine(s) /\ e \in Event /\ pre \o t.events = Append(all, e)
             /\ t.parser = [Rest(s.parser) EXCEPT !.event = None, !.data = <<>>, !.id = None,
                              !.last = IF s.parser.id = None THEN s.parser.last ELSE s.parser.id]
    <3>1. t.parser.last = IF s.parser.id = None THEN s.parser.last ELSE s.parser.id
      BY <2>2, <2>5 DEF Parser
    <3>2. LastNamed(d, Append(all, e)) = IF e.id = None THEN LastNamed(d, all) ELSE e.id
      <4> HIDE DEF e, all
      <4> QED  BY <2>1, <2>5, LastNamedAppend
    <3>3. t.parser.last = LastNamed(d, pre \o t.events)
      <4>1. LastNamed(d, pre \o t.events) = LastNamed(d, Append(all, e))
        BY <2>5
      <4>2. e.id = s.parser.id
        OBVIOUS
      <4> HIDE DEF all, t, e
      <4> QED  BY <2>1, <3>1, <3>2, <4>1, <4>2
    <3> QED  BY <2>1, <3>3
  <2>6. CASE /\ TakesLine(s) /\ t.parser = Field(Rest(s.parser), s.parser.buffer[1])
             /\ pre \o t.events = all
    <3>1. t.parser.last = s.parser.last
      BY <2>2, <2>6 DEF Field, Parser
    <3> QED  BY <2>1, <2>6, <3>1
  <2> HIDE DEF J
  <2> QED  BY <2>1, <2>3, <2>4, <2>5, <2>6, RoundCases
<1>3. Drain(p) \in J
  <2>1. J \in SUBSET State
    OBVIOUS
  <2> HIDE DEF J
  <2> QED  BY <1>1, <1>2, <2>1, DrainInduction
<1> QED  BY <1>3

\* A call that waits has nothing left to hand over, and a request carries the last id.
CallInv ==
  /\ call # "idle" => pending = <<>>
  /\ call = "sending" => asked = Header(given) \o Header(parser.last)

NamedInv == parser.last = LastNamed(given, received \o pending)

LEMMA NamedStep ==
  ASSUME TypeInv, CallInv, NamedInv, [Next]_vars
  PROVE  CallInv' /\ NamedInv'
<1> USE DEF CallInv, NamedInv, calling, events, wire
<1>1. CASE NextEvent
  <2>1. CASE call = "idle" /\ pending # <<>> /\ received' = Append(received, Head(pending))
             /\ pending' = Tail(pending) /\ UNCHANGED <<call, parser, given>>
    <3>1. Append(received, Head(pending)) \o Tail(pending) = received \o pending
      BY <2>1, HeadMoves DEF TypeInv
    <3> QED  BY <2>1, <3>1
  <2>2. CASE UNCHANGED <<pending, received>>
    BY <1>1, <2>2 DEF NextEvent
  <2> QED  BY <1>1, <2>1, <2>2 DEF NextEvent
<1>2. CASE Chunk
  <2>1. PICK chunk : Arrives(chunk)
    BY <1>2, ChunkArrives
  <2>2. parser \in Parser /\ received \in Seq(Event) /\ pending = <<>> /\ received \o pending = received
    BY <1>2 DEF TypeInv, Chunk
  <2>3. Filled(parser, chunk) \in Parser /\ Filled(parser, chunk).last = parser.last
    BY <2>1, <2>2, FilledType DEF Arrives
  <2>4. Drain(Filled(parser, chunk)).parser.last
          = LastNamed(given, received \o Drain(Filled(parser, chunk)).events)
    BY <2>2, <2>3, DrainNamed
  <2>5. received' = received /\ call' = "idle" /\ given' = given
    BY <1>2 DEF Chunk
  <2> QED  BY <2>1, <2>4, <2>5 DEF Arrives
<1>3. CASE BodyEnd
  BY <1>3 DEF BodyEnd, BodyEnds
<1>4. CASE Wake
  BY <1>4 DEF Wake
<1>5. CASE Connected
  BY <1>5 DEF Connected
<1>6. CASE ConnectFails
  BY <1>6 DEF ConnectFails
<1>7. CASE DropCall
  BY <1>7 DEF DropCall
<1>8. CASE Cancel
  BY <1>8 DEF Cancel
<1>9. CASE UNCHANGED vars
  BY <1>9 DEF vars
<1> QED  BY <1>1, <1>2, <1>3, <1>4, <1>5, <1>6, <1>7, <1>8, <1>9 DEF Next

LEMMA NamedInit ==
  ASSUME Init
  PROVE  CallInv /\ NamedInv
<1>1. received \o pending = <<>> /\ parser.last = given
  BY DEF Init, Fresh
<1>2. LastNamed(given, <<>>) = given
  BY DEF LastNamed, Named
<1> QED  BY <1>1, <1>2 DEF Init, CallInv, NamedInv

\* The last word of the request of a source that reconnects is the id of the last
\* event with an id among those that the consumer has got, never that of an event it
\* has not (EventSource::reconnect, sse.rs:298, and SseParser::dispatch, sse.rs:75).
THEOREM ResumesCorrect == Spec => []ResumesAfterReceived
<1> DEFINE Inv == TypeInv /\ CallInv /\ NamedInv
<1>1. Inv => ResumesAfterReceived
  <2> DEFINE id == LastNamed(given, received)
  <2> SUFFICES ASSUME Inv, call = "sending"
               PROVE  IF id = None THEN asked = <<>> ELSE asked # <<>> /\ Last(asked) = id
    BY DEF ResumesAfterReceived, LastNamed, Named
  <2>1. received \o pending = received
    BY DEF TypeInv, CallInv
  <2>2. asked = Header(given) \o Header(id) /\ id = parser.last
    BY <2>1 DEF CallInv, NamedInv
  <2>3. id = None => given = None
    <3>1. CASE Named(received) = {}
      BY <3>1 DEF LastNamed
    <3>2. CASE Named(received) # {}
      <4>1. Named(received) \in SUBSET (1..Len(received)) /\ Len(received) \in Nat
        BY DEF TypeInv, Named
      <4>2. Max(Named(received)) \in Named(received)
        BY <3>2, <4>1, MaxFacts
      <4> QED  BY <3>2, <4>2 DEF LastNamed, Named
    <3> QED  BY <3>1, <3>2
  <2> QED  BY <2>2, <2>3 DEF Header, Last
<1>2. Init => Inv
  BY TypeInit, NamedInit
<1>3. Inv /\ [Next]_vars => Inv'
  BY TypeStep, NamedStep
<1> QED  BY <1>1, <1>2, <1>3, PTL DEF Spec

-----------
(* The order of the data.                                                  *)

InOrder(evs) ==
  \A m, n \in DOMAIN evs : \A i \in DOMAIN evs[m].data, j \in DOMAIN evs[n].data :
    m < n \/ (m = n /\ i < j) => evs[m].data[i] < evs[n].data[j]

UpTo(evs, d) == \A m \in DOMAIN evs : \A i \in DOMAIN evs[m].data : evs[m].data[i] =< d

Between(data, d, e) ==
  /\ \A i, j \in DOMAIN data : i < j => data[i] < data[j]
  /\ \A i \in DOMAIN data : d < data[i] /\ data[i] =< e

Queued(b, e, t) ==
  /\ \A i, j \in DOMAIN b : i < j => b[i].at < b[j].at
  /\ \A i \in DOMAIN b : e < b[i].at /\ b[i].at =< t

\* The tokens up to d are in events, those from there to e in the data of the parser,
\* those from there to t in its buffer.
OrderedAt(evs, p, t, d, e) ==
  InOrder(evs) /\ UpTo(evs, d) /\ Between(p.data, d, e) /\ Queued(p.buffer, e, t)

Ordered(evs, p, t) == \E d, e \in Nat : d =< e /\ e =< t /\ OrderedAt(evs, p, t, d, e)

LEMMA TailFacts ==
  ASSUME NEW S, NEW q \in Seq(S), Len(q) > 0
  PROVE  /\ Tail(q) \in Seq(S) /\ Len(Tail(q)) = Len(q) - 1
         /\ \A i \in 1..(Len(q) - 1) : Tail(q)[i] = q[i + 1]
OBVIOUS

LEMMA TokenNumber ==
  ASSUME NEW token \in Token
  PROVE  token.at \in Nat
BY EventSourceAssumption DEF Token, EventSourceAssumption

LEMMA DataNumbers ==
  ASSUME NEW data \in Seq(1..MaxTokens)
  PROVE  \A i \in DOMAIN data : data[i] \in Nat
<1> DEFINE S == 1..MaxTokens
<1>1. S \subseteq Nat
  BY EventSourceAssumption DEF EventSourceAssumption
<1>2. data \in Seq(S)
  OBVIOUS
<1> HIDE DEF S
<1>3. DOMAIN data = 1..Len(data)
  BY <1>2
<1>4. \A i \in 1..Len(data) : data[i] \in S
  BY <1>2
<1> QED  BY <1>1, <1>3, <1>4

LEMMA AppendEvent ==
  ASSUME NEW evs \in Seq(Event), NEW ev \in Event, NEW d \in Nat, NEW e \in Nat, d =< e,
         InOrder(evs), UpTo(evs, d), Between(ev.data, d, e)
  PROVE  InOrder(Append(evs, ev)) /\ UpTo(Append(evs, ev), e)
<1> DEFINE new == Append(evs, ev)
           n == Len(evs) + 1
<1>1. /\ DOMAIN new = 1..n /\ new[n] = ev /\ n \in Nat /\ DOMAIN evs = 1..(n - 1)
      /\ \A m \in 1..(n - 1) : new[m] = evs[m]
  OBVIOUS
<1> HIDE DEF new, n
<1>2. \A m \in 1..(n - 1) : evs[m] \in Event
  BY <1>1
<1>3. \A i \in DOMAIN ev.data : ev.data[i] \in Nat /\ d < ev.data[i] /\ ev.data[i] =< e
  <2>1. ev.data \in Seq(1..MaxTokens)
    BY DEF Event
  <2> QED  BY <2>1, DataNumbers DEF Between
<1>4. ASSUME NEW m \in 1..(n - 1)
      PROVE  \A i \in DOMAIN evs[m].data : evs[m].data[i] \in Nat /\ evs[m].data[i] =< d
  <2>1. evs[m].data \in Seq(1..MaxTokens)
    BY <1>2 DEF Event
  <2>2. \A i \in DOMAIN evs[m].data : evs[m].data[i] =< d
    BY <1>1 DEF UpTo
  <2> QED  BY <2>1, <2>2, DataNumbers
<1>5. InOrder(new)
  <2> SUFFICES ASSUME NEW m \in 1..n, NEW k \in 1..n, NEW i \in DOMAIN new[m].data,
                      NEW j \in DOMAIN new[k].data, m < k \/ (m = k /\ i < j)
               PROVE  new[m].data[i] < new[k].data[j]
    BY <1>1 DEF InOrder
  <2>1. CASE k < n
    <3>1. m \in 1..(n - 1) /\ k \in 1..(n - 1)
      BY <1>1, <2>1
    <3> QED  BY <1>1, <3>1 DEF InOrder
  <2>2. CASE k = n /\ m < n
    <3>1. m \in 1..(n - 1)
      BY <1>1, <2>2
    <3> QED  BY <1>1, <1>3, <1>4, <2>2, <3>1
  <2>3. CASE k = n /\ m = n
    BY <1>1, <2>3 DEF Between
  <2> QED  BY <1>1, <2>1, <2>2, <2>3
<1>6. UpTo(new, e)
  <2> SUFFICES ASSUME NEW m \in 1..n, NEW i \in DOMAIN new[m].data PROVE new[m].data[i] =< e
    BY <1>1 DEF UpTo
  <2>1. CASE m = n
    BY <1>1, <1>3, <2>1
  <2>2. CASE m # n
    <3>1. m \in 1..(n - 1)
      BY <1>1, <2>2
    <3> QED  BY <1>1, <1>4, <3>1
  <2> QED  BY <2>1, <2>2
<1> QED  BY <1>5, <1>6 DEF new

\* A suffix of a queue is a queue, behind what was taken from it as well.
LEMMA QueuedRest ==
  ASSUME NEW b \in Seq(Token), NEW e \in Nat, NEW t \in Nat, NEW end \in 1..Len(b),
         NEW rest \in Seq(Token), Len(rest) = Len(b) - end,
         \A i \in 1..(Len(b) - end) : rest[i] = b[end + i],
         Queued(b, e, t)
  PROVE  /\ Queued(rest, e, t) /\ Queued(rest, b[1].at, t)
         /\ b[1].at \in Nat /\ e < b[1].at /\ b[1].at =< t
<1>1. \A i \in 1..Len(b) : b[i].at \in Nat
  BY TokenNumber
<1>2. DOMAIN rest = 1..(Len(b) - end) /\ DOMAIN b = 1..Len(b) /\ 1 \in DOMAIN b
  BY Len(b) \in Nat
<1>3. \A i \in DOMAIN rest : end + i \in DOMAIN b /\ rest[i] = b[end + i] /\ 1 < end + i
  BY <1>2
<1>4. Queued(rest, e, t)
  <2>1. \A i, j \in DOMAIN rest : i < j => end + i < end + j
    BY <1>2
  <2>2. \A i, j \in DOMAIN rest : i < j => rest[i].at < rest[j].at
    BY <1>3, <2>1 DEF Queued
  <2>3. \A i \in DOMAIN rest : e < rest[i].at /\ rest[i].at =< t
    BY <1>3 DEF Queued
  <2> QED  BY <2>2, <2>3 DEF Queued
<1>5. \A i \in DOMAIN rest : b[1].at < rest[i].at
  BY <1>2, <1>3 DEF Queued
<1> QED  BY <1>1, <1>2, <1>4, <1>5 DEF Queued

LEMMA RoundOrdered ==
  ASSUME NEW s \in State, NEW pre \in Seq(Event), NEW t \in Nat, Ordered(pre \o s.events, s.parser, t)
  PROVE  Ordered(pre \o PushLine(s).events, PushLine(s).parser, t)
<1> DEFINE p == s.parser
           b == p.buffer
           new == PushLine(s)
           evs == pre \o s.events
           ev == [id |-> p.id, event |-> p.event, data |-> p.data]
<1>1. PICK d \in Nat, e \in Nat : d =< e /\ e =< t /\ OrderedAt(evs, p, t, d, e)
  BY DEF Ordered
<1>2. evs \in Seq(Event) /\ p \in Parser /\ new \in State /\ new.parser.buffer \in Seq(Token)
  BY PushLineType DEF State, Parser
<1>3. CASE new = s
  BY <1>1, <1>3 DEF Ordered
<1>4. CASE TakesLine(s)
  <2> DEFINE rest == new.parser.buffer
             first == b[1].at
  <2>1. Queued(rest, e, t) /\ Queued(rest, first, t) /\ first \in Nat /\ e < first /\ first =< t
    <3>1. /\ b \in Seq(Token) /\ LineEnd(b) \in 1..Len(b) /\ rest \in Seq(Token)
          /\ Len(rest) = Len(b) - LineEnd(b)
          /\ \A i \in 1..(Len(b) - LineEnd(b)) : rest[i] = b[LineEnd(b) + i]
      BY <1>2, <1>4, PushLineBuffer DEF TakesLine
    <3>2. Queued(b, e, t)
      BY <1>1 DEF OrderedAt
    <3> HIDE DEF b, rest
    <3> QED  BY <3>1, <3>2, QueuedRest
  <2>2. /\ Rest(p) \in Parser /\ Rest(p).data = p.data
    BY <1>4, RestFields
  <2>3. CASE new.parser = [Rest(p) EXCEPT !.event = None, !.id = None] /\ pre \o new.events = evs
    <3>1. new.parser.data = p.data
      BY <2>2, <2>3 DEF Parser
    <3>2. OrderedAt(evs, new.parser, t, d, e)
      BY <1>1, <2>1, <3>1 DEF OrderedAt
    <3> QED  BY <1>1, <2>3, <3>2 DEF Ordered
  <2>4. CASE /\ new.parser = [Rest(p) EXCEPT !.event = None, !.data = <<>>, !.id = None,
                                !.last = IF p.id = None THEN p.last ELSE p.id]
             /\ ev \in Event /\ pre \o new.events = Append(evs, ev)
    <3>1. new.parser.data = <<>>
      BY <2>2, <2>4 DEF Parser
    <3>2. InOrder(Append(evs, ev)) /\ UpTo(Append(evs, ev), e)
      <4>1. InOrder(evs) /\ UpTo(evs, d) /\ Between(ev.data, d, e)
        BY <1>1 DEF OrderedAt
      <4> HIDE DEF ev, evs
      <4> QED  BY <1>1, <1>2, <2>4, <4>1, AppendEvent
    <3>3. Between(new.parser.data, e, e)
      BY <3>1 DEF Between
    <3>4. OrderedAt(Append(evs, ev), new.parser, t, e, e)
      BY <2>1, <3>2, <3>3 DEF OrderedAt
    <3> QED  BY <1>1, <2>4, <3>4 DEF Ordered
  <2>5. CASE new.parser = Field(Rest(p), b[1]) /\ pre \o new.events = evs
    <3>1. CASE b[1].kind = "data"
      <4>1. new.parser.data = Append(p.data, first)
        BY <2>2, <2>5, <3>1 DEF Field, Parser
      <4>2. p.data \in Seq(1..MaxTokens) /\ Between(p.data, d, e)
        BY <1>1, <1>2 DEF Parser, OrderedAt
      <4>3. \A i \in DOMAIN p.data : p.data[i] \in Nat
        BY <4>2, DataNumbers
      <4>4. Between(Append(p.data, first), d, first)
        <5> DEFINE data == p.data
                   more == Append(data, first)
        <5>1. /\ DOMAIN more = 1..(Len(data) + 1) /\ more[Len(data) + 1] = first
              /\ DOMAIN data = 1..Len(data) /\ Len(data) \in Nat
              /\ \A i \in 1..Len(data) : more[i] = data[i]
          BY <4>2
        <5>2. \A i \in 1..Len(data) : data[i] \in Nat /\ d < data[i] /\ data[i] =< e
          BY <4>2, <4>3, <5>1 DEF Between
        <5>3. \A i, j \in 1..Len(data) : i < j => data[i] < data[j]
          BY <4>2, <5>1 DEF Between
        <5> HIDE DEF data, more, first
        <5>4. \A i \in 1..(Len(data) + 1) : d < more[i] /\ more[i] =< first
          BY <1>1, <2>1, <5>1, <5>2
        <5>5. ASSUME NEW i \in 1..(Len(data) + 1), NEW j \in 1..(Len(data) + 1), i < j
              PROVE  more[i] < more[j]
          <6>1. CASE j = Len(data) + 1
            <7>1. i \in 1..Len(data)
              BY <5>1, <5>5, <6>1
            <7> QED  BY <1>1, <2>1, <5>1, <5>2, <6>1, <7>1
          <6>2. CASE j # Len(data) + 1
            <7>1. i \in 1..Len(data) /\ j \in 1..Len(data)
              BY <5>1, <5>5, <6>2
            <7> QED  BY <5>1, <5>3, <5>5, <7>1
          <6> QED  BY <6>1, <6>2
        <5> QED  BY <5>1, <5>4, <5>5 DEF Between, data, more
      <4>5. OrderedAt(evs, new.parser, t, d, first)
        BY <1>1, <2>1, <4>1, <4>4 DEF OrderedAt
      <4>6. d =< first
        BY <1>1, <2>1
      <4> QED  BY <1>1, <2>1, <2>5, <4>5, <4>6 DEF Ordered
    <3>2. CASE b[1].kind # "data"
      <4>1. new.parser.data = p.data
        BY <2>2, <2>5, <3>2 DEF Field, Parser
      <4>2. OrderedAt(evs, new.parser, t, d, e)
        BY <1>1, <2>1, <4>1 DEF OrderedAt
      <4> QED  BY <1>1, <2>5, <4>2 DEF Ordered
    <3> QED  BY <3>1, <3>2
  <2> HIDE DEF new, evs
  <2> QED  BY <1>4, <2>3, <2>4, <2>5, <1>3, RoundCases DEF new, evs
<1> QED  BY <1>3, <1>4, RoundCases

LEMMA DrainOrdered ==
  ASSUME NEW p \in Parser, NEW pre \in Seq(Event), NEW t \in Nat, Ordered(pre, p, t)
  PROVE  Ordered(pre \o Drain(p).events, Drain(p).parser, t)
<1> DEFINE J == {s \in State : Ordered(pre \o s.events, s.parser, t)}
<1>1. Output(p) \in J
  <2>1. pre \o <<>> = pre /\ Output(p) \in State
    BY DEF Output, State
  <2> QED  BY <2>1 DEF Output
<1>2. ASSUME NEW s \in J PROVE PushLine(s) \in J
  BY PushLineType, RoundOrdered
<1>3. J \in SUBSET State
  OBVIOUS
<1>4. Drain(p) \in J
  <2> HIDE DEF J
  <2> QED  BY <1>1, <1>2, <1>3, DrainInduction
<1> QED  BY <1>4

\* The tokens of a chunk come behind all others.
LEMMA FilledOrdered ==
  ASSUME TypeInv, NEW chunk, Arrives(chunk), NEW evs, Ordered(evs, parser, tokens)
  PROVE  Ordered(evs, Filled(parser, chunk), tokens')
<1> DEFINE all == parser.buffer \o chunk
           n == Len(parser.buffer)
           b == Filled(parser, chunk).buffer
<1>1. PICK d \in Nat, e \in Nat : d =< e /\ e =< tokens /\ OrderedAt(evs, parser, tokens, d, e)
  BY DEF Ordered
<1>2. /\ parser \in Parser /\ parser.buffer \in Seq(Token) /\ chunk \in Seq(Token) /\ Len(chunk) > 0
      /\ tokens \in Nat /\ tokens' = tokens + Len(chunk) /\ tokens' \in Nat
  BY DEF TypeInv, Arrives, Parser
<1>3. /\ all \in Seq(Token) /\ Len(all) > 0 /\ Len(all) = n + Len(chunk) /\ n \in Nat
      /\ b = IF all[1].kind = "bom" THEN Tail(all) ELSE all
      /\ Filled(parser, chunk).data = parser.data
      /\ \A i \in 1..Len(all) : all[i] = IF i =< n THEN parser.buffer[i] ELSE chunk[i - n]
      /\ DOMAIN all = 1..Len(all) /\ DOMAIN parser.buffer = 1..n
  BY <1>2, FilledType
<1>4. /\ \A i \in 1..n : parser.buffer[i].at \in Nat /\ e < parser.buffer[i].at
                          /\ parser.buffer[i].at =< tokens
      /\ \A i, j \in 1..n : i < j => parser.buffer[i].at < parser.buffer[j].at
  <2>1. Queued(parser.buffer, e, tokens)
    BY <1>1 DEF OrderedAt
  <2>2. \A i \in 1..n : parser.buffer[i] \in Token
    BY <1>2
  <2>3. \A i \in 1..n : parser.buffer[i].at \in Nat
    BY <2>2, TokenNumber
  <2> QED  BY <1>3, <2>1, <2>3 DEF Queued
<1>5. \A i \in 1..Len(chunk) : chunk[i].at = tokens + i
  BY DEF Arrives
<1>6. Queued(all, e, tokens')
  <2> HIDE DEF all, n
  <2>1. ASSUME NEW i \in 1..Len(all), i =< n
        PROVE  i \in 1..n /\ all[i] = parser.buffer[i]
    BY <1>3, <2>1
  <2>2. ASSUME NEW i \in 1..Len(all), ~(i =< n)
        PROVE  i - n \in 1..Len(chunk) /\ all[i] = chunk[i - n] /\ all[i].at = tokens + (i - n)
    BY <1>2, <1>3, <1>5, <2>2
  <2>3. ASSUME NEW i \in 1..Len(all) PROVE e < all[i].at /\ all[i].at =< tokens'
    <3>1. CASE i =< n
      BY <1>2, <1>4, <2>1, <3>1
    <3>2. CASE ~(i =< n)
      BY <1>1, <1>2, <2>2, <3>2
    <3> QED  BY <3>1, <3>2
  <2>4. ASSUME NEW i \in 1..Len(all), NEW j \in 1..Len(all), i < j PROVE all[i].at < all[j].at
    <3>1. CASE j =< n
      BY <1>3, <1>4, <2>1, <2>4, <3>1
    <3>2. CASE i =< n /\ ~(j =< n)
      <4>1. all[i].at =< tokens /\ all[i].at \in Nat
        BY <1>4, <2>1, <3>2
      <4>2. j - n \in 1..Len(chunk) /\ all[j].at = tokens + (j - n)
        BY <2>2, <3>2
      <4> QED  BY <1>2, <4>1, <4>2
    <3>3. CASE ~(i =< n)
      <4>1. ~(j =< n)
        BY <1>3, <2>4, <3>3
      <4> QED  BY <1>2, <1>3, <2>2, <2>4, <3>3, <4>1
    <3> QED  BY <1>3, <2>4, <3>1, <3>2, <3>3
  <2> QED  BY <1>3, <2>3, <2>4 DEF Queued
<1>7. Queued(Tail(all), e, tokens')
  <2> DEFINE rest == Tail(all)
  <2>1. rest \in Seq(Token) /\ Len(rest) = Len(all) - 1 /\ \A i \in 1..(Len(all) - 1) : rest[i] = all[1 + i]
    <3> HIDE DEF all
    <3>1. rest \in Seq(Token) /\ Len(rest) = Len(all) - 1 /\ \A i \in 1..(Len(all) - 1) : rest[i] = all[i + 1]
      BY <1>3, TailFacts
    <3>2. \A i \in 1..(Len(all) - 1) : i + 1 = 1 + i
      OBVIOUS
    <3> QED  BY <3>1, <3>2
  <2> HIDE DEF all, rest
  <2>2. 1 \in 1..Len(all)
    BY <1>3
  <2>3. Queued(rest, e, tokens')
    BY <1>2, <1>3, <1>6, <2>1, <2>2, QueuedRest
  <2> QED  BY <2>3 DEF rest
<1>8. OrderedAt(evs, Filled(parser, chunk), tokens', d, e)
  BY <1>1, <1>3, <1>6, <1>7 DEF OrderedAt
<1>9. e =< tokens'
  BY <1>1, <1>2
<1> QED  BY <1>1, <1>8, <1>9 DEF Ordered

OrderInv == Ordered(received \o pending, parser, tokens)

LEMMA OrderInit ==
  ASSUME Init
  PROVE  OrderInv
<1>1. received \o pending = <<>> /\ parser.data = <<>> /\ parser.buffer = <<>> /\ tokens = 0
  BY DEF Init, Fresh
<1>2. OrderedAt(<<>>, parser, 0, 0, 0)
  BY <1>1 DEF OrderedAt, InOrder, UpTo, Between, Queued
<1> QED  BY <1>1, <1>2 DEF OrderInv, Ordered

LEMMA OrderStep ==
  ASSUME TypeInv, CallInv, OrderInv, [Next]_vars
  PROVE  OrderInv'
<1> USE DEF OrderInv, calling, events, wire
<1>1. CASE NextEvent
  <2>1. CASE pending # <<>> /\ received' = Append(received, Head(pending)) /\ pending' = Tail(pending)
    <3>1. Append(received, Head(pending)) \o Tail(pending) = received \o pending
      BY <2>1, HeadMoves DEF TypeInv
    <3> QED  BY <1>1, <2>1, <3>1 DEF NextEvent
  <2>2. CASE UNCHANGED <<pending, received>>
    BY <1>1, <2>2 DEF NextEvent
  <2> QED  BY <1>1, <2>1, <2>2 DEF NextEvent
<1>2. CASE Chunk
  <2>1. PICK chunk : Arrives(chunk)
    BY <1>2, ChunkArrives
  <2>2. /\ received \in Seq(Event) /\ received \o pending = received /\ received' = received
    BY <1>2 DEF TypeInv, Chunk, CallInv
  <2>3. Ordered(received, Filled(parser, chunk), tokens')
    BY <2>1, <2>2, FilledOrdered
  <2>4. Filled(parser, chunk) \in Parser /\ tokens' \in Nat
    BY <2>1 DEF Arrives
  <2>5. Ordered(received \o Drain(Filled(parser, chunk)).events,
                Drain(Filled(parser, chunk)).parser, tokens')
    BY <2>2, <2>3, <2>4, DrainOrdered
  <2> QED  BY <2>1, <2>2, <2>5 DEF Arrives
<1>3. CASE UNCHANGED <<received, pending, parser, tokens>>
  BY <1>3
<1>4. CASE BodyEnd \/ Wake \/ Connected \/ ConnectFails \/ DropCall \/ Cancel \/ UNCHANGED vars
  BY <1>3, <1>4 DEF BodyEnd, BodyEnds, Wake, Connected, ConnectFails, DropCall, Cancel, vars
<1> QED  BY <1>1, <1>2, <1>4 DEF Next

LEMMA OrderedReceived ==
  ASSUME TypeInv, OrderInv
  PROVE  DataInOrder
<1> DEFINE all == received \o pending
<1>1. \A m \in DOMAIN received : m \in DOMAIN all /\ all[m] = received[m]
  BY DEF TypeInv
<1>2. InOrder(all)
  BY DEF OrderInv, Ordered, OrderedAt
<1> HIDE DEF all
<1> QED  BY <1>1, <1>2 DEF DataInOrder, InOrder

\* No line of data reaches the consumer twice or out of order, wherever the chunks
\* and the connections were cut (SseParser::push, sse.rs:35).
THEOREM OrderCorrect == Spec => []DataInOrder
<1> DEFINE Inv == TypeInv /\ CallInv /\ NamedInv /\ OrderInv
<1>1. Inv => DataInOrder
  BY OrderedReceived
<1>2. Init => Inv
  BY TypeInit, NamedInit, OrderInit
<1>3. Inv /\ [Next]_vars => Inv'
  BY TypeStep, NamedStep, OrderStep
<1> QED  BY <1>1, <1>2, <1>3, PTL DEF Spec

-----------------------------------------------------------------------------
(* What the parser has read of the stream of a connection: the first c     *)
(* tokens, whole lines all of them.                                         *)

Rank(S, i) == Cardinality({j \in S : j <= i})
Nth(S, n) == CHOOSE i \in S : Rank(S, i) = n

LEMMA AscendingNth ==
  ASSUME NEW S
  PROVE  Ascending(S) = [n \in 1..Cardinality(S) |-> Nth(S, n)]
BY DEF Ascending, Nth, Rank

LEMMA NthSame ==
  ASSUME NEW S, NEW R, NEW n, \A i : (i \in S /\ Rank(S, i) = n) <=> (i \in R /\ Rank(R, i) = n)
  PROVE  Nth(S, n) = Nth(R, n)
BY DEF Nth

\* A new last position comes last, and the others keep their places.
ComesLast(S, x, k) ==
  /\ k \in Nat
  /\ DOMAIN Ascending(S) = 1..k /\ DOMAIN Ascending(S \cup {x}) = 1..(k + 1)
  /\ Ascending(S \cup {x})[k + 1] = x
  /\ \A n \in 1..k : Ascending(S \cup {x})[n] = Ascending(S)[n]

LEMMA AscendingLast ==
  ASSUME NEW c \in Nat, NEW S \in SUBSET (1..c), NEW x \in Nat, c < x
  PROVE  ComesLast(S, x, Cardinality(S))
<1> DEFINE R == S \cup {x}
           k == Cardinality(S)
<1>1. IsFiniteSet(S)
  <2>1. IsFiniteSet(1..c)
    BY FS_Interval
  <2> QED  BY <2>1, FS_Subset
<1>2. x \notin S
  OBVIOUS
<1>3. k \in Nat /\ Cardinality(R) = k + 1
  BY <1>1, <1>2, FS_AddElement, FS_CardinalityType
<1>4. Rank(R, x) = k + 1
  <2>1. \A j \in R : j <= x
    <3> TAKE j \in R
    <3>1. CASE j = x
      BY <3>1
    <3>2. CASE j \in S
      <4>1. j \in Nat /\ j <= c
        BY <3>2
      <4> QED  BY <4>1
    <3> QED  BY <3>1, <3>2
  <2>2. {j \in R : j <= x} = R
    BY <2>1
  <2> QED  BY <1>3, <2>2 DEF Rank
<1>5. ASSUME NEW i \in S PROVE Rank(R, i) = Rank(S, i) /\ Rank(S, i) \in Nat /\ Rank(S, i) =< k
  <2>1. {j \in R : j <= i} = {j \in S : j <= i}
    OBVIOUS
  <2>2. Rank(S, i) \in Nat /\ Rank(S, i) =< k
    <3>1. {j \in S : j <= i} \subseteq S
      OBVIOUS
    <3> QED  BY <1>1, <3>1, FS_Subset, FS_CardinalityType DEF Rank
  <2> QED  BY <2>1, <2>2 DEF Rank
<1> HIDE DEF k
<1>6. Nth(R, k + 1) = x
  <2>1. \A i \in R : Rank(R, i) = k + 1 => i = x
    BY <1>3, <1>5
  <2>2. x \in R
    OBVIOUS
  <2> HIDE DEF R
  <2> QED  BY <1>4, <2>1, <2>2 DEF Nth
<1>7. ASSUME NEW n \in 1..k PROVE Nth(R, n) = Nth(S, n)
  <2>1. n # k + 1
    BY <1>3
  <2>2. \A i : (i \in R /\ Rank(R, i) = n) <=> (i \in S /\ Rank(S, i) = n)
    <3> TAKE i
    <3>1. CASE i = x
      BY <1>2, <1>4, <2>1, <3>1
    <3>2. CASE i # x
      <4>1. i \in R <=> i \in S
        BY <3>2
      <4> HIDE DEF R
      <4> QED  BY <1>5, <4>1
    <3> QED  BY <3>1, <3>2
  <2> HIDE DEF R
  <2> QED  BY <2>2, NthSame
<1> HIDE DEF R
<1>8. Ascending(R) = [n \in 1..(k + 1) |-> Nth(R, n)] /\ Ascending(S) = [n \in 1..k |-> Nth(S, n)]
  BY <1>3, AscendingNth DEF k
<1>9. k + 1 \in 1..(k + 1) /\ \A n \in 1..k : n \in 1..(k + 1)
  BY <1>3
<1>10. ComesLast(S, x, k)
  BY <1>3, <1>6, <1>7, <1>8, <1>9 DEF R, ComesLast
<1> QED  BY <1>10 DEF k

\* The lines of one field since the last empty line up to c, and the blocks up to c.
Open(s, c, kind) ==
  {k \in Starts(s) : k <= c /\ s[k].kind = kind /\ \A j \in Blanks(s) : ~(k < j /\ j <= c)}
Blocks(s, c) == {i \in Blanks(s) : i <= c /\ Lines(s, i, "data") # {}}

DataOf(s, S) == LET q == Ascending(S) IN [n \in DOMAIN q |-> s[q[n]].at]
FinalOf(s, S) == IF S = {} THEN None ELSE s[Max(S)].at

EventsUpTo(s, c) ==
  LET blocks == Ascending(Blocks(s, c)) IN [n \in DOMAIN blocks |-> EventAt(s, blocks[n])]

\* b is what follows the first c tokens of s, and c is the end of a line.
Follow(s, c, b) ==
  /\ c \in 0..Len(s) /\ First(s) - 1 <= c
  /\ Len(b) = Len(s) - c /\ \A i \in 1..Len(b) : b[i] = s[c + i]
  /\ c >= First(s) => Ends(s[c])
  /\ c >= First(s) /\ c < Len(s) => ~(s[c].kind = "CR" /\ s[c + 1].kind = "LF")

\* The fields of the block that the parser is in.
Holds(s, c, p) ==
  /\ p.data = DataOf(s, Open(s, c, "data"))
  /\ p.id = FinalOf(s, Open(s, c, "id"))
  /\ p.event = FinalOf(s, Open(s, c, "event"))

LEMMA FirstFacts ==
  ASSUME NEW s \in Seq(Token)
  PROVE  First(s) \in {1, 2} /\ (s # <<>> => First(s) - 1 \in 0..Len(s)) /\ (s = <<>> => First(s) = 1)
<1>1. s # <<>> => Len(s) > 0
  OBVIOUS
<1> QED  BY <1>1 DEF First

LEMMA SetsInStream ==
  ASSUME NEW s \in Seq(Token), NEW c \in Nat
  PROVE  /\ Starts(s) \subseteq 1..Len(s) /\ Blanks(s) \subseteq 1..Len(s)
         /\ \A kind : Open(s, c, kind) \subseteq 1..c /\ Open(s, c, kind) \subseteq 1..Len(s)
         /\ Blocks(s, c) \subseteq 1..c
<1>1. First(s) \in {1, 2} /\ Len(s) \in Nat
  BY FirstFacts
<1>2. Starts(s) \subseteq 1..Len(s) /\ Blanks(s) \subseteq 1..Len(s)
  BY <1>1 DEF Starts, Blanks
<1>3. ASSUME NEW kind PROVE Open(s, c, kind) \subseteq 1..c /\ Open(s, c, kind) \subseteq 1..Len(s)
  BY <1>2 DEF Open
<1>4. Blocks(s, c) \subseteq 1..c
  BY <1>2 DEF Blocks
<1> QED  BY <1>2, <1>3, <1>4

\* The block that an empty line right behind c ends is the one open at c.
LEMMA LinesAreOpen ==
  ASSUME NEW s \in Seq(Token), NEW c \in Nat, NEW kind
  PROVE  Lines(s, c + 1, kind) = Open(s, c, kind)
<1>1. \A k \in Starts(s) : k \in Int /\ (k < c + 1 <=> k <= c)
  BY SetsInStream
<1>2. \A j \in Blanks(s) : j \in Int /\ (j < c + 1 <=> j <= c)
  BY SetsInStream
<1>3. \A k \in Starts(s) :
        (\A j \in Blanks(s) : ~(k < j /\ j < c + 1)) <=> (\A j \in Blanks(s) : ~(k < j /\ j <= c))
  BY <1>2
<1> QED  BY <1>1, <1>3 DEF Lines, Open

LEMMA EventAtNext ==
  ASSUME NEW s \in Seq(Token), NEW c \in Nat, NEW p, Holds(s, c, p)
  PROVE  EventAt(s, c + 1) = [id |-> p.id, event |-> p.event, data |-> p.data]
BY LinesAreOpen DEF EventAt, Final, Data, Holds, DataOf, FinalOf

\* A position that is not in a set behind all of it: what the set says with it.
LEMMA DataOfNone ==
  ASSUME NEW s
  PROVE  DataOf(s, {}) = <<>> /\ FinalOf(s, {}) = None
<1>1. Cardinality({}) = 0
  BY FS_EmptySet
<1> QED  BY <1>1 DEF DataOf, FinalOf, Ascending

LEMMA DataOfSome ==
  ASSUME NEW s, NEW n \in Nat, NEW S \in SUBSET (1..n), DataOf(s, S) = <<>>
  PROVE  S = {}
<1>1. IsFiniteSet(S)
  <2>1. IsFiniteSet(1..n)
    BY FS_Interval
  <2> QED  BY <2>1, FS_Subset
<1>2. DOMAIN DataOf(s, S) = 1..Cardinality(S) /\ Cardinality(S) \in Nat
  BY <1>1, FS_CardinalityType DEF DataOf, Ascending
<1>3. Cardinality(S) = 0
  BY <1>2
<1> QED  BY <1>1, <1>3, FS_EmptySet

LEMMA DataOfLast ==
  ASSUME NEW s, NEW c \in Nat, NEW S \in SUBSET (1..c), NEW x \in Nat, c < x,
         NEW data \in Seq(1..MaxTokens), data = DataOf(s, S)
  PROVE  DataOf(s, S \cup {x}) = Append(data, s[x].at)
<1> DEFINE k == Cardinality(S)
           R == S \cup {x}
<1>1. /\ k \in Nat /\ DOMAIN Ascending(S) = 1..k /\ DOMAIN Ascending(R) = 1..(k + 1)
      /\ Ascending(R)[k + 1] = x
      /\ \A n \in 1..k : Ascending(R)[n] = Ascending(S)[n]
  <2>1. ComesLast(S, x, k)
    BY AscendingLast
  <2> QED  BY <2>1 DEF ComesLast
<1> HIDE DEF k, R
<1>2. /\ DataOf(s, S) = [n \in 1..k |-> s[Ascending(S)[n]].at]
      /\ DataOf(s, R) = [n \in 1..(k + 1) |-> s[Ascending(R)[n]].at]
  BY <1>1 DEF DataOf
<1>3. Len(data) = k /\ \A n \in 1..k : data[n] = s[Ascending(S)[n]].at
  BY <1>1, <1>2
<1>4. Append(data, s[x].at) = [n \in 1..(k + 1) |-> IF n = k + 1 THEN s[x].at ELSE data[n]]
  BY <1>1, <1>3
<1>5. \A n \in 1..(k + 1) : s[Ascending(R)[n]].at = IF n = k + 1 THEN s[x].at ELSE data[n]
  BY <1>1, <1>3
<1>6. DataOf(s, R) = Append(data, s[x].at)
  BY <1>2, <1>4, <1>5
<1> QED  BY <1>6 DEF R

LEMMA FinalOfLast ==
  ASSUME NEW s, NEW c \in Nat, NEW S \in SUBSET (1..c), NEW x \in Nat, c < x
  PROVE  FinalOf(s, S \cup {x}) = s[x].at
<1>1. \A y \in S \cup {x} : y =< x
  <2> TAKE y \in S \cup {x}
  <2>1. CASE y = x
    BY <2>1
  <2>2. CASE y \in 1..c
    BY <2>2
  <2> QED  BY <2>1, <2>2
<1>2. S \cup {x} \in SUBSET (1..x) /\ x \in S \cup {x}
  <2>1. \A y \in S \cup {x} : y \in 1..x
    <3> TAKE y \in S \cup {x}
    <3>1. CASE y = x
      BY <3>1
    <3>2. CASE y \in 1..c
      BY <3>2
    <3> QED  BY <3>1, <3>2
  <2> QED  BY <2>1
<1>3. Max(S \cup {x}) = x
  <2> DEFINE R == S \cup {x}
  <2>1. R \in SUBSET (1..x) /\ x \in R /\ \A y \in R : y =< x
    BY <1>1, <1>2
  <2> HIDE DEF R
  <2>2. Max(R) = x
    BY <2>1, MaxIs
  <2> QED  BY <2>2 DEF R
<1> QED  BY <1>3 DEF FinalOf

-----------------------------------------------------------------------------
(* A line more of the stream.                                              *)

\* The tokens behind c up to d are one line, an empty one or that of a field.
OneLine(s, c, d, empty) ==
  /\ c \in Nat /\ d \in Nat /\ c < d /\ d =< Len(s)
  /\ \A q \in (c + 1)..d : (q \in Starts(s) <=> q = c + 1 /\ ~empty)
                           /\ (q \in Blanks(s) <=> q = c + 1 /\ empty)

LEMMA FollowLine ==
  ASSUME NEW s \in Seq(Token), NEW b \in Seq(Token), NEW c, Follow(s, c, b),
         NEW end \in 1..Len(b), end = LineEnd(b),
         NEW r \in Seq(Token), Len(r) = Len(b) - end, \A i \in 1..(Len(b) - end) : r[i] = b[end + i]
  PROVE  Follow(s, c + end, r) /\ OneLine(s, c, c + end, Ends(b[1]))
<1> DEFINE f == First(s)
           n == Len(s)
           m == Len(b)
<1>0. c \in 0..n /\ m = n - c /\ f - 1 <= c
  BY DEF Follow
<1>1. /\ \A i \in 1..m : b[i] = s[c + i]
      /\ c >= f => Ends(s[c])
      /\ c >= f /\ c < n => ~(s[c].kind = "CR" /\ s[c + 1].kind = "LF")
  BY DEF Follow
<1>2. n \in Nat /\ m \in Nat /\ f \in Nat /\ 1 =< f
  BY FirstFacts
<1>3. PICK i \in 1..m :
        /\ Ends(b[i]) /\ \A j \in 1..(i - 1) : ~Ends(b[j])
        /\ \/ i < m /\ b[i].kind = "CR" /\ b[i + 1].kind = "LF" /\ end = i + 1
           \/ (i = m \/ b[i].kind # "CR" \/ b[i + 1].kind # "LF") /\ end = i
  <2>1. LineEnd(b) # 0
    BY <1>2
  <2> QED  BY <2>1, LineEndFacts
<1>4. \A q : /\ q \in Starts(s) <=> q \in f..n /\ ~Ends(s[q]) /\ (q = f \/ Ends(s[q - 1]))
             /\ q \in Blanks(s) <=> /\ q \in f..n /\ Ends(s[q])
                                    /\ q > f => /\ Ends(s[q - 1])
                                                /\ ~(s[q].kind = "LF" /\ s[q - 1].kind = "CR")
  BY DEF Starts, Blanks
<1> HIDE DEF f, n, m
<1>5. c \in Nat /\ end \in Nat /\ end =< m /\ c + m = n /\ 1 =< end
  <2>1. end \in 1..m
    BY DEF m
  <2> QED  BY <1>0, <1>2, <2>1
<1>6. /\ \A j \in 1..m : c + j \in f..n
      /\ \A j \in 1..m : (c + j) - 1 = c + (j - 1)
      /\ \A j \in 1..m : j # 1 => c + j > f /\ c + j # f /\ j - 1 \in 1..m
  BY <1>0, <1>2, <1>5
<1>7. (c + 1 \in Starts(s) <=> ~Ends(b[1])) /\ (c + 1 \in Blanks(s) <=> Ends(b[1]))
  <2>1. 1 \in 1..m /\ c < n /\ (c + 1) - 1 = c
    BY <1>2, <1>5
  <2>2. c + 1 \in f..n /\ s[c + 1] = b[1]
    BY <1>1, <1>6, <2>1
  <2>3. c + 1 # f => c >= f
    BY <1>0, <1>2
  <2>4. c + 1 > f => c + 1 # f
    BY <1>2, <1>5
  <2>5. c + 1 = f \/ (Ends(s[(c + 1) - 1]) /\ ~(s[c + 1].kind = "LF" /\ s[(c + 1) - 1].kind = "CR"))
    BY <1>1, <2>1, <2>3
  <2> DEFINE q == c + 1
  <2> HIDE DEF q
  <2>6. /\ q \in f..n /\ s[q] = b[1] /\ (q > f => q # f)
        /\ q = f \/ (Ends(s[q - 1]) /\ ~(s[q].kind = "LF" /\ s[q - 1].kind = "CR"))
    BY <2>2, <2>4, <2>5 DEF q
  <2>7. q = f => ~(q > f)
    BY <1>2
  <2>8. (q \in Starts(s) <=> ~Ends(b[1])) /\ (q \in Blanks(s) <=> Ends(b[1]))
    BY <1>4, <2>6, <2>7
  <2> QED  BY <2>8 DEF q
<1>8. ASSUME NEW j \in 1..end, j # 1
      PROVE  c + j \notin Starts(s) /\ c + j \notin Blanks(s)
  <2>1. /\ j \in 1..m /\ c + j > f /\ c + j # f /\ j - 1 \in 1..m
        /\ s[c + j] = b[j] /\ s[(c + j) - 1] = b[j - 1]
    <3>1. j \in 1..m
      BY <1>2, <1>5
    <3> QED  BY <1>1, <1>6, <1>8, <3>1
  <2>2. CASE j =< i
    <3>1. j - 1 \in 1..(i - 1)
      BY <1>8, <2>2
    <3>2. ~Ends(s[(c + j) - 1])
      BY <1>3, <2>1, <3>1
    <3> QED  BY <1>4, <2>1, <3>2
  <2>3. CASE j = i + 1 /\ b[i].kind = "CR" /\ b[i + 1].kind = "LF"
    <3>1. s[c + j].kind = "LF" /\ s[(c + j) - 1].kind = "CR"
      <4>1. j - 1 = i
        BY <2>3
      <4> QED  BY <2>1, <2>3, <4>1
    <3>2. Ends(s[c + j])
      BY <3>1 DEF Ends
    <3> QED  BY <1>4, <2>1, <3>1, <3>2
  <2>4. j =< i \/ (j = i + 1 /\ b[i].kind = "CR" /\ b[i + 1].kind = "LF")
    BY <1>2, <1>3
  <2> QED  BY <2>2, <2>3, <2>4
<1>9. OneLine(s, c, c + end, Ends(b[1]))
  <2>1. \A q \in (c + 1)..(c + end) : q - c \in 1..end /\ q = c + (q - c)
    BY <1>5
  <2>2. ASSUME NEW q \in (c + 1)..(c + end)
        PROVE  /\ q \in Starts(s) <=> q = c + 1 /\ ~Ends(b[1])
               /\ q \in Blanks(s) <=> q = c + 1 /\ Ends(b[1])
    <3>1. CASE q = c + 1
      BY <1>7, <3>1
    <3>2. CASE q # c + 1
      <4>1. PICK j \in 1..end : q = c + j
        BY <2>1
      <4>2. j # 1
        BY <3>2, <4>1
      <4> QED  BY <1>8, <3>2, <4>1, <4>2
    <3> QED  BY <3>1, <3>2
  <2>3. c + end \in Nat /\ c < c + end /\ c + end =< n
    BY <1>5, <1>2
  <2> QED  BY <1>5, <2>2, <2>3 DEF OneLine, n
<1>10. Follow(s, c + end, r)
  <2> DEFINE d == c + end
  <2>1. d \in 0..n /\ f - 1 <= d /\ Len(r) = n - d
    <3>1. Len(r) = m - end
      BY DEF m
    <3> QED  BY <1>0, <1>2, <1>5, <3>1
  <2>2. \A j \in 1..Len(r) : end + j \in 1..m /\ c + (end + j) = d + j /\ j \in 1..(m - end)
    <3> TAKE j \in 1..Len(r)
    <3>1. j \in 1..(m - end)
      BY DEF m
    <3>2. end + j \in 1..m
      BY <1>2, <1>5, <3>1
    <3> QED  BY <1>5, <3>1, <3>2
  <2>3. \A j \in 1..Len(r) : r[j] = s[d + j]
    BY <1>1, <2>2 DEF m
  <2>4. Ends(s[d]) /\ (d < n => ~(s[d].kind = "CR" /\ s[d + 1].kind = "LF"))
    <3>1. end \in 1..m /\ s[d] = b[end]
      <4>1. end \in 1..m
        BY <1>2, <1>5
      <4> QED  BY <1>1, <4>1
    <3>2. d < n => end < m /\ end + 1 \in 1..m /\ c + (end + 1) = d + 1
      BY <1>2, <1>5
    <3>3. d < n => end < m /\ s[d + 1] = b[end + 1]
      BY <1>1, <3>2
    <3>4. CASE end = i /\ (i = m \/ b[i].kind # "CR" \/ b[i + 1].kind # "LF")
      <4>1. end < m => i # m
        BY <1>2, <3>4
      <4> HIDE DEF d
      <4> QED  BY <1>3, <3>1, <3>3, <3>4, <4>1
    <3>5. CASE b[end].kind = "LF"
      <4>1. s[d].kind = "LF"
        BY <3>1, <3>5
      <4> HIDE DEF d
      <4> QED  BY <4>1 DEF Ends
    <3> QED  BY <1>3, <3>4, <3>5
  <2> HIDE DEF d
  <2>5. Follow(s, d, r)
    BY <2>1, <2>3, <2>4 DEF Follow, f, n
  <2> QED  BY <2>5 DEF d
<1> QED  BY <1>9, <1>10

\* Behind an empty line nothing is open; the block it ends has its event.
LEMMA AfterBlank ==
  ASSUME NEW s \in Seq(Token), NEW c, NEW d, OneLine(s, c, d, TRUE)
  PROVE  /\ \A kind : Open(s, d, kind) = {}
         /\ Open(s, c, "data") = {} => Blocks(s, d) = Blocks(s, c)
         /\ Open(s, c, "data") # {} => Blocks(s, d) = Blocks(s, c) \cup {c + 1}
<1>1. c \in Nat /\ d \in Nat /\ c < d /\ d =< Len(s) /\ c + 1 \in (c + 1)..d
  BY DEF OneLine
<1>2. \A q \in (c + 1)..d : q \notin Starts(s) /\ (q \in Blanks(s) <=> q = c + 1)
  BY DEF OneLine
<1>3. Starts(s) \subseteq 1..Len(s) /\ Blanks(s) \subseteq 1..Len(s) /\ Len(s) \in Nat
  BY <1>1, SetsInStream
<1>4. ASSUME NEW kind PROVE Open(s, d, kind) = {}
  <2> SUFFICES ASSUME NEW k \in Open(s, d, kind) PROVE FALSE
    OBVIOUS
  <2>1. k \in Starts(s) /\ k <= d /\ \A j \in Blanks(s) : ~(k < j /\ j <= d)
    BY DEF Open
  <2>2. k =< c
    <3>1. k \in Nat
      BY <1>3, <2>1
    <3> QED  BY <1>1, <1>2, <2>1, <3>1
  <2>3. c + 1 \in Blanks(s)
    BY <1>1, <1>2
  <2> QED  BY <1>1, <1>3, <2>1, <2>2, <2>3
<1>5. ASSUME NEW i \in Blanks(s) PROVE i <= d <=> i <= c \/ i = c + 1
  BY <1>1, <1>2, <1>3
<1>6. Lines(s, c + 1, "data") = Open(s, c, "data")
  BY <1>1, LinesAreOpen
<1>7. c + 1 \in Blanks(s) /\ ~(c + 1 <= c)
  BY <1>1, <1>2
<1>8. Blocks(s, d) = {i \in Blanks(s) : (i <= c \/ i = c + 1) /\ Lines(s, i, "data") # {}}
  BY <1>5 DEF Blocks
<1>9. Open(s, c, "data") = {} => Blocks(s, d) = Blocks(s, c)
  BY <1>6, <1>8 DEF Blocks
<1>10. Open(s, c, "data") # {} => Blocks(s, d) = Blocks(s, c) \cup {c + 1}
  BY <1>6, <1>7, <1>8 DEF Blocks
<1> QED  BY <1>4, <1>9, <1>10

\* Behind the line of a field, it is open.
OpensField(s, c, d) ==
  /\ \A kind : s[c + 1].kind = kind => Open(s, d, kind) = Open(s, c, kind) \cup {c + 1}
  /\ \A kind : s[c + 1].kind # kind => Open(s, d, kind) = Open(s, c, kind)

LEMMA AfterField ==
  ASSUME NEW s \in Seq(Token), NEW c, NEW d, OneLine(s, c, d, FALSE)
  PROVE  Blocks(s, d) = Blocks(s, c) /\ OpensField(s, c, d)
<1>1. c \in Nat /\ d \in Nat /\ c < d /\ d =< Len(s) /\ c + 1 \in (c + 1)..d
  BY DEF OneLine
<1>2. \A q \in (c + 1)..d : (q \in Starts(s) <=> q = c + 1) /\ q \notin Blanks(s)
  BY DEF OneLine
<1>3. Starts(s) \subseteq 1..Len(s) /\ Blanks(s) \subseteq 1..Len(s) /\ Len(s) \in Nat
  BY <1>1, SetsInStream
<1>4. \A j \in Blanks(s) : j <= d <=> j <= c
  BY <1>1, <1>2, <1>3
<1>5. \A k \in Starts(s) : k <= d <=> k <= c \/ k = c + 1
  BY <1>1, <1>2, <1>3
<1>6. Blocks(s, d) = Blocks(s, c)
  BY <1>4 DEF Blocks
<1>7. c + 1 \in Starts(s) /\ \A j \in Blanks(s) : ~(c + 1 < j /\ j <= c)
  BY <1>1, <1>2, <1>3
<1>8. ASSUME NEW kind
      PROVE  Open(s, d, kind) = {k \in Starts(s) : /\ k <= c \/ k = c + 1
                                                   /\ s[k].kind = kind
                                                   /\ \A j \in Blanks(s) : ~(k < j /\ j <= c)}
  BY <1>4, <1>5 DEF Open
<1>9. ASSUME NEW kind, s[c + 1].kind = kind PROVE Open(s, d, kind) = Open(s, c, kind) \cup {c + 1}
  <2> DEFINE with == {k \in Starts(s) : /\ k <= c \/ k = c + 1
                                        /\ s[k].kind = kind
                                        /\ \A j \in Blanks(s) : ~(k < j /\ j <= c)}
  <2>1. c + 1 \in with
    BY <1>7, <1>9
  <2>2. \A k : k \in with <=> k \in Open(s, c, kind) \/ k = c + 1
    BY <2>1 DEF Open
  <2>3. Open(s, d, kind) = with
    BY <1>8
  <2> HIDE DEF with
  <2> QED  BY <2>2, <2>3
<1>10. ASSUME NEW kind, s[c + 1].kind # kind PROVE Open(s, d, kind) = Open(s, c, kind)
  BY <1>8, <1>10 DEF Open
<1> QED  BY <1>6, <1>9, <1>10 DEF OpensField

-----------------------------------------------------------------------------
(* The events of the stream.                                               *)

\* The events evs are those before this connection and those of the first c tokens of
\* its stream, and the parser stands behind those tokens.
Matches(s, c, evs, base, p) ==
  /\ Follow(s, c, p.buffer) /\ Holds(s, c, p)
  /\ EventsUpTo(s, c) \in Seq(Event) /\ evs = base \o EventsUpTo(s, c)

LEMMA EventsUpToSame ==
  ASSUME NEW s, NEW c, NEW d, Blocks(s, d) = Blocks(s, c)
  PROVE  EventsUpTo(s, d) = EventsUpTo(s, c)
BY DEF EventsUpTo

LEMMA EventsUpToLast ==
  ASSUME NEW s \in Seq(Token), NEW c \in Nat, NEW d, Blocks(s, d) = Blocks(s, c) \cup {c + 1},
         EventsUpTo(s, c) \in Seq(Event)
  PROVE  EventsUpTo(s, d) = Append(EventsUpTo(s, c), EventAt(s, c + 1))
<1> DEFINE S == Blocks(s, c)
           x == c + 1
           k == Cardinality(S)
           old == EventsUpTo(s, c)
<1>1. ComesLast(S, x, k)
  <2>1. S \in SUBSET (1..c) /\ x \in Nat /\ c < x
    BY SetsInStream
  <2> HIDE DEF S, x
  <2> QED  BY <2>1, AscendingLast
<1>2. /\ old = [n \in DOMAIN Ascending(S) |-> EventAt(s, Ascending(S)[n])]
      /\ EventsUpTo(s, d) = [n \in DOMAIN Ascending(S \cup {x}) |-> EventAt(s, Ascending(S \cup {x})[n])]
  BY DEF EventsUpTo
<1> HIDE DEF S, x, k, old
<1>3. /\ k \in Nat /\ old = [n \in 1..k |-> EventAt(s, Ascending(S)[n])]
      /\ EventsUpTo(s, d) = [n \in 1..(k + 1) |-> EventAt(s, Ascending(S \cup {x})[n])]
  BY <1>1, <1>2 DEF ComesLast
<1>4. \A n \in 1..(k + 1) : EventAt(s, Ascending(S \cup {x})[n])
                              = IF n = k + 1 THEN EventAt(s, x) ELSE EventAt(s, Ascending(S)[n])
  <2> TAKE n \in 1..(k + 1)
  <2>1. CASE n = k + 1
    BY <1>1, <2>1 DEF ComesLast
  <2>2. CASE n # k + 1
    <3>1. n \in 1..k
      BY <1>3, <2>2
    <3>2. Ascending(S \cup {x})[n] = Ascending(S)[n]
      BY <1>1, <3>1 DEF ComesLast
    <3> QED  BY <2>2, <3>2
  <2> QED  BY <2>1, <2>2
<1>5. old \in Seq(Event)
  BY DEF old
<1>6. Len(old) = k
  BY <1>3, <1>5
<1>7. Append(old, EventAt(s, x)) = [n \in 1..(k + 1) |-> IF n = k + 1 THEN EventAt(s, x) ELSE old[n]]
  BY <1>3, <1>5, <1>6
<1>8. EventsUpTo(s, d) = Append(old, EventAt(s, x))
  <2>1. \A n \in 1..(k + 1) : (IF n = k + 1 THEN EventAt(s, x) ELSE EventAt(s, Ascending(S)[n]))
                                = IF n = k + 1 THEN EventAt(s, x) ELSE old[n]
    <3> TAKE n \in 1..(k + 1)
    <3>1. n # k + 1 => n \in 1..k
      BY <1>3
    <3> QED  BY <1>3, <3>1
  <2>2. \A n \in 1..(k + 1) : EventAt(s, Ascending(S \cup {x})[n])
                                = IF n = k + 1 THEN EventAt(s, x) ELSE old[n]
    BY <1>4, <2>1
  <2> QED  BY <1>3, <1>7, <2>2
<1> QED  BY <1>8 DEF old, x

LEMMA HoldsNothing ==
  ASSUME NEW s, NEW d, NEW p, \A kind : Open(s, d, kind) = {},
         p.data = <<>>, p.id = None, p.event = None
  PROVE  Holds(s, d, p)
BY DataOfNone DEF Holds

LEMMA HoldsField ==
  ASSUME NEW s \in Seq(Token), NEW c \in Nat, NEW d, NEW p \in Parser, NEW rest \in Parser, Holds(s, c, p),
         rest.data = p.data, rest.id = p.id, rest.event = p.event, OpensField(s, c, d)
  PROVE  Holds(s, d, Field(rest, s[c + 1]))
<1> DEFINE x == c + 1
           token == s[x]
           new == Field(rest, token)
<1>1. /\ p.data = DataOf(s, Open(s, c, "data"))
      /\ p.id = FinalOf(s, Open(s, c, "id"))
      /\ p.event = FinalOf(s, Open(s, c, "event"))
  BY DEF Holds
<1>2. x \in Nat /\ c < x /\ p.data \in Seq(1..MaxTokens)
  BY DEF Parser
<1>3. \A kind : Open(s, c, kind) \in SUBSET (1..c)
  BY SetsInStream
<1> HIDE DEF x, token, new
<1>7. ASSUME NEW kind PROVE FinalOf(s, Open(s, c, kind) \cup {x}) = s[x].at
  <2> DEFINE S == Open(s, c, kind)
  <2>1. S \in SUBSET (1..c)
    BY <1>3
  <2> HIDE DEF S
  <2>2. FinalOf(s, S \cup {x}) = s[x].at
    BY <1>2, <2>1, FinalOfLast
  <2> QED  BY <2>2 DEF S
<1>4. new.data = DataOf(s, Open(s, d, "data"))
  <2>1. CASE token.kind = "data"
    <3>1. new.data = Append(p.data, token.at)
      BY <2>1 DEF new, Field, Parser
    <3>2. DataOf(s, Open(s, c, "data") \cup {x}) = Append(p.data, token.at)
      <4> DEFINE S == Open(s, c, "data")
                 data == p.data
      <4>1. S \in SUBSET (1..c) /\ data \in Seq(1..MaxTokens) /\ data = DataOf(s, S)
        BY <1>1, <1>2, <1>3
      <4> HIDE DEF S, data
      <4>2. DataOf(s, S \cup {x}) = Append(data, s[x].at)
        BY <1>2, <4>1, DataOfLast
      <4> QED  BY <4>2 DEF S, data, token
    <3>3. Open(s, d, "data") = Open(s, c, "data") \cup {x}
      BY <2>1 DEF token, x, OpensField
    <3> QED  BY <3>1, <3>2, <3>3
  <2>2. CASE token.kind # "data"
    <3>1. new.data = p.data
      BY <2>2 DEF new, Field, Parser
    <3>2. Open(s, d, "data") = Open(s, c, "data")
      BY <2>2 DEF token, x, OpensField
    <3> QED  BY <1>1, <3>1, <3>2
  <2> QED  BY <2>1, <2>2
<1>5. new.id = FinalOf(s, Open(s, d, "id"))
  <2>1. CASE token.kind = "id"
    <3>1. new.id = token.at
      BY <2>1 DEF new, Field, Parser
    <3>2. FinalOf(s, Open(s, c, "id") \cup {x}) = token.at
      BY <1>2, <1>7 DEF token
    <3>3. Open(s, d, "id") = Open(s, c, "id") \cup {x}
      BY <2>1 DEF token, x, OpensField
    <3> QED  BY <3>1, <3>2, <3>3
  <2>2. CASE token.kind # "id"
    <3>1. new.id = p.id
      BY <2>2 DEF new, Field, Parser
    <3>2. Open(s, d, "id") = Open(s, c, "id")
      BY <2>2 DEF token, x, OpensField
    <3> QED  BY <1>1, <3>1, <3>2
  <2> QED  BY <2>1, <2>2
<1>6. new.event = FinalOf(s, Open(s, d, "event"))
  <2>1. CASE token.kind = "event"
    <3>1. new.event = token.at
      BY <2>1 DEF new, Field, Parser
    <3>2. FinalOf(s, Open(s, c, "event") \cup {x}) = token.at
      BY <1>2, <1>7 DEF token
    <3>3. Open(s, d, "event") = Open(s, c, "event") \cup {x}
      BY <2>1 DEF token, x, OpensField
    <3> QED  BY <3>1, <3>2, <3>3
  <2>2. CASE token.kind # "event"
    <3>1. new.event = p.event
      BY <2>2 DEF new, Field, Parser
    <3>2. Open(s, d, "event") = Open(s, c, "event")
      BY <2>2 DEF token, x, OpensField
    <3> QED  BY <1>1, <3>1, <3>2
  <2> QED  BY <2>1, <2>2
<1> QED  BY <1>4, <1>5, <1>6 DEF Holds, new, token, x

\* A round reads a line of the stream and yields what the stream says there.
LEMMA RoundMatches ==
  ASSUME NEW st \in State, NEW s \in Seq(Token), NEW pre \in Seq(Event), NEW base \in Seq(Event),
         NEW c, Matches(s, c, pre \o st.events, base, st.parser)
  PROVE  \E d : Matches(s, d, pre \o PushLine(st).events, base, PushLine(st).parser)
<1> DEFINE p == st.parser
           b == p.buffer
           new == PushLine(st)
           evs == pre \o st.events
           d == c + LineEnd(b)
           e == [id |-> p.id, event |-> p.event, data |-> p.data]
<1>1. Follow(s, c, b) /\ Holds(s, c, p) /\ EventsUpTo(s, c) \in Seq(Event) /\ evs = base \o EventsUpTo(s, c)
  BY DEF Matches
<1>2. p \in Parser /\ b \in Seq(Token) /\ new \in State /\ new.parser.buffer \in Seq(Token)
  BY PushLineType DEF State, Parser
<1>3. c \in Nat /\ (b # <<>> => s[c + 1] = b[1])
  <2>1. Len(b) \in Nat /\ (b # <<>> => 1 \in 1..Len(b))
    BY <1>2
  <2> QED  BY <1>1, <2>1 DEF Follow
<1>4. TakesLine(st) => Follow(s, d, new.parser.buffer) /\ OneLine(s, c, d, Ends(b[1])) /\ s[c + 1] = b[1]
  <2> SUFFICES ASSUME TakesLine(st) PROVE Follow(s, d, new.parser.buffer) /\ OneLine(s, c, d, Ends(b[1])) /\ s[c + 1] = b[1]
    OBVIOUS
  <2> DEFINE end == LineEnd(b)
             r == new.parser.buffer
  <2>1. /\ end \in 1..Len(b) /\ Len(r) = Len(b) - end
        /\ \A i \in 1..(Len(b) - end) : r[i] = b[end + i]
    BY PushLineBuffer DEF TakesLine
  <2>2. b # <<>>
    BY <1>2, <2>1
  <2>3. r \in Seq(Token) /\ end = LineEnd(b)
    BY <1>2
  <2> HIDE DEF b, r, end
  <2>4. Follow(s, c + end, r) /\ OneLine(s, c, c + end, Ends(b[1]))
    BY <1>1, <1>2, <2>1, <2>3, FollowLine
  <2> QED  BY <1>3, <2>2, <2>4 DEF end, r
<1>5. TakesLine(st) => /\ Rest(p) \in Parser /\ Rest(p).data = p.data /\ Rest(p).id = p.id
                       /\ Rest(p).event = p.event
  BY RestFields
<1> HIDE DEF d
<1>6. CASE new = st
  BY <1>1, <1>6 DEF Matches
<1>7. CASE /\ TakesLine(st) /\ Ends(b[1]) /\ p.data = <<>>
           /\ new.parser = [Rest(p) EXCEPT !.event = None, !.id = None] /\ pre \o new.events = evs
  <2>1. new.parser.data = <<>> /\ new.parser.id = None /\ new.parser.event = None
    BY <1>5, <1>7 DEF Parser
  <2>2. Open(s, c, "data") = {}
    <3>1. DataOf(s, Open(s, c, "data")) = <<>> /\ Open(s, c, "data") \in SUBSET (1..c)
      BY <1>1, <1>3, <1>7, SetsInStream DEF Holds
    <3> QED  BY <1>3, <3>1, DataOfSome
  <2>3. OneLine(s, c, d, TRUE)
    BY <1>4, <1>7
  <2>4. (\A kind : Open(s, d, kind) = {}) /\ Blocks(s, d) = Blocks(s, c)
    BY <2>2, <2>3, AfterBlank
  <2>5. Holds(s, d, new.parser) /\ EventsUpTo(s, d) = EventsUpTo(s, c)
    BY <2>1, <2>4, HoldsNothing, EventsUpToSame
  <2>6. Matches(s, d, pre \o new.events, base, new.parser)
    BY <1>1, <1>4, <1>7, <2>5 DEF Matches
  <2> QED  BY <2>6
<1>8. CASE /\ TakesLine(st) /\ Ends(b[1]) /\ p.data # <<>>
           /\ new.parser = [Rest(p) EXCEPT !.event = None, !.data = <<>>, !.id = None,
                              !.last = IF p.id = None THEN p.last ELSE p.id]
           /\ e \in Event /\ pre \o new.events = Append(evs, e)
  <2>1. new.parser.data = <<>> /\ new.parser.id = None /\ new.parser.event = None
    BY <1>5, <1>8 DEF Parser
  <2>2. Open(s, c, "data") # {}
    BY <1>1, <1>8, DataOfNone DEF Holds
  <2>3. OneLine(s, c, d, TRUE)
    BY <1>4, <1>8
  <2>4. (\A kind : Open(s, d, kind) = {}) /\ Blocks(s, d) = Blocks(s, c) \cup {c + 1}
    BY <2>2, <2>3, AfterBlank
  <2>5. EventAt(s, c + 1) = e
    BY <1>1, <1>3, EventAtNext
  <2>6. EventsUpTo(s, d) = Append(EventsUpTo(s, c), e)
    BY <1>1, <1>3, <2>4, <2>5, EventsUpToLast
  <2>7. Holds(s, d, new.parser)
    BY <2>1, <2>4, HoldsNothing
  <2>8. EventsUpTo(s, d) \in Seq(Event) /\ Append(evs, e) = base \o EventsUpTo(s, d)
    <3> DEFINE old == EventsUpTo(s, c)
    <3>1. old \in Seq(Event) /\ evs = base \o old /\ e \in Event
      BY <1>1, <1>8
    <3> HIDE DEF old, evs, e
    <3>2. base \in Seq(Event) /\ old \in Seq(Event) /\ e \in Event
      BY <3>1
    <3>4. Append(base \o old, e) = base \o Append(old, e)
      BY <3>2, ConcatAppend
    <3>3. Append(old, e) \in Seq(Event)
      BY <3>1
    <3> QED  BY <2>6, <3>1, <3>4, <3>3 DEF old
  <2>9. Matches(s, d, pre \o new.events, base, new.parser)
    BY <1>4, <1>8, <2>7, <2>8 DEF Matches
  <2> QED  BY <2>9
<1>9. CASE /\ TakesLine(st) /\ ~Ends(b[1]) /\ b[1] \in Token
           /\ new.parser = Field(Rest(p), b[1]) /\ pre \o new.events = evs
  <2>1. OneLine(s, c, d, FALSE) /\ s[c + 1] = b[1]
    <3>1. Ends(b[1]) = FALSE
      BY <1>9 DEF Ends
    <3> QED  BY <1>4, <1>9, <3>1
  <2>2. Blocks(s, d) = Blocks(s, c) /\ OpensField(s, c, d)
    BY <2>1, AfterField
  <2>3. Holds(s, d, Field(Rest(p), s[c + 1]))
    BY <1>1, <1>2, <1>3, <1>5, <1>9, <2>2, HoldsField
  <2>4. EventsUpTo(s, d) = EventsUpTo(s, c)
    BY <2>2, EventsUpToSame
  <2>5. Matches(s, d, pre \o new.events, base, new.parser)
    BY <1>1, <1>4, <1>9, <2>1, <2>3, <2>4 DEF Matches
  <2> QED  BY <2>5
<1> QED  BY <1>6, <1>7, <1>8, <1>9, RoundCases

LEMMA DrainMatches ==
  ASSUME NEW p \in Parser, NEW s \in Seq(Token), NEW pre \in Seq(Event), NEW base \in Seq(Event),
         NEW c, Matches(s, c, pre, base, p)
  PROVE  \E d : Matches(s, d, pre \o Drain(p).events, base, Drain(p).parser)
<1> DEFINE J == {st \in State : \E d : Matches(s, d, pre \o st.events, base, st.parser)}
<1>1. Output(p) \in J
  <2>1. Output(p) \in State /\ Output(p).parser = p /\ pre \o Output(p).events = pre
    BY DEF Output, State
  <2> QED  BY <2>1
<1>2. ASSUME NEW st \in J PROVE PushLine(st) \in J
  <2>1. PICK d : Matches(s, d, pre \o st.events, base, st.parser)
    OBVIOUS
  <2>2. st \in State
    OBVIOUS
  <2>3. \E q : Matches(s, q, pre \o PushLine(st).events, base, PushLine(st).parser)
    BY <2>1, <2>2, RoundMatches
  <2>4. PushLine(st) \in State
    BY <2>2, PushLineType
  <2> QED  BY <2>3, <2>4
<1>3. J \in SUBSET State
  OBVIOUS
<1> HIDE DEF J
<1>4. Drain(p) \in J
  BY <1>1, <1>2, <1>3, DrainInduction
<1> QED  BY <1>4 DEF J

\* Without a complete line behind c, the events up to c are all there are.
LEMMA ReferenceIs ==
  ASSUME NEW s \in Seq(Token), NEW c, NEW b \in Seq(Token), Follow(s, c, b),
         \A i \in DOMAIN b : ~Ends(b[i])
  PROVE  Reference(s) = EventsUpTo(s, c)
<1>1. /\ c \in 0..Len(s) /\ Len(b) = Len(s) - c /\ \A i \in 1..Len(b) : b[i] = s[c + i]
      /\ Len(s) \in Nat
  BY DEF Follow
<1>2. ASSUME NEW i \in Blanks(s) PROVE i <= c
  <2>1. i \in 1..Len(s) /\ Ends(s[i])
    BY <1>1, SetsInStream DEF Blanks
  <2> SUFFICES ASSUME ~(i <= c) PROVE FALSE
    OBVIOUS
  <2>2. i - c \in 1..Len(b) /\ c + (i - c) = i
    BY <1>1, <2>1
  <2>3. b[i - c] = s[i]
    BY <1>1, <2>2
  <2>4. ~Ends(b[i - c])
    BY <2>2
  <2> QED  BY <2>1, <2>3, <2>4 DEF Ends
<1>3. Blocks(s, c) = {i \in Blanks(s) : Lines(s, i, "data") # {}}
  BY <1>2 DEF Blocks
<1> QED  BY <1>3 DEF Reference, EventsUpTo

-----------------------------------------------------------------------------
(* What a chunk adds leaves what has been read as it is.                   *)

\* The positions of a set come in ascending order, each of them in the set.
Enumerates(S) ==
  /\ DOMAIN Ascending(S) = 1..Cardinality(S)
  /\ \A n \in DOMAIN Ascending(S) : Ascending(S)[n] \in S
  /\ \A m, n \in DOMAIN Ascending(S) : m < n => Ascending(S)[m] < Ascending(S)[n]

LEMMA EnumeratesLast ==
  ASSUME NEW c \in Nat, NEW S \in SUBSET (1..c), Enumerates(S), NEW x \in Nat, c < x
  PROVE  Enumerates(S \cup {x})
<1> DEFINE R == S \cup {x}
           k == Cardinality(S)
<1>1. ComesLast(S, x, k)
  BY AscendingLast
<1>2. IsFiniteSet(S) /\ x \notin S
  <2>1. IsFiniteSet(1..c)
    BY FS_Interval
  <2>2. IsFiniteSet(S)
    BY <2>1, FS_Subset
  <2>3. x \notin S
    OBVIOUS
  <2> QED  BY <2>2, <2>3
<1>3. Cardinality(R) = k + 1
  BY <1>2, FS_AddElement
<1>4. S \subseteq R /\ x \in R /\ \A y \in S : y < x /\ y \in Nat
  OBVIOUS
<1> HIDE DEF R, k
<1>5. /\ k \in Nat /\ DOMAIN Ascending(S) = 1..k /\ DOMAIN Ascending(R) = 1..(k + 1)
      /\ Ascending(R)[k + 1] = x /\ \A n \in 1..k : Ascending(R)[n] = Ascending(S)[n]
  BY <1>1 DEF ComesLast, R
<1>6. /\ \A n \in 1..k : Ascending(S)[n] \in S
      /\ \A m, n \in 1..k : m < n => Ascending(S)[m] < Ascending(S)[n]
  BY <1>5 DEF Enumerates
<1>7. ASSUME NEW n \in 1..(k + 1) PROVE n \in 1..k \/ n = k + 1
  BY <1>5
<1>8. \A n \in 1..(k + 1) : Ascending(R)[n] \in R
  BY <1>4, <1>5, <1>6, <1>7
<1>9. ASSUME NEW m \in 1..(k + 1), NEW n \in 1..(k + 1), m < n PROVE Ascending(R)[m] < Ascending(R)[n]
  <2>1. m \in 1..k
    BY <1>5, <1>9
  <2>2. CASE n \in 1..k
    BY <1>5, <1>6, <1>9, <2>1, <2>2
  <2>3. CASE n = k + 1
    BY <1>4, <1>5, <1>6, <2>1, <2>3
  <2> QED  BY <1>7, <2>2, <2>3
<1>10. Enumerates(R)
  BY <1>3, <1>5, <1>8, <1>9 DEF Enumerates
<1> QED  BY <1>10 DEF R

LEMMA AscendingEnumerates ==
  ASSUME NEW n \in Nat, NEW S \in SUBSET (1..n)
  PROVE  Enumerates(S)
<1> DEFINE T == {c \in Nat : \A R \in SUBSET (1..c) : Enumerates(R)}
<1>1. 0 \in T /\ T \in SUBSET Nat
  <2>1. Enumerates({})
    <3>1. Cardinality({}) = 0
      BY FS_EmptySet
    <3> QED  BY <3>1 DEF Enumerates, Ascending
  <2>2. \A R \in SUBSET (1..0) : R = {}
    OBVIOUS
  <2> QED  BY <2>1, <2>2
<1>2. ASSUME NEW c \in T PROVE c + 1 \in T
  <2>1. c \in Nat /\ \A R \in SUBSET (1..c) : Enumerates(R)
    OBVIOUS
  <2> SUFFICES ASSUME NEW R \in SUBSET (1..(c + 1)) PROVE Enumerates(R)
    BY <2>1
  <2>2. CASE c + 1 \in R
    <3> DEFINE Q == R \ {c + 1}
    <3>1. Q \in SUBSET (1..c)
      BY <2>1
    <3>2. R = Q \cup {c + 1}
      BY <2>2
    <3>3. c + 1 \in Nat /\ c < c + 1
      BY <2>1
    <3> HIDE DEF Q
    <3>4. Enumerates(Q \cup {c + 1})
      BY <2>1, <3>1, <3>3, EnumeratesLast
    <3> QED  BY <3>2, <3>4
  <2>3. CASE c + 1 \notin R
    <3>1. R \in SUBSET (1..c)
      BY <2>1, <2>3
    <3> QED  BY <2>1, <3>1
  <2> QED  BY <2>2, <2>3
<1> HIDE DEF T
<1>3. T = Nat
  BY <1>1, <1>2, Induction
<1> QED  BY <1>3 DEF T

\* t begins with the stream s.
Begins(s, t) ==
  /\ s \in Seq(Token) /\ t \in Seq(Token) /\ s # <<>> /\ Len(s) =< Len(t)
  /\ \A i \in 1..Len(s) : t[i] = s[i]

LEMMA BeginsSets ==
  ASSUME NEW s, NEW t, Begins(s, t)
  PROVE  /\ First(t) = First(s)
         /\ \A i \in 1..Len(s) : (i \in Starts(t) <=> i \in Starts(s)) /\ (i \in Blanks(t) <=> i \in Blanks(s))
<1> DEFINE f == First(s)
<1>1. /\ s \in Seq(Token) /\ t \in Seq(Token) /\ s # <<>> /\ Len(s) \in Nat /\ Len(t) \in Nat
      /\ Len(s) =< Len(t) /\ \A i \in 1..Len(s) : t[i] = s[i]
  BY DEF Begins
<1>2. First(t) = f
  <2>1. 1 \in 1..Len(s) /\ t # <<>>
    BY <1>1
  <2>2. s # <<>> /\ t[1] = s[1]
    BY <1>1, <2>1
  <2> QED  BY <2>1, <2>2 DEF First
<1>3. f \in Nat /\ 1 =< f
  BY <1>1, FirstFacts
<1> HIDE DEF f
<1>4. ASSUME NEW i \in 1..Len(s)
      PROVE  (i \in Starts(t) <=> i \in Starts(s)) /\ (i \in Blanks(t) <=> i \in Blanks(s))
  <2>1. t[i] = s[i] /\ (i \in f..Len(t) <=> i \in f..Len(s))
    BY <1>1, <1>3
  <2>2. i > f => t[i - 1] = s[i - 1]
    <3>1. i > f => i - 1 \in 1..Len(s)
      BY <1>1, <1>3
    <3> QED  BY <1>1, <3>1
  <2>3. i \in f..Len(s) => i = f \/ i > f
    BY <1>3
  <2>4. i \in Starts(t) <=> i \in Starts(s)
    BY <1>2, <2>1, <2>2, <2>3 DEF Starts, f
  <2>5. i \in Blanks(t) <=> i \in Blanks(s)
    BY <1>2, <2>1, <2>2 DEF Blanks, f
  <2> QED  BY <2>4, <2>5
<1> QED  BY <1>2, <1>4 DEF f

\* What has been read says the same whatever follows it.
LEMMA BeginsSame ==
  ASSUME NEW s, NEW t, Begins(s, t), NEW c \in 0..Len(s)
  PROVE  /\ \A kind : Open(t, c, kind) = Open(s, c, kind)
         /\ \A i \in 1..c : \A kind : Lines(t, i, kind) = Lines(s, i, kind)
<1>1. s \in Seq(Token) /\ t \in Seq(Token) /\ Len(s) \in Nat /\ c \in Nat /\ c =< Len(s)
      /\ \A i \in 1..Len(s) : t[i] = s[i]
  BY DEF Begins
<1>2. \A i \in 1..Len(s) : (i \in Starts(t) <=> i \in Starts(s)) /\ (i \in Blanks(t) <=> i \in Blanks(s))
  BY BeginsSets
<1>3. Starts(s) \subseteq 1..Len(s) /\ Blanks(s) \subseteq 1..Len(s)
  BY <1>1, SetsInStream
<1>4. Starts(t) \subseteq 1..Len(t) /\ Blanks(t) \subseteq 1..Len(t) /\ Len(t) \in Nat
  BY <1>1, SetsInStream
<1>5. \A j : j \in Blanks(t) /\ j <= c <=> j \in Blanks(s) /\ j <= c
  <2>1. \A j \in 1..Len(t) : j <= c => j \in 1..Len(s)
    BY <1>1, <1>4
  <2> QED  BY <1>2, <1>3, <1>4, <2>1
<1>6. \A k : k \in Starts(t) /\ k <= c <=> k \in Starts(s) /\ k <= c
  <2>1. \A j \in 1..Len(t) : j <= c => j \in 1..Len(s)
    BY <1>1, <1>4
  <2> QED  BY <1>2, <1>3, <1>4, <2>1
<1>7. \A k \in Starts(s) : t[k] = s[k]
  BY <1>1, <1>3
<1>8. ASSUME NEW kind PROVE Open(t, c, kind) = Open(s, c, kind)
  <2>1. \A k : (\A j \in Blanks(t) : ~(k < j /\ j <= c)) <=> (\A j \in Blanks(s) : ~(k < j /\ j <= c))
    BY <1>5
  <2>2. \A k : k \in Open(t, c, kind) <=> k \in Open(s, c, kind)
    BY <1>6, <1>7, <2>1 DEF Open
  <2> QED  BY <2>2 DEF Open
<1>9. ASSUME NEW i \in 1..c, NEW kind PROVE Lines(t, i, kind) = Lines(s, i, kind)
  <2>1. \A j \in Blanks(s) : j < i => j <= c
    BY <1>1, <1>3
  <2>2. \A j \in Blanks(t) : j < i => j <= c
    BY <1>1, <1>4
  <2>3. \A k : (\A j \in Blanks(t) : ~(k < j /\ j < i)) <=> (\A j \in Blanks(s) : ~(k < j /\ j < i))
    BY <1>5, <2>1, <2>2
  <2>4. \A k : k \in Starts(t) /\ k < i <=> k \in Starts(s) /\ k < i
    <3>1. \A k \in Starts(s) : k < i => k <= c
      BY <1>1, <1>3
    <3>2. \A k \in Starts(t) : k < i => k <= c
      BY <1>1, <1>4
    <3> QED  BY <1>6, <3>1, <3>2
  <2>5. \A k : k \in Lines(t, i, kind) <=> k \in Lines(s, i, kind)
    BY <1>7, <2>3, <2>4 DEF Lines
  <2> QED  BY <2>5 DEF Lines
<1> QED  BY <1>8, <1>9

LEMMA SaysSame ==
  ASSUME NEW s, NEW t, Begins(s, t), NEW S \in SUBSET (1..Len(s))
  PROVE  DataOf(t, S) = DataOf(s, S) /\ FinalOf(t, S) = FinalOf(s, S)
<1>1. Len(s) \in Nat /\ \A i \in S : t[i] = s[i]
  BY DEF Begins
<1>2. \A n \in DOMAIN Ascending(S) : Ascending(S)[n] \in S
  BY <1>1, AscendingEnumerates DEF Enumerates
<1>3. DataOf(t, S) = DataOf(s, S)
  BY <1>1, <1>2 DEF DataOf
<1>4. S # {} => Max(S) \in S
  BY <1>1, MaxFacts
<1>5. FinalOf(t, S) = FinalOf(s, S)
  BY <1>1, <1>4 DEF FinalOf
<1> QED  BY <1>3, <1>5

LEMMA EventIs ==
  ASSUME NEW s, NEW i
  PROVE  EventAt(s, i) = [id    |-> FinalOf(s, Lines(s, i, "id")), event |-> FinalOf(s, Lines(s, i, "event")),
                          data  |-> DataOf(s, Lines(s, i, "data"))]
BY DEF EventAt, Final, Data, FinalOf, DataOf

LEMMA BeginsEvents ==
  ASSUME NEW s, NEW t, Begins(s, t), NEW c \in 0..Len(s)
  PROVE  EventsUpTo(t, c) = EventsUpTo(s, c)
<1>1. s \in Seq(Token) /\ Len(s) \in Nat /\ c \in Nat /\ c =< Len(s) /\ t \in Seq(Token) /\ Len(t) \in Nat
      /\ Len(s) =< Len(t)
  BY DEF Begins
<1>2. \A i \in 1..c : \A kind : Lines(t, i, kind) = Lines(s, i, kind)
  BY BeginsSame
<1>3. \A i \in 1..Len(s) : i \in Blanks(t) <=> i \in Blanks(s)
  BY BeginsSets
<1>4. Blanks(s) \subseteq 1..Len(s) /\ Blanks(t) \subseteq 1..Len(t)
  BY <1>1, SetsInStream
<1>5. Blocks(t, c) = Blocks(s, c)
  <2>1. ASSUME NEW i \in Int, i <= c PROVE i \in Blanks(t) <=> i \in Blanks(s)
    <3>1. CASE i \in 1..Len(s)
      BY <1>3, <3>1
    <3>2. CASE i \notin 1..Len(s)
      BY <1>1, <1>4, <2>1, <3>2
    <3> QED  BY <3>1, <3>2
  <2>2. \A i : i \in Blanks(s) \/ i \in Blanks(t) => i \in Int /\ (i <= c => i \in 1..c)
    BY <1>1, <1>4
  <2>3. \A i : i \in Blocks(t, c) <=> i \in Blocks(s, c)
    BY <1>2, <2>1, <2>2 DEF Blocks
  <2> QED  BY <2>3 DEF Blocks
<1>6. ASSUME NEW i \in Blocks(s, c) PROVE EventAt(t, i) = EventAt(s, i)
  <2>1. i \in 1..c
    BY <1>1, SetsInStream
  <2>2. ASSUME NEW kind PROVE Lines(s, i, kind) \in SUBSET (1..Len(s)) /\ Lines(t, i, kind) = Lines(s, i, kind)
    <3>1. Starts(s) \subseteq 1..Len(s)
      BY <1>1, SetsInStream
    <3> QED  BY <1>2, <2>1, <3>1 DEF Lines
  <2>3. ASSUME NEW kind
        PROVE  /\ FinalOf(t, Lines(t, i, kind)) = FinalOf(s, Lines(s, i, kind))
               /\ DataOf(t, Lines(t, i, kind)) = DataOf(s, Lines(s, i, kind))
    BY <2>2, SaysSame
  <2> QED  BY <2>3, EventIs
<1>7. \A n \in DOMAIN Ascending(Blocks(s, c)) : Ascending(Blocks(s, c))[n] \in Blocks(s, c)
  <2>1. Blocks(s, c) \in SUBSET (1..c)
    BY <1>1, SetsInStream
  <2> QED  BY <1>1, <2>1, AscendingEnumerates DEF Enumerates
<1> QED  BY <1>5, <1>6, <1>7 DEF EventsUpTo

\* Nothing has been read of a stream that has only a byte order mark, or not even that.
LEMMA NothingRead ==
  ASSUME NEW s \in Seq(Token), NEW c, c = First(s) - 1
  PROVE  (\A kind : Open(s, c, kind) = {}) /\ EventsUpTo(s, c) = <<>>
<1>1. \A i \in Starts(s) \cup Blanks(s) : ~(i <= c)
  <2>1. First(s) \in Nat /\ Len(s) \in Nat
    BY FirstFacts
  <2> QED  BY <2>1 DEF Starts, Blanks
<1>2. (\A kind : Open(s, c, kind) = {}) /\ Blocks(s, c) = {}
  BY <1>1 DEF Open, Blocks
<1>3. Ascending({}) = <<>>
  <2>1. Cardinality({}) = 0
    BY FS_EmptySet
  <2> QED  BY <2>1 DEF Ascending
<1>4. EventsUpTo(s, c) = <<>>
  <2>1. EventsUpTo(s, c) = [n \in DOMAIN Ascending({}) |-> EventAt(s, Ascending({})[n])]
    BY <1>2 DEF EventsUpTo
  <2>2. DOMAIN Ascending({}) = {}
    BY <1>3
  <2>3. EventsUpTo(s, c) = [n \in {} |-> EventAt(s, Ascending({})[n])]
    BY <2>1, <2>2
  <2> QED  BY <2>3
<1> QED  BY <1>2, <1>4

-----------------------------------------------------------------------------
(* The consumer gets the events of the server.                             *)

\* Neither a CR and its LF nor, unless the stream begins there, the place before a
\* byte order mark is where the chunk begins.
Fits(s, b, chunk) ==
  s # <<>> => /\ ~(Last(s).kind = "CR" /\ chunk[1].kind = "LF")
              /\ (b \o chunk)[1].kind # "bom"

LEMMA FollowMore ==
  ASSUME NEW s \in Seq(Token), NEW b \in Seq(Token), NEW chunk \in Seq(Token), Len(chunk) > 0,
         s # <<>>, Fits(s, b, chunk), NEW c, Follow(s, c, b)
  PROVE  Begins(s, s \o chunk) /\ Follow(s \o chunk, c, b \o chunk)
<1> DEFINE t == s \o chunk
           all == b \o chunk
           n == Len(s)
<1>1. /\ c \in 0..n /\ First(s) - 1 <= c /\ Len(b) = n - c /\ \A i \in 1..Len(b) : b[i] = s[c + i]
      /\ c >= First(s) => Ends(s[c])
      /\ c >= First(s) /\ c < n => ~(s[c].kind = "CR" /\ s[c + 1].kind = "LF")
  BY DEF Follow
<1>2. /\ t \in Seq(Token) /\ all \in Seq(Token) /\ Len(t) = n + Len(chunk) /\ Len(all) = Len(b) + Len(chunk)
      /\ n \in Nat /\ n > 0 /\ Len(b) \in Nat /\ Len(chunk) \in Nat
  OBVIOUS
<1>3. \A i \in 1..n : t[i] = s[i]
  OBVIOUS
<1>4. \A i \in 1..Len(chunk) : t[n + i] = chunk[i] /\ all[Len(b) + i] = chunk[i]
  OBVIOUS
<1>5. \A i \in 1..Len(b) : all[i] = b[i]
  OBVIOUS
<1>6. s[n] = Last(s)
  BY DEF Last
<1> HIDE DEF t, all, n
<1>7. Begins(s, t)
  BY <1>2, <1>3 DEF Begins, n
<1>8. First(t) = First(s) /\ First(s) \in Nat /\ 1 =< First(s)
  BY <1>7, BeginsSets, FirstFacts
<1>9. ASSUME NEW i \in 1..Len(all) PROVE all[i] = t[c + i]
  <2>1. CASE i \in 1..Len(b)
    <3>1. c + i \in 1..n
      BY <1>1, <1>2, <2>1
    <3> QED  BY <1>1, <1>3, <1>5, <2>1, <3>1
  <2>2. CASE i \notin 1..Len(b)
    <3>1. i - Len(b) \in 1..Len(chunk) /\ Len(b) + (i - Len(b)) = i /\ n + (i - Len(b)) = c + i
      BY <1>1, <1>2, <2>2
    <3> QED  BY <1>4, <3>1
  <2> QED  BY <2>1, <2>2
<1>10. c >= First(s) => t[c] = s[c]
  BY <1>1, <1>3, <1>8
<1>11. CASE c < n
  <2>1. t[c + 1] = s[c + 1]
    BY <1>1, <1>2, <1>3, <1>11
  <2>2. /\ c \in 0..Len(t) /\ First(t) - 1 <= c /\ Len(all) = Len(t) - c
        /\ c >= First(t) => Ends(t[c])
        /\ c >= First(t) /\ c < Len(t) => ~(t[c].kind = "CR" /\ t[c + 1].kind = "LF")
    <3>1. c \in 0..Len(t) /\ First(t) - 1 <= c /\ Len(all) = Len(t) - c
      BY <1>1, <1>2, <1>8
    <3>2. c >= First(t) => Ends(t[c]) /\ ~(t[c].kind = "CR" /\ t[c + 1].kind = "LF")
      BY <1>1, <1>8, <1>10, <1>11, <2>1
    <3> QED  BY <3>1, <3>2
  <2>3. Follow(t, c, all)
    BY <1>9, <2>2 DEF Follow
  <2> QED  BY <1>7, <2>3 DEF t, all
<1>12. CASE c = n
  <2>1. s[c] = Last(s) /\ t[c + 1] = chunk[1]
    <3>1. 1 \in 1..Len(chunk)
      BY <1>2
    <3> QED  BY <1>4, <1>6, <1>12, <3>1
  <2>2. c \in 0..Len(t) /\ First(t) - 1 <= c /\ Len(all) = Len(t) - c
    BY <1>1, <1>2, <1>8
  <2>3. c >= First(t) => Ends(t[c]) /\ ~(t[c].kind = "CR" /\ t[c + 1].kind = "LF")
    BY <1>1, <1>8, <1>10, <2>1 DEF Fits
  <2>4. Follow(t, c, all)
    BY <1>9, <2>2, <2>3 DEF Follow
  <2> QED  BY <1>7, <2>4 DEF t, all
<1>13. c < n \/ c = n
  BY <1>1, <1>2
<1> QED  BY <1>11, <1>12, <1>13

\* A chunk that fits is one more piece of the stream.
LEMMA FilledMatches ==
  ASSUME NEW s \in Seq(Token), NEW p \in Parser, NEW chunk \in Seq(Token), Len(chunk) > 0,
         Fits(s, p.buffer, chunk), NEW c, NEW evs, NEW base, Matches(s, c, evs, base, p)
  PROVE  \E d : Matches(s \o chunk, d, evs, base, Filled(p, chunk))
<1> DEFINE b == p.buffer
           all == b \o chunk
           q == Filled(p, chunk)
           t == s \o chunk
<1>1. /\ Follow(s, c, b) /\ Holds(s, c, p)
      /\ EventsUpTo(s, c) \in Seq(Event) /\ evs = base \o EventsUpTo(s, c)
  BY DEF Matches
<1>2. /\ q.buffer = IF all[1].kind = "bom" THEN Tail(all) ELSE all
      /\ q.data = p.data /\ q.id = p.id /\ q.event = p.event
  BY FilledType
<1>3. b \in Seq(Token) /\ Len(s) \in Nat
  BY DEF Parser
<1> HIDE DEF b, q
<1>4. CASE s # <<>>
  <2>1. q.buffer = all
    BY <1>2, <1>4 DEF Fits, b
  <2>2. Begins(s, t) /\ Follow(t, c, q.buffer)
    <3>1. Fits(s, b, chunk)
      BY DEF b
    <3>2. Begins(s, t) /\ Follow(t, c, all)
      BY <1>1, <1>3, <1>4, <3>1, FollowMore
    <3> QED  BY <2>1, <3>2
  <2> HIDE DEF t
  <2>3. c \in 0..Len(s) /\ c \in Nat
    BY <1>1, <1>3 DEF Follow
  <2>4. Holds(t, c, q)
    <3>1. \A kind : Open(t, c, kind) = Open(s, c, kind)
      BY <2>2, <2>3, BeginsSame
    <3>2. \A kind : Open(s, c, kind) \in SUBSET (1..Len(s))
      BY <2>3, SetsInStream
    <3>3. \A kind : /\ DataOf(t, Open(t, c, kind)) = DataOf(s, Open(s, c, kind))
                    /\ FinalOf(t, Open(t, c, kind)) = FinalOf(s, Open(s, c, kind))
      BY <2>2, <3>1, <3>2, SaysSame
    <3> QED  BY <1>1, <1>2, <3>3 DEF Holds
  <2>5. EventsUpTo(t, c) = EventsUpTo(s, c)
    BY <2>2, <2>3, BeginsEvents
  <2>6. Matches(t, c, evs, base, q)
    BY <1>1, <2>2, <2>4, <2>5 DEF Matches
  <2> QED  BY <2>6 DEF t, q
<1>5. CASE s = <<>>
  <2> DEFINE d == First(chunk) - 1
  <2>1. c = 0 /\ First(s) = 1 /\ b = <<>>
    <3>1. c = 0 /\ Len(b) = 0
      BY <1>1, <1>5 DEF Follow
    <3>2. First(s) = 1
      BY <1>5 DEF First
    <3>3. b = <<>>
      BY <1>3, <3>1
    <3> QED  BY <3>1, <3>2, <3>3
  <2>2. t = chunk /\ all = chunk /\ chunk # <<>>
    BY <1>5, <2>1
  <2>3. (\A kind : Open(s, c, kind) = {}) /\ EventsUpTo(s, c) = <<>>
    BY <2>1, NothingRead
  <2>4. p.data = <<>> /\ p.id = None /\ p.event = None
    BY <1>1, <2>3, DataOfNone DEF Holds
  <2>5. (\A kind : Open(chunk, d, kind) = {}) /\ EventsUpTo(chunk, d) = <<>>
    BY NothingRead
  <2>6. Holds(chunk, d, q)
    BY <1>2, <2>4, <2>5, HoldsNothing
  <2>7. Follow(chunk, d, q.buffer)
    <3>1. q.buffer = IF chunk[1].kind = "bom" THEN Tail(chunk) ELSE chunk
      BY <1>2, <2>2
    <3>2. First(chunk) = IF chunk[1].kind = "bom" THEN 2 ELSE 1
      BY <2>2 DEF First
    <3>3. CASE chunk[1].kind = "bom"
      <4>1. d = 1 /\ q.buffer = Tail(chunk) /\ First(chunk) = 2
        BY <3>1, <3>2, <3>3
      <4>2. Len(Tail(chunk)) = Len(chunk) - 1 /\ \A i \in 1..Len(Tail(chunk)) : Tail(chunk)[i] = chunk[1 + i]
        BY <2>2
      <4> HIDE DEF d
      <4> QED  BY <4>1, <4>2 DEF Follow
    <3>4. CASE chunk[1].kind # "bom"
      <4>1. d = 0 /\ q.buffer = chunk /\ First(chunk) = 1
        BY <3>1, <3>2, <3>4
      <4>2. \A i \in 1..Len(chunk) : chunk[0 + i] = chunk[i]
        OBVIOUS
      <4> HIDE DEF d
      <4> QED  BY <4>1, <4>2 DEF Follow
    <3> QED  BY <3>3, <3>4
  <2> HIDE DEF d
  <2>8. Matches(chunk, d, evs, base, q)
    <3>1. EventsUpTo(chunk, d) = EventsUpTo(s, c)
      BY <2>3, <2>5
    <3> QED  BY <1>1, <2>6, <2>7, <3>1 DEF Matches
  <2> QED  BY <2>2, <2>8 DEF q
<1> QED  BY <1>4, <1>5

\* Unless a boundary has changed them, the events are those that the connections
\* before sent and those of what the parser has read of this one's stream.
MatchInv ==
  ~tainted => past \in Seq(Event) /\ \E c : Matches(stream, c, received \o pending, past, parser)

\* A connection begins with a parser that keeps nothing of the one before.
LEMMA EmptyMatches ==
  ASSUME NEW evs \in Seq(Event), NEW p, p.buffer = <<>>, p.data = <<>>, p.id = None, p.event = None
  PROVE  Matches(<<>>, 0, evs, evs, p)
<1> DEFINE s == <<>>
<1>1. s \in Seq(Token) /\ Len(s) = 0
  OBVIOUS
<1>2. First(s) = 1 /\ 0 = First(s) - 1
  BY DEF First
<1>3. Follow(s, 0, p.buffer)
  BY <1>1, <1>2 DEF Follow
<1> HIDE DEF s
<1>4. (\A kind : Open(s, 0, kind) = {}) /\ EventsUpTo(s, 0) = <<>>
  BY <1>1, <1>2, NothingRead
<1>5. Holds(s, 0, p)
  BY <1>4, HoldsNothing
<1>6. <<>> \in Seq(Event) /\ evs = evs \o <<>>
  OBVIOUS
<1>7. Matches(s, 0, evs, evs, p)
  BY <1>3, <1>4, <1>5, <1>6 DEF Matches
<1> QED  BY <1>7 DEF s

LEMMA MatchInit ==
  ASSUME Init
  PROVE  MatchInv
<1> DEFINE p == parser
<1>1. stream = <<>> /\ past = <<>> /\ received \o pending = <<>> /\ p.buffer = <<>>
      /\ p.data = <<>> /\ p.id = None /\ p.event = None
  BY DEF Init, Fresh
<1> HIDE DEF p
<1>2. Matches(<<>>, 0, <<>>, <<>>, p)
  <2>1. <<>> \in Seq(Event)
    OBVIOUS
  <2> QED  BY <1>1, <2>1, EmptyMatches
<1> QED  BY <1>1, <1>2 DEF MatchInv, p

LEMMA MatchStep ==
  ASSUME TypeInv, CallInv, MatchInv, [Next]_vars
  PROVE  MatchInv'
<1> SUFFICES ASSUME ~tainted' PROVE MatchInv'
  BY DEF MatchInv
<1> USE DEF calling, events, wire
<1>1. CASE UNCHANGED <<parser, past, stream, tainted>> /\ received' \o pending' = received \o pending
  BY <1>1 DEF MatchInv
<1>2. CASE NextEvent
  <2>1. CASE pending # <<>> /\ received' = Append(received, Head(pending)) /\ pending' = Tail(pending)
    <3>1. received' \o pending' = received \o pending
      BY <2>1, HeadMoves DEF TypeInv
    <3> QED  BY <1>1, <1>2, <3>1 DEF NextEvent
  <2>2. CASE UNCHANGED <<pending, received>>
    BY <1>1, <1>2, <2>2 DEF NextEvent
  <2> QED  BY <1>2, <2>1, <2>2 DEF NextEvent
<1>3. CASE Chunk
  <2>1. PICK chunk : Arrives(chunk)
    BY <1>3, ChunkArrives
  <2>2. ~tainted /\ ~BoundaryMatters(parser, chunk)
    BY <2>1 DEF Arrives
  <2>3. PICK c : Matches(stream, c, received \o pending, past, parser)
    BY <2>2 DEF MatchInv
  <2>4. /\ stream \in Seq(Token) /\ parser \in Parser /\ received \in Seq(Event) /\ past \in Seq(Event)
        /\ received \o pending = received /\ received' = received /\ past' = past
    BY <1>3, <2>2 DEF TypeInv, CallInv, Chunk, MatchInv
  <2>5. Fits(stream, parser.buffer, chunk)
    BY <2>2 DEF Fits, BoundaryMatters
  <2>6. chunk \in Seq(Token) /\ Len(chunk) > 0 /\ Filled(parser, chunk) \in Parser
    BY <2>1 DEF Arrives
  <2>7. PICK d : Matches(stream \o chunk, d, received, past, Filled(parser, chunk))
    BY <2>3, <2>4, <2>5, <2>6, FilledMatches
  <2>8. stream \o chunk \in Seq(Token)
    BY <2>4, <2>6
  <2>9. \E e : Matches(stream \o chunk, e, received \o Drain(Filled(parser, chunk)).events, past,
                       Drain(Filled(parser, chunk)).parser)
    BY <2>4, <2>6, <2>7, <2>8, DrainMatches
  <2> QED  BY <2>1, <2>4, <2>9 DEF Arrives, MatchInv
<1>4. CASE Connected
  <2>1. ~tainted /\ ~Leftover(parser) /\ received \o pending \in Seq(Event) /\ stream \in Seq(Token)
    <3>1. received \in Seq(Event) /\ pending \in Seq(Event) /\ stream \in Seq(Token)
      BY DEF TypeInv
    <3>2. received \o pending \in Seq(Event)
      BY <3>1
    <3> QED  BY <1>4, <3>1, <3>2 DEF Connected
  <2>2. PICK c : Matches(stream, c, received \o pending, past, parser)
    BY <2>1 DEF MatchInv
  <2>3. parser.buffer = <<>> /\ parser.data = <<>> /\ parser.id = None /\ parser.event = None
    BY <2>1 DEF Leftover
  <2>4. past' = received \o pending
    <3>1. Follow(stream, c, parser.buffer) /\ \A i \in DOMAIN parser.buffer : ~Ends(parser.buffer[i])
      BY <2>2 DEF Matches, TypeInv
    <3>2. parser.buffer \in Seq(Token)
      BY DEF TypeInv, Parser
    <3>3. Reference(stream) = EventsUpTo(stream, c)
      BY <2>1, <3>1, <3>2, ReferenceIs
    <3> QED  BY <1>4, <2>2, <3>3 DEF Connected, Matches
  <2>5. Matches(<<>>, 0, received \o pending, received \o pending, parser)
    BY <2>1, <2>3, EmptyMatches
  <2> QED  BY <1>4, <2>1, <2>4, <2>5 DEF Connected, MatchInv
<1>5. CASE BodyEnd \/ Wake \/ ConnectFails \/ DropCall \/ Cancel \/ UNCHANGED vars
  BY <1>1, <1>5 DEF BodyEnd, BodyEnds, Wake, ConnectFails, DropCall, Cancel, vars
<1> QED  BY <1>2, <1>3, <1>4, <1>5 DEF Next

\* The consumer gets the events that the server sent, whole, in order and once, over
\* any number of connections and however their streams were cut into chunks, as long
\* as no boundary fell where push (sse.rs:35) looks at the wrong place: between a CR
\* and its LF, before a byte order mark, or in an event that a broken connection left.
THEOREM EventsCorrect == Spec => []EventsAreTheServers
<1> DEFINE Inv == TypeInv /\ CallInv /\ NamedInv /\ OrderInv /\ MatchInv
<1>1. Inv => EventsAreTheServers
  <2> SUFFICES ASSUME Inv PROVE ~tainted => received \o pending = past \o Reference(stream)
    BY OrderedReceived DEF EventsAreTheServers
  <2> SUFFICES ASSUME ~tainted PROVE received \o pending = past \o Reference(stream)
    OBVIOUS
  <2>1. PICK c : Matches(stream, c, received \o pending, past, parser)
    BY DEF MatchInv
  <2>2. stream \in Seq(Token) /\ parser.buffer \in Seq(Token)
        /\ \A i \in DOMAIN parser.buffer : ~Ends(parser.buffer[i])
    BY DEF TypeInv, Parser
  <2>3. Reference(stream) = EventsUpTo(stream, c)
    BY <2>1, <2>2, ReferenceIs DEF Matches
  <2> QED  BY <2>1, <2>3 DEF Matches
<1>2. Init => Inv
  BY TypeInit, NamedInit, OrderInit, MatchInit
<1>3. Inv /\ [Next]_vars => Inv'
  BY TypeStep, NamedStep, OrderStep, MatchStep
<1> QED  BY <1>1, <1>2, <1>3, PTL DEF Spec
=============================================================================
