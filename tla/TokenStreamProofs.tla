-------------------------- MODULE TokenStreamProofs --------------------------
(***************************************************************************)
(* Proofs about TokenStream, for every set of texts and every bound: going *)
(* back never lexes, and shows the parser the token it saw; the tokens     *)
(* tile the text; and the queue implements the cursor of TokenCursor.      *)
(***************************************************************************)
EXTENDS TokenStream, SequenceTheorems, WellFoundedInduction, TLAPS

-----------------------------------------------------------------------------
(* The lexer.                                                              *)

\* A set of numbers that is not empty has a smallest one.
LEMMA SmallestExists ==
  ASSUME NEW T \in SUBSET Nat, T # {}
  PROVE  \E x \in T : \A y \in T : x <= y
<1> DEFINE Less == {ss \in Nat \X Nat : ss[1] < ss[2]}
<1>1. IsWellFoundedOn(Less, Nat)
  BY NatLessThanWellFounded DEF OpToRel
<1> HIDE DEF Less
<1>2. PICK x \in T : \A y \in T : <<y, x>> \notin Less
  BY <1>1, WFMin
<1>3. \A y \in T : ~ (y < x)
  BY <1>2 DEF Less
<1> QED
  BY <1>2, <1>3

\* A scan stops inside the text or just after it.
LEMMA StopAfterRange ==
  ASSUME NEW text \in Seq(Classes), NEW p \in 0 .. Len(text), NEW C
  PROVE  /\ StopAfter(text, p, C) \in p + 1 .. Len(text) + 1
         /\ StopAfter(text, p, C) <= Len(text) => text[StopAfter(text, p, C)] \notin C
<1> DEFINE T == {q \in p + 1 .. Len(text) + 1 : q <= Len(text) => text[q] \notin C}
<1>1. T \in SUBSET Nat /\ Len(text) + 1 \in T
  OBVIOUS
<1>2. PICK q \in T : \A r \in T : q <= r
  BY <1>1, SmallestExists
<1>3. \A i \in p + 1 .. q - 1 : text[i] \in C
  BY <1>2
<1>4. \E r \in p + 1 .. Len(text) + 1 :
        /\ r <= Len(text) => text[r] \notin C
        /\ \A i \in p + 1 .. r - 1 : text[i] \in C
  BY <1>2, <1>3
<1> QED
  BY <1>4 DEF StopAfter

\* What the lexer may be left with: a position of the text, and a character of it in
\* hand unless the text is at its end.
GoodLexer(text, p, c) ==
  /\ p \in 0 .. Len(text) /\ c \in Classes \cup {NUL}
  /\ p < Len(text) => c \in Classes

GoodScan(text, s) ==
  /\ s.res \in {"token", "lexError", "hung"}
  /\ s.token \in Tokens
  /\ GoodLexer(text, s.pos, s.lastChar)

\* A token that ends inside the text, or just after it, leaves a good lexer.
LEMMA EndsGood ==
  ASSUME NEW text \in Seq(Classes), NEW t \in TokenTypes, NEW p \in Nat,
         NEW q \in 1 .. Len(text) + 1
  PROVE  GoodScan(text, Ends(text, t, p, q))
BY DEF GoodScan, GoodLexer, Ends, Token, Tokens, PosAt, CharAt

LEMMA StoppedGood ==
  ASSUME NEW text \in Seq(Classes), NEW res \in {"lexError", "hung"}, NEW p, NEW c,
         GoodLexer(text, p, c)
  PROVE  GoodScan(text, Stopped(res, p, c))
BY DEF GoodScan, Stopped, NoToken, Token, Tokens, TokenTypes

\* Whatever the text and the character in hand, emmitToken gives a token, throws or
\* hangs, and leaves the lexer inside the text.
LEMMA EmmitTokenGood ==
  ASSUME NEW text \in Seq(Classes), NEW p, NEW c, GoodLexer(text, p, c)
  PROVE  GoodScan(text, EmmitToken(text, p, c))
<1>1. CASE p = Len(text)
  <2>1. p \in Nat
    BY <1>1
  <2> QED
    BY <1>1, <2>1 DEF EmmitToken, Scanned, GoodScan, GoodLexer, Token, Tokens, TokenTypes
<1>2. CASE p # Len(text)
  <2>1. p \in 0 .. Len(text) /\ p + 1 <= Len(text) /\ c \in Classes
    BY <1>2 DEF GoodLexer
  <2>2. \A C : StopAfter(text, p, C) \in p + 1 .. Len(text) + 1
    BY <2>1, StopAfterRange
  <2>3. \A C : \A t \in TokenTypes : GoodScan(text, Ends(text, t, p, StopAfter(text, p, C)))
    BY <2>1, <2>2, EndsGood
  <2>4. \A t \in TokenTypes : GoodScan(text, Ends(text, t, p, p + 1))
    BY <2>1, EndsGood
  <2>5. \A t \in TokenTypes : GoodScan(text, Ends(text, t, p, p + 2))
    BY <2>1, EndsGood
  <2>6. GoodScan(text, ScanString(text, p, c))
    <3> DEFINE q == StopAfter(text, p + 1, Classes \ {c})
    <3>1. q \in p + 2 .. Len(text) + 1
      BY <2>1, StopAfterRange
    <3>2. q <= Len(text) => GoodScan(text, Ends(text, "STRING", p, q + 1))
      BY <2>1, <3>1, EndsGood DEF TokenTypes
    <3>3. GoodScan(text, Stopped("hung", Len(text), NUL))
      BY StoppedGood DEF GoodLexer
    <3> QED
      BY <2>5, <3>1, <3>2, <3>3 DEF ScanString, TokenTypes
  <2>7. GoodScan(text, ScanComment(text, p))
    <3> DEFINE q == StopAfter(text, p, Classes \ {"newline"})
               r == StopAfter(text, q, {"newline"})
    <3>1. q \in p + 1 .. Len(text) + 1
      BY <2>2
    <3>2. CASE q >= Len(text)
      <4>1. Len(text) \in Nat /\ text[Len(text)] \in Classes
        BY <2>1
      <4> QED
        BY <3>2, <4>1 DEF ScanComment, GoodScan, GoodLexer, Token, Tokens, TokenTypes
    <3>3. CASE ~(q >= Len(text))
      <4>1. r \in 1 .. Len(text) + 1
        BY <2>1, <3>1, <3>3, StopAfterRange
      <4>2. GoodScan(text, Ends(text, "NEWLINE", q, r))
        BY <2>1, <3>1, <4>1, EndsGood DEF TokenTypes
      <4> QED
        BY <3>3, <4>2 DEF ScanComment
    <3> QED
      BY <3>2, <3>3
  <2>8. GoodScan(text, ScanNumber(text, p))
    <3> DEFINE q == StopAfter(text, p, {"digit"})
               r == StopAfter(text, q, {"digit"})
    <3>1. q \in p + 1 .. Len(text) + 1
      BY <2>2
    <3>2. GoodScan(text, Ends(text, "INTEGER", p, q))
      BY <2>3 DEF TokenTypes
    <3>3. CASE CharAt(text, q) # "dot"
      BY <3>2, <3>3 DEF ScanNumber
    <3>4. CASE CharAt(text, q) = "dot"
      <4>1. q \in 0 .. Len(text)
        BY <2>1, <3>1, <3>4 DEF CharAt, NUL
      <4>2. r \in q + 1 .. Len(text) + 1
        BY <4>1, StopAfterRange
      <4>3. GoodScan(text, Ends(text, "FLOAT", p, r))
        BY <2>1, <4>1, <4>2, EndsGood DEF TokenTypes
      <4>4. CharAt(text, r) = "dot" => GoodScan(text, Stopped("lexError", r, "dot"))
        <5>1. CharAt(text, r) = "dot" => r <= Len(text)
          BY <4>2 DEF CharAt, NUL
        <5>2. CharAt(text, r) = "dot" => GoodLexer(text, r, "dot")
          BY <4>1, <4>2, <5>1 DEF GoodLexer, Classes
        <5> QED
          BY <5>2, StoppedGood
      <4> QED
        BY <3>4, <4>3, <4>4 DEF ScanNumber
    <3> QED
      BY <3>3, <3>4
  <2>9. GoodScan(text, Stopped("lexError", p + 1, text[p + 1]))
    <3>1. GoodLexer(text, p + 1, text[p + 1])
      BY <2>1 DEF GoodLexer
    <3> QED
      BY <3>1, StoppedGood
  <2> QED
    BY <1>2, <2>1, <2>3, <2>4, <2>5, <2>6, <2>7, <2>8, <2>9
       DEF EmmitToken, TokenTypes, Classes, Quotes
<1> QED
  BY <1>1, <1>2

-----------------------------------------------------------------------------
(* The tiling of the text.                                                 *)

\* The character in hand is the last one handed out, until the text is at its end.
InHand(text, p, c) == p < Len(text) => p >= 1 /\ c = text[p]

\* What a scan from position p with c in hand must give: a token that starts at p, or
\* after the comment that starts there, and ends where the next scan starts, but for
\* the character in hand that the end of the input costs.
Tiles(text, p, c, s) ==
  /\ InHand(text, s.pos, s.lastChar)
  /\ s.token.type # "EOF" => s.token.from < s.token.to
  /\ \/ s.token.from = p
     \/ p < s.token.from /\ c = "hash" /\ s.token.type \in {"NEWLINE", "EOF"}
  /\ p = Len(text) => s.token.type = "EOF" /\ s.token.from = p
  /\ s.token.type = "EOF" => s.pos = Len(text)
  /\ \/ s.token.to = s.pos
     \/ s.token.to = Len(text) + 1 /\ s.pos = Len(text)

LEMMA EndsTiles ==
  ASSUME NEW text \in Seq(Classes), NEW t, t # "EOF", NEW p \in 0 .. Len(text) - 1, NEW c,
         NEW q \in p + 1 .. Len(text) + 1
  PROVE  Tiles(text, p, c, Ends(text, t, p, q))
BY DEF Tiles, InHand, Ends, Token, PosAt, CharAt

\* Every token emmitToken gives tiles the text.
LEMMA EmmitTokenTiles ==
  ASSUME NEW text \in Seq(Classes), NEW p, NEW c, GoodLexer(text, p, c),
         EmmitToken(text, p, c).res = "token"
  PROVE  Tiles(text, p, c, EmmitToken(text, p, c))
<1>1. CASE p = Len(text)
  BY <1>1 DEF EmmitToken, Scanned, Tiles, InHand, Token
<1>2. CASE p # Len(text)
  <2>1. p \in 0 .. Len(text) - 1 /\ c \in Classes
    BY <1>2 DEF GoodLexer
  <2>2. \A C : StopAfter(text, p, C) \in p + 1 .. Len(text) + 1
    BY <2>1, StopAfterRange
  <2>3. \A C, t : t # "EOF" => Tiles(text, p, c, Ends(text, t, p, StopAfter(text, p, C)))
    BY <2>1, <2>2, EndsTiles
  <2>4. \A t : t # "EOF" => Tiles(text, p, c, Ends(text, t, p, p + 1))
    BY <2>1, EndsTiles
  <2>5. p + 2 <= Len(text) + 1 => \A t : t # "EOF" => Tiles(text, p, c, Ends(text, t, p, p + 2))
    BY <2>1, EndsTiles
  <2>6. ScanString(text, p, c).res = "token" => Tiles(text, p, c, ScanString(text, p, c))
    <3> DEFINE q == StopAfter(text, p + 1, Classes \ {c})
    <3>1. q \in p + 2 .. Len(text) + 1
      BY <2>1, StopAfterRange
    <3>2. q <= Len(text) => Tiles(text, p, c, Ends(text, "STRING", p, q + 1))
      BY <2>1, <3>1, EndsTiles
    <3>3. Stopped("hung", Len(text), NUL).res # "token"
      BY DEF Stopped
    <3> HIDE DEF q
    <3> QED
      BY <2>1, <2>5, <3>1, <3>2, <3>3 DEF ScanString, q
  <2>7. c = "hash" => Tiles(text, p, c, ScanComment(text, p))
    <3> DEFINE q == StopAfter(text, p, Classes \ {"newline"})
               r == StopAfter(text, q, {"newline"})
    <3>1. q \in p + 1 .. Len(text) + 1
      BY <2>2
    <3> HIDE DEF q
    <3>2. CASE q >= Len(text)
      <4>1. ScanComment(text, p)
              = [res |-> "token", token |-> Token("EOF", Len(text), Len(text)),
                 pos |-> Len(text), lastChar |-> text[Len(text)]]
        BY <3>2 DEF ScanComment, q
      <4> QED
        BY <2>1, <4>1 DEF Tiles, InHand, Token
    <3>3. CASE ~(q >= Len(text))
      <4>1. q \in 0 .. Len(text) - 1
        BY <2>1, <3>1, <3>3
      <4>2. r \in q + 1 .. Len(text) + 1
        BY <4>1, StopAfterRange
      <4>3. ScanComment(text, p) = Ends(text, "NEWLINE", q, r)
        BY <3>3 DEF ScanComment, q
      <4> HIDE DEF r
      <4> QED
        BY <2>1, <3>1, <4>1, <4>2, <4>3 DEF Tiles, InHand, Ends, Token, PosAt, CharAt
    <3> QED
      BY <3>2, <3>3
  <2>8. ScanNumber(text, p).res = "token" => Tiles(text, p, c, ScanNumber(text, p))
    <3> DEFINE q == StopAfter(text, p, {"digit"})
               r == StopAfter(text, q, {"digit"})
    <3>1. q \in p + 1 .. Len(text) + 1
      BY <2>2
    <3>2. Tiles(text, p, c, Ends(text, "INTEGER", p, q))
      BY <2>3
    <3> HIDE DEF q
    <3>3. CASE CharAt(text, q) # "dot"
      BY <3>2, <3>3 DEF ScanNumber, q
    <3>4. CASE CharAt(text, q) = "dot"
      <4>1. q \in 0 .. Len(text)
        BY <2>1, <3>1, <3>4 DEF CharAt, NUL
      <4>2. r \in q + 1 .. Len(text) + 1
        BY <4>1, StopAfterRange
      <4>3. Tiles(text, p, c, Ends(text, "FLOAT", p, r))
        <5>1. r \in p + 1 .. Len(text) + 1
          BY <2>1, <3>1, <4>1, <4>2
        <5> QED
          BY <2>1, <5>1, EndsTiles
      <4>4. Stopped("lexError", r, "dot").res # "token"
        BY DEF Stopped
      <4> QED
        BY <3>4, <4>3, <4>4 DEF ScanNumber, q
    <3> QED
      BY <3>3, <3>4
  <2>9. c = "colon" /\ text[p + 1] = "colon" => Tiles(text, p, c, Ends(text, "DOUBLE_COLON", p, p + 2))
    BY <2>1, <2>5
  <2>10. Stopped("lexError", p + 1, text[p + 1]).res # "token"
    BY DEF Stopped
  <2> QED
    BY <1>2, <2>1, <2>3, <2>4, <2>6, <2>7, <2>8, <2>9, <2>10 DEF EmmitToken, Quotes
<1> QED
  BY <1>1, <1>2

-----------------------------------------------------------------------------
(* The queue.                                                              *)

\* A queue that stands before one of its tokens, or before the next one to be lexed.
GoodQueue(q) ==
  /\ q = [tokens |-> q.tokens, ptr |-> q.ptr, pos |-> q.pos, lastChar |-> q.lastChar,
          res |-> q.res]
  /\ q.tokens \in Seq(Tokens)
  /\ q.ptr \in -1 .. Len(q.tokens) - 1
  /\ GoodLexer(input, q.pos, q.lastChar)
  /\ q.res = "token"

\* n is what reading on from q may give: the tokens of q, and perhaps more, with a
\* token in hand unless the lexer stopped.
ReadsOn(q, n) ==
  /\ n = [tokens |-> n.tokens, ptr |-> n.ptr, pos |-> n.pos, lastChar |-> n.lastChar,
          res |-> n.res]
  /\ n.tokens \in Seq(Tokens) /\ Len(n.tokens) >= Len(q.tokens)
  /\ \A i \in 1 .. Len(q.tokens) : n.tokens[i] = q.tokens[i]
  /\ GoodLexer(input, n.pos, n.lastChar)
  /\ n.res \in {"token", "lexError", "hung"}
  /\ n.res = "token" => GoodQueue(n) /\ n.ptr > q.ptr
  /\ n.res # "token" => n.ptr = Len(n.tokens)

LEMMA GetNextTokenReadsOn ==
  ASSUME input \in Seq(Classes), NEW q, GoodQueue(q)
  PROVE  ReadsOn(q, GetNextToken(q))
<1> DEFINE k == q.ptr + 1
           s == EmmitToken(input, q.pos, q.lastChar)
           n == GetNextToken(q)
<1>1. q.tokens \in Seq(Tokens) /\ q.ptr \in -1 .. Len(q.tokens) - 1
  BY DEF GoodQueue
<1>2. CASE k < Len(q.tokens)
  <2>1. n = [tokens |-> q.tokens, ptr |-> k, pos |-> q.pos, lastChar |-> q.lastChar,
             res |-> "token"]
    BY <1>2 DEF GetNextToken, GoodQueue
  <2> QED
    BY <1>1, <1>2, <2>1 DEF ReadsOn, GoodQueue
<1>3. CASE ~(k < Len(q.tokens))
  <2>1. GoodScan(input, s)
    BY EmmitTokenGood DEF GoodQueue
  <2> HIDE DEF s
  <2>2. n = [tokens |-> IF s.res = "token" THEN Append(q.tokens, s.token) ELSE q.tokens,
             ptr |-> k, pos |-> s.pos, lastChar |-> s.lastChar, res |-> s.res]
    BY <1>3 DEF GetNextToken, s
  <2>3. k = Len(q.tokens)
    BY <1>1, <1>3
  <2>4. CASE s.res = "token"
    <3>1. /\ Append(q.tokens, s.token) \in Seq(Tokens)
          /\ Len(Append(q.tokens, s.token)) = Len(q.tokens) + 1
          /\ \A i \in 1 .. Len(q.tokens) : Append(q.tokens, s.token)[i] = q.tokens[i]
      BY <1>1, <2>1 DEF GoodScan
    <3> QED
      BY <1>1, <2>1, <2>2, <2>3, <2>4, <3>1 DEF ReadsOn, GoodQueue, GoodScan
  <2>5. CASE s.res # "token"
    BY <1>1, <2>1, <2>2, <2>3, <2>5 DEF ReadsOn, GoodScan
  <2> QED
    BY <2>4, <2>5
<1> QED
  BY <1>2, <1>3

LEMMA NextLexerTokenReadsOn ==
  ASSUME input \in Seq(Classes), NEW q, GoodQueue(q), NEW skip \in BOOLEAN
  PROVE  ReadsOn(q, NextLexerToken(q, skip))
<1> DEFINE n == GetNextToken(q)
<1>1. ReadsOn(q, n)
  BY GetNextTokenReadsOn
<1>2. CASE skip /\ n.res = "token" /\ Type(n) = "SPACES"
  <2>1. GoodQueue(n)
    BY <1>1, <1>2 DEF ReadsOn
  <2>2. ReadsOn(n, GetNextToken(n))
    BY <2>1, GetNextTokenReadsOn
  <2>3. NextLexerToken(q, skip) = GetNextToken(n)
    BY <1>2 DEF NextLexerToken
  <2> HIDE DEF n
  <2>4. ReadsOn(q, GetNextToken(n))
    <3> DEFINE m == GetNextToken(n)
    <3> HIDE DEF m
    <3>1. Len(q.tokens) \in Nat /\ Len(n.tokens) \in Nat /\ Len(m.tokens) \in Nat
          /\ q.ptr \in Int /\ n.ptr \in Int /\ (m.res = "token" => m.ptr \in Int)
      BY <1>1, <2>1, <2>2 DEF ReadsOn, GoodQueue, m
    <3> QED
      BY <1>1, <1>2, <2>2, <3>1 DEF ReadsOn, m
  <2> QED
    BY <2>3, <2>4
<1>3. CASE ~(skip /\ n.res = "token" /\ Type(n) = "SPACES")
  BY <1>1, <1>3 DEF NextLexerToken
<1> QED
  BY <1>2, <1>3

\* Going back to a token that has been lexed moves the index and nothing else.
LEMMA RewindToMark ==
  ASSUME NEW t \in Seq(Tokens), NEW j, NEW p, NEW c, NEW r, NEW k \in 0 .. Len(t) - 1
  PROVE  RewindTo([tokens |-> t, ptr |-> j, pos |-> p, lastChar |-> c, res |-> r], k)
           = [tokens |-> t, ptr |-> k, pos |-> p, lastChar |-> c, res |-> r]
<1> DEFINE q == [tokens |-> t, ptr |-> j, pos |-> p, lastChar |-> c, res |-> r]
           b == [tokens |-> t, ptr |-> k - 1, pos |-> p, lastChar |-> c, res |-> r]
<1>1. [q EXCEPT !.ptr = k - 1] = b
  OBVIOUS
<1>2. GetNextToken(b) = [tokens |-> t, ptr |-> k, pos |-> p, lastChar |-> c, res |-> r]
  <2>1. b.ptr + 1 = k /\ b.tokens = t /\ k < Len(t)
    OBVIOUS
  <2>2. GetNextToken(b) = [b EXCEPT !.ptr = k]
    BY <2>1 DEF GetNextToken
  <2> QED
    BY <2>2
<1>3. NextLexerToken(b, FALSE) = GetNextToken(b)
  BY DEF NextLexerToken
<1> HIDE DEF b
<1> QED
  BY <1>1, <1>2, <1>3 DEF RewindTo

-----------------------------------------------------------------------------
(* The parser.                                                             *)

\* The strengthened invariant: nothing has been read before the parser starts, and
\* the lexer has a character in hand until the text is at its end.
NotStarted == mode \in {"newLexer", "newParser"} => tokens = <<>> /\ ptr = -1 /\ frames = <<>>

IInv ==
  /\ TypeOK
  /\ GoodLexer(input, pos, lastChar)
  /\ NotStarted
  /\ TokenInHand
  /\ FramesShowWhatTheySaw
  /\ TerminatesOnlyAtFirstToken

\* What LexedOnce says of a step.
Grows ==
  /\ mode' = "parsing" /\ ptr' <= ptr => UNCHANGED lexer
  /\ Len(tokens') >= Len(tokens) /\ SubSeq(tokens', 1, Len(tokens)) = tokens

LEMMA InitInv == Init => IInv
<1> SUFFICES ASSUME Init PROVE IInv
  OBVIOUS
<1> USE TokenStreamAssumption DEF Init
<1>1. input \in Seq(Classes) /\ Len(input) \in Nat
  OBVIOUS
<1>2. TypeOK
  BY <1>1 DEF TypeOK, Classes, TokenTypes, Modes
<1>3. GoodLexer(input, pos, lastChar)
  BY <1>1 DEF GoodLexer, Classes
<1> QED
  BY <1>2, <1>3 DEF IInv, NotStarted, TokenInHand, FramesShowWhatTheySaw,
       TerminatesOnlyAtFirstToken

\* While the parser runs its queue is good, and its guards and kept positions are
\* among the tokens lexed.
LEMMA QueueIsGood ==
  ASSUME IInv, mode \in {"newParser", "parsing"}
  PROVE  /\ input \in Seq(Classes) /\ GoodQueue(Queue)
         /\ \A i \in DOMAIN frames : frames[i].mark \in 0 .. Len(tokens) - 1
<1>1. input \in Seq(Classes)
  BY TokenStreamAssumption DEF IInv, TypeOK
<1>2. tokens \in Seq(Tokens) /\ ptr \in -1 .. Len(tokens) - 1
  BY DEF IInv, TypeOK, TokenInHand, NotStarted
<1>3. GoodQueue(Queue)
  BY <1>2 DEF IInv, GoodQueue, Queue
<1>4. ASSUME NEW i \in DOMAIN frames PROVE frames[i].mark \in 0 .. Len(tokens) - 1
  <2>1. frames \in Seq(Frames)
    BY DEF IInv, TypeOK
  <2>2. frames[i].mark \in Nat
    <3>1. frames[i] \in Frames
      BY <2>1
    <3> QED
      BY <3>1 DEF Frames
  <2>3. mode = "parsing"
    BY DEF IInv, NotStarted
  <2>4. frames[i].mark <= ptr
    BY <2>3 DEF IInv, FramesShowWhatTheySaw
  <2> QED
    BY <1>2, <2>2, <2>4
<1> QED
  BY <1>1, <1>3, <1>4

\* Reading on keeps the invariant: what was lexed stays where it was.
LEMMA AdvanceStep ==
  ASSUME IInv, NEW skip \in BOOLEAN, Advance(skip)
  PROVE  IInv' /\ Grows
<1> DEFINE q == NextLexerToken(Queue, skip)
<1>1. mode = "parsing" /\ UNCHANGED input /\ Continue(q)
      /\ frames' = IF q.res = "token" THEN frames ELSE <<>>
  BY DEF Advance
<1>2. ReadsOn(Queue, q)
  BY <1>1, QueueIsGood, NextLexerTokenReadsOn
<1> HIDE DEF q
<1>3. /\ q.tokens \in Seq(Tokens) /\ Len(q.tokens) >= Len(tokens)
      /\ \A i \in 1 .. Len(tokens) : q.tokens[i] = tokens[i]
      /\ GoodLexer(input, q.pos, q.lastChar)
      /\ q.res \in {"token", "lexError", "hung"}
      /\ q.res = "token" => GoodQueue(q) /\ q.ptr > ptr
      /\ q.res # "token" => q.ptr = Len(q.tokens)
  BY <1>2 DEF ReadsOn, Queue
<1>4. tokens \in Seq(Tokens) /\ ptr \in 0 .. Len(tokens) - 1 /\ current \in TokenTypes
      /\ frames \in Seq(Frames)
      /\ \A i \in DOMAIN frames : frames[i].mark \in 0 .. Len(tokens) - 1
  BY <1>1, QueueIsGood DEF IInv, TypeOK, TokenInHand
<1>5. SubSeq(q.tokens, 1, Len(tokens)) = tokens
  BY <1>3, <1>4
<1>6. CASE q.res = "token"
  <2>1. Becomes(q) /\ current' = Type(q) /\ UNCHANGED <<mode, frames, input>>
    BY <1>1, <1>6 DEF Continue
  <2>2. q.ptr \in 0 .. Len(q.tokens) - 1 /\ Type(q) \in TokenTypes
    <3>1. q.ptr \in 0 .. Len(q.tokens) - 1
      BY <1>3, <1>4, <1>6 DEF GoodQueue
    <3>2. q.tokens[q.ptr + 1] \in Tokens
      BY <1>3, <3>1
    <3> QED
      BY <3>1, <3>2 DEF Type, Tokens
  <2>3. TypeOK'
    BY <1>3, <2>1, <2>2 DEF IInv, TypeOK, Becomes, GoodLexer
  <2>4. GoodLexer(input, pos, lastChar)'
    BY <1>3, <2>1 DEF Becomes, GoodLexer
  <2>5. TokenInHand'
    BY <2>1, <2>2 DEF TokenInHand, Becomes, Type
  <2>6. FramesShowWhatTheySaw'
    <3>1. ASSUME NEW i \in DOMAIN frames
          PROVE  /\ frames[i].mark <= q.ptr
                 /\ q.tokens[frames[i].mark + 1] = tokens[frames[i].mark + 1]
      <4>1. frames[i].mark \in 0 .. Len(tokens) - 1 /\ frames[i].mark <= ptr
        BY <1>1, <1>4 DEF IInv, FramesShowWhatTheySaw
      <4>2. frames[i].mark + 1 \in 1 .. Len(tokens)
        BY <1>4, <4>1
      <4>3. q.ptr > ptr
        BY <1>3, <1>6
      <4>4. frames[i].mark <= q.ptr
        BY <1>4, <2>2, <4>1, <4>3
      <4> QED
        BY <1>3, <4>2, <4>4
    <3> QED
      BY <1>1, <2>1, <3>1 DEF IInv, FramesShowWhatTheySaw, Becomes
  <2>7. NotStarted' /\ TerminatesOnlyAtFirstToken'
    BY <1>1, <2>1 DEF NotStarted, TerminatesOnlyAtFirstToken
  <2>8. Grows
    BY <1>3, <1>4, <1>5, <1>6, <2>1, <2>2 DEF Grows, Becomes
  <2> QED
    BY <2>3, <2>4, <2>5, <2>6, <2>7, <2>8 DEF IInv
<1>7. CASE q.res # "token"
  <2>1. \/ Becomes(q) /\ mode' \in {"lexError", "hung"}
        \/ \E k \in 0 .. Len(tokens) - 1 :
             /\ Becomes([tokens |-> q.tokens, ptr |-> k, pos |-> q.pos,
                         lastChar |-> q.lastChar, res |-> "token"])
             /\ mode' = "lexError"
    <3>1. CASE q.res = "hung"
      BY <1>1, <3>1 DEF Continue
    <3>2. CASE q.res = "lexError" /\ Guards = {}
      BY <1>1, <3>2 DEF Continue, Unwound
    <3>3. CASE q.res = "lexError" /\ Guards # {}
      <4>1. PICK m \in Guards : \A j \in Guards : m <= j
        <5>1. Guards \in SUBSET Nat
          BY <1>4 DEF Guards
        <5> QED
          BY <3>3, <5>1, SmallestExists
      <4> DEFINE outermost == CHOOSE i \in Guards : \A j \in Guards : i <= j
      <4>2. outermost \in Guards
        BY <4>1
      <4> HIDE DEF outermost
      <4>3. frames[outermost].mark \in 0 .. Len(tokens) - 1
        BY <1>4, <4>2 DEF Guards
      <4>4. \A i \in Guards : ~(frames[i].mark >= Len(q.tokens))
        BY <1>3, <1>4 DEF Guards
      <4>5. [q EXCEPT !.res = "token"]
              = [tokens |-> q.tokens, ptr |-> q.ptr, pos |-> q.pos, lastChar |-> q.lastChar,
                 res |-> "token"]
        BY <1>2 DEF ReadsOn
      <4>6. /\ Becomes(RewindTo([q EXCEPT !.res = "token"], frames[outermost].mark))
            /\ mode' = "lexError"
        BY <1>1, <3>3, <4>4 DEF Continue, Unwound, outermost
      <4> QED
        BY <1>3, <4>3, <4>5, <4>6, RewindToMark
    <3> QED
      BY <1>3, <1>7, <3>1, <3>2, <3>3
  <2>2. /\ tokens' = q.tokens /\ pos' = q.pos /\ lastChar' = q.lastChar
        /\ ptr' \in 0 .. Len(q.tokens) /\ mode' \in {"lexError", "hung"}
    BY <1>3, <1>4, <1>7, <2>1 DEF Becomes
  <2>3. frames' = <<>> /\ current' = current /\ input' = input
    BY <1>1, <1>7 DEF Continue
  <2>4. TypeOK'
    BY <1>3, <1>4, <2>2, <2>3 DEF IInv, TypeOK, GoodLexer, Modes, Ended
  <2>5. GoodLexer(input, pos, lastChar)'
    BY <1>3, <2>2, <2>3 DEF GoodLexer
  <2>6. NotStarted' /\ TokenInHand' /\ FramesShowWhatTheySaw' /\ TerminatesOnlyAtFirstToken'
    BY <2>2 DEF NotStarted, TokenInHand, FramesShowWhatTheySaw, TerminatesOnlyAtFirstToken
  <2>7. Grows
    BY <1>3, <1>5, <2>2 DEF Grows
  <2> QED
    BY <2>4, <2>5, <2>6, <2>7 DEF IInv
<1> QED
  BY <1>6, <1>7

\* A step that leaves the lexer alone and ends at a token already lexed, with frames
\* that are a prefix of the open ones and lie before it.
LEMMA StayStep ==
  ASSUME IInv, mode = "parsing", mode' = "parsing", UNCHANGED <<input, lexer>>,
         ptr' \in 0 .. Len(tokens) - 1, current' = tokens[ptr' + 1].type,
         NEW n \in 0 .. Len(frames), frames' = SubSeq(frames, 1, n),
         \A i \in 1 .. n : frames[i].mark <= ptr'
  PROVE  IInv' /\ Grows
<1>1. /\ tokens \in Seq(Tokens) /\ frames \in Seq(Frames)
      /\ tokens' = tokens /\ pos' = pos /\ lastChar' = lastChar /\ input' = input
  BY DEF IInv, TypeOK, lexer
<1>2. frames' \in Seq(Frames) /\ DOMAIN frames' = 1 .. n
      /\ \A i \in 1 .. n : frames'[i] = frames[i] /\ i \in DOMAIN frames
  BY <1>1
<1>3. TypeOK'
  <2>1. tokens[ptr' + 1] \in Tokens
    BY <1>1
  <2>2. current' \in TokenTypes
    BY <2>1 DEF Tokens
  <2> QED
    BY <1>1, <1>2, <2>2 DEF IInv, TypeOK
<1>4. GoodLexer(input, pos, lastChar)'
  BY <1>1 DEF IInv, GoodLexer
<1>5. TokenInHand'
  BY <1>1 DEF TokenInHand
<1>6. FramesShowWhatTheySaw'
  BY <1>1, <1>2 DEF IInv, FramesShowWhatTheySaw
<1>7. NotStarted' /\ TerminatesOnlyAtFirstToken'
  BY DEF NotStarted, TerminatesOnlyAtFirstToken
<1>8. SubSeq(tokens, 1, Len(tokens)) = tokens
  BY <1>1
<1>9. Grows
  BY <1>1, <1>8 DEF Grows, lexer
<1> QED
  BY <1>3, <1>4, <1>5, <1>6, <1>7, <1>9 DEF IInv

\* Going back to the mark of an open frame, which closes that frame and those inside it.
LEMMA BackStep ==
  ASSUME IInv, mode = "parsing", NEW i \in DOMAIN frames,
         Continue(RewindTo(Queue, frames[i].mark)), frames' = SubSeq(frames, 1, i - 1),
         UNCHANGED input
  PROVE  IInv' /\ Grows
<1> DEFINE k == frames[i].mark
<1>1. tokens \in Seq(Tokens) /\ frames \in Seq(Frames) /\ k \in 0 .. Len(tokens) - 1
  BY QueueIsGood DEF IInv, TypeOK
<1>2. RewindTo(Queue, k) = [tokens |-> tokens, ptr |-> k, pos |-> pos, lastChar |-> lastChar,
                            res |-> "token"]
  BY <1>1, RewindToMark DEF Queue
<1>3. /\ mode' = "parsing" /\ UNCHANGED <<input, lexer>> /\ ptr' = k
      /\ current' = tokens[k + 1].type
  BY <1>2 DEF Continue, Becomes, Type, lexer
<1>4. i - 1 \in 0 .. Len(frames) /\ \A j \in 1 .. i - 1 : j \in DOMAIN frames /\ j < i
  BY <1>1
<1>5. \A j \in 1 .. i - 1 : frames[j].mark <= k
  BY <1>4 DEF IInv, FramesShowWhatTheySaw
<1> HIDE DEF k
<1> QED
  BY <1>1, <1>3, <1>4, <1>5, StayStep

-----------------------------------------------------------------------------
(* The steps.                                                              *)

LEMMA NewLexerStep ==
  ASSUME IInv, NewLexer
  PROVE  IInv' /\ Grows
<1> DEFINE s == EmmitToken(input, pos, lastChar)
<1>1. input \in Seq(Classes)
  BY TokenStreamAssumption DEF IInv, TypeOK
<1>2. GoodScan(input, s)
  BY <1>1, EmmitTokenGood DEF IInv
<1>3. /\ mode' = "newParser" /\ pos' = s.pos /\ lastChar' = s.lastChar
      /\ tokens = <<>> /\ ptr = -1 /\ frames = <<>>
      /\ UNCHANGED <<input, tokens, ptr, current, frames>>
  BY DEF NewLexer, IInv, NotStarted
<1> HIDE DEF s
<1>4. TypeOK'
  BY <1>2, <1>3 DEF IInv, TypeOK, GoodScan, GoodLexer, Modes
<1>5. GoodLexer(input, pos, lastChar)'
  BY <1>2, <1>3 DEF GoodScan, GoodLexer
<1>6. NotStarted' /\ TokenInHand' /\ FramesShowWhatTheySaw' /\ TerminatesOnlyAtFirstToken'
  BY <1>3 DEF NotStarted, TokenInHand, FramesShowWhatTheySaw, TerminatesOnlyAtFirstToken
<1>7. Grows
  BY <1>3 DEF Grows
<1> QED
  BY <1>4, <1>5, <1>6, <1>7 DEF IInv

LEMMA NewParserStep ==
  ASSUME IInv, NewParser
  PROVE  IInv' /\ Grows
<1> DEFINE q == GetNextToken(Queue)
<1>1. mode = "newParser" /\ tokens = <<>> /\ ptr = -1 /\ frames = <<>>
  BY DEF NewParser, IInv, NotStarted
<1>2. ReadsOn(Queue, q)
  BY <1>1, QueueIsGood, GetNextTokenReadsOn
<1>3. q.res # "token" => q.tokens = <<>>
  <2>1. q.tokens = IF q.res = "token" THEN q.tokens ELSE Queue.tokens
    BY <1>1 DEF GetNextToken, Queue
  <2> QED
    BY <1>1, <2>1 DEF Queue
<1>4. /\ Becomes(q) /\ UNCHANGED <<input, frames>>
      /\ q.res = "token" => mode' = "parsing" /\ current' = Type(q)
      /\ q.res = "lexError" => mode' = "terminate" /\ current' = current
      /\ q.res = "hung" => mode' = "hung" /\ current' = current
  BY DEF NewParser
<1> HIDE DEF q
<1>5. /\ q.tokens \in Seq(Tokens) /\ GoodLexer(input, q.pos, q.lastChar)
      /\ q.res \in {"token", "lexError", "hung"}
      /\ q.res = "token" => q.ptr \in 0 .. Len(q.tokens) - 1
      /\ q.ptr \in 0 .. Len(q.tokens)
  BY <1>1, <1>2 DEF ReadsOn, GoodQueue, Queue
<1>6. q.res = "token" => Type(q) \in TokenTypes
  <2>1. q.res = "token" => q.tokens[q.ptr + 1] \in Tokens
    BY <1>5
  <2> QED
    BY <2>1 DEF Type, Tokens
<1>7. TypeOK'
  BY <1>4, <1>5, <1>6 DEF IInv, TypeOK, Becomes, GoodLexer, Modes, Ended
<1>8. GoodLexer(input, pos, lastChar)'
  BY <1>4, <1>5 DEF Becomes
<1>9. TokenInHand'
  BY <1>4, <1>5 DEF TokenInHand, Becomes, Type
<1>10. FramesShowWhatTheySaw'
  BY <1>1, <1>4 DEF FramesShowWhatTheySaw
<1>11. NotStarted' /\ TerminatesOnlyAtFirstToken'
  BY <1>1, <1>3, <1>4, <1>5 DEF NotStarted, TerminatesOnlyAtFirstToken, Becomes
<1>12. Grows
  <2>1. Len(tokens') >= 0 /\ SubSeq(tokens', 1, 0) = <<>>
    BY <1>4, <1>5 DEF Becomes
  <2>2. mode' = "parsing" => ~(ptr' <= ptr)
    BY <1>1, <1>4, <1>5 DEF Becomes
  <2> QED
    BY <1>1, <2>1, <2>2 DEF Grows
<1> QED
  BY <1>7, <1>8, <1>9, <1>10, <1>11 , <1>12 DEF IInv

LEMMA EnterStep ==
  ASSUME IInv, NEW guard \in BOOLEAN, Enter(guard)
  PROVE  IInv' /\ Grows
<1> DEFINE f == [guard |-> guard, mark |-> ptr, saw |-> current]
<1>1. /\ mode = "parsing" /\ frames' = Append(frames, f)
      /\ UNCHANGED <<input, pos, lastChar, tokens, ptr, current, mode>>
  BY DEF Enter
<1>2. /\ tokens \in Seq(Tokens) /\ frames \in Seq(Frames) /\ current \in TokenTypes
      /\ ptr \in 0 .. Len(tokens) - 1 /\ current = tokens[ptr + 1].type
  BY <1>1 DEF IInv, TypeOK, TokenInHand
<1>3. f \in Frames
  BY <1>2 DEF Frames
<1>4. f.mark = ptr /\ f.saw = current
  OBVIOUS
<1> HIDE DEF f
<1>5. /\ frames' \in Seq(Frames) /\ DOMAIN frames' = 1 .. Len(frames) + 1
      /\ \A i \in DOMAIN frames : frames'[i] = frames[i]
      /\ frames'[Len(frames) + 1] = f /\ DOMAIN frames = 1 .. Len(frames)
      /\ Len(frames) \in Nat
  BY <1>1, <1>2, <1>3
<1>6. TypeOK'
  BY <1>1, <1>5 DEF IInv, TypeOK
<1>7. GoodLexer(input, pos, lastChar)' /\ TokenInHand'
  BY <1>1, <1>2 DEF IInv, GoodLexer, TokenInHand
<1>8. FramesShowWhatTheySaw'
  <2>1. \A i \in DOMAIN frames : frames[i].mark <= ptr
    BY <1>1 DEF IInv, FramesShowWhatTheySaw
  <2>2. ASSUME NEW i \in 1 .. Len(frames) + 1
        PROVE  /\ frames'[i].mark <= ptr
               /\ frames'[i].saw = tokens[frames'[i].mark + 1].type
    <3>1. CASE i \in DOMAIN frames
      BY <1>1, <1>5, <3>1 DEF IInv, FramesShowWhatTheySaw
    <3>2. CASE i = Len(frames) + 1
      BY <1>2, <1>4, <1>5, <3>2
    <3> QED
      BY <1>5, <3>1, <3>2
  <2>3. ASSUME NEW i \in 1 .. Len(frames) + 1, NEW j \in 1 .. Len(frames) + 1, i < j
        PROVE  frames'[i].mark <= frames'[j].mark
    <3>1. i \in DOMAIN frames
      BY <1>5, <2>3
    <3>2. CASE j \in DOMAIN frames
      BY <1>1, <1>5, <2>3, <3>1, <3>2 DEF IInv, FramesShowWhatTheySaw
    <3>3. CASE j = Len(frames) + 1
      BY <1>4, <1>5, <2>1, <3>1, <3>3
    <3> QED
      BY <1>5, <3>2, <3>3
  <2> QED
    BY <1>1, <1>5, <2>2, <2>3 DEF FramesShowWhatTheySaw
<1>9. NotStarted' /\ TerminatesOnlyAtFirstToken'
  BY <1>1 DEF NotStarted, TerminatesOnlyAtFirstToken
<1>10. Grows
  BY <1>1, <1>2 DEF Grows, lexer
<1> QED
  BY <1>6, <1>7, <1>8, <1>9, <1>10 DEF IInv

LEMMA LeaveStep ==
  ASSUME IInv, Leave
  PROVE  IInv' /\ Grows
<1>1. /\ mode = "parsing" /\ frames # <<>> /\ frames' = SubSeq(frames, 1, Len(frames) - 1)
      /\ UNCHANGED <<input, lexer, ptr, current, mode>>
  BY DEF Leave, lexer
<1>2. frames \in Seq(Frames) /\ ptr \in 0 .. Len(tokens) - 1 /\ current = tokens[ptr + 1].type
  BY <1>1 DEF IInv, TypeOK, TokenInHand
<1>3. Len(frames) - 1 \in 0 .. Len(frames)
  BY <1>1, <1>2
<1>4. \A i \in 1 .. Len(frames) - 1 : frames[i].mark <= ptr
  BY <1>1, <1>2 DEF IInv, FramesShowWhatTheySaw
<1> QED
  BY <1>1, <1>2, <1>3, <1>4, StayStep

LEMMA GoBackStep ==
  ASSUME IInv, GoBack
  PROVE  IInv' /\ Grows
<1>1. frames \in Seq(Frames) /\ frames # <<>>
  BY DEF IInv, TypeOK, GoBack
<1>2. Len(frames) \in DOMAIN frames
  BY <1>1
<1> QED
  BY <1>2, BackStep DEF GoBack

\* A set of positions of the frames that is not empty has a last one.
LEMMA InnermostExists ==
  ASSUME frames \in Seq(Frames), Guards # {}
  PROVE  \E i \in Guards : \A j \in Guards : j <= i
<1> DEFINE T == {n \in 0 .. Len(frames) : Len(frames) - n \in Guards}
<1>1. Guards \subseteq 1 .. Len(frames)
  BY DEF Guards
<1>2. PICK g \in Guards : TRUE
  OBVIOUS
<1>3. T \in SUBSET Nat /\ Len(frames) - g \in T
  BY <1>1
<1>4. PICK n \in T : \A m \in T : n <= m
  BY <1>3, SmallestExists
<1>5. ASSUME NEW j \in Guards PROVE j <= Len(frames) - n
  <2>1. Len(frames) - j \in T
    BY <1>1
  <2>2. n <= Len(frames) - j
    BY <1>4, <2>1
  <2> QED
    BY <1>1, <2>2
<1> QED
  BY <1>4, <1>5

LEMMA FailStep ==
  ASSUME IInv, Fail
  PROVE  IInv' /\ Grows
<1>1. mode = "parsing" /\ frames \in Seq(Frames) /\ tokens \in Seq(Tokens) /\ UNCHANGED input
  BY DEF Fail, IInv, TypeOK
<1>2. CASE Guards = {}
  <2>1. mode' = "rejected" /\ frames' = <<>> /\ UNCHANGED <<pos, lastChar, tokens, ptr, current>>
    BY <1>2 DEF Fail
  <2>2. frames' \in Seq(Frames)
    BY <2>1
  <2>3. TypeOK'
    BY <1>1, <2>1, <2>2 DEF IInv, TypeOK, Modes, Ended
  <2>4. GoodLexer(input, pos, lastChar)'
    BY <1>1, <2>1 DEF IInv, GoodLexer
  <2>5. NotStarted' /\ TokenInHand' /\ FramesShowWhatTheySaw' /\ TerminatesOnlyAtFirstToken'
    BY <2>1 DEF NotStarted, TokenInHand, FramesShowWhatTheySaw, TerminatesOnlyAtFirstToken
  <2>6. Grows
    BY <1>1, <2>1 DEF Grows
  <2> QED
    BY <2>3, <2>4, <2>5, <2>6 DEF IInv
<1>3. CASE Guards # {}
  <2> DEFINE innermost == CHOOSE i \in Guards : \A j \in Guards : j <= i
  <2>1. innermost \in DOMAIN frames
    BY <1>1, <1>3, InnermostExists DEF Guards
  <2>2. /\ Continue(RewindTo(Queue, frames[innermost].mark))
        /\ frames' = SubSeq(frames, 1, innermost - 1)
    BY <1>3 DEF Fail
  <2> HIDE DEF innermost
  <2> QED
    BY <1>1, <2>1, <2>2, BackStep
<1> QED
  BY <1>2, <1>3

LEMMA FinishStep ==
  ASSUME IInv, Finish
  PROVE  IInv' /\ Grows
<1>1. mode' = "parsed" /\ UNCHANGED <<input, pos, lastChar, tokens, ptr, current, frames>>
      /\ tokens \in Seq(Tokens)
  BY DEF Finish, IInv, TypeOK
<1>2. TypeOK' /\ GoodLexer(input, pos, lastChar)'
  BY <1>1 DEF IInv, TypeOK, GoodLexer, Modes, Ended
<1>3. NotStarted' /\ TokenInHand' /\ FramesShowWhatTheySaw' /\ TerminatesOnlyAtFirstToken'
  BY <1>1 DEF NotStarted, TokenInHand, FramesShowWhatTheySaw, TerminatesOnlyAtFirstToken
<1>4. Grows
  BY <1>1 DEF Grows
<1> QED
  BY <1>2, <1>3, <1>4 DEF IInv

\* Every step keeps the invariant and lets the tokens grow.
LEMMA NextStep ==
  ASSUME IInv, Next
  PROVE  IInv' /\ Grows
BY NewLexerStep, NewParserStep, AdvanceStep, EnterStep, LeaveStep, GoBackStep, FailStep,
   FinishStep DEF Next

-----------------------------------------------------------------------------
(* Lexing in advance.                                                      *)

\* A sequence of values may be defined by its first and by a step from each to the next.
Iteration(V, first, step, K) == first \in V /\ step \in [V -> V] /\ K \in Nat

LEMMA IterationExists ==
  ASSUME NEW V, NEW first, NEW step, NEW K, Iteration(V, first, step, K)
  PROVE  \E f \in [0 .. K -> V] :
           f = [k \in 0 .. K |-> IF k = 0 THEN first ELSE step[f[k - 1]]]
<1> USE DEF Iteration
<1> DEFINE Iterates(n, f) == f = [k \in 0 .. n |-> IF k = 0 THEN first ELSE step[f[k - 1]]]
           Failing == {n \in Nat : ~ \E f \in [0 .. n -> V] : Iterates(n, f)}
<1>1. ASSUME NEW n \in Nat, NEW f \in [0 .. n -> V], Iterates(n, f)
      PROVE  \E g \in [0 .. n + 1 -> V] : Iterates(n + 1, g)
  <2> DEFINE g == [k \in 0 .. n + 1 |-> IF k = n + 1 THEN step[f[n]] ELSE f[k]]
  <2>1. g \in [0 .. n + 1 -> V]
    OBVIOUS
  <2>2. ASSUME NEW k \in 0 .. n + 1 PROVE g[k] = IF k = 0 THEN first ELSE step[g[k - 1]]
    <3>1. CASE k = n + 1
      BY <3>1
    <3>2. CASE k \in 0 .. n
      <4>1. g[k] = f[k] /\ (k # 0 => k - 1 \in 0 .. n /\ g[k - 1] = f[k - 1])
        BY <3>2
      <4> QED
        BY <1>1, <3>2, <4>1
    <3> QED
      BY <3>1, <3>2
  <2>3. Iterates(n + 1, g)
    <3>1. g = [k \in 0 .. n + 1 |-> g[k]]
      OBVIOUS
    <3> HIDE DEF g
    <3> QED
      BY <2>2, <3>1
  <2> QED
    BY <2>1, <2>3
<1>2. 0 \notin Failing
  <2> DEFINE e == [k \in 0 .. 0 |-> first]
  <2>1. e \in [0 .. 0 -> V] /\ Iterates(0, e)
    OBVIOUS
  <2> QED
    BY <2>1
<1>3. Failing = {}
  <2> SUFFICES ASSUME Failing # {} PROVE FALSE
    OBVIOUS
  <2>1. PICK n \in Failing : \A m \in Failing : n <= m
    <3>1. Failing \in SUBSET Nat
      OBVIOUS
    <3> HIDE DEF Failing
    <3> QED
      BY <3>1, SmallestExists
  <2>2. n \in Nat /\ n # 0
    BY <1>2
  <2>3. n - 1 \in Nat /\ n - 1 \notin Failing
    <3> HIDE DEF Failing
    <3> QED
      BY <2>1, <2>2
  <2>4. PICK f \in [0 .. n - 1 -> V] : Iterates(n - 1, f)
    BY <2>3
  <2>5. n - 1 + 1 = n
    BY <2>2
  <2>6. \E g \in [0 .. n -> V] : Iterates(n, g)
    <3> HIDE DEF Iterates
    <3> QED
      BY <1>1, <2>3, <2>4, <2>5
  <2> QED
    BY <2>1, <2>6
<1> QED
  BY <1>3

\* The states lexing in advance goes through, the first and what follows each.
LexedStates(text) ==
  {v \in [types : Seq(TokenTypes), pos : 0 .. Len(text), lastChar : Classes \cup {NUL}, more : BOOLEAN] :
     GoodLexer(text, v.pos, v.lastChar)}
LexedFirst(text) ==
  [types |-> <<>>, pos |-> EmmitToken(text, 0, "space").pos,
   lastChar |-> EmmitToken(text, 0, "space").lastChar, more |-> TRUE]
LexedNext(text, r) ==
  LET s == EmmitToken(text, r.pos, r.lastChar)
  IN  IF r.more /\ s.res = "token"
      THEN [types |-> Append(r.types, s.token.type), pos |-> s.pos,
            lastChar |-> s.lastChar, more |-> s.token.type # "EOF"]
      ELSE [r EXCEPT !.more = FALSE]

LEMMA LexedStatesType ==
  ASSUME NEW text \in Seq(Classes)
  PROVE  /\ LexedFirst(text) \in LexedStates(text)
         /\ \A r \in LexedStates(text) : LexedNext(text, r) \in LexedStates(text)
<1>1. LexedFirst(text) \in LexedStates(text)
  <2>1. GoodLexer(text, 0, "space")
    BY DEF GoodLexer, Classes
  <2>2. GoodScan(text, EmmitToken(text, 0, "space"))
    BY <2>1, EmmitTokenGood
  <2> QED
    BY <2>2 DEF LexedFirst, LexedStates, GoodScan, GoodLexer
<1>2. ASSUME NEW r \in LexedStates(text) PROVE LexedNext(text, r) \in LexedStates(text)
  <2> DEFINE s == EmmitToken(text, r.pos, r.lastChar)
  <2>1. GoodScan(text, s)
    BY EmmitTokenGood DEF LexedStates
  <2>2. LexedNext(text, r) =
          IF r.more /\ s.res = "token"
          THEN [types |-> Append(r.types, s.token.type), pos |-> s.pos,
                lastChar |-> s.lastChar, more |-> s.token.type # "EOF"]
          ELSE [r EXCEPT !.more = FALSE]
    BY DEF LexedNext
  <2>3. s.token.type \in TokenTypes
    BY <2>1 DEF GoodScan, Tokens
  <2>4. Append(r.types, s.token.type) \in Seq(TokenTypes)
    BY <2>3 DEF LexedStates
  <2> HIDE DEF s
  <2>5. CASE r.more /\ s.res = "token"
    BY <2>1, <2>2, <2>4, <2>5 DEF LexedStates, GoodScan, GoodLexer
  <2>6. CASE ~(r.more /\ s.res = "token")
    BY <2>2, <2>6 DEF LexedStates
  <2> QED
    BY <2>5, <2>6
<1> QED
  BY <1>1, <1>2

\* Lexed is what its definition says.
LEMMA LexedIs ==
  ASSUME NEW text \in Seq(Classes)
  PROVE  /\ Lexed(text) = [k \in 0 .. Len(text) + 1 |->
                             IF k = 0 THEN LexedFirst(text)
                             ELSE LexedNext(text, Lexed(text)[k - 1])]
         /\ \A k \in 0 .. Len(text) + 1 : Lexed(text)[k] \in LexedStates(text)
<1> DEFINE V == LexedStates(text)
           K == Len(text) + 1
           step == [r \in V |-> LexedNext(text, r)]
<1>1. LexedFirst(text) \in V /\ step \in [V -> V] /\ K \in Nat
  BY LexedStatesType
<1>2. PICK f \in [0 .. K -> V] :
        f = [k \in 0 .. K |-> IF k = 0 THEN LexedFirst(text) ELSE step[f[k - 1]]]
  <2>1. Iteration(V, LexedFirst(text), step, K)
    BY <1>1 DEF Iteration
  <2> HIDE DEF V, K, step
  <2> QED
    BY <2>1, IterationExists
<1>3. f = [k \in 0 .. K |-> IF k = 0 THEN LexedFirst(text) ELSE LexedNext(text, f[k - 1])]
  <2>1. ASSUME NEW k \in 0 .. K, k # 0 PROVE step[f[k - 1]] = LexedNext(text, f[k - 1])
    <3>1. k - 1 \in 0 .. K
      BY <2>1
    <3>2. f[k - 1] \in V
      BY <3>1
    <3> HIDE DEF V
    <3> QED
      BY <3>2
  <2> HIDE DEF V, K, step
  <2> QED
    BY <1>2, <2>1
<1>4. Lexed(text) = [k \in 0 .. K |-> IF k = 0 THEN LexedFirst(text)
                                      ELSE LexedNext(text, Lexed(text)[k - 1])]
  BY <1>3 DEF Lexed, LexedFirst, LexedNext
<1>5. \A k \in 0 .. K : Lexed(text)[k] \in V
  <2> DEFINE Bad == {k \in 0 .. K : Lexed(text)[k] \notin V}
  <2> SUFFICES ASSUME Bad # {} PROVE FALSE
    OBVIOUS
  <2>1. PICK k \in Bad : \A j \in Bad : k <= j
    <3>1. Bad \in SUBSET Nat
      OBVIOUS
    <3> HIDE DEF Bad
    <3> QED
      BY <3>1, SmallestExists
  <2>2. k \in 0 .. K /\ Lexed(text)[k] \notin V
    OBVIOUS
  <2>3. k # 0
    BY <1>1, <1>4, <2>2
  <2>4. k - 1 \in 0 .. K /\ Lexed(text)[k] = LexedNext(text, Lexed(text)[k - 1])
    <3> HIDE DEF V, step, Bad
    <3>1. k - 1 \in 0 .. K
      BY <2>2, <2>3
    <3> HIDE DEF K
    <3>2. Lexed(text)[k] = IF k = 0 THEN LexedFirst(text) ELSE LexedNext(text, Lexed(text)[k - 1])
      BY <1>4, <2>2
    <3> QED
      BY <2>3, <3>1, <3>2
  <2>5. k - 1 \notin Bad
    <3> HIDE DEF Bad
    <3> QED
      BY <2>1, <2>2, <2>3
  <2>6. Lexed(text)[k - 1] \in V
    BY <2>4, <2>5
  <2> QED
    BY <2>2, <2>4, <2>6, LexedStatesType
<1> QED
  BY <1>4, <1>5

\* The script goes on from what has been lexed in advance, and stops with it.
LEMMA ScriptGoesOn ==
  ASSUME NEW text \in Seq(Classes), NEW k \in 0 .. Len(text) + 1
  PROVE  /\ Len(Lexed(text)[k].types) <= Len(Script(text))
         /\ \A i \in 1 .. Len(Lexed(text)[k].types) : Script(text)[i] = Lexed(text)[k].types[i]
         /\ ~Lexed(text)[k].more => Script(text) = Lexed(text)[k].types
<1> DEFINE K == Len(text) + 1
           Begins(r) == /\ Len(r.types) <= Len(Script(text))
                        /\ \A i \in 1 .. Len(r.types) : Script(text)[i] = r.types[i]
                        /\ ~r.more => Script(text) = r.types
           Bad == {d \in 0 .. K : ~Begins(Lexed(text)[K - d])}
<1>1. K \in Nat /\ Script(text) = Lexed(text)[K].types
  BY DEF Script
<1>2. \A j \in 0 .. K : Lexed(text)[j] \in LexedStates(text)
  BY LexedIs
<1>3. Script(text) \in Seq(TokenTypes)
  BY <1>1, <1>2 DEF LexedStates
<1>4. \A j \in 1 .. K : Lexed(text)[j] = LexedNext(text, Lexed(text)[j - 1])
  <2> SUFFICES ASSUME NEW j \in 1 .. K PROVE Lexed(text)[j] = LexedNext(text, Lexed(text)[j - 1])
    OBVIOUS
  <2>1. j \in 0 .. K /\ j # 0
    OBVIOUS
  <2> HIDE DEF K
  <2> QED
    BY <2>1, LexedIs DEF K
<1> HIDE DEF K
<1>5. Begins(Lexed(text)[K])
  BY <1>1, <1>3
<1>6. Bad = {}
  <2> SUFFICES ASSUME Bad # {} PROVE FALSE
    OBVIOUS
  <2>1. PICK d \in Bad : \A e \in Bad : d <= e
    <3>1. Bad \in SUBSET Nat
      BY <1>1
    <3> HIDE DEF Bad
    <3> QED
      BY <3>1, SmallestExists
  <2>2. d \in 0 .. K /\ ~Begins(Lexed(text)[K - d])
    OBVIOUS
  <2> HIDE DEF Begins
  <2>3. d # 0
    BY <1>1, <1>5, <2>2
  <2>4. d - 1 \in 0 .. K /\ d - 1 \notin Bad
    <3> HIDE DEF Bad
    <3> QED
      BY <1>1, <2>1, <2>2, <2>3
  <2> DEFINE r == Lexed(text)[K - d]
  <2>5. K - d \in 0 .. K /\ K - (d - 1) \in 1 .. K /\ K - (d - 1) - 1 = K - d
    BY <1>1, <2>2, <2>3
  <2>6. Begins(Lexed(text)[K - (d - 1)])
    BY <2>4
  <2>7. Lexed(text)[K - (d - 1)] = LexedNext(text, r)
    BY <1>4, <2>5
  <2>8. r \in LexedStates(text)
    BY <1>2, <2>5
  <2>9. Begins(LexedNext(text, r)) /\ ~Begins(r)
    BY <2>2, <2>6, <2>7
  <2> HIDE DEF r
  <2> DEFINE s == EmmitToken(text, r.pos, r.lastChar)
  <2>10. GoodScan(text, s)
    BY <2>8, EmmitTokenGood DEF LexedStates
  <2>11. LexedNext(text, r) =
           IF r.more /\ s.res = "token"
           THEN [types |-> Append(r.types, s.token.type), pos |-> s.pos,
                 lastChar |-> s.lastChar, more |-> s.token.type # "EOF"]
           ELSE [r EXCEPT !.more = FALSE]
    BY DEF LexedNext
  <2>12. s.token.type \in TokenTypes
    BY <2>10 DEF GoodScan, Tokens
  <2> HIDE DEF s
  <2>13. r.types \in Seq(TokenTypes) /\ r.more \in BOOLEAN
    BY <2>8 DEF LexedStates
  <2>14. CASE r.more /\ s.res = "token"
    <3> DEFINE u == Append(r.types, s.token.type)
    <3>1. /\ Len(u) = Len(r.types) + 1
          /\ \A i \in 1 .. Len(r.types) : u[i] = r.types[i] /\ i \in 1 .. Len(u)
      BY <2>12, <2>13
    <3> HIDE DEF u
    <3>2. Len(u) <= Len(Script(text)) /\ \A i \in 1 .. Len(u) : Script(text)[i] = u[i]
      BY <2>9, <2>11, <2>14 DEF Begins, u
    <3>3. Len(r.types) \in Nat /\ Len(Script(text)) \in Nat
      BY <1>3, <2>13
    <3> QED
      BY <2>9, <2>14, <3>1, <3>2, <3>3 DEF Begins
  <2>15. CASE ~(r.more /\ s.res = "token")
    <3>1. LexedNext(text, r).types = r.types /\ LexedNext(text, r).more = FALSE
      BY <2>8, <2>11, <2>15 DEF LexedStates
    <3> QED
      BY <2>9, <3>1 DEF Begins
  <2> QED
    BY <2>14, <2>15
<1>7. K - (K - k) = k /\ K - k \in 0 .. K
  BY <1>1 DEF K
<1>8. Begins(Lexed(text)[k])
  BY <1>6, <1>7
<1> QED
  BY <1>8

\* The tokens t are those of the script, and a lexer at p with c in hand is where the
\* lexing in advance was after as many, or, after the first EOF, at the end of the text.
OnScript(text, t, p, c) ==
  \/ /\ Len(t) <= Len(text)
     /\ p < Len(text) => Len(t) < p
     /\ Lexed(text)[Len(t)].more
     /\ Lexed(text)[Len(t)].pos = p /\ Lexed(text)[Len(t)].lastChar = c
     /\ Len(Lexed(text)[Len(t)].types) = Len(t)
     /\ \A i \in 1 .. Len(t) : Lexed(text)[Len(t)].types[i] = t[i].type
  \/ /\ p = Len(text)
     /\ \E j \in 1 .. Len(t) :
          /\ j <= Len(text) + 1
          /\ ~Lexed(text)[j].more
          /\ Len(Lexed(text)[j].types) = j /\ Lexed(text)[j].types[j] = "EOF"
          /\ \A i \in 1 .. Len(t) : t[i].type = IF i <= j THEN Lexed(text)[j].types[i] ELSE "EOF"

\* A token more leaves the tokens those of the script.
LEMMA AppendOnScript ==
  ASSUME NEW text \in Seq(Classes), NEW t \in Seq(Tokens), NEW p, NEW c, GoodLexer(text, p, c),
         OnScript(text, t, p, c), EmmitToken(text, p, c).res = "token"
  PROVE  OnScript(text, Append(t, EmmitToken(text, p, c).token),
                  EmmitToken(text, p, c).pos, EmmitToken(text, p, c).lastChar)
<1> DEFINE s == EmmitToken(text, p, c)
           u == Append(t, s.token)
           n == Len(t)
<1> SUFFICES OnScript(text, u, s.pos, s.lastChar)
  OBVIOUS
<1>1. GoodScan(text, s) /\ Tiles(text, p, c, s) /\ s.res = "token"
  BY EmmitTokenGood, EmmitTokenTiles
<1>2. p = Len(text) => s.lastChar = c
  BY DEF EmmitToken, Scanned
<1>3. \A r : r.pos = p /\ r.lastChar = c /\ r.more =>
        LexedNext(text, r) = [types |-> Append(r.types, s.token.type), pos |-> s.pos,
                              lastChar |-> s.lastChar, more |-> s.token.type # "EOF"]
  BY <1>1 DEF LexedNext
<1> HIDE DEF s
<1>4. /\ p \in 0 .. Len(text) /\ s.pos \in 0 .. Len(text) /\ s.token \in Tokens
      /\ s.token.type \in TokenTypes /\ Len(text) \in Nat
  BY <1>1 DEF GoodScan, GoodLexer, Tokens
<1>5. /\ n \in Nat /\ Len(u) = n + 1 /\ u[n + 1] = s.token
      /\ \A i \in 1 .. n : u[i] = t[i]
  BY <1>4
<1> HIDE DEF u, n
<1>6. \A k \in 0 .. Len(text) : Lexed(text)[k + 1] = LexedNext(text, Lexed(text)[k])
  <2> SUFFICES ASSUME NEW k \in 0 .. Len(text)
               PROVE  Lexed(text)[k + 1] = LexedNext(text, Lexed(text)[k])
    OBVIOUS
  <2>1. k + 1 \in 0 .. Len(text) + 1 /\ k + 1 # 0 /\ k + 1 - 1 = k
    OBVIOUS
  <2> QED
    BY <2>1, LexedIs
<1>7. CASE /\ n <= Len(text)
           /\ p < Len(text) => n < p
           /\ Lexed(text)[n].more
           /\ Lexed(text)[n].pos = p /\ Lexed(text)[n].lastChar = c
           /\ Len(Lexed(text)[n].types) = n
           /\ \A i \in 1 .. n : Lexed(text)[n].types[i] = t[i].type
  <2> DEFINE r == Lexed(text)[n]
             q == Lexed(text)[n + 1]
             v == Append(r.types, s.token.type)
  <2>1. q = LexedNext(text, r) /\ r \in LexedStates(text)
    <3>1. n \in 0 .. Len(text) /\ n \in 0 .. Len(text) + 1
      BY <1>4, <1>5, <1>7
    <3> QED
      BY <1>6, <3>1, LexedIs
  <2>2. q = [types |-> v, pos |-> s.pos, lastChar |-> s.lastChar, more |-> s.token.type # "EOF"]
    BY <1>3, <1>7, <2>1
  <2>3. /\ q.types = v /\ q.pos = s.pos /\ q.lastChar = s.lastChar
        /\ q.more = (s.token.type # "EOF")
    BY <2>2
  <2>4. r.types \in Seq(TokenTypes)
    BY <2>1 DEF LexedStates
  <2> HIDE DEF q
  <2>5. /\ Len(v) = n + 1 /\ v[n + 1] = s.token.type
        /\ \A i \in 1 .. n : v[i] = t[i].type
    BY <1>4, <1>5, <1>7, <2>4
  <2> HIDE DEF v, r
  <2>6. \A i \in 1 .. n + 1 : v[i] = u[i].type
    BY <1>5, <2>5
  <2>7. CASE s.token.type = "EOF"
    <3>1. s.pos = Len(text)
      BY <1>1, <2>7 DEF Tiles
    <3>2. n + 1 \in 1 .. Len(u) /\ n + 1 <= Len(text) + 1
      BY <1>4, <1>5, <1>7
    <3>3. ~q.more /\ Len(q.types) = n + 1 /\ q.types[n + 1] = "EOF"
      BY <2>3, <2>5, <2>7
    <3>4. \A i \in 1 .. Len(u) : u[i].type = IF i <= n + 1 THEN q.types[i] ELSE "EOF"
      BY <1>5, <2>3, <2>6
    <3> QED
      BY <3>1, <3>2, <3>3, <3>4 DEF OnScript, q
  <2>8. CASE s.token.type # "EOF"
    <3>1. p < Len(text)
      BY <1>1, <1>4, <2>8 DEF Tiles
    <3>2. n < p
      BY <1>7, <3>1
    <3>3. n + 1 <= Len(text)
      BY <1>4, <1>5, <3>1, <3>2
    <3>4. s.pos < Len(text) => n + 1 < s.pos
      <4>1. s.token.from \in Nat /\ s.token.to \in Nat /\ p <= s.token.from
            /\ s.token.from < s.token.to
        BY <1>1, <1>4, <2>8 DEF Tiles, Tokens
      <4>2. s.pos < Len(text) => s.token.to = s.pos
        BY <1>1, <1>4 DEF Tiles
      <4> QED
        BY <1>4, <1>5, <3>2, <4>1, <4>2
    <3>5. q.more /\ Len(q.types) = n + 1
      BY <2>3, <2>5, <2>8
    <3> QED
      BY <1>5, <2>3, <2>6, <3>3, <3>4, <3>5 DEF OnScript, q
  <2> QED
    BY <2>7, <2>8
<1>8. CASE /\ p = Len(text)
           /\ \E j \in 1 .. n :
                /\ j <= Len(text) + 1
                /\ ~Lexed(text)[j].more
                /\ Len(Lexed(text)[j].types) = j /\ Lexed(text)[j].types[j] = "EOF"
                /\ \A i \in 1 .. n : t[i].type = IF i <= j THEN Lexed(text)[j].types[i] ELSE "EOF"
  <2>1. s.token.type = "EOF" /\ s.pos = Len(text)
    BY <1>1, <1>8 DEF Tiles
  <2>2. PICK j \in 1 .. n :
          /\ j <= Len(text) + 1
          /\ ~Lexed(text)[j].more
          /\ Len(Lexed(text)[j].types) = j /\ Lexed(text)[j].types[j] = "EOF"
          /\ \A i \in 1 .. n : t[i].type = IF i <= j THEN Lexed(text)[j].types[i] ELSE "EOF"
    BY <1>8
  <2>3. j \in 1 .. Len(u)
    BY <1>5
  <2>4. \A i \in 1 .. Len(u) : u[i].type = IF i <= j THEN Lexed(text)[j].types[i] ELSE "EOF"
    <3> SUFFICES ASSUME NEW i \in 1 .. n + 1
                 PROVE  u[i].type = IF i <= j THEN Lexed(text)[j].types[i] ELSE "EOF"
      BY <1>5
    <3>1. CASE i \in 1 .. n
      BY <1>5, <2>2, <3>1
    <3>2. CASE i = n + 1
      <4>1. ~(i <= j)
        BY <1>5, <3>2
      <4> QED
        BY <1>5, <2>1, <3>2, <4>1
    <3> QED
      BY <1>5, <3>1, <3>2
  <2> QED
    BY <2>1, <2>2, <2>3, <2>4 DEF OnScript
<1> QED
  BY <1>7, <1>8 DEF OnScript, n

-----------------------------------------------------------------------------
(* The tiling of the text, through the queue.                              *)

\* Token a is not empty, and b may follow it.
Seam(a, b) ==
  /\ a.type # "EOF" => a.from < a.to
  /\ \/ a.to = b.from
     \/ a.to < b.from /\ input[a.to] = "hash" /\ b.type \in {"NEWLINE", "EOF"}
     \/ a.to = Len(input) + 1 /\ b.from = Len(input) /\ b.type = "EOF"

\* The tokens in t tile the text, and a lexer at p with c in hand goes on where the
\* last of them ends, and as lexing the whole text in advance would.
Tiled(t) == \A i \in 1 .. Len(t) - 1 : Seam(t[i], t[i + 1])
GoesOn(t, p, c) ==
  /\ InHand(input, p, c)
  /\ OnScript(input, t, p, c)
  /\ t # <<>> =>
       /\ t[Len(t)].type # "EOF" => t[Len(t)].from < t[Len(t)].to
       /\ \/ t[Len(t)].to = p
          \/ t[Len(t)].to = Len(input) + 1 /\ p = Len(input)

TiledQueue(q) == Tiled(q.tokens) /\ GoesOn(q.tokens, q.pos, q.lastChar)

\* A token more, from where the lexer stood, leaves the text tiled.
LEMMA AppendTiles ==
  ASSUME input \in Seq(Classes), NEW t \in Seq(Tokens), NEW p, NEW c, GoodLexer(input, p, c),
         Tiled(t), GoesOn(t, p, c), NEW s, GoodScan(input, s), Tiles(input, p, c, s),
         OnScript(input, Append(t, s.token), s.pos, s.lastChar)
  PROVE  /\ Tiled(Append(t, s.token))
         /\ GoesOn(Append(t, s.token), s.pos, s.lastChar)
<1> DEFINE u == Append(t, s.token)
<1>1. s.token \in Tokens /\ p \in 0 .. Len(input) /\ s.pos \in 0 .. Len(input)
  BY DEF GoodScan, GoodLexer
<1>2. /\ u \in Seq(Tokens) /\ Len(u) = Len(t) + 1 /\ u[Len(t) + 1] = s.token
      /\ \A i \in 1 .. Len(t) : u[i] = t[i]
  BY <1>1
<1> HIDE DEF u
<1>3. GoesOn(u, s.pos, s.lastChar)
  BY <1>2 DEF GoesOn, Tiles, u
<1>4. ASSUME NEW i \in 1 .. Len(u) - 1 PROVE Seam(u[i], u[i + 1])
  <2>1. CASE i < Len(t)
    <3>1. i \in 1 .. Len(t) - 1 /\ i + 1 \in 1 .. Len(t)
      BY <1>2, <2>1
    <3> QED
      BY <1>2, <3>1 DEF Tiled
  <2>2. CASE i = Len(t)
    <3>1. t # <<>> /\ i \in 1 .. Len(t) /\ u[i] = t[Len(t)] /\ u[i + 1] = s.token
      BY <1>2, <2>2
    <3>2. t[Len(t)] \in Tokens
      BY <2>2, <3>1
    <3> DEFINE a == t[Len(t)]
               b == s.token
    <3>3. a.to \in Nat /\ b.from \in Nat
      BY <1>1, <3>2 DEF Tokens
    <3>4. /\ a.type # "EOF" => a.from < a.to
          /\ \/ a.to = p
             \/ a.to = Len(input) + 1 /\ p = Len(input)
      BY <3>1 DEF GoesOn
    <3>5. /\ \/ b.from = p
             \/ p < b.from /\ c = "hash" /\ b.type \in {"NEWLINE", "EOF"}
          /\ p = Len(input) => b.type = "EOF" /\ b.from = p
      BY DEF Tiles
    <3>6. p < Len(input) => c = input[p]
      BY DEF GoesOn, InHand
    <3> HIDE DEF a, b
    <3>7. Seam(a, b)
      BY <1>1, <3>3, <3>4, <3>5, <3>6 DEF Seam
    <3> QED
      BY <3>1, <3>7 DEF a, b
  <2> QED
    BY <1>2, <2>1, <2>2
<1> QED
  BY <1>3, <1>4 DEF Tiled, u

\* Reading on keeps the text tiled.  When the lexer stops, no token has been added
\* since the last one.
LEMMA GetNextTokenTiles ==
  ASSUME input \in Seq(Classes), NEW q, GoodQueue(q), TiledQueue(q)
  PROVE  /\ Tiled(GetNextToken(q).tokens)
         /\ GetNextToken(q).res = "token" => TiledQueue(GetNextToken(q))
<1> DEFINE k == q.ptr + 1
           s == EmmitToken(input, q.pos, q.lastChar)
           n == GetNextToken(q)
<1>1. CASE k < Len(q.tokens)
  <2>1. n.tokens = q.tokens /\ n.pos = q.pos /\ n.lastChar = q.lastChar
    BY <1>1 DEF GetNextToken, GoodQueue
  <2> QED
    BY <2>1 DEF TiledQueue
<1>2. CASE ~(k < Len(q.tokens))
  <2>1. q.tokens \in Seq(Tokens) /\ GoodLexer(input, q.pos, q.lastChar)
    BY DEF GoodQueue
  <2>2. GoodScan(input, s)
    BY <2>1, EmmitTokenGood
  <2>3. s.res = "token" =>
          /\ Tiles(input, q.pos, q.lastChar, s)
          /\ OnScript(input, Append(q.tokens, s.token), s.pos, s.lastChar)
    <3>1. OnScript(input, q.tokens, q.pos, q.lastChar)
      BY DEF TiledQueue, GoesOn
    <3> QED
      BY <2>1, <3>1, EmmitTokenTiles, AppendOnScript
  <2> HIDE DEF s
  <2>4. n = [tokens |-> IF s.res = "token" THEN Append(q.tokens, s.token) ELSE q.tokens,
             ptr |-> k, pos |-> s.pos, lastChar |-> s.lastChar, res |-> s.res]
    BY <1>2 DEF GetNextToken, s
  <2>5. s.res = "token" =>
          /\ Tiled(Append(q.tokens, s.token))
          /\ GoesOn(Append(q.tokens, s.token), s.pos, s.lastChar)
    BY <2>1, <2>2, <2>3, AppendTiles DEF TiledQueue
  <2>6. /\ n.tokens = IF s.res = "token" THEN Append(q.tokens, s.token) ELSE q.tokens
        /\ n.pos = s.pos /\ n.lastChar = s.lastChar /\ n.res = s.res
    BY <2>4
  <2> HIDE DEF n
  <2> QED
    BY <2>5, <2>6 DEF TiledQueue, n
<1> QED
  BY <1>1, <1>2

LEMMA NextLexerTokenTiles ==
  ASSUME input \in Seq(Classes), NEW q, GoodQueue(q), TiledQueue(q), NEW skip \in BOOLEAN
  PROVE  /\ Tiled(NextLexerToken(q, skip).tokens)
         /\ NextLexerToken(q, skip).res = "token" => TiledQueue(NextLexerToken(q, skip))
<1> DEFINE n == GetNextToken(q)
<1>1. Tiled(n.tokens) /\ (n.res = "token" => TiledQueue(n))
  BY GetNextTokenTiles
<1>2. ReadsOn(q, n)
  BY GetNextTokenReadsOn
<1>3. CASE skip /\ n.res = "token" /\ Type(n) = "SPACES"
  <2>1. GoodQueue(n) /\ TiledQueue(n)
    BY <1>1, <1>2, <1>3 DEF ReadsOn
  <2>2. NextLexerToken(q, skip) = GetNextToken(n)
    BY <1>3 DEF NextLexerToken
  <2> HIDE DEF n
  <2> QED
    BY <2>1, <2>2, GetNextTokenTiles
<1>4. CASE ~(skip /\ n.res = "token" /\ Type(n) = "SPACES")
  <2>1. NextLexerToken(q, skip) = n
    BY <1>4 DEF NextLexerToken
  <2> HIDE DEF n
  <2> QED
    BY <1>1, <2>1
<1> QED
  BY <1>3, <1>4

\* The tokens always tile the text, and while more may be lexed the lexer goes on where
\* the last one ends.  After an error or a hang it does not, and lexes no more.
Tiling ==
  /\ Tiled(tokens)
  /\ mode \in {"newParser", "parsing"} => GoesOn(tokens, pos, lastChar)
  /\ mode = "newLexer" => pos = 0 /\ lastChar = "space"

\* A step that ends with what q holds, the parser going on only with a token.
LEMMA TilingFrom ==
  ASSUME NEW q, Tiled(q.tokens), q.res = "token" => TiledQueue(q), UNCHANGED input,
         tokens' = q.tokens, mode' # "newLexer",
         mode' \in {"newParser", "parsing"} =>
           q.res = "token" /\ pos' = q.pos /\ lastChar' = q.lastChar
  PROVE  Tiling'
<1>1. Tiled(tokens)'
  BY DEF Tiled, Seam
<1>2. ASSUME mode' \in {"newParser", "parsing"} PROVE GoesOn(tokens, pos, lastChar)'
  BY <1>2 DEF TiledQueue, GoesOn, InHand
<1> QED
  BY <1>1, <1>2 DEF Tiling

\* A step that lexes nothing.
LEMMA TilingStays ==
  ASSUME Tiling, UNCHANGED <<input, lexer>>, mode' # "newLexer",
         mode' \in {"newParser", "parsing"} => mode \in {"newParser", "parsing"}
  PROVE  Tiling'
BY DEF Tiling, Tiled, Seam, GoesOn, InHand, lexer

\* What Continue leaves of a queue that was read on.
LEMMA TilingContinues ==
  ASSUME IInv, NEW q, ReadsOn(Queue, q), Tiled(q.tokens), q.res = "token" => TiledQueue(q),
         mode = "parsing", Continue(q), UNCHANGED input
  PROVE  Tiling'
<1>1. /\ \A i \in DOMAIN frames : frames[i].mark \in 0 .. Len(tokens) - 1
      /\ tokens \in Seq(Tokens) /\ frames \in Seq(Frames)
  BY QueueIsGood DEF IInv, TypeOK
<1>2. q.tokens \in Seq(Tokens) /\ Len(q.tokens) >= Len(tokens)
  BY DEF ReadsOn, Queue
<1>3. CASE q.res = "token"
  <2>1. Becomes(q) /\ mode' = "parsing"
    BY <1>3 DEF Continue
  <2> QED
    BY <1>3, <2>1, TilingFrom DEF Becomes
<1>4. CASE q.res = "hung"
  <2>1. Becomes(q) /\ mode' = "hung"
    BY <1>4 DEF Continue
  <2> QED
    BY <1>4, <2>1, TilingFrom DEF Becomes
<1>5. CASE q.res = "lexError"
  <2>1. Unwound(q)
    BY <1>5 DEF Continue
  <2>2. mode' \in {"lexError", "terminate"}
    BY <2>1 DEF Unwound
  <2>3. tokens' = q.tokens
    <3>1. CASE Guards = {}
      BY <2>1, <3>1 DEF Unwound, Becomes
    <3>2. CASE Guards # {}
      <4> DEFINE outermost == CHOOSE i \in Guards : \A j \in Guards : i <= j
      <4>1. Guards \in SUBSET Nat
        BY <1>1 DEF Guards
      <4>2. outermost \in Guards
        BY <3>2, <4>1, SmallestExists
      <4>3. Becomes(RewindTo([q EXCEPT !.res = "token"], frames[outermost].mark))
        BY <2>1, <3>2 DEF Unwound
      <4> HIDE DEF outermost
      <4>4. frames[outermost].mark \in 0 .. Len(q.tokens) - 1
        BY <1>1, <1>2, <4>2 DEF Guards
      <4>5. [q EXCEPT !.res = "token"]
              = [tokens |-> q.tokens, ptr |-> q.ptr, pos |-> q.pos, lastChar |-> q.lastChar,
                 res |-> "token"]
        BY DEF ReadsOn
      <4>6. RewindTo([q EXCEPT !.res = "token"], frames[outermost].mark)
              = [tokens |-> q.tokens, ptr |-> frames[outermost].mark, pos |-> q.pos,
                 lastChar |-> q.lastChar, res |-> "token"]
        BY <1>2, <4>4, <4>5, RewindToMark
      <4> QED
        BY <4>3, <4>6 DEF Becomes
    <3> QED
      BY <3>1, <3>2
  <2> QED
    BY <1>5, <2>2, <2>3, TilingFrom
<1> QED
  BY <1>3, <1>4, <1>5 DEF Continue

\* Every step keeps the text tiled.
LEMMA TilingStep ==
  ASSUME IInv, Tiling, Next
  PROVE  Tiling'
<1>1. ASSUME mode \in {"newParser", "parsing"}
      PROVE  input \in Seq(Classes) /\ GoodQueue(Queue) /\ TiledQueue(Queue)
  BY <1>1, QueueIsGood DEF Tiling, TiledQueue, Queue
<1>2. ASSUME NewLexer PROVE Tiling'
  <2> DEFINE s == EmmitToken(input, pos, lastChar)
  <2>1. input \in Seq(Classes) /\ GoodLexer(input, pos, lastChar)
    BY TokenStreamAssumption DEF IInv, TypeOK
  <2>2. GoodScan(input, s) /\ (s.res = "token" => Tiles(input, pos, lastChar, s))
    BY <2>1, EmmitTokenGood, EmmitTokenTiles
  <2>3. s.res = "token" /\ OnScript(input, <<>>, s.pos, s.lastChar)
    <3>1. pos = 0 /\ lastChar = "space"
      BY <1>2 DEF NewLexer, Tiling
    <3>2. s.res = "token"
      BY <3>1 DEF EmmitToken, Scanned, Ends, Quotes
    <3>3. Lexed(input)[0] = [types |-> <<>>, pos |-> s.pos, lastChar |-> s.lastChar, more |-> TRUE]
      <4>1. 0 \in 0 .. Len(input) + 1
        BY <2>1
      <4>2. Lexed(input)[0] = LexedFirst(input)
        BY <2>1, <4>1, LexedIs
      <4> QED
        BY <3>1, <4>2 DEF LexedFirst
    <3> HIDE DEF s
    <3>4. s.pos < Len(input) => 0 < s.pos
      BY <2>1, <2>2, <3>2 DEF Tiles, InHand, GoodScan, GoodLexer
    <3> QED
      BY <2>1, <3>2, <3>3, <3>4 DEF OnScript
  <2>4. /\ mode' = "newParser" /\ pos' = s.pos /\ lastChar' = s.lastChar
        /\ UNCHANGED <<input, tokens>> /\ tokens = <<>>
    BY <1>2 DEF NewLexer, IInv, NotStarted
  <2> HIDE DEF s
  <2> QED
    BY <2>2, <2>3, <2>4 DEF Tiling, Tiled, GoesOn, Tiles, InHand
<1>3. ASSUME NewParser PROVE Tiling'
  <2>1. mode = "newParser"
    BY <1>3 DEF NewParser
  <2> DEFINE q == GetNextToken(Queue)
  <2>2. Tiled(q.tokens) /\ (q.res = "token" => TiledQueue(q))
    BY <1>1, <2>1, GetNextTokenTiles
  <2>3. q.res \in {"token", "lexError", "hung"}
    BY <1>1, <2>1, GetNextTokenReadsOn DEF ReadsOn
  <2>4. /\ Becomes(q) /\ UNCHANGED input
        /\ q.res = "token" => mode' = "parsing"
        /\ q.res = "lexError" => mode' = "terminate"
        /\ q.res = "hung" => mode' = "hung"
    BY <1>3 DEF NewParser
  <2> HIDE DEF q
  <2> QED
    BY <2>2, <2>3, <2>4, TilingFrom DEF Becomes
<1>4. ASSUME NEW skip \in BOOLEAN, Advance(skip) PROVE Tiling'
  <2>1. mode = "parsing" /\ UNCHANGED input /\ Continue(NextLexerToken(Queue, skip))
    BY <1>4 DEF Advance
  <2> DEFINE q == NextLexerToken(Queue, skip)
  <2>2. ReadsOn(Queue, q)
    BY <1>1, <2>1, NextLexerTokenReadsOn
  <2>3. Tiled(q.tokens) /\ (q.res = "token" => TiledQueue(q))
    BY <1>1, <2>1, NextLexerTokenTiles
  <2> HIDE DEF q
  <2> QED
    BY <2>1, <2>2, <2>3, TilingContinues DEF q
<1>5. ASSUME NEW i \in DOMAIN frames, mode = "parsing",
             Continue(RewindTo(Queue, frames[i].mark)), UNCHANGED input
      PROVE  Tiling'
  <2> DEFINE k == frames[i].mark
  <2>1. k \in 0 .. Len(tokens) - 1 /\ tokens \in Seq(Tokens)
    BY <1>5, QueueIsGood DEF IInv, TypeOK
  <2>2. RewindTo(Queue, k) = [tokens |-> tokens, ptr |-> k, pos |-> pos, lastChar |-> lastChar,
                              res |-> "token"]
    BY <2>1, RewindToMark DEF Queue
  <2>3. UNCHANGED <<lexer, mode>>
    BY <1>5, <2>2 DEF Continue, Becomes, lexer
  <2> QED
    BY <1>5, <2>3, TilingStays
<1>6. ASSUME GoBack PROVE Tiling'
  <2>1. Len(frames) \in DOMAIN frames
    BY <1>6 DEF GoBack, IInv, TypeOK
  <2> QED
    BY <1>5, <1>6, <2>1 DEF GoBack
<1>7. ASSUME Fail PROVE Tiling'
  <2>1. CASE Guards = {}
    BY <1>7, <2>1, TilingStays DEF Fail, lexer
  <2>2. CASE Guards # {}
    <3> DEFINE innermost == CHOOSE i \in Guards : \A j \in Guards : j <= i
    <3>1. innermost \in DOMAIN frames
      BY <2>2, InnermostExists DEF Guards, IInv, TypeOK
    <3>2. Continue(RewindTo(Queue, frames[innermost].mark)) /\ mode = "parsing" /\ UNCHANGED input
      BY <1>7, <2>2 DEF Fail
    <3> HIDE DEF innermost
    <3> QED
      BY <1>5, <3>1, <3>2
  <2> QED
    BY <2>1, <2>2
<1>8. ASSUME NEW guard \in BOOLEAN, Enter(guard) PROVE Tiling'
  BY <1>8, TilingStays DEF Enter, lexer
<1>9. ASSUME Leave \/ Finish PROVE Tiling'
  BY <1>9, TilingStays DEF Leave, Finish, lexer
<1> QED
  BY <1>2, <1>3, <1>4, <1>6, <1>7, <1>8, <1>9 DEF Next

-----------------------------------------------------------------------------
(* The cursor.                                                             *)

\* Every token lexed is the one the script has there, and the script can be read as far.
LEMMA TokensAreTheScripts ==
  ASSUME IInv, Tiling, mode \in {"newParser", "parsing"}, NEW k \in 0 .. Len(tokens) - 1
  PROVE  Cursor!Readable(k) /\ tokens[k + 1].type = Cursor!ScriptAt(k)
<1> DEFINE text == input
           n == Len(tokens)
           script == Script(text)
<1>1. text \in Seq(Classes) /\ tokens \in Seq(Tokens) /\ input \in Inputs
  BY TokenStreamAssumption DEF IInv, TypeOK
<1>2. ScriptOf[input] = script
  BY <1>1 DEF ScriptOf
<1>3. OnScript(text, tokens, pos, lastChar)
  BY DEF Tiling, GoesOn
<1>4. Len(script) \in Nat
  <2>1. Len(text) + 1 \in 0 .. Len(text) + 1
    BY <1>1
  <2>2. Lexed(text)[Len(text) + 1] \in LexedStates(text)
    BY <1>1, <2>1, LexedIs
  <2> QED
    BY <2>2 DEF Script, LexedStates
<1> HIDE DEF text, script
<1> SUFFICES /\ k < Len(script) \/ (script # <<>> /\ script[Len(script)] = "EOF")
             /\ tokens[k + 1].type = IF k < Len(script) THEN script[k + 1] ELSE "EOF"
  BY <1>2 DEF Cursor!Readable, Cursor!ScriptAt
<1>5. CASE /\ n <= Len(text)
           /\ Len(Lexed(text)[n].types) = n
           /\ \A i \in 1 .. n : Lexed(text)[n].types[i] = tokens[i].type
  <2>1. n \in 0 .. Len(text) + 1
    BY <1>1, <1>5
  <2>2. /\ Len(Lexed(text)[n].types) <= Len(script)
        /\ \A i \in 1 .. Len(Lexed(text)[n].types) : script[i] = Lexed(text)[n].types[i]
    BY <1>1, <2>1, ScriptGoesOn DEF script
  <2>3. k + 1 \in 1 .. n
    BY <1>1
  <2> QED
    BY <1>4, <1>5, <2>2, <2>3
<1>6. CASE \E j \in 1 .. n :
             /\ j <= Len(text) + 1
             /\ ~Lexed(text)[j].more
             /\ Len(Lexed(text)[j].types) = j /\ Lexed(text)[j].types[j] = "EOF"
             /\ \A i \in 1 .. n : tokens[i].type = IF i <= j THEN Lexed(text)[j].types[i] ELSE "EOF"
  <2>1. PICK j \in 1 .. n :
             /\ j <= Len(text) + 1
             /\ ~Lexed(text)[j].more
             /\ Len(Lexed(text)[j].types) = j /\ Lexed(text)[j].types[j] = "EOF"
             /\ \A i \in 1 .. n : tokens[i].type = IF i <= j THEN Lexed(text)[j].types[i] ELSE "EOF"
    BY <1>6
  <2>2. j \in 0 .. Len(text) + 1
    BY <1>1, <2>1
  <2>3. script = Lexed(text)[j].types
    BY <1>1, <2>1, <2>2, ScriptGoesOn DEF script
  <2>4. k + 1 \in 1 .. n
    BY <1>1
  <2>5. Len(script) = j /\ script[j] = "EOF" /\ script # <<>>
    BY <2>1, <2>3
  <2> QED
    BY <2>1, <2>3, <2>4, <2>5
<1> QED
  BY <1>3, <1>5, <1>6 DEF OnScript

TokensOnScript ==
  mode \in {"newParser", "parsing"} =>
    \A k \in 0 .. Len(tokens) - 1 :
      Cursor!Readable(k) /\ tokens[k + 1].type = Cursor!ScriptAt(k)

LEMMA TokensStayOnScript == IInv /\ Tiling => TokensOnScript
BY TokensAreTheScripts DEF TokensOnScript

LEMMA TokensStayOnScriptNext == (IInv /\ Tiling => TokensOnScript)'
BY TokensStayOnScript, PTL

\* The parser, when it goes on, holds the token of the script the cursor stands at.
LEMMA CursorSees ==
  ASSUME IInv', Tiling', mode' = "parsing"
  PROVE  Cursor!Readable(ptr)' /\ current' = Cursor!ScriptAt(ptr)' /\ ptr' \in Nat
<1>1. TokensOnScript'
  BY TokensStayOnScriptNext
<1>2. ptr' \in 0 .. Len(tokens') - 1 /\ current' = tokens'[ptr' + 1].type /\ tokens' \in Seq(Tokens)
  BY DEF IInv, TokenInHand, TypeOK
<1> QED
  BY <1>1, <1>2 DEF TokensOnScript

\* What each step of the parser is to the cursor.
LEMMA CloseRefines ==
  ASSUME IInv, UNCHANGED input, mode' \in Ended
  PROVE  Cursor!Close
BY DEF Cursor!Close, Ended

LEMMA MarksAreSeq ==
  ASSUME frames \in Seq(Frames)
  PROVE  /\ [j \in DOMAIN frames |-> frames[j].mark] \in Seq(Nat)
         /\ Len([j \in DOMAIN frames |-> frames[j].mark]) = Len(frames)
<1> DEFINE n == Len(frames)
           marks == [j \in 1 .. n |-> frames[j].mark]
<1>1. n \in Nat /\ DOMAIN frames = 1 .. n
  OBVIOUS
<1>2. \A j \in 1 .. n : frames[j].mark \in Nat
  <2>1. \A j \in 1 .. n : frames[j] \in Frames
    OBVIOUS
  <2> QED
    BY <2>1 DEF Frames
<1> HIDE DEF n
<1>3. marks \in [1 .. n -> Nat]
  BY <1>2
<1> HIDE DEF marks
<1>4. marks \in Seq(Nat) /\ Len(marks) = n
  BY <1>1, <1>3
<1> QED
  BY <1>1, <1>4 DEF marks, n

LEMMA BackRefines ==
  ASSUME IInv, IInv', Tiling, Tiling', mode = "parsing", NEW i \in DOMAIN frames,
         Continue(RewindTo(Queue, frames[i].mark)), frames' = SubSeq(frames, 1, i - 1),
         UNCHANGED input
  PROVE  Cursor!CursorNext
<1> DEFINE k == frames[i].mark
<1>1. tokens \in Seq(Tokens) /\ frames \in Seq(Frames) /\ k \in 0 .. Len(tokens) - 1
  BY QueueIsGood DEF IInv, TypeOK
<1>2. RewindTo(Queue, k) = [tokens |-> tokens, ptr |-> k, pos |-> pos, lastChar |-> lastChar,
                            res |-> "token"]
  BY <1>1, RewindToMark DEF Queue
<1>3. mode' = "parsing" /\ ptr' = k
  BY <1>2 DEF Continue, Becomes
<1>4. current' = Cursor!ScriptAt(k)
  BY <1>3, CursorSees DEF Cursor!ScriptAt
<1> DEFINE marks == [j \in DOMAIN frames |-> frames[j].mark]
<1>5. [j \in DOMAIN frames' |-> frames'[j].mark] = SubSeq(marks, 1, i - 1)
  <2>1. /\ DOMAIN frames = 1 .. Len(frames) /\ i \in 1 .. Len(frames)
        /\ DOMAIN frames' = 1 .. i - 1 /\ \A j \in 1 .. i - 1 : frames'[j] = frames[j]
    BY <1>1
  <2>2. marks \in Seq(Nat) /\ Len(marks) = Len(frames)
    BY <1>1, MarksAreSeq
  <2>3. SubSeq(marks, 1, i - 1) = [j \in 1 .. i - 1 |-> marks[j]]
    BY <2>1, <2>2
  <2>4. \A j \in 1 .. i - 1 : marks[j] = frames'[j].mark
    BY <2>1
  <2> HIDE DEF marks
  <2> QED
    BY <2>1, <2>3, <2>4
<1>6. Cursor!Back(i)
  BY <1>3, <1>4, <1>5 DEF Cursor!Back
<1> QED
  BY <1>6 DEF Cursor!CursorNext

LEMMA AdvanceRefines ==
  ASSUME IInv, IInv', Tiling', NEW skip \in BOOLEAN, Advance(skip)
  PROVE  Cursor!CursorNext
<1> DEFINE q == NextLexerToken(Queue, skip)
<1>1. mode = "parsing" /\ UNCHANGED input /\ Continue(q)
      /\ frames' = IF q.res = "token" THEN frames ELSE <<>>
  BY DEF Advance
<1>2. q.res \in {"token", "lexError", "hung"}
  BY <1>1, QueueIsGood, NextLexerTokenReadsOn DEF ReadsOn
<1>3. q.ptr \in {ptr + 1, ptr + 2}
  <2>1. \A r : r = [r EXCEPT !.ptr = r.ptr] => GetNextToken(r).ptr = r.ptr + 1
    BY DEF GetNextToken
  <2> DEFINE n == GetNextToken(Queue)
  <2>2. ReadsOn(Queue, n)
    BY <1>1, QueueIsGood, GetNextTokenReadsOn
  <2>3. n.ptr = ptr + 1
    BY DEF GetNextToken, Queue
  <2>4. GetNextToken(n).ptr = n.ptr + 1
    <3> HIDE DEF n
    <3> QED
      BY <2>2 DEF ReadsOn, GetNextToken
  <2>5. q \in {n, GetNextToken(n)}
    BY DEF NextLexerToken
  <2>6. ptr \in Int
    BY DEF IInv, TypeOK
  <2> HIDE DEF n, q
  <2> QED
    BY <2>3, <2>4, <2>5, <2>6
<1> HIDE DEF q
<1>4. CASE q.res = "token"
  <2>1. ptr' \in {ptr + 1, ptr + 2} /\ UNCHANGED <<mode, frames, input>>
    BY <1>1, <1>3, <1>4 DEF Continue, Becomes
  <2>2. Cursor!Readable(ptr)' /\ current' = Cursor!ScriptAt(ptr)'
    BY <1>1, <2>1, CursorSees
  <2>3. Cursor!Readable(ptr') /\ current' = Cursor!ScriptAt(ptr')
    BY <2>1, <2>2 DEF Cursor!Readable, Cursor!ScriptAt
  <2>4. ASSUME NEW m \in {1, 2}, ptr' = ptr + m PROVE Cursor!Forward(m)
    BY <1>1, <2>1, <2>3, <2>4 DEF Cursor!Forward
  <2> QED
    BY <2>1, <2>4 DEF Cursor!CursorNext
<1>5. CASE q.res # "token"
  <2>1. mode' \in Ended
    BY <1>1, <1>2, <1>5 DEF Continue, Unwound, Ended
  <2> QED
    BY <1>1, <2>1, CloseRefines DEF Cursor!CursorNext
<1> QED
  BY <1>4, <1>5

LEMMA EnterRefines ==
  ASSUME IInv, NEW guard \in BOOLEAN, Enter(guard)
  PROVE  Cursor!Mark
<1> DEFINE f == [guard |-> guard, mark |-> ptr, saw |-> current]
           marks == [j \in DOMAIN frames |-> frames[j].mark]
<1>1. /\ mode = "parsing" /\ frames' = Append(frames, f)
      /\ UNCHANGED <<input, ptr, current, mode>>
  BY DEF Enter
<1>2. frames \in Seq(Frames) /\ ptr \in Nat /\ current \in TokenTypes
  BY <1>1 DEF IInv, TypeOK, TokenInHand
<1>3. f \in Frames /\ f.mark = ptr
  BY <1>2 DEF Frames
<1>4. [j \in DOMAIN frames' |-> frames'[j].mark] = Append(marks, ptr)
  <2> HIDE DEF f
  <2>1. /\ DOMAIN frames = 1 .. Len(frames) /\ Len(frames) \in Nat
        /\ DOMAIN frames' = 1 .. Len(frames) + 1 /\ frames'[Len(frames) + 1] = f
        /\ \A j \in 1 .. Len(frames) : frames'[j] = frames[j]
    BY <1>1, <1>2, <1>3
  <2>2. marks \in Seq(Nat) /\ Len(marks) = Len(frames)
    BY <1>2, MarksAreSeq
  <2>3. \A j \in 1 .. Len(frames) : marks[j] = frames'[j].mark
    BY <2>1
  <2> HIDE DEF marks
  <2> DEFINE w == Append(marks, ptr)
  <2>4. /\ w \in Seq(Nat) /\ Len(w) = Len(frames) + 1 /\ w[Len(frames) + 1] = ptr
        /\ \A j \in 1 .. Len(frames) : w[j] = marks[j]
    BY <1>2, <2>2
  <2> HIDE DEF w
  <2>5. w = [j \in 1 .. Len(frames) + 1 |-> w[j]]
    BY <2>4
  <2>6. ASSUME NEW j \in 1 .. Len(frames) + 1 PROVE frames'[j].mark = w[j]
    <3>1. j = Len(frames) + 1 \/ j \in 1 .. Len(frames)
      BY <2>1
    <3>2. j = Len(frames) + 1 => frames'[j].mark = w[j]
      BY <1>3, <2>1, <2>4
    <3>3. j \in 1 .. Len(frames) => frames'[j].mark = w[j]
      BY <2>3, <2>4
    <3> QED
      BY <3>1, <3>2, <3>3
  <2>7. [j \in DOMAIN frames' |-> frames'[j].mark] = w
    BY <2>1, <2>5, <2>6
  <2> QED
    BY <2>7 DEF w
<1> HIDE DEF f
<1> QED
  BY <1>1, <1>4 DEF Cursor!Mark

LEMMA LeaveRefines ==
  ASSUME IInv, Leave
  PROVE  Cursor!Unmark
<1> DEFINE marks == [j \in DOMAIN frames |-> frames[j].mark]
<1>1. /\ mode = "parsing" /\ frames # <<>> /\ frames' = SubSeq(frames, 1, Len(frames) - 1)
      /\ UNCHANGED <<input, ptr, current, mode>> /\ frames \in Seq(Frames)
  BY DEF Leave, IInv, TypeOK
<1>2. /\ DOMAIN frames = 1 .. Len(frames) /\ Len(frames) \in Nat \ {0}
      /\ DOMAIN frames' = 1 .. Len(frames) - 1
      /\ \A j \in 1 .. Len(frames) - 1 : frames'[j] = frames[j]
  BY <1>1
<1>3. marks \in Seq(Nat) /\ Len(marks) = Len(frames)
  BY <1>1, MarksAreSeq
<1>4. \A j \in 1 .. Len(frames) - 1 : marks[j] = frames'[j].mark
  BY <1>2
<1>5. marks # <<>> /\ [j \in DOMAIN frames' |-> frames'[j].mark] = SubSeq(marks, 1, Len(marks) - 1)
  <2> HIDE DEF marks
  <2>1. SubSeq(marks, 1, Len(marks) - 1) = [j \in 1 .. Len(marks) - 1 |-> marks[j]]
    BY <1>2, <1>3
  <2> QED
    BY <1>2, <1>3, <1>4, <2>1
<1> QED
  BY <1>1, <1>5 DEF Cursor!Unmark

\* Every step of the stream is a step of the cursor, or none.
LEMMA StepRefines ==
  ASSUME IInv, IInv', Tiling, Tiling', Next
  PROVE  [Cursor!CursorNext]_(Cursor!cursorVars)
<1>1. ASSUME NewLexer PROVE UNCHANGED Cursor!cursorVars
  <2>1. mode = "newLexer" /\ mode' = "newParser" /\ UNCHANGED input
    BY <1>1 DEF NewLexer
  <2> QED
    BY <2>1 DEF Cursor!cursorVars
<1>2. ASSUME NewParser PROVE Cursor!CursorNext
  <2>1. mode = "newParser" /\ UNCHANGED <<input, frames>> /\ ptr = -1 /\ frames = <<>>
    BY <1>2 DEF NewParser, IInv, NotStarted
  <2> DEFINE q == GetNextToken(Queue)
  <2>2. q.res \in {"token", "lexError", "hung"}
    BY <2>1, QueueIsGood, GetNextTokenReadsOn DEF ReadsOn
  <2>3. /\ q.res = "token" => mode' = "parsing"
        /\ q.res = "lexError" => mode' = "terminate"
        /\ q.res = "hung" => mode' = "hung"
    BY <1>2 DEF NewParser
  <2>4. q.ptr = 0 /\ ptr' = q.ptr
    BY <1>2, <2>1 DEF NewParser, Becomes, GetNextToken, Queue
  <2> HIDE DEF q
  <2>5. CASE q.res = "token"
    <3>1. mode' = "parsing" /\ ptr' = 0
      BY <2>3, <2>4, <2>5
    <3>2. Cursor!Readable(ptr)' /\ current' = Cursor!ScriptAt(ptr)'
      BY <3>1, CursorSees
    <3>3. Cursor!Readable(0) /\ current' = Cursor!ScriptAt(0)
      BY <2>1, <3>1, <3>2 DEF Cursor!Readable, Cursor!ScriptAt
    <3>4. [j \in DOMAIN frames' |-> frames'[j].mark] = <<>>
      BY <2>1
    <3>5. Cursor!Open
      BY <2>1, <3>1, <3>3, <3>4 DEF Cursor!Open
    <3> QED
      BY <3>5 DEF Cursor!CursorNext
  <2>6. CASE q.res # "token"
    BY <2>1, <2>2, <2>3, <2>6, CloseRefines DEF Ended, Cursor!CursorNext
  <2> QED
    BY <2>5, <2>6
<1>3. ASSUME GoBack PROVE Cursor!CursorNext
  <2>1. Len(frames) \in DOMAIN frames
    BY <1>3 DEF GoBack, IInv, TypeOK
  <2> QED
    BY <1>3, <2>1, BackRefines DEF GoBack
<1>4. ASSUME Fail PROVE Cursor!CursorNext
  <2>1. CASE Guards = {}
    BY <1>4, <2>1, CloseRefines DEF Fail, Ended, Cursor!CursorNext
  <2>2. CASE Guards # {}
    <3> DEFINE innermost == CHOOSE i \in Guards : \A j \in Guards : j <= i
    <3>1. innermost \in DOMAIN frames
      BY <2>2, InnermostExists DEF Guards, IInv, TypeOK
    <3>2. /\ Continue(RewindTo(Queue, frames[innermost].mark)) /\ mode = "parsing"
          /\ frames' = SubSeq(frames, 1, innermost - 1) /\ UNCHANGED input
      BY <1>4, <2>2 DEF Fail
    <3> HIDE DEF innermost
    <3> QED
      BY <3>1, <3>2, BackRefines
  <2> QED
    BY <2>1, <2>2
<1>5. ASSUME Finish PROVE Cursor!CursorNext
  BY <1>5, CloseRefines DEF Finish, Ended, Cursor!CursorNext
<1> QED
  BY <1>1, <1>2, <1>3, <1>4, <1>5, AdvanceRefines, EnterRefines, LeaveRefines
     DEF Next, Cursor!CursorNext

-----------------------------------------------------------------------------
(* The theorems.                                                           *)

\* The inductive invariant holds in every run of the stream.
THEOREM Invariance == Spec => []IInv
<1>1. IInv /\ [Next]_vars => IInv'
  <2>1. IInv /\ UNCHANGED vars => IInv'
    <3> SUFFICES ASSUME IInv, UNCHANGED vars PROVE IInv'
      OBVIOUS
    <3>1. TypeOK' /\ GoodLexer(input, pos, lastChar)' /\ NotStarted'
      BY DEF IInv, vars, TypeOK, GoodLexer, NotStarted
    <3>2. TokenInHand' /\ FramesShowWhatTheySaw' /\ TerminatesOnlyAtFirstToken'
      BY DEF IInv, vars, TokenInHand, FramesShowWhatTheySaw, TerminatesOnlyAtFirstToken
    <3> QED
      BY <3>1, <3>2 DEF IInv
  <2> QED
    BY <2>1, NextStep
<1> QED
  BY <1>1, InitInv, PTL DEF Spec

\* The state of lexer, queue and parser is well typed: emmitToken never leaves the text,
\* whatever characters it meets, and TokenQueue::ptr stays within the queue.
THEOREM TypeCorrect == Spec => []TypeOK
<1>1. IInv => TypeOK
  BY DEF IInv
<1> QED
  BY <1>1, Invariance, PTL

\* Parser::currentLexerToken is the token TokenQueue stands at, in every state of the
\* parser, after any sequence of advances, guards and rewinds.
THEOREM TokenInHandAlways == Spec => []TokenInHand
<1>1. IInv => TokenInHand
  BY DEF IInv
<1> QED
  BY <1>1, Invariance, PTL

\* Going back to a ParseRewindGuard or to a position kept with getPtr shows the parser
\* the token it saw when it was made, for any nesting of the two.
THEOREM FramesAreFaithful == Spec => []FramesShowWhatTheySaw
<1>1. IInv => FramesShowWhatTheySaw
  BY DEF IInv
<1> QED
  BY <1>1, Invariance, PTL

\* Only the parser's first token can end the program by std::terminate: no destructor
\* of a ParseRewindGuard lexes, so none throws while an exception unwinds.
THEOREM TerminatesOnlyOutsideTry == Spec => []TerminatesOnlyAtFirstToken
<1>1. IInv => TerminatesOnlyAtFirstToken
  BY DEF IInv
<1> QED
  BY <1>1, Invariance, PTL

\* Parser::rewindTo never lexes, and no step takes a lexed token out of the queue.
THEOREM LexedOnceAlways == Spec => LexedOnce
<1>1. IInv /\ [Next]_vars =>
        [/\ mode' = "parsing" /\ ptr' <= ptr => UNCHANGED lexer
         /\ Len(tokens') >= Len(tokens) /\ SubSeq(tokens', 1, Len(tokens)) = tokens]_vars
  <2> SUFFICES ASSUME IInv, Next PROVE Grows
    BY DEF Grows
  <2> QED
    BY NextStep
<1> QED
  BY <1>1, Invariance, PTL DEF Spec, LexedOnce

\* The queue stays on its script: nothing skipped, and what was lexed in advance.
THEOREM TilingInvariance == Spec => []Tiling
<1>1. Init => Tiling
  BY DEF Init, Tiling, Tiled
<1>2. IInv /\ Tiling /\ [Next]_vars => Tiling'
  <2>1. Tiling /\ UNCHANGED vars => Tiling'
    BY DEF vars, Tiling, Tiled, Seam, GoesOn, InHand
  <2> QED
    BY <2>1, TilingStep
<1> QED
  BY <1>1, <1>2, Invariance, PTL DEF Spec

\* Nothing of the text is skipped or lexed twice, however the parser's lookahead and
\* backtracking interleave with lexing.  A parser that is fair (Reader) is a case.
THEOREM StreamAlwaysTiled == Spec => []StreamIsTiled
<1>1. Tiling => StreamIsTiled
  BY DEF Tiling, Tiled, Seam, StreamIsTiled
<1> QED
  BY <1>1, TilingInvariance, PTL

\* The queue implements the cursor over the list of tokens that lexing the whole text in
\* advance gives: what the parser sees at a position depends on the text alone.
THEOREM QueueImplementsCursor == Spec => CursorSpec
<1>1. Init => Cursor!CursorInit
  BY DEF Init, Cursor!CursorInit
<1>2. IInv /\ IInv' /\ Tiling /\ Tiling' /\ [Next]_vars
        => [Cursor!CursorNext]_(Cursor!cursorVars)
  <2>1. UNCHANGED vars => UNCHANGED Cursor!cursorVars
    BY DEF vars, Cursor!cursorVars
  <2> QED
    BY <2>1, StepRefines
<1> QED
  BY <1>1, <1>2, Invariance, TilingInvariance, PTL DEF Spec, CursorSpec, Cursor!CursorSpec
==============================================================================
