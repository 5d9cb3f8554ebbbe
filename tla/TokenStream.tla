----------------------------- MODULE TokenStream -----------------------------
(***************************************************************************)
(* The token stream between the lexer and the parser: Lexer::emmitToken    *)
(* over StringLexerInput, the TokenQueue it fills on demand, and what the  *)
(* parser does with the queue: it advances, tries an alternative under a   *)
(* ParseRewindGuard, remembers a position and goes back to it.             *)
(*                                                                         *)
(* The parser is its most general client: it may do these in any order its *)
(* blocks allow.  A character is the class the lexer tells it by, a token  *)
(* its type and the characters it was made from.                           *)
(***************************************************************************)
EXTENDS Integers, Sequences, FiniteSets

CONSTANTS
  Inputs,     \* the source texts, sequences of character classes
  MaxTokens,  \* bound: tokens lexed (the lexer gives EOF as often as it is asked)
  MaxFrames   \* bound: nesting of the parser's try blocks and saved positions

\* Spaces and tabs; line ends; the three quotes; # : and .; operator characters;
\* letters and the underscore; digits; what is a token by itself; what starts none.
Classes == {"space", "newline", "double", "single", "back", "hash", "op", "colon", "dot",
            "alpha", "digit", "punct", "other"}
Quotes  == {"double", "single", "back"}

TokenTypes == {"SPACES", "NEWLINE", "STRING", "OP", "COLON", "DOUBLE_COLON", "DOT",
               "PUNCT", "WORD", "INTEGER", "FLOAT", "EOF"}

ASSUME TokenStreamAssumption ==
  /\ Inputs \subseteq Seq(Classes)
  /\ MaxTokens \in Nat \ {0} /\ MaxFrames \in Nat

VARIABLES
  input,     \* StringLexerInput::input
  pos,       \* StringLexerInput::pos, the characters handed out
  lastChar,  \* Lexer::lastChar
  tokens,    \* TokenQueue::tokens
  ptr,       \* TokenQueue::ptr, an index from 0
  current,   \* Parser::currentLexerToken
  frames,    \* the parser's open ParseRewindGuards and saved positions, outermost first
  mode       \* what the program is doing, or how it ended

lexer == <<pos, lastChar, tokens>>
vars  == <<input, pos, lastChar, tokens, ptr, current, frames, mode>>

NUL   == "NUL"   \* the 0 of getNextChar at the end of the input
Ended == {"parsed", "rejected", "lexError", "terminate", "hung"}
Modes == {"newLexer", "newParser", "parsing"} \cup Ended

-----------------------------------------------------------------------------
(* The lexer.                                                              *)

\* What a scan leaves: the token, or what happened instead, and the state of the
\* lexer.  A token holds the characters from `from` up to but not including `to`.
Token(t, from, to) == [type |-> t, from |-> from, to |-> to]
NoToken == Token("EOF", 0, 0)
Scanned(t, from, p, c) ==
  [res |-> "token", token |-> Token(t, from, p), pos |-> p, lastChar |-> c]
Stopped(res, p, c) == [res |-> res, token |-> NoToken, pos |-> p, lastChar |-> c]

\* The first position after p whose character is not in C, one more than the
\* input holds when there is none: where getNextChar, called in a loop, leaves it.
StopAfter(text, p, C) ==
  CHOOSE q \in p + 1 .. Len(text) + 1 :
    /\ q <= Len(text) => text[q] \notin C
    /\ \A i \in p + 1 .. q - 1 : text[i] \in C

\* The character at q, and the value of pos once it has been read.
CharAt(text, q) == IF q <= Len(text) THEN text[q] ELSE NUL
PosPast(text, q) == q                                    \* mutant: no test for the end
PosAt(text, q)  == IF q <= Len(text) THEN q ELSE Len(text)

\* mutant: the lookahead is read again
EndsReadingTwice(text, t, p, q) ==
  [res |-> "token", token |-> Token(t, p, q),
   pos |-> PosAt(text, q + 1), lastChar |-> CharAt(text, q + 1)]
\* A token that ends where the first character of q is the new lookahead.
Ends(text, t, p, q) ==
  [res |-> "token", token |-> Token(t, p, q), pos |-> PosAt(text, q), lastChar |-> CharAt(text, q)]

\* A string: an empty one is recognised by a double quote whatever opened it, so
\* a quote that follows at once is a character of the string otherwise; with no
\* closing quote the loop never ends.
ScanString(text, p, c) ==
  IF CharAt(text, p + 1) = "double" THEN Ends(text, "STRING", p, p + 2)
  ELSE LET q == StopAfter(text, p + 1, Classes \ {c})
       IN  IF q > Len(text) THEN Stopped("hung", Len(text), NUL)
           ELSE Ends(text, "STRING", p, q + 1)

\* mutant: the comment is not read before the lexer goes on
ScanCommentInPlace(text, p) == Scanned("SPACES", p, p, "hash")
\* A comment is followed by the line end that closes it, or by the end of input,
\* which the lexer takes for reached as soon as the last character is read.
ScanComment(text, p) ==
  LET q == StopAfter(text, p, Classes \ {"newline"})
  IN  IF q >= Len(text)
      THEN [res |-> "token", token |-> Token("EOF", Len(text), Len(text)),
            pos |-> Len(text), lastChar |-> text[Len(text)]]
      ELSE Ends(text, "NEWLINE", q, StopAfter(text, q, {"newline"}))

\* A number: digits, with one period anywhere after the first.
ScanNumber(text, p) ==
  LET q == StopAfter(text, p, {"digit"})
      r == StopAfter(text, q, {"digit"})
  IN  IF CharAt(text, q) # "dot" THEN Ends(text, "INTEGER", p, q)
      ELSE IF CharAt(text, r) = "dot" THEN Stopped("lexError", r, "dot")
      ELSE Ends(text, "FLOAT", p, r)

\* Lexer::emmitToken.  The first token of all is made of the blank lastChar starts
\* with.  The end of the input is tested before the character that is in hand.
EmmitToken(text, p, c) ==
  IF p = Len(text) THEN Scanned("EOF", p, p, c)
  ELSE CASE c = "space"   -> Ends(text, "SPACES", p, StopAfter(text, p, {"space"}))
         [] c = "newline" -> Ends(text, "NEWLINE", p, StopAfter(text, p, {"newline"}))
         [] c \in Quotes -> ScanString(text, p, c)
         [] c = "hash"       -> ScanComment(text, p)
         [] c = "op"      -> Ends(text, "OP", p, StopAfter(text, p, {"op"}))
         [] c = "colon" /\ text[p + 1] = "colon" -> Ends(text, "DOUBLE_COLON", p, p + 2)
         [] c = "colon" /\ text[p + 1] # "colon" -> Ends(text, "COLON", p, p + 1)
         [] c = "dot"       -> Ends(text, "DOT", p, p + 1)
         [] c = "punct"   -> Ends(text, "PUNCT", p, p + 1)
         [] c = "alpha"   -> Ends(text, "WORD", p, StopAfter(text, p, {"alpha", "digit"}))
         [] c = "digit"   -> ScanNumber(text, p)
         [] OTHER         -> Stopped("lexError", p + 1, text[p + 1])

-----------------------------------------------------------------------------
(* The queue.                                                              *)

\* The queue, the lexer behind it, and whether the last token could be had.
Queue == [tokens |-> tokens, ptr |-> ptr, pos |-> pos, lastChar |-> lastChar, res |-> "token"]
Type(q) == q.tokens[q.ptr + 1].type

\* TokenQueue::getNextToken.  The index moves first; a token that is not there yet
\* is lexed.
GetNextToken(q) ==
  LET k == q.ptr + 1
      s == EmmitToken(input, q.pos, q.lastChar)
  IN  IF k < Len(q.tokens) THEN [q EXCEPT !.ptr = k]
      ELSE [tokens   |-> IF s.res = "token" THEN Append(q.tokens, s.token) ELSE q.tokens,
            ptr      |-> k,
            pos      |-> s.pos,
            lastChar |-> s.lastChar,
            res      |-> s.res]

\* Parser::nextLexerToken, which may skip one token of spaces.
NextLexerToken(q, skip) ==
  LET n == GetNextToken(q)
  IN  IF skip /\ n.res = "token" /\ Type(n) = "SPACES" THEN GetNextToken(n) ELSE n

RewindShort(q, k) == NextLexerToken([q EXCEPT !.ptr = k], FALSE)  \* mutant: not one before k
RewindDropping(q, k) ==  \* mutant: what was read ahead is taken from the queue
  NextLexerToken([q EXCEPT !.ptr = k - 1, !.tokens = SubSeq(q.tokens, 1, k + 1)], FALSE)
\* Parser::rewindTo.
RewindTo(q, k) == NextLexerToken([q EXCEPT !.ptr = k - 1], FALSE)

Becomes(q) ==
  tokens' = q.tokens /\ ptr' = q.ptr /\ pos' = q.pos /\ lastChar' = q.lastChar

Guards == {i \in DOMAIN frames : frames[i].guard}

\* A LexerException leaves every block of the parser: the guards go back one after
\* the other, the outermost last, and main reports the error.  A guard that had to
\* lex would throw from its destructor.
Unwound(q) ==
  IF Guards = {} THEN Becomes(q) /\ mode' = "lexError"
  ELSE LET outermost == CHOOSE i \in Guards : \A j \in Guards : i <= j
       IN  /\ Becomes(RewindTo([q EXCEPT !.res = "token"], frames[outermost].mark))
           /\ mode' = IF \E i \in Guards : frames[i].mark >= Len(q.tokens)
                      THEN "terminate" ELSE "lexError"

\* The parser goes on with the token q holds, or the lexer has ended the program.
Continue(q) ==
  \/ /\ q.res = "token" /\ Becomes(q) /\ current' = Type(q) /\ UNCHANGED mode
  \/ /\ q.res = "lexError" /\ Unwound(q) /\ UNCHANGED current
  \/ /\ q.res = "hung" /\ Becomes(q) /\ mode' = "hung" /\ UNCHANGED current

-----------------------------------------------------------------------------
(* The parser.                                                             *)

Init ==
  /\ input \in Inputs
  /\ pos = 0 /\ lastChar = "space" /\ tokens = <<>> /\ ptr = -1
  /\ current = "EOF" /\ frames = <<>> /\ mode = "newLexer"

\* Lexer::Lexer lexes one token, the blanks before the text, and drops it.
NewLexer ==
  LET s == EmmitToken(input, pos, lastChar)
  IN  /\ mode = "newLexer" /\ mode' = "newParser"
      /\ pos' = s.pos /\ lastChar' = s.lastChar
      /\ UNCHANGED <<input, tokens, ptr, current, frames>>

\* Parser::Parser takes the first token.  main constructs the parser outside its
\* try block, so an exception of the lexer here is handled by nobody.
NewParser ==
  LET q == GetNextToken(Queue)
  IN  /\ mode = "newParser" /\ Becomes(q)
      /\ mode' = CASE q.res = "token"    -> "parsing"
                   [] q.res = "lexError" -> "terminate"
                   [] q.res = "hung"     -> "hung"
      /\ current' = IF q.res = "token" THEN Type(q) ELSE current
      /\ UNCHANGED <<input, frames>>

Advance(skip) ==
  LET q == NextLexerToken(Queue, skip)
  IN  /\ mode = "parsing" /\ Len(q.tokens) <= MaxTokens
      /\ Continue(q)
      /\ frames' = IF q.res = "token" THEN frames ELSE <<>>
      /\ UNCHANGED input

EnterAhead(guard) ==  \* mutant: the guard keeps the position of the next token
  /\ mode = "parsing" /\ Len(frames) < MaxFrames
  /\ frames' = Append(frames, [guard |-> guard, mark |-> ptr + 1, saw |-> current])
  /\ UNCHANGED <<input, pos, lastChar, tokens, ptr, current, mode>>
\* A ParseRewindGuard is constructed, or a position kept with getPtr.
Enter(guard) ==
  /\ mode = "parsing" /\ Len(frames) < MaxFrames
  /\ frames' = Append(frames, [guard |-> guard, mark |-> ptr, saw |-> current])
  /\ UNCHANGED <<input, pos, lastChar, tokens, ptr, current, mode>>

LeaveByIndex ==  \* mutant: the guard is not released, and sets the index alone
  /\ mode = "parsing" /\ frames # <<>>
  /\ frames' = SubSeq(frames, 1, Len(frames) - 1) /\ ptr' = frames[Len(frames)].mark
  /\ UNCHANGED <<input, pos, lastChar, tokens, current, mode>>
\* The guard is released and destroyed, or the position not used.
Leave ==
  /\ mode = "parsing" /\ frames # <<>>
  /\ frames' = SubSeq(frames, 1, Len(frames) - 1)
  /\ UNCHANGED <<input, pos, lastChar, tokens, ptr, current, mode>>

\* The parser ends its lookahead and goes back to the position it kept.
GoBack ==
  LET top == Len(frames)
  IN  /\ mode = "parsing" /\ frames # <<>> /\ ~frames[top].guard
      /\ Continue(RewindTo(Queue, frames[top].mark))
      /\ frames' = SubSeq(frames, 1, top - 1)
      /\ UNCHANGED input

\* A ParseException: the innermost guard goes back and its catch clause goes on; with
\* no guard the exception reaches main.
Fail ==
  /\ mode = "parsing"
  /\ IF Guards = {}
     THEN /\ mode' = "rejected" /\ frames' = <<>>
          /\ UNCHANGED <<pos, lastChar, tokens, ptr, current>>
     ELSE LET innermost == CHOOSE i \in Guards : \A j \in Guards : j <= i
          IN  /\ Continue(RewindTo(Queue, frames[innermost].mark))
              /\ frames' = SubSeq(frames, 1, innermost - 1)
  /\ UNCHANGED input

\* parseProgram returns at the end of the input.
Finish ==
  /\ mode = "parsing" /\ frames = <<>> /\ current = "EOF"
  /\ mode' = "parsed"
  /\ UNCHANGED <<input, pos, lastChar, tokens, ptr, current, frames>>

Next ==
  \/ NewLexer \/ NewParser
  \/ \E skip \in BOOLEAN : Advance(skip)
  \/ \E guard \in BOOLEAN : Enter(guard)
  \/ Leave \/ GoBack \/ Fail \/ Finish

Spec == Init /\ [][Next]_vars

\* Reading on, with nothing tried and nothing undone.  No part of it waits for anything,
\* so a parser that does no more than this takes the steps it can take.
ReadOn == NewLexer \/ NewParser \/ Advance(FALSE) \/ Finish
Reader == Spec /\ WF_vars(ReadOn)

-----------------------------------------------------------------------------
(* Properties.                                                             *)

Tokens == [type : TokenTypes, from : Nat, to : Nat]
Frames == [guard : BOOLEAN, mark : Nat, saw : TokenTypes]

TypeOK ==
  /\ input \in Inputs
  /\ pos \in 0 .. Len(input)
  /\ lastChar \in Classes \cup {NUL}
  /\ tokens \in Seq(Tokens)
  /\ ptr \in -1 .. Len(tokens)
  /\ current \in TokenTypes
  /\ frames \in Seq(Frames)
  /\ mode \in Modes

\* The token the parser decides by is the one the queue stands at, whose text and
\* line getStr, getRow and getCol return: no rewind leaves one without the other.
TokenInHand ==
  mode = "parsing" => ptr \in 0 .. Len(tokens) - 1 /\ current = tokens[ptr + 1].type

\* Whatever was lexed, undone and tried again since, going back to a guard or to a
\* kept position shows the parser the token it saw there.
FramesShowWhatTheySaw ==
  mode = "parsing" =>
    \A i \in DOMAIN frames :
      /\ frames[i].mark <= ptr
      /\ frames[i].saw = tokens[frames[i].mark + 1].type
      /\ \A j \in DOMAIN frames : i < j => frames[i].mark <= frames[j].mark

\* The destructor of a guard never lexes, so it never throws while another
\* exception unwinds: the program is only terminated by the parser's first token.
TerminatesOnlyAtFirstToken ==
  mode = "terminate" => frames = <<>> /\ tokens = <<>>

\* Going back never lexes: tokens are lexed once, and no step takes one away.
LexedOnce ==
  [][/\ mode' = "parsing" /\ ptr' <= ptr => UNCHANGED lexer
     /\ Len(tokens') >= Len(tokens) /\ SubSeq(tokens', 1, Len(tokens)) = tokens]_vars

\* Nothing of the text is skipped or lexed twice: a token starts where the one before
\* it ends, or after the comment that follows it.  The end of input may cost one
\* character, the one in hand when the lexer finds the input at its end.
StreamIsTiled ==
  \A i \in 1 .. Len(tokens) - 1 :
    LET a == tokens[i]
        b == tokens[i + 1]
    IN  /\ a.type # "EOF" => a.from < a.to
        /\ \/ a.to = b.from
           \/ a.to < b.from /\ input[a.to] = "hash" /\ b.type \in {"NEWLINE", "EOF"}
           \/ a.to = Len(input) + 1 /\ b.from = Len(input) /\ b.type = "EOF"

\* However often it went back before, a parser that from some time on reads on, outside all
\* guards, reaches the end of the text or an error of the lexer, or hangs in a string that
\* is not closed: neither the lexer nor the queue gives tokens without end.
ReadingEnds == <>[](frames = <<>>) /\ <>[][ReadOn]_vars => <>(mode \in Ended)

\* Lexing the whole text in advance, up to the first EOF or to what stops the lexer: the
\* types of the first k tokens after the blank the constructor drops, and the lexer then.
Lexed(text) ==
  LET first == EmmitToken(text, 0, "space")
      run[k \in 0 .. Len(text) + 1] ==
        IF k = 0 THEN [types |-> <<>>, pos |-> first.pos, lastChar |-> first.lastChar, more |-> TRUE]
        ELSE LET r == run[k - 1]
                 s == EmmitToken(text, r.pos, r.lastChar)
             IN  IF r.more /\ s.res = "token"
                 THEN [types |-> Append(r.types, s.token.type), pos |-> s.pos,
                       lastChar |-> s.lastChar, more |-> s.token.type # "EOF"]
                 ELSE [r EXCEPT !.more = FALSE]
  IN  run
Script(text) == Lexed(text)[Len(text) + 1].types
ScriptOf == [text \in Inputs |-> Script(text)]

Cursor == INSTANCE TokenCursor WITH
  script  <- ScriptOf[input],
  at      <- CASE mode = "parsing" -> ptr
               [] mode \in {"newLexer", "newParser"} -> -1
               [] OTHER -> -2,
  seen    <- IF mode = "parsing" THEN current ELSE "none",
  marks   <- IF mode = "parsing" THEN [i \in DOMAIN frames |-> frames[i].mark] ELSE <<>>,
  reading <- mode = "parsing"

\* The queue implements the cursor: what the parser sees at a position depends on the
\* text alone, however lexing on demand and going back were interleaved before.
CursorSpec == Cursor!CursorSpec
==============================================================================
