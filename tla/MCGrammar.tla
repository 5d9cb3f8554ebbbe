------------------------------ MODULE MCGrammar ------------------------------
(***************************************************************************)
(* Grammar for TLC: every short text over some alphabets, and the texts of *)
(* small trees.                                                            *)
(*                                                                         *)
(* A tree is written as the grammar in the comments of Parser.h says, but  *)
(* begin, unless, while and until without an `end`: the code leaves it to  *)
(* the construct around, and they are written where that construct's `end` *)
(* closes both.  The corpus at the end holds what the grammar has and the  *)
(* code does not read: these four with an `end` of their own, a for with a *)
(* `do`, a BEGIN block and a call of a global name.  Not written are:      *)
(* names of arguments (parseCallArgs leaves them to be done), an elsif     *)
(* without an else (its branch is dropped), a block behind a constant, and *)
(* the pairs of a hash with a space after their comma, A::b with arguments *)
(* and def a.b on one line, which the grammar does not give.               *)
(***************************************************************************)
EXTENDS Grammar

LOCAL Seqs == INSTANCE SequencesExt

CONSTANTS Length,  \* of the short texts
          Damages  \* the places at which a program is damaged

(***************************************************************************)
(* Short texts: all over an alphabet, with spaces where two words would be *)
(* one.  Shorter ones end in newlines.                                     *)
(***************************************************************************)
Words == {"lit", "id", "Id", "return", "yield", "not", "begin", "rescue", "ensure", "if", "then", "else",
          "elsif", "end", "unless", "while", "until", "do", "case", "when", "for", "in", "class",
          "module", "def", "BEGIN"}

\* What the lexer can give: words, operators, colons or spaces in a row would be another token.
Lexable(t) == \A i \in 1 .. Len(t) - 1 :
  \A S \in {Words, {"sp"}, Ops \cup {"=>"}, {":", "::"}} : t[i] \notin S \/ t[i + 1] \notin S

RECURSIVE Spaced(_)
Spaced(t) ==
  IF Len(t) < 2 THEN t
  ELSE (IF t[1] \in Words /\ t[2] \in Words THEN <<t[1], "sp">> ELSE <<t[1]>>) \o Spaced(Tail(t))

ShortTexts(alphabet) ==
  {i \in {[text |-> Spaced(t), tree |-> Null] : t \in [1 .. Length -> alphabet]} : Lexable(i.text)}

(***************************************************************************)
(* Constructs: a tree and its text, made from those of its parts           *)
(***************************************************************************)
Make(n, parts, words) ==
  [tree |-> Node(n, {}, [i \in DOMAIN parts |-> parts[i].tree]), text |-> Seqs!FlattenSeq(words)]

Token(n, words) == Make(n, <<>>, <<words>>)
None   == Token("null", <<>>)
Lit    == Token("lit", <<"lit">>)
Const  == Token("const", <<"Id">>)
Global == Token("const", <<"::", "Id">>)
Symbol == Token("symbol", <<":", "id">>)
IVar   == Token("instance_variable", <<"@", "id">>)

\* Statements on lines of their own, and one between parentheses.
Line(a)     == Make("block", <<a>>, <<<<"nl">>, a.text, <<"nl">>>>)
Lines(a, b) == Make("block", <<a, b>>, <<<<"nl">>, a.text, <<"nl">>, b.text, <<"nl">>>>)
Group(a)    == Make("block", <<a>>, <<<<"(">>, a.text, <<")">>>>)
NoLine      == Token("block", <<"nl">>)

Plain(a)         == Make("plain", <<a, None>>, <<a.text>>)
Plain2(a, b)     == Make("plain", <<a, b, None>>, <<a.text, <<",">>, b.text>>)
NoArgs           == Make("plain", <<None>>, <<>>)
Parens(a, b, blk) == Make("paren", <<a, b, blk>>, <<<<"(">>, a.text, <<",">>, b.text, <<")">>, blk.text>>)
Brackets(a)      == Make("bracket", <<a, None>>, <<<<"[">>, a.text, <<"]">>>>)
Name             == Make("call", <<None, NoArgs>>, <<<<"id">>>>)
Command(args)    == Make("call", <<None, args>>, <<<<"id">>, args.text>>)
CommandLine(args) == Make("call", <<None, args>>, <<<<"id", "sp">>, args.text>>)
Called(a, args)  == Make("call", <<a, args>>, <<a.text, <<".">>, args.text>>)
Method(a, args)  == Make("call", <<a, args>>, <<a.text, <<".", "id">>, args.text>>)
Index(a, b)      == Make("call", <<a, Brackets(b)>>, <<a.text, Brackets(b).text>>)
Scope(a)         == Make("const", <<a>>, <<a.text, <<"::", "Id">>>>)

NoParams     == Token("params", <<>>)
Param        == Token("param", <<"id">>)
Optional(a)  == Make("default", <<a>>, <<<<"id", "=">>, a.text>>)
Keyword(a)   == Make("named", <<a>>, <<<<"id", ":">>, a.text>>)
Params1(a)   == Make("params", <<a>>, <<a.text>>)
Params2(a, b) == Make("params", <<a, b>>, <<a.text, <<",">>, b.text>>)
Braces(p, a) == Make("lambda", <<p, a>>, <<<<"{", "|">>, p.text, <<"|">>, a.text, <<"}">>>>)
DoEnd(a)     == Make("lambda", <<NoParams, a>>, <<<<"do">>, a.text, <<"end">>>>)

Array2(a, b) == Make("array", <<a, b>>, <<<<"[">>, a.text, <<",">>, b.text, <<"]">>>>)
Hash1(a, b)  == Make("hash", <<a, b>>, <<<<"{">>, a.text, <<"=>">>, b.text, <<"}">>>>)
Keyed(a, b)  == Make("hash", <<Symbol, a, Symbol, b>>,
                     <<<<"{", "id", ":">>, a.text, <<",", "id", ":">>, b.text, <<"}">>>>)
Minus(a)     == Make("unary", <<a>>, <<<<"-">>, a.text>>)
Binary(op, a, b) == Make(op, <<a, b>>, <<a.text, <<"sp", op, "sp">>, b.text>>)
Choice(a, b, c)  == Make("if", <<a, b, c>>, <<a.text, <<"sp", "?", "sp">>, b.text, <<"sp", ":", "sp">>, c.text>>)
Return(a)    == Make("return", <<Plain(a)>>, <<<<"return", "sp">>, a.text>>)
ReturnOnly   == Make("return", <<NoArgs>>, <<<<"return">>>>)
YieldOnly    == Make("yield", <<NoArgs>>, <<<<"yield">>>>)
Yield(a)     == Make("yield", <<Plain(a)>>, <<<<"yield", "sp">>, a.text>>)

IfOnly(a, b)    == Make("if", <<a, b, None>>, <<<<"if", "sp">>, a.text, b.text, <<"end">>>>)
IfThenOnly(a, b) ==
  Make("if", <<a, b, None>>, <<<<"if", "sp">>, a.text, <<"sp", "then">>, b.text, <<"end">>>>)
IfElse(a, b, c) == Make("if", <<a, b, c>>, <<<<"if", "sp">>, a.text, b.text, <<"else">>, c.text, <<"end">>>>)
IfElsif(a, b, i) == Make("if", <<a, b, i>>, <<<<"if", "sp">>, a.text, b.text, <<"elsif">>, Tail(i.text)>>)
CaseOf(a, b, c, d) == Make("case", <<Lit, a, b, c, d>>,
  <<<<"case", "sp", "lit", "nl", "when", "sp">>, a.text, b.text, <<"when", "sp">>, c.text, d.text, <<"end">>>>)
CaseOnly(a, b) == Make("case", <<None, a, b>>, <<<<"case", "nl", "when", "sp">>, a.text, b.text, <<"end">>>>)
ForIn(a, b)  == Make("for", <<Name, a, b>>, <<<<"for", "sp", "id", "sp", "in", "sp">>, a.text, b.text, <<"end">>>>)

\* A statement and what it depends on, with the text of both.
Control(word, a, b, words) ==
  LET tested == IF word \in {"unless", "until"} THEN Make("not", <<a>>, <<>>) ELSE a
  IN  IF word \in {"if", "unless"} THEN Make("if", <<tested, b, None>>, words)
                                   ELSE Make("while", <<tested, b>>, words)
Modified(word, a, b)  == Control(word, a, b, <<b.text, <<"sp", word, "sp">>, a.text>>)
Unended(word, a, b)   == Control(word, a, b, <<<<word, "sp">>, a.text, b.text>>)
UnendedBegin(b)       == [tree |-> b.tree, text |-> <<"begin">> \o b.text]
UnendedRescue(a, b, c, d, e) ==
  [tree |-> Node("begin", {}, <<Block(<<b.tree, d.tree>>), Node("rescue", {}, <<a.tree, c.tree>>),
                                Node("rescue", {}, <<Null, c.tree>>), e.tree>>),
   text |-> <<"begin">> \o b.text \o <<"rescue", "sp">> \o a.text \o <<"=>", "id">> \o c.text
              \o <<"rescue">> \o c.text \o <<"else">> \o d.text \o <<"ensure">> \o e.text]

Class(a, b)  == Make("class", <<Const, a, b>>, <<<<"class", "sp", "Id", "sp", "<", "sp">>, a.text, b.text, <<"end">>>>)
ClassOnly(b) == Make("class", <<Const, Token("const", <<>>), b>>, <<<<"class", "sp", "Id">>, b.text, <<"end">>>>)
Singleton(a, b) == Make("class_instance", <<a, b>>, <<<<"class", "sp", "<<", "sp">>, a.text, b.text, <<"end">>>>)
Module(b)    == Make("module", <<Const, b>>, <<<<"module", "sp", "Id">>, b.text, <<"end">>>>)
DefNamed(object, head, p, b, mid) ==
  Make("def", <<Make("name", <<object>>, <<>>), p, b>>, <<<<"def", "sp">>, head, p.text, mid, b.text, <<"end">>>>)
Def(p, b)     == DefNamed(None, <<"id", "(">>, p, b, <<")">>)
DefPlain(p, b) == DefNamed(None, <<"id", "sp">>, p, b, <<>>)
DefOnly(b)    == DefNamed(None, <<"id">>, NoParams, b, <<>>)
\* A dot on the line of the object would make a call of it.
DefOn(a, p, b) == DefNamed(a, a.text \o <<"nl", ".", "id", "(">>, p, b, <<")">>)

(***************************************************************************)
(* Programs: constructs in the places of others                            *)
(***************************************************************************)
\* Two operators in a row, where the tree needs no parentheses.
Above(p, q) == Precedence[p] > Precedence[q]
Arith == BinOps \ {"?"}
Chains ==
  LET LeftChains(p)  == {Binary(p, Binary(q, Lit, Lit), Lit) : q \in {q \in Arith \ {"="} : ~Above(p, q)}}
      RightChains(p) == {Binary(p, Lit, Binary(q, Lit, Lit)) : q \in {q \in Arith : Above(q, p)}}
      Choices(p)     == {Choice(Lit, Binary(p, Lit, Lit), Lit), Choice(Lit, Lit, Binary(p, Lit, Lit))}
                        \cup (IF p = "=" THEN {Binary(p, Lit, Choice(Lit, Lit, Lit))}
                                         ELSE {Choice(Binary(p, Lit, Lit), Lit, Lit)})
  IN  UNION {LeftChains(p) \cup RightChains(p) \cup Choices(p) : p \in Arith}
      \cup {Choice(Lit, Lit, Choice(Lit, Lit, Lit)), Choice(Lit, Choice(Lit, Lit, Lit), Lit)}

Bodies == {"line", "first", "last"}
InBody(where, a) ==
  CASE where = "line" -> Line(a) [] where = "first" -> Lines(a, Lit) [] where = "last" -> Lines(Lit, a)

\* Places of bodies: those that an `end` closes, and those that another word does.
OfEnd  == {"if", "then", "else", "elsif else", "last when", "only when", "for", "class", "only class", "singleton",
           "module", "def", "plain def", "only def", "def on", "do"}
OfBody == OfEnd \cup {"if else", "if elsif", "elsif", "when", "braces"}
WithBody(hole, b) ==
  CASE hole = "if"         -> IfOnly(Lit, b)
    [] hole = "then"       -> IfThenOnly(Lit, b)
    [] hole = "if else"    -> IfElse(Lit, b, NoLine)
    [] hole = "else"       -> IfElse(Lit, NoLine, b)
    [] hole = "if elsif"   -> IfElsif(Lit, b, IfElse(Lit, NoLine, NoLine))
    [] hole = "elsif"      -> IfElsif(Lit, NoLine, IfElse(Lit, b, NoLine))
    [] hole = "elsif else" -> IfElsif(Lit, NoLine, IfElse(Lit, NoLine, b))
    [] hole = "when"       -> CaseOf(Lit, b, Lit, NoLine)
    [] hole = "last when"  -> CaseOf(Lit, NoLine, Lit, b)
    [] hole = "only when"  -> CaseOnly(Lit, b)
    [] hole = "for"        -> ForIn(Lit, b)
    [] hole = "class"      -> Class(Const, b)
    [] hole = "only class" -> ClassOnly(b)
    [] hole = "singleton"  -> Singleton(Lit, b)
    [] hole = "module"     -> Module(b)
    [] hole = "def"        -> Def(Params1(Param), b)
    [] hole = "plain def"  -> DefPlain(Params2(Param, Param), b)
    [] hole = "only def"   -> DefOnly(b)
    [] hole = "def on"     -> DefOn(Lit, Params1(Param), b)
    [] hole = "braces"     -> Command(Parens(Lit, Lit, Braces(Params1(Param), b)))
    [] hole = "do"         -> Method(Lit, Parens(Lit, Lit, DoEnd(b)))

OfExpression == {"element", "last element", "key", "value", "keyed", "last keyed", "argument", "last argument",
                 "index", "condition", "elsif condition", "when condition", "in", "superclass", "instance",
                 "default", "plain default", "keyword"}
WithExpression(hole, a) ==
  CASE hole = "element"         -> Array2(a, Lit)
    [] hole = "last element"    -> Array2(Lit, a)
    [] hole = "key"             -> Hash1(a, Lit)
    [] hole = "value"           -> Hash1(Lit, a)
    [] hole = "keyed"           -> Keyed(a, Lit)
    [] hole = "last keyed"      -> Keyed(Lit, a)
    [] hole = "argument"        -> Command(Parens(a, Lit, None))
    [] hole = "last argument"   -> Method(Lit, Parens(Lit, a, None))
    [] hole = "index"           -> Index(Lit, a)
    [] hole = "condition"       -> IfOnly(a, NoLine)
    [] hole = "elsif condition" -> IfElsif(Lit, NoLine, IfElse(a, NoLine, NoLine))
    [] hole = "when condition"  -> CaseOf(a, NoLine, Lit, NoLine)
    [] hole = "in"              -> ForIn(a, NoLine)
    [] hole = "superclass"      -> Class(a, NoLine)
    [] hole = "instance"        -> Singleton(a, NoLine)
    [] hole = "default"         -> Def(Params2(Optional(a), Param), NoLine)
    [] hole = "plain default"   -> DefPlain(Params2(Param, Optional(a)), NoLine)
    [] hole = "keyword"         -> Def(Params2(Param, Keyword(a)), NoLine)

\* An operand ends by itself, an expression may be taken further by what follows it, and a
\* statement stands between terminators.
OfOperand == {"receiver", "called", "indexed", "scope", "group"}
Operand(hole, a) ==
  CASE hole = "receiver" -> Method(a, Parens(Lit, Lit, None))
    [] hole = "called"   -> Called(a, Parens(Lit, Lit, None))
    [] hole = "indexed"  -> Index(a, Lit)
    [] hole = "scope"    -> Scope(a)
    [] hole = "group"    -> Group(a)

Open == {"minus", "left", "right", "choice", "yes", "no"}
Expression(hole, a) ==
  CASE hole = "minus"  -> Minus(a)
    [] hole = "left"   -> Binary("+", a, Lit)
    [] hole = "right"  -> Binary("*", Lit, a)
    [] hole = "choice" -> Choice(a, Lit, Lit)
    [] hole = "yes"    -> Choice(Lit, a, Lit)
    [] hole = "no"     -> Choice(Lit, Lit, a)

Bare == {"return", "yield", "command", "two", "last of two"}
Statement1(hole, a) ==
  CASE hole = "return"      -> Return(a)
    [] hole = "yield"       -> Yield(a)
    [] hole = "command"     -> CommandLine(Plain(a))
    [] hole = "two"         -> CommandLine(Plain2(a, Lit))
    [] hole = "last of two" -> CommandLine(Plain2(Lit, a))
ModifiedBy(S) == {Modified(w, a, Lit) : w \in ControlWords, a \in S}
                 \cup {Modified(w, Lit, a) : w \in ControlWords, a \in S}

Small       == {Lit, IVar}
Words1      == {Const, Global, Name}
Expressions == Small \cup Words1 \cup {Expression(h, a) : h \in Open, a \in Small}
Sentences   == Expressions \cup {ReturnOnly, YieldOnly} \cup ModifiedBy(Small)
               \cup {Statement1(h, a) : h \in Bare, a \in Small}
Samples     == {Lit, Name, ReturnOnly, Modified("until", Lit, Lit)} \cup {Statement1(h, Lit) : h \in Bare}

Bodied(S, W) == {WithBody(h, InBody(w, a)) : h \in OfBody, w \in W, a \in S}
Expressed(S) == {WithExpression(h, a) : h \in OfExpression, a \in S}
Built(S)     == {Operand(h, a) : h \in OfOperand, a \in S}
Opened(S)    == {Expression(h, a) : h \in Open, a \in S}
\* After return, yield or a name, a bracket begins a list of arguments or a block.
Bared(S)     == {Statement1(h, a) : h \in Bare, a \in {a \in S : a.text[1] \notin {"(", "[", "{"}}}
                \cup ModifiedBy(S)

\* What leaves its `end`: with a as a condition or the type of a rescue, and with the body b, which
\* the `end` closes too or another word does.
Unconditional(S) == {Unended(w, a, NoLine) : w \in ControlWords \ {"if"}, a \in S}
                    \cup {UnendedRescue(a, NoLine, NoLine, NoLine, NoLine) : a \in S}
UnendedAtEnd(B)  == {Unended(w, Lit, b) : w \in ControlWords \ {"if"}, b \in B}
                    \cup {UnendedBegin(b) : b \in B}
                    \cup {UnendedRescue(Const, NoLine, NoLine, NoLine, b) : b \in B}
UnendedInside(B) == {UnendedRescue(Const, b, NoLine, NoLine, NoLine) : b \in B}
                    \cup {UnendedRescue(Const, NoLine, b, NoLine, NoLine) : b \in B}
                    \cup {UnendedRescue(Const, NoLine, NoLine, b, NoLine) : b \in B}
\* The last statement of a body is where its `end` can be left to the construct around.
AtEnd(U, holes, W) == {WithBody(h, InBody(w, u)) : h \in holes, w \in W \cap {"line", "last"}, u \in U}

Programs(S) == {i \in {[text |-> a.text, tree |-> Make("block", <<a>>, <<>>).tree] : a \in S} : Lexable(i.text)}

\* Programs with one of their first tokens left out, or another in its place.
Damage(t, k, token) ==
  CASE k > Len(t)         -> t
    [] token = "nothing"  -> SubSeq(t, 1, k - 1) \o SubSeq(t, k + 1, Len(t))
    [] OTHER              -> [t EXCEPT ![k] = token]
Damaged(S) == {i \in {[text |-> Damage(a.text, k, token), tree |-> Null] :
                        a \in S, k \in 1 .. Damages, token \in {"nothing", "end", ")", "{", ",", "id"}} : Lexable(i.text)}

\* A construct in a construct in a construct, and two operators in a construct.
Nest == <<Bodied(Samples, {"line"}), Expressed(Expressions), Built(Small)>>
InNest(S) == <<Programs(Opened(S)), Programs(Bared(S)), Programs(Built(S)), Programs(Expressed(S)),
               Programs(Bodied(S, Bodies))>>

InBodies(S, W) == {InBody(w, a) : w \in W, a \in S}
Leaving(S)  == Unconditional(S) \cup UnendedAtEnd(InBodies(S, Bodies)) \cup UnendedInside(InBodies(S, Bodies))
Left        == Leaving(Samples)
LeftByTwo   == UnendedAtEnd(InBodies(Leaving({Lit}), {"line", "last"}))

Written == <<
  Programs(Chains), Programs(Bodied(Chains, {"line"})), Programs(Expressed(Chains)),
  Programs(Sentences), Programs(Bodied(Sentences, Bodies)),
  Programs(AtEnd(Left, OfEnd, Bodies)), Programs(AtEnd(LeftByTwo, OfEnd, {"line"})),
  Programs(AtEnd(Leaving(Nest[1] \cup Nest[2] \cup Nest[3]), {"def"}, {"line"})),
  Programs(Bodied(AtEnd(Leaving({Lit}), {"if", "do"}, {"line"}), Bodies))>>
  \o InNest(Nest[1]) \o InNest(Nest[2]) \o InNest(Nest[3])

Broken == <<
  ShortTexts({"id", "lit", "(", ")", ",", "sp", "nl", "-"}),
  ShortTexts({"id", "lit", "if", "else", "end", "while", "nl"}),
  ShortTexts({"Id", "id", "{", "}", "do", "end", "|", ",", "nl"}),
  ShortTexts({"lit", "id", "[", "]", "{", "}", ":", "=>", ",", "nl"}),
  ShortTexts({"def", "id", "(", ")", "=", "*", ":", "end", ".", "nl"}),
  Damaged(Chains), Damaged(Nest[1]), Damaged(Nest[2]), Damaged(Nest[3]),
  Damaged(AtEnd(Leaving({Lit}), {"def"}, {"line"}))>>

MCCorpus == Written \o Broken

(***************************************************************************)
(* What the grammar in Parser.h has and the code does not read             *)
(***************************************************************************)
Ended(a) == [a EXCEPT !.text = Append(@, "end")]

\* Parser.h:71, 83-85: begin, unless, while and until with a body and an `end`.
Ends == Programs({Ended(a) : a \in Leaving({Lit})})

\* Parser.h:87: `do` before the body of a for.
ForDo == Programs({Make("for", <<Name, a, b>>,
    <<<<"for", "sp", "id", "sp", "in", "sp">>, a.text, <<"sp", "do">>, b.text, <<"end">>>>) :
      a \in Small, b \in {NoLine, Line(Lit)}})

\* Parser.h:30: a program between the braces of a BEGIN.
TopBlock == Programs({Make("block", <<a>>, <<<<"BEGIN", "sp", "{">>, a.text, <<"}">>>>) : a \in Small})

\* Parser.h:99: a call of a name behind `::`, whose arguments belong to it.
GlobalCall == Programs({Make("call", <<Global, Parens(a, a, None)>>,
    <<<<"::", "Id">>, Parens(a, a, None).text>>) : a \in Small})

RefusedCorpus == <<Ends, ForDo, TopBlock, GlobalCall>>
==============================================================================
