------------------------------- MODULE Grammar -------------------------------
(***************************************************************************)
(* The recursive-descent parser: which text is accepted and as which tree. *)
(*                                                                         *)
(* A text is a sequence of tokens.  TokenStream shows that the parser sees *)
(* them as a text lexed in advance, however it goes back, so here a parser *)
(* function is an operator of the place p of the current token.  What it   *)
(* gives is the place it ends at and a tree, or a ParseException thrown at *)
(* a place.                                                                *)
(*                                                                         *)
(* A token stands for all the tokens the parser treats alike: "lit" for    *)
(* what is an expression by itself, "id" and "Id" for names in small and   *)
(* in capital letters, "return" for next and break too, and an operator    *)
(* for those of its precedence.                                            *)
(***************************************************************************)
EXTENDS Naturals, Sequences, FiniteSets, TLC

CONSTANT Corpus  \* sets of texts, each with the tree it was written from, or Null

VARIABLES
  text,    \* the tokens of the file
  meant,   \* the tree the text was written from, or Null
  result   \* of parseProgram, or Unparsed

vars == <<text, meant, result>>

(***************************************************************************)
(* Trees: a node has a kind, the places of the names, literals, operators  *)
(* and `end`s it stands for, and its children; Null is a null pointer.     *)
(***************************************************************************)
Node(n, own, kids) == [n |-> n, own |-> own, kids |-> kids]

Null == Node("null", {}, <<>>)
Block(stmts) == Node("block", {}, stmts)
If(own, cond, then, else) == Node("if", own, <<cond, then, else>>)
Args(form, args, block) == Node(form, {}, Append(args, block))
Call(own, object, args) == Node("call", own, <<object, args>>)

\* What an `if`, `unless`, `while` or `until` makes of its condition and its body.
Controlled(word, cond, body) ==
  LET tested == IF word \in {"unless", "until"} THEN Node("not", {}, <<cond>>) ELSE cond
  IN  IF word \in {"if", "unless"} THEN If({}, tested, body, Null)
                                   ELSE Node("while", {}, <<tested, body>>)

(***************************************************************************)
(* Results                                                                 *)
(***************************************************************************)
Done(p, tree) == [ok |-> TRUE, at |-> p, tree |-> tree]
Fail(p) == [ok |-> FALSE, at |-> p, tree |-> Null]
Unparsed == Fail(0)

\* An exception passes through what comes after.
Then(r, K(_, _)) == IF r.ok THEN K(r.at, r.tree) ELSE r

AttemptInPlace(p, r) == r  \* mutant: the guard was released
\* A guard that is not released puts the parser back at the place it was made.
Attempt(p, r) == IF r.ok THEN r ELSE Fail(p)

(***************************************************************************)
(* Tokens                                                                  *)
(***************************************************************************)
Terms == {"nl", "sp", ";"}
Names == {"id", "Id"}
ControlWords == {"if", "unless", "while", "until"}

Precedence == "**" :> 25 @@ "*" :> 21 @@ "+" :> 18 @@ "-" :> 18 @@ "<<" :> 17 @@ "|" :> 15 @@
              "&" :> 13 @@ "<" :> 11 @@ "==" :> 9 @@ "&&" :> 7 @@ "||" :> 5 @@ "?" :> 3 @@ "=" :> 1

BinOps == DOMAIN Precedence
UnOps  == {"*", "-", "+", "!"}
Ops    == BinOps \cup UnOps

Primaries == {"lit", "begin", "(", "[", "{", "return", "yield", "case", "for", "class", "module",
              "def", "id", "Id", "::", ":", "@"} \cup ControlWords \cup Ops

Tok(p) == IF p <= Len(text) THEN text[p] ELSE "eof"

SkipSpaces(p) == IF Tok(p) = "sp" THEN p + 1 ELSE p
SkipTerms(p) == CHOOSE q \in p .. p + Len(text) :
                  /\ Tok(q) \notin Terms
                  /\ \A r \in p .. q - 1 : Tok(r) \in Terms
NextSkipping(p) == SkipSpaces(p + 1)

\* The place after a name, with its `?`, `!` or `=`; the name may be the mark alone.
Marks(withEqSign) == IF withEqSign THEN {"?", "!", "="} ELSE {"?", "!"}
TestName(p, withEqSign) == Tok(p) \in Names \cup Marks(withEqSign)
NameEnd(p, withEqSign) ==
  LET q == IF Tok(p) \in Names THEN p + 1 ELSE p
  IN  IF Tok(q) \in Marks(withEqSign) THEN q + 1 ELSE q

\* r and the token `close` after it.
Closed(r, close, Make(_, _)) ==
  Then(r, LAMBDA q, tree : IF Tok(q) = close THEN Done(q + 1, Make(q, tree)) ELSE Fail(q))

\* r, a head that ends before `word` or a terminator, and what comes after.
Headed(r, word, K(_, _)) ==
  Then(r, LAMBDA q, tree : IF Tok(q) \in Terms \cup {word} THEN K(q, tree) ELSE Fail(q))

RECURSIVE Program(_), Statement(_, _), Modifiers(_, _), Primary(_), Suffixes(_, _),
          BinOpRight(_, _, _), Body(_, _), Rescues(_, _, _), IfBranches(_, _, _), Whens(_, _),
          Elements(_, _), Pairs(_, _), ArgList(_, _, _), Params(_, _, _, _), Lambda(_)

(***************************************************************************)
(* Statements                                                              *)
(***************************************************************************)
TopStatement(p) ==
  IF Tok(p) # "BEGIN" THEN Statement(p, 0)
  ELSE LET q == NextSkipping(p)
       IN  IF Tok(q) # "{" THEN Fail(q)
           ELSE Closed(Program(NextSkipping(q)), "}", LAMBDA r, block : block)

Program(p) ==
  LET q == SkipTerms(p)
  IN  IF Tok(q) = "eof" THEN Done(q, Block(<<>>))
      ELSE Then(TopStatement(q), LAMBDA r, stmt :
           Then(Program(r), LAMBDA s, rest : Done(s, Block(<<stmt>> \o rest.kids))))

Uncontrolled(p, precedence) ==
  LET q == SkipSpaces(p)
  IN  IF Tok(q) \notin Primaries THEN Fail(q)
      ELSE Then(Primary(q), LAMBDA r, prim : BinOpRight(r, prim, precedence))

Statement(p, precedence) == Then(Uncontrolled(p, precedence), Modifiers)

Modifiers(p, prim) ==
  IF Tok(p) \notin ControlWords THEN Done(p, prim)
  ELSE Then(Uncontrolled(NextSkipping(p), 0), LAMBDA q, cond :
       Modifiers(q, Controlled(Tok(p), cond, prim)))

\* Statements up to the first place where none can be parsed; it never throws.
Body(p, stmts) ==
  LET s == Attempt(p, Statement(p, 0))
  IN  IF s.ok THEN Body(SkipTerms(s.at), Append(stmts, s.tree)) ELSE Done(s.at, Block(stmts))

CompStatement(p) == Body(SkipTerms(p), <<>>)

(***************************************************************************)
(* Operators: `left` and the operators after it of at least the precedence *)
(***************************************************************************)
Conditional(p, left, precedence) ==
  Then(Closed(Statement(p + 1, precedence + 1), ":", LAMBDA q, yes : yes), LAMBDA q, yes :
  Then(Statement(q, precedence + 1), LAMBDA r, no :
       BinOpRight(r, If({p}, left, yes, no), precedence)))

RightOperandEager(p, right, op, precedence) ==  \* mutant: operators in a row group to the right
  IF Tok(p) \in BinOps /\ Precedence[op] <= Precedence[Tok(p)] THEN BinOpRight(p, right, precedence + 1)
                                                            ELSE Done(p, right)
\* What is right of op, whose operator before p binds closer or not.
RightOperand(p, right, op, precedence) ==
  LET next == Tok(p)
  IN  CASE next \in Ops \ BinOps -> Fail(p)
        [] next \in BinOps /\ Precedence[op] < Precedence[next] -> BinOpRight(p, right, precedence + 1)
        [] OTHER -> Done(p, right)

BinOpRight(p, left, precedence) ==
  LET q  == SkipSpaces(p)
      op == Tok(q)
  IN  CASE op \in Ops \ BinOps -> Fail(q)
        [] op \notin Ops \/ (op \in BinOps /\ Precedence[op] < precedence) -> Done(q, left)
        [] op = "?" /\ Precedence[op] >= precedence -> Conditional(q, left, precedence)
        [] OTHER -> Then(Primary(NextSkipping(q)), LAMBDA r, operand :
                    Then(RightOperand(SkipSpaces(r), operand, op, precedence), LAMBDA s, right :
                         BinOpRight(s, Node(op, {q}, <<left, right>>), precedence)))

(***************************************************************************)
(* Calls: arguments between parentheses, between brackets or plain, each   *)
(* with a block; a block after plain arguments is one of the last of them  *)
(***************************************************************************)
ClosingAlike == [paren |-> ")", bracket |-> ")", plain |-> "none"]  \* mutant
Closing == [paren |-> ")", bracket |-> "]", plain |-> "none"]

WithBlock(p, form, args) == Then(Lambda(p), LAMBDA q, block : Done(q, Args(form, args, block)))

ArgsEnd(p, form, args) ==
  LET q == SkipSpaces(p)
  IN  CASE form = "plain" /\ args # <<>> -> Done(p, Args(form, args, Null))
        [] OTHER -> IF Tok(q) \in {"{", "do"} THEN WithBlock(q, form, args)
                                              ELSE Done(q, Args(form, args, Null))

ArgList(p, form, args) ==
  LET start == IF form = "plain" THEN p ELSE SkipTerms(p)
      arg   == Attempt(start, Uncontrolled(start, 0))
      q     == arg.at
      all   == IF arg.ok THEN Append(args, arg.tree) ELSE args
  IN  CASE Tok(q) = Closing[form] -> ArgsEnd(q + 1, form, all)
        [] arg.ok /\ Tok(q) = "," -> ArgList(q + 1, form, all)
        [] arg.ok /\ Tok(q) = "nl" /\ form # "plain" -> ArgList(q + 1, form, all)
        [] OTHER -> IF form = "plain" THEN ArgsEnd(q, form, all) ELSE Fail(q)

CallArgs(p) ==
  LET q    == IF Tok(p) = "(" THEN p ELSE SkipSpaces(p)
      form == CASE Tok(p) = "(" -> "paren" [] Tok(q) = "[" -> "bracket" [] OTHER -> "plain"
      r    == SkipSpaces(IF form = "plain" THEN q ELSE q + 1)
  IN  IF form = "plain" /\ Tok(r) \in {"{", "do"} THEN WithBlock(r, form, <<>>)
                                                 ELSE ArgList(r, form, <<>>)

\* A block is a function without a name; its parameters stand between bars.
LambdaBody(p, close, own, params) ==
  Closed(CompStatement(p), close, LAMBDA q, body :
    Node("lambda", own \cup (IF close = "end" THEN {q} ELSE {}), <<params, body>>))

Lambda(p) ==
  LET close == IF Tok(p) = "do" THEN "end" ELSE "}"
      q     == SkipTerms(p + 1)
  IN  IF Tok(q) # "|" THEN LambdaBody(q, close, {}, Node("params", {}, <<>>))
      ELSE Then(Params(q + 1, TRUE, 0, <<>>), LAMBDA r, params :
             IF Tok(r) = "|" THEN LambdaBody(r + 1, close, {q, r}, params) ELSE Fail(r))

(***************************************************************************)
(* Parameters: ParamList says where each of them goes                      *)
(***************************************************************************)
Params(p, greedy, stage, found) ==
  LET Skip(q) == IF greedy THEN SkipTerms(q) ELSE SkipSpaces(q)
      Has(kinds) == \E i \in DOMAIN found : found[i].n \in kinds
      q == Skip(p)
      Found(r, newStage, param) ==
        LET s   == Skip(r)
            all == Append(found, param)
        IN  IF Tok(s) = "," THEN Params(s + 1, greedy, newStage, all)
                            ELSE Done(s, Node("params", {}, all))
      Sigil(newStage, kind) ==
        LET r == SkipTerms(q + 1)
        IN  IF Tok(r) \notin Names THEN Fail(r)
            ELSE Found(NextSkipping(r), newStage, Node(kind, {q, r}, <<>>))
      Named(r) ==
        LET value == Attempt(r, Statement(r, 0))
        IN  Found(value.at, 4, Node("named", {q}, <<value.tree>>))
      Default(r) ==
        Then(Statement(SkipTerms(NextSkipping(r)), 0), LAMBDA s, value :
          Found(s, 1, Node("default", {q, r}, <<value>>)))
      Required(r) ==
        IF ~Has({"default", "rest", "named"}) THEN Found(r, stage, Node("param", {q}, <<>>))
        ELSE IF stage > 3 THEN Fail(r) ELSE Found(r, 3, Node("param", {q}, <<>>))
      afterName == SkipSpaces(q + 1)
  IN  CASE Tok(q) = "*" /\ stage < 2 -> Sigil(3, "rest")
        [] Tok(q) = "&" /\ ~Has({"block_param"}) -> Sigil(stage, "block_param")
        [] \/ Tok(q) = "*" /\ stage >= 2
           \/ Tok(q) = "&" /\ Has({"block_param"})
           \/ Tok(q) \in Ops \ {"*", "&"} -> Fail(q)
        [] Tok(q) \in Names /\ Tok(q + 1) = ":" -> Named(SkipTerms(NextSkipping(q + 1)))
        [] Tok(q) \in Names /\ Tok(q + 1) # ":" /\ Tok(afterName) = "=" ->
             IF stage > 1 THEN Fail(afterName) ELSE Default(afterName)
        [] Tok(q) \in Names /\ Tok(q + 1) # ":" /\ Tok(afterName) # "=" -> Required(afterName)
        [] OTHER -> Done(q, Node("params", {}, found))

(***************************************************************************)
(* Definitions                                                             *)
(***************************************************************************)
FunctionName(p, singleton) ==
  LET Named(q) == Done(q, Node("name", p .. q - 1, <<singleton>>))
  IN  CASE TestName(p, TRUE) -> Named(NameEnd(p, TRUE))
        [] Tok(p) = "@" /\ Tok(p + 1) \in {"+", "-"} -> Named(p + 2)
        [] Tok(p) \in Ops \ {"?", "!", "=", "&&"} -> Named(p + 1)
        [] Tok(p) = "[" /\ Tok(p + 1) = "]" -> Named(IF Tok(p + 2) = "=" THEN p + 3 ELSE p + 2)
        [] OTHER -> Fail(p)

\* A statement with a dot behind it is what the method is defined on.
FunctionDefHeader(p) ==
  LET s == Attempt(p, Statement(p, 0))
      q == SkipTerms(s.at)
  IN  CASE ~s.ok -> FunctionName(s.at, Null)
        [] s.ok /\ Tok(q) = "." -> FunctionName(SkipTerms(q + 1), s.tree)
        [] s.ok /\ Tok(q) # "." -> FunctionName(p, Null)

FunctionDef(p) ==
  Then(FunctionDefHeader(SkipTerms(p + 1)), LAMBDA q, name :
    LET r == SkipSpaces(q)
        paren == Tok(r) = "("
        params == IF paren THEN Closed(Params(r + 1, TRUE, 0, <<>>), ")", LAMBDA s, found : found)
                           ELSE Params(r, FALSE, 0, <<>>)
    IN  Then(params, LAMBDA s, found :
          Closed(CompStatement(s), "end", LAMBDA t, body : Node("def", {t}, <<name, found, body>>))))

ClassBody(p, own, name, superclass) ==
  Then(CompStatement(p), LAMBDA q, body :
    LET r == SkipTerms(q)
    IN  IF Tok(r) # "end" THEN Fail(r)
        ELSE Done(r + 1, Node("class", own \cup {r}, <<name, superclass, body>>)))

ClassDef(p) ==
  LET q == SkipTerms(NextSkipping(p))
  IN  CASE Tok(q) = "<<" ->
             Then(Statement(q + 1, 0), LAMBDA r, instance :
               Closed(CompStatement(r), "end", LAMBDA s, body :
                 Node("class_instance", {q, s}, <<instance, body>>)))
        [] Tok(q) \in Ops \ {"<<"} -> Fail(q)
        [] OTHER ->
             Then(Primary(q), LAMBDA r, name :
               CASE Tok(r) = "<" -> Then(Statement(NextSkipping(r), 0), LAMBDA s, superclass :
                                      ClassBody(s, {r}, name, superclass))
                 [] Tok(r) \in Ops \ {"<"} -> Fail(r)
                 [] OTHER -> ClassBody(r, {}, name, Node("const", {}, <<>>)))

ModuleDef(p) ==
  Then(Primary(NextSkipping(p)), LAMBDA q, name :
    Closed(CompStatement(q), "end", LAMBDA r, body : Node("module", {r}, <<name, body>>)))

(***************************************************************************)
(* Control                                                                 *)
(***************************************************************************)
IfThen(p) ==
  Headed(Statement(p + 1, 0), "then", LAMBDA q, cond :
    Then(CompStatement(NextSkipping(q)), LAMBDA r, body :
      IF Tok(r) = "end" THEN Done(r + 1, If({r}, cond, body, Null)) ELSE IfBranches(r, cond, body)))

\* The last elsif, without an else, takes the place of the branch before it.
IfBranches(p, cond, body) ==
  CASE Tok(p) = "else" ->
         Closed(CompStatement(p + 1), "end", LAMBDA q, other : If({q}, cond, body, other))
    [] Tok(p) = "elsif" ->
         Headed(Statement(p + 1, 0), "then", LAMBDA q, cond1 :
           Then(CompStatement(NextSkipping(q)), LAMBDA r, body1 :
             IF Tok(r) = "end" THEN Done(r + 1, If({r}, cond, body1, Null))
             ELSE Then(IfBranches(r, cond1, body1), LAMBDA s, other :
                       Done(s, If({}, cond, body, other)))))
    [] OTHER -> Fail(p)

\* `unless` and `until` want an `end` and leave it, `while` does not look for one.
ControlBlock(p) ==
  Headed(Statement(p + 1, 0), IF Tok(p) = "unless" THEN "then" ELSE "do", LAMBDA q, cond :
    Then(CompStatement(NextSkipping(q)), LAMBDA r, body :
      IF Tok(p) # "while" /\ Tok(r) # "end" THEN Fail(r)
                                            ELSE Done(r, Controlled(Tok(p), cond, body))))

Whens(p, kids) ==
  LET q == SkipTerms(p)
  IN  IF Tok(q) # "when" THEN Fail(q)
      ELSE Headed(Statement(q + 1, 0), "then", LAMBDA r, cond :
             Then(CompStatement(r + 1), LAMBDA s, body :
               LET all == kids \o <<cond, body>>
               IN  IF Tok(s) = "end" THEN Done(s + 1, Node("case", {s}, all)) ELSE Whens(s, all)))

Case(p) ==
  LET q == NextSkipping(p)
  IN  IF Tok(q) \in Terms THEN Whens(q, <<Null>>)
      ELSE Then(Statement(q, 0), LAMBDA r, arg : Whens(r, <<arg>>))

\* A `do` before the body is not read, and the body then has no `end`.
For(p) ==
  Then(Closed(Statement(NextSkipping(p), 0), "in", LAMBDA q, var : var), LAMBDA q, var :
    Headed(Statement(q, 0), "do", LAMBDA r, expr :
      Closed(CompStatement(r), "end", LAMBDA s, body : Node("for", {s}, <<var, expr, body>>))))

RescueVar(p, type) ==
  LET q == NextSkipping(p)
  IN  IF Tok(q) \in Names THEN Done(NextSkipping(q), Node("rescue", {q}, <<type>>)) ELSE Fail(q)

RescueHead(p) ==
  CASE Tok(p) = "=>" -> RescueVar(p, Null)
    [] Tok(p) \in Terms \cup {"then"} -> Done(p, Node("rescue", {}, <<Null>>))
    [] OTHER -> Then(Statement(p, 0), LAMBDA q, type :
                  IF Tok(q) = "=>" THEN RescueVar(q, type) ELSE Done(q, Node("rescue", {}, <<type>>)))

\* `begin` wants an `end` and leaves it.
BeginEnd(p, main, rescues) ==
  Then(IF Tok(p) # "else" THEN Done(p, main)
       ELSE Then(CompStatement(p + 1), LAMBDA q, else : Done(q, Block(<<main, else>>))), LAMBDA q, tried :
  Then(IF Tok(q) = "ensure" THEN CompStatement(q + 1) ELSE Done(q, Null), LAMBDA r, ensure :
       IF Tok(r) # "end" THEN Fail(r)
       ELSE Done(r, IF rescues = <<>> /\ ensure = Null THEN tried
                    ELSE Node("begin", {}, <<tried>> \o rescues \o <<ensure>>))))

Rescues(p, main, rescues) ==
  IF Tok(p) # "rescue" THEN BeginEnd(p, main, rescues)
  ELSE Headed(RescueHead(NextSkipping(p)), "then", LAMBDA q, head :
         Then(CompStatement(q + 1), LAMBDA r, body :
           Rescues(r, main, Append(rescues, [head EXCEPT !.kids = Append(@, body)]))))

Begin(p) == Then(CompStatement(p + 1), LAMBDA q, main : Rescues(q, main, <<>>))

(***************************************************************************)
(* Primaries                                                               *)
(***************************************************************************)
Elements(p, all) ==
  Then(Statement(p, 0), LAMBDA q, element :
    CASE Tok(q) = "," -> Elements(q + 1, Append(all, element))
      [] Tok(q) = "]" -> Done(q + 1, Node("array", {}, Append(all, element)))
      [] OTHER -> Fail(q))

Array(p) ==
  LET q == SkipTerms(p + 1)
  IN  IF Tok(q) = "]" THEN Done(q + 1, Node("array", {}, <<>>)) ELSE Elements(q, <<>>)

\* A name with a colon is a symbol, unless a space follows the comma before it.
Pairs(p, all) ==
  LET colon == NextSkipping(p)
      key   == IF Tok(p) \in Names /\ Tok(colon) = ":"
               THEN Done(NextSkipping(colon), Node("symbol", {p}, <<>>))
               ELSE Closed(Statement(p, 0), "=>", LAMBDA q, k : k)
  IN  Then(key, LAMBDA q, k : Then(Statement(q, 0), LAMBDA r, value :
        LET s == SkipTerms(r)
        IN  CASE Tok(s) = "," -> Pairs(s + 1, all \o <<k, value>>)
              [] Tok(s) = "}" -> Done(s + 1, Node("hash", {}, all \o <<k, value>>))
              [] OTHER -> Fail(s)))

Hash(p) ==
  LET q == SkipTerms(p + 1)
  IN  IF Tok(q) = "}" THEN Done(q + 1, Node("hash", {}, <<>>)) ELSE Pairs(q, <<>>)

\* `:` and `@` take the name right behind them.
Marked(p, n) == IF Tok(p + 1) \in Names THEN Done(p + 2, Node(n, {p + 1}, <<>>)) ELSE Fail(p + 1)

\* A name is a call of what can be read as arguments; a constant needs at least one.
Identifier(p) ==
  LET q    == NameEnd(p, FALSE)
      args == Attempt(q, CallArgs(q))
  IN  Done(args.at,
           CASE Tok(p) = "Id" /\ ~(args.ok /\ Len(args.tree.kids) > 1) -> Node("const", p .. q - 1, <<>>)
             [] Tok(p) = "id" /\ ~args.ok -> Node("var", p .. q - 1, <<>>)
             [] OTHER -> Call(p .. q - 1, Null, args.tree))

Scoped(p, kids) ==
  IF ~TestName(p, FALSE) THEN Fail(p)
  ELSE Done(NameEnd(p, FALSE), Node("const", p .. NameEnd(p, FALSE) - 1, kids))

PrimaryObject(p) ==
  CASE Tok(p) = "lit" -> Done(p + 1, Node("lit", {p}, <<>>))
    [] Tok(p) = ":" -> Marked(p, "symbol")
    [] Tok(p) = "@" -> Marked(p, "instance_variable")
    [] Tok(p) = "begin" -> Begin(p)
    [] Tok(p) = "(" -> Closed(CompStatement(p + 1), ")", LAMBDA q, block : block)
    [] Tok(p) = "[" -> Array(p)
    [] Tok(p) = "{" -> Hash(p)
    [] Tok(p) \in {"return", "yield"} ->
         Then(CallArgs(IF Tok(p) = "return" THEN SkipSpaces(p + 1) ELSE p + 1), LAMBDA q, args :
           Done(q, Node(Tok(p), {}, <<args>>)))
    [] Tok(p) = "if" -> IfThen(p)
    [] Tok(p) \in ControlWords \ {"if"} -> ControlBlock(p)
    [] Tok(p) = "case" -> Case(p)
    [] Tok(p) = "for" -> For(p)
    [] Tok(p) = "class" -> ClassDef(p)
    [] Tok(p) = "module" -> ModuleDef(p)
    [] Tok(p) = "def" -> FunctionDef(p)
    [] Tok(p) \in Ops \ UnOps -> Fail(p)
    [] Tok(p) \in UnOps \cup {"not"} ->
         Then(Primary(p + 1), LAMBDA q, operand :
           Done(q, Node(IF Tok(p) = "not" THEN "not" ELSE "unary", {p}, <<operand>>)))
    [] Tok(p) \in Names -> Identifier(p)
    [] Tok(p) = "::" -> Scoped(SkipTerms(p + 1), <<>>)
    [] OTHER -> Done(p, Null)

\* Calls, indexings and constants behind an object; brackets after a name are a call of their own.
Dotted(p, object) ==
  IF Tok(p) = "(" THEN Then(CallArgs(p), LAMBDA q, args : Suffixes(q, Call({}, object, args)))
  ELSE IF ~TestName(p, FALSE) THEN Fail(p)
  ELSE LET name == p .. NameEnd(p, FALSE) - 1
       IN  Then(CallArgs(NameEnd(p, FALSE)), LAMBDA q, args :
             Suffixes(q, IF args.n = "bracket"
                         THEN Call({}, Call(name, object, Args("paren", <<>>, Null)), args)
                         ELSE Call(name, object, args)))

Suffixes(p, object) ==
  LET q == SkipSpaces(p)
  IN  CASE Tok(q) = "." -> Dotted(SkipTerms(q + 1), object)
        [] Tok(q) = "[" -> Then(CallArgs(q), LAMBDA r, args : Suffixes(r, Call({}, object, args)))
        [] Tok(q) = "::" -> Then(Scoped(q + 1, <<object>>), Suffixes)
        [] OTHER -> Done(p, object)

Primary(p) == Then(PrimaryObject(p), Suffixes)

(***************************************************************************)
(* main parses the file once.                                              *)
(***************************************************************************)
Init ==
  /\ \E i \in DOMAIN Corpus : \E input \in Corpus[i] : text = input.text /\ meant = input.tree
  /\ result = Unparsed

ParseProgram ==
  /\ result = Unparsed
  /\ result' = Program(1)
  /\ UNCHANGED <<text, meant>>

Next == ParseProgram

Spec == Init /\ [][Next]_vars

(***************************************************************************)
(* Properties                                                              *)
(***************************************************************************)
Accepted == result.ok

RECURSIVE Places(_), Separate(_), Shape(_), InOrder(_)
Places(tree) == tree.own \cup UNION {Places(tree.kids[i]) : i \in DOMAIN tree.kids}

\* No two nodes of the tree stand for the same token.
Separate(tree) ==
  \A i \in DOMAIN tree.kids :
    /\ Separate(tree.kids[i])
    /\ Places(tree.kids[i]) \cap tree.own = {}
    /\ \A j \in 1 .. i - 1 : Places(tree.kids[i]) \cap Places(tree.kids[j]) = {}

\* The tree without the places of its tokens.
Shape(tree) == [tree EXCEPT !.own = {}, !.kids = [i \in DOMAIN tree.kids |-> Shape(tree.kids[i])]]

\* The children of each node stand in the order of the text; only of a modifier the second is first,
\* and of a begin the else stands with the body, before the rescues.
InOrder(tree) ==
  \A i \in DOMAIN tree.kids :
    /\ InOrder(tree.kids[i])
    /\ \A j \in 1 .. i - 1 : \A p \in Places(tree.kids[j]), q \in Places(tree.kids[i]) :
         p < q \/ tree.n \in {"if", "while", "begin"}

\* What a tree has to show of its text: names, literals, operators and each `end`.
Significant == {p \in DOMAIN text : Tok(p) \in Names \cup Ops \cup {"lit", "not", "end"}}

\* Texts with a construct whose tree is known to leave something out: an elsif without an else
\* (IfBranches), or a block behind a constant without arguments (Identifier).
MayDrop == \/ \E p \in DOMAIN text : Tok(p) = "elsif"
           \/ \E p \in DOMAIN text : \E q \in p + 1 .. Len(text) : Tok(p) = "Id" /\ Tok(q) \in {"{", "do"}

Closer == "(" :> ")" @@ "[" :> "]" @@ "{" :> "}"

RECURSIVE Balanced(_, _)
Balanced(p, open) ==
  CASE Tok(p) = "eof" -> open = <<>>
    [] Tok(p) \in DOMAIN Closer -> Balanced(p + 1, <<Closer[Tok(p)]>> \o open)
    [] Tok(p) \in {")", "]", "}"} -> open # <<>> /\ Head(open) = Tok(p) /\ Balanced(p + 1, Tail(open))
    [] OTHER -> Balanced(p + 1, open)

\* However the parser goes back and reads again, a text it accepts was read to its end, and each
\* name, literal, operator and `end` of it became part of exactly one node of the tree
\* (parsePrimaryObject, parseCallArgs and parseFunctionDefHeader, which throw trees away and parse
\* their text anew).
EachTokenOnce ==
  Accepted => /\ result.at = Len(text) + 1
              /\ Separate(result.tree)
              /\ MayDrop \/ Significant \subseteq Places(result.tree)

\* A text whose parentheses, brackets and braces do not match is never accepted, though most
\* errors are caught and taken for the end of a list (parseCallArgs, parseCompStatement).
BracketsMatch == Accepted => Balanced(1, <<>>)

\* A text written from a tree is accepted and gives that tree: the constructs of the corpus are read,
\* in each other's places, as what they were written for.
ReadAsWritten ==
  result # Unparsed /\ meant # Null =>
    /\ Accepted
    /\ Shape(result.tree) = meant
    /\ InOrder(result.tree)
==============================================================================
