------------------------------- MODULE Codegen -------------------------------
(***************************************************************************)
(* BlockGenerator: the basic blocks of one function, generated in one pass *)
(* over its statements.  Each generating function keeps pointers to blocks *)
(* and values while it generates its parts, which split blocks, open       *)
(* others, allocate variables and move the insertion point.                *)
(*                                                                         *)
(* The statements are picked as generation comes to them, so that a        *)
(* behaviour is the generation of one program, which `program` keeps.  A   *)
(* basic block is its number.  Of its instructions those are kept that a   *)
(* caller of the function could tell: calls, variables, values and ends.   *)
(***************************************************************************)
EXTENDS Integers, Sequences, FiniteSets

CONSTANTS
  Statements,    \* the kinds of statement of the programs
  Names,         \* the names of variables
  Parameters,    \* the names that the preamble has allocated
  RescueLists,   \* the rescues of a begin: for a class or for any, and their variable
  MaxOperands,   \* bound: operands of a call or a return
  MaxStatements  \* bound: statements and rescues of a program

Kinds == {"literal", "call", "absent", "return", "assign", "index", "read",
          "holder", "block", "if", "while", "case", "begin"}

ASSUME CodegenAssumption ==
  /\ Statements \subseteq Kinds
  /\ Parameters \subseteq Names /\ Names \subseteq STRING \ {"null", "true", "false", "none"}
  /\ RescueLists \subseteq Seq([class : {"typed", "any"}, var : Names \cup {"none"}])
  /\ MaxOperands \in Nat /\ MaxStatements \in Nat

VARIABLES
  graph,       \* the function: its basic blocks and the insertion point
  handlers,    \* FunctionGenerator::handlers, landing pads
  variables,   \* FunctionGenerator::variables, the alloca of each name
  open,        \* the generating functions that run, outermost first
  value,       \* what the last codegenStatement returned
  mode,        \* what is generated next, or how generation ended
  program,     \* the statements so far, in the order of their generation
  room         \* the statements the bound leaves beside those that `open` still has to generate

vars == <<graph, handlers, variables, open, value, mode, program, room>>

\* A value is named for the statement it was generated for; 0 is for those that need no block.
Null     == <<0, "none">>  \* nullptr for a value or for the alloca of a name
NullPtr  == <<0, "null">>
True     == <<0, "true">>
False    == <<0, "false">>
Const(v) == v[1] = 0

-----------------------------------------------------------------------------
(* The IRBuilder.                                                          *)

\* An instruction: the value it gives, the values it takes, and if it ends its block where it
\* goes, and where if what it calls throws.
Instr(op, id, args)       == [op |-> op, id |-> id, args |-> args, targets |-> <<>>, unwind |-> 0]
To(op, args, targets)     == [Instr(op, Null, args) EXCEPT !.targets = targets]
Invoke(id, args, to, pad) == [Instr("invoke", id, args) EXCEPT !.targets = <<to>>, !.unwind = pad]
EndOps == {"br", "cond", "invoke", "return", "ret", "resume", "unreachable"}

Last(s) == s[Len(s)]
Size(g) == Len(g.blocks)

\* n blocks are created, numbered from Size(g) + 1.
Create(g, n) ==
  [g EXCEPT !.blocks = @ \o [i \in 1 .. n |-> [code |-> <<>>, phi |-> {}]]]
EmitAt(g, b, instr) == [g EXCEPT !.blocks[b].code = Append(@, instr)]
Emit(g, instr)      == EmitAt(g, g.cur, instr)
MoveTo(g, b)        == [g EXCEPT !.cur = b]
AddIncoming(g, b, id, v, from) ==
  [g EXCEPT !.blocks[b].phi = @ \cup {[id |-> id, value |-> v, from |-> from]}]

LangCallStays(g, id, args) ==  \* mutant: the insertion point stays at the invoke
  IF handlers = <<>> THEN Emit(g, Instr("call", id, args))
  ELSE Emit(Create(g, 1), Invoke(id, args, Size(g) + 1, Last(handlers)))
\* codegenLangCall: a call, or inside the main part of a begin an invoke, which ends the
\* block.
LangCall(g, id, args) ==
  IF handlers = <<>> THEN Emit(g, Instr("call", id, args))
  ELSE MoveTo(Emit(Create(g, 1), Invoke(id, args, Size(g) + 1, Last(handlers))), Size(g) + 1)

-----------------------------------------------------------------------------
(* The generating functions.                                               *)

\* A generating function that runs: its statement, the part it generates, how many of them are
\* left, whether it has its optional part, and its variables: the first of the blocks it
\* created, a block it came from, values of its parts, the rescues left and their handler.
Running(op, part, stmt) ==
  [op |-> op, part |-> part, stmt |-> stmt, left |-> 0, optional |-> FALSE, base |-> 0,
   from |-> 0, args |-> <<>>, rescues |-> <<>>, handler |-> 0]

Top     == Last(open)
Below   == SubSeq(open, 1, Len(open) - 1)
Push(f) == open' = Append(open, f)
TopIs(f) == open' = Append(Below, f)

\* The number of the next statement, and where it is in the one it is a part of.
This == Len(program) + 1
Node(kind, name) == [kind |-> kind, name |-> name, in |-> Top.stmt, part |-> Top.part]

\* A statement of this kind comes next, with as many parts as that; a body does; a value has
\* been generated for a part of op.
Starts(kind, parts) == mode = "statement" /\ kind \in Statements /\ parts <= room /\ room' = room - parts
Writes(kind, name)  == program' = Append(program, Node(kind, name))
Has(op, part) ==
  /\ mode = "value" /\ open # <<>> /\ Top.op = op /\ Top.part = part
  /\ UNCHANGED <<program, variables>>

\* A part is generated next, a body is, or there is a value.
Generate    == mode' = "statement" /\ UNCHANGED value
BeginsBody  == mode' = "body" /\ UNCHANGED value
Yields(v)   == mode' = "value" /\ value' = v

\* LLVM takes no null operand: the compiler ends, here or where it reads the function again.
Crashes == mode' = "crashed" /\ UNCHANGED <<graph, handlers, open, value, room>>

\* Constants, strings and symbols: at most a load.
Literal ==
  /\ Starts("literal", 0) /\ Writes("literal", "none")
  /\ graph' = Emit(graph, Instr("load", <<This, "value">>, <<>>)) /\ Yields(<<This, "value">>)
  /\ UNCHANGED <<handlers, variables, open>>

\* break, next, retry, yield, for and @a generate nothing.
Absent ==
  /\ Starts("absent", 0) /\ Writes("absent", "none")
  /\ Yields(Null) /\ UNCHANGED <<graph, handlers, variables, open>>

\* A constant of a holder: for the holder the constant itself is generated, until the stack ends.
HolderStarts ==
  /\ Starts("holder", 1) /\ Writes("holder", "none") /\ mode' = "crashed"
  /\ UNCHANGED <<graph, handlers, variables, open, value>>

\* codegenCall, and whatever else generates n operands and calls the run time: operators,
\* the assignment to an attribute, arrays and hashes, constants, and the definitions, whose
\* bodies are other functions.
CallStarts(n) ==
  /\ Starts("call", n) /\ Writes("call", "none") /\ UNCHANGED <<handlers, variables>>
  /\ IF n = 0 THEN /\ graph' = LangCall(graph, <<This, "value">>, <<>>)
                   /\ Yields(<<This, "value">>) /\ UNCHANGED open
     ELSE Push([Running("call", "operand", This) EXCEPT !.left = n]) /\ Generate /\ UNCHANGED graph

NextOperand ==
  /\ TopIs([Top EXCEPT !.left = @ - 1, !.args = Append(@, value)])
  /\ Generate /\ UNCHANGED <<graph, handlers, room>>

CallOperand ==
  /\ Has("call", "operand")
  /\ IF value = Null THEN Crashes
     ELSE IF Top.left > 1 THEN NextOperand
     ELSE /\ graph' = LangCall(graph, <<Top.stmt, "value">>, Append(Top.args, value))
          /\ open' = Below /\ Yields(<<Top.stmt, "value">>) /\ UNCHANGED <<handlers, room>>

\* codegenReturn: the end of the block, whatever comes after.
ReturnStarts(n) ==
  /\ Starts("return", n) /\ Writes("return", "none") /\ UNCHANGED <<handlers, variables>>
  /\ IF n = 0 THEN graph' = Emit(graph, To("return", <<>>, <<>>)) /\ Yields(Null) /\ UNCHANGED open
     ELSE Push([Running("return", "operand", This) EXCEPT !.left = n]) /\ Generate /\ UNCHANGED graph

\* Several values are put in an array, for which none may be missing.
ReturnOperand ==
  LET array    == <<Top.stmt, "value">>
      operands == Append(Top.args, value)
      returned == IF Len(operands) > 1 THEN <<array>> ELSE IF value = Null THEN <<>> ELSE <<value>>
      called   == IF Len(operands) > 1 THEN LangCall(graph, array, operands) ELSE graph
  IN  /\ Has("return", "operand")
      /\ IF Top.left > 1 THEN NextOperand
         ELSE IF Len(operands) > 1 /\ \E i \in DOMAIN operands : operands[i] = Null THEN Crashes
         ELSE /\ graph' = Emit(called, To("return", returned, <<>>))
              /\ open' = Below /\ Yields(Null) /\ UNCHANGED <<handlers, room>>

\* codegenBlock: a list of statements, maybe empty, whose value is the last one's, or nil.
BlockStarts ==
  /\ \/ Starts("block", 0)
     \/ mode = "body" /\ UNCHANGED room
  /\ Writes("block", "none") /\ Push(Running("block", "list", This))
  /\ Yields(Null) /\ UNCHANGED <<graph, handlers, variables>>
BlockGoesOn ==
  /\ Has("block", "list") /\ room > 0 /\ room' = room - 1
  /\ Generate /\ UNCHANGED <<graph, handlers, open>>
BlockEndsAsIs ==  \* mutant: no nil for a block without a value
  /\ Has("block", "list") /\ open' = Below /\ UNCHANGED <<graph, handlers, room>>
  /\ Yields(value)
BlockEnds ==
  LET nil == <<Top.stmt, "nil">> IN
  /\ Has("block", "list") /\ open' = Below /\ UNCHANGED <<handlers, room>>
  /\ IF value # Null THEN Yields(value) /\ UNCHANGED graph
     ELSE Yields(nil) /\ graph' = Emit(graph, Instr("load", nil, <<>>))

-----------------------------------------------------------------------------
(* Variables: codegenLocalVariable and the assignments.                    *)

\* A name that no assignment has been generated for is a call of self.
ReadStarts(name) ==
  LET slot == variables[name] IN
  /\ Starts("read", 0) /\ Writes(IF slot = Null THEN "call" ELSE "read", name)
  /\ graph' = IF slot = Null THEN LangCall(graph, <<This, "value">>, <<>>)
              ELSE Emit(graph, Instr("load", <<This, "value">>, <<slot>>))
  /\ Yields(<<This, "value">>) /\ UNCHANGED <<handlers, variables, open>>

AssignAfresh(name) ==  \* mutant: every assignment allocates
  LET slot == <<This, "slot">> IN
  /\ Starts("assign", 1) /\ Writes("assign", name) /\ UNCHANGED handlers
  /\ variables' = [variables EXCEPT ![name] = slot]
  /\ graph' = Emit(graph, Instr("alloca", slot, <<>>))
  /\ Push([Running("assign", "operand", This) EXCEPT !.args = <<slot>>]) /\ Generate
\* The first assignment to a name allocates it, before its right side and where it is.
AssignStarts(name) ==
  LET slot == IF variables[name] = Null THEN <<This, "slot">> ELSE variables[name] IN
  /\ Starts("assign", 1) /\ Writes("assign", name) /\ UNCHANGED handlers
  /\ variables' = [variables EXCEPT ![name] = slot]
  /\ graph' = IF variables[name] = Null THEN Emit(graph, Instr("alloca", slot, <<>>)) ELSE graph
  /\ Push([Running("assign", "operand", This) EXCEPT !.args = <<slot>>]) /\ Generate

AssignOperand ==
  /\ Has("assign", "operand")
  /\ IF value = Null THEN Crashes
     ELSE /\ graph' = Emit(graph, Instr("store", <<Top.stmt, "stored">>, Append(Top.args, value)))
          /\ open' = Below /\ Yields(value) /\ UNCHANGED <<handlers, room>>

\* a[b] op= c: the container and the index, [], then the right side, op and []=.
IndexStarts ==
  /\ Starts("index", 3) /\ Writes("index", "none")
  /\ Push([Running("index", "operand", This) EXCEPT !.left = 2]) /\ Generate
  /\ UNCHANGED <<graph, handlers, variables>>

IndexOperand ==
  LET before == LangCall(graph, <<Top.stmt, "before">>, Append(Top.args, value)) IN
  /\ Has("index", "operand")
  /\ IF value = Null THEN Crashes
     ELSE IF Top.left > 1 THEN NextOperand
     ELSE /\ graph' = before /\ TopIs([Top EXCEPT !.part = "right", !.args = Append(@, value)])
          /\ Generate /\ UNCHANGED <<handlers, room>>

IndexRightPlain ==  \* mutant: the operator is called and what it returns is not stored
  LET operated == LangCall(graph, <<Top.stmt, "operated">>, <<<<Top.stmt, "before">>, value>>)
      stored   == LangCall(operated, <<Top.stmt, "value">>, Append(Top.args, value))
  IN  /\ Has("index", "right")
      /\ IF value = Null THEN Crashes
         ELSE /\ graph' = stored /\ open' = Below
              /\ Yields(<<Top.stmt, "value">>) /\ UNCHANGED <<handlers, room>>
IndexRight ==
  LET operated == LangCall(graph, <<Top.stmt, "operated">>, <<<<Top.stmt, "before">>, value>>)
      stored   == LangCall(operated, <<Top.stmt, "value">>, Append(Top.args, <<Top.stmt, "operated">>))
  IN  /\ Has("index", "right")
      /\ IF value = Null THEN Crashes
         ELSE /\ graph' = stored /\ open' = Below
              /\ Yields(<<Top.stmt, "value">>) /\ UNCHANGED <<handlers, room>>

-----------------------------------------------------------------------------
(* codegenIf and codegenWhile.                                             *)

IfStarts(else) ==
  /\ Starts("if", IF else THEN 3 ELSE 2) /\ Writes("if", "none")
  /\ Push([Running("if", "condition", This) EXCEPT !.optional = else])
  /\ Generate /\ UNCHANGED <<graph, handlers, variables>>

\* codegenCase: the condition of one `when` as an if, whatever the case is of; with more of
\* them the loop that makes the ifs runs past the end of the vector.
CaseStarts(whens) ==
  /\ Starts("case", 2 * whens) /\ Writes("case", "none") /\ UNCHANGED <<graph, handlers, variables>>
  /\ IF whens = 1 THEN Push(Running("if", "condition", This)) /\ Generate
     ELSE mode' = "undefined" /\ UNCHANGED <<open, value>>

\* merge, trueBranch, falseBranch; then retained at the end of each branch.
IfCondition ==
  LET base  == Size(graph)
      ended == Emit(Create(graph, 3), To("cond", <<value>>, <<base + 2, base + 3>>))
  IN  /\ Has("if", "condition")
      /\ IF value = Null THEN Crashes
         ELSE /\ graph' = MoveTo(ended, base + 2)
              /\ TopIs([Top EXCEPT !.part = "true", !.base = base])
              /\ Generate /\ UNCHANGED <<handlers, room>>

\* The value of a branch that is not there.
NoBranch(f) == Instr("load", <<f.stmt, "nil">>, <<>>)

TrueBranchStale ==  \* mutant: trueBranch is not taken from the builder again
  LET left == MoveTo(Emit(graph, To("br", <<>>, <<Top.base + 1>>)), Top.base + 3) IN
  /\ Has("if", "true") /\ UNCHANGED <<handlers, room>>
  /\ graph' = IF Top.optional THEN left ELSE Emit(left, NoBranch(Top))
  /\ TopIs([Top EXCEPT !.part = "false", !.from = Top.base + 2, !.args = <<value>>])
  /\ IF Top.optional THEN Generate ELSE Yields(<<Top.stmt, "nil">>)
TrueBranch ==
  LET left == MoveTo(Emit(graph, To("br", <<>>, <<Top.base + 1>>)), Top.base + 3) IN
  /\ Has("if", "true") /\ UNCHANGED <<handlers, room>>
  /\ graph' = IF Top.optional THEN left ELSE Emit(left, NoBranch(Top))
  /\ TopIs([Top EXCEPT !.part = "false", !.from = graph.cur, !.args = <<value>>])
  /\ IF Top.optional THEN Generate ELSE Yields(<<Top.stmt, "nil">>)

FalseBranch ==
  LET merge == Top.base + 1
      id    == <<Top.stmt, "value">>
      left  == Emit(graph, To("br", <<>>, <<merge>>))
      phi   == AddIncoming(AddIncoming(left, merge, id, Top.args[1], Top.from), merge, id, value, graph.cur)
  IN  /\ Has("if", "false")
      /\ IF Null \in {Top.args[1], value} THEN Crashes
         ELSE /\ graph' = MoveTo(phi, merge) /\ open' = Below
              /\ Yields(id) /\ UNCHANGED <<handlers, room>>

\* body, condCheck, merge: the body is generated before the condition.
WhileStarts ==
  LET base == Size(graph) IN
  /\ Starts("while", 2) /\ Writes("while", "none") /\ UNCHANGED <<handlers, variables>>
  /\ graph' = MoveTo(Emit(Create(graph, 3), To("br", <<>>, <<base + 2>>)), base + 1)
  /\ Push([Running("while", "body", This) EXCEPT !.base = base, !.from = graph.cur])
  /\ Generate

\* The nil of a loop that is not entered is loaded where the phi is.
WhileBody ==
  LET check == Top.base + 2
      id    == <<Top.stmt, "value">>
      entry == <<Top.stmt, "entry">>
      left  == MoveTo(Emit(graph, To("br", <<>>, <<check>>)), check)
      phi   == AddIncoming(AddIncoming(left, check, id, entry, Top.from), check, id, value, graph.cur)
  IN  /\ Has("while", "body")
      /\ IF value = Null THEN Crashes
         ELSE /\ graph' = Emit(phi, Instr("load", entry, <<>>))
              /\ TopIs([Top EXCEPT !.part = "condition", !.args = <<value>>])
              /\ Generate /\ UNCHANGED <<handlers, room>>

WhileConditionOfBody ==  \* mutant: the value is the last one of the body
  LET ended == Emit(graph, To("cond", <<value>>, <<Top.base + 1, Top.base + 3>>)) IN
  /\ Has("while", "condition")
  /\ IF value = Null THEN Crashes
     ELSE /\ graph' = MoveTo(ended, Top.base + 3) /\ open' = Below
          /\ Yields(Top.args[1]) /\ UNCHANGED <<handlers, room>>
WhileCondition ==
  LET ended == Emit(graph, To("cond", <<value>>, <<Top.base + 1, Top.base + 3>>)) IN
  /\ Has("while", "condition")
  /\ IF value = Null THEN Crashes
     ELSE /\ graph' = MoveTo(ended, Top.base + 3) /\ open' = Below
          /\ Yields(<<Top.stmt, "value">>) /\ UNCHANGED <<handlers, room>>

-----------------------------------------------------------------------------
(* codegenExceptionalBlock.                                                *)

\* The blocks of a begin; the landing pad is `rescue`.
Pad(f)     == f.base + 1
Ensure(f)  == f.base + 2
Rethrow(f) == f.base + 3

\* The class of each rescue for one has to be generated; the bound counts every rescue.
BeginStarts(rescues, ensured) ==
  LET f == [Running("begin", "main", This) EXCEPT
              !.base = Size(graph), !.rescues = rescues, !.optional = ensured]
  IN  /\ Starts("begin", Len(rescues)) /\ Writes("begin", "none")
      /\ rescues # <<>> \/ ensured
      /\ graph' = Create(graph, 3) /\ handlers' = Append(handlers, Pad(f))
      /\ Push(f) /\ BeginsBody /\ UNCHANGED variables

\* The two phis of ensure: its value, and whether it throws again.
Joins(g, f, v, again, from) ==
  AddIncoming(AddIncoming(g, Ensure(f), <<f.stmt, "value">>, v, from),
              Ensure(f), <<f.stmt, "flag">>, again, from)

BeginMainKeepsPad ==  \* mutant: the pad is popped only by the next one
  LET left == Emit(graph, To("br", <<>>, <<Ensure(Top)>>)) IN
  /\ Has("begin", "main") /\ UNCHANGED <<handlers, room>>
  /\ graph' = MoveTo(Joins(left, Top, value, False, graph.cur), Ensure(Top))
  /\ TopIs([Top EXCEPT !.part = "ensure"])
  /\ IF Top.optional THEN BeginsBody ELSE Yields(Null)
\* The main part and its else are done: the pad is popped, and the ensure comes next.
BeginMain ==
  LET left == Emit(graph, To("br", <<>>, <<Ensure(Top)>>)) IN
  /\ Has("begin", "main") /\ UNCHANGED room
  /\ handlers' = SubSeq(handlers, 1, Len(handlers) - 1)
  /\ graph' = MoveTo(Joins(left, Top, value, False, graph.cur), Ensure(Top))
  /\ TopIs([Top EXCEPT !.part = "ensure"])
  /\ IF Top.optional THEN BeginsBody ELSE Yields(Null)

\* exceptionBlockFinish and handler, then the landing pad and rethrow, which resumes with
\* the pad's token.  The pad compares a type with itself (line 649) and goes to handler if
\* that is greater: never.  The rescues need the exception.  From here on `optional` is
\* hasFallbackCatch, `from` is finish and `args` the exception.
BeginEnsure ==
  LET finish    == Size(graph) + 1
      handler   == Size(graph) + 2
      token     == <<Top.stmt, "token">>
      exception == <<Top.stmt, "exception">>
      leaves    == Emit(Create(graph, 2), To("cond", <<<<Top.stmt, "flag">>>>, <<Rethrow(Top), finish>>))
      padded    == EmitAt(EmitAt(leaves, Pad(Top), Instr("landingpad", token, <<>>)),
                          Pad(Top), To("cond", <<False>>, <<handler, Rethrow(Top)>>))
      resumes   == EmitAt(padded, Rethrow(Top), To("resume", <<token>>, <<>>))
      handles   == MoveTo([resumes EXCEPT !.begins = @ \cup {[pad |-> Pad(Top), ensure |-> Ensure(Top),
                                            rethrow |-> Rethrow(Top), finish |-> finish]}], handler)
  IN  /\ Has("begin", "ensure")
      /\ graph' = IF Top.rescues = <<>> THEN handles ELSE LangCall(handles, exception, <<token>>)
      /\ TopIs([Top EXCEPT !.part = "rescue", !.from = finish, !.handler = handler,
                           !.args = <<exception>>, !.optional = FALSE])
      /\ Yields(Null) /\ UNCHANGED <<handlers, room>>

\* The clause of a rescue, whose number is This: its variable, always a new one, and
\* __cxa_begin_catch.
Catch(g, rescue) ==
  LET slot      == <<This, "slot">>
      allocated == Emit(Emit(g, Instr("alloca", slot, <<>>)),
                        Instr("store", <<This, "stored">>, <<slot, Top.args[1]>>))
  IN  LangCall(IF rescue.var = "none" THEN g ELSE allocated, <<This, "caught">>, <<>>)
Catches(g, rescue) ==
  /\ graph' = Catch(g, rescue)
  /\ variables' = IF rescue.var = "none" THEN variables
                  ELSE [variables EXCEPT ![rescue.var] = <<This, "slot">>]

\* Which rescue comes next.
RescueIs(class) ==
  /\ mode = "value" /\ open # <<>> /\ Top.op = "begin"
  /\ Top.rescues # <<>> /\ Head(Top.rescues).class = class
  /\ UNCHANGED <<handlers, program, room>>

\* A rescue for any exception has no block of its own.
RescueAny ==
  /\ RescueIs("any") /\ Top.part = "rescue" /\ Catches(graph, Head(Top.rescues))
  /\ TopIs([Top EXCEPT !.part = "clause", !.optional = TRUE]) /\ BeginsBody

RescueTyped ==
  /\ RescueIs("typed") /\ Top.part = "rescue"
  /\ TopIs([Top EXCEPT !.part = "class"]) /\ Generate /\ UNCHANGED <<graph, variables>>

\* invalidExceptionBlock, validExceptionBlock; the comparison, clause and the next handler.
RescueClass ==
  LET invalid  == Size(graph) + 1
      compare  == <<This, "compared">>
      checked  == Emit(Create(graph, 2), To("cond", <<value>>, <<invalid + 1, invalid>>))
      valid    == MoveTo(EmitAt(checked, invalid, To("unreachable", <<>>, <<>>)), invalid + 1)
      compared == LangCall(valid, compare, <<value, Top.args[1]>>)
      clause   == Size(compared) + 1
      matched  == MoveTo(Emit(Create(compared, 2), To("cond", <<compare>>, <<clause, clause + 1>>)), clause)
  IN  /\ RescueIs("typed") /\ Top.part = "class"
      /\ IF value = Null THEN mode' = "crashed" /\ UNCHANGED <<graph, variables, open, value>>
         ELSE /\ Catches(matched, Head(Top.rescues))
              /\ TopIs([Top EXCEPT !.part = "clause", !.handler = clause + 1]) /\ BeginsBody

\* __cxa_end_catch at the end of a clause.
EndCatch == LangCall(graph, <<Top.stmt, "ended">>, <<>>)

RescueClauseSkips ==  \* mutant: a rescue goes on behind the begin
  LET leaves == Emit(Joins(EndCatch, Top, value, False, EndCatch.cur), To("br", <<>>, <<Top.from>>)) IN
  /\ Has("begin", "clause") /\ UNCHANGED <<handlers, room>>
  /\ graph' = MoveTo(leaves, Top.handler)
  /\ TopIs([Top EXCEPT !.part = "rescue", !.rescues = Tail(@)]) /\ Yields(Null)
\* The code of a rescue is done, and goes to ensure.
RescueClause ==
  LET leaves == Emit(Joins(EndCatch, Top, value, False, EndCatch.cur), To("br", <<>>, <<Ensure(Top)>>)) IN
  /\ Has("begin", "clause") /\ UNCHANGED <<handlers, room>>
  /\ graph' = MoveTo(leaves, Top.handler)
  /\ TopIs([Top EXCEPT !.part = "rescue", !.rescues = Tail(@)]) /\ Yields(Null)

\* An exception that no rescue is for goes to ensure, which throws it again.
BeginFinish ==
  LET ensured == Emit(Joins(graph, Top, NullPtr, True, Top.handler), To("br", <<>>, <<Ensure(Top)>>)) IN
  /\ Has("begin", "rescue") /\ Top.rescues = <<>> /\ UNCHANGED <<handlers, room>>
  /\ graph' = MoveTo(IF Top.optional THEN graph ELSE ensured, Top.from)
  /\ open' = Below /\ Yields(<<Top.stmt, "value">>)

-----------------------------------------------------------------------------
\* emmitIR: the entry block, to which the preamble branches, and the body, statement 1.
Init ==
  /\ graph = [blocks |-> <<[code |-> <<>>, phi |-> {}]>>, cur |-> 1, begins |-> {}]
  /\ handlers = <<>> /\ open = <<Running("block", "list", 1)>>
  /\ variables = [name \in Names |-> IF name \in Parameters THEN <<0, name>> ELSE Null]
  /\ value = Null /\ mode = "value"
  /\ program = <<[kind |-> "block", name |-> "none", in |-> 0, part |-> "body"]>>
  /\ room = MaxStatements

\* FunctionGenerator::emmitIR returns what the body yields.
Finish ==
  /\ mode = "value" /\ open = <<>>
  /\ graph' = Emit(graph, To("ret", <<value>>, <<>>)) /\ mode' = "finished"
  /\ UNCHANGED <<handlers, variables, open, value, program, room>>

Next ==
  \/ Literal \/ Absent \/ HolderStarts
  \/ \E n \in 0 .. MaxOperands : CallStarts(n) \/ ReturnStarts(n)
  \/ CallOperand \/ ReturnOperand
  \/ BlockStarts \/ BlockGoesOn \/ BlockEnds
  \/ \E name \in Names : ReadStarts(name) \/ AssignStarts(name)
  \/ AssignOperand \/ IndexStarts \/ IndexOperand \/ IndexRight
  \/ \E else \in BOOLEAN : IfStarts(else)
  \/ \E whens \in 1 .. 2 : CaseStarts(whens)
  \/ IfCondition \/ TrueBranch \/ FalseBranch
  \/ WhileStarts \/ WhileBody \/ WhileCondition
  \/ \E rescues \in RescueLists, ensured \in BOOLEAN : BeginStarts(rescues, ensured)
  \/ BeginMain \/ BeginEnsure \/ RescueAny \/ RescueTyped \/ RescueClass \/ RescueClause \/ BeginFinish
  \/ Finish

Spec == Init /\ [][Next]_vars

-----------------------------------------------------------------------------
(* Properties.                                                             *)

Blocks == 1 .. Size(graph)
Tags   == {"none", "null", "true", "false", "value", "stored", "slot", "before", "operated", "nil",
           "entry", "flag", "token", "exception", "caught", "compared", "ended"} \cup Names
Ids    == (0 .. Len(program) + 1) \X Tags
Parts  == {"operand", "right", "list", "condition", "true", "false", "body",
           "main", "ensure", "rescue", "class", "clause"}
Instrs == [op : EndOps \cup {"load", "alloca", "store", "call", "landingpad"}, id : Ids,
           args : Seq(Ids), targets : Seq(Blocks), unwind : Blocks \cup {0}]

TypeOK ==
  /\ graph.cur \in Blocks
  /\ \A b \in Blocks :
       /\ \A i \in DOMAIN graph.blocks[b].code : graph.blocks[b].code[i] \in Instrs
       /\ graph.blocks[b].phi \subseteq [id : Ids, value : Ids \ {Null}, from : Blocks]
  /\ graph.begins \subseteq [pad : Blocks, ensure : Blocks, rethrow : Blocks, finish : Blocks]
  /\ handlers \in Seq(Blocks)
  /\ variables \in [Names -> Ids]
  /\ value \in Ids
  /\ mode \in {"statement", "body", "value", "finished", "crashed", "undefined"}
  /\ mode = "finished" => value # Null
  /\ program \in Seq([kind : Kinds, name : Names \cup {"none"}, in : Nat, part : Parts])
  /\ room \in 0 .. MaxStatements

IsEnd(instr) == instr.op \in EndOps
Members(s) == {s[i] : i \in DOMAIN s}
EndsOf(b)  == {e \in Members(graph.blocks[b].code) : IsEnd(e)}
Normal(b)  == UNION {Members(e.targets) : e \in EndsOf(b)}
Unwinds(b) == {e.unwind : e \in EndsOf(b)} \ {0}
Preds(b)   == {a \in Blocks : b \in Normal(a) \cup Unwinds(a)}

\* The blocks that control can be in without passing through those of `barred`.
ReachedAvoiding(barred) ==
  LET step(S) == S \cup ((UNION {Normal(b) \cup Unwinds(b) : b \in S}) \ barred)
      reach[n \in 0 .. Size(graph)] == IF n = 0 THEN {1} \ barred ELSE step(reach[n - 1])
  IN  reach[Size(graph)]
Dominates(d, b) == d = b \/ b \notin ReachedAvoiding({d})

Finished == mode = "finished"

\* Where a value is defined (a phi at 0, the result of an invoke where that goes), and where
\* one is used (a phi at the end of the block it comes from), and for which statement.
DefinedAt(v) ==
  {<<b, 0>> : b \in {b \in Blocks : \E p \in graph.blocks[b].phi : p.id = v}}
  \cup UNION {LET code == graph.blocks[b].code IN
              {IF code[i].op = "invoke" THEN <<code[i].targets[1], 0>> ELSE <<b, i>>
               : i \in {i \in DOMAIN code : code[i].id = v}} : b \in Blocks}
UsesIn(b) ==
  LET code == graph.blocks[b].code
      use(v, at, block, i) == [value |-> v, by |-> at, block |-> block, at |-> i]
  IN  (UNION {{use(v, code[i].id[1], b, i) : v \in Members(code[i].args)} : i \in DOMAIN code})
      \cup {use(p.value, p.id[1], p.from, Len(graph.blocks[p.from].code) + 1) : p \in graph.blocks[b].phi}
IsDefined(u) ==
  \E d \in DefinedAt(u.value) : IF d[1] = u.block THEN d[2] < u.at ELSE Dominates(d[1], u.block)

\* A statement and those it is a part of.
Within(s) ==
  LET within[n \in 0 .. Len(program)] == IF n = 0 THEN {} ELSE {n} \cup within[program[n].in]
  IN  within[s]

\* Statement s is in the scope of a variable that statement a allocates: within a, or after
\* it, in a place that is come to only when a has been done.
AlwaysDone == {"operand", "right", "list", "condition", "ensure"}
Then == {<<"operand", "operand">>, <<"operand", "right">>, <<"list", "list">>,
         <<"condition", "true">>, <<"condition", "false">>, <<"class", "class">>, <<"class", "clause">>}
InScope(a, s) ==
  \/ a \in Within(s)
  \/ \E p \in Within(a), q \in Within(s) :
       /\ program[p].in = program[q].in /\ p < q
       /\ <<program[p].part, program[q].part>> \in Then
       /\ \A n \in Within(a) \ Within(p) : program[n].part \in AlwaysDone

\* What should have allocated the variable in use u: its parameter, the rescue that has it,
\* or the first assignment to its name.
Allocator(u) ==
  LET slotOf == u.value[1]
      name   == program[slotOf].name
      first(n) == \A m \in 1 .. n - 1 : program[m].kind = "assign" => program[m].name # name
  IN  IF slotOf = 0 THEN 0
      ELSE IF program[slotOf].kind = "block" THEN slotOf
      ELSE IF name \in Parameters THEN 0
      ELSE CHOOSE n \in 1 .. slotOf : first(n) /\ program[n].name = name /\ program[n].kind = "assign"
UsedInScope(u) == Allocator(u) = 0 \/ InScope(Allocator(u), u.by)

\* Every block is ended once, by its last instruction but for what follows a `return`:
\* however the parts of a construct move the insertion point, it goes on where they left off.
BlocksEndOnce ==
  Finished =>
    \A b \in Blocks :
      LET code  == graph.blocks[b].code
          ended == {i \in DOMAIN code : IsEnd(code[i]) /\ code[i].op # "return"}
      IN  ended = {Len(code)}

\* A phi has one value for each way into its block, although the parts it joins may end in
\* other blocks than they began in, and a begin adds ways in long after ensure is done.
PhisMatchPredecessors ==
  Finished =>
    \A b \in Blocks :
      LET phi == graph.blocks[b].phi
      IN  /\ \A id \in {p.id : p \in phi} : {p.from : p \in {p \in phi : p.id = id}} = Preds(b)
          /\ \A p, q \in phi : p.from = q.from /\ p.id = q.id => p = q

\* The value of a statement is one that the code after it may use, whatever blocks it
\* opened, and a variable is allocated on every way to where it is used in its scope.  Not
\* the two values that the verifier refuses in every while and begin.
OperandsAreDefined ==
  Finished =>
    \A b \in Blocks : \A u \in UsesIn(b) :
      \/ Const(u.value) \/ u.value[2] \in {"entry", "token"}
      \/ u.value[2] = "slot" /\ ~UsedInScope(u)
      \/ IsDefined(u)

\* Calls go to the rescue of the innermost begin whose main part they are in: those of
\* rescue, else and ensure clauses do not go to their own begin.
InMain == {i \in DOMAIN open : open[i].op = "begin" /\ open[i].part = "main"}
HandlersNest ==
  \E at \in [DOMAIN handlers -> InMain] :
    /\ \A i \in DOMAIN handlers : handlers[i] = Pad(open[at[i]])
    /\ \A i, j \in DOMAIN handlers : i < j => at[i] < at[j]
    /\ InMain = {at[i] : i \in DOMAIN handlers}

\* A begin is left by its end only through its ensure, by no way around it, and a
\* rescue is entered by an exception of the main part only.
EnsureIsPassed ==
  Finished =>
    /\ \A r \in graph.begins :
         /\ Dominates(r.ensure, r.finish)
         /\ \A b \in Blocks : r.pad \notin Normal(b)
    /\ \A b \in Blocks : Unwinds(b) \subseteq {r.pad : r \in graph.begins}

\* What the verifier that FunctionGenerator.cpp:51 runs wants of a function.
VerifierAccepts ==
  Finished =>
    \A b \in Blocks :
      /\ Cardinality({i \in DOMAIN graph.blocks[b].code : IsEnd(graph.blocks[b].code[i])}) = 1
      /\ \A u \in UsesIn(b) : Const(u.value) \/ IsDefined(u)
==============================================================================
