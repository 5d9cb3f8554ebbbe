------------------------------ MODULE Execution ------------------------------
(***************************************************************************)
(* What the code that Codegen generates does when it is run, against what  *)
(* the statements say.  What can be seen of a run is its trace: its calls  *)
(* with their arguments, its tests with their outcomes, and what it        *)
(* returns.  Either outcome of a test is possible; no call throws.         *)
(***************************************************************************)
EXTENDS Codegen, TLC

CONSTANT MaxTests  \* bound: a run is followed up to this many tests

ASSUME ExecutionAssumption == MaxTests \in Nat

\* A value at run time: what made it, and after how many events.
Constant(v) == <<v, 0>>
Nil         == Constant(<<0, "nil">>)
Undefined   == Constant(<<0, "undefined">>)
NoValue     == Constant(Null)
Event(what, args, outcome) == <<what, args, outcome>>
Tests(trace) == Cardinality({i \in DOMAIN trace : trace[i][1] = <<0, "test">>})

Tested(trace, v, outcome) == Append(trace, Event(<<0, "test">>, <<v>>, outcome))
Called(trace, id, args)   == Append(trace, Event(id, args, TRUE))
Returned(trace, v)        == Append(trace, Event(<<0, "return">>, <<v>>, TRUE))

-----------------------------------------------------------------------------
(* The machine.  `env` has the values and, under its name, what is in each *)
(* variable.                                                               *)

ValueIn(env, v) == IF v \in DOMAIN env THEN env[v] ELSE IF Const(v) THEN Constant(v) ELSE Undefined

\* The phis of a block are assigned together.
Enter(env, from, to) ==
  LET phi == {p \in graph.blocks[to].phi : p.from = from}
      in  == [id \in {p.id : p \in phi} |-> ValueIn(env, (CHOOSE p \in phi : p.id = id).value)]
  IN  in @@ env

\* The nil of a loop is not defined on the way into it.
Loaded(env, instr) ==
  CASE instr.args # <<>>          -> ValueIn(env, instr.args[1])
    [] instr.id[2] = "nil"        -> Nil
    [] instr.id[2] = "entry"      -> Undefined
    [] OTHER                      -> Constant(instr.id)

RECURSIVE Runs(_, _, _, _)
Runs(b, i, env, trace) ==
  LET instr   == graph.blocks[b].code[i]
      arg(n)  == ValueIn(env, instr.args[n])
      args    == [n \in DOMAIN instr.args |-> arg(n)]
      goes(n, e, t) == Runs(instr.targets[n], 1, Enter(e, b, instr.targets[n]), t)
      goesOn(id, v, t) == Runs(b, i + 1, (id :> v) @@ env, t)
      called  == Called(trace, instr.id, args)
      result  == <<instr.id, Len(called)>>
  IN  CASE instr.op = "load"   -> goesOn(instr.id, Loaded(env, instr), trace)
        [] instr.op = "alloca" -> goesOn(instr.id, Undefined, trace)
        [] instr.op = "store"  -> goesOn(instr.args[1], arg(2), trace)
        [] instr.op = "call"   -> goesOn(instr.id, result, called)
        [] instr.op = "invoke" -> goes(1, (instr.id :> result) @@ env, called)
        [] instr.op = "br"     -> goes(1, env, trace)
        [] instr.op = "ret"    -> {Returned(trace, arg(1))}
        [] instr.op = "cond" /\ arg(1) = Constant(True)  -> goes(1, env, trace)
        [] instr.op = "cond" /\ arg(1) = Constant(False) -> goes(2, env, trace)
        [] OTHER -> IF Tests(trace) = MaxTests THEN {trace}
                    ELSE goes(1, env, Tested(trace, arg(1), TRUE)) \cup goes(2, env, Tested(trace, arg(1), FALSE))

-----------------------------------------------------------------------------
(* The statements.  A state is the variables by name and the trace; doing  *)
(* a statement gives one or more of them, each with a value.               *)

PartsNamed(s, part) ==
  SelectSeq([n \in 1 .. Len(program) |-> n], LAMBDA n : program[n].in = s /\ program[n].part = part)
Result(v, env, trace, stopped) == [value |-> v, env |-> env, trace |-> trace, stopped |-> stopped]
Calls(r, id, args) ==
  LET trace == Called(r.trace, id, args) IN [r EXCEPT !.trace = trace, !.value = <<id, Len(trace)>>]
Outcomes(r) ==
  IF Tests(r.trace) = MaxTests THEN {} ELSE {[r EXCEPT !.trace = Tested(@, r.value, o)] : o \in BOOLEAN}
Outcome(r) == Last(r.trace)[3]

\* After r, what `next` gives, unless r stopped or is stopped by a test too many.
Continue(r, next(_)) == IF r.stopped THEN {r} ELSE next(r)
Test(r, next(_)) ==
  IF r.stopped THEN {r}
  ELSE IF Outcomes(r) = {} THEN {[r EXCEPT !.stopped = TRUE]}
  ELSE UNION {next(o) : o \in Outcomes(r)}

RECURSIVE Does(_, _), InOrder(_, _, _), Loop(_, _, _)
\* A list of statements, each with the values of those before it.
InOrder(list, values, r) ==
  IF list = <<>> \/ r.stopped THEN {[result |-> r, values |-> values]}
  ELSE UNION {InOrder(Tail(list), Append(values, t.value), t) : t \in Does(Head(list), r)}

\* A loop yields the last value of its body.
Loop(s, yields, r) ==
  LET body(o) == IF Outcome(o)
                 THEN UNION {Continue(t, LAMBDA u : Loop(s, u.value, u)) : t \in Does(PartsNamed(s, "body")[1], o)}
                 ELSE {[o EXCEPT !.value = yields]}
  IN  UNION {Test(t, body) : t \in Does(PartsNamed(s, "condition")[1], r)}

Does(s, r) ==
  LET kind   == program[s].kind
      id     == <<s, "value">>
      part(name, t) == IF PartsNamed(s, name) = <<>> THEN {[t EXCEPT !.value = Nil]} ELSE Does(PartsNamed(s, name)[1], t)
      calls(t) == IF t.result.stopped THEN t.result ELSE Calls(t.result, id, t.values)
      block(t) == IF t.values = <<>> \/ t.result.value = NoValue
                  THEN [t.result EXCEPT !.value = Nil] ELSE t.result
      branch(t) == part(IF Outcome(t) THEN "true" ELSE "false", t)
      stores(t) == [t EXCEPT !.env[program[s].name] = t.value]
      sets(values, before, t) ==
        LET operated == Calls(t, <<s, "operated">>, <<before, t.value>>)
        IN  Calls(operated, id, Append(values, operated.value))
      index(values, before) ==
        UNION {Continue(t, LAMBDA u : {sets(values, before.value, u)}) : t \in Does(PartsNamed(s, "right")[1], before)}
  IN  CASE kind = "literal" -> {[r EXCEPT !.value = Constant(id)]}
        [] kind = "absent"  -> {[r EXCEPT !.value = NoValue]}
        [] kind = "read"    -> {[r EXCEPT !.value = r.env[program[s].name]]}
        [] kind = "call"    -> {calls(t) : t \in InOrder(PartsNamed(s, "operand"), <<>>, r)}
        [] kind = "block"   -> {block(t) : t \in InOrder(PartsNamed(s, "list"), <<>>, r)}
        [] kind = "assign"  -> {stores(t) : t \in Does(PartsNamed(s, "operand")[1], r)}
        [] kind = "index"   -> UNION {Continue(t.result, LAMBDA u : index(t.values, Calls(u, <<s, "before">>, t.values)))
                                      : t \in InOrder(PartsNamed(s, "operand"), <<>>, r)}
        [] kind \in {"if", "case"} -> UNION {Test(t, branch) : t \in Does(PartsNamed(s, "condition")[1], r)}
        [] kind = "while"   -> Loop(s, Undefined, r)
        [] kind = "begin"   -> UNION {Continue(t, LAMBDA u : {[v EXCEPT !.value = IF v.stopped THEN @ ELSE u.value]
                                                              : v \in part("ensure", u)})
                                      : t \in Does(PartsNamed(s, "main")[1], r)}

-----------------------------------------------------------------------------
\* Every use of a variable is in the scope of the assignment that allocates it, and not in the
\* right side of that.
WellScoped ==
  \A b \in Blocks : \A u \in UsesIn(b) :
    u.value[2] = "slot" =>
      /\ UsedInScope(u)
      /\ Allocator(u) \in {0, u.by} \/ program[Allocator(u)].kind = "block" \/ Allocator(u) \notin Within(u.by)

\* A program runs as it was written: the generated function makes the calls and the tests of
\* its statements, in their order, with their values, and returns what they yield, however
\* its tests come out.  Not a function with a return, which is malformed.
RunsAsWritten ==
  Finished /\ WellScoped /\ (\A s \in DOMAIN program : program[s].kind # "return") =>
    LET start   == [name \in Names |-> Constant(<<0, name>>)]
        written == Does(1, Result(NoValue, start, <<>>, FALSE))
        slots   == [v \in {<<0, name>> : name \in Parameters} |-> Constant(v)]
    IN  Runs(1, 1, slots, <<>>) = {IF r.stopped THEN r.trace ELSE Returned(r.trace, r.value) : r \in written}
==============================================================================
