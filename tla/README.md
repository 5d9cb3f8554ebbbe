# UltraRuby in TLA+

UltraRuby compiles one Ruby file to machine code and runs it. These modules model the parts of
it where the order of things matters: the token stream under a backtracking parser, the parser, the
sorting and binding of parameters, the code that the generator leaves and what it does when it
runs, the objects a program makes, the calls between its methods, and the files on the way from
a program to its execution. TLC checks them on small
instances; the modules ending in `Proofs` prove theorems about them for every value of their
constants. Paths below are under `src/src/`.

## The system

`main.cpp` runs everything once, in one thread:

1. `BasicClasses::init`, `PrimaryConstants::init` and `NativeImplLoader::loadImpl` make the boot
   objects and their native methods.
2. `Lexer` and `Parser` turn the file into an AST. The parser takes its first token outside the
   `try` block that reports errors.
3. `FunctionGenerator` generates one LLVM function for each method, class body and module body,
   and one, `top_required`, for the file: `PreambleGenerator` its parameters, `BlockGenerator`
   its statements.
4. `EmittedObject` writes `obj.o`, links `obj.so` and `main` loads it.
5. `top_required` runs on the global scope. An uncaught `Lang::Exception` is reported.

| Part | State | Operations | Meets the others by | Hard because | Correct if |
|---|---|---|---|---|---|
| Lexer, token queue (`lexer/`, `ParseRewindGuard`) | text, position, character in hand, queue and index, the parser's copy of the token | lex one token, advance, guard, keep and go back | the queue calls the lexer back; guards go back in destructors | lexing on demand, backtracking, exceptions that unwind through guards | the parser sees what it would of a text lexed in advance; nothing is lost; reading ends |
| Parser (`parser/`) | AST so far, stage of a parameter list | one function per construct | advances and rewinds the queue | lookahead by failing; which construct takes which `end` | the AST is that of the text |
| Parameters (`Parser::parseFuncDefArgs`, `ast/FunctionDef`, `PreambleGenerator`) | six lists; argc, argv, hash | sort, choose a convention, bind | the convention is what the dispatchers read | every mixture of kinds, boundaries of argc | each argument reaches one parameter, in order |
| Generator (`BlockGenerator`, `FunctionGenerator`) | blocks, insertion point, stack of landing pads, the alloca of each name | one function per kind of statement | recursion; LLVM | parts split blocks that the whole has pointers to; variables are allocated where they come up | a graph that joins up, values and variables that are defined where they are used, a run that does what the statements say |
| Code module (`CodeModule`) | declarations, symbols | declare, emit `__init__` | LLVM | names must match the runtime's | everything resolves |
| Objects (`lang/`) | tags, parents, holders, constants, method tables | define, reopen, allocate, look up | generated code and native methods call them | long sequences of definitions; casts by tag | no cast is wrong, lookups end, names stay bound |
| Calls (`Object::call*`, `BasicObjectImpl`) | C stack, `currentProc` | six dispatchers, two forwarders | generated code calls them, they call methods | a thread-wide variable saved and restored by some | block, names and arguments reach the method |
| Symbols (`Symbol.cpp`) | intern table | `get` | all | a mutex, but one thread | one object per name |
| Loader (`EmittedObject`, `main`) | `obj.o` and `obj.so` in the working directory | write, patch, link, rename, load | the file system, other runs | files written in place, runs at the same time, kills, failures seen late | a run executes what it compiled, and its code stays |

No code of the repository starts a thread, and nothing is persisted but the two object files; the
processes that share those are the only concurrency there is.

## Modules

| Module | Models | Run by |
|---|---|---|
| `ObjectModel` | the object graph and its operations | `MCObjectModel`: three runs |
| `Calls` | nested calls, blocks, names, arguments | `MCCalls`: `call_frames` |
| `TokenStream` | lexer, queue, parser as its client | `MCTokenStream`: `token_backtracking` |
| `TokenCursor` | the abstract specification of `TokenStream`: a cursor over the tokens of the text | `token_backtracking` checks the refinement |
| `Grammar` | the parser: which text is accepted and as which tree | `MCGrammar`: two runs |
| `ParamList` | parameter lists from text to bound arguments | `MCParamList`: two runs |
| `Codegen` | the instructions generated for one function | `MCCodegen`: two runs |
| `Execution` | what those do, against what the statements say; extends `Codegen` | `MCCodegen`: `codegen_flow` |
| `Pipeline` | `obj.o` and `obj.so` under runs of the compiler that share a directory | `MCPipeline`: `pipeline` |
| `ObjectModelProofs`, `TokenStreamProofs`, `CallsProofs`, `ParamListProofs`, `PipelineProofs` | theorems about the module of that name | `tlapm` |
| `CodegenProofs`, `CodegenEdgeProofs`, `CodegenValueProofs` | theorems about `Codegen`: types, handlers and ends of blocks; edges and phis; values; each extends the one before | `tlapm` |

Each `MC` module extends what it runs and defines the constants that a `.cfg` cannot write.

## Runs

| Run | Instance | Shows |
|---|---|---|
| `object_graph` | two objects beside the boot objects, any nesting of bodies, or two methods on a chain of classes | tags are true and fields fit them, chains end, a body's name stays bound to it, what is made has the one name it was made under, the nearest entry is found, and constants, identities and methods stay |
| `module_reopen` | the object graph | a second `module A` throws although A is a module |
| `missing_method` | the object graph | a call of a method nobody defined follows a null pointer |
| `token_backtracking` | texts of up to 4 characters of 5 classes and 3 of 8, guards and kept positions nested | the parser sees what it would of a text lexed in advance (`CursorSpec`); no character but the last is lost, and reading ends or is in a string that is not closed |
| `param_binding` | lists of up to 5 parameters, up to 6 arguments, any names | each argument reaches one parameter, in order |
| `param_assert` | the same lists | the assert of `FunctionDef` fails for a list that the parser accepts |
| `call_frames` | calls nested 4 deep | block, names and arguments reach the method |
| `grammar` | programs: constructs in each other's places, two operators in a construct; programs with a token left out or exchanged; texts of 4 tokens over 5 alphabets | a program is read as it was written; what is accepted has each token once, and brackets that match |
| `grammar_comments` | what the comments of `Parser.h` have and the parser refuses | `unless`, `begin`, `while` and `until` are refused with an `end` of their own |
| `codegen_flow` | all bodies of up to 4 statements of 13 kinds, up to 2 operands, a parameter and a variable, four lists of rescues; runs of up to 3 tests | the graph joins up, operands and variables are defined, handlers nest, ensure is passed, and the code does what the statements say |
| `codegen_return` | two statements, literals and returns | a function that LLVM's verifier, whose answer is dropped, refuses |
| `pipeline` | three runs, two at a time, objects of 2, 3 and 2 pieces, one failure of the disk, kills anywhere | an undisturbed run executes what it compiled, and code that runs is not written |

Bounds. Two new objects are enough for a chain of a class and its instance, for a class within a
class and for a name bound while a body of its own runs; the theorems of `ObjectModelProofs` are
for any number. `Small`, a state constraint, keeps the two kinds of program of `object_graph` apart:
with methods of its own a program has bodies one deep and leaves one builtin class alone. Five classes of characters are enough for tokens of one and more characters, blanks the
parser skips, comments, a string that is not closed and an error of the lexer, and three characters of eight for
every other kind of token beside another. Two constructs around a third show each function of the
parser what may come before and after its part of the text, and the damaged programs take it through
every `catch`; short texts have what no program would have. `Length` is that of the short texts and `Damages`
the number of places that are damaged. Five
parameters are enough for every pair of neighbours between two others, and the list of six
passes the limit of direct calls (`MaxDirectArgsLen`). Argument counts 6 and 8 are on the far side
of that limit. Four statements are enough for a construct in each part of another, with a
statement before or after it, and three tests for a loop that is left after its second round. Of three
runs one finds the files of one before it and meets one beside it; the longer object leaves a tail behind
a shorter one. Two pieces are enough for a header and what it tells of.

Deadlock is not checked where a program may end, which is everywhere here.

Fairness. Only `token_backtracking` assumes any: the parser reads on if it goes on being able to (`WF_vars(ReadOn)`), as
a single-threaded loop that waits for nothing does. `ReadingEnds` is about behaviours in which it does no more than
that from some time on: how often it goes back before is for the functions of `Grammar` to say. The other modules
state none: their properties are about what a step may do.

Findings. Five runs end in a violation: the parser leaves an `end` that its grammar has (see below); a second `module A` throws although A is a module (by the
same tag `class Kernel` reopens a module); a missing method reads through a null pointer instead of
throwing; the assert of `FunctionDef` fails on `def f(a = 1)`; and a `return` generates a function that is
malformed by LLVM's rules. `codegen_return` with `Statements = {"literal", "while"}`, or
`"begin"`, finds two more such constructs: a `while`, whose phi has on the edge from before the
loop a value loaded behind that edge (`BlockGenerator.cpp:531`), and a `begin`, whose `rethrow` resumes
with a token that is not defined on the way from `ensure` (655). An exception in the main part of a `begin` goes
from its landing pad to `rethrow` and never to its rescues or its ensure, as line 649 of
`BlockGenerator.cpp` never holds: `EnsureIsPassed` is about the ways out of a begin by its end.

`Codegen` does with variables what the code does, and these programs are outside the scopes that
`OperandsAreDefined` and `RunsAsWritten` name:

- A variable is allocated where it is first assigned, be that a branch, a loop or a part of a `begin`, and
  the alloca does not dominate a use outside (254); in a loop each round allocates it anew.
- The variable of a `rescue` is always a new one, also for a name that has one (703).
- `x = x` reads the slot before anything was stored (258).
- The body of a `while` is generated before its condition (525), and the `ensure` before the rescues (635):
  the one that allocates a variable is not the one that runs first.

What the generator makes of operators is not in the model: `a - b` is refused as an unexpected operator,
since the table has two entries for `+` (213); `x += 1` with a variable x stores 1 (258); `a[i] = v` is
an update with the empty method name (287).

`RunsWhatItCompiled` excludes disturbed runs, and has to: two runs at the same time may execute each
other's program, or fail on a mixture of both.

The grammar in the comments of `Parser.h` and the parser disagree, and `Grammar` does as the code does.
`grammar_comments` has a corpus of texts that this grammar gives and the code does not read. TLC stops at the first,
an `unless`; with `-continue` it reports each of them:

- `begin`, `unless` and `until` look at their `end` and leave it, and `while` does not look at it (281,
  359-385), so that the construct around them takes it; at the top level the `end` is an error (`Ends`). The
  programs of `grammar` have these four without an `end` of their own, wherever the next thing is the `end` of
  the construct around, and in each part of `begin`.
- `for x in e do` is always refused (420, `ForDo`), as is `BEGIN { }`, whose `}` no program ends at (40, `TopBlock`).
- Behind `::` no arguments are looked for: `::A(1, 2)` is refused, `::A(1)` is two statements (524, `GlobalCall`).

These are in `Grammar` too and in none of the programs of `ReadAsWritten`, as the comments do not say otherwise, or
say that they are still to be done:

- An `elsif` without an `else`, which `Parser.h` does not have, takes the condition before it and drops the
  branch before it (672); `EachTokenOnce` lets such texts lose tokens.
- A block behind a constant is dropped (504), and `EachTokenOnce` has the same exception.
- `f(a: 1)` is refused: named arguments of a call are marked as left to do (700).
- `A::b(1)` is not a call of a method of A: behind `::` stands a name alone.
- `{a: 1, b: 2}` is refused for the space behind its comma (609); without it the hash is read.
- `def self.f` on one line is refused, as `f` becomes a call of `self` first; with a newline before the dot it is read (1192).

By what Ruby does, as nothing in the repository says:

- `1 - 2 * 3 - 4` is `1 - (2 * 3 - 4)` (955), and `a = b = 1` groups to the left.
- `x + 1` with a name x calls x with `+null`; `1 +` and `- ` with nothing behind them are accepted with a
  null operand, since `parsePrimaryObject` gives null for what it does not know.
- `return [1]` and `return {}` take an argument list and a block; `while x do` gives the block to x.
- Statements need no terminator between them.

## Proofs

Each `Proofs` module defines an inductive invariant, proves that it holds at first and that every
action preserves it (one lemma per action), and reads the theorems off it. Nothing is assumed but what the
modules' `ASSUME`s say about the constants, which TLC evaluates in every run, and where a theorem has
a hypothesis it is named below.

- `ObjectModelProofs`: `Invariance`. The checked invariants are inductive together once it is added
  that free objects come after live ones, that what a field points to is live, and that the function of `new`
  stands in no table but that of the singleton of `BasicObject` (`OnlyNewIsNew`): a
  new object is younger than all it points to, so chains end (`LookupTerminates`), and what allocates is a
  class (`OnlyClassesAllocate`), so each object has the fields that `TypeOK` asks of its type. `EachHasOneName` says that whatever
  is made stands under one name in one table. From the
  same invariant the action properties `ConstantsAreFinal`, `IdentityIsFinal` and `MethodsAreNeverLost`.
  `NearestEntryWins` is about the lookup of every method in every chain: a walk goes to ever older objects,
  so each of its steps is the nearest entry if the next one is.
- `TokenStreamProofs`: `Invariance`. `TokenInHand` and `FramesShowWhatTheySaw` need that tokens
  are never taken from the queue and that the position in the text is within it. `LexedOnce`
  follows from the step lemmas. `StreamAlwaysTiled` has an invariant of its own, `TilingInvariance`: each token
  begins where the lexer stopped before it. `QueueImplementsCursor` is the refinement: what has been
  lexed on demand is always the beginning of what lexing in advance gives (`Lexed`), so that each action of
  the parser is the action of `TokenCursor` on that script, and lexing itself is a stutter.
- `CallsProofs`: `Invariance`. `BlockIsTheCallers` speaks of the running call only; the invariant says
  of every call on the stack what `currentProc` will be when it runs again, which is what the call
  above it has saved.
- `ParamListProofs`: `Invariance`. `ListsFollowTheText` needs what each value of `stage` says
  about the lists that are still empty; `EveryArgumentOnce`, `FilledFromTheLeft` and
  `GivesUpOnlyWhenUnbindable` need the place in argv that each parameter is bound to at each phase of
  the preamble. From that, each parameter has a share of the arguments (`Shares`), the shares stand in
  the order of the source (`SharesInOrder`) and are all the arguments (`SharesCover`).
- `CodegenProofs`: `Typed` is `TypeOK` with what each running function has recorded (`FrameOK`) and with the
  shape of the stack (`StackOK`: what runs in a body is a block). `HandlersNest` is inductive
  beside it: only `BeginStarts` and `BeginMain` change the landing pads, and they do it where `InMain` does.
  In the same module, `EachBlockEndsOnce`. The invariant `Flow` says which blocks have no end yet (`Stands`):
  the one the builder is at and those that the running functions have still to come to (`Pending`). The
  functions are `Nested`, each with blocks younger than those below, so no two wait for the same block. The
  hypothesis is `AnyComesLast`, that a rescue for any exception is the last of its begin: after one
  that is not, the generator goes on in a block that has ended (`BlockGenerator.cpp:697`).
- `CodegenEdgeProofs`: `EnsureIsAlwaysPassed`, without that hypothesis. The invariant `Edges` says that jumps never
  go to landing pads and exceptions go nowhere else (`Padded`), and of each ensure that some block
  n divides what was generated before it from what was generated after: behind n one gets through the ensure
  only (`Ensuring`). When the ensure is done, the blocks from n to the finish are closed
  (`Ensured`), since no function that runs has any of them. Every step is one of few kinds, by where it may
  add edges from and to (`EdgeStep`), and those keep the invariant (`EdgesKept`). A region that is entered only
  through a block is dominated by it (`ReachedWithin`).
  In the same module, `PhisAlwaysMatch`, with the hypothesis of `EachBlockEndsOnce`. The property speaks of
  what is finished; the invariant `Phis` has the phis of every block match the ways in (`Matches`) after each step,
  and to keep it says that a block without an end is left by no edge (`Left`), what each running function knows
  of the blocks it joins (`Knows`: which ways lead in so far, and that the phis are those of its own statement), and
  that once the rescues are generated the last handler goes on (`Handled`). A part can add
  edges only to landing pads and to its own blocks (`FitsOn`), so a block that waits for its phi is as it was left,
  and the begin may add an edge and a value to its ensure together.
- `CodegenValueProofs`: `OperandsAreAlwaysDefined`, with that hypothesis too. The property speaks of dominance in a
  function that is finished, and no step can tell what will dominate what; the invariant `Values` therefore
  carries along three things that the generator does not keep. A gives each block some that dominate it, chosen once
  and for all before the first edge to the block is added, and empty until then: an edge may only go where what
  dominates its target dominates its source too (`Sound`). F gives each running function the
  blocks that dominate whatever it still generates: the values that it keeps (`Kept`, `Waiting`) are defined
  in them, and the blocks that it will go on in or jump to are reached through them (`Joined`, `Resumed`: what
  `Stable` says). K are the statements that have a variable: of each part that a function has generated
  and that is always done, the variables are allocated in F (`Known`), so that one in whose scope the insertion
  point is has been allocated (`ScopeNew`). Every step either leaves the stack, pushes, pops or moves its top
  (`CarriedStay`, `CarriedPush`, `CarriedPop`, `CarriedMove`), and adds blocks and edges of its own beside
  that (`Follows`). At the end, what A says is dominance by `ReachedWithin` (`SoundDominates`), and the uses
  that are left out are those the property leaves out (`ExcusedUse`).
- `PipelineProofs`: `Invariance`. `RunsWhatItCompiled` speaks of programs that run; `Sound` says what an
  undisturbed run has of `obj.o` and `obj.so` at each place before: as many pieces as it has written, from
  the patch on all of them with its own header, a prefix of them in the hands of the linker, and then a
  whole library until it is loaded. `StepKeeps` is a step of the run itself, `OthersKeep` what a step of
  another run cannot take from it, and `FilesGrow`, which both need, gives `LoadedIsFinal`.

Induction is by smallest counterexample throughout (`SmallestExists`), also for the functions defined by
recursion: a function that satisfies the equation is shown to exist (`IterationExists`, `WalkExists`, `GrowthExists`, `LinesExist`), and
then each of its values follows from the one before.

TLC alone checks these:

- `ReadingEnds`, as it is about liveness.
- `RunsAsWritten` and the three properties about `Grammar`: their modules are recursive operators
  throughout, which the provers do not read.

## Not modelled

How the lexer tells keywords and operators apart; which method an operator calls; the methods of `Kernel`,
which throw, and of `Module`, which return a null pointer; the arrays, hashes and strings of the run time, which never
change; `Symbol::get`, whose mutex guards against threads that do not exist; `CodeModule`'s
declarations; `Scope`, which nothing uses; a missing target or input file (`EmittedObject.cpp:23`,
`main.cpp:56`), which ends the process before it has touched a file.

## Plan

1. `ObjectModel`, `TokenStream` and `TokenCursor`, `ParamList`, `Calls`, `Codegen` with variables, `Execution`,
   `Grammar`, `Pipeline`: done.
2. Theorems about all of them but `Execution` and `Grammar`, the refinement of `TokenCursor` among them: done.
3. The grammar of `Parser.h` against `Grammar`, where the two differ: done.
