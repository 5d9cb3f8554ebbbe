-------------------------------- MODULE Calls --------------------------------
(***************************************************************************)
(* Method calls of the runtime on one thread: Object's dispatchers, the    *)
(* two built-in methods that hand their own call on (__send__ and new),    *)
(* and the thread-local currentProc that carries the block.                *)
(*                                                                         *)
(* A body is its most general one: generated code calls with call<n> and   *)
(* callV, a native body with any dispatcher of the runtime's interface.    *)
(***************************************************************************)
EXTENDS Integers, Sequences

CONSTANTS
  Methods,    \* the functions that are called
  Meta,       \* the FunctionDefMeta of each, and what its body is
  Main,       \* top_required, which main calls
  Blocks,     \* the Proc objects
  Nil,        \* PrimaryConstants::NilConst
  Null,       \* the null pointer currentProc starts with
  ArgCounts,  \* bound: numbers of arguments a body passes
  MaxDepth    \* bound: nesting of calls

MaxDirectArgsLen == 5

Nothing == "nothing"  \* what a forwarder has to put back

\* Generated code, a native body, or one of the two forwarders.
Bodies == {"ruby", "native", "send", "new"}
Metas  == [argc : -1 .. MaxDirectArgsLen, hasBlock : BOOLEAN, hasNamedArgs : BOOLEAN, body : Bodies]

\* defineInstanceMethod refuses a direct method with a block or names; the forwarders are
\* registered with both; main calls a function that takes nothing.
ASSUME CallsAssumption ==
  /\ Meta \in [Methods -> Metas]
  /\ \A m \in Methods :
       /\ Meta[m].hasBlock \/ Meta[m].hasNamedArgs => Meta[m].argc = -1
       /\ Meta[m].body \in {"send", "new"} => Meta[m].hasBlock /\ Meta[m].hasNamedArgs
  /\ Main \in Methods
  /\ Meta[Main] = [argc |-> 0, hasBlock |-> FALSE, hasNamedArgs |-> FALSE, body |-> "ruby"]
  /\ Nothing \notin Blocks \cup {Nil, Null}
  /\ ArgCounts \subseteq Nat /\ MaxDepth \in Nat

VARIABLES
  stack,        \* the calls that run, main's below them all
  currentProc,  \* Object::currentProc
  mode          \* "running", or "uncaught" once an exception has reached main

vars == <<stack, currentProc, mode>>

\* The words of an argv: an argument by its number, the hash of named arguments that the
\* caller passed or the empty one a dispatcher makes, and what was never written.
Arg(i)    == <<"arg", i>>
GivenHash == <<"hash", 1>>
EmptyHash == <<"hash", 0>>
Garbage   == <<"garbage", 0>>
Args(n)   == [i \in 1 .. n |-> Arg(i)]

-----------------------------------------------------------------------------
(* Calls.                                                                  *)

\* A call: what the function was entered with, and the value of currentProc that its
\* dispatcher puts back; then what the caller passed, and whether the arguments went
\* through the copy that callV makes for a method that takes names.
Frame(m, n, argv, saved, block, hash, passed, copied) ==
  [method |-> m, argc |-> n, argv |-> argv, saved |-> saved, handedOn |-> FALSE,
   block |-> block, hash |-> hash, passed |-> passed, copied |-> copied]

Top      == stack[Len(stack)]
Array(m) == Meta[m].argc = -1
Named(m) == Meta[m].hasNamedArgs

\* The running body is one of these, and may call.
Runs(bodies) ==
  mode = "running" /\ stack # <<>> /\ Len(stack) < MaxDepth /\ Meta[Top.method].body \in bodies

Enter(f, proc) == stack' = Append(stack, f) /\ currentProc' = proc /\ UNCHANGED mode

\* Nothing catches a Lang::Exception before main does: the landing pads of generated code
\* compare the type of the exception with itself for `greater`, and always resume.
Uncaught == mode' = "uncaught" /\ stack' = <<>> /\ UNCHANGED currentProc

\* A direct method called with n arguments: they are passed as they are, or it raises.
EnterDirect(m, n, proc) ==
  IF n = Meta[m].argc
  THEN Enter(Frame(m, n, Args(n), currentProc, proc, EmptyHash, Args(n), FALSE), proc)
  ELSE Uncaught

-----------------------------------------------------------------------------
(* The dispatchers.                                                        *)

\* Object::call<n>: the arguments are put in an array, with an empty hash after them for
\* a method that takes names.
CallFixed(m, n) ==
  LET argv == IF Named(m) THEN Append(Args(n), EmptyHash) ELSE Args(n)
  IN  /\ Runs({"ruby", "native"}) /\ n <= MaxDirectArgsLen
      /\ IF Array(m)
         THEN Enter(Frame(m, n, argv, currentProc, Nil, EmptyHash, Args(n), FALSE), Nil)
         ELSE EnterDirect(m, n, Nil)

\* memcpy(args1, args, n) copies n bytes, not n pointers of eight bytes each.
PointerSize == 8
Copied(argv) == [i \in 1 .. Len(argv) |-> IF i * PointerSize <= Len(argv) THEN argv[i] ELSE Garbage]

\* Object::callV, and callBV with a block.  Generated code uses callV, for more arguments
\* than call<n> takes.
CallArray(m, n, block) ==
  LET argv == IF Named(m) THEN Append(Copied(Args(n)), EmptyHash) ELSE Args(n)
  IN  /\ \/ Runs({"native"})
         \/ Runs({"ruby"}) /\ n > MaxDirectArgsLen /\ block = Nil
      /\ IF Array(m)
         THEN Enter(Frame(m, n, argv, currentProc, block, EmptyHash, Args(n), Named(m)), block)
         ELSE EnterDirect(m, n, block)

\* The arguments of a call with names: for a method that takes none the hash is the last.
WithHash(m, n) == IF Named(m) THEN Args(n) ELSE Append(Args(n), GivenHash)

CallNamedUncounted(m, n, block) ==  \* mutant: the hash is never counted
  /\ Runs({"native"})
  /\ IF Array(m)
     THEN Enter(Frame(m, n, Append(Args(n), GivenHash), currentProc, block, GivenHash,
                      WithHash(m, n), FALSE), block)
     ELSE EnterDirect(m, n, Nil)
\* Object::callNV, and callNBV with a block.  A direct method gets neither the hash nor the
\* block.
CallNamed(m, n, block) ==
  /\ Runs({"native"})
  /\ IF Array(m)
     THEN Enter(Frame(m, IF Named(m) THEN n ELSE n + 1, Append(Args(n), GivenHash), currentProc,
                      block, GivenHash, WithHash(m, n), FALSE), block)
     ELSE EnterDirect(m, n, Nil)

\* Object::callForward, by the call on top: its own words from the k-th on go to m, whose
\* block stays where it is, and there is nothing to put back.
Forward(m, n, k) ==
  LET f == Top
      argv == SubSeq(f.argv, k, Len(f.argv))
      g == Frame(m, n, argv, Nothing, f.block, f.hash, SubSeq(f.passed, k, Len(f.passed)), f.copied)
      h == [g EXCEPT !.argv = SubSeq(argv, 1, n)]
  IN  IF Array(m) \/ n = Meta[m].argc
      THEN /\ stack' = Append([stack EXCEPT ![Len(stack)].handedOn = TRUE], IF Array(m) THEN g ELSE h)
           /\ UNCHANGED <<currentProc, mode>>
      ELSE Uncaught

SendUnchecked(m) ==  \* mutant: no test for a missing name
  Runs({"send"}) /\ ~Top.handedOn /\ Forward(m, Top.argc - 1, 2)
SendUnshifted(m) ==  \* mutant: the name stays in front
  /\ Runs({"send"}) /\ ~Top.handedOn
  /\ IF Top.argc < 1 THEN Uncaught ELSE Forward(m, Top.argc - 1, 1)
\* BasicObjectImpl::send: the first argument is the name of the method.
Send(m) ==
  /\ Runs({"send"}) /\ ~Top.handedOn
  /\ IF Top.argc < 1 THEN Uncaught ELSE Forward(m, Top.argc - 1, 2)

\* ClassImpl::self_new: initialize gets what new got.
New(m) == Runs({"new"}) /\ ~Top.handedOn /\ Forward(m, Top.argc, 1)

Pop == stack' = SubSeq(stack, 1, Len(stack) - 1)

ReturnForgets ==  \* mutant: the dispatcher puts nothing back
  /\ mode = "running" /\ stack # <<>> /\ (Meta[Top.method].body \in {"send", "new"} => Top.handedOn)
  /\ Pop /\ UNCHANGED <<currentProc, mode>>
\* The function returns, and its dispatcher puts currentProc back.
Return ==
  /\ mode = "running" /\ stack # <<>> /\ (Meta[Top.method].body \in {"send", "new"} => Top.handedOn)
  /\ Pop /\ currentProc' = (IF Top.saved = Nothing THEN currentProc ELSE Top.saved) /\ UNCHANGED mode

\* The running body raises.
Raise == mode = "running" /\ stack # <<>> /\ Uncaught

-----------------------------------------------------------------------------
\* main calls top_required itself.
Init ==
  /\ stack = <<Frame(Main, 0, <<>>, Nothing, Null, EmptyHash, <<>>, FALSE)>>
  /\ currentProc = Null /\ mode = "running"

Callees == Methods \ {Main}
Procs   == Blocks \cup {Nil}

Next ==
  \/ \E m \in Callees, n \in ArgCounts : CallFixed(m, n)
  \/ \E m \in Callees, n \in ArgCounts, block \in Procs : CallArray(m, n, block)
  \/ \E m \in Callees, n \in ArgCounts, block \in Procs : CallNamed(m, n, block)
  \/ \E m \in Callees : Send(m)
  \/ \E m \in Callees : New(m)
  \/ Return \/ Raise

Spec == Init /\ [][Next]_vars

-----------------------------------------------------------------------------
(* Properties.                                                             *)

Words == ({"arg"} \X Nat) \cup {GivenHash, EmptyHash, Garbage}

Frames ==
  [method : Methods, argc : Nat, argv : Seq(Words), saved : Procs \cup {Null, Nothing},
   handedOn : BOOLEAN, block : Procs \cup {Null}, hash : {GivenHash, EmptyHash},
   passed : Seq(Words), copied : BOOLEAN]

TypeOK ==
  /\ stack \in Seq(Frames)
  /\ currentProc \in Procs \cup {Null}
  /\ mode \in {"running", "uncaught"}

\* A method that takes a block finds its caller's in currentProc whenever it runs, however
\* many calls with other blocks it has made, and through any number of forwarders.
BlockIsTheCallers ==
  stack # <<>> /\ Meta[Top.method].hasBlock => currentProc = Top.block

\* A method that takes names finds the hash its caller passed, or an empty one, after its
\* last argument: the forwarders move it along with the arguments.
HashFollowsArguments ==
  \A i \in DOMAIN stack :
    LET f == stack[i]
    IN  Named(f.method) => Len(f.argv) = f.argc + 1 /\ f.argv[f.argc + 1] = f.hash

\* A method gets the arguments its caller passed, all of them and nothing else, unless they
\* went through callV's copy; a hash it takes no names from is its last argument, but for
\* what a forwarder drops.
ArgumentsArrive ==
  \A i \in DOMAIN stack :
    LET f == stack[i]
    IN  /\ f.argc <= Len(f.argv)
        /\ ~f.copied => SubSeq(f.argv, 1, f.argc) = f.passed
==============================================================================
