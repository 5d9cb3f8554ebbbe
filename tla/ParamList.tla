------------------------------ MODULE ParamList ------------------------------
(***************************************************************************)
(* A method's parameters, from the list in the source to the arguments of  *)
(* a call: Parser::parseFuncDefArgs sorts the list into six, FunctionDef   *)
(* checks them and picks the calling convention, and the code that         *)
(* PreambleGenerator emits gives every parameter its value.                *)
(*                                                                         *)
(* A text is the list as the loop of the parser meets it, one kind of      *)
(* parameter after the other; a parameter is its place in the text.        *)
(***************************************************************************)
EXTENDS Integers, Sequences, FiniteSets

CONSTANTS
  Texts,    \* the parameter lists, sequences of kinds
  MaxArgs,  \* bound: positional arguments of a call
  NDEBUG    \* whether asserts are compiled out

\* a; a=1; *a; &a; a: 1; a: with no value; what the loop throws at whatever came before.
Kinds == {"plain", "default", "star", "amp", "label", "bare", "broken"}

ASSUME ParamListAssumption ==
  Texts \subseteq Seq(Kinds) /\ MaxArgs \in Nat /\ NDEBUG \in BOOLEAN

VARIABLES
  text,    \* the list that is parsed
  next,    \* the parameter the loop is at
  stage,   \* its local variable stage
  params,  \* what it has collected, and the FunctionDef made of it
  phase,   \* what runs: the parser, a call's preamble or body, or how it ended
  argc,    \* the positional arguments of the call
  names,   \* the named parameters its hash has a key for
  done,    \* the optional or named parameters the preamble is through with
  bound    \* the places of argv each parameter has its value from

call == <<argc, names, done, bound>>
vars == <<text, next, stage, params, phase, argc, names, done, bound>>

Lists   == {"prefix", "optional", "variadic", "suffix", "named", "block"}
Ended   == {"rejected", "aborted", "raised", "unreachable"}
Phases  == {"list", "defined", "entry", "optional", "variadic", "named", "body"} \cup Ended

-----------------------------------------------------------------------------
(* Parser::parseFuncDefArgs.                                               *)

Empty(list) == params[list] = <<>>

Init ==
  /\ text \in Texts
  /\ next = 1 /\ stage = 0 /\ params = [l \in Lists |-> <<>>] /\ phase = "list"
  /\ argc = 0 /\ names = {} /\ done = 0 /\ bound = [p \in 1 .. Len(text) |-> <<>>]

\* The loop is at a parameter of kind k.
At(k) == phase = "list" /\ next <= Len(text) /\ text[next] = k /\ UNCHANGED <<text, call>>

Collect(list, newStage) ==
  /\ params' = [params EXCEPT ![list] = Append(@, next)]
  /\ stage' = newStage /\ next' = next + 1 /\ UNCHANGED phase

Reject == phase' = "rejected" /\ UNCHANGED <<next, stage, params>>

\* An identifier alone is required, before the optional ones or after them.
PlainAnywhere ==  \* mutant: nothing stops it after a named parameter
  At("plain") /\ IF \A l \in {"optional", "variadic", "named"} : Empty(l)
                 THEN Collect("prefix", stage) ELSE Collect("suffix", 3)
Plain ==
  /\ At("plain")
  /\ IF \A l \in {"optional", "variadic", "named"} : Empty(l) THEN Collect("prefix", stage)
     ELSE IF stage > 3 THEN Reject ELSE Collect("suffix", 3)

\* Optional parameters come before the variadic one and before the suffix.
Default ==
  At("default") /\ IF stage > 1 THEN Reject ELSE Collect("optional", 1)

\* The variadic parameter sets the stage of the suffix, so that its own is never reached and
\* a second one is refused as a token out of place.
Star ==
  At("star") /\ IF stage < 2 /\ Empty("variadic") THEN Collect("variadic", 3) ELSE Reject

\* A block parameter may stand anywhere, once.
Amp ==
  At("amp") /\ IF Empty("block") THEN Collect("block", stage) ELSE Reject

Named == (At("label") \/ At("bare")) /\ Collect("named", 4)

Broken == At("broken") /\ Reject

-----------------------------------------------------------------------------
(* AST::FunctionDef.                                                       *)

MaxDirectArgsLen == 5

GetArgcForgetsBlock ==  \* mutant
  IF ~Empty("optional") \/ ~Empty("variadic") \/ ~Empty("named") THEN -1
  ELSE IF Len(params.prefix) > MaxDirectArgsLen THEN -1 ELSE Len(params.prefix)
\* FunctionDef::getArgc: -1 for the convention that passes argc and argv.
GetArgc ==
  IF \E l \in {"optional", "variadic", "named", "block"} : ~Empty(l) THEN -1
  ELSE IF Len(params.prefix) > MaxDirectArgsLen THEN -1 ELSE Len(params.prefix)

\* The assert of the constructor.
FunctionDefAssert ==
  (\A l \in Lists \ {"prefix"} : Empty(l)) \/ ~Empty("suffix")

\* The list ends where no comma follows, or no identifier follows the comma.
EndOfList ==
  /\ phase = "list" /\ next = Len(text) + 1
  /\ phase' = IF ~NDEBUG /\ ~FunctionDefAssert THEN "aborted" ELSE "defined"
  /\ UNCHANGED <<text, next, stage, params, call>>

-----------------------------------------------------------------------------
(* PreambleGenerator.                                                      *)

N(list) == Len(params[list])
MinArgc == N("prefix") + N("suffix")
MaxArgc == N("prefix") + N("optional") + N("suffix")

ArgcBoundsUnder ==  \* mutant: the suffix is not counted
  argc >= N("prefix") /\ (~Empty("variadic") \/ argc <= MaxArgc)
ArgcBoundsStrict ==  \* mutant: `<` for `<=`
  argc >= MinArgc /\ (~Empty("variadic") \/ argc < MaxArgc)
\* codegenArgcBoundariesCheck.
ArgcBounds ==
  argc >= MinArgc /\ (~Empty("variadic") \/ argc <= MaxArgc)

\* b with the parameters of a list bound, the i-th to the places value[i].
Bind(b, list, value) ==
  [p \in DOMAIN b |->
     IF \E i \in 1 .. N(list) : params[list][i] = p
     THEN value[CHOOSE i \in 1 .. N(list) : params[list][i] = p] ELSE b[p]]
Unbound == [p \in 1 .. Len(text) |-> <<>>]

PrefixPlaces == [i \in 1 .. N("prefix") |-> <<i>>]
SuffixFromStart == [i \in 1 .. N("suffix") |-> <<N("prefix") + N("optional") + i>>]  \* mutant
\* The suffix is counted from the end of argv.
SuffixPlaces == [i \in 1 .. N("suffix") |-> <<argc - N("suffix") + i>>]

\* A call with n positional arguments and a hash with the given keys.  A direct method is
\* entered with just the arguments it takes (codegenDirectArgsExtract), or the dispatcher
\* raises; the others find argc and argv.
Call(n, given) ==
  /\ phase = "defined" /\ argc' = n /\ names' = given /\ done' = 0
  /\ \/ GetArgc = -1 /\ phase' = "entry" /\ bound' = Unbound
     \/ GetArgc = n /\ phase' = "body" /\ bound' = Bind(Unbound, "prefix", PrefixPlaces)
     \/ GetArgc \notin {-1, n} /\ phase' = "raised" /\ bound' = Unbound
  /\ UNCHANGED <<text, next, stage, params>>

\* The bounds of argc are checked, then the required parameters get their places: with a
\* wrong number of arguments the code is left in a block that ends in `unreachable`.
Enter ==
  /\ phase = "entry"
  /\ IF ArgcBounds
     THEN /\ phase' = "optional"
          /\ bound' = Bind(Bind(bound, "prefix", PrefixPlaces), "suffix", SuffixPlaces)
     ELSE phase' = "unreachable" /\ UNCHANGED bound
  /\ UNCHANGED <<text, next, stage, params, argc, names, done>>

\* A parameter with no argument has its value from the default expression.
ByDefault == <<0>>

OptionalFromTheRight ==  \* mutant: the last one gets the first argument that is left
  LET i == done + 1 IN
  /\ phase = "optional" /\ done < N("optional") /\ done' = i
  /\ bound' = [bound EXCEPT ![params["optional"][i]] =
                 IF argc > MaxArgc - i THEN <<argc - N("suffix") - N("optional") + i>> ELSE ByDefault]
  /\ UNCHANGED <<text, next, stage, params, phase, argc, names>>
\* codegenExtractOptionalArgs, for one parameter: it has an argument if some are left when
\* the required parameters and the optional ones before it have theirs.
OptionalArg ==
  LET i == done + 1 IN
  /\ phase = "optional" /\ done < N("optional") /\ done' = i
  /\ bound' = [bound EXCEPT ![params["optional"][i]] =
                 IF argc >= MinArgc + i THEN <<N("prefix") + i>> ELSE ByDefault]
  /\ UNCHANGED <<text, next, stage, params, phase, argc, names>>

VariadicPlaces ==
  <<[k \in 1 .. (IF argc > MaxArgc THEN argc - MaxArgc ELSE 0) |-> N("prefix") + N("optional") + k]>>
\* codegenExtractVariadicArray: what is left, an empty array if nothing is.
VariadicArg ==
  /\ phase = "optional" /\ done = N("optional")
  /\ bound' = Bind(bound, "variadic", VariadicPlaces)
  /\ phase' = "named" /\ done' = 0
  /\ UNCHANGED <<text, next, stage, params, argc, names>>

\* codegenExtractNamedArgs, for one parameter: its value is in the hash at argv[argc], or
\* its default is; with neither the block ends in `unreachable`.
NamedArg ==
  LET p == params["named"][done + 1] IN
  /\ phase = "named" /\ done < N("named")
  /\ IF p \in names \/ text[p] = "label"
     THEN /\ bound' = [bound EXCEPT ![p] = IF p \in names THEN <<argc + 1>> ELSE ByDefault]
          /\ done' = done + 1 /\ UNCHANGED phase
     ELSE phase' = "unreachable" /\ UNCHANGED <<bound, done>>
  /\ UNCHANGED <<text, next, stage, params, argc, names>>

\* The preamble branches to the entry block of the body.
Body ==
  /\ phase = "named" /\ done = N("named") /\ phase' = "body"
  /\ UNCHANGED <<text, next, stage, params, argc, names, done, bound>>

\* A default expression raises, or the body does: nothing catches it.
Raise ==
  /\ \/ phase = "optional" /\ done < N("optional") /\ argc < MinArgc + done + 1
     \/ /\ phase = "named" /\ done < N("named")
        /\ LET p == params["named"][done + 1] IN p \notin names /\ text[p] = "label"
     \/ phase = "body"
  /\ phase' = "raised"
  /\ UNCHANGED <<text, next, stage, params, argc, names, done, bound>>

\* The body returns, and the method may be called again.
Return ==
  /\ phase = "body" /\ phase' = "defined"
  /\ argc' = 0 /\ names' = {} /\ done' = 0 /\ bound' = Unbound
  /\ UNCHANGED <<text, next, stage, params>>

NamedParams == {params["named"][i] : i \in 1 .. N("named")}

Next ==
  \/ Plain \/ Default \/ Star \/ Amp \/ Named \/ Broken \/ EndOfList
  \/ \E n \in 0 .. MaxArgs, given \in SUBSET NamedParams : Call(n, given)
  \/ Enter \/ OptionalArg \/ VariadicArg \/ NamedArg \/ Body \/ Raise \/ Return

Spec == Init /\ [][Next]_vars

-----------------------------------------------------------------------------
(* Properties.                                                             *)

TypeOK ==
  /\ text \in Texts
  /\ next \in 1 .. Len(text) + 1
  /\ stage \in 0 .. 4
  /\ params \in [Lists -> Seq(1 .. Len(text))]
  /\ phase \in Phases
  /\ argc \in 0 .. MaxArgs
  /\ names \subseteq 1 .. Len(text)
  /\ done \in 0 .. Len(text)
  /\ bound \in [1 .. Len(text) -> Seq(0 .. MaxArgs + 1)]

Members(list) == {params[list][i] : i \in 1 .. N(list)}
Positional == Members("prefix") \cup Members("optional") \cup Members("variadic") \cup Members("suffix")
Before(A, B) == \A p \in A, q \in B : p < q

\* The order arguments are counted in is the order of the source: whatever the mixture of
\* kinds, each parameter lands in one list, in order, and the lists follow one another.
ListsFollowTheText ==
  /\ \A l \in Lists : \A i, j \in 1 .. N(l) : i < j => params[l][i] < params[l][j]
  /\ Positional \cup Members("named") \cup Members("block") = 1 .. next - 1
  /\ Members("block") \cap (Positional \cup Members("named")) = {}
  /\ Before(Members("prefix"), Members("optional") \cup Members("variadic"))
  /\ Before(Members("prefix"), Members("suffix"))
  /\ Before(Members("optional"), Members("variadic"))
  /\ Before(Members("optional") \cup Members("variadic"), Members("suffix"))
  /\ Before(Positional, Members("named"))

\* What defineInstanceMethod throws at: a direct method with too many arguments, or with a
\* block or names, which a direct call cannot pass.
DefineThrows ==
  \/ GetArgc > MaxDirectArgsLen
  \/ (~Empty("block") \/ ~Empty("named")) /\ GetArgc # -1

\* The calling convention the generated function is compiled for is one the runtime
\* takes, and one that can hand over all its parameters.
MethodIsAccepted ==
  phase = "defined" =>
    /\ ~DefineThrows
    /\ GetArgc # -1 => Positional = Members("prefix") /\ GetArgc = Cardinality(Positional)

\* Arguments that parameter p has its value from.
Takes(p) == {bound[p][i] : i \in 1 .. Len(bound[p])} \ {0}

\* When the body starts, every argument of the call has gone to one parameter, in the
\* order of the source, and none was read that the caller did not pass.
EveryArgumentOnce ==
  phase = "body" =>
    /\ UNION {Takes(p) : p \in Positional} = 1 .. argc
    /\ \A p, q \in Positional : p < q => Before(Takes(p), Takes(q))
    /\ \A p \in Positional : \A i, j \in 1 .. Len(bound[p]) : i < j => bound[p][i] < bound[p][j]

\* Arguments fill the optional parameters from the left, and the variadic one gets what is
\* left after all of them; required parameters always have an argument.
FilledFromTheLeft ==
  phase = "body" =>
    /\ \A p \in Members("prefix") \cup Members("suffix") : Takes(p) # {}
    /\ \A p \in Members("optional"), q \in Members("optional") \cup Members("variadic") :
         p < q /\ Takes(q) # {} => Takes(p) # {}

\* The preamble gives up only on a call that no choice of defaults and of a length for the
\* variadic array could bind, or that leaves out a name with no default.
GivesUpOnlyWhenUnbindable ==
  phase = "unreachable" =>
    \/ \A k \in 0 .. N("optional") : \A v \in 0 .. argc :
         N("prefix") + k + v + N("suffix") = argc => v > 0 /\ Empty("variadic")
    \/ \E p \in Members("named") : text[p] = "bare" /\ p \notin names

\* What the assert of FunctionDef's constructor says of every list that is accepted.
SuffixIfNotPlain == phase # "aborted"
==============================================================================
