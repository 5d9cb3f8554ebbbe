--------------------------- MODULE ParamListProofs ---------------------------
(***************************************************************************)
(* Theorems about ParamList for every set of texts and every number of     *)
(* arguments: what the parser collects follows the text, and the code      *)
(* generated for it binds each argument once and in order.                 *)
(***************************************************************************)
EXTENDS ParamList, FiniteSetTheorems, TLAPS

-----------------------------------------------------------------------------
(* The inductive invariant.                                                *)

\* What each value of stage says of the lists that come later; a suffix comes after
\* something that is not required.
Stages ==
  /\ stage = 0 => Empty("optional")
  /\ stage <= 1 => Empty("variadic") /\ Empty("suffix") /\ Empty("named")
  /\ stage <= 3 => Empty("named")
  /\ Empty("optional") /\ Empty("variadic") /\ Empty("named") => Empty("suffix")
  /\ N("variadic") <= 1
  /\ \A l \in Lists : N(l) < next
  /\ \A i \in 1 .. N("named") : text[params["named"][i]] \in {"label", "bare"}

\* Where the preamble stands, and what it has bound by then.
Progress ==
  /\ phase # "variadic"
  /\ phase \in {"entry", "optional", "named"} => GetArgc = -1
  /\ phase = "entry" => done = 0
  /\ phase = "optional" => done <= N("optional")
  /\ phase = "named" => done <= N("named")

OptionalPlace(i) == IF argc >= MinArgc + i THEN <<N("prefix") + i>> ELSE ByDefault

RequiredBound ==
  /\ \A i \in 1 .. N("prefix") : bound[params["prefix"][i]] = <<i>>
  /\ \A i \in 1 .. N("suffix") : bound[params["suffix"][i]] = <<argc - N("suffix") + i>>
OptionalBound(n) ==
  \A i \in 1 .. N("optional") : i <= n => bound[params["optional"][i]] = OptionalPlace(i)
VariadicBound ==
  \A i \in 1 .. N("variadic") : bound[params["variadic"][i]] = VariadicPlaces[1]

Binding ==
  /\ phase = "optional" => ArgcBounds /\ RequiredBound /\ OptionalBound(done)
  /\ phase = "named" \/ (phase = "body" /\ GetArgc = -1) =>
       ArgcBounds /\ RequiredBound /\ OptionalBound(N("optional")) /\ VariadicBound
  /\ phase = "body" /\ GetArgc # -1 =>
       argc = N("prefix") /\ \A i \in 1 .. N("prefix") : bound[params["prefix"][i]] = <<i>>

IInv ==
  TypeOK /\ Stages /\ ListsFollowTheText /\ Progress /\ Binding /\ GivesUpOnlyWhenUnbindable

-----------------------------------------------------------------------------
(* The lists.                                                              *)

\* A text has a length, and a list is a sequence of places in it.
LEMMA Types ==
  ASSUME TypeOK
  PROVE  /\ Len(text) \in Nat /\ next \in Nat \ {0} /\ stage \in Int /\ argc \in Nat /\ done \in Nat
         /\ \A l \in Lists : /\ N(l) \in Nat
                             /\ Members(l) \subseteq 1 .. Len(text)
                             /\ \A i \in 1 .. N(l) : params[l][i] \in 1 .. Len(text)
                             /\ Empty(l) <=> N(l) = 0
                             /\ Empty(l) => Members(l) = {}
BY ParamListAssumption DEF TypeOK, N, Members, Empty

\* The parameter the loop is at goes to the end of one list.
LEMMA Collected ==
  ASSUME TypeOK, next <= Len(text), UNCHANGED text, NEW list \in Lists, NEW s \in 0 .. 4,
         Collect(list, s)
  PROVE  /\ params' \in [Lists -> Seq(1 .. Len(text))]
         /\ N(list)' = N(list) + 1
         /\ \A i \in 1 .. N(list) : params'[list][i] = params[list][i]
         /\ params'[list][N(list) + 1] = next
         /\ Members(list)' = Members(list) \cup {next}
         /\ \A l \in Lists \ {list} :
              params'[l] = params[l] /\ N(l)' = N(l) /\ Members(l)' = Members(l) /\ Empty(l)' = Empty(l)
         /\ ~Empty(list)'
PROOF
  <1>. params \in [Lists -> Seq(1 .. Len(text))] /\ next \in 1 .. Len(text)
    BY Types DEF TypeOK
  <1>1. /\ params' = [params EXCEPT ![list] = Append(@, next)]
        /\ params'[list] = Append(params[list], next)
        /\ params' \in [Lists -> Seq(1 .. Len(text))]
    BY DEF Collect
  <1>2. /\ N(list)' = N(list) + 1
        /\ \A i \in 1 .. N(list) : params'[list][i] = params[list][i]
        /\ params'[list][N(list) + 1] = next
        /\ ~Empty(list)'
    BY <1>1 DEF N, Empty
  <1>3. Members(list)' = Members(list) \cup {next}
    <2>. N(list) \in Nat /\ N(list)' = N(list) + 1
      BY <1>2 DEF N
    <2>1. ASSUME NEW x \in Members(list)'
          PROVE  x \in Members(list) \cup {next}
      <3>1. PICK i \in 1 .. N(list) + 1 : x = params'[list][i]
        BY <2>1 DEF Members
      <3>2. i \in 1 .. N(list) \/ i = N(list) + 1
        OBVIOUS
      <3>. QED BY <3>1, <3>2, <1>2 DEF Members
    <2>2. ASSUME NEW i \in 1 .. N(list)
          PROVE  params[list][i] \in Members(list)'
      BY <1>2 DEF Members
    <2>3. next \in Members(list)'
      BY <1>2 DEF Members
    <2>. QED BY <2>1, <2>2, <2>3 DEF Members
  <1>4. ASSUME NEW l \in Lists \ {list}
        PROVE  params'[l] = params[l] /\ N(l)' = N(l) /\ Members(l)' = Members(l) /\ Empty(l)' = Empty(l)
    BY <1>1 DEF N, Members, Empty
  <1>. QED BY <1>1, <1>2, <1>3, <1>4

\* What is collected is a place before the loop.
LEMMA CollectedBefore ==
  ASSUME TypeOK, ListsFollowTheText, NEW l \in Lists
  PROVE  /\ Members(l) \subseteq 1 .. next - 1
         /\ \A i \in 1 .. N(l) : params[l][i] \in 1 .. next - 1
PROOF
  <1>1. Members(l) \subseteq Positional \cup Members("named") \cup Members("block")
    BY DEF Lists, Positional
  <1>2. Members(l) \subseteq 1 .. next - 1
    BY <1>1 DEF ListsFollowTheText
  <1>. QED BY <1>2 DEF Members

\* The loop may go on with a list when those that come after it are empty.
LEMMA FollowsOn ==
  ASSUME TypeOK, ListsFollowTheText, next <= Len(text), UNCHANGED text,
         NEW list \in Lists, NEW s \in 0 .. 4, Collect(list, s),
         list = "prefix" => Empty("optional") /\ Empty("variadic"),
         list \in {"prefix", "optional"} => Empty("variadic"),
         list \in {"prefix", "optional", "variadic"} => Empty("suffix"),
         list \notin {"named", "block"} => Empty("named")
  PROVE  ListsFollowTheText'
PROOF
  <1>. /\ \A l \in Lists : Members(l) \subseteq 1 .. next - 1
       /\ \A l \in Lists : \A i \in 1 .. N(l) : params[l][i] \in 1 .. next - 1
       /\ \A l \in Lists : N(l) \in Nat
       /\ next \in Nat \ {0} /\ next' = next + 1
    BY CollectedBefore, Types DEF Collect
  <1>1. ASSUME NEW l \in Lists, NEW i \in 1 .. N(l)', NEW j \in 1 .. N(l)', i < j
        PROVE  params'[l][i] < params'[l][j]
    <2>1. CASE l # list
      <3>1. params'[l] = params[l] /\ N(l)' = N(l)
        BY <2>1, Collected
      <3>. QED BY <1>1, <3>1 DEF ListsFollowTheText
    <2>2. CASE l = list /\ j = N(list) + 1
      <3>1. i \in 1 .. N(list)
        BY <1>1, <2>2
      <3>2. params'[l][i] = params[list][i] /\ params'[l][j] = next
        BY <2>2, <3>1, Collected
      <3>. QED BY <3>1, <3>2
    <2>3. CASE l = list /\ j # N(list) + 1
      <3>1. N(l)' = N(list) + 1
        BY <2>3, Collected
      <3>2. i \in 1 .. N(list) /\ j \in 1 .. N(list)
        BY <1>1, <2>3, <3>1
      <3>3. params'[l][i] = params[list][i] /\ params'[l][j] = params[list][j]
        BY <2>3, <3>2, Collected
      <3>. QED BY <1>1, <3>2, <3>3 DEF ListsFollowTheText
    <2>. QED BY <2>1, <2>2, <2>3
  <1>2. /\ Members(list)' = Members(list) \cup {next}
        /\ \A l \in Lists : l # list => Members(l)' = Members(l)
        /\ \A l \in Lists : Empty(l) => Members(l) = {}
    BY Collected, Types
  <1>3. (Positional \cup Members("named") \cup Members("block"))'
          = Positional \cup Members("named") \cup Members("block") \cup {next}
    BY <1>2 DEF Positional, Lists
  <1>4. (Positional \cup Members("named") \cup Members("block"))' = 1 .. next' - 1
    <2>1. Positional \cup Members("named") \cup Members("block") = 1 .. next - 1
      BY DEF ListsFollowTheText
    <2>2. (1 .. next - 1) \cup {next} = 1 .. next' - 1
      OBVIOUS
    <2>. QED BY <1>3, <2>1, <2>2
  <1>5. (Members("block") \cap (Positional \cup Members("named")))' = {}
    <2>1. Members("block") \cap (Positional \cup Members("named")) = {}
      BY DEF ListsFollowTheText
    <2>2. next \notin Positional /\ next \notin Members("named") /\ next \notin Members("block")
      BY DEF Positional, Lists
    <2>. QED BY <2>1, <2>2, <1>2 DEF Positional, Lists
  <1>6. /\ Before(Members("prefix"), Members("optional") \cup Members("variadic"))'
        /\ Before(Members("prefix"), Members("suffix"))'
    BY <1>2 DEF ListsFollowTheText, Before, Lists
  <1>7. /\ Before(Members("optional"), Members("variadic"))'
        /\ Before(Members("optional") \cup Members("variadic"), Members("suffix"))'
    BY <1>2 DEF ListsFollowTheText, Before, Lists
  <1>8. Before(Positional, Members("named"))'
    BY <1>2 DEF ListsFollowTheText, Before, Lists, Positional
  <1>. QED BY <1>1, <1>4, <1>5, <1>6, <1>7, <1>8 DEF ListsFollowTheText

-----------------------------------------------------------------------------
(* The steps of the parser.                                                *)

LEMMA InitInv == Init => IInv
PROOF
  <1>. SUFFICES ASSUME Init PROVE IInv
    OBVIOUS
  <1>1. /\ Len(text) \in Nat
        /\ \A l \in Lists : params[l] = <<>> /\ N(l) = 0 /\ Empty(l) /\ Members(l) = {}
    BY ParamListAssumption DEF Init, N, Empty, Members
  <1>2. TypeOK
    <2>1. params \in [Lists -> Seq(1 .. Len(text))]
      BY DEF Init
    <2>2. bound \in [1 .. Len(text) -> Seq(0 .. MaxArgs + 1)]
      BY DEF Init
    <2>. QED BY <1>1, <2>1, <2>2, ParamListAssumption DEF Init, TypeOK, Phases
  <1>3. Stages
    BY <1>1 DEF Init, Stages, Lists
  <1>4. ListsFollowTheText
    <2>1. Positional = {} /\ Members("named") = {} /\ Members("block") = {}
      BY <1>1 DEF Positional, Lists
    <2>2. 1 .. next - 1 = {}
      BY DEF Init
    <2>. QED BY <1>1, <2>1, <2>2 DEF ListsFollowTheText, Before, Lists
  <1>. QED BY <1>2, <1>3, <1>4 DEF IInv, Init, Progress, Binding, GivesUpOnlyWhenUnbindable

\* A parameter is collected.
LEMMA CollectStep ==
  ASSUME IInv, NEW k \in Kinds, At(k),
         NEW list \in Lists, NEW s \in 0 .. 4, Collect(list, s), Stages',
         list = "prefix" => Empty("optional") /\ Empty("variadic"),
         list \in {"prefix", "optional"} => Empty("variadic"),
         list \in {"prefix", "optional", "variadic"} => Empty("suffix"),
         list \notin {"named", "block"} => Empty("named")
  PROVE  IInv'
PROOF
  <1>. TypeOK /\ next <= Len(text) /\ UNCHANGED text /\ phase = "list" /\ phase' = "list"
    BY DEF IInv, At, Collect
  <1>1. params' \in [Lists -> Seq(1 .. Len(text))]
    BY Collected
  <1>2. TypeOK'
    BY <1>1, Types DEF At, Collect, TypeOK, call
  <1>3. ListsFollowTheText'
    BY FollowsOn DEF IInv
  <1>. QED BY <1>2, <1>3 DEF IInv, Progress, Binding, GivesUpOnlyWhenUnbindable

\* Nothing is collected.
LEMMA Kept ==
  ASSUME IInv, UNCHANGED <<text, next, stage, params>>
  PROVE  /\ Stages' /\ ListsFollowTheText' /\ GetArgc' = GetArgc
         /\ MinArgc' = MinArgc /\ MaxArgc' = MaxArgc
         /\ \A l : N(l)' = N(l) /\ Empty(l)' = Empty(l) /\ Members(l)' = Members(l)
PROOF
  <1>1. \A l : N(l)' = N(l) /\ Empty(l)' = Empty(l) /\ Members(l)' = Members(l)
    BY DEF N, Empty, Members
  <1>2. Stages'
    BY <1>1 DEF IInv, Stages
  <1>3. ListsFollowTheText'
    BY <1>1 DEF IInv, ListsFollowTheText, Positional, Before
  <1>. QED BY <1>1, <1>2, <1>3 DEF GetArgc, MinArgc, MaxArgc

LEMMA RejectStep ==
  ASSUME IInv, Reject, phase = "list", UNCHANGED <<text, call>>
  PROVE  IInv'
BY Kept DEF IInv, Reject, call, TypeOK, Phases, Ended, Progress, Binding, GivesUpOnlyWhenUnbindable

\* Members of the lists after a step that collects in one of them.
LEMMA StagesOf ==
  ASSUME IInv, NEW k \in Kinds, At(k), NEW list \in Lists, NEW s \in 0 .. 4, Collect(list, s)
  PROVE  /\ stage' = s /\ next' = next + 1 /\ UNCHANGED text
         /\ N(list)' = N(list) + 1 /\ ~Empty(list)'
         /\ \A l \in Lists \ {list} : N(l)' = N(l) /\ Empty(l)' = Empty(l) /\ params'[l] = params[l]
         /\ \A l \in Lists : N(l)' < next' /\ N(l) \in Nat
         /\ \A i \in 1 .. N(list) : params'[list][i] = params[list][i]
         /\ params'[list][N(list) + 1] = next
PROOF
  <1>1. TypeOK /\ next <= Len(text) /\ UNCHANGED text /\ Stages
    BY DEF IInv, At
  <1>2. /\ N(list)' = N(list) + 1 /\ ~Empty(list)'
        /\ \A l \in Lists \ {list} : N(l)' = N(l) /\ Empty(l)' = Empty(l) /\ params'[l] = params[l]
        /\ \A i \in 1 .. N(list) : params'[list][i] = params[list][i]
        /\ params'[list][N(list) + 1] = next
    BY <1>1, Collected
  <1>3. stage' = s /\ next' = next + 1
    BY DEF Collect
  <1>4. \A l \in Lists : N(l) \in Nat /\ N(l) < next /\ next \in Nat
    BY <1>1, Types DEF Stages
  <1>. QED BY <1>1, <1>2, <1>3, <1>4

LEMMA PlainStep == ASSUME IInv, Plain PROVE IInv'
PROOF
  <1>. /\ At("plain") /\ "plain" \in Kinds /\ stage \in 0 .. 4
       /\ Stages /\ phase = "list" /\ UNCHANGED <<text, call>>
    BY DEF Plain, IInv, TypeOK, At, Kinds
  <1>1. CASE /\ \A l \in {"optional", "variadic", "named"} : Empty(l)
             /\ Collect("prefix", stage)
    <2>1. "prefix" \in Lists
      BY DEF Lists
    <2>2. Empty("suffix")
      BY <1>1 DEF Stages
    <2>3. Stages'
      BY <1>1, <2>1, <2>2, StagesOf DEF Stages, Lists
    <2>. QED BY <1>1, <2>1, <2>2, <2>3, CollectStep
  <1>2. CASE /\ ~ \A l \in {"optional", "variadic", "named"} : Empty(l)
             /\ stage <= 3 /\ Collect("suffix", 3)
    <2>1. "suffix" \in Lists
      BY DEF Lists
    <2>2. Empty("named")
      BY <1>2 DEF Stages
    <2>3. Stages'
      BY <1>2, <2>1, <2>2, StagesOf DEF Stages, Lists
    <2>. QED BY <1>2, <2>1, <2>2, <2>3, CollectStep
  <1>3. CASE Reject
    BY <1>3, RejectStep
  <1>. QED BY <1>1, <1>2, <1>3 DEF Plain

LEMMA DefaultStep == ASSUME IInv, Default PROVE IInv'
PROOF
  <1>. /\ At("default") /\ "default" \in Kinds /\ stage \in 0 .. 4
       /\ Stages /\ phase = "list" /\ UNCHANGED <<text, call>>
    BY DEF Default, IInv, TypeOK, At, Kinds
  <1>1. CASE stage <= 1 /\ Collect("optional", 1)
    <2>1. "optional" \in Lists
      BY DEF Lists
    <2>2. Empty("variadic") /\ Empty("suffix") /\ Empty("named")
      BY <1>1 DEF Stages
    <2>3. Stages'
      BY <1>1, <2>1, <2>2, StagesOf DEF Stages, Lists
    <2>. QED BY <1>1, <2>1, <2>2, <2>3, CollectStep
  <1>2. CASE Reject
    BY <1>2, RejectStep
  <1>. QED BY <1>1, <1>2 DEF Default

LEMMA StarStep == ASSUME IInv, Star PROVE IInv'
PROOF
  <1>. /\ At("star") /\ "star" \in Kinds /\ stage \in 0 .. 4
       /\ Stages /\ phase = "list" /\ UNCHANGED <<text, call>>
    BY DEF Star, IInv, TypeOK, At, Kinds
  <1>1. CASE stage < 2 /\ Empty("variadic") /\ Collect("variadic", 3)
    <2>1. "variadic" \in Lists
      BY DEF Lists
    <2>2. Empty("suffix") /\ Empty("named") /\ N("variadic") = 0
      BY <1>1 DEF Stages, Empty, N
    <2>3. Stages'
      BY <1>1, <2>1, <2>2, StagesOf DEF Stages, Lists
    <2>. QED BY <1>1, <2>1, <2>2, <2>3, CollectStep
  <1>2. CASE Reject
    BY <1>2, RejectStep
  <1>. QED BY <1>1, <1>2 DEF Star

LEMMA AmpStep == ASSUME IInv, Amp PROVE IInv'
PROOF
  <1>. /\ At("amp") /\ "amp" \in Kinds /\ stage \in 0 .. 4
       /\ Stages /\ phase = "list" /\ UNCHANGED <<text, call>>
    BY DEF Amp, IInv, TypeOK, At, Kinds
  <1>1. CASE Collect("block", stage)
    <2>1. "block" \in Lists
      BY DEF Lists
    <2>2. Stages'
      BY <1>1, <2>1, StagesOf DEF Stages, Lists
    <2>. QED BY <1>1, <2>1, <2>2, CollectStep
  <1>2. CASE Reject
    BY <1>2, RejectStep
  <1>. QED BY <1>1, <1>2 DEF Amp

LEMMA NamedStep == ASSUME IInv, Named PROVE IInv'
PROOF
  <1>. PICK k \in {"label", "bare"} : At(k)
    BY DEF Named
  <1>. /\ k \in Kinds /\ text[next] = k /\ 4 \in 0 .. 4
       /\ Stages /\ Collect("named", 4)
    BY DEF Named, IInv, At, Kinds
  <1>1. "named" \in Lists
    BY DEF Lists
  <1>2. /\ stage' = 4 /\ ~Empty("named")' /\ N("variadic")' = N("variadic")
        /\ \A l \in Lists : N(l)' < next'
        /\ N("named")' = N("named") + 1 /\ N("named") \in Nat /\ UNCHANGED text
        /\ \A i \in 1 .. N("named") : params'["named"][i] = params["named"][i]
        /\ params'["named"][N("named") + 1] = next
    BY <1>1, StagesOf DEF Lists
  <1>3. ASSUME NEW i \in 1 .. N("named")'
        PROVE  text'[params'["named"][i]] \in {"label", "bare"}
    <2>1. CASE i = N("named") + 1
      BY <1>2, <2>1
    <2>2. CASE i \in 1 .. N("named")
      BY <1>2, <2>2 DEF Stages
    <2>. QED BY <1>2, <2>1, <2>2
  <1>4. Stages'
    BY <1>2, <1>3 DEF Stages
  <1>. QED BY <1>1, <1>4, CollectStep

LEMMA BrokenStep == ASSUME IInv, Broken PROVE IInv'
  BY RejectStep DEF Broken, At

LEMMA EndOfListStep == ASSUME IInv, EndOfList PROVE IInv'
  BY Kept DEF IInv, EndOfList, call, TypeOK, Phases, Ended, Progress, Binding, GivesUpOnlyWhenUnbindable

-----------------------------------------------------------------------------
(* The steps of a call.                                                    *)

\* No parameter is in two lists, nor twice in one.
LEMMA Disjoint ==
  ASSUME TypeOK, ListsFollowTheText, NEW l \in Lists
  PROVE  /\ \A i, j \in 1 .. N(l) : params[l][i] = params[l][j] => i = j
         /\ \A m \in Lists \ {l}, p \in Members(l) : p \notin Members(m)
PROOF
  <1>1. \A i, j \in 1 .. N(l) : params[l][i] = params[l][j] => i = j
    <2>1. ASSUME NEW i \in 1 .. N(l), NEW j \in 1 .. N(l), params[l][i] = params[l][j], i # j
          PROVE  FALSE
      <3>1. N(l) \in Nat /\ params[l][i] \in Int /\ params[l][j] \in Int
        BY Types
      <3>2. i < j \/ j < i
        BY <2>1, <3>1
      <3>. QED BY <2>1, <3>1, <3>2 DEF ListsFollowTheText
    <2>. QED BY <2>1
  <1>2. \A k \in Lists : Members(k) \subseteq Int
    BY Types
  <1>3. ASSUME NEW m \in Lists \ {l}, NEW p \in Members(l), p \in Members(m)
        PROVE  FALSE
    <2>1. CASE l = "block" \/ m = "block"
      BY <1>3, <2>1 DEF ListsFollowTheText, Lists, Positional
    <2>2. CASE l # "block" /\ m # "block"
      <3>1. p \in Int /\ ~(p < p)
        BY <1>2
      <3>. QED BY <1>3, <2>2, <3>1 DEF ListsFollowTheText, Before, Lists, Positional
    <2>. QED BY <2>1, <2>2
  <1>. QED BY <1>1, <1>3

\* Bind gives the i-th parameter of a list the i-th value and leaves the others alone.
LEMMA BindAt ==
  ASSUME TypeOK, ListsFollowTheText, NEW list \in Lists,
         NEW S, NEW b \in [1 .. Len(text) -> S], NEW v \in Seq(S), N(list) <= Len(v)
  PROVE  /\ Bind(b, list, v) \in [1 .. Len(text) -> S]
         /\ \A i \in 1 .. N(list) : Bind(b, list, v)[params[list][i]] = v[i]
         /\ \A p \in (1 .. Len(text)) \ Members(list) : Bind(b, list, v)[p] = b[p]
PROOF
  <1>. DEFINE at(p) == CHOOSE i \in 1 .. N(list) : params[list][i] = p
  <1>1. Bind(b, list, v) = [p \in 1 .. Len(text) |->
          IF \E i \in 1 .. N(list) : params[list][i] = p THEN v[at(p)] ELSE b[p]]
    BY DEF Bind
  <1>2. \A i \in 1 .. N(list) : params[list][i] \in 1 .. Len(text)
    BY Types
  <1>3. ASSUME NEW i \in 1 .. N(list)
        PROVE  at(params[list][i]) = i
    <2>1. at(params[list][i]) \in 1 .. N(list) /\ params[list][at(params[list][i])] = params[list][i]
      OBVIOUS
    <2>. HIDE DEF at
    <2>. QED BY <2>1, Disjoint
  <1>4. \A p \in 1 .. Len(text) : (\E i \in 1 .. N(list) : params[list][i] = p) <=> p \in Members(list)
    BY DEF Members
  <1>5. ASSUME NEW p \in 1 .. Len(text)
        PROVE  Bind(b, list, v)[p] \in S
    <2>1. CASE \E i \in 1 .. N(list) : params[list][i] = p
      <3>1. at(p) \in 1 .. N(list) /\ N(list) \in Nat
        BY <2>1, Types
      <3>. HIDE DEF at
      <3>2. v[at(p)] \in S
        BY <3>1
      <3>. QED BY <1>1, <2>1, <3>2
    <2>2. CASE ~ \E i \in 1 .. N(list) : params[list][i] = p
      BY <1>1, <2>2
    <2>. QED BY <2>1, <2>2
  <1>. HIDE DEF at
  <1>6. Bind(b, list, v) \in [1 .. Len(text) -> S]
    BY <1>1, <1>5
  <1>7. \A i \in 1 .. N(list) : Bind(b, list, v)[params[list][i]] = v[i]
    BY <1>1, <1>2, <1>3
  <1>8. \A p \in (1 .. Len(text)) \ Members(list) : Bind(b, list, v)[p] = b[p]
    BY <1>1, <1>4
  <1>. QED BY <1>6, <1>7, <1>8

LEMMA Counts ==
  ASSUME IInv
  PROVE  /\ \A l \in Lists : N(l) \in Nat /\ N(l) <= Len(text)
         /\ MinArgc = N("prefix") + N("suffix") /\ MinArgc \in Nat
         /\ MaxArgc = MinArgc + N("optional") /\ MaxArgc \in Nat
         /\ MaxArgs \in Nat /\ argc \in 0 .. MaxArgs /\ done \in 0 .. Len(text) /\ Len(text) \in Nat
PROOF
  <1>1. \A l \in Lists : N(l) \in Nat /\ N(l) < next /\ next \in 1 .. Len(text) + 1 /\ Len(text) \in Nat
    BY Types DEF IInv, Stages, TypeOK
  <1>2. N("prefix") \in Nat /\ N("suffix") \in Nat /\ N("optional") \in Nat
    BY <1>1 DEF Lists
  <1>3. MaxArgs \in Nat /\ argc \in 0 .. MaxArgs /\ done \in 0 .. Len(text)
    BY ParamListAssumption DEF IInv, TypeOK
  <1>4. /\ MinArgc = N("prefix") + N("suffix") /\ MinArgc \in Nat
        /\ MaxArgc = MinArgc + N("optional") /\ MaxArgc \in Nat
    BY <1>2 DEF MinArgc, MaxArgc
  <1>. QED BY <1>1, <1>3, <1>4

\* The places of the arguments are a sequence of sequences of places.
LEMMA PrefixTypes ==
  ASSUME IInv, N("prefix") <= MaxArgs
  PROVE  PrefixPlaces \in Seq(Seq(0 .. MaxArgs + 1)) /\ Len(PrefixPlaces) = N("prefix")
PROOF
  <1>1. N("prefix") \in Nat /\ MaxArgs \in Nat
    BY Counts DEF Lists
  <1>2. \A i \in 1 .. N("prefix") : <<i>> \in Seq(0 .. MaxArgs + 1)
    BY <1>1
  <1>3. PrefixPlaces \in [1 .. N("prefix") -> Seq(0 .. MaxArgs + 1)]
    BY <1>2 DEF PrefixPlaces
  <1>. QED BY <1>1, <1>3

LEMMA CallStep ==
  ASSUME IInv, NEW n \in 0 .. MaxArgs, NEW given \in SUBSET NamedParams, Call(n, given)
  PROVE  IInv'
PROOF
  <1>. UNCHANGED <<text, next, stage, params>>
    BY DEF Call
  <1>1. given \subseteq 1 .. Len(text)
    BY Types DEF IInv, NamedParams, Lists
  <1>2. Unbound \in [1 .. Len(text) -> Seq(0 .. MaxArgs + 1)]
    BY DEF Unbound
  <1>3. CASE GetArgc = -1 /\ phase' = "entry" /\ bound' = Unbound
    BY <1>1, <1>2, <1>3, Kept, Counts
       DEF Call, IInv, TypeOK, Phases, Progress, Binding, GivesUpOnlyWhenUnbindable
  <1>4. CASE GetArgc = n /\ phase' = "body" /\ bound' = Bind(Unbound, "prefix", PrefixPlaces)
    <2>1. n = N("prefix") /\ N("prefix") \in Nat
      BY <1>4, Types DEF IInv, GetArgc, N, Lists
    <2>2. \A i \in 1 .. N("prefix") : PrefixPlaces[i] = <<i>>
      BY DEF PrefixPlaces
    <2>3. /\ bound' \in [1 .. Len(text) -> Seq(0 .. MaxArgs + 1)]
          /\ \A i \in 1 .. N("prefix") : bound'[params["prefix"][i]] = <<i>>
      <3>1. TypeOK /\ ListsFollowTheText /\ "prefix" \in Lists
        BY DEF IInv, Lists
      <3>2. /\ Bind(Unbound, "prefix", PrefixPlaces) \in [1 .. Len(text) -> Seq(0 .. MaxArgs + 1)]
            /\ \A i \in 1 .. N("prefix") :
                 Bind(Unbound, "prefix", PrefixPlaces)[params["prefix"][i]] = PrefixPlaces[i]
        <4>. DEFINE S == Seq(0 .. MaxArgs + 1)
                    b == Unbound
                    v == PrefixPlaces
        <4>1. b \in [1 .. Len(text) -> S] /\ v \in Seq(S) /\ N("prefix") <= Len(v)
          BY <1>2, <2>1, <2>2, PrefixTypes
        <4>. HIDE DEF S, b, v
        <4>2. /\ Bind(b, "prefix", v) \in [1 .. Len(text) -> S]
              /\ \A i \in 1 .. N("prefix") : Bind(b, "prefix", v)[params["prefix"][i]] = v[i]
          BY <3>1, <4>1, BindAt
        <4>. QED BY <4>2 DEF S, b, v
      <3>. QED BY <1>4, <2>2, <3>2
    <2>4. TypeOK'
      BY <1>1, <1>4, <2>3, Counts DEF Call, IInv, TypeOK, Phases
    <2>5. Binding'
      <3>1. phase' = "body" /\ argc' = N("prefix")' /\ N("prefix")' = N("prefix") /\ params' = params
        BY <1>4, <2>1, Kept DEF Call
      <3>2. GetArgc' # -1
        BY <1>4, Kept
      <3>3. \A i \in 1 .. N("prefix")' : bound'[params'["prefix"][i]] = <<i>>
        BY <2>3, <3>1
      <3>. QED BY <3>1, <3>2, <3>3 DEF Binding
    <2>. QED BY <1>4, <2>4, <2>5, Kept DEF IInv, Progress, GivesUpOnlyWhenUnbindable
  <1>5. CASE phase' = "raised" /\ bound' = Unbound
    BY <1>1, <1>2, <1>5, Kept, Counts
       DEF Call, IInv, TypeOK, Phases, Ended, Progress, Binding, GivesUpOnlyWhenUnbindable
  <1>. QED BY <1>3, <1>4, <1>5 DEF Call

LEMMA SuffixTypes ==
  ASSUME IInv, argc >= MinArgc
  PROVE  /\ SuffixPlaces \in Seq(Seq(0 .. MaxArgs + 1)) /\ Len(SuffixPlaces) = N("suffix")
         /\ \A i \in 1 .. N("suffix") : SuffixPlaces[i] = <<argc - N("suffix") + i>>
PROOF
  <1>1. N("suffix") \in Nat /\ N("prefix") \in Nat /\ MaxArgs \in Nat /\ argc \in 0 .. MaxArgs
        /\ argc >= N("suffix")
    BY Counts DEF Lists
  <1>2. \A i \in 1 .. N("suffix") : <<argc - N("suffix") + i>> \in Seq(0 .. MaxArgs + 1)
    BY <1>1
  <1>3. /\ SuffixPlaces \in [1 .. N("suffix") -> Seq(0 .. MaxArgs + 1)]
        /\ \A i \in 1 .. N("suffix") : SuffixPlaces[i] = <<argc - N("suffix") + i>>
    BY <1>2 DEF SuffixPlaces
  <1>4. SuffixPlaces \in [1 .. N("suffix") -> Seq(0 .. MaxArgs + 1)]
    BY <1>3
  <1>5. SuffixPlaces \in Seq(Seq(0 .. MaxArgs + 1)) /\ Len(SuffixPlaces) = N("suffix")
    BY <1>1, <1>4
  <1>. QED BY <1>3, <1>5

LEMMA VariadicTypes ==
  ASSUME IInv
  PROVE  VariadicPlaces \in Seq(Seq(0 .. MaxArgs + 1)) /\ Len(VariadicPlaces) = 1
PROOF
  <1>. DEFINE left == IF argc > MaxArgc THEN argc - MaxArgc ELSE 0
              rest == [k \in 1 .. left |-> N("prefix") + N("optional") + k]
  <1>1. /\ N("prefix") \in Nat /\ N("optional") \in Nat /\ N("suffix") \in Nat
        /\ MaxArgs \in Nat /\ argc \in 0 .. MaxArgs
        /\ MaxArgc = N("prefix") + N("suffix") + N("optional")
    BY Counts DEF Lists
  <1>2. left \in Nat /\ \A k \in 1 .. left : N("prefix") + N("optional") + k \in 0 .. MaxArgs + 1
    BY <1>1
  <1>4. VariadicPlaces = <<rest>>
    BY DEF VariadicPlaces
  <1>. HIDE DEF left
  <1>5. rest \in [1 .. left -> 0 .. MaxArgs + 1]
    BY <1>2
  <1>. HIDE DEF rest
  <1>3. rest \in Seq(0 .. MaxArgs + 1)
    <2>1. left \in Nat
      BY <1>2
    <2>2. ASSUME NEW S, NEW n \in Nat, NEW f \in [1 .. n -> S]
          PROVE  f \in Seq(S)
      OBVIOUS
    <2>. QED BY <2>1, <2>2, <1>5
  <1>. QED BY <1>3, <1>4

LEMMA EnterStep == ASSUME IInv, Enter PROVE IInv'
PROOF
  <1>. /\ TypeOK /\ ListsFollowTheText /\ "prefix" \in Lists /\ "suffix" \in Lists
       /\ UNCHANGED <<text, next, stage, params, argc, names, done>>
       /\ phase = "entry" /\ GetArgc = -1 /\ done = 0
    BY DEF IInv, Enter, Lists, Progress
  <1>0. /\ N("prefix") \in Nat /\ N("suffix") \in Nat /\ N("optional") \in Nat
        /\ argc \in 0 .. MaxArgs /\ MaxArgs \in Nat
        /\ MinArgc = N("prefix") + N("suffix") /\ MaxArgc = MinArgc + N("optional")
    BY Counts DEF Lists
  <1>1. CASE ArgcBounds
    <2>. DEFINE S == Seq(0 .. MaxArgs + 1)
                v == PrefixPlaces
                w == SuffixPlaces
                b == Bind(bound, "prefix", v)
    <2>1. /\ bound \in [1 .. Len(text) -> S]
          /\ v \in Seq(S) /\ N("prefix") <= Len(v) /\ \A i \in 1 .. N("prefix") : v[i] = <<i>>
          /\ w \in Seq(S) /\ N("suffix") <= Len(w)
          /\ \A i \in 1 .. N("suffix") : w[i] = <<argc - N("suffix") + i>>
      BY <1>0, <1>1, PrefixTypes, SuffixTypes DEF TypeOK, ArgcBounds, PrefixPlaces
    <2>2. bound' = Bind(b, "suffix", w) /\ phase' = "optional"
      BY <1>1 DEF Enter
    <2>. HIDE DEF S, v, w
    <2>3. b \in [1 .. Len(text) -> S] /\ \A i \in 1 .. N("prefix") : b[params["prefix"][i]] = v[i]
      BY <2>1, BindAt
    <2>. HIDE DEF b
    <2>4. /\ bound' \in [1 .. Len(text) -> S]
          /\ \A i \in 1 .. N("suffix") : bound'[params["suffix"][i]] = w[i]
          /\ \A p \in (1 .. Len(text)) \ Members("suffix") : bound'[p] = b[p]
      BY <2>1, <2>2, <2>3, BindAt
    <2>5. \A i \in 1 .. N("prefix") :
            params["prefix"][i] \in (1 .. Len(text)) \ Members("suffix")
      <3>1. ASSUME NEW i \in 1 .. N("prefix")
            PROVE  params["prefix"][i] \in 1 .. Len(text) /\ params["prefix"][i] \in Members("prefix")
        BY Types DEF Members
      <3>2. \A p \in Members("prefix") : p \notin Members("suffix")
        BY Disjoint DEF Lists
      <3>. QED BY <3>1, <3>2
    <2>6. RequiredBound'
      BY <2>1, <2>3, <2>4, <2>5, Kept DEF RequiredBound
    <2>7. TypeOK'
      BY <2>2, <2>4 DEF TypeOK, Phases, S
    <2>8. OptionalBound(done)'
      BY <1>0, Kept DEF OptionalBound
    <2>9. ArgcBounds'
      BY <1>1, Kept DEF ArgcBounds
    <2>. QED BY <1>0, <2>2, <2>6, <2>7, <2>8, <2>9, Kept DEF IInv, Progress, Binding, GivesUpOnlyWhenUnbindable
  <1>2. CASE ~ArgcBounds
    <2>1. phase' = "unreachable" /\ bound' = bound
      BY <1>2 DEF Enter
    <2>2. ASSUME NEW k \in 0 .. N("optional"), NEW v \in 0 .. argc,
                 N("prefix") + k + v + N("suffix") = argc
          PROVE  v > 0 /\ Empty("variadic")
      BY <1>0, <1>2, <2>2 DEF ArgcBounds
    <2>3. GivesUpOnlyWhenUnbindable'
      BY <2>2, Kept DEF GivesUpOnlyWhenUnbindable
    <2>4. TypeOK'
      BY <2>1 DEF TypeOK, Phases, Ended
    <2>. QED BY <2>1, <2>3, <2>4, Kept DEF IInv, Progress, Binding
  <1>. QED BY <1>1, <1>2

\* The places of a parameter of one list are not those of another's.
LEMMA Elsewhere ==
  ASSUME TypeOK, ListsFollowTheText, NEW l \in Lists, NEW m \in Lists,
         NEW i \in 1 .. N(l), NEW j \in 1 .. N(m), l # m \/ i # j
  PROVE  params[l][i] # params[m][j]
PROOF
  <1>1. CASE l = m
    BY <1>1, Disjoint
  <1>2. CASE l # m
    <2>1. params[l][i] \in Members(l) /\ params[m][j] \in Members(m)
      BY DEF Members
    <2>2. params[l][i] \notin Members(m)
      BY <1>2, <2>1, Disjoint
    <2>. QED BY <2>1, <2>2
  <1>. QED BY <1>1, <1>2

LEMMA OptionalArgStep == ASSUME IInv, OptionalArg PROVE IInv'
PROOF
  <1>. /\ TypeOK /\ ListsFollowTheText /\ "optional" \in Lists
       /\ UNCHANGED <<text, next, stage, params, phase, argc, names>>
       /\ phase = "optional" /\ GetArgc = -1 /\ done < N("optional") /\ done' = done + 1
       /\ ArgcBounds /\ RequiredBound /\ OptionalBound(done)
    BY DEF IInv, OptionalArg, Lists, Progress, Binding
  <1>0. /\ N("prefix") \in Nat /\ N("suffix") \in Nat /\ N("optional") \in Nat /\ N("optional") <= Len(text)
        /\ argc \in 0 .. MaxArgs /\ MaxArgs \in Nat /\ done \in Nat /\ Len(text) \in Nat
        /\ MinArgc = N("prefix") + N("suffix")
    BY Counts DEF Lists
  <1>. DEFINE p == params["optional"][done + 1]
              place == OptionalPlace(done + 1)
  <1>1. bound' = [bound EXCEPT ![p] = place]
    BY DEF OptionalArg, OptionalPlace
  <1>2. p \in 1 .. Len(text)
    BY <1>0, Types
  <1>3. place \in Seq(0 .. MaxArgs + 1)
    <2>1. ByDefault \in Seq(0 .. MaxArgs + 1)
      BY <1>0 DEF ByDefault
    <2>2. CASE argc >= MinArgc + (done + 1)
      <3>1. N("prefix") + (done + 1) \in 0 .. MaxArgs + 1
        BY <1>0, <2>2
      <3>. QED BY <2>2, <3>1 DEF OptionalPlace
    <2>3. CASE ~(argc >= MinArgc + (done + 1))
      BY <2>1, <2>3 DEF OptionalPlace
    <2>. QED BY <2>2, <2>3
  <1>. HIDE DEF place
  <1>4. bound \in [1 .. Len(text) -> Seq(0 .. MaxArgs + 1)]
    BY DEF TypeOK
  <1>5. /\ bound' \in [1 .. Len(text) -> Seq(0 .. MaxArgs + 1)]
        /\ bound'[p] = place
        /\ \A q \in 1 .. Len(text) : q # p => bound'[q] = bound[q]
    BY <1>1, <1>2, <1>3, <1>4
  <1>6. ASSUME NEW l \in Lists, NEW i \in 1 .. N(l), l # "optional" \/ i # done + 1
        PROVE  bound'[params[l][i]] = bound[params[l][i]]
    <2>1. params[l][i] # p
      BY <1>0, <1>6, Elsewhere
    <2>2. params[l][i] \in 1 .. Len(text)
      BY Types
    <2>. QED BY <1>5, <2>1, <2>2
  <1>7. TypeOK'
    BY <1>0, <1>5 DEF TypeOK
  <1>8. RequiredBound'
    <2>1. \A i \in 1 .. N("prefix") : bound'[params["prefix"][i]] = bound[params["prefix"][i]]
      BY <1>6 DEF Lists
    <2>2. \A i \in 1 .. N("suffix") : bound'[params["suffix"][i]] = bound[params["suffix"][i]]
      BY <1>6 DEF Lists
    <2>3. N("prefix")' = N("prefix") /\ N("suffix")' = N("suffix")
      BY Kept
    <2>. QED BY <2>1, <2>2, <2>3 DEF RequiredBound
  <1>9. ASSUME NEW i \in 1 .. N("optional"), i <= done + 1
        PROVE  bound'[params["optional"][i]] = OptionalPlace(i)
    <2>1. CASE i = done + 1
      BY <1>5, <2>1 DEF place
    <2>2. CASE i # done + 1
      BY <1>0, <1>6, <1>9, <2>2 DEF OptionalBound
    <2>. QED BY <2>1, <2>2
  <1>10. \A i : OptionalPlace(i)' = OptionalPlace(i)
    BY Kept DEF OptionalPlace, ByDefault
  <1>11. OptionalBound(done)'
    BY <1>9, <1>10, Kept DEF OptionalBound
  <1>12. ArgcBounds'
    BY Kept DEF ArgcBounds
  <1>. QED BY <1>0, <1>7, <1>8, <1>11, <1>12, Kept DEF IInv, Progress, Binding, GivesUpOnlyWhenUnbindable

LEMMA VariadicArgStep == ASSUME IInv, VariadicArg PROVE IInv'
PROOF
  <1>. /\ TypeOK /\ ListsFollowTheText /\ "variadic" \in Lists
       /\ UNCHANGED <<text, next, stage, params, argc, names>>
       /\ phase = "optional" /\ GetArgc = -1 /\ done = N("optional") /\ done' = 0 /\ phase' = "named"
       /\ ArgcBounds /\ RequiredBound /\ OptionalBound(done)
    BY DEF IInv, VariadicArg, Lists, Progress, Binding
  <1>0. N("named") \in Nat /\ Len(text) \in Nat
    BY Counts DEF Lists
  <1>. DEFINE S == Seq(0 .. MaxArgs + 1)
              v == VariadicPlaces
  <1>1. bound \in [1 .. Len(text) -> S] /\ v \in Seq(S) /\ N("variadic") <= Len(v)
    BY VariadicTypes DEF TypeOK, IInv, Stages
  <1>. HIDE DEF S, v
  <1>2. /\ Bind(bound, "variadic", v) \in [1 .. Len(text) -> S]
        /\ \A i \in 1 .. N("variadic") : Bind(bound, "variadic", v)[params["variadic"][i]] = v[i]
        /\ \A p \in (1 .. Len(text)) \ Members("variadic") : Bind(bound, "variadic", v)[p] = bound[p]
    BY <1>1, BindAt
  <1>3. bound' = Bind(bound, "variadic", v)
    BY DEF VariadicArg, v
  <1>4. TypeOK'
    BY <1>0, <1>2, <1>3 DEF TypeOK, Phases, S
  <1>5. ASSUME NEW l \in Lists \ {"variadic"}, NEW i \in 1 .. N(l)
        PROVE  bound'[params[l][i]] = bound[params[l][i]]
    <2>1. params[l][i] \in Members(l) /\ params[l][i] \in 1 .. Len(text)
      BY Types DEF Members
    <2>2. params[l][i] \notin Members("variadic")
      BY <2>1, Disjoint
    <2>. QED BY <1>2, <1>3, <2>1, <2>2
  <1>6. RequiredBound'
    <2>1. \A i \in 1 .. N("prefix") : bound'[params["prefix"][i]] = bound[params["prefix"][i]]
      BY <1>5 DEF Lists
    <2>2. \A i \in 1 .. N("suffix") : bound'[params["suffix"][i]] = bound[params["suffix"][i]]
      BY <1>5 DEF Lists
    <2>3. N("prefix")' = N("prefix") /\ N("suffix")' = N("suffix")
      BY Kept
    <2>. QED BY <2>1, <2>2, <2>3 DEF RequiredBound
  <1>7. OptionalBound(N("optional"))'
    <2>1. \A i : OptionalPlace(i)' = OptionalPlace(i)
      BY Kept DEF OptionalPlace, ByDefault
    <2>2. \A i \in 1 .. N("optional") : bound'[params["optional"][i]] = bound[params["optional"][i]]
      BY <1>5 DEF Lists
    <2>. QED BY <2>1, <2>2, Kept DEF OptionalBound
  <1>8. VariadicBound'
    <2>1. VariadicPlaces' = VariadicPlaces
      BY Kept DEF VariadicPlaces
    <2>2. \A i \in 1 .. N("variadic") : i = 1
      <3>1. N("variadic") <= 1 /\ N("variadic") \in Nat
        BY Types DEF IInv, Stages
      <3>. QED BY <3>1
    <2>. QED BY <1>2, <1>3, <2>1, <2>2, Kept DEF VariadicBound, v
  <1>9. ArgcBounds'
    BY Kept DEF ArgcBounds
  <1>. QED BY <1>0, <1>4, <1>6, <1>7, <1>8, <1>9, Kept DEF IInv, Progress, Binding, GivesUpOnlyWhenUnbindable

LEMMA NamedArgStep == ASSUME IInv, NamedArg PROVE IInv'
PROOF
  <1>. /\ TypeOK /\ ListsFollowTheText /\ "named" \in Lists
       /\ UNCHANGED <<text, next, stage, params, argc, names>>
       /\ phase = "named" /\ GetArgc = -1 /\ done < N("named")
       /\ ArgcBounds /\ RequiredBound /\ OptionalBound(N("optional")) /\ VariadicBound
    BY DEF IInv, NamedArg, Lists, Progress, Binding
  <1>0. /\ N("named") \in Nat /\ N("named") <= Len(text)
        /\ argc \in 0 .. MaxArgs /\ MaxArgs \in Nat /\ done \in Nat /\ Len(text) \in Nat
    BY Counts DEF Lists
  <1>. DEFINE p == params["named"][done + 1]
  <1>1. p \in 1 .. Len(text) /\ p \in Members("named") /\ text[p] \in {"label", "bare"}
    BY <1>0, Types DEF Members, IInv, Stages
  <1>2. CASE p \in names \/ text[p] = "label"
    <2>. DEFINE place == IF p \in names THEN <<argc + 1>> ELSE ByDefault
    <2>1. /\ bound' = [bound EXCEPT ![p] = place]
          /\ done' = done + 1 /\ phase' = "named"
      BY <1>2 DEF NamedArg
    <2>2. place \in Seq(0 .. MaxArgs + 1)
      <3>1. argc + 1 \in 0 .. MaxArgs + 1 /\ 0 \in 0 .. MaxArgs + 1
        BY <1>0
      <3>2. ByDefault \in Seq(0 .. MaxArgs + 1) /\ <<argc + 1>> \in Seq(0 .. MaxArgs + 1)
        BY <3>1 DEF ByDefault
      <3>3. CASE p \in names
        BY <3>2, <3>3
      <3>4. CASE p \notin names
        BY <3>2, <3>4
      <3>. QED BY <3>3, <3>4
    <2>. HIDE DEF place
    <2>3. bound \in [1 .. Len(text) -> Seq(0 .. MaxArgs + 1)]
      BY DEF TypeOK
    <2>4. /\ bound' \in [1 .. Len(text) -> Seq(0 .. MaxArgs + 1)]
          /\ \A q \in 1 .. Len(text) : q # p => bound'[q] = bound[q]
      BY <1>1, <2>1, <2>2, <2>3
    <2>5. ASSUME NEW l \in Lists \ {"named"}, NEW i \in 1 .. N(l)
          PROVE  bound'[params[l][i]] = bound[params[l][i]]
      <3>1. params[l][i] # p /\ params[l][i] \in 1 .. Len(text)
        BY <1>0, Elsewhere, Types
      <3>. QED BY <2>4, <3>1
    <2>6. TypeOK'
      BY <1>0, <2>1, <2>4 DEF TypeOK, Phases
    <2>7. RequiredBound'
      <3>1. \A i \in 1 .. N("prefix") : bound'[params["prefix"][i]] = bound[params["prefix"][i]]
        BY <2>5 DEF Lists
      <3>2. \A i \in 1 .. N("suffix") : bound'[params["suffix"][i]] = bound[params["suffix"][i]]
        BY <2>5 DEF Lists
      <3>3. N("prefix")' = N("prefix") /\ N("suffix")' = N("suffix")
        BY Kept
      <3>. QED BY <3>1, <3>2, <3>3 DEF RequiredBound
    <2>8. OptionalBound(N("optional"))'
      <3>1. \A i : OptionalPlace(i)' = OptionalPlace(i)
        BY Kept DEF OptionalPlace, ByDefault
      <3>2. \A i \in 1 .. N("optional") : bound'[params["optional"][i]] = bound[params["optional"][i]]
        BY <2>5 DEF Lists
      <3>. QED BY <3>1, <3>2, Kept DEF OptionalBound
    <2>9. VariadicBound'
      <3>1. VariadicPlaces' = VariadicPlaces
        BY Kept DEF VariadicPlaces
      <3>2. \A i \in 1 .. N("variadic") : bound'[params["variadic"][i]] = bound[params["variadic"][i]]
        BY <2>5 DEF Lists
      <3>. QED BY <3>1, <3>2, Kept DEF VariadicBound
    <2>10. ArgcBounds'
      BY Kept DEF ArgcBounds
    <2>. QED BY <1>0, <2>1, <2>6, <2>7, <2>8, <2>9, <2>10, Kept
             DEF IInv, Progress, Binding, GivesUpOnlyWhenUnbindable
  <1>3. CASE ~(p \in names \/ text[p] = "label")
    <2>1. phase' = "unreachable" /\ UNCHANGED <<bound, done>>
      BY <1>3 DEF NamedArg
    <2>2. text[p] = "bare" /\ p \notin names
      BY <1>1, <1>3
    <2>3. GivesUpOnlyWhenUnbindable'
      BY <1>1, <2>2, Kept DEF GivesUpOnlyWhenUnbindable
    <2>4. TypeOK'
      BY <2>1 DEF TypeOK, Phases, Ended
    <2>. QED BY <2>1, <2>3, <2>4, Kept DEF IInv, Progress, Binding
  <1>. QED BY <1>2, <1>3

LEMMA BodyStep == ASSUME IInv, Body PROVE IInv'
PROOF
  <1>. UNCHANGED <<text, next, stage, params, argc, names, done, bound>>
       /\ phase = "named" /\ phase' = "body" /\ GetArgc = -1
    BY DEF IInv, Body, Progress
  <1>1. TypeOK'
    BY DEF IInv, TypeOK, Phases
  <1>2. \A i : OptionalPlace(i)' = OptionalPlace(i)
    BY Kept DEF OptionalPlace, ByDefault
  <1>3. (ArgcBounds /\ RequiredBound /\ OptionalBound(N("optional")) /\ VariadicBound)'
    BY <1>2, Kept DEF IInv, Binding, ArgcBounds, RequiredBound, OptionalBound, VariadicBound, VariadicPlaces
  <1>. QED BY <1>1, <1>3, Kept DEF IInv, Progress, Binding, GivesUpOnlyWhenUnbindable

LEMMA RaiseStep == ASSUME IInv, Raise PROVE IInv'
BY Kept DEF IInv, Raise, TypeOK, Phases, Ended, Progress, Binding, GivesUpOnlyWhenUnbindable

LEMMA ReturnStep == ASSUME IInv, Return PROVE IInv'
PROOF
  <1>1. Unbound \in [1 .. Len(text) -> Seq(0 .. MaxArgs + 1)]
    BY DEF Unbound
  <1>2. /\ phase' = "defined" /\ argc' = 0 /\ names' = {} /\ done' = 0 /\ bound' = Unbound
        /\ UNCHANGED <<text, next, stage, params>>
    BY DEF Return
  <1>3. Len(text) \in Nat /\ MaxArgs \in Nat
    BY Types, ParamListAssumption DEF IInv
  <1>4. TypeOK'
    <2>1. 0 \in 0 .. MaxArgs /\ 0 \in 0 .. Len(text)
      BY <1>3
    <2>2. /\ argc' \in 0 .. MaxArgs /\ names' \subseteq 1 .. Len(text)' /\ done' \in 0 .. Len(text)'
          /\ phase' \in Phases
      BY <1>2, <2>1 DEF Phases
    <2>3. bound' \in [1 .. Len(text)' -> Seq(0 .. MaxArgs + 1)]
      BY <1>1, <1>2
    <2>. QED BY <1>2, <2>2, <2>3 DEF IInv, TypeOK
  <1>. QED BY <1>2, <1>4, Kept DEF IInv, Progress, Binding, GivesUpOnlyWhenUnbindable

LEMMA StutterStep == ASSUME IInv, UNCHANGED vars PROVE IInv'
PROOF
  <1>. UNCHANGED <<text, next, stage, params, phase, argc, names, done, bound>>
    BY DEF vars
  <1>1. TypeOK'
    BY DEF IInv, TypeOK
  <1>2. \A i : OptionalPlace(i)' = OptionalPlace(i)
    BY Kept DEF OptionalPlace, ByDefault
  <1>3. /\ ArgcBounds' <=> ArgcBounds
        /\ GetArgc' = GetArgc /\ N("prefix")' = N("prefix") /\ N("optional")' = N("optional")
    BY Kept DEF ArgcBounds
  <1>4. RequiredBound' <=> RequiredBound
    <2>1. N("prefix")' = N("prefix") /\ N("suffix")' = N("suffix")
      BY Kept
    <2>. QED BY <2>1 DEF RequiredBound
  <1>5. \A n : OptionalBound(n)' <=> OptionalBound(n)
    BY <1>2, Kept DEF OptionalBound
  <1>6. VariadicBound' <=> VariadicBound
    BY Kept DEF VariadicBound, VariadicPlaces
  <1>7. Binding'
    BY <1>3, <1>4, <1>5, <1>6 DEF IInv, Binding
  <1>8. Progress'
    BY <1>3, Kept DEF IInv, Progress
  <1>9. GivesUpOnlyWhenUnbindable'
    BY Kept DEF IInv, GivesUpOnlyWhenUnbindable
  <1>. QED BY <1>1, <1>7, <1>8, <1>9, Kept DEF IInv

-----------------------------------------------------------------------------
(* The body.                                                               *)

PositionalLists == {"prefix", "optional", "variadic", "suffix"}

\* The arguments that belong to the i-th parameter of a list.
Share(l, i) ==
  CASE l = "prefix"   -> {i}
    [] l = "optional" -> IF argc >= MinArgc + i THEN {N("prefix") + i} ELSE {}
    [] l = "variadic" -> N("prefix") + N("optional") + 1 .. argc - N("suffix")
    [] l = "suffix"   -> {argc - N("suffix") + i}

\* A method that is called directly takes only required parameters.
LEMMA Direct ==
  ASSUME IInv, GetArgc # -1
  PROVE  /\ GetArgc = N("prefix") /\ N("prefix") <= MaxDirectArgsLen
         /\ \A l \in Lists \ {"prefix"} : Empty(l) /\ N(l) = 0 /\ Members(l) = {}
PROOF
  <1>1. \A l \in {"optional", "variadic", "named", "block"} : Empty(l)
    BY DEF GetArgc
  <1>2. Empty("suffix")
    BY <1>1 DEF IInv, Stages
  <1>3. \A l \in Lists \ {"prefix"} : Empty(l)
    BY <1>1, <1>2 DEF Lists
  <1>4. N("prefix") \in Nat
    BY Types DEF IInv, Lists
  <1>5. GetArgc = N("prefix") /\ N("prefix") <= MaxDirectArgsLen
    BY <1>1, <1>4 DEF GetArgc, N, MaxDirectArgsLen
  <1>. QED BY <1>3, <1>5, Types DEF IInv

\* When the body runs, what was bound fits argc.
LEMMA Fits ==
  ASSUME IInv, phase = "body"
  PROVE  /\ N("prefix") \in Nat /\ N("optional") \in Nat /\ N("suffix") \in Nat /\ argc \in Nat
         /\ MinArgc = N("prefix") + N("suffix")
         /\ MaxArgc = N("prefix") + N("optional") + N("suffix")
         /\ argc >= N("prefix") + N("suffix")
         /\ N("variadic") = 0 => argc <= N("prefix") + N("optional") + N("suffix")
         /\ RequiredBound /\ OptionalBound(N("optional")) /\ VariadicBound
PROOF
  <1>1. /\ N("prefix") \in Nat /\ N("optional") \in Nat /\ N("suffix") \in Nat /\ argc \in Nat
        /\ N("variadic") \in Nat
        /\ MinArgc = N("prefix") + N("suffix")
        /\ MaxArgc = N("prefix") + N("optional") + N("suffix")
        /\ Empty("variadic") <=> N("variadic") = 0
    BY Types DEF IInv, Lists, MinArgc, MaxArgc
  <1>2. CASE GetArgc = -1
    <2>1. ArgcBounds /\ RequiredBound /\ OptionalBound(N("optional")) /\ VariadicBound
      BY <1>2 DEF IInv, Binding
    <2>. QED BY <1>1, <2>1 DEF ArgcBounds
  <1>3. CASE GetArgc # -1
    <2>1. argc = N("prefix") /\ \A i \in 1 .. N("prefix") : bound[params["prefix"][i]] = <<i>>
      BY <1>3 DEF IInv, Binding
    <2>2. N("optional") = 0 /\ N("variadic") = 0 /\ N("suffix") = 0
      BY <1>3, Direct DEF Lists
    <2>3. RequiredBound /\ OptionalBound(N("optional")) /\ VariadicBound
      BY <2>1, <2>2 DEF RequiredBound, OptionalBound, VariadicBound
    <2>. QED BY <1>1, <2>1, <2>2, <2>3
  <1>. QED BY <1>2, <1>3

\* Each parameter has its share, read in order.
LEMMA Shares ==
  ASSUME IInv, phase = "body", NEW l \in PositionalLists, NEW i \in 1 .. N(l)
  PROVE  /\ Takes(params[l][i]) = Share(l, i)
         /\ \A j, k \in 1 .. Len(bound[params[l][i]]) :
              j < k => bound[params[l][i]][j] < bound[params[l][i]][k]
PROOF
  <1>. DEFINE p == params[l][i]
  <1>. N(l) \in Nat /\ i \in Nat /\ i >= 1
    BY Types DEF IInv, PositionalLists, Lists
  <1>1. ASSUME NEW x, bound[p] = <<x>>
        PROVE  /\ Takes(p) = {x} \ {0}
               /\ \A j, k \in 1 .. Len(bound[p]) : j < k => bound[p][j] < bound[p][k]
    <2>1. Len(bound[p]) = 1 /\ bound[p][1] = x
      BY <1>1
    <2>. QED BY <2>1 DEF Takes
  <1>2. CASE l = "prefix"
    <2>1. bound[p] = <<i>>
      BY <1>2, Fits DEF RequiredBound
    <2>. QED BY <1>1, <1>2, <2>1 DEF Share
  <1>3. CASE l = "suffix"
    <2>1. bound[p] = <<argc - N("suffix") + i>>
      BY <1>3, Fits DEF RequiredBound
    <2>2. argc - N("suffix") + i # 0
      BY <1>3, Fits
    <2>. QED BY <1>1, <1>3, <2>1, <2>2 DEF Share
  <1>4. CASE l = "optional"
    <2>1. bound[p] = OptionalPlace(i)
      BY <1>4, Fits DEF OptionalBound
    <2>2. CASE argc >= MinArgc + i
      <3>1. bound[p] = <<N("prefix") + i>>
        BY <2>1, <2>2 DEF OptionalPlace
      <3>2. N("prefix") + i # 0
        BY Fits
      <3>. QED BY <1>1, <1>4, <2>2, <3>1, <3>2 DEF Share
    <2>3. CASE ~(argc >= MinArgc + i)
      <3>1. bound[p] = <<0>>
        BY <2>1, <2>3 DEF OptionalPlace, ByDefault
      <3>. QED BY <1>1, <1>4, <2>3, <3>1 DEF Share
    <2>. QED BY <2>2, <2>3
  <1>5. CASE l = "variadic"
    <2>. DEFINE first == N("prefix") + N("optional")
                n == IF argc > MaxArgc THEN argc - MaxArgc ELSE 0
    <2>1. bound[p] = [k \in 1 .. n |-> first + k]
      BY <1>5, Fits DEF VariadicBound, VariadicPlaces
    <2>2. n \in Nat /\ first \in Nat
      BY Fits
    <2>3. n > 0 => first + n = argc - N("suffix")
      BY Fits
    <2>4. n = 0 => argc - N("suffix") <= first
      BY Fits
    <2>. HIDE DEF n, first
    <2>5. Len(bound[p]) = n /\ \A k \in 1 .. n : bound[p][k] = first + k
      BY <2>1, <2>2
    <2>6. Takes(p) = {first + k : k \in 1 .. n}
      <3>1. Takes(p) = {bound[p][k] : k \in 1 .. n} \ {0}
        BY <2>5 DEF Takes
      <3>2. {bound[p][k] : k \in 1 .. n} = {first + k : k \in 1 .. n}
        BY <2>5
      <3>3. 0 \notin {first + k : k \in 1 .. n}
        BY <2>2
      <3>. QED BY <3>1, <3>2, <3>3
    <2>7. {first + k : k \in 1 .. n} = first + 1 .. argc - N("suffix")
      <3>1. argc - N("suffix") \in Int
        BY Fits
      <3>2. ASSUME NEW x \in first + 1 .. argc - N("suffix")
            PROVE  x \in {first + k : k \in 1 .. n}
        <4>1. n > 0 /\ x - first \in 1 .. n /\ x = first + (x - first)
          BY <2>2, <2>3, <2>4, <3>1, <3>2
        <4>. QED BY <4>1
      <3>3. ASSUME NEW k \in 1 .. n
            PROVE  first + k \in first + 1 .. argc - N("suffix")
        BY <2>2, <2>3, <3>1
      <3>. QED BY <3>2, <3>3
    <2>8. \A j, k \in 1 .. Len(bound[p]) : j < k => bound[p][j] < bound[p][k]
      BY <2>2, <2>5
    <2>9. Share(l, i) = first + 1 .. argc - N("suffix")
      BY <1>5 DEF Share, first
    <2>. QED BY <2>6, <2>7, <2>8, <2>9
  <1>. QED BY <1>2, <1>3, <1>4, <1>5 DEF PositionalLists

\* A parameter is somewhere in one of the lists.
LEMMA PlaceOf ==
  ASSUME IInv, NEW p \in Positional
  PROVE  \E l \in PositionalLists : \E i \in 1 .. N(l) : params[l][i] = p
BY DEF Positional, PositionalLists, Members

\* The share of a parameter is in front of the shares of those that follow it.
LEMMA SharesInOrder ==
  ASSUME IInv, phase = "body",
         NEW l \in PositionalLists, NEW i \in 1 .. N(l),
         NEW m \in PositionalLists, NEW j \in 1 .. N(m),
         params[l][i] < params[m][j]
  PROVE  Before(Share(l, i), Share(m, j))
PROOF
  <1>. DEFINE P == N("prefix")
              O == N("optional")
              S == N("suffix")
  <1>1. /\ P \in Nat /\ O \in Nat /\ S \in Nat /\ argc \in Nat /\ argc >= P + S
        /\ MinArgc = P + S
    BY Fits
  <1>2. /\ l \in Lists /\ m \in Lists /\ N(l) \in Nat /\ N(m) \in Nat
        /\ params[l][i] \in Members(l) /\ params[m][j] \in Members(m)
        /\ params[l][i] \in Int /\ params[m][j] \in Int
    BY Types DEF IInv, PositionalLists, Lists, Members
  <1>3. CASE l = m
    <2>1. i < j
      <3>1. ~(j < i) /\ i # j
        BY <1>2, <1>3 DEF IInv, ListsFollowTheText
      <3>. QED BY <1>2, <3>1
    <2>2. N("variadic") <= 1 /\ l # "variadic"
      BY <1>2, <1>3, <2>1 DEF IInv, Stages
    <2>. QED BY <1>1, <1>2, <1>3, <2>1, <2>2 DEF Share, Before, PositionalLists
  <1>4. CASE l # m
    <2>1. ~Before(Members(m), Members(l))
      BY <1>2 DEF Before
    <2>2. \/ l = "prefix" /\ m \in {"optional", "variadic", "suffix"}
          \/ l = "optional" /\ m \in {"variadic", "suffix"}
          \/ l = "variadic" /\ m = "suffix"
      <3>1. /\ Before(Members("prefix"), Members("optional"))
            /\ Before(Members("prefix"), Members("variadic"))
            /\ Before(Members("prefix"), Members("suffix"))
            /\ Before(Members("optional"), Members("variadic"))
            /\ Before(Members("optional"), Members("suffix"))
            /\ Before(Members("variadic"), Members("suffix"))
        BY DEF IInv, ListsFollowTheText, Before
      <3>. QED BY <1>4, <2>1, <3>1 DEF PositionalLists
    <2>3. ASSUME NEW x \in Share(l, i)
          PROVE  /\ l = "prefix" => x \in Int /\ x <= P
                 /\ l = "optional" => x \in Int /\ x <= P + O /\ x <= argc - S
                 /\ l = "variadic" => x \in Int /\ x <= argc - S
      BY <1>1, <1>2 DEF Share
    <2>4. ASSUME NEW y \in Share(m, j)
          PROVE  /\ m = "optional" => y \in Int /\ y > P
                 /\ m = "variadic" => y \in Int /\ y > P + O
                 /\ m = "suffix" => y \in Int /\ y > argc - S
      BY <1>1, <1>2 DEF Share
    <2>. HIDE DEF P, O, S
    <2>. QED BY <1>1, <2>2, <2>3, <2>4 DEF Before
  <1>. QED BY <1>3, <1>4

\* The shares are all the arguments.
LEMMA SharesCover ==
  ASSUME IInv, phase = "body", NEW x \in 1 .. argc
  PROVE  \E l \in PositionalLists : \E i \in 1 .. N(l) : x \in Share(l, i)
PROOF
  <1>. DEFINE P == N("prefix")
              O == N("optional")
              S == N("suffix")
  <1>1. /\ P \in Nat /\ O \in Nat /\ S \in Nat /\ argc \in Nat /\ argc >= P + S
        /\ MinArgc = P + S /\ x \in Nat /\ x >= 1 /\ x <= argc
        /\ N("variadic") \in Nat /\ (N("variadic") = 0 => argc <= P + O + S)
    BY Fits, Types DEF IInv, Lists
  <1>2. CASE x <= P
    <2>1. x \in 1 .. P /\ x \in Share("prefix", x)
      BY <1>1, <1>2 DEF Share
    <2>. QED BY <2>1 DEF PositionalLists
  <1>3. CASE x > argc - S
    <2>1. x - (argc - S) \in 1 .. S
      BY <1>1, <1>3
    <2>2. x \in Share("suffix", x - (argc - S))
      BY <1>1 DEF Share
    <2>. QED BY <2>1, <2>2 DEF PositionalLists
  <1>4. CASE x > P /\ x <= argc - S /\ x <= P + O
    <2>1. x - P \in 1 .. O /\ argc >= MinArgc + (x - P) /\ P + (x - P) = x
      BY <1>1, <1>4
    <2>2. x \in Share("optional", x - P)
      BY <2>1 DEF Share
    <2>. QED BY <2>1, <2>2 DEF PositionalLists
  <1>5. CASE x <= argc - S /\ x > P + O
    <2>1. 1 \in 1 .. N("variadic")
      BY <1>1, <1>5
    <2>2. x \in Share("variadic", 1)
      BY <1>1, <1>5 DEF Share
    <2>. QED BY <2>1, <2>2 DEF PositionalLists
  <1>. QED BY <1>1, <1>2, <1>3, <1>4, <1>5

LEMMA BodyBinding == ASSUME IInv, phase = "body" PROVE EveryArgumentOnce /\ FilledFromTheLeft
PROOF
  <1>1. ASSUME NEW l \in PositionalLists, NEW i \in 1 .. N(l)
        PROVE  /\ params[l][i] \in Positional
               /\ Share(l, i) \subseteq 1 .. argc
    <2>1. params[l][i] \in Positional
      BY DEF Positional, PositionalLists, Members
    <2>2. /\ N("prefix") \in Nat /\ N("optional") \in Nat /\ N("suffix") \in Nat /\ argc \in Nat
          /\ argc >= N("prefix") + N("suffix") /\ MinArgc = N("prefix") + N("suffix")
      BY Fits
    <2>3. Share(l, i) \subseteq 1 .. argc
      BY <2>2 DEF Share, PositionalLists
    <2>. QED BY <2>1, <2>3
  <1>2. UNION {Takes(p) : p \in Positional} = 1 .. argc
    <2>1. ASSUME NEW p \in Positional
          PROVE  Takes(p) \subseteq 1 .. argc
      <3>1. PICK l \in PositionalLists : \E i \in 1 .. N(l) : params[l][i] = p
        BY PlaceOf
      <3>2. PICK i \in 1 .. N(l) : params[l][i] = p
        BY <3>1
      <3>. QED BY <1>1, <3>2, Shares
    <2>2. ASSUME NEW x \in 1 .. argc
          PROVE  \E p \in Positional : x \in Takes(p)
      <3>1. PICK l \in PositionalLists : \E i \in 1 .. N(l) : x \in Share(l, i)
        BY SharesCover
      <3>2. PICK i \in 1 .. N(l) : x \in Share(l, i)
        BY <3>1
      <3>. QED BY <1>1, <3>2, Shares
    <2>. QED BY <2>1, <2>2
  <1>3. ASSUME NEW p \in Positional, NEW q \in Positional, p < q
        PROVE  Before(Takes(p), Takes(q))
    <2>1. PICK l \in PositionalLists : \E i \in 1 .. N(l) : params[l][i] = p
      BY PlaceOf
    <2>2. PICK m \in PositionalLists : \E j \in 1 .. N(m) : params[m][j] = q
      BY PlaceOf
    <2>3. PICK i \in 1 .. N(l) : params[l][i] = p
      BY <2>1
    <2>4. PICK j \in 1 .. N(m) : params[m][j] = q
      BY <2>2
    <2>5. Takes(p) = Share(l, i) /\ Takes(q) = Share(m, j)
      BY <2>3, <2>4, Shares
    <2>. QED BY <1>3, <2>3, <2>4, <2>5, SharesInOrder
  <1>4. ASSUME NEW p \in Positional
        PROVE  \A i, j \in 1 .. Len(bound[p]) : i < j => bound[p][i] < bound[p][j]
    <2>1. PICK l \in PositionalLists : \E i \in 1 .. N(l) : params[l][i] = p
      BY PlaceOf
    <2>2. PICK i \in 1 .. N(l) : params[l][i] = p
      BY <2>1
    <2>. QED BY <2>2, Shares
  <1>5. \A p \in Members("prefix") \cup Members("suffix") : Takes(p) # {}
    <2>1. ASSUME NEW l \in {"prefix", "suffix"}, NEW i \in 1 .. N(l)
          PROVE  Takes(params[l][i]) # {}
      <3>1. l \in PositionalLists
        BY DEF PositionalLists
      <3>2. Share(l, i) # {}
        BY DEF Share
      <3>. QED BY <3>1, <3>2, Shares
    <2>. QED BY <2>1 DEF Members
  <1>6. ASSUME NEW p \in Members("optional"), NEW q \in Members("optional") \cup Members("variadic"),
               p < q, Takes(q) # {}
        PROVE  Takes(p) # {}
    <2>1. PICK i \in 1 .. N("optional") : params["optional"][i] = p
      BY DEF Members
    <2>2. /\ N("prefix") \in Nat /\ N("optional") \in Nat /\ N("suffix") \in Nat /\ argc \in Nat
          /\ MinArgc = N("prefix") + N("suffix")
      BY Fits
    <2>3. argc >= MinArgc + i
      <3>1. CASE q \in Members("optional")
        <4>1. PICK j \in 1 .. N("optional") : params["optional"][j] = q
          BY <3>1 DEF Members
        <4>2. Share("optional", j) # {}
          BY <1>6, <4>1, Shares DEF PositionalLists
        <4>3. argc >= MinArgc + j
          BY <4>2 DEF Share
        <4>4. i < j
          <5>1. p \in Int /\ q \in Int
            BY <2>1, <4>1, Types DEF IInv, Lists
          <5>2. ~(j < i) /\ i # j
            BY <1>6, <2>1, <4>1, <5>1 DEF IInv, ListsFollowTheText, Lists
          <5>. QED BY <2>2, <5>2
        <4>. QED BY <2>2, <4>3, <4>4
      <3>2. CASE q \in Members("variadic")
        <4>1. PICK j \in 1 .. N("variadic") : params["variadic"][j] = q
          BY <3>2 DEF Members
        <4>2. Share("variadic", j) # {}
          BY <1>6, <4>1, Shares DEF PositionalLists
        <4>3. N("prefix") + N("optional") + 1 <= argc - N("suffix")
          BY <2>2, <4>2 DEF Share
        <4>. QED BY <2>2, <4>3
      <3>. QED BY <3>1, <3>2
    <2>4. Share("optional", i) # {}
      BY <2>3 DEF Share
    <2>. QED BY <2>1, <2>4, Shares DEF PositionalLists
  <1>. QED BY <1>2, <1>3, <1>4, <1>5, <1>6 DEF EveryArgumentOnce, FilledFromTheLeft

\* A direct method has as many parameters as it has required ones.
LEMMA Accepted == ASSUME IInv PROVE MethodIsAccepted
PROOF
  <1>1. GetArgc # -1 => ~DefineThrows
    <2>1. N("prefix") \in Nat /\ MaxDirectArgsLen \in Nat
      BY Types DEF IInv, Lists, MaxDirectArgsLen
    <2>. QED BY <2>1, Direct DEF DefineThrows, Lists
  <1>2. GetArgc = -1 => ~DefineThrows
    BY DEF DefineThrows, MaxDirectArgsLen
  <1>3. ASSUME GetArgc # -1
        PROVE  Positional = Members("prefix") /\ GetArgc = Cardinality(Positional)
    <2>1. Positional = Members("prefix") /\ GetArgc = N("prefix") /\ N("prefix") \in Nat
      BY <1>3, Direct, Types DEF IInv, Positional, Lists
    <2>. DEFINE f == [i \in 1 .. N("prefix") |-> params["prefix"][i]]
    <2>2. f \in Bijection(1 .. N("prefix"), Members("prefix"))
      <3>1. \A i, j \in 1 .. N("prefix") : f[i] = f[j] => i = j
        BY Disjoint DEF IInv, Lists
      <3>2. /\ f \in [1 .. N("prefix") -> Members("prefix")]
            /\ \A p \in Members("prefix") : \E i \in 1 .. N("prefix") : f[i] = p
        BY DEF Members
      <3>. QED BY <3>1, <3>2 DEF Bijection, Injection, Surjection, IsInjective
    <2>3. IsFiniteSet(1 .. N("prefix")) /\ Cardinality(1 .. N("prefix")) = N("prefix")
      BY <2>1, FS_Interval
    <2>4. Cardinality(Members("prefix")) = N("prefix")
      BY <2>2, <2>3, FS_Bijection DEF ExistsBijection
    <2>. QED BY <2>1, <2>4
  <1>. QED BY <1>1, <1>2, <1>3 DEF MethodIsAccepted

-----------------------------------------------------------------------------
(* The theorems.                                                           *)

\* Whatever the text and the calls, the lists, the progress of the preamble and what it
\* has bound fit together.
THEOREM Invariance == Spec => []IInv
PROOF
  <1>1. IInv /\ [Next]_vars => IInv'
    <2>. SUFFICES ASSUME IInv, [Next]_vars PROVE IInv'
      OBVIOUS
    <2>1. CASE Plain \/ Default \/ Star \/ Amp \/ Named \/ Broken \/ EndOfList
      BY <2>1, PlainStep, DefaultStep, StarStep, AmpStep, NamedStep, BrokenStep, EndOfListStep
    <2>2. CASE \E n \in 0 .. MaxArgs, given \in SUBSET NamedParams : Call(n, given)
      BY <2>2, CallStep
    <2>3. CASE Enter \/ OptionalArg \/ VariadicArg \/ NamedArg \/ Body \/ Raise \/ Return
      BY <2>3, EnterStep, OptionalArgStep, VariadicArgStep, NamedArgStep, BodyStep, RaiseStep, ReturnStep
    <2>4. CASE UNCHANGED vars
      BY <2>4, StutterStep
    <2>. QED BY <2>1, <2>2, <2>3, <2>4 DEF Next
  <1>. QED BY InitInv, <1>1, PTL DEF Spec

\* The parser and the preamble stay within the text, the lists and argv.
THEOREM TypeCorrect == Spec => []TypeOK
  BY Invariance, PTL DEF IInv

\* Each parameter is in one list and the lists follow the source, for any mixture of kinds.
THEOREM ListsFollow == Spec => []ListsFollowTheText
  BY Invariance, PTL DEF IInv

\* The preamble gives up only on calls that nothing could bind.
THEOREM GivesUpLate == Spec => []GivesUpOnlyWhenUnbindable
  BY Invariance, PTL DEF IInv

\* A method compiled for direct calls has nothing but required parameters, no more of them
\* than a direct call can pass, so that the definition is accepted.
THEOREM AlwaysAccepted == Spec => []MethodIsAccepted
PROOF
  <1>1. IInv => MethodIsAccepted
    BY Accepted
  <1>. QED BY Invariance, <1>1, PTL

\* Every argument of every call goes to one parameter, in the order of the source.
THEOREM EachArgumentOnce == Spec => []EveryArgumentOnce
PROOF
  <1>1. IInv => EveryArgumentOnce
    BY BodyBinding DEF EveryArgumentOnce
  <1>. QED BY Invariance, <1>1, PTL

\* Required parameters always have an argument, optional ones have theirs from the left.
THEOREM FilledInOrder == Spec => []FilledFromTheLeft
PROOF
  <1>1. IInv => FilledFromTheLeft
    BY BodyBinding DEF FilledFromTheLeft
  <1>. QED BY Invariance, <1>1, PTL
==============================================================================
