------------------------- MODULE CodegenValueProofs -------------------------
(***************************************************************************)
(* Proofs about the values that Codegen generates: where they are used,    *)
(* they are defined.                                                       *)
(***************************************************************************)
EXTENDS CodegenEdgeProofs

-----------------------------------------------------------------------------
(* The values that a block can use.                                        *)

\* The value v is defined in block d: at j, or on the way into it at 0.
Site(g, v, d, j) ==
  /\ d \in 1 .. Size(g)
  /\ \/ j = 0 /\ \E p \in g.blocks[d].phi : p.id = v
     \/ j \in DOMAIN g.blocks[d].code /\ g.blocks[d].code[j].id = v /\ g.blocks[d].code[j].op # "invoke"
     \/ j = 0 /\ \E b \in 1 .. Size(g) : \E i \in DOMAIN g.blocks[b].code :
          LET e == g.blocks[b].code[i] IN e.op = "invoke" /\ e.id = v /\ e.targets[1] = d
Available(g, v, X) == \E d \in X : \E j : Site(g, v, d, j)
Ok(g, v, X)        == Const(v) \/ Available(g, v, X)

\* The value v may be used for statement `by` in block b before instruction i: N are the
\* variables and the statements that are not in their scope.
Exempt(v, by, N) == Const(v) \/ v[2] \in {"entry", "token"} \/ (v[2] = "slot" /\ <<v[1], by>> \in N)
Usable(g, A, N, v, by, b, i) ==
  Exempt(v, by, N) \/ \E d \in A[b] : \E j : Site(g, v, d, j) /\ (d = b => j < i)

\* Some of the blocks that dominate block b are A[b]; none are known of one that nothing goes to.
Sound(g, A, N) ==
  /\ Shaped(g) /\ A \in [Nat -> SUBSET Nat] /\ A[1] = {1}
  /\ \A b \in Nat : A[b] # {} => b \in A[b] /\ b \in 1 .. Size(g)
  /\ \A a, b : Enters(g, a, b) => b \in Nat /\ b \in A[b] /\ A[b] \subseteq A[a] \cup {b}
  /\ \A b \in 1 .. Size(g) :
       /\ \A i \in DOMAIN g.blocks[b].code : LET e == g.blocks[b].code[i] IN
            \A v \in Members(e.args) : Usable(g, A, N, v, e.id[1], b, i)
       /\ \A p \in g.blocks[b].phi :
            p.from \in 1 .. Size(g) /\ Usable(g, A, N, p.value, p.id[1], p.from, Len(g.blocks[p.from].code) + 1)

-----------------------------------------------------------------------------
(* The statements that have a variable, and their scopes.                  *)

Slot(a)  == <<a, "slot">>
Lines(P) == LET within[n \in 0 .. Len(P)] == IF n = 0 THEN {} ELSE {n} \cup within[P[n].in] IN within
Sure(P, a, p) == p \in Lines(P)[a] /\ \A n \in Lines(P)[a] \ Lines(P)[p] : P[n].part \in AlwaysDone
Scope(P, a, s) ==
  \/ a \in Lines(P)[s]
  \/ \E p \in Lines(P)[a], q \in Lines(P)[s] :
       P[p].in = P[q].in /\ p < q /\ <<P[p].part, P[q].part>> \in Then /\ Sure(P, a, p)
Allocates(P, a) ==
  \/ P[a].kind = "block"
  \/ /\ P[a].kind = "assign" /\ P[a].name \notin Parameters
     /\ \A m \in 1 .. a - 1 : P[m].kind = "assign" => P[m].name # P[a].name
Excused(P) == {e \in (1 .. Len(P)) \X (1 .. Len(P)) : Allocates(P, e[1]) /\ ~Scope(P, e[1], e[2])}

\* The statements are in one another as the functions run, and K have variables.
Lineage(P, s) ==
  /\ P # <<>> /\ P[1].in = 0 /\ \A n \in 2 .. Len(P) : P[n].in \in 1 .. n - 1
  /\ s # <<>> => s[1].stmt = 1
  /\ \A i \in 1 .. Len(s) - 1 : P[s[i + 1].stmt].in = s[i].stmt /\ P[s[i + 1].stmt].part = s[i].part
Slots(P, K, names, m) ==
  /\ \A a \in K : (a \in DOMAIN P /\ Allocates(P, a)) \/ (m = "body" /\ a = Len(P) + 1)
  /\ \A x \in Names : Const(names[x]) \/ \E a \in K : names[x] = Slot(a)
  /\ \A n \in DOMAIN P : P[n].kind = "assign" => names[P[n].name] # Null
  /\ \A x \in Parameters : names[x] # Null

-----------------------------------------------------------------------------
(* What a generating function counts on, of what dominates what.           *)

\* The blocks of X dominate whatever is generated in this part of f, those of Y in that of the
\* function around it.
Kept(f) ==
  (IF f.op \in {"call", "return", "index"} THEN Members(f.args) ELSE {})
  \cup (IF f.op = "index" /\ f.part = "right" THEN {<<f.stmt, "before">>} ELSE {})
  \cup (IF f.op = "while" /\ f.part = "condition" THEN {<<f.stmt, "value">>} ELSE {})
  \cup (IF f.op = "begin" /\ f.part = "ensure" THEN {<<f.stmt, "value">>, <<f.stmt, "flag">>} ELSE {})
  \cup (IF Rescuing(f) /\ f.rescues # <<>> THEN {f.args[1]} ELSE {})
Waiting(f) ==
  (IF f.op = "if" /\ f.part = "false" THEN {f.args[1]} ELSE {})
  \cup (IF Rescuing(f) THEN {<<f.stmt, "value">>} ELSE {})
Joined(f) ==
  CASE f.op = "if"    -> {f.base + j : j \in IF f.part = "true" THEN {1, 3} ELSE IF f.part = "false" THEN {1} ELSE {}}
    [] f.op = "while" -> {f.base + j : j \in IF f.part = "body" THEN {1, 2} ELSE {1}}
    [] f.op = "begin" -> {f.base + j : j \in IF f.part = "main" THEN {1, 2, 3} ELSE IF f.part = "ensure" THEN {1, 3} ELSE {2}}
    [] OTHER -> {}
Resumed(f) ==
  CASE f.op = "if"    -> Joined(f)
    [] f.op = "while" -> IF f.part = "body" THEN {f.base + 2} ELSE {}
    [] f.op = "begin" -> IF f.part = "main" THEN Joined(f) ELSE IF f.part = "clause" /\ ~f.optional THEN {f.handler} ELSE {}
    [] OTHER -> {}
Stable(g, A, K, f, X, Y) ==
  /\ Y \subseteq X
  /\ f.stmt \in K => f.op \in {"assign", "block"} /\ Available(g, Slot(f.stmt), X)
  /\ \A v \in Kept(f)    : Ok(g, v, X)
  /\ \A v \in Waiting(f) : Ok(g, v, A[f.from])
  /\ \A b \in Joined(f)  : b \in A[b] /\ A[b] \subseteq X \cup {b}
  /\ \A b \in Resumed(f) : b \in A[b] /\ X \subseteq A[b]
  /\ f.op = "assign" => \E v : f.args = <<v>> /\ (Const(v) \/ \E a \in K : v = Slot(a))
  /\ f.op = "while"  => A[f.base + 3] = {}
  /\ f.op = "begin" /\ f.part = "ensure" =>
       Y \subseteq A[Pad(f)] /\ \A b \in {Ensure(f), Rethrow(f)} : b \in A[b] /\ A[b] \subseteq A[Pad(f)] \cup {b}
  /\ Rescuing(f) =>
       A[Ensure(f)] \subseteq A[f.handler] \cup {Ensure(f)} /\ \A b \in {f.from, f.handler} : b \in A[b] /\ Y \subseteq A[b]

\* The parts that f has not come to; where the variables are that a part of it has for sure
\* allocated, all of its statements but x being done, and those of the last part being in Z.
NotYet(f) ==
  CASE f.part = "operand" -> {"right"}
    [] f.part = "body"    -> {"condition"}
    [] f.part = "main"    -> {"ensure", "class"}
    [] f.part = "ensure"  -> {"class"}
    [] OTHER -> {}
Claimed(f) == AlwaysDone \cup (IF Rescuing(f) /\ f.rescues = <<>> THEN {} ELSE {"class"})
Place(A, f, part, X, Z) == IF part = "ensure" /\ Rescuing(f) THEN A[f.from] ELSE IF part = f.part THEN Z ELSE X
Claims(g, P, K, p, X)   == \A a \in K \cap DOMAIN P : Sure(P, a, p) => Available(g, Slot(a), X)
Known(g, A, P, K, f, X, Z, x) ==
  \A p \in DOMAIN P : P[p].in = f.stmt =>
    /\ P[p].part \in PartsOf(f.op) \ NotYet(f)
    /\ p # x /\ P[p].part \in Claimed(f) => Claims(g, P, K, p, Place(A, f, P[p].part, X, Z))

Carried(g, P, s, m, v, A, F, K) ==
  /\ g.cur \in A[g.cur] /\ F[0] = {} /\ F[Len(s)] \subseteq A[g.cur]
  /\ \A i \in DOMAIN s :
       /\ Stable(g, A, K, s[i], F[i], F[i - 1])
       /\ IF i < Len(s) THEN Known(g, A, P, K, s[i], F[i], F[i], s[i + 1].stmt)
          ELSE Known(g, A, P, K, s[i], F[i], IF m = "value" THEN A[g.cur] ELSE F[i], 0)
  /\ m = "value" => Ok(g, v, A[g.cur])
  /\ m = "body" /\ Len(P) + 1 \in K => Available(g, Slot(Len(P) + 1), A[g.cur])

-----------------------------------------------------------------------------
(* The IRBuilder's operations.                                             *)

\* The graph h has k blocks and its insertion point at c; it has grown from g, and B from A.
Follows(g, A, h, B, N, k, c) ==
  /\ Sound(h, B, N) /\ Size(h) = k /\ h.cur = c /\ k \in Nat /\ Size(g) \in Nat /\ Size(g) <= k
  /\ \A b \in 1 .. Size(g) : B[b] = A[b]
  /\ \A v, d, j : Site(g, v, d, j) => Site(h, v, d, j)

LEMMA FollowsNothing ==
  ASSUME NEW g, NEW A, NEW N, Sound(g, A, N)
  PROVE  Follows(g, A, g, A, N, Size(g), g.cur)
BY ShapedParts DEF Follows, Sound

LEMMA SiteWhere ==
  ASSUME NEW g, Shaped(g), NEW v, NEW d, NEW j, Site(g, v, d, j)
  PROVE  d \in 1 .. Size(g) /\ j \in Nat /\ j <= Len(g.blocks[d].code)
  <1>1. d \in 1 .. Size(g)
    BY DEF Site
  <1>2. g.blocks[d].code \in Seq(Members(g.blocks[d].code))
    BY <1>1, ShapedParts
  <1>. QED BY <1>1, <1>2 DEF Site

\* What is usable in a graph is in one that has grown from it.
LEMMA UsableLater ==
  ASSUME NEW g, NEW A, NEW N, NEW v, NEW by, NEW b, NEW i \in Nat, Usable(g, A, N, v, by, b, i), Shaped(g),
         NEW h, NEW B, NEW M, NEW k \in Nat, i <= k, N \subseteq M, A[b] \subseteq B[b],
         \A d, j : Site(g, v, d, j) => Site(h, v, d, j)
  PROVE  Usable(h, B, M, v, by, b, k)
  <1>1. CASE Exempt(v, by, N)
    BY <1>1 DEF Exempt, Usable
  <1>2. ASSUME NEW d \in A[b], NEW j, Site(g, v, d, j), d = b => j < i
        PROVE  Usable(h, B, M, v, by, b, k)
    <2>1. j \in Nat
      BY <1>2, SiteWhere
    <2>2. Site(h, v, d, j) /\ d \in B[b] /\ (d = b => j < k)
      BY <1>2, <2>1
    <2>. QED BY <2>2 DEF Usable
  <1>. QED BY <1>1, <1>2 DEF Usable

\* What is available is usable at the end of the block.
LEMMA AvailableUsable ==
  ASSUME NEW g, Shaped(g), NEW A, NEW N, NEW v, NEW by, NEW b \in 1 .. Size(g), Exempt(v, by, N) \/ Available(g, v, A[b])
  PROVE  Usable(g, A, N, v, by, b, Len(g.blocks[b].code) + 1)
  <1>1. CASE Exempt(v, by, N)
    BY <1>1 DEF Usable
  <1>2. ASSUME NEW d \in A[b], NEW j, Site(g, v, d, j)
        PROVE  Usable(g, A, N, v, by, b, Len(g.blocks[b].code) + 1)
    <2>1. j \in Nat /\ (d = b => j <= Len(g.blocks[b].code))
      BY <1>2, SiteWhere
    <2>2. Len(g.blocks[b].code) \in Nat
      <3>1. g.blocks[b].code \in Seq(Members(g.blocks[b].code))
        BY ShapedParts
      <3>. QED BY <3>1
    <2>3. d = b => j < Len(g.blocks[b].code) + 1
      BY <2>1, <2>2
    <2>. QED BY <1>2, <2>3 DEF Usable
  <1>. QED BY <1>1, <1>2 DEF Available

\* An instruction that goes where it may, of values that it may use.
Fine(instr, g, A, N, b) ==
  /\ \A v \in Members(instr.args) : Exempt(v, instr.id[1], N) \/ Available(g, v, A[b])
  /\ \A x : GoesTo(instr, x) => x \in Nat /\ x \in A[x] /\ A[x] \subseteq A[b] \cup {x}

LEMMA SoundEmitAt ==
  ASSUME NEW g, NEW A, NEW N, Sound(g, A, N), NEW b \in 1 .. Size(g), NEW instr, Fine(instr, g, A, N, b)
  PROVE  /\ Sound(EmitAt(g, b, instr), A, N)
         /\ Size(EmitAt(g, b, instr)) = Size(g) /\ EmitAt(g, b, instr).cur = g.cur
         /\ \A v, d, j : Site(g, v, d, j) => Site(EmitAt(g, b, instr), v, d, j)
         /\ instr.op # "invoke" => \E j : Site(EmitAt(g, b, instr), instr.id, b, j)
         /\ instr.op = "invoke" /\ instr.targets[1] \in 1 .. Size(g) => \E j : Site(EmitAt(g, b, instr), instr.id, instr.targets[1], j)
  <1> DEFINE h == EmitAt(g, b, instr)
             l == Len(g.blocks[b].code)
  <1>0. Shaped(g)
    BY DEF Sound
  <1>1. /\ Alike(g, h) /\ \A x \in 1 .. Size(g) : h.blocks[x].phi = g.blocks[x].phi
        /\ h.blocks[b].code = Append(g.blocks[b].code, instr)
        /\ \A x \in 1 .. Size(g) : x # b => h.blocks[x].code = g.blocks[x].code
    BY <1>0, EmitAtShaped
  <1>2. \A x : Into(h, x) = Into(g, x) \cup (IF GoesTo(instr, x) THEN {b} ELSE {})
    BY <1>0, EmitAtJoint
  <1> HIDE DEF h
  <1>3. Shaped(h) /\ Size(h) = Size(g) /\ h.cur = g.cur
    BY <1>1 DEF Alike
  <1>4. /\ l \in Nat /\ DOMAIN h.blocks[b].code = 1 .. l + 1 /\ DOMAIN g.blocks[b].code = 1 .. l
        /\ h.blocks[b].code[l + 1] = instr /\ Len(h.blocks[b].code) = l + 1
        /\ \A i \in 1 .. l : h.blocks[b].code[i] = g.blocks[b].code[i] /\ i \in 1 .. l + 1
    <2>1. g.blocks[b].code \in Seq(Members(g.blocks[b].code))
      BY <1>0, ShapedParts
    <2>. QED BY <1>1, <2>1
  <1> HIDE DEF l
  <1>5. \A x \in 1 .. Size(g) : \A i \in DOMAIN g.blocks[x].code :
           i \in DOMAIN h.blocks[x].code /\ h.blocks[x].code[i] = g.blocks[x].code[i]
    BY <1>1, <1>4
  <1>6. ASSUME NEW v, NEW d, NEW j, Site(g, v, d, j) PROVE Site(h, v, d, j)
    BY <1>1, <1>3, <1>5, <1>6 DEF Site
  <1>7. l + 1 \in DOMAIN h.blocks[b].code
    BY <1>4
  <1>8. instr.op # "invoke" => \E j : Site(h, instr.id, b, j)
    BY <1>3, <1>4, <1>7 DEF Site
  <1>9. instr.op = "invoke" /\ instr.targets[1] \in 1 .. Size(g) => Site(h, instr.id, instr.targets[1], 0)
    BY <1>3, <1>4, <1>7 DEF Site
  <1>10. Sound(h, A, N)
    <2>1. /\ A \in [Nat -> SUBSET Nat] /\ A[1] = {1}
          /\ \A x \in Nat : A[x] # {} => x \in A[x] /\ x \in 1 .. Size(g)
          /\ \A a, x : Enters(g, a, x) => x \in Nat /\ x \in A[x] /\ A[x] \subseteq A[a] \cup {x}
      BY DEF Sound
    <2>2. ASSUME NEW a, NEW x, Enters(h, a, x) PROVE x \in Nat /\ x \in A[x] /\ A[x] \subseteq A[a] \cup {x}
      <3>1. a \in Into(h, x)
        BY <2>2 DEF Into, Enters, Jumps, Throws
      <3>2. CASE a \in Into(g, x)
        BY <2>1, <3>2 DEF Into
      <3>3. CASE a = b /\ GoesTo(instr, x)
        BY <3>3 DEF Fine
      <3>. QED BY <1>2, <3>1, <3>2, <3>3
    <2>3. ASSUME NEW x \in 1 .. Size(g), NEW i \in DOMAIN h.blocks[x].code, NEW v \in Members(h.blocks[x].code[i].args)
          PROVE  Usable(h, A, N, v, h.blocks[x].code[i].id[1], x, i)
      <3>1. CASE x = b /\ i = l + 1
        <4>1. Usable(g, A, N, v, instr.id[1], b, l + 1)
          BY <1>0, <1>4, <2>3, <3>1, AvailableUsable DEF Fine, l
        <4>2. l + 1 \in Nat /\ l + 1 <= l + 1
          BY <1>4
        <4>3. Usable(h, A, N, v, instr.id[1], b, l + 1)
          BY <1>0, <1>6, <4>1, <4>2, UsableLater
        <4>. QED BY <1>4, <3>1, <4>3
      <3>2. CASE ~(x = b /\ i = l + 1)
        <4>1. i \in DOMAIN g.blocks[x].code /\ h.blocks[x].code[i] = g.blocks[x].code[i] /\ i \in Nat /\ i <= i
          <5>1. x # b => DOMAIN g.blocks[x].code \subseteq Nat
            <6>1. g.blocks[x].code \in Seq(Members(g.blocks[x].code))
              BY <1>0, ShapedParts
            <6>. QED BY <6>1
          <5>. QED BY <1>1, <1>4, <3>2, <5>1
        <4>2. Usable(g, A, N, v, g.blocks[x].code[i].id[1], x, i)
          BY <2>3, <4>1 DEF Sound
        <4>3. Usable(h, A, N, v, g.blocks[x].code[i].id[1], x, i)
          BY <1>0, <1>6, <4>1, <4>2, UsableLater
        <4>. QED BY <4>1, <4>3
      <3>. QED BY <3>1, <3>2
    <2>4. ASSUME NEW x \in 1 .. Size(g), NEW p \in h.blocks[x].phi
          PROVE  p.from \in 1 .. Size(g) /\ Usable(h, A, N, p.value, p.id[1], p.from, Len(h.blocks[p.from].code) + 1)
      <3>1. p.from \in 1 .. Size(g) /\ Usable(g, A, N, p.value, p.id[1], p.from, Len(g.blocks[p.from].code) + 1)
        BY <1>1, <2>4 DEF Sound
      <3>2. Len(g.blocks[p.from].code) \in Nat
        <4>1. g.blocks[p.from].code \in Seq(Members(g.blocks[p.from].code))
          BY <1>0, <3>1, ShapedParts
        <4>. QED BY <4>1
      <3>3. \/ h.blocks[p.from].code = g.blocks[p.from].code
            \/ Len(g.blocks[p.from].code) = l /\ Len(h.blocks[p.from].code) = l + 1
        BY <1>1, <1>4, <3>1 DEF l
      <3>4. \A m, n : m \in Nat /\ (n = m \/ n = m + 1) => m + 1 \in Nat /\ n + 1 \in Nat /\ m + 1 <= n + 1
        OBVIOUS
      <3>6. Len(g.blocks[p.from].code) + 1 \in Nat /\ Len(h.blocks[p.from].code) + 1 \in Nat
            /\ Len(g.blocks[p.from].code) + 1 <= Len(h.blocks[p.from].code) + 1
        BY <3>2, <3>3, <3>4
      <3>5. Usable(h, A, N, p.value, p.id[1], p.from, Len(h.blocks[p.from].code) + 1)
        BY <1>0, <1>6, <3>1, <3>6, UsableLater
      <3>. QED BY <3>1, <3>5
    <2>. QED BY <1>3, <2>1, <2>2, <2>3, <2>4 DEF Sound
  <1>. QED BY <1>3, <1>6, <1>8, <1>9, <1>10 DEF h

\* The code stays as it is; blocks and values of phis are added.
Same(g, A, N, h) ==
  /\ Shaped(h) /\ Size(g) <= Size(h)
  /\ \A b \in 1 .. Size(g) : h.blocks[b].code = g.blocks[b].code /\ g.blocks[b].phi \subseteq h.blocks[b].phi
  /\ \A b \in 1 .. Size(h) : b \in 1 .. Size(g) \/ h.blocks[b].code = <<>>
  /\ \A b \in 1 .. Size(h) : \A p \in h.blocks[b].phi :
       \/ b \in 1 .. Size(g) /\ p \in g.blocks[b].phi
       \/ p.from \in 1 .. Size(g) /\ (Exempt(p.value, p.id[1], N) \/ Available(g, p.value, A[p.from]))
  /\ \A x : Into(h, x) = Into(g, x)

LEMMA SoundSame ==
  ASSUME NEW g, NEW A, NEW N, Sound(g, A, N), NEW h, Same(g, A, N, h)
  PROVE  /\ Sound(h, A, N)
         /\ \A v, d, j : Site(g, v, d, j) => Site(h, v, d, j)
  <1>0. Shaped(g) /\ Size(g) \in Nat /\ Size(h) \in Nat /\ Size(g) <= Size(h) /\ Shaped(h)
    BY ShapedParts DEF Sound, Same
  <1>1. \A b \in 1 .. Size(g) : b \in 1 .. Size(h)
    BY <1>0
  <1>2. ASSUME NEW v, NEW d, NEW j, Site(g, v, d, j) PROVE Site(h, v, d, j)
    BY <1>1, <1>2 DEF Site, Same
  <1>3. /\ A \in [Nat -> SUBSET Nat] /\ A[1] = {1}
        /\ \A x \in Nat : A[x] # {} => x \in A[x] /\ x \in 1 .. Size(h)
    BY <1>1 DEF Sound
  <1>4. ASSUME NEW a, NEW x, Enters(h, a, x) PROVE x \in Nat /\ x \in A[x] /\ A[x] \subseteq A[a] \cup {x}
    <2>1. a \in Into(h, x)
      BY <1>4 DEF Into, Enters, Jumps, Throws
    <2>2. Enters(g, a, x)
      BY <2>1 DEF Same, Into
    <2>. QED BY <2>2 DEF Sound
  <1>5. ASSUME NEW x \in 1 .. Size(h), NEW i \in DOMAIN h.blocks[x].code, NEW v \in Members(h.blocks[x].code[i].args)
        PROVE  Usable(h, A, N, v, h.blocks[x].code[i].id[1], x, i)
    <2>1. x \in 1 .. Size(g) /\ h.blocks[x].code = g.blocks[x].code
      BY <1>5 DEF Same
    <2>2. i \in Nat /\ i <= i
      <3>1. g.blocks[x].code \in Seq(Members(g.blocks[x].code))
        BY <1>0, <2>1, ShapedParts
      <3>. QED BY <2>1, <3>1
    <2>3. Usable(g, A, N, v, h.blocks[x].code[i].id[1], x, i)
      BY <1>5, <2>1 DEF Sound
    <2>. QED BY <1>0, <1>2, <2>2, <2>3, UsableLater
  <1>6. ASSUME NEW x \in 1 .. Size(h), NEW p \in h.blocks[x].phi
        PROVE  p.from \in 1 .. Size(h) /\ Usable(h, A, N, p.value, p.id[1], p.from, Len(h.blocks[p.from].code) + 1)
    <2>1. p.from \in 1 .. Size(g) /\ Usable(g, A, N, p.value, p.id[1], p.from, Len(g.blocks[p.from].code) + 1)
      <3>1. CASE x \in 1 .. Size(g) /\ p \in g.blocks[x].phi
        BY <3>1 DEF Sound
      <3>2. CASE p.from \in 1 .. Size(g) /\ (Exempt(p.value, p.id[1], N) \/ Available(g, p.value, A[p.from]))
        BY <1>0, <3>2, AvailableUsable
      <3>. QED BY <3>1, <3>2 DEF Same
    <2>2. h.blocks[p.from].code = g.blocks[p.from].code
      BY <2>1 DEF Same
    <2> DEFINE l == Len(g.blocks[p.from].code)
    <2>3. l \in Nat
      <3>1. g.blocks[p.from].code \in Seq(Members(g.blocks[p.from].code))
        BY <1>0, <2>1, ShapedParts
      <3>. QED BY <3>1
    <2>4. Usable(g, A, N, p.value, p.id[1], p.from, l + 1)
      BY <2>1
    <2> HIDE DEF l
    <2>5. l + 1 \in Nat /\ l + 1 <= l + 1
      BY <2>3
    <2>6. Usable(h, A, N, p.value, p.id[1], p.from, l + 1)
      BY <1>0, <1>2, <2>4, <2>5, UsableLater
    <2>. QED BY <1>1, <2>1, <2>2, <2>6 DEF l
  <1>. QED BY <1>0, <1>2, <1>3, <1>4, <1>5, <1>6 DEF Sound

LEMMA FollowsSame ==
  ASSUME NEW g, NEW A, NEW h, NEW B, NEW N, NEW k, NEW c, Follows(g, A, h, B, N, k, c), NEW new, Same(h, B, N, new)
  PROVE  Follows(g, A, new, B, N, Size(new), new.cur)
  <1>1. Sound(new, B, N) /\ \A v, d, j : Site(h, v, d, j) => Site(new, v, d, j)
    BY SoundSame DEF Follows
  <1>2. Size(new) \in Nat /\ Size(h) <= Size(new)
    BY ShapedParts DEF Same
  <1>. QED BY <1>1, <1>2 DEF Follows

LEMMA FollowsEmitAt ==
  ASSUME NEW g, NEW A, NEW h, NEW B, NEW N, NEW k, NEW c, Follows(g, A, h, B, N, k, c),
         NEW b \in 1 .. k, NEW instr, Fine(instr, h, B, N, b)
  PROVE  /\ Follows(g, A, EmitAt(h, b, instr), B, N, k, c)
         /\ \A v, d, j : Site(h, v, d, j) => Site(EmitAt(h, b, instr), v, d, j)
         /\ instr.op # "invoke" => \E j : Site(EmitAt(h, b, instr), instr.id, b, j)
         /\ instr.op = "invoke" /\ instr.targets[1] \in 1 .. k => \E j : Site(EmitAt(h, b, instr), instr.id, instr.targets[1], j)
  <1>1. Sound(h, B, N) /\ Size(h) = k /\ h.cur = c
    BY DEF Follows
  <1>2. /\ Sound(EmitAt(h, b, instr), B, N)
        /\ Size(EmitAt(h, b, instr)) = k /\ EmitAt(h, b, instr).cur = c
        /\ \A v, d, j : Site(h, v, d, j) => Site(EmitAt(h, b, instr), v, d, j)
        /\ instr.op # "invoke" => \E j : Site(EmitAt(h, b, instr), instr.id, b, j)
        /\ instr.op = "invoke" /\ instr.targets[1] \in 1 .. k => \E j : Site(EmitAt(h, b, instr), instr.id, instr.targets[1], j)
    BY <1>1, SoundEmitAt
  <1>. QED BY <1>2 DEF Follows

LEMMA FollowsCreate ==
  ASSUME NEW g, NEW A, NEW h, NEW B, NEW N, NEW k, NEW c, Follows(g, A, h, B, N, k, c), NEW m \in Nat
  PROVE  /\ Follows(g, A, Create(h, m), B, N, k + m, c)
         /\ \A b \in k + 1 .. k + m : B[b] = {}
         /\ \A v, d, j : Site(h, v, d, j) => Site(Create(h, m), v, d, j)
  <1> DEFINE new == Create(h, m)
  <1>1. Sound(h, B, N) /\ Size(h) = k /\ h.cur = c /\ Shaped(h) /\ k \in Nat
    BY DEF Follows, Sound
  <1>2. /\ Shaped(new) /\ Size(new) = k + m /\ new.cur = c
        /\ \A b \in 1 .. k : new.blocks[b] = h.blocks[b]
        /\ \A b \in k + 1 .. k + m : new.blocks[b].code = <<>> /\ new.blocks[b].phi = {}
    <2>1. Created(h, m, new)
      BY <1>1, CreateIs
    <2>. QED BY <1>1, <2>1 DEF Created
  <1>3. \A x : Into(new, x) = Into(h, x)
    BY <1>1, CreateJoint
  <1> HIDE DEF new
  <1>4. \A b \in 1 .. k + m : b \in 1 .. k \/ b \in k + 1 .. k + m
    BY <1>1
  <1>5. k <= k + m
    BY <1>1
  <1>6. Same(h, B, N, new)
    BY <1>1, <1>2, <1>3, <1>4, <1>5 DEF Same
  <1>7. Follows(g, A, new, B, N, k + m, c)
    BY <1>2, <1>6, FollowsSame
  <1>8. ASSUME NEW b \in k + 1 .. k + m PROVE B[b] = {}
    <2>1. b \in Nat /\ b \notin 1 .. k
      BY <1>1
    <2>. QED BY <1>1, <2>1 DEF Sound
  <1>9. \A v, d, j : Site(h, v, d, j) => Site(new, v, d, j)
    BY <1>1, <1>6, SoundSame
  <1>. QED BY <1>7, <1>8, <1>9 DEF new

LEMMA FollowsMoveTo ==
  ASSUME NEW g, NEW A, NEW h, NEW B, NEW N, NEW k, NEW c, Follows(g, A, h, B, N, k, c), NEW b \in Int
  PROVE  /\ Follows(g, A, MoveTo(h, b), B, N, k, b)
         /\ \A v, d, j : Site(MoveTo(h, b), v, d, j) <=> Site(h, v, d, j)
  <1> DEFINE new == MoveTo(h, b)
  <1>1. Sound(h, B, N) /\ Size(h) = k /\ h.cur = c /\ Shaped(h) /\ k \in Nat
    BY DEF Follows, Sound
  <1>2. Shaped(new) /\ new.blocks = h.blocks /\ new.cur = b /\ \A x : Into(new, x) = Into(h, x)
    BY <1>1, MoveToShaped, MoveToJoint
  <1> HIDE DEF new
  <1>3. Size(new) = k
    BY <1>1, <1>2 DEF Size
  <1>4. Same(h, B, N, new)
    BY <1>1, <1>2, <1>3 DEF Same
  <1>5. \A v, d, j : Site(new, v, d, j) <=> Site(h, v, d, j)
    BY <1>1, <1>2, <1>3 DEF Site
  <1>. QED BY <1>2, <1>3, <1>4, <1>5, FollowsSame DEF new

LEMMA FollowsAddIncoming ==
  ASSUME NEW g, NEW A, NEW h, NEW B, NEW N, NEW k, NEW c, Follows(g, A, h, B, N, k, c),
         NEW b \in 1 .. k, NEW id, NEW v, NEW from \in 1 .. k, Exempt(v, id[1], N) \/ Available(h, v, B[from])
  PROVE  /\ Follows(g, A, AddIncoming(h, b, id, v, from), B, N, k, c)
         /\ \A w, d, j : Site(h, w, d, j) => Site(AddIncoming(h, b, id, v, from), w, d, j)
         /\ Site(AddIncoming(h, b, id, v, from), id, b, 0)
  <1> DEFINE new == AddIncoming(h, b, id, v, from)
             p   == Incoming(id, v, from)
  <1>1. Sound(h, B, N) /\ Size(h) = k /\ h.cur = c /\ Shaped(h) /\ k \in Nat
    BY DEF Follows, Sound
  <1>2. /\ Alike(h, new)
        /\ \A x \in 1 .. Size(h) : new.blocks[x].code = h.blocks[x].code
        /\ new.blocks[b].phi = h.blocks[b].phi \cup {p}
        /\ \A x \in 1 .. Size(h) : x # b => new.blocks[x].phi = h.blocks[x].phi
    BY <1>1, AddIncomingShaped
  <1>3. \A x : Into(new, x) = Into(h, x)
    BY <1>1, AddIncomingJoint
  <1> HIDE DEF new
  <1>4. p.id = id /\ p.value = v /\ p.from = from
    BY DEF Incoming
  <1> HIDE DEF p
  <1>5. Shaped(new) /\ Size(new) = k /\ new.cur = c
    BY <1>1, <1>2 DEF Alike
  <1>6. Same(h, B, N, new)
    BY <1>1, <1>2, <1>3, <1>4, <1>5 DEF Same
  <1>7. Site(new, id, b, 0)
    BY <1>2, <1>4, <1>5 DEF Site
  <1>8. \A w, d, j : Site(h, w, d, j) => Site(new, w, d, j)
    BY <1>1, <1>6, SoundSame
  <1>. QED BY <1>5, <1>6, <1>7, <1>8, FollowsSame DEF new

\* What dominates a block that nothing goes to yet is settled.
Entered(A, b, X, B) == B \in [Nat -> SUBSET Nat] /\ \A x \in Nat : B[x] = IF x = b THEN X \cup {b} ELSE A[x]
LEMMA EnterExists ==
  ASSUME NEW A \in [Nat -> SUBSET Nat], NEW b \in Nat, NEW X \in SUBSET Nat
  PROVE  \E B : Entered(A, b, X, B)
  <1> DEFINE B == [x \in Nat |-> IF x = b THEN X \cup {b} ELSE A[x]]
  <1>1. B \in [Nat -> SUBSET Nat] /\ \A x \in Nat : B[x] = IF x = b THEN X \cup {b} ELSE A[x]
    OBVIOUS
  <1> HIDE DEF B
  <1>. QED BY <1>1 DEF Entered

LEMMA SoundEnter ==
  ASSUME NEW g, NEW A, NEW N, Sound(g, A, N), NEW b \in 1 .. Size(g), A[b] = {}, NEW X, NEW B, Entered(A, b, X, B)
  PROVE  Sound(g, B, N)
  <1>1. /\ A \in [Nat -> SUBSET Nat] /\ A[1] = {1} /\ Shaped(g)
        /\ \A x \in Nat : A[x] # {} => x \in A[x] /\ x \in 1 .. Size(g)
        /\ \A a, x : Enters(g, a, x) => x \in Nat /\ x \in A[x] /\ A[x] \subseteq A[a] \cup {x}
    BY DEF Sound
  <1>2. b \in Nat /\ b # 1
    BY <1>1
  <1>3. B \in [Nat -> SUBSET Nat] /\ \A x \in Nat : B[x] = IF x = b THEN X \cup {b} ELSE A[x]
    BY DEF Entered
  <1>4. B[1] = {1} /\ \A x \in Nat : B[x] # {} => x \in B[x] /\ x \in 1 .. Size(g)
    BY <1>1, <1>2, <1>3
  <1>5. ASSUME NEW a, NEW x, Enters(g, a, x) PROVE x \in Nat /\ x \in B[x] /\ B[x] \subseteq B[a] \cup {x}
    <2>1. x \in Nat /\ x \in A[x] /\ A[x] \subseteq A[a] \cup {x}
      BY <1>1, <1>5
    <2>2. x # b /\ B[x] = A[x]
      BY <1>3, <2>1
    <2>3. a \in Nat
      <3>1. a \in 1 .. Size(g)
        BY <1>5 DEF Enters, Jumps, Throws
      <3>. QED BY <3>1
    <2>4. A[a] \subseteq B[a]
      BY <1>3, <2>3
    <2>. QED BY <2>1, <2>2, <2>4
  <1>6. \A x \in 1 .. Size(g) : A[x] \subseteq B[x]
    <2>1. \A x \in 1 .. Size(g) : x \in Nat
      OBVIOUS
    <2>. QED BY <1>3, <2>1
  <1>7. \A d, j, v : Site(g, v, d, j) => Site(g, v, d, j)
    OBVIOUS
  <1>8. ASSUME NEW x \in 1 .. Size(g), NEW i \in DOMAIN g.blocks[x].code, NEW v \in Members(g.blocks[x].code[i].args)
        PROVE  Usable(g, B, N, v, g.blocks[x].code[i].id[1], x, i)
    <2>1. Usable(g, A, N, v, g.blocks[x].code[i].id[1], x, i)
      BY <1>8 DEF Sound
    <2>. QED BY <1>6, <2>1 DEF Usable
  <1>9. ASSUME NEW x \in 1 .. Size(g), NEW p \in g.blocks[x].phi
        PROVE  p.from \in 1 .. Size(g) /\ Usable(g, B, N, p.value, p.id[1], p.from, Len(g.blocks[p.from].code) + 1)
    <2>1. p.from \in 1 .. Size(g) /\ Usable(g, A, N, p.value, p.id[1], p.from, Len(g.blocks[p.from].code) + 1)
      BY <1>9 DEF Sound
    <2>. QED BY <1>6, <2>1 DEF Usable
  <1>10. Sound(g, B, N)
    BY <1>1, <1>3, <1>4, <1>5, <1>8, <1>9 DEF Sound
  <1>. QED BY <1>10

LEMMA FollowsEnter ==
  ASSUME NEW g, NEW A, NEW h, NEW B, NEW N, NEW k, NEW c, Follows(g, A, h, B, N, k, c),
         NEW b \in 1 .. k, b > Size(g), B[b] = {}, NEW X, NEW D, Entered(B, b, X, D)
  PROVE  Follows(g, A, h, D, N, k, c)
  <1>1. Sound(h, B, N) /\ Size(h) = k
    BY DEF Follows
  <1>2. Sound(h, D, N) /\ \A x \in Nat : D[x] = IF x = b THEN X \cup {b} ELSE B[x]
    BY <1>1, SoundEnter DEF Entered
  <1>3. \A x \in 1 .. Size(g) : x \in Nat /\ x # b
    BY DEF Follows
  <1>. QED BY <1>2, <1>3 DEF Follows

LEMMA SoundMore ==
  ASSUME NEW g, NEW A, NEW N, Sound(g, A, N), NEW M, N \subseteq M
  PROVE  Sound(g, A, M)
  <1>1. \A v, by, b, i : Usable(g, A, N, v, by, b, i) => Usable(g, A, M, v, by, b, i)
    BY DEF Usable, Exempt
  <1>. QED BY <1>1 DEF Sound

LEMMA FollowsTwice ==
  ASSUME NEW g, NEW A, NEW h, NEW B, NEW N, NEW k, NEW c, Follows(g, A, h, B, N, k, c),
         NEW new, NEW D, NEW l, NEW d, Follows(h, B, new, D, N, l, d)
  PROVE  Follows(g, A, new, D, N, l, d)
  <1>1. Size(g) \in Nat /\ Size(h) \in Nat /\ Size(h) = k /\ l \in Nat /\ Size(g) <= k /\ k <= l
    BY DEF Follows
  <1>2. Size(g) <= l /\ \A b \in 1 .. Size(g) : b \in 1 .. Size(h)
    BY <1>1
  <1>. QED BY <1>1, <1>2 DEF Follows

LEMMA AvailableLater ==
  ASSUME NEW g, NEW h, \A v, d, j : Site(g, v, d, j) => Site(h, v, d, j), NEW X, NEW Y, X \subseteq Y, NEW v
  PROVE  /\ Available(g, v, X) => Available(h, v, Y)
         /\ Ok(g, v, X) => Ok(h, v, Y)
BY DEF Available, Ok

\* Code that goes on, in the block where it is or in one that is reached from there only.
Placed(g, A, N) == Sound(g, A, N) /\ g.cur \in 1 .. Size(g) /\ g.cur \in A[g.cur]
Onto(g, A, h, B, N) ==
  /\ Follows(g, A, h, B, N, Size(h), h.cur)
  /\ h.cur \in 1 .. Size(h) /\ h.cur \in B[h.cur] /\ A[g.cur] \subseteq B[h.cur]
PadIn(A, c) ==
  handlers # <<>> => LET pad == Last(handlers) IN pad \in Nat /\ pad \in A[pad] /\ A[pad] \subseteq A[c] \cup {pad}

LEMMA OntoPlaced ==
  ASSUME NEW g, NEW A, NEW h, NEW B, NEW N, Onto(g, A, h, B, N)
  PROVE  Placed(h, B, N)
BY DEF Onto, Placed, Follows

LEMMA OntoNothing ==
  ASSUME NEW g, NEW A, NEW N, Placed(g, A, N)
  PROVE  Onto(g, A, g, A, N)
BY FollowsNothing DEF Onto, Placed

LEMMA OntoTwice ==
  ASSUME NEW g, NEW A, NEW h, NEW B, NEW N, Onto(g, A, h, B, N), NEW new, NEW D, Onto(h, B, new, D, N)
  PROVE  Onto(g, A, new, D, N)
  <1>1. Follows(g, A, new, D, N, Size(new), new.cur)
    BY FollowsTwice DEF Onto
  <1>. QED BY <1>1 DEF Onto

LEMMA OntoPads ==
  ASSUME NEW g, NEW A, NEW h, NEW B, NEW N, Sound(g, A, N), Onto(g, A, h, B, N), PadIn(A, g.cur)
  PROVE  PadIn(B, h.cur)
  <1> SUFFICES ASSUME handlers # <<>>
               PROVE  LET pad == Last(handlers) IN pad \in Nat /\ pad \in B[pad] /\ B[pad] \subseteq B[h.cur] \cup {pad}
    BY DEF PadIn
  <1> DEFINE pad == Last(handlers)
  <1>1. pad \in Nat /\ pad \in A[pad] /\ A[pad] \subseteq A[g.cur] \cup {pad}
    BY DEF PadIn
  <1> HIDE DEF pad
  <1>2. pad \in 1 .. Size(g)
    BY <1>1 DEF Sound
  <1>3. B[pad] = A[pad]
    BY <1>2 DEF Onto, Follows
  <1>4. pad \in Nat /\ pad \in B[pad] /\ B[pad] \subseteq B[h.cur] \cup {pad}
    BY <1>1, <1>3 DEF Onto
  <1>. QED BY <1>4 DEF pad

LEMMA OntoEmit ==
  ASSUME NEW g, NEW A, NEW N, Placed(g, A, N), NEW instr, Fine(instr, g, A, N, g.cur), instr.op # "invoke"
  PROVE  Onto(g, A, Emit(g, instr), A, N) /\ Available(Emit(g, instr), instr.id, A[g.cur]) /\ Emit(g, instr).cur = g.cur
  <1> DEFINE k == Size(g)
             c == g.cur
             h == EmitAt(g, c, instr)
  <1>1. Follows(g, A, g, A, N, k, c) /\ c \in 1 .. k /\ c \in A[c]
    BY FollowsNothing DEF Placed
  <1>2. Emit(g, instr) = h
    BY DEF Emit
  <1> HIDE DEF k, c
  <1>3. Follows(g, A, h, A, N, k, c) /\ \E j : Site(h, instr.id, c, j)
    BY <1>1, FollowsEmitAt DEF c
  <1> HIDE DEF h
  <1>4. Size(h) = k /\ h.cur = c
    BY <1>3 DEF Follows
  <1>. QED BY <1>1, <1>2, <1>3, <1>4 DEF Onto, Available, c

LEMMA OntoLangCall ==
  ASSUME NEW g, NEW A, NEW N, Placed(g, A, N), PadIn(A, g.cur), NEW id, NEW args,
         \A v \in Members(args) : Exempt(v, id[1], N) \/ Available(g, v, A[g.cur])
  PROVE  \E B : Onto(g, A, LangCall(g, id, args), B, N) /\ Available(LangCall(g, id, args), id, B[LangCall(g, id, args).cur])
  <1>1. CASE handlers = <<>>
    <2> DEFINE instr == Instr("call", id, args)
    <2>1. instr.op = "call" /\ instr.id = id /\ instr.args = args /\ ~IsEnd(instr)
      BY DEF Instr, IsEnd, EndOps
    <2>2. LangCall(g, id, args) = Emit(g, instr)
      BY <1>1 DEF LangCall
    <2> HIDE DEF instr
    <2>3. Fine(instr, g, A, N, g.cur)
      BY <2>1 DEF Fine, GoesTo
    <2>4. Onto(g, A, Emit(g, instr), A, N) /\ Available(Emit(g, instr), id, A[g.cur]) /\ Emit(g, instr).cur = g.cur
      BY <2>1, <2>3, OntoEmit
    <2>. QED BY <2>2, <2>4
  <1>2. CASE handlers # <<>>
    <2> DEFINE k     == Size(g)
               c     == g.cur
               pad   == Last(handlers)
               instr == Invoke(id, args, k + 1, pad)
               g1    == Create(g, 1)
               g2    == EmitAt(g1, c, instr)
               g3    == MoveTo(g2, k + 1)
    <2>1. Follows(g, A, g, A, N, k, c) /\ c \in 1 .. k /\ c \in A[c] /\ k \in Nat /\ A \in [Nat -> SUBSET Nat]
      BY FollowsNothing, ShapedParts DEF Placed, Sound
    <2>2. pad \in Nat /\ pad \in A[pad] /\ A[pad] \subseteq A[c] \cup {pad}
      BY <1>2 DEF PadIn
    <2>3. /\ instr.op = "invoke" /\ instr.id = id /\ instr.args = args
          /\ instr.targets = <<k + 1>> /\ instr.unwind = pad /\ instr.targets[1] = k + 1
      BY DEF Invoke, Instr
    <2>4. LangCall(g, id, args) = MoveTo(EmitAt(g1, g1.cur, instr), k + 1)
      BY <1>2 DEF LangCall, Emit
    <2> HIDE DEF pad, instr, k, c
    <2>5. /\ Follows(g, A, g1, A, N, k + 1, c) /\ A[k + 1] = {}
          /\ \A v, d, j : Site(g, v, d, j) => Site(g1, v, d, j)
      <3>1. 1 \in Nat /\ k + 1 \in k + 1 .. k + 1
        BY <2>1
      <3>. QED BY <2>1, <3>1, FollowsCreate
    <2>6. g1.cur = c
      BY <2>5 DEF Follows
    <2> HIDE DEF g1
    <2>7. c \in Nat /\ k + 1 \in Nat /\ k + 1 \in 1 .. k + 1 /\ c \in 1 .. k + 1 /\ k + 1 > k /\ c # k + 1
      BY <2>1
    <2>8. PICK B : Entered(A, k + 1, A[c], B)
      BY <2>1, <2>7, EnterExists
    <2>9. Follows(g, A, g1, B, N, k + 1, c)
      BY <2>5, <2>7, <2>8, FollowsEnter DEF k
    <2>10. B[k + 1] = A[c] \cup {k + 1} /\ B[c] = A[c] /\ pad # k + 1 /\ B[pad] = A[pad]
      BY <2>2, <2>5, <2>7, <2>8 DEF Entered
    <2>11. Fine(instr, g1, B, N, c)
      <3>1. \A v \in Members(instr.args) : Exempt(v, instr.id[1], N) \/ Available(g1, v, B[c])
        BY <2>3, <2>5, <2>10 DEF Available, c
      <3>2. \A x : GoesTo(instr, x) => x = k + 1 \/ x = pad
        <4>1. Members(instr.targets) = {k + 1}
          BY <2>3, MembersOf
        <4>. QED BY <2>3, <4>1 DEF GoesTo
      <3>. QED BY <2>2, <2>7, <2>10, <3>1, <3>2 DEF Fine
    <2>12. Follows(g, A, g2, B, N, k + 1, c) /\ \E j : Site(g2, id, k + 1, j)
      BY <2>3, <2>7, <2>9, <2>11, FollowsEmitAt
    <2> HIDE DEF g2
    <2>13. Follows(g, A, g3, B, N, k + 1, k + 1) /\ \E j : Site(g3, id, k + 1, j)
      BY <2>7, <2>12, FollowsMoveTo
    <2>14. g3.cur = k + 1 /\ Size(g3) = k + 1
      BY <2>13 DEF Follows
    <2>15. Onto(g, A, g3, B, N)
      BY <2>7, <2>10, <2>13, <2>14 DEF Onto, c
    <2>16. Available(g3, id, B[g3.cur])
      BY <2>10, <2>13, <2>14 DEF Available
    <2>17. LangCall(g, id, args) = g3
      BY <2>4, <2>6 DEF g2
    <2> HIDE DEF g3
    <2>. QED BY <2>15, <2>16, <2>17
  <1>. QED BY <1>1, <1>2

-----------------------------------------------------------------------------
(* Statements in one another.                                              *)

InOrder(P) == Len(P) \in Nat /\ DOMAIN P = 1 .. Len(P) /\ \A n \in 1 .. Len(P) : P[n].in \in 0 .. n - 1
LinesUpTo(f, P, n) == f = [k \in 0 .. n |-> IF k = 0 THEN {} ELSE {k} \cup f[P[k].in]]

LEMMA LinesExist ==
  ASSUME NEW P, InOrder(P)
  PROVE  \E f : LinesUpTo(f, P, Len(P))
  <1> DEFINE Failing == {n \in Nat : n <= Len(P) /\ ~ \E f : LinesUpTo(f, P, n)}
  <1>1. 0 \notin Failing
    <2> DEFINE e == [k \in 0 .. 0 |-> {}]
    <2>1. e = [k \in 0 .. 0 |-> IF k = 0 THEN {} ELSE {k} \cup e[P[k].in]]
      OBVIOUS
    <2>2. LinesUpTo(e, P, 0)
      BY <2>1 DEF LinesUpTo
    <2>. QED BY <2>2
  <1>2. ASSUME NEW n \in Nat, n + 1 <= Len(P), NEW f, LinesUpTo(f, P, n)
        PROVE  \E g : LinesUpTo(g, P, n + 1)
    <2> DEFINE g == [k \in 0 .. n + 1 |-> IF k = n + 1 THEN {k} \cup f[P[k].in] ELSE f[k]]
    <2>1. n + 1 \in 1 .. Len(P)
      BY <1>2 DEF InOrder
    <2>2. ASSUME NEW k \in 0 .. n + 1 PROVE g[k] = IF k = 0 THEN {} ELSE {k} \cup g[P[k].in]
      <3>1. k # 0 => P[k].in \in 0 .. k - 1
        <4>1. k # 0 => k \in 1 .. Len(P)
          BY <1>2 DEF InOrder
        <4>. QED BY <4>1 DEF InOrder
      <3>2. k # 0 => P[k].in \in 0 .. n + 1 /\ P[k].in # n + 1
        BY <3>1
      <3>3. k # 0 => g[P[k].in] = f[P[k].in]
        BY <3>2
      <3>4. CASE k = n + 1
        <4>1. k # 0 /\ g[k] = {k} \cup f[P[k].in]
          BY <3>4
        <4> HIDE DEF g
        <4>. QED BY <3>3, <4>1
      <3>5. CASE k \in 0 .. n
        <4>1. g[k] = f[k]
          BY <3>5
        <4>2. f[k] = IF k = 0 THEN {} ELSE {k} \cup f[P[k].in]
          BY <1>2, <3>5 DEF LinesUpTo
        <4>. QED BY <3>3, <4>1, <4>2
      <3>. QED BY <3>4, <3>5
    <2>3. g = [k \in 0 .. n + 1 |-> g[k]]
      OBVIOUS
    <2> HIDE DEF g
    <2>4. LinesUpTo(g, P, n + 1)
      BY <2>2, <2>3 DEF LinesUpTo
    <2>. QED BY <2>4
  <1>3. Failing = {}
    <2> SUFFICES ASSUME Failing # {} PROVE FALSE
      OBVIOUS
    <2>1. Failing \in SUBSET Nat
      OBVIOUS
    <2>2. PICK n \in Failing : \A m \in Failing : n <= m
      <3> HIDE DEF Failing
      <3>. QED BY <2>1, SmallestExists
    <2>3. n \in Nat /\ n # 0 /\ n <= Len(P)
      BY <1>1, <2>2
    <2>4. n - 1 \in Nat /\ n - 1 \notin Failing /\ n - 1 + 1 = n /\ n - 1 <= Len(P)
      <3>1. n - 1 \in Nat /\ ~(n <= n - 1) /\ n - 1 + 1 = n /\ n - 1 <= Len(P)
        BY <2>3 DEF InOrder
      <3> HIDE DEF Failing
      <3>. QED BY <2>2, <3>1
    <2>5. PICK f : LinesUpTo(f, P, n - 1)
      BY <2>4
    <2>6. \E g : LinesUpTo(g, P, n)
      <3> HIDE DEF Failing
      <3>. QED BY <1>2, <2>3, <2>4, <2>5
    <2>. QED BY <2>2, <2>6
  <1>4. Len(P) \in Nat /\ Len(P) <= Len(P)
    BY DEF InOrder
  <1>. QED BY <1>3, <1>4

LEMMA LinesIs ==
  ASSUME NEW P, InOrder(P)
  PROVE  /\ Lines(P)[0] = {}
         /\ \A n \in 1 .. Len(P) : Lines(P)[n] = {n} \cup Lines(P)[P[n].in]
         /\ \A n \in 0 .. Len(P) : Lines(P)[n] \subseteq 1 .. n
  <1> DEFINE within[n \in 0 .. Len(P)] == IF n = 0 THEN {} ELSE {n} \cup within[P[n].in]
  <1>1. Lines(P) = within
    BY DEF Lines
  <1>2. \E f : f = [n \in 0 .. Len(P) |-> IF n = 0 THEN {} ELSE {n} \cup f[P[n].in]]
    BY LinesExist DEF LinesUpTo
  <1>3. within = [n \in 0 .. Len(P) |-> IF n = 0 THEN {} ELSE {n} \cup within[P[n].in]]
    BY <1>2 DEF within
  <1> HIDE DEF within
  <1> DEFINE L == Lines(P)
  <1> HIDE DEF L
  <1>4. L = [n \in 0 .. Len(P) |-> IF n = 0 THEN {} ELSE {n} \cup L[P[n].in]]
    BY <1>1, <1>3 DEF L
  <1>0. Len(P) \in Nat /\ \A n \in 1 .. Len(P) : P[n].in \in 0 .. n - 1
    BY DEF InOrder
  <1>5. L[0] = {} /\ \A n \in 1 .. Len(P) : L[n] = {n} \cup L[P[n].in]
    BY <1>0, <1>4
  <1>6. \A n \in 0 .. Len(P) : L[n] \subseteq 1 .. n
    <2> DEFINE Bad == {n \in 0 .. Len(P) : ~(L[n] \subseteq 1 .. n)}
    <2> SUFFICES ASSUME Bad # {} PROVE FALSE
      OBVIOUS
    <2>1. Bad \in SUBSET Nat
      BY <1>0
    <2>2. PICK n \in Bad : \A m \in Bad : n <= m
      <3> HIDE DEF Bad
      <3>. QED BY <2>1, SmallestExists
    <2>3. n \in 1 .. Len(P) /\ L[n] = {n} \cup L[P[n].in]
      BY <1>0, <1>5
    <2>4. P[n].in \in 0 .. n - 1
      BY <1>0, <2>3
    <2>5. P[n].in \in 0 .. Len(P) /\ ~(n <= P[n].in)
      BY <1>0, <2>3, <2>4
    <2>6. L[P[n].in] \subseteq 1 .. P[n].in
      BY <2>2, <2>5
    <2>7. 1 .. P[n].in \subseteq 1 .. n
      BY <2>3, <2>4
    <2>8. n \in 1 .. n
      BY <2>3
    <2>. QED BY <2>3, <2>6, <2>7, <2>8
  <1>. QED BY <1>5, <1>6 DEF L

LEMMA LinesThrough ==
  ASSUME NEW P, InOrder(P), NEW a \in 1 .. Len(P), NEW c \in Lines(P)[a]
  PROVE  /\ c \in 1 .. a /\ Lines(P)[c] \subseteq Lines(P)[a] /\ a \in Lines(P)[a]
         /\ a # c => \E p \in Lines(P)[a] : p \in 1 .. Len(P) /\ P[p].in = c
  <1> DEFINE L == Lines(P)
             Good(n) == \A x \in L[n] : L[x] \subseteq L[n] /\ (n # x => \E p \in L[n] : p \in 1 .. Len(P) /\ P[p].in = x)
             Bad == {n \in 1 .. Len(P) : ~Good(n)}
  <1>1. /\ L[0] = {} /\ \A n \in 1 .. Len(P) : L[n] = {n} \cup L[P[n].in]
        /\ \A n \in 0 .. Len(P) : L[n] \subseteq 1 .. n
    BY LinesIs
  <1>2. Len(P) \in Nat /\ \A n \in 1 .. Len(P) : P[n].in \in 0 .. n - 1
    BY DEF InOrder
  <1> HIDE DEF L
  <1>3. Bad = {}
    <2> SUFFICES ASSUME Bad # {} PROVE FALSE
      OBVIOUS
    <2>1. Bad \in SUBSET Nat
      BY <1>2
    <2>2. PICK n \in Bad : \A m \in Bad : n <= m
      <3> HIDE DEF Bad
      <3>. QED BY <2>1, SmallestExists
    <2>3. n \in 1 .. Len(P) /\ ~Good(n) /\ n \in Nat
      BY <1>2
    <2> DEFINE m == P[n].in
    <2>4. m \in 0 .. n - 1 /\ L[n] = {n} \cup L[m]
      BY <1>1, <1>2, <2>3
    <2>5. m = 0 => L[m] = {}
      BY <1>1
    <2>6. m # 0 => Good(m)
      <3>1. m # 0 => m \in 1 .. Len(P) /\ ~(n <= m)
        BY <1>2, <2>3, <2>4
      <3> HIDE DEF m, Good
      <3>. QED BY <2>2, <3>1
    <2>7. ASSUME NEW x \in L[n] PROVE L[x] \subseteq L[n] /\ (n # x => \E p \in L[n] : p \in 1 .. Len(P) /\ P[p].in = x)
      <3>1. CASE x = n
        BY <3>1
      <3>2. CASE x # n
        <4>1. x \in L[m] /\ m # 0 /\ L[x] \subseteq L[m]
          BY <2>4, <2>5, <2>6, <2>7, <3>2
        <4>2. CASE m = x
          BY <2>3, <2>4, <4>1, <4>2
        <4>3. CASE m # x
          <5>1. PICK p \in L[m] : p \in 1 .. Len(P) /\ P[p].in = x
            BY <2>6, <4>1, <4>3
          <5>. QED BY <2>4, <4>1, <5>1
        <4>. QED BY <4>2, <4>3
      <3>. QED BY <3>1, <3>2
    <2>. QED BY <2>3, <2>7
  <1>4. Good(a)
    BY <1>3
  <1>5. c \in 1 .. a /\ a \in L[a] /\ c \in L[a]
    <2>1. a \in 0 .. Len(P)
      BY <1>2
    <2>2. L[a] \subseteq 1 .. a /\ a \in L[a]
      BY <1>1, <2>1
    <2>. QED BY <2>2 DEF L
  <1>. QED BY <1>4, <1>5 DEF L

\* What is sure of a statement is sure of one of its parts, which is always done.
LEMMA SureSplit ==
  ASSUME NEW P, InOrder(P), NEW a \in 1 .. Len(P), NEW c, Sure(P, a, c), a # c
  PROVE  \E p \in 1 .. Len(P) : P[p].in = c /\ P[p].part \in AlwaysDone /\ Sure(P, a, p)
  <1> DEFINE L == Lines(P)
  <1>1. c \in L[a] /\ \A n \in L[a] \ L[c] : P[n].part \in AlwaysDone
    BY DEF Sure
  <1>2. PICK p \in L[a] : p \in 1 .. Len(P) /\ P[p].in = c
    BY <1>1, LinesThrough
  <1>3. c \in 1 .. a /\ c \in 0 .. p - 1
    BY <1>1, <1>2, LinesThrough DEF InOrder
  <1>4. L[c] \subseteq 1 .. c /\ L[p] = {p} \cup L[c]
    <2>1. c \in 0 .. Len(P)
      BY <1>3 DEF InOrder
    <2>. QED BY <1>2, <2>1, LinesIs
  <1>5. p \notin L[c]
    BY <1>2, <1>3, <1>4
  <1> HIDE DEF L
  <1>6. P[p].part \in AlwaysDone /\ \A n \in L[a] \ L[p] : P[n].part \in AlwaysDone
    BY <1>1, <1>2, <1>4, <1>5
  <1>7. Sure(P, a, p)
    BY <1>2, <1>6 DEF Sure, L
  <1>. QED BY <1>2, <1>6, <1>7

\* The program Q goes on from P.
Longer(P, Q) == InOrder(P) /\ InOrder(Q) /\ Len(P) <= Len(Q) /\ \A n \in 1 .. Len(P) : Q[n] = P[n]

LEMMA LinesAgain ==
  ASSUME NEW P, NEW Q, Longer(P, Q)
  PROVE  \A n \in 0 .. Len(P) : Lines(Q)[n] = Lines(P)[n]
  <1> DEFINE L == Lines(P)
             M == Lines(Q)
             Bad == {n \in 0 .. Len(P) : M[n] # L[n]}
  <1>1. /\ Len(P) \in Nat /\ Len(Q) \in Nat /\ Len(P) <= Len(Q)
        /\ \A n \in 1 .. Len(P) : P[n].in \in 0 .. n - 1 /\ Q[n] = P[n]
    BY DEF Longer, InOrder
  <1>2. L[0] = {} /\ M[0] = {} /\ \A n \in 1 .. Len(P) : L[n] = {n} \cup L[P[n].in]
    BY LinesIs DEF Longer
  <1>3. \A n \in 1 .. Len(Q) : M[n] = {n} \cup M[Q[n].in]
    BY LinesIs DEF Longer
  <1> HIDE DEF L, M
  <1>4. \A n \in 1 .. Len(P) : M[n] = {n} \cup M[P[n].in]
    <2>1. \A n \in 1 .. Len(P) : n \in 1 .. Len(Q)
      BY <1>1
    <2>. QED BY <1>1, <1>3, <2>1
  <1>5. Bad = {}
    <2> SUFFICES ASSUME Bad # {} PROVE FALSE
      OBVIOUS
    <2>1. Bad \in SUBSET Nat
      BY <1>1
    <2>2. PICK n \in Bad : \A m \in Bad : n <= m
      <3> HIDE DEF Bad
      <3>. QED BY <2>1, SmallestExists
    <2>3. n \in 1 .. Len(P) /\ M[n] # L[n]
      <3>1. n \in 0 .. Len(P) /\ M[n] # L[n]
        OBVIOUS
      <3>2. n # 0
        BY <1>2, <3>1
      <3>. QED BY <1>1, <3>1, <3>2
    <2>4. P[n].in \in 0 .. Len(P) /\ ~(n <= P[n].in)
      BY <1>1, <2>3
    <2>5. M[P[n].in] = L[P[n].in]
      BY <2>2, <2>4
    <2>. QED BY <1>2, <1>4, <2>3, <2>5
  <1>. QED BY <1>5 DEF L, M

LEMMA SureAgain ==
  ASSUME NEW P, NEW Q, Longer(P, Q), NEW a \in 1 .. Len(P), NEW p \in 1 .. Len(P)
  PROVE  Sure(Q, a, p) <=> Sure(P, a, p)
  <1>1. a \in 0 .. Len(P) /\ p \in 0 .. Len(P)
    BY DEF Longer, InOrder
  <1>2. Lines(Q)[a] = Lines(P)[a] /\ Lines(Q)[p] = Lines(P)[p]
    BY <1>1, LinesAgain
  <1>3. Lines(P)[a] \subseteq 1 .. a
    BY <1>1, LinesIs DEF Longer
  <1>4. \A n \in 1 .. a : Q[n] = P[n]
    <2>1. \A n \in 1 .. a : n \in 1 .. Len(P)
      BY DEF Longer, InOrder
    <2>. QED BY <2>1 DEF Longer
  <1>. QED BY <1>2, <1>3, <1>4 DEF Sure

LEMMA ScopeAgain ==
  ASSUME NEW P, NEW Q, Longer(P, Q), NEW a \in 1 .. Len(P), NEW s \in 1 .. Len(P)
  PROVE  Scope(Q, a, s) <=> Scope(P, a, s)
  <1>1. a \in 0 .. Len(P) /\ s \in 0 .. Len(P)
    BY DEF Longer, InOrder
  <1>2. Lines(Q)[a] = Lines(P)[a] /\ Lines(Q)[s] = Lines(P)[s]
    BY <1>1, LinesAgain
  <1>3. Lines(P)[a] \subseteq 1 .. Len(P) /\ Lines(P)[s] \subseteq 1 .. Len(P)
    <2>1. Lines(P)[a] \subseteq 1 .. a /\ Lines(P)[s] \subseteq 1 .. s
      BY <1>1, LinesIs DEF Longer
    <2>2. 1 .. a \subseteq 1 .. Len(P) /\ 1 .. s \subseteq 1 .. Len(P)
      BY DEF Longer, InOrder
    <2>. QED BY <2>1, <2>2
  <1>4. ASSUME NEW p \in Lines(P)[a], NEW q \in Lines(P)[s]
        PROVE  Q[p] = P[p] /\ Q[q] = P[q] /\ (Sure(Q, a, p) <=> Sure(P, a, p))
    BY <1>3, SureAgain DEF Longer
  <1>. QED BY <1>2, <1>4 DEF Scope

LEMMA AllocatesAgain ==
  ASSUME NEW P, NEW Q, Longer(P, Q), NEW a \in 1 .. Len(P)
  PROVE  Allocates(Q, a) <=> Allocates(P, a)
  <1>1. \A m \in 1 .. a - 1 : m \in 1 .. Len(P)
    BY DEF Longer, InOrder
  <1>2. Q[a] = P[a] /\ \A m \in 1 .. a - 1 : Q[m] = P[m]
    BY <1>1 DEF Longer
  <1>. QED BY <1>2 DEF Allocates

LEMMA ExcusedGrows ==
  ASSUME NEW P, NEW Q, Longer(P, Q)
  PROVE  Excused(P) \subseteq Excused(Q)
  <1> SUFFICES ASSUME NEW e \in Excused(P) PROVE e \in Excused(Q)
    OBVIOUS
  <1>1. e \in (1 .. Len(P)) \X (1 .. Len(P)) /\ Allocates(P, e[1]) /\ ~Scope(P, e[1], e[2])
    BY DEF Excused
  <1>2. e[1] \in 1 .. Len(P) /\ e[2] \in 1 .. Len(P)
    BY <1>1
  <1>3. Allocates(Q, e[1]) /\ ~Scope(Q, e[1], e[2])
    BY <1>1, <1>2, AllocatesAgain, ScopeAgain
  <1>4. 1 .. Len(P) \subseteq 1 .. Len(Q)
    BY DEF Longer, InOrder
  <1>5. e \in (1 .. Len(Q)) \X (1 .. Len(Q))
    BY <1>1, <1>4
  <1>. QED BY <1>3, <1>5 DEF Excused

\* The functions that run are for the statements that the last one's is in.
Placing(P, s) ==
  /\ InOrder(P) /\ Len(s) \in Nat /\ DOMAIN s = 1 .. Len(s) /\ \A i \in 1 .. Len(s) : s[i].stmt \in 1 .. Len(P)
  /\ Len(s) # 0 => s[1].stmt = 1
  /\ \A i \in 1 .. Len(s) - 1 : P[s[i + 1].stmt].in = s[i].stmt /\ P[s[i + 1].stmt].part = s[i].part

LEMMA StackLines ==
  ASSUME NEW P, NEW s, Placing(P, s), NEW i \in 1 .. Len(s)
  PROVE  /\ \A q \in Lines(P)[s[i].stmt] : \E j \in 1 .. i : q = s[j].stmt
         /\ \A j \in 1 .. i : j # i => s[j].stmt < s[i].stmt
  <1> DEFINE L == Lines(P)
             Good(n) == /\ \A q \in L[s[n].stmt] : \E j \in 1 .. n : q = s[j].stmt
                        /\ \A j \in 1 .. n : j # n => s[j].stmt < s[n].stmt
             Bad == {n \in 1 .. Len(s) : ~Good(n)}
  <1>1. /\ L[0] = {} /\ \A n \in 1 .. Len(P) : L[n] = {n} \cup L[P[n].in]
        /\ \A n \in 1 .. Len(P) : P[n].in \in 0 .. n - 1
    BY LinesIs DEF Placing, InOrder
  <1>2. /\ Len(s) \in Nat /\ \A n \in 1 .. Len(s) : s[n].stmt \in 1 .. Len(P)
        /\ \A n \in 1 .. Len(s) - 1 : P[s[n + 1].stmt].in = s[n].stmt
        /\ Len(s) # 0 => s[1].stmt = 1
        /\ Len(P) \in Nat
    BY DEF Placing, InOrder
  <1> HIDE DEF L
  <1>3. Bad = {}
    <2> SUFFICES ASSUME Bad # {} PROVE FALSE
      OBVIOUS
    <2>1. Bad \in SUBSET Nat
      BY <1>2
    <2>2. PICK n \in Bad : \A m \in Bad : n <= m
      <3> HIDE DEF Bad
      <3>. QED BY <2>1, SmallestExists
    <2>3. n \in 1 .. Len(s) /\ ~Good(n) /\ n \in Nat
      BY <1>2
    <2>4. n # 1
      <3> SUFFICES ASSUME n = 1 PROVE FALSE
        OBVIOUS
      <3>1. s[1].stmt = 1 /\ 1 \in 1 .. Len(P)
        BY <1>2, <2>3
      <3>2. P[1].in = 0
        BY <1>1, <3>1
      <3>3. L[s[1].stmt] = {1}
        BY <1>1, <3>1, <3>2
      <3>4. Good(1)
        BY <3>1, <3>3
      <3>. QED BY <2>3, <3>4
    <2>5. n - 1 \in 1 .. Len(s) /\ n - 1 \in 1 .. Len(s) - 1 /\ ~(n <= n - 1) /\ n - 1 + 1 = n
      BY <1>2, <2>3, <2>4
    <2>6. Good(n - 1)
      <3> HIDE DEF Good
      <3>. QED BY <2>2, <2>5
    <2>7. P[s[n].stmt].in = s[n - 1].stmt /\ s[n].stmt \in 1 .. Len(P)
      BY <1>2, <2>3, <2>5
    <2>8. L[s[n].stmt] = {s[n].stmt} \cup L[s[n - 1].stmt] /\ s[n - 1].stmt \in 0 .. s[n].stmt - 1
      BY <1>1, <2>7
    <2>9. \A j \in 1 .. n - 1 : j \in 1 .. n
      BY <2>3
    <2>10. n \in 1 .. n /\ \A j \in 1 .. n : j = n \/ j \in 1 .. n - 1
      BY <2>3
    <2>11. \A q \in L[s[n].stmt] : \E j \in 1 .. n : q = s[j].stmt
      BY <2>6, <2>8, <2>9, <2>10
    <2>12. \A j \in 1 .. n : j # n => s[j].stmt < s[n].stmt
      <3> SUFFICES ASSUME NEW j \in 1 .. n - 1 PROVE s[j].stmt < s[n].stmt
        BY <2>10
      <3>2. j \in 1 .. Len(s)
        BY <1>2, <2>3
      <3>3. s[j].stmt \in Int /\ s[n - 1].stmt \in Int /\ s[n].stmt \in Int
        BY <1>2, <2>3, <2>5, <3>2
      <3>4. j # n - 1 => s[j].stmt < s[n - 1].stmt
        BY <2>6
      <3>1. s[j].stmt <= s[n - 1].stmt
        BY <3>3, <3>4
      <3>. QED BY <2>8, <3>1, <3>3
    <2>. QED BY <2>3, <2>11, <2>12
  <1>4. Good(i)
    BY <1>3
  <1>. QED BY <1>4 DEF L

-----------------------------------------------------------------------------
(* What the functions that run count on stays so.                          *)

\* The statement that a function is for is in that of the one before it only.
LEMMA StackKid ==
  ASSUME NEW P, NEW s, Placing(P, s), NEW i \in 1 .. Len(s), NEW j \in 1 .. Len(s), P[s[j].stmt].in = s[i].stmt
  PROVE  j = i + 1
  <1>1. /\ Len(s) \in Nat /\ s[i].stmt \in 1 .. Len(P) /\ s[j].stmt \in 1 .. Len(P) /\ Len(P) \in Nat
        /\ s[1].stmt = 1 /\ P[s[j].stmt].in \in 0 .. s[j].stmt - 1
    BY DEF Placing, InOrder
  <1>2. j # 1
    BY <1>1
  <1>3. j - 1 \in 1 .. Len(s) /\ j - 1 \in 1 .. Len(s) - 1 /\ j - 1 + 1 = j
    BY <1>1, <1>2
  <1>4. P[s[j].stmt].in = s[j - 1].stmt
    BY <1>3 DEF Placing
  <1>5. s[j - 1].stmt = s[i].stmt
    BY <1>4
  <1>6. i < j - 1 => s[i].stmt < s[j - 1].stmt
    <2>1. i < j - 1 => i \in 1 .. j - 1 /\ i # j - 1
      BY <1>1, <1>3
    <2>. QED BY <1>3, <2>1, StackLines
  <1>7. j - 1 < i => s[j - 1].stmt < s[i].stmt
    <2>1. j - 1 < i => j - 1 \in 1 .. i /\ j - 1 # i
      BY <1>1, <1>3
    <2>. QED BY <2>1, StackLines
  <1>8. s[i].stmt \in Int /\ s[j - 1].stmt \in Int
    BY <1>1, <1>5
  <1>. QED BY <1>1, <1>3, <1>5, <1>6, <1>7, <1>8

\* The program Q has at most one statement more than P, where the functions of s are.
Goes1(P, s, Q) ==
  /\ Longer(P, Q)
  /\ \/ Len(Q) = Len(P)
     \/ /\ Len(Q) = Len(P) + 1 /\ Len(s) # 0
        /\ Q[Len(Q)].in = s[Len(s)].stmt /\ Q[Len(Q)].part = s[Len(s)].part

\* What is sure of the next statement is so of those that it is in.
LEMMA SureOfNew ==
  ASSUME NEW P, NEW s, Placing(P, s), NEW Q, Goes1(P, s, Q), Len(Q) = Len(P) + 1,
         NEW p \in 1 .. Len(P), Sure(Q, Len(Q), p)
  PROVE  \E j \in 1 .. Len(s) : p = s[j].stmt
  <1> DEFINE n == Len(s)
  <1>0. Longer(P, Q) /\ n # 0 /\ Q[Len(Q)].in = s[n].stmt
    <2>1. Len(P) \in Nat
      BY DEF Placing, InOrder
    <2>2. Len(Q) # Len(P)
      BY <2>1
    <2>. QED BY <2>2 DEF Goes1
  <1>1. /\ Len(P) \in Nat /\ n \in Nat /\ n # 0 /\ InOrder(Q)
        /\ Q[Len(Q)].in = s[n].stmt
    BY <1>0 DEF Placing, Longer, InOrder
  <1>2. n \in 1 .. n /\ Len(Q) \in 1 .. Len(Q) /\ Len(P) + 1 # p
    BY <1>1
  <1>3. s[n].stmt \in 1 .. Len(P) /\ s[n].stmt \in 0 .. Len(P)
    BY <1>1, <1>2 DEF Placing
  <1>4. Lines(Q)[Len(Q)] = {Len(Q)} \cup Lines(Q)[s[n].stmt]
    BY <1>1, <1>2, LinesIs
  <1>5. Lines(Q)[s[n].stmt] = Lines(P)[s[n].stmt]
    BY <1>3, LinesAgain DEF Goes1
  <1>6. p \in Lines(P)[s[n].stmt]
    BY <1>2, <1>4, <1>5 DEF Sure
  <1>7. \A q \in Lines(P)[s[n].stmt] : \E j \in 1 .. n : q = s[j].stmt
    <2>1. n \in 1 .. Len(s) /\ Placing(P, s)
      BY <1>2
    <2> HIDE DEF n
    <2>. QED BY ONLY <2>1, StackLines
  <1> HIDE DEF n
  <1>8. \E j \in 1 .. n : p = s[j].stmt
    BY <1>6, <1>7
  <1>. QED BY <1>8 DEF n

\* A step of the generation: what dominates what stays, variables are added.
Passes(g, P, s, A, K, h, Q, B, L) ==
  /\ Placing(P, s) /\ Goes1(P, s, Q)
  /\ K \subseteq L /\ L \subseteq K \cup {Len(P) + 1}
  /\ \A v, d, j : Site(g, v, d, j) => Site(h, v, d, j)
  /\ \A b \in Nat : A[b] \subseteq B[b] /\ (b \in A[b] => B[b] = A[b])

Numbered(f) ==
  /\ HasBlocks(f) => f.base \in Nat
  /\ (f.op = "if" /\ f.part = "false") \/ Rescuing(f) => f.from \in Nat
  /\ Rescuing(f) => f.handler \in Nat
LEMMA JoinedNat ==
  ASSUME NEW f, Numbered(f)
  PROVE  Joined(f) \subseteq Nat /\ Resumed(f) \subseteq Nat /\ (f.op = "while" => f.base + 3 \in Nat)
         /\ (f.op = "begin" => {Pad(f), Ensure(f), Rethrow(f)} \subseteq Nat) /\ (Waiting(f) # {} => f.from \in Nat)
         /\ (Rescuing(f) => f.handler \in Nat /\ f.from \in Nat /\ Ensure(f) \in Nat)
  <1>1. HasBlocks(f) => f.base + 1 \in Nat /\ f.base + 2 \in Nat /\ f.base + 3 \in Nat
    BY DEF Numbered
  <1>2. Joined(f) # {} => HasBlocks(f)
    BY DEF Joined, HasBlocks
  <1>3. Joined(f) \subseteq {f.base + 1, f.base + 2, f.base + 3}
    BY DEF Joined
  <1>4. Joined(f) \subseteq Nat
    BY <1>1, <1>2, <1>3
  <1>5. Rescuing(f) => HasBlocks(f) /\ f.handler \in Nat /\ f.from \in Nat
    BY DEF Rescuing, HasBlocks, Numbered
  <1>6. Resumed(f) \subseteq Nat
    <2>1. CASE f.op = "while"
      BY <1>1, <2>1 DEF Resumed, HasBlocks
    <2>2. CASE f.op # "while"
      <3>1. f.op = "begin" /\ f.part = "clause" => f.handler \in Nat
        BY <1>5 DEF Rescuing
      <3>. QED BY <1>4, <2>2, <3>1 DEF Resumed
    <2>. QED BY <2>1, <2>2
  <1>7. f.op = "while" => f.base + 3 \in Nat
    BY <1>1 DEF HasBlocks
  <1>8. f.op = "begin" => {Pad(f), Ensure(f), Rethrow(f)} \subseteq Nat
    BY <1>1 DEF HasBlocks, Pad, Ensure, Rethrow
  <1>9. Waiting(f) # {} => f.from \in Nat
    BY DEF Waiting, Numbered
  <1>10. Rescuing(f) => Ensure(f) \in Nat
    BY <1>1, <1>5 DEF Ensure
  <1>. QED BY <1>4, <1>5, <1>6, <1>7, <1>8, <1>9, <1>10

LEMMA StableAgain ==
  ASSUME NEW g, NEW A, NEW K, NEW f, NEW X, NEW Y, Stable(g, A, K, f, X, Y),
         NEW P, NEW s, NEW h, NEW Q, NEW B, NEW L, Passes(g, P, s, A, K, h, Q, B, L),
         f.stmt \in 1 .. Len(P), f.op = "while" => B[f.base + 3] = {}, Numbered(f)
  PROVE  Stable(h, B, L, f, X, Y)
  <1>1. /\ \A v, d, j : Site(g, v, d, j) => Site(h, v, d, j)
        /\ \A b \in Nat : A[b] \subseteq B[b] /\ (b \in A[b] => B[b] = A[b])
        /\ K \subseteq L
    BY DEF Passes
  <1>2. f.stmt \in L => f.stmt \in K
    <2>1. Len(P) \in Nat
      BY DEF Passes, Placing, InOrder
    <2>2. f.stmt # Len(P) + 1
      BY <2>1
    <2>. QED BY <2>2 DEF Passes
  <1>3. \A v, D, E : D \subseteq E => (Available(g, v, D) => Available(h, v, E)) /\ (Ok(g, v, D) => Ok(h, v, E))
    BY <1>1 DEF Available, Ok
  <1>4. f.stmt \in L => f.op \in {"assign", "block"} /\ Available(h, Slot(f.stmt), X)
    BY <1>2, <1>3 DEF Stable
  <1>5. /\ \A v \in Kept(f)    : Ok(h, v, X)
        /\ \A v \in Waiting(f) : Ok(h, v, B[f.from])
    <2>1. Waiting(f) # {} => A[f.from] \subseteq B[f.from]
      BY <1>1, JoinedNat
    <2>2. \A v \in Waiting(f) : Ok(g, v, A[f.from])
      BY DEF Stable
    <2>3. \A v \in Kept(f)    : Ok(g, v, X)
      BY DEF Stable
    <2>. QED BY <1>3, <2>1, <2>2, <2>3
  <1>6. /\ \A b \in Joined(f)  : b \in B[b] /\ B[b] \subseteq X \cup {b}
        /\ \A b \in Resumed(f) : b \in B[b] /\ X \subseteq B[b]
    <2>1. Joined(f) \subseteq Nat /\ Resumed(f) \subseteq Nat
      BY JoinedNat
    <2>. QED BY <1>1, <2>1 DEF Stable
  <1>7. f.op = "assign" => \E v : f.args = <<v>> /\ (Const(v) \/ \E a \in L : v = Slot(a))
    BY <1>1 DEF Stable
  <1>8. f.op = "begin" /\ f.part = "ensure" =>
          Y \subseteq B[Pad(f)] /\ \A b \in {Ensure(f), Rethrow(f)} : b \in B[b] /\ B[b] \subseteq B[Pad(f)] \cup {b}
    <2> SUFFICES ASSUME f.op = "begin" /\ f.part = "ensure"
                 PROVE  Y \subseteq B[Pad(f)] /\ \A b \in {Ensure(f), Rethrow(f)} : b \in B[b] /\ B[b] \subseteq B[Pad(f)] \cup {b}
      OBVIOUS
    <2>1. Y \subseteq A[Pad(f)] /\ \A b \in {Ensure(f), Rethrow(f)} : b \in A[b] /\ A[b] \subseteq A[Pad(f)] \cup {b}
      BY DEF Stable
    <2>0. {Pad(f), Ensure(f), Rethrow(f)} \subseteq Nat
      BY JoinedNat
    <2>2. A[Pad(f)] \subseteq B[Pad(f)]
      BY <1>1, <2>0
    <2>3. \A b \in {Ensure(f), Rethrow(f)} : B[b] = A[b]
      BY <1>1, <2>0, <2>1
    <2>. QED BY <2>1, <2>2, <2>3
  <1>9. Rescuing(f) =>
          B[Ensure(f)] \subseteq B[f.handler] \cup {Ensure(f)} /\ \A b \in {f.from, f.handler} : b \in B[b] /\ Y \subseteq B[b]
    <2> SUFFICES ASSUME Rescuing(f)
                 PROVE  B[Ensure(f)] \subseteq B[f.handler] \cup {Ensure(f)} /\ \A b \in {f.from, f.handler} : b \in B[b] /\ Y \subseteq B[b]
      OBVIOUS
    <2>1. A[Ensure(f)] \subseteq A[f.handler] \cup {Ensure(f)} /\ \A b \in {f.from, f.handler} : b \in A[b] /\ Y \subseteq A[b]
      BY DEF Stable
    <2>2. Ensure(f) \in Joined(f)
      BY DEF Joined, Rescuing, Ensure
    <2>0. {f.from, f.handler, Ensure(f)} \subseteq Nat
      BY JoinedNat
    <2>3. B[Ensure(f)] = A[Ensure(f)]
      BY <1>1, <2>0, <2>2 DEF Stable
    <2>4. \A b \in {f.from, f.handler} : B[b] = A[b]
      BY <1>1, <2>0, <2>1
    <2>. QED BY <2>1, <2>3, <2>4
  <1>10. Y \subseteq X
    BY DEF Stable
  <1>. QED BY <1>4, <1>5, <1>6, <1>7, <1>8, <1>9, <1>10 DEF Stable

\* What is known of the parts that a function has generated stays known.
Had(g, P, s, A, K, h, Q, B, L, i, X, Z, x) ==
  /\ Passes(g, P, s, A, K, h, Q, B, L) /\ i \in 1 .. Len(s) /\ Known(g, A, P, K, s[i], X, Z, x)
  /\ x = IF i < Len(s) THEN s[i + 1].stmt ELSE 0
Learns(P, s, A, K, h, Q, B, L, i, X, Z, x, f, X2, Z2, x2) ==
  /\ f.stmt = s[i].stmt /\ NotYet(f) \subseteq NotYet(s[i]) /\ f.op = s[i].op
  /\ \A t \in (PartsOf(f.op) \ NotYet(s[i])) \cap Claimed(f) :
       t \in Claimed(s[i]) /\ Place(A, s[i], t, X, Z) \subseteq Place(B, f, t, X2, Z2)
  /\ x # 0 /\ x2 # x /\ P[x].part \in Claimed(f) => Claims(h, Q, L, x, Place(B, f, P[x].part, X2, Z2))
  /\ Len(Q) = Len(P) + 1 /\ i = Len(s) => Q[Len(Q)].part \in PartsOf(f.op) \ NotYet(f) /\ (x2 = Len(Q) \/ Len(Q) \notin L)

LEMMA KnownStill ==
  ASSUME NEW g, NEW P, NEW s, NEW A, NEW K, NEW h, NEW Q, NEW B, NEW L, NEW i, NEW X, NEW Z, NEW x,
         Had(g, P, s, A, K, h, Q, B, L, i, X, Z, x),
         NEW f, NEW X2, NEW Z2, NEW x2, Learns(P, s, A, K, h, Q, B, L, i, X, Z, x, f, X2, Z2, x2)
  PROVE  Known(h, B, Q, L, f, X2, Z2, x2)
  <1> DEFINE n == Len(P)
  <1>5. Passes(g, P, s, A, K, h, Q, B, L) /\ i \in 1 .. Len(s) /\ f.stmt = s[i].stmt
    BY DEF Had, Learns
  <1>6. Placing(P, s) /\ Goes1(P, s, Q) /\ Longer(P, Q) /\ InOrder(P) /\ InOrder(Q)
    BY <1>5 DEF Passes, Goes1, Longer
  <1>1. /\ n \in Nat /\ DOMAIN P = 1 .. n /\ DOMAIN Q = 1 .. Len(Q) /\ Len(s) \in Nat
        /\ \A p \in 1 .. n : Q[p] = P[p]
        /\ Len(Q) = n \/ Len(Q) = n + 1
        /\ K \subseteq L /\ L \subseteq K \cup {n + 1}
    BY <1>5, <1>6 DEF Passes, Placing, Goes1, Longer, InOrder
  <1>2. \A v, d, j : Site(g, v, d, j) => Site(h, v, d, j)
    BY <1>5 DEF Passes
  <1>0. n \in Nat /\ Len(s) \in Nat /\ (Len(Q) = n \/ Len(Q) = n + 1) /\ Len(Q) \in Nat
    <2>1. Len(Q) = n \/ Len(Q) = n + 1
      BY <1>1
    <2>2. n \in Nat /\ Len(s) \in Nat
      BY <1>1
    <2>. QED BY <2>1, <2>2
  <1> HIDE DEF n
  <1>3. ASSUME NEW p \in 1 .. n, P[p].in = s[i].stmt, p # x, NEW a \in 1 .. Len(Q), Sure(Q, a, p)
        PROVE  a \in 1 .. n /\ Sure(P, a, p)
    <2>1. CASE a \in 1 .. n
      <3>1. Sure(P, a, p)
        BY <1>3, <1>6, <2>1, SureAgain DEF n
      <3>. QED BY <2>1, <3>1
    <2>2. CASE a \notin 1 .. n
      <3>1. Len(Q) = n + 1 /\ a = Len(Q)
        BY <1>0, <2>2
      <3>2. PICK j \in 1 .. Len(s) : p = s[j].stmt
        BY <1>3, <1>6, <3>1, SureOfNew DEF n
      <3>3. j = i + 1
        BY <1>3, <1>5, <1>6, <3>2, StackKid
      <3>4. i < Len(s) /\ p = s[i + 1].stmt
        <4>1. j \in 1 .. Len(s) /\ i \in 1 .. Len(s) /\ Len(s) \in Nat
          BY <1>0, <1>5, <3>2
        <4>2. i < Len(s)
          BY ONLY <3>3, <4>1
        <4>. QED BY <3>2, <3>3, <4>2
      <3>5. x = s[i + 1].stmt
        BY <3>4 DEF Had
      <3>. QED BY <1>3, <3>4, <3>5
    <2>. QED BY <2>1, <2>2
  <1>4. ASSUME NEW p \in DOMAIN Q, Q[p].in = f.stmt
        PROVE  /\ Q[p].part \in PartsOf(f.op) \ NotYet(f)
               /\ p # x2 /\ Q[p].part \in Claimed(f) => Claims(h, Q, L, p, Place(B, f, Q[p].part, X2, Z2))
    <2>1. CASE p \in 1 .. n
      <3>1. Q[p] = P[p] /\ P[p].in = s[i].stmt
        BY <1>1, <1>4, <1>5, <2>1
      <3>2. P[p].part \in PartsOf(s[i].op) \ NotYet(s[i])
        BY <1>1, <2>1, <3>1 DEF Had, Known
      <3>6. PartsOf(s[i].op) = PartsOf(f.op) /\ P[p].part \in PartsOf(f.op) \ NotYet(f)
        BY <3>2 DEF Learns
      <3>3. ASSUME p # x2, P[p].part \in Claimed(f) PROVE Claims(h, Q, L, p, Place(B, f, P[p].part, X2, Z2))
        <4>1. CASE p = x
          <5>1. x # 0
            BY <2>1, <4>1
          <5>. QED BY <3>3, <4>1, <5>1 DEF Learns
        <4>2. CASE p # x
          <5>1. P[p].part \in Claimed(s[i]) /\ Place(A, s[i], P[p].part, X, Z) \subseteq Place(B, f, P[p].part, X2, Z2)
            BY <3>2, <3>3, <3>6 DEF Learns
          <5>2. Claims(g, P, K, p, Place(A, s[i], P[p].part, X, Z))
            BY <1>1, <2>1, <3>1, <4>2, <5>1 DEF Had, Known
          <5>3. ASSUME NEW a \in L \cap DOMAIN Q, Sure(Q, a, p) PROVE Available(h, Slot(a), Place(B, f, P[p].part, X2, Z2))
            <6>1. a \in 1 .. n /\ Sure(P, a, p)
              BY <1>1, <1>3, <2>1, <3>1, <4>2, <5>3
            <6>2. a \in K
              <7>1. a # n + 1
                BY <1>0, <6>1
              <7>. QED BY <1>1, <5>3, <7>1
            <6>3. Available(g, Slot(a), Place(A, s[i], P[p].part, X, Z))
              BY <1>1, <5>2, <6>1, <6>2 DEF Claims
            <6> DEFINE D == Place(A, s[i], P[p].part, X, Z)
                       E == Place(B, f, P[p].part, X2, Z2)
            <6>4. D \subseteq E /\ Available(g, Slot(a), D)
              BY <5>1, <6>3
            <6> HIDE DEF D, E
            <6>5. Available(h, Slot(a), E)
              BY <1>2, <6>4 DEF Available
            <6>. QED BY <6>5 DEF E
          <5>. QED BY <5>3 DEF Claims
        <4>. QED BY <4>1, <4>2
      <3>. QED BY <3>1, <3>3, <3>6
    <2>2. CASE p \notin 1 .. n
      <3>1. p = Len(Q) /\ Len(Q) = n + 1 /\ Len(s) # 0 /\ Q[Len(Q)].in = s[Len(s)].stmt
        <4>1. p \in 1 .. Len(Q)
          BY <1>1, <1>4
        <4>2. p = Len(Q) /\ Len(Q) = n + 1 /\ Len(Q) # Len(P)
          BY <1>0, <2>2, <4>1 DEF n
        <4>. QED BY <1>6, <4>2 DEF Goes1
      <3>2. i = Len(s)
        <4>1. s[i].stmt = s[Len(s)].stmt /\ Len(s) \in 1 .. Len(s) /\ i \in 1 .. Len(s)
          BY <1>0, <1>4, <1>5, <3>1
        <4>2. i # Len(s) => s[i].stmt < s[Len(s)].stmt
          BY <1>6, <4>1, StackLines
        <4>3. s[i].stmt \in 1 .. n
          BY <1>5, <1>6 DEF Placing, n
        <4>. QED BY <1>0, <4>1, <4>2, <4>3
      <3>3. Q[p].part \in PartsOf(f.op) \ NotYet(f) /\ (x2 = Len(Q) \/ Len(Q) \notin L)
        BY <3>1, <3>2 DEF Learns, n
      <3>4. ASSUME p # x2, NEW a \in L \cap DOMAIN Q, Sure(Q, a, p) PROVE FALSE
        <4>1. Lines(Q)[a] \subseteq 1 .. a /\ a \in 1 .. n + 1
          <5>1. a \in 1 .. Len(Q) /\ InOrder(Q)
            BY <1>1, <1>6
          <5>2. a \in 0 .. Len(Q) /\ a \in 1 .. n + 1
            BY <1>0, <3>1, <5>1
          <5>. QED BY <5>1, <5>2, LinesIs
        <4>2. p \in 1 .. a
          BY <3>4, <4>1 DEF Sure
        <4>3. a = n + 1
          BY <1>0, <3>1, <4>1, <4>2
        <4>. QED BY <3>1, <3>3, <3>4, <4>3
      <3>. QED BY <3>3, <3>4 DEF Claims
    <2>. QED BY <2>1, <2>2
  <1>. QED BY <1>4 DEF Known

LEMMA KnownAgain ==
  ASSUME NEW g, NEW P, NEW s, NEW A, NEW K, NEW h, NEW Q, NEW B, NEW L, NEW i, NEW X, NEW Z, NEW x,
         Had(g, P, s, A, K, h, Q, B, L, i, X, Z, x),
         NEW f, f.stmt = s[i].stmt, NEW X2, NEW Z2, NEW x2, NotYet(f) \subseteq NotYet(s[i]), f.op = s[i].op,
         \A t \in (PartsOf(f.op) \ NotYet(s[i])) \cap Claimed(f) :
           t \in Claimed(s[i]) /\ Place(A, s[i], t, X, Z) \subseteq Place(B, f, t, X2, Z2),
         x # 0 /\ x2 # x /\ P[x].part \in Claimed(f) => Claims(h, Q, L, x, Place(B, f, P[x].part, X2, Z2)),
         Len(Q) = Len(P) + 1 /\ i = Len(s) => Q[Len(Q)].part \in PartsOf(f.op) \ NotYet(f) /\ (x2 = Len(Q) \/ Len(Q) \notin L)
  PROVE  Known(h, B, Q, L, f, X2, Z2, x2)
BY KnownStill DEF Learns

-----------------------------------------------------------------------------
(* How the stack changes.                                                  *)

LEMMA Rising ==
  ASSUME NEW F, NEW n \in Nat, \A i \in 1 .. n : F[i - 1] \subseteq F[i]
  PROVE  \A i \in 0 .. n : F[i] \subseteq F[n]
  <1> DEFINE Bad == {d \in Nat : d <= n /\ ~(F[n - d] \subseteq F[n])}
  <1>1. Bad = {}
    <2> SUFFICES ASSUME Bad # {} PROVE FALSE
      OBVIOUS
    <2>1. Bad \in SUBSET Nat
      OBVIOUS
    <2>2. PICK d \in Bad : \A e \in Bad : d <= e
      <3> HIDE DEF Bad
      <3>. QED BY <2>1, SmallestExists
    <2>3. d \in Nat /\ d <= n /\ ~(F[n - d] \subseteq F[n])
      OBVIOUS
    <2>4. d # 0
      <3>1. n - 0 = n
        OBVIOUS
      <3>. QED BY <2>3, <3>1
    <2>5. d - 1 \in Nat /\ d - 1 <= n /\ ~(d <= d - 1) /\ n - (d - 1) \in 1 .. n /\ n - (d - 1) - 1 = n - d
      BY <2>3, <2>4
    <2>6. F[n - (d - 1)] \subseteq F[n]
      BY <2>2, <2>5
    <2>7. F[n - (d - 1) - 1] \subseteq F[n - (d - 1)]
      <3> DEFINE j == n - (d - 1)
      <3>1. j \in 1 .. n
        BY <2>5
      <3> HIDE DEF j
      <3>2. F[j - 1] \subseteq F[j]
        BY <3>1
      <3>. QED BY <3>2 DEF j
    <2>. QED BY <2>3, <2>5, <2>6, <2>7
  <1>2. ASSUME NEW i \in 0 .. n PROVE F[i] \subseteq F[n]
    <2> DEFINE d == n - i
    <2>1. d \in Nat /\ d <= n /\ n - d = i
      OBVIOUS
    <2> HIDE DEF d
    <2>2. d \notin Bad
      BY <1>1
    <2>. QED BY <2>1, <2>2
  <1>. QED BY <1>2

LEMMA FloorsUp ==
  ASSUME NEW g, NEW P, NEW s, NEW m, NEW v, NEW A, NEW F, NEW K, Carried(g, P, s, m, v, A, F, K), Placing(P, s)
  PROVE  /\ \A i \in 0 .. Len(s) : F[i] \subseteq F[Len(s)] /\ F[i] \subseteq A[g.cur]
         /\ \A i \in 1 .. Len(s) : F[i - 1] \subseteq F[i]
  <1> DEFINE n == Len(s)
  <1>1. n \in Nat /\ DOMAIN s = 1 .. n
    BY DEF Placing
  <1>2. \A i \in 1 .. n : F[i - 1] \subseteq F[i]
    BY <1>1 DEF Carried, Stable
  <1>3. \A i \in 0 .. n : F[i] \subseteq F[n]
    BY <1>1, <1>2, Rising
  <1>4. F[n] \subseteq A[g.cur]
    BY DEF Carried
  <1>. QED BY <1>2, <1>3, <1>4

\* The functions but for the last n - k go on as they were.
Stands0(s, B, k) == \A i \in 1 .. k : s[i].op = "while" => B[s[i].base + 3] = {}
Framed(s) == \A i \in DOMAIN s : s[i].op \in FrameOps /\ s[i].part \in PartsOf(s[i].op) /\ Numbered(s[i])

LEMMA PartsNow == ASSUME NEW f PROVE f.part \notin NotYet(f)
  <1>1. CASE f.part \in {"operand", "body", "main", "ensure"}
    BY <1>1 DEF NotYet
  <1>2. CASE f.part \notin {"operand", "body", "main", "ensure"}
    BY <1>2 DEF NotYet
  <1>. QED BY <1>1, <1>2

\* A function that has not changed, whose parts are in blocks that dominate the new ones.
LEMMA SameFrame ==
  ASSUME NEW g, NEW P, NEW s, NEW A, NEW K, NEW h, NEW Q, NEW B, NEW L,
         NEW i, NEW X, NEW Z, NEW x, Had(g, P, s, A, K, h, Q, B, L, i, X, Z, x), NEW W, Z \subseteq W, NEW x2,
         x # 0 /\ x2 # x => Claims(h, Q, L, x, W),
         Framed(s), x2 = Len(P) + 1 \/ Len(P) + 1 \notin L \/ i # Len(s)
  PROVE  Known(h, B, Q, L, s[i], X, W, x2)
  <1> DEFINE f == s[i]
  <1>0. Passes(g, P, s, A, K, h, Q, B, L) /\ i \in 1 .. Len(s) /\ x = IF i < Len(s) THEN s[i + 1].stmt ELSE 0
    BY DEF Had
  <1>1. \A t : Place(A, f, t, X, Z) \subseteq Place(B, f, t, X, W)
    <2>1. Rescuing(f) => A[f.from] \subseteq B[f.from]
      <3>1. Numbered(f)
        BY <1>0 DEF Framed, Passes, Placing
      <3>. QED BY <1>0, <3>1 DEF Passes, Numbered
    <2>. QED BY <2>1 DEF Place
  <1>2. /\ Len(s) \in Nat /\ DOMAIN s = 1 .. Len(s) /\ Len(P) \in Nat
    BY <1>0 DEF Passes, Placing, InOrder
  <1>3. f.part \in PartsOf(f.op) \ NotYet(f)
    <2>1. f.part \in PartsOf(f.op)
      BY <1>0, <1>2 DEF Framed
    <2> HIDE DEF f
    <2>. QED BY <2>1, PartsNow
  <1>4. ASSUME x # 0, x2 # x PROVE Claims(h, Q, L, x, Place(B, f, P[x].part, X, W))
    <2>1. i \in 1 .. Len(s) - 1 /\ x = s[i + 1].stmt
      <3>1. i < Len(s) /\ x = s[i + 1].stmt
        BY <1>0, <1>4
      <3>2. i \in Nat /\ i >= 1
        BY <1>0
      <3>3. Len(s) \in Nat
        BY <1>2
      <3>. QED BY <3>1, <3>2, <3>3
    <2>2. P[x].part = f.part
      BY <1>0, <2>1 DEF Passes, Placing
    <2>3. Place(B, f, f.part, X, W) = W
      BY DEF Place, Rescuing
    <2>. QED BY <1>4, <2>2, <2>3
  <1>5. ASSUME Len(Q) = Len(P) + 1, i = Len(s)
        PROVE  Q[Len(Q)].part \in PartsOf(f.op) \ NotYet(f) /\ (x2 = Len(Q) \/ Len(Q) \notin L)
    <2>1. Len(Q) # Len(P)
      BY <1>2, <1>5
    <2>2. Q[Len(Q)].part = s[i].part
      BY <1>0, <1>5, <2>1 DEF Passes, Goes1
    <2>. QED BY <1>3, <1>5, <2>2
  <1>6. f.stmt = s[i].stmt /\ f.op = s[i].op /\ NotYet(f) \subseteq NotYet(s[i])
    OBVIOUS
  <1>7. \A t \in (PartsOf(f.op) \ NotYet(s[i])) \cap Claimed(f) :
           t \in Claimed(s[i]) /\ Place(A, s[i], t, X, Z) \subseteq Place(B, f, t, X, W)
    BY <1>1
  <1>8. x # 0 /\ x2 # x /\ P[x].part \in Claimed(f) => Claims(h, Q, L, x, Place(B, f, P[x].part, X, W))
    BY <1>4
  <1>9. Len(Q) = Len(P) + 1 /\ i = Len(s) => Q[Len(Q)].part \in PartsOf(f.op) \ NotYet(f) /\ (x2 = Len(Q) \/ Len(Q) \notin L)
    BY <1>5
  <1>10. Known(h, B, Q, L, f, X, W, x2)
    <2> HIDE DEF f
    <2>. QED BY <1>6, <1>7, <1>8, <1>9, KnownAgain
  <1>. QED BY <1>10

LEMMA InsideKept ==
  ASSUME NEW g, NEW P, NEW s, NEW m, NEW v, NEW A, NEW F, NEW K, Carried(g, P, s, m, v, A, F, K),
         NEW h, NEW Q, NEW B, NEW L, Passes(g, P, s, A, K, h, Q, B, L), Framed(s)
  PROVE  /\ \A i \in 1 .. Len(s) : Stands0(s, B, i) => Stable(h, B, L, s[i], F[i], F[i - 1])
         /\ \A i \in 1 .. Len(s) - 1 : Known(h, B, Q, L, s[i], F[i], F[i], s[i + 1].stmt)
  <1>1. Len(s) \in Nat /\ DOMAIN s = 1 .. Len(s) /\ \A i \in 1 .. Len(s) : s[i].stmt \in 1 .. Len(P)
    BY DEF Passes, Placing
  <1>0. Len(s) \in Nat
    BY DEF Passes, Placing
  <1>2. ASSUME NEW i \in 1 .. Len(s), Stands0(s, B, i) PROVE Stable(h, B, L, s[i], F[i], F[i - 1])
    <2>1. Stable(g, A, K, s[i], F[i], F[i - 1])
      BY <1>1 DEF Carried
    <2>2. i \in 1 .. i
      OBVIOUS
    <2>3. s[i].op = "while" => B[s[i].base + 3] = {}
      BY <1>2, <2>2 DEF Stands0
    <2>4. s[i].stmt \in 1 .. Len(P) /\ Numbered(s[i])
      BY <1>1 DEF Framed
    <2> DEFINE f == s[i]
               X == F[i]
               Y == F[i - 1]
    <2> HIDE DEF f, X, Y
    <2>5. Stable(h, B, L, f, X, Y)
      BY <2>1, <2>3, <2>4, StableAgain DEF f, X, Y
    <2>. QED BY <2>5 DEF f, X, Y
  <1>3. ASSUME NEW i \in 1 .. Len(s) - 1 PROVE Known(h, B, Q, L, s[i], F[i], F[i], s[i + 1].stmt)
    <2>1. i \in 1 .. Len(s) /\ i < Len(s) /\ i # Len(s)
      BY <1>0
    <2>2. Known(g, A, P, K, s[i], F[i], F[i], s[i + 1].stmt)
      BY <1>1, <2>1 DEF Carried
    <2> DEFINE x == s[i + 1].stmt
               X == F[i]
    <2>3. x = IF i < Len(s) THEN s[i + 1].stmt ELSE 0
      BY <2>1
    <2>4. Known(g, A, P, K, s[i], X, X, x)
      BY <2>2
    <2> HIDE DEF x, X
    <2>6. Had(g, P, s, A, K, h, Q, B, L, i, X, X, x)
      BY <2>1, <2>3, <2>4 DEF Had
    <2>5. Known(h, B, Q, L, s[i], X, X, x)
      BY <2>1, <2>6, SameFrame
    <2>. QED BY <2>5 DEF x, X
  <1>. QED BY <1>2, <1>3

\* A statement without parts.
LEMMA CarriedStay ==
  ASSUME NEW g, NEW P, NEW s, NEW m, NEW v, NEW A, NEW F, NEW K, Carried(g, P, s, m, v, A, F, K), m # "value",
         NEW h, NEW Q, NEW B, NEW L, Passes(g, P, s, A, K, h, Q, B, L), Framed(s), Stands0(s, B, Len(s)),
         Len(P) + 1 \notin L, h.cur \in B[h.cur], A[g.cur] \subseteq B[h.cur], NEW w, Ok(h, w, B[h.cur])
  PROVE  Carried(h, Q, s, "value", w, B, F, L)
  <1>1. Len(s) \in Nat /\ DOMAIN s = 1 .. Len(s) /\ Placing(P, s)
    BY DEF Passes, Placing
  <1>2. F[0] = {} /\ F[Len(s)] \subseteq B[h.cur]
    BY DEF Carried
  <1>3. ASSUME NEW i \in DOMAIN s
        PROVE  /\ Stable(h, B, L, s[i], F[i], F[i - 1])
               /\ IF i < Len(s) THEN Known(h, B, Q, L, s[i], F[i], F[i], s[i + 1].stmt)
                  ELSE Known(h, B, Q, L, s[i], F[i], B[h.cur], 0)
    <2>1. i \in 1 .. Len(s) /\ Stands0(s, B, i)
      <3>1. 1 .. i \subseteq 1 .. Len(s)
        BY <1>1
      <3>. QED BY <1>1, <3>1 DEF Stands0
    <2>2. Stable(h, B, L, s[i], F[i], F[i - 1])
      BY <2>1, InsideKept
    <2>3. i < Len(s) => Known(h, B, Q, L, s[i], F[i], F[i], s[i + 1].stmt)
      <3>1. i < Len(s) => i \in 1 .. Len(s) - 1
        BY <1>1, <2>1
      <3>. QED BY <3>1, InsideKept
    <2>4. ASSUME ~(i < Len(s)) PROVE Known(h, B, Q, L, s[i], F[i], B[h.cur], 0)
      <3> DEFINE X == F[i]
                 W == B[h.cur]
                 x == 0
      <3>1. i = Len(s)
        BY <1>1, <2>1, <2>4
      <3>2. Known(g, A, P, K, s[i], X, X, x) /\ X \subseteq W
        BY <1>2, <2>4, <3>1 DEF Carried
      <3>3. x = IF i < Len(s) THEN s[i + 1].stmt ELSE 0
        BY <2>4
      <3>4. ~(x # 0)
        OBVIOUS
      <3> HIDE DEF X, W, x
      <3>6. Had(g, P, s, A, K, h, Q, B, L, i, X, X, x)
        BY <2>1, <3>2, <3>3 DEF Had
      <3>5. Known(h, B, Q, L, s[i], X, W, x)
        BY <3>2, <3>4, <3>6, SameFrame
      <3>. QED BY <3>5 DEF X, W, x
    <2>. QED BY <2>2, <2>3, <2>4
  <1>. QED BY <1>2, <1>3 DEF Carried

\* A function is called for a statement.
Pushing(g, P, s, m, v, A, F, K, h, Q, B, L, t, f, X, G, k, w) ==
  /\ Carried(g, P, s, m, v, A, F, K) /\ m # "value"
  /\ Passes(g, P, s, A, K, h, Q, B, L) /\ Framed(s) /\ Stands0(s, B, Len(s)) /\ Len(Q) = Len(P) + 1
  /\ DOMAIN t = 1 .. Len(t) /\ Len(t) = Len(s) + 1 /\ t[Len(t)] = f /\ f.stmt = Len(Q) /\ \A i \in 1 .. Len(s) : t[i] = s[i]
  /\ F[Len(s)] \subseteq X /\ X \subseteq B[h.cur] /\ Stable(h, B, L, f, X, F[Len(s)])
  /\ (\A i \in 0 .. Len(s) : G[i] = F[i]) /\ G[Len(t)] = X
  /\ h.cur \in B[h.cur] /\ (k = "value" => Ok(h, w, B[h.cur])) /\ Len(Q) + 1 \notin L
LEMMA CarriedPush ==
  ASSUME NEW g, NEW P, NEW s, NEW m, NEW v, NEW A, NEW F, NEW K, NEW h, NEW Q, NEW B, NEW L, NEW t, NEW f, NEW X, NEW G, NEW k, NEW w, Pushing(g, P, s, m, v, A, F, K, h, Q, B, L, t, f, X, G, k, w)
  PROVE  Carried(h, Q, t, k, w, B, G, L)
  <1>0. /\ Carried(g, P, s, m, v, A, F, K) /\ m # "value"
        /\ Passes(g, P, s, A, K, h, Q, B, L) /\ Framed(s) /\ Stands0(s, B, Len(s)) /\ Len(Q) = Len(P) + 1
        /\ DOMAIN t = 1 .. Len(t) /\ Len(t) = Len(s) + 1 /\ t[Len(t)] = f /\ f.stmt = Len(Q) /\ \A i \in 1 .. Len(s) : t[i] = s[i]
        /\ F[Len(s)] \subseteq X /\ X \subseteq B[h.cur] /\ Stable(h, B, L, f, X, F[Len(s)])
        /\ (\A i \in 0 .. Len(s) : G[i] = F[i]) /\ G[Len(t)] = X
        /\ h.cur \in B[h.cur] /\ (k = "value" => Ok(h, w, B[h.cur])) /\ Len(Q) + 1 \notin L
    BY DEF Pushing
  <1> USE <1>0
  <1> DEFINE n == Len(s)
  <1>1. n \in Nat /\ DOMAIN s = 1 .. n /\ Len(t) = n + 1 /\ Placing(P, s) /\ Len(P) \in Nat /\ Len(Q) \in Nat /\ InOrder(Q)
    <2>1. Len(P) \in Nat /\ Len(Q) \in Nat /\ InOrder(Q)
      BY DEF Passes, Goes1, Longer, InOrder
    <2>. QED BY <2>1 DEF Passes, Placing
  <1>2. G[0] = {} /\ G[Len(t)] \subseteq B[h.cur]
    <2>1. 0 \in 0 .. n
      BY <1>1
    <2>. QED BY <2>1 DEF Carried
  <1>3. ASSUME NEW i \in 1 .. n
        PROVE  Stable(h, B, L, t[i], G[i], G[i - 1]) /\ Known(h, B, Q, L, t[i], G[i], G[i], t[i + 1].stmt)
    <2>1. Stands0(s, B, i)
      <3>1. 1 .. i \subseteq 1 .. n
        BY <1>1
      <3>. QED BY <3>1 DEF Stands0
    <2>2. Stable(h, B, L, s[i], F[i], F[i - 1])
      BY <2>1, InsideKept
    <2>3. t[i] = s[i] /\ G[i] = F[i] /\ G[i - 1] = F[i - 1]
      <3>1. i \in 0 .. n /\ i - 1 \in 0 .. n
        BY <1>1
      <3>. QED BY <3>1
    <2>4. i # n => Known(h, B, Q, L, s[i], F[i], F[i], t[i + 1].stmt)
      <3>1. i # n => i \in 1 .. n - 1 /\ i + 1 \in 1 .. n
        BY <1>1
      <3>2. i # n => Known(h, B, Q, L, s[i], F[i], F[i], s[i + 1].stmt)
        BY <3>1, InsideKept
      <3>. QED BY <3>1, <3>2
    <2>5. ASSUME i = n PROVE Known(h, B, Q, L, s[i], F[i], F[i], t[i + 1].stmt)
      <3> DEFINE Z  == F[i]
                 x  == 0
                 x2 == t[i + 1].stmt
      <3>1. x2 = Len(P) + 1
        BY <1>1, <2>5
      <3>2. ~(i < n)
        BY <1>1, <2>5
      <3>3. Known(g, A, P, K, s[i], Z, Z, x)
        BY <1>1, <2>5, <3>2 DEF Carried
      <3>4. x = (IF i < Len(s) THEN s[i + 1].stmt ELSE 0) /\ ~(x # 0)
        BY <3>2
      <3> HIDE DEF Z, x, x2, n
      <3>5. i \in 1 .. Len(s)
        BY DEF n
      <3>7. Had(g, P, s, A, K, h, Q, B, L, i, Z, Z, x)
        BY <3>3, <3>4, <3>5 DEF Had
      <3>6. Known(h, B, Q, L, s[i], Z, Z, x2)
        BY <3>1, <3>4, <3>7, SameFrame
      <3>. QED BY <3>6 DEF Z, x2
    <2>. QED BY <2>2, <2>3, <2>4, <2>5
  <1>4. \A p \in DOMAIN Q : Q[p].in # f.stmt
    BY <1>1 DEF InOrder
  <1>5. \A Z : Known(h, B, Q, L, f, X, Z, 0)
    BY <1>4 DEF Known
  <1>6. G[n + 1] = X /\ G[n + 1 - 1] = F[n] /\ t[n + 1] = f
    <2>1. n + 1 - 1 = n /\ n \in 0 .. n
      BY <1>1
    <2>. QED BY <1>1, <2>1
  <1>7. ASSUME NEW i \in DOMAIN t
        PROVE  /\ Stable(h, B, L, t[i], G[i], G[i - 1])
               /\ IF i < Len(t) THEN Known(h, B, Q, L, t[i], G[i], G[i], t[i + 1].stmt)
                  ELSE Known(h, B, Q, L, t[i], G[i], IF k = "value" THEN B[h.cur] ELSE G[i], 0)
    <2>1. (i \in 1 .. n /\ i < Len(t)) \/ (i = n + 1 /\ ~(i < Len(t)))
      BY <1>1
    <2>2. CASE i = n + 1
      <3>1. Stable(h, B, L, t[i], G[i], G[i - 1])
        BY <1>6, <2>2
      <3>2. Known(h, B, Q, L, t[i], G[i], IF k = "value" THEN B[h.cur] ELSE G[i], 0)
        BY <1>5, <1>6, <2>2
      <3>3. ~(i < Len(t))
        BY <1>1, <2>2
      <3>. QED BY <3>1, <3>2, <3>3
    <2>. QED BY <1>3, <2>1, <2>2
  <1>. QED BY <1>2, <1>7 DEF Carried

\* A function returns.
Popping(g, P, s, v, A, F, K, h, Q, B, L, f, t, w) ==
  /\ Carried(g, P, s, "value", v, A, F, K)
  /\ Passes(g, P, s, A, K, h, Q, B, L) /\ Framed(s) /\ Q = P /\ L = K /\ Len(P) + 1 \notin L /\ Len(s) # 0 /\ f = s[Len(s)]
  /\ DOMAIN t = 1 .. Len(t) /\ Len(t) = Len(s) - 1 /\ (\A i \in 1 .. Len(t) : t[i] = s[i]) /\ Stands0(s, B, Len(t))
  /\ h.cur \in B[h.cur] /\ Ok(h, w, B[h.cur]) /\ F[Len(t)] \subseteq B[h.cur]
  /\ f.stmt \in K => Available(h, Slot(f.stmt), B[h.cur])
  /\ \A part \in AlwaysDone \cap (PartsOf(f.op) \ NotYet(f)) : Place(A, f, part, F[Len(s)], A[g.cur]) \subseteq B[h.cur]
LEMMA CarriedPop ==
  ASSUME NEW g, NEW P, NEW s, NEW v, NEW A, NEW F, NEW K, NEW h, NEW Q, NEW B, NEW L, NEW f, NEW t, NEW w, Popping(g, P, s, v, A, F, K, h, Q, B, L, f, t, w)
  PROVE  Carried(h, Q, t, "value", w, B, F, L)
  <1>0. /\ Carried(g, P, s, "value", v, A, F, K)
        /\ Passes(g, P, s, A, K, h, Q, B, L) /\ Framed(s) /\ Q = P /\ L = K /\ Len(P) + 1 \notin L /\ Len(s) # 0 /\ f = s[Len(s)]
        /\ DOMAIN t = 1 .. Len(t) /\ Len(t) = Len(s) - 1 /\ (\A i \in 1 .. Len(t) : t[i] = s[i]) /\ Stands0(s, B, Len(t))
        /\ h.cur \in B[h.cur] /\ Ok(h, w, B[h.cur]) /\ F[Len(t)] \subseteq B[h.cur]
        /\ f.stmt \in K => Available(h, Slot(f.stmt), B[h.cur])
        /\ \A part \in AlwaysDone \cap (PartsOf(f.op) \ NotYet(f)) : Place(A, f, part, F[Len(s)], A[g.cur]) \subseteq B[h.cur]
    BY DEF Popping
  <1> USE <1>0
  <1> DEFINE n == Len(s)
             W == B[h.cur]
             x == f.stmt
  <1>1. n \in Nat /\ n # 0 /\ DOMAIN s = 1 .. n /\ Placing(P, s) /\ InOrder(P) /\ n \in 1 .. n
    <2>1. n \in Nat /\ n # 0
      BY DEF Passes, Placing
    <2>2. n \in 1 .. n
      BY <2>1
    <2>. QED BY <2>1, <2>2 DEF Passes, Placing
  <1>2. x \in 1 .. Len(P) /\ DOMAIN P = 1 .. Len(P) /\ Len(P) \in Nat
    BY <1>1 DEF Placing, InOrder
  <1>3. \A y, d, j : Site(g, y, d, j) => Site(h, y, d, j)
    BY DEF Passes
  <1>4. Known(g, A, P, K, f, F[n], A[g.cur], 0)
    <2>1. ~(n < n)
      BY <1>1
    <2>. QED BY <1>1, <2>1 DEF Carried
  <1>5. ASSUME NEW a \in K \cap DOMAIN P, Sure(P, a, x) PROVE Available(h, Slot(a), W)
    <2>1. CASE a = x
      BY <1>5, <2>1
    <2>2. CASE a # x
      <3>1. PICK p \in 1 .. Len(P) : P[p].in = x /\ P[p].part \in AlwaysDone /\ Sure(P, a, p)
        BY <1>1, <1>2, <1>5, <2>2, SureSplit
      <3>2. P[p].part \in PartsOf(f.op) \ NotYet(f) /\ P[p].part \in Claimed(f) /\ p # 0
        BY <1>2, <1>4, <3>1 DEF Known, Claimed
      <3> DEFINE D == Place(A, f, P[p].part, F[n], A[g.cur])
      <3>3. Claims(g, P, K, p, D)
        BY <1>2, <1>4, <3>1, <3>2 DEF Known
      <3>4. D \subseteq W
        BY <3>1, <3>2
      <3> HIDE DEF D
      <3>5. Available(g, Slot(a), D)
        BY <1>5, <3>1, <3>3 DEF Claims
      <3>. QED BY <1>3, <3>4, <3>5 DEF Available
    <2>. QED BY <2>1, <2>2
  <1>6. Claims(h, Q, L, x, W)
    BY <1>5 DEF Claims
  <1>7. F[0] = {} /\ F[Len(t)] \subseteq W
    BY DEF Carried
  <1>8. ASSUME NEW i \in DOMAIN t
        PROVE  /\ Stable(h, B, L, t[i], F[i], F[i - 1])
               /\ IF i < Len(t) THEN Known(h, B, Q, L, t[i], F[i], F[i], t[i + 1].stmt)
                  ELSE Known(h, B, Q, L, t[i], F[i], W, 0)
    <2>1. i \in 1 .. n /\ t[i] = s[i] /\ i \in 1 .. n - 1 /\ Len(t) = n - 1
      BY <1>1
    <2>2. Stands0(s, B, i)
      <3>1. 1 .. i \subseteq 1 .. Len(t)
        BY <1>1
      <3>. QED BY <3>1 DEF Stands0
    <2>3. Stable(h, B, L, s[i], F[i], F[i - 1]) /\ Known(h, B, Q, L, s[i], F[i], F[i], s[i + 1].stmt)
      BY <2>1, <2>2, InsideKept
    <2>4. i < Len(t) => t[i + 1].stmt = s[i + 1].stmt
      <3>1. i < Len(t) => i + 1 \in 1 .. Len(t)
        BY <1>1, <2>1
      <3>. QED BY <3>1
    <2>5. ASSUME ~(i < Len(t)) PROVE Known(h, B, Q, L, s[i], F[i], W, 0)
      <3>1. i + 1 = n /\ i < n /\ i # n
        BY <1>1, <2>1, <2>5
      <3> DEFINE X  == F[i]
                 x2 == 0
      <3>2. X \subseteq W
        <4>1. i = Len(t)
          BY <1>1, <2>1, <3>1
        <4>. QED BY <4>1
      <3>3. Known(g, A, P, K, s[i], X, X, x)
        <4>1. Known(g, A, P, K, s[i], F[i], F[i], s[i + 1].stmt)
          BY <1>1, <2>1, <3>1 DEF Carried
        <4>. QED BY <3>1, <4>1
      <3>4. x = IF i < Len(s) THEN s[i + 1].stmt ELSE 0
        BY <3>1
      <3> HIDE DEF X, W, x, x2, n
      <3>5. Had(g, P, s, A, K, h, Q, B, L, i, X, X, x)
        BY <2>1, <3>3, <3>4 DEF Had, n
      <3>6. Known(h, B, Q, L, s[i], X, W, x2)
        BY <1>6, <3>2, <3>5, SameFrame
      <3>. QED BY <3>6 DEF X, x2
    <2>. QED BY <2>1, <2>3, <2>4, <2>5
  <1>. QED BY <1>7, <1>8 DEF Carried

\* A function goes on to its next part.
Moving(g, P, s, v, A, F, K, h, Q, B, L, f, t, u, X, G, k, w) ==
  /\ Carried(g, P, s, "value", v, A, F, K)
  /\ Passes(g, P, s, A, K, h, Q, B, L) /\ Framed(s) /\ Q = P /\ Len(s) # 0 /\ f = s[Len(s)]
  /\ DOMAIN t = 1 .. Len(t) /\ Len(t) = Len(s) /\ (\A i \in 1 .. Len(s) - 1 : t[i] = s[i]) /\ t[Len(s)] = u
  /\ Stands0(s, B, Len(s) - 1) /\ u.stmt = f.stmt /\ u.op = f.op /\ NotYet(u) \subseteq NotYet(f)
  /\ F[Len(s) - 1] \subseteq X /\ X \subseteq B[h.cur] /\ Stable(h, B, L, u, X, F[Len(s) - 1])
  /\ (\A i \in 0 .. Len(s) - 1 : G[i] = F[i]) /\ G[Len(s)] = X
  /\ h.cur \in B[h.cur] /\ (k = "value" => Ok(h, w, B[h.cur]))
  /\ k = "body" /\ Len(P) + 1 \in L => Available(h, Slot(Len(P) + 1), B[h.cur])
  /\ \A part \in (PartsOf(u.op) \ NotYet(f)) \cap Claimed(u) :
             part \in Claimed(f) /\ Place(A, f, part, F[Len(s)], A[g.cur]) \subseteq Place(B, u, part, X, IF k = "value" THEN B[h.cur] ELSE X)
LEMMA CarriedMove ==
  ASSUME NEW g, NEW P, NEW s, NEW v, NEW A, NEW F, NEW K, NEW h, NEW Q, NEW B, NEW L, NEW f, NEW t, NEW u, NEW X, NEW G, NEW k, NEW w, Moving(g, P, s, v, A, F, K, h, Q, B, L, f, t, u, X, G, k, w)
  PROVE  Carried(h, Q, t, k, w, B, G, L)
  <1>0. /\ Carried(g, P, s, "value", v, A, F, K)
        /\ Passes(g, P, s, A, K, h, Q, B, L) /\ Framed(s) /\ Q = P /\ Len(s) # 0 /\ f = s[Len(s)]
        /\ DOMAIN t = 1 .. Len(t) /\ Len(t) = Len(s) /\ (\A i \in 1 .. Len(s) - 1 : t[i] = s[i]) /\ t[Len(s)] = u
        /\ Stands0(s, B, Len(s) - 1) /\ u.stmt = f.stmt /\ u.op = f.op /\ NotYet(u) \subseteq NotYet(f)
        /\ F[Len(s) - 1] \subseteq X /\ X \subseteq B[h.cur] /\ Stable(h, B, L, u, X, F[Len(s) - 1])
        /\ (\A i \in 0 .. Len(s) - 1 : G[i] = F[i]) /\ G[Len(s)] = X
        /\ h.cur \in B[h.cur] /\ (k = "value" => Ok(h, w, B[h.cur]))
        /\ k = "body" /\ Len(P) + 1 \in L => Available(h, Slot(Len(P) + 1), B[h.cur])
        /\ \A part \in (PartsOf(u.op) \ NotYet(f)) \cap Claimed(u) :
             part \in Claimed(f) /\ Place(A, f, part, F[Len(s)], A[g.cur]) \subseteq Place(B, u, part, X, IF k = "value" THEN B[h.cur] ELSE X)
    BY DEF Moving
  <1> USE <1>0
  <1> DEFINE n == Len(s)
             W == IF k = "value" THEN B[h.cur] ELSE X
             Z == A[g.cur]
             Y == F[n]
             x == 0
  <1>1. n \in Nat /\ n # 0 /\ DOMAIN s = 1 .. n /\ Placing(P, s) /\ InOrder(P) /\ n \in 1 .. n /\ Len(P) \in Nat
    <2>1. n \in Nat /\ n # 0 /\ Len(P) \in Nat
      BY DEF Passes, Placing, InOrder
    <2>2. n \in 1 .. n
      BY <2>1
    <2>. QED BY <2>1, <2>2 DEF Passes, Placing
  <1>2. Known(g, A, P, K, s[n], Y, Z, x) /\ x = IF n < n THEN s[n + 1].stmt ELSE 0
    <2>1. ~(n < n)
      BY <1>1
    <2>. QED BY <1>1, <2>1 DEF Carried
  <1>3. Known(h, B, Q, L, u, X, W, x)
    <2>1. ~(x # 0) /\ u.stmt = s[n].stmt /\ u.op = s[n].op /\ NotYet(u) \subseteq NotYet(s[n])
      OBVIOUS
    <2>2. \A part \in (PartsOf(u.op) \ NotYet(s[n])) \cap Claimed(u) :
             part \in Claimed(s[n]) /\ Place(A, s[n], part, Y, Z) \subseteq Place(B, u, part, X, W)
      OBVIOUS
    <2>3. Len(Q) # Len(P) + 1
      BY <1>1
    <2>4. Had(g, P, s, A, K, h, Q, B, L, n, Y, Z, x)
      BY <1>1, <1>2 DEF Had
    <2> HIDE DEF n, W, Z, Y, x
    <2>. QED BY <2>1, <2>2, <2>3, <2>4, KnownAgain
  <1>4. G[0] = {} /\ G[Len(t)] \subseteq B[h.cur]
    <2>1. 0 \in 0 .. n - 1
      BY <1>1
    <2>. QED BY <2>1 DEF Carried
  <1>5. ASSUME NEW i \in 1 .. n - 1
        PROVE  Stable(h, B, L, t[i], G[i], G[i - 1]) /\ Known(h, B, Q, L, t[i], G[i], G[i], t[i + 1].stmt)
    <2>1. i \in 1 .. n /\ i \in 0 .. n - 1 /\ i - 1 \in 0 .. n - 1 /\ i + 1 \in 1 .. n /\ (i + 1 # n => i + 1 \in 1 .. n - 1)
      BY <1>1
    <2>2. Stands0(s, B, i)
      <3>1. 1 .. i \subseteq 1 .. n - 1
        BY <1>1
      <3>. QED BY <3>1 DEF Stands0
    <2>3. Stable(h, B, L, s[i], F[i], F[i - 1]) /\ Known(h, B, Q, L, s[i], F[i], F[i], s[i + 1].stmt)
      BY <2>1, <2>2, InsideKept
    <2>4. t[i + 1].stmt = s[i + 1].stmt
      BY <2>1
    <2>. QED BY <2>1, <2>3, <2>4
  <1>6. n - 1 \in 0 .. n - 1
    BY <1>1
  <1>7. ASSUME NEW i \in DOMAIN t
        PROVE  /\ Stable(h, B, L, t[i], G[i], G[i - 1])
               /\ IF i < Len(t) THEN Known(h, B, Q, L, t[i], G[i], G[i], t[i + 1].stmt)
                  ELSE Known(h, B, Q, L, t[i], G[i], IF k = "value" THEN B[h.cur] ELSE G[i], 0)
    <2>1. (i \in 1 .. n - 1 /\ i < Len(t)) \/ (i = n /\ ~(i < Len(t)))
      BY <1>1
    <2>2. CASE i = n
      <3>1. Stable(h, B, L, t[i], G[i], G[i - 1])
        BY <1>6, <2>2
      <3>2. Known(h, B, Q, L, t[i], G[i], IF k = "value" THEN B[h.cur] ELSE G[i], 0)
        BY <1>3, <2>2
      <3>3. ~(i < Len(t))
        BY <1>1, <2>2
      <3>. QED BY <3>1, <3>2, <3>3
    <2>. QED BY <1>5, <2>1, <2>2
  <1>. QED BY <1>4, <1>7 DEF Carried

-----------------------------------------------------------------------------
(* A variable that is in its scope has been allocated.                     *)

Choosing(s) == \A i \in DOMAIN s : s[i].op = "begin" /\ s[i].part \in {"class", "clause"} => s[i].rescues # <<>>
LEMMA AllocatedBefore ==
  ASSUME NEW g, NEW P, NEW s, NEW m, NEW v, NEW A, NEW F, NEW K, Carried(g, P, s, m, v, A, F, K),
         Placing(P, s), Framed(s), Choosing(s), NEW a \in K \cap DOMAIN P, NEW j \in 1 .. Len(s)
  PROVE  /\ a = s[j].stmt => Available(g, Slot(a), A[g.cur])
         /\ \A p \in 1 .. Len(P) :
              P[p].in = s[j].stmt /\ <<P[p].part, s[j].part>> \in Then /\ Sure(P, a, p) /\ (j < Len(s) => p # s[j + 1].stmt)
              => Available(g, Slot(a), A[g.cur])
  <1> DEFINE f == s[j]
             X == F[j]
             W == A[g.cur]
  <1>1. j \in DOMAIN s /\ DOMAIN P = 1 .. Len(P) /\ Len(P) \in Nat
    BY DEF Placing, InOrder
  <1>2. X \subseteq W
    <2>1. j \in 0 .. Len(s)
      BY DEF Placing
    <2>. QED BY <2>1, FloorsUp
  <1>3. f.stmt \in K => Available(g, Slot(f.stmt), X)
    BY <1>1 DEF Carried, Stable
  <1>4. a = f.stmt => Available(g, Slot(a), W)
    BY <1>2, <1>3 DEF Available
  <1>5. ASSUME NEW p \in 1 .. Len(P), P[p].in = f.stmt, <<P[p].part, f.part>> \in Then, Sure(P, a, p), j < Len(s) => p # s[j + 1].stmt
        PROVE  Available(g, Slot(a), W)
    <2>1. \E Z, x : Known(g, A, P, K, f, X, Z, x) /\ Z \subseteq W /\ p # x
      <3>1. CASE j < Len(s)
        BY <1>1, <1>2, <1>5, <3>1 DEF Carried
      <3>2. CASE ~(j < Len(s))
        <4> DEFINE Z == IF m = "value" THEN W ELSE X
        <4>1. Known(g, A, P, K, f, X, Z, 0)
          BY <1>1, <3>2 DEF Carried
        <4>2. p # 0 /\ Z \subseteq W
          BY <1>1, <1>2
        <4>. QED BY <4>1, <4>2
      <3>. QED BY <3>1, <3>2
    <2>2. PICK Z, x : Known(g, A, P, K, f, X, Z, x) /\ Z \subseteq W /\ p # x
      BY <2>1
    <2>3. P[p].part \in {"operand", "list", "condition", "class"} /\ (P[p].part = "class" => f.part \in {"class", "clause"})
      BY <1>5 DEF Then
    <2>4. P[p].part \in PartsOf(f.op) \ NotYet(f)
      BY <1>1, <1>5, <2>2 DEF Known
    <2>5. P[p].part \in Claimed(f)
      <3>1. CASE P[p].part = "class"
        <4>1. f.part \in PartsOf(f.op) /\ f.part \in {"class", "clause"}
          BY <1>1, <2>3, <3>1 DEF Framed
        <4>2. f.op = "begin"
          <5>1. f.op \in FrameOps /\ "class" \in PartsOf(f.op)
            BY <1>1, <2>4, <3>1 DEF Framed
          <5> HIDE DEF f
          <5>. QED BY <5>1 DEF PartsOf, FrameOps
        <4>3. f.rescues # <<>>
          BY <1>1, <4>1, <4>2 DEF Choosing
        <4>. QED BY <3>1, <4>3 DEF Claimed
      <3>2. CASE P[p].part # "class"
        BY <2>3, <3>2 DEF Claimed, AlwaysDone
      <3>. QED BY <3>1, <3>2
    <2>6. Claims(g, P, K, p, Place(A, f, P[p].part, X, Z))
      BY <1>1, <1>5, <2>2, <2>5 DEF Known
    <2>7. Place(A, f, P[p].part, X, Z) \subseteq W
      BY <1>2, <2>2, <2>3 DEF Place
    <2> DEFINE D == Place(A, f, P[p].part, X, Z)
    <2> HIDE DEF D
    <2>8. Available(g, Slot(a), D)
      BY <1>5, <2>6 DEF Claims, D
    <2>9. D \subseteq W
      BY <2>7 DEF D
    <2>. QED BY <2>8, <2>9 DEF Available
  <1>. QED BY <1>4, <1>5

LEMMA ScopeTop ==
  ASSUME NEW g, NEW P, NEW s, NEW m, NEW v, NEW A, NEW F, NEW K, Carried(g, P, s, m, v, A, F, K),
         Placing(P, s), Framed(s), Choosing(s), Len(s) # 0, NEW a \in K \cap DOMAIN P, Scope(P, a, s[Len(s)].stmt)
  PROVE  Available(g, Slot(a), A[g.cur])
  <1> DEFINE n == Len(s)
             L == Lines(P)
  <1>1. n \in 1 .. n /\ n \in Nat /\ Len(P) \in Nat /\ DOMAIN P = 1 .. Len(P) /\ InOrder(P) /\ \A i \in 1 .. n : s[i].stmt \in 1 .. Len(P)
    <2>1. n \in Nat /\ n # 0
      BY DEF Placing
    <2>2. n \in 1 .. n
      BY <2>1
    <2>. QED BY <2>1, <2>2 DEF Placing, InOrder
  <1>2. \A q \in L[s[n].stmt] : \E j \in 1 .. n : q = s[j].stmt
    BY <1>1, StackLines
  <1>3. CASE a \in L[s[n].stmt]
    BY <1>2, <1>3, AllocatedBefore
  <1>4. CASE a \notin L[s[n].stmt]
    <2>1. PICK p \in L[a], q \in L[s[n].stmt] : P[p].in = P[q].in /\ p < q /\ <<P[p].part, P[q].part>> \in Then /\ Sure(P, a, p)
      BY <1>4 DEF Scope
    <2>2. PICK j \in 1 .. n : q = s[j].stmt
      BY <1>2, <2>1
    <2>3. p \in 1 .. Len(P) /\ p \in Int
      <3>1. a \in 1 .. Len(P)
        BY <1>1
      <3>2. a \in 0 .. Len(P)
        BY <1>1
      <3>3. L[a] \subseteq 1 .. a
        BY <1>1, <3>2, LinesIs
      <3>4. 1 .. a \subseteq 1 .. Len(P)
        BY <1>1, <3>1
      <3>. QED BY <2>1, <3>3, <3>4
    <2>4. j # 1
      <3> SUFFICES ASSUME j = 1 PROVE FALSE
        OBVIOUS
      <3>1. q = 1 /\ Len(s) # 0
        BY <2>2 DEF Placing
      <3>. QED BY <2>1, <2>3, <3>1
    <2>5. j - 1 \in 1 .. n - 1 /\ j - 1 \in 1 .. Len(s) /\ j - 1 + 1 = j
      BY <1>1, <2>4
    <2>6. P[q].in = s[j - 1].stmt /\ P[q].part = s[j - 1].part
      <3>1. P[s[j - 1 + 1].stmt].in = s[j - 1].stmt /\ P[s[j - 1 + 1].stmt].part = s[j - 1].part
        BY <2>5 DEF Placing
      <3>. QED BY <2>2, <2>5, <3>1
    <2>7. p # s[j].stmt
      <3>1. s[j].stmt \in Int
        BY <1>1
      <3>. QED BY <2>1, <2>2, <2>3, <3>1
    <2> DEFINE i == j - 1
    <2>8. i \in 1 .. Len(s) /\ i + 1 = j
      BY <2>5
    <2> HIDE DEF i
    <2>9. P[p].in = s[i].stmt /\ <<P[p].part, s[i].part>> \in Then /\ Sure(P, a, p) /\ p # s[i + 1].stmt
      BY <2>1, <2>6, <2>7, <2>8 DEF i
    <2>. QED BY <2>3, <2>8, <2>9, AllocatedBefore
  <1>. QED BY <1>3, <1>4

LEMMA ScopeNew ==
  ASSUME NEW g, NEW P, NEW s, NEW m, NEW v, NEW A, NEW F, NEW K, Carried(g, P, s, m, v, A, F, K),
         Placing(P, s), Framed(s), Choosing(s), NEW Q, Goes1(P, s, Q), Len(Q) = Len(P) + 1,
         NEW a \in K \cap DOMAIN P, Scope(Q, a, Len(Q))
  PROVE  Available(g, Slot(a), A[g.cur])
  <1> DEFINE n == Len(s)
             x == Len(Q)
             y == s[n].stmt
  <1>1. /\ Len(P) \in Nat /\ DOMAIN P = 1 .. Len(P) /\ InOrder(P) /\ InOrder(Q) /\ Longer(P, Q)
        /\ \A i \in 1 .. n : s[i].stmt \in 1 .. Len(P)
    BY DEF Placing, InOrder, Goes1, Longer
  <1>2. /\ n \in Nat /\ n # 0 /\ Q[x].in = y /\ Q[x].part = s[n].part
    <2>0. Len(P) \in Nat
      BY DEF Placing, InOrder
    <2>1. Len(Q) # Len(P)
      BY <2>0
    <2>. QED BY <2>1 DEF Goes1, Placing
  <1>3. n \in 1 .. n /\ a \in 1 .. Len(P) /\ x \in 1 .. x /\ x = Len(P) + 1 /\ n \in 1 .. Len(s)
    BY <1>1, <1>2
  <1>4. y \in 1 .. Len(P) /\ y \in 0 .. Len(P) /\ a \in 0 .. Len(P)
    BY <1>1, <1>3
  <1>5. Lines(Q)[x] = {x} \cup Lines(P)[y] /\ Lines(Q)[a] = Lines(P)[a]
    <2>1. Lines(Q)[x] = {x} \cup Lines(Q)[Q[x].in]
      BY <1>1, <1>3, LinesIs
    <2>2. Lines(Q)[y] = Lines(P)[y] /\ Lines(Q)[a] = Lines(P)[a]
      BY <1>1, <1>4, LinesAgain
    <2>. QED BY <1>2, <2>1, <2>2
  <1>6. Lines(P)[y] \subseteq 1 .. Len(P) /\ Lines(P)[a] \subseteq 1 .. Len(P)
    <2>1. Lines(P)[y] \subseteq 1 .. y /\ Lines(P)[a] \subseteq 1 .. a
      BY <1>1, <1>4, LinesIs
    <2>2. 1 .. y \subseteq 1 .. Len(P) /\ 1 .. a \subseteq 1 .. Len(P)
      BY <1>1, <1>3, <1>4
    <2>. QED BY <2>1, <2>2
  <1>7. a # x
    BY <1>1, <1>3
  <1>8. \A p \in 1 .. Len(P) : Q[p] = P[p] /\ (Sure(Q, a, p) <=> Sure(P, a, p))
    BY <1>1, <1>3, SureAgain DEF Longer
  <1> HIDE DEF x, y
  <1>9. CASE a \in Lines(P)[y]
    <2>1. Scope(P, a, y)
      BY <1>9 DEF Scope
    <2>. QED BY <1>2, <2>1, ScopeTop DEF y
  <1>10. CASE a \notin Lines(P)[y]
    <2>1. PICK p \in Lines(P)[a], q \in {x} \cup Lines(P)[y] :
             Q[p].in = Q[q].in /\ p < q /\ <<Q[p].part, Q[q].part>> \in Then /\ Sure(Q, a, p)
      BY <1>5, <1>7, <1>10 DEF Scope, x
    <2>2. p \in 1 .. Len(P) /\ Q[p] = P[p] /\ Sure(P, a, p)
      BY <1>6, <1>8, <2>1
    <2>3. CASE q = x
      <3>1. P[p].in = s[n].stmt /\ <<P[p].part, s[n].part>> \in Then /\ ~(n < Len(s))
        BY <1>2, <2>1, <2>2, <2>3 DEF y
      <3> HIDE DEF n
      <3>. QED BY <1>3, <2>2, <3>1, AllocatedBefore
    <2>4. CASE q \in Lines(P)[y]
      <3>1. Q[q] = P[q]
        BY <1>6, <1>8, <2>4
      <3>2. Scope(P, a, y)
        BY <2>1, <2>2, <2>4, <3>1 DEF Scope
      <3>. QED BY <1>2, <3>2, ScopeTop DEF y
    <2>. QED BY <2>1, <2>3, <2>4
  <1>. QED BY <1>9, <1>10

-----------------------------------------------------------------------------
(* The invariant, and what it gives a step.                                *)

\* What dominates the blocks is A, what dominates whatever a running function still generates is
\* F, and the statements that have variables are K.  There are such until the end, and at the
\* end every value is used where it may be.
Carries(A, F, K) ==
  /\ F \in [Nat -> SUBSET Nat] /\ Sound(graph, A, Excused(program)) /\ Slots(program, K, variables, mode)
  /\ Carried(graph, program, open, mode, value, A, F, K)
Values ==
  /\ Active   => \E A, F, K : Carries(A, F, K)
  /\ Finished => \E A : Sound(graph, A, Excused(program))
Ready == Typed /\ HandlersNest /\ Flow /\ Lineage(program, open) /\ Values

\* The next state of one in which A, F and K are as that.
From(A, F, K) == Typed /\ HandlersNest /\ Flow /\ Lineage(program, open) /\ Active /\ Carries(A, F, K)

LEMMA StackPlaces ==
  ASSUME Typed, Lineage(program, open)
  PROVE  /\ InOrder(program) /\ Placing(program, open) /\ Framed(open) /\ Len(program) \in Nat /\ This = Len(program) + 1
         /\ DOMAIN program = 1 .. Len(program) /\ DOMAIN open = 1 .. Len(open) /\ Len(open) \in Nat
         /\ open # <<>> => Len(open) # 0 /\ Top = open[Len(open)] /\ Top.stmt \in 1 .. Len(program)
  <1>1. /\ Len(program) \in Nat /\ DOMAIN program = 1 .. Len(program)
        /\ \A n \in 1 .. Len(program) : program[n].in \in Nat
    <2>1. program \in Seq([kind : Kinds, name : Names \cup {"none"}, in : Nat, part : Parts])
      BY DEF Typed
    <2> DEFINE R == [kind : Kinds, name : Names \cup {"none"}, in : Nat, part : Parts]
    <2>2. \A r \in R : r.in \in Nat
      OBVIOUS
    <2>3. program \in Seq(R)
      BY <2>1
    <2> HIDE DEF R
    <2>4. Len(program) \in Nat /\ DOMAIN program = 1 .. Len(program) /\ \A n \in 1 .. Len(program) : program[n] \in R
      BY <2>3
    <2>. QED BY <2>2, <2>4
  <1>2. DOMAIN open = 1 .. Len(open) /\ Len(open) \in Nat /\ (open # <<>> => Top = open[Len(open)] /\ Len(open) \in DOMAIN open)
    BY StackBlocks
  <1>3. InOrder(program)
    <2>1. \A n \in 1 .. Len(program) : program[n].in \in 0 .. n - 1
      <3> SUFFICES ASSUME NEW n \in 1 .. Len(program) PROVE program[n].in \in 0 .. n - 1
        OBVIOUS
      <3>1. CASE n = 1
        BY <3>1 DEF Lineage
      <3>2. CASE n # 1
        <4>1. n \in 2 .. Len(program)
          BY <1>1, <3>2
        <4>2. program[n].in \in 1 .. n - 1
          BY <4>1 DEF Lineage
        <4>. QED BY <4>2
      <3>. QED BY <3>1, <3>2
    <2>. QED BY <1>1, <2>1 DEF InOrder
  <1>4. \A i \in DOMAIN open : FrameOK(open[i], Size(graph), Len(program)) /\ Size(graph) \in Nat
    BY TypedParts DEF Typed
  <1>5. ASSUME NEW i \in DOMAIN open
        PROVE  open[i].stmt \in 1 .. Len(program) /\ open[i].op \in FrameOps /\ open[i].part \in PartsOf(open[i].op) /\ Numbered(open[i])
    <2> DEFINE f == open[i]
    <2>1. FrameOK(f, Size(graph), Len(program)) /\ Size(graph) \in Nat
      BY <1>4
    <2> HIDE DEF f
    <2>2. f.stmt \in 1 .. Len(program) /\ f.op \in FrameOps /\ f.part \in PartsOf(f.op) /\ f.base \in Int
      BY <2>1 DEF FrameOK, FramesOf
    <2>3. HasBlocks(f) => f.base \in Nat
      BY <2>1, <2>2 DEF FrameOK
    <2>4. f.op = "if" /\ f.part = "false" => f.from \in Nat
      BY <2>1 DEF FrameOK
    <2>5. Rescuing(f) => f.from \in Nat /\ f.handler \in Nat
      <3>1. Rescuing(f) => f.base \in Nat
        BY <2>3 DEF Rescuing, HasBlocks
      <3>. QED BY <2>1, <3>1 DEF FrameOK
    <2>6. Numbered(f)
      BY <2>3, <2>4, <2>5 DEF Numbered
    <2>. QED BY <2>2, <2>6 DEF f
  <1>6. Framed(open)
    BY <1>5 DEF Framed
  <1>7. open # <<>> <=> Len(open) # 0
    <2>1. open \in Seq(FramesOf(Len(program)))
      BY DEF Typed
    <2>. QED BY <2>1, EmptySeq
  <1>8. Placing(program, open)
    <2>1. Len(open) # 0 => open[1].stmt = 1
      BY <1>7 DEF Lineage
    <2>. QED BY <1>2, <1>3, <1>5, <2>1 DEF Placing, Lineage
  <1>. QED BY <1>1, <1>2, <1>3, <1>5, <1>6, <1>7, <1>8 DEF This

Written(P, n, Q) == Q = Append(P, n)
LEMMA PlacesGrow ==
  ASSUME Typed, Lineage(program, open), open # <<>>, NEW kind, NEW name, NEW Q, Written(program, Node(kind, name), Q)
  PROVE  /\ Goes1(program, open, Q) /\ Len(Q) = Len(program) + 1
         /\ Q[Len(Q)] = Node(kind, name) /\ \A n \in 1 .. Len(program) : Q[n] = program[n]
  <1>1. Len(program) \in Nat /\ DOMAIN program = 1 .. Len(program) /\ InOrder(program)
    BY StackPlaces
  <1>2. Len(open) # 0 /\ Top = open[Len(open)] /\ Top.stmt \in 1 .. Len(program)
    BY StackPlaces
  <1> DEFINE x == Node(kind, name)
  <1>3. x.in = Top.stmt /\ x.part = Top.part /\ x.kind = kind /\ x.name = name
    BY DEF Node
  <1> HIDE DEF x
  <1>4. /\ Len(Q) = Len(program) + 1 /\ DOMAIN Q = 1 .. Len(program) + 1 /\ Q[Len(program) + 1] = x
        /\ \A n \in 1 .. Len(program) : Q[n] = program[n]
    <2>1. \E S : program \in Seq(S)
      BY DEF Typed
    <2>. QED BY <1>1, <2>1 DEF x, Written
  <1>5. InOrder(Q)
    <2>1. \A n \in 1 .. Len(Q) : Q[n].in \in 0 .. n - 1
      <3> SUFFICES ASSUME NEW n \in 1 .. Len(Q) PROVE Q[n].in \in 0 .. n - 1
        OBVIOUS
      <3>1. n \in 1 .. Len(program) \/ n = Len(program) + 1
        BY <1>1, <1>4
      <3>2. CASE n \in 1 .. Len(program)
        BY <1>1, <1>4, <3>2 DEF InOrder
      <3>3. CASE n = Len(program) + 1
        <4>1. Q[n].in = Top.stmt
          BY <1>3, <1>4, <3>3
        <4>. QED BY <1>1, <1>2, <3>3, <4>1
      <3>. QED BY <3>1, <3>2, <3>3
    <2>2. Len(Q) \in Nat /\ DOMAIN Q = 1 .. Len(Q)
      BY <1>1, <1>4
    <2>. QED BY <2>1, <2>2 DEF InOrder
  <1>6. Len(program) <= Len(Q)
    BY <1>1, <1>4
  <1>7. Longer(program, Q)
    BY <1>1, <1>4, <1>5, <1>6 DEF Longer
  <1>8. Q[Len(Q)] = Node(kind, name)
    BY <1>4 DEF x
  <1>. QED BY <1>2, <1>3, <1>4, <1>7, <1>8 DEF Goes1

LEMMA PlacesSame ==
  ASSUME Typed, Lineage(program, open)
  PROVE  Goes1(program, open, program)
  <1>1. Len(program) \in Nat /\ InOrder(program)
    BY StackPlaces
  <1>. QED BY <1>1 DEF Goes1, Longer

LEMMA Choosings ==
  ASSUME Typed
  PROVE  Choosing(open)
BY DEF Typed, FrameOK, Choosing, Rescuing

\* What a step starts from.
LEMMA Facts ==
  ASSUME NEW A, NEW F, NEW K, From(A, F, K)
  PROVE  /\ Placed(graph, A, Excused(program)) /\ PadIn(A, graph.cur)
         /\ A \in [Nat -> SUBSET Nat] /\ F \in [Nat -> SUBSET Nat] /\ A[graph.cur] \subseteq Nat
         /\ F[Len(open)] \subseteq A[graph.cur] /\ F[0] = {}
         /\ \A i \in 1 .. Len(open) : F[i - 1] \subseteq F[i] /\ F[i] \subseteq A[graph.cur]
         /\ \A i \in 1 .. Len(open) : Stable(graph, A, K, open[i], F[i], F[i - 1])
         /\ \A a \in K : a \in Nat /\ a <= This
         /\ mode # "body" => K \subseteq 1 .. Len(program) /\ This \notin K
         /\ mode = "value" => Ok(graph, value, A[graph.cur])
         /\ Size(graph) \in Nat /\ graph.cur \in 1 .. Size(graph) /\ graph.cur \in Nat
  <1>1. Typed /\ Lineage(program, open) /\ Carries(A, F, K) /\ HandlersNest
    BY DEF From
  <1>2. /\ Placing(program, open) /\ DOMAIN open = 1 .. Len(open) /\ Len(open) \in Nat /\ Len(program) \in Nat
        /\ This = Len(program) + 1 /\ DOMAIN program = 1 .. Len(program)
    BY <1>1, StackPlaces
  <1>3. /\ Carried(graph, program, open, mode, value, A, F, K) /\ Sound(graph, A, Excused(program))
        /\ Slots(program, K, variables, mode) /\ F \in [Nat -> SUBSET Nat]
    BY <1>1 DEF Carries
  <1>4. graph.cur \in 1 .. Size(graph) /\ Size(graph) \in Nat
    BY <1>1, TypedParts
  <1>5. Placed(graph, A, Excused(program)) /\ A \in [Nat -> SUBSET Nat] /\ A[graph.cur] \subseteq Nat
    BY <1>3, <1>4 DEF Placed, Carried, Sound
  <1>6. /\ \A i \in 0 .. Len(open) : F[i] \subseteq A[graph.cur]
        /\ \A i \in 1 .. Len(open) : F[i - 1] \subseteq F[i]
    BY <1>2, <1>3, FloorsUp
  <1>7. \A i \in 1 .. Len(open) : i \in 0 .. Len(open) /\ i \in DOMAIN open
    BY <1>2
  <1>8. \A i \in 1 .. Len(open) : Stable(graph, A, K, open[i], F[i], F[i - 1])
    BY <1>3, <1>7 DEF Carried
  <1>9. \A a \in K : a \in 1 .. Len(program) \/ (mode = "body" /\ a = Len(program) + 1)
    BY <1>2, <1>3 DEF Slots
  <1>10. \A a \in K : a \in Nat /\ a <= This
    BY <1>2, <1>9
  <1>11. mode # "body" => K \subseteq 1 .. Len(program) /\ This \notin K
    BY <1>2, <1>9
  <1>12. PadIn(A, graph.cur)
    <2> SUFFICES ASSUME handlers # <<>>
                 PROVE  LET pad == Last(handlers) IN pad \in Nat /\ pad \in A[pad] /\ A[pad] \subseteq A[graph.cur] \cup {pad}
      BY DEF PadIn
    <2>1. handlers \in Seq(1 .. Size(graph))
      BY <1>1 DEF Typed
    <2>2. Len(handlers) \in DOMAIN handlers
      BY <2>1
    <2>3. PICK i \in InMain : Last(handlers) = Pad(open[i])
      BY <1>1, <2>2 DEF HandlersNest, Last
    <2>4. i \in 1 .. Len(open) /\ open[i].op = "begin" /\ open[i].part = "main"
      BY <1>2, <2>3 DEF InMain
    <2> DEFINE f == open[i]
               b == Pad(f)
    <2>5. b \in Joined(f)
      BY <2>4 DEF Joined, Pad
    <2>6. b \in A[b] /\ A[b] \subseteq F[i] \cup {b}
      <3> HIDE DEF b
      <3>. QED BY <1>8, <2>4, <2>5 DEF Stable
    <2>7. F[i] \subseteq A[graph.cur]
      BY <1>6, <1>7, <2>4
    <2>8. b \in Nat
      <3>1. Numbered(f)
        BY <1>1, <1>2, <2>4, StackPlaces DEF Framed
      <3> HIDE DEF f
      <3>2. Joined(f) \subseteq Nat
        BY <3>1, JoinedNat
      <3>. QED BY <2>5, <3>2
    <2> HIDE DEF b
    <2>. QED BY <2>3, <2>6, <2>7, <2>8 DEF b
  <1>13. mode = "value" => Ok(graph, value, A[graph.cur])
    BY <1>3 DEF Carried
  <1>14. F[Len(open)] \subseteq A[graph.cur] /\ F[0] = {} /\ \A i \in 1 .. Len(open) : F[i - 1] \subseteq F[i] /\ F[i] \subseteq A[graph.cur]
    BY <1>3, <1>6, <1>7 DEF Carried
  <1>. QED BY <1>3, <1>4, <1>5, <1>8, <1>10, <1>11, <1>12, <1>13, <1>14

-----------------------------------------------------------------------------
(* The steps, by what they do to the stack.                                *)

\* What a step makes of A and K, and what it leaves of the first k functions that run.
Step(A, K, B, L, k) ==
  /\ Passes(graph, program, open, A, K, graph', program', B, L) /\ Stands0(open, B, k)
  /\ Sound(graph', B, Excused(program')) /\ Slots(program', L, variables', mode')
  /\ graph'.cur \in Nat /\ graph'.cur \in B[graph'.cur]

LEMMA StepOnto ==
  ASSUME NEW A, NEW F, NEW K, From(A, F, K), Goes1(program, open, program'),
         NEW B, NEW k, NEW c, Follows(graph, A, graph', B, Excused(program'), k, c),
         graph'.cur \in Nat, graph'.cur \in B[graph'.cur],
         NEW L, K \subseteq L, L \subseteq K \cup {This}, Slots(program', L, variables', mode')
  PROVE  Step(A, K, B, L, Len(open)) /\ Step(A, K, B, L, Len(open) - 1)
  <1>1. Typed /\ Lineage(program, open) /\ Carries(A, F, K) /\ Sound(graph, A, Excused(program))
    BY DEF From, Carries
  <1>2. /\ Sound(graph', B, Excused(program')) /\ \A b \in 1 .. Size(graph) : B[b] = A[b]
        /\ \A v, d, j : Site(graph, v, d, j) => Site(graph', v, d, j)
    BY DEF Follows
  <1>3. /\ A \in [Nat -> SUBSET Nat] /\ B \in [Nat -> SUBSET Nat]
        /\ \A b \in Nat : A[b] # {} => b \in 1 .. Size(graph)
    BY <1>1, <1>2 DEF Sound
  <1>4. \A b \in Nat : A[b] \subseteq B[b] /\ (b \in A[b] => B[b] = A[b])
    BY <1>2, <1>3
  <1>5. Placing(program, open) /\ Len(open) \in Nat /\ DOMAIN open = 1 .. Len(open) /\ This = Len(program) + 1
    BY <1>1, StackPlaces
  <1>6. Passes(graph, program, open, A, K, graph', program', B, L)
    BY <1>2, <1>4, <1>5 DEF Passes
  <1>7. ASSUME NEW i \in 1 .. Len(open), open[i].op = "while" PROVE B[open[i].base + 3] = {}
    <2>1. A[open[i].base + 3] = {}
      BY <1>7, Facts DEF Stable
    <2>2. open[i].base + 3 \in 1 .. Size(graph)
      <3> DEFINE f == open[i]
      <3>1. FrameOK(f, Size(graph), Len(program)) /\ f.op = "while" /\ Size(graph) \in Nat
        BY <1>1, <1>5, <1>7, TypedParts DEF Typed
      <3> HIDE DEF f
      <3>2. f.base \in Int /\ f.base >= 1 /\ f.base + 3 <= Size(graph)
        BY <3>1 DEF FrameOK, FramesOf, HasBlocks
      <3>3. f.base + 3 \in 1 .. Size(graph)
        BY <3>1, <3>2
      <3>. QED BY <3>3 DEF f
    <2>. QED BY <1>2, <2>1, <2>2
  <1>8. Stands0(open, B, Len(open)) /\ Stands0(open, B, Len(open) - 1)
    <2>1. 1 .. Len(open) - 1 \subseteq 1 .. Len(open)
      BY <1>5
    <2>. QED BY <1>7, <2>1 DEF Stands0
  <1>. QED BY <1>2, <1>6, <1>8 DEF Step

\* The floors of the functions when the k-th is new.
Floored(F, k, X, G) == G \in [Nat -> SUBSET Nat] /\ G[k] = X /\ \A i \in Nat : i # k => G[i] = F[i]
LEMMA FlooredExists ==
  ASSUME NEW F \in [Nat -> SUBSET Nat], NEW k \in Nat, NEW X \in SUBSET Nat
  PROVE  \E G : Floored(F, k, X, G)
  <1> DEFINE G == [i \in Nat |-> IF i = k THEN X ELSE F[i]]
  <1>1. G \in [Nat -> SUBSET Nat] /\ G[k] = X /\ \A i \in Nat : i # k => G[i] = F[i]
    OBVIOUS
  <1> HIDE DEF G
  <1>. QED BY <1>1 DEF Floored

LEMMA ValuesFrom ==
  ASSUME NEW B, NEW G \in [Nat -> SUBSET Nat], NEW L, Sound(graph', B, Excused(program')), Slots(program', L, variables', mode'),
         Carried(graph', program', open', mode', value', B, G, L), mode' \in {"statement", "body", "value"}
  PROVE  Values'
  <1>1. Carries(B, G, L)'
    BY DEF Carries
  <1>2. ~Finished'
    BY DEF Finished
  <1>. QED BY <1>1, <1>2 DEF Values

LEMMA StayValues ==
  ASSUME NEW A, NEW F, NEW K, From(A, F, K), NEW B, Step(A, K, B, K, Len(open)), mode = "statement",
         open' = open, mode' = "value", A[graph.cur] \subseteq B[graph'.cur], Ok(graph', value', B[graph'.cur])
  PROVE  Values'
  <1>1. Typed /\ Lineage(program, open) /\ Carried(graph, program, open, mode, value, A, F, K) /\ F \in [Nat -> SUBSET Nat]
    BY DEF From, Carries
  <1>2. Framed(open) /\ This = Len(program) + 1 /\ This \notin K
    BY <1>1, StackPlaces, Facts
  <1>3. Carried(graph', program', open, "value", value', B, F, K)
    BY <1>1, <1>2, CarriedStay DEF Step
  <1>. QED BY <1>1, <1>3, ValuesFrom DEF Step

LEMMA PushValues ==
  ASSUME NEW A, NEW F, NEW K, From(A, F, K), NEW B, NEW L, Step(A, K, B, L, Len(open)), mode # "value",
         Len(program') = This, NEW f, open' = Append(open, f), f.stmt = This,
         NEW X \in SUBSET Nat, F[Len(open)] \subseteq X, X \subseteq B[graph'.cur], Stable(graph', B, L, f, X, F[Len(open)]),
         mode' \in {"statement", "body", "value"}, mode' = "value" => Ok(graph', value', B[graph'.cur])
  PROVE  Values'
  <1>1. Typed /\ Lineage(program, open) /\ Carried(graph, program, open, mode, value, A, F, K) /\ F \in [Nat -> SUBSET Nat]
    BY DEF From, Carries
  <1>2. Framed(open) /\ This = Len(program) + 1 /\ Len(open) \in Nat /\ DOMAIN open = 1 .. Len(open) /\ This \in Nat
    BY <1>1, StackPlaces
  <1>3. PICK G : Floored(F, Len(open) + 1, X, G)
    <2>1. Len(open) + 1 \in Nat
      BY <1>2
    <2>. QED BY <1>1, <2>1, FlooredExists
  <1>4. /\ G \in [Nat -> SUBSET Nat] /\ G[Len(open) + 1] = X /\ \A i \in 0 .. Len(open) : G[i] = F[i]
    <2>1. \A i \in 0 .. Len(open) : i \in Nat /\ i # Len(open) + 1
      BY <1>2
    <2>. QED BY <1>3, <2>1 DEF Floored
  <1> DEFINE t == Append(open, f)
  <1>5. DOMAIN t = 1 .. Len(t) /\ Len(t) = Len(open) + 1 /\ t[Len(t)] = f /\ \A i \in 1 .. Len(open) : t[i] = open[i]
    <2>1. \E S : open \in Seq(S)
      BY <1>1 DEF Typed
    <2>. QED BY <1>2, <2>1
  <1> HIDE DEF t
  <1>6. Len(program') + 1 \notin L
    <2>1. \A a \in K : a \in Nat /\ a <= This
      BY Facts
    <2>2. This + 1 \notin K /\ This + 1 # This
      BY <1>2, <2>1
    <2>. QED BY <2>2 DEF Step, Passes, This
  <1>7. G[Len(t)] = X
    BY <1>4, <1>5
  <1>8. Pushing(graph, program, open, mode, value, A, F, K, graph', program', B, L, t, f, X, G, mode', value')
    <2>1. Len(program') = Len(program) + 1 /\ f.stmt = Len(program')
      BY <1>2
    <2>2. Passes(graph, program, open, A, K, graph', program', B, L) /\ Stands0(open, B, Len(open)) /\ graph'.cur \in B[graph'.cur]
      BY DEF Step
    <2>. QED BY <1>1, <1>2, <1>4, <1>5, <1>6, <1>7, <2>1, <2>2 DEF Pushing
  <1>9. Carried(graph', program', t, mode', value', B, G, L)
    BY <1>8, CarriedPush
  <1>. QED BY <1>4, <1>9, ValuesFrom DEF Step, t

LEMMA PopValues ==
  ASSUME NEW A, NEW F, NEW K, From(A, F, K), NEW B, Step(A, K, B, K, Len(open) - 1), mode = "value", open # <<>>,
         program' = program, open' = Below, mode' = "value", Ok(graph', value', B[graph'.cur]), F[Len(open) - 1] \subseteq B[graph'.cur],
         Top.stmt \in K => Available(graph', Slot(Top.stmt), B[graph'.cur]),
         \A part \in AlwaysDone \cap (PartsOf(Top.op) \ NotYet(Top)) : Place(A, Top, part, F[Len(open)], A[graph.cur]) \subseteq B[graph'.cur]
  PROVE  Values'
  <1>1. Typed /\ Lineage(program, open) /\ Carried(graph, program, open, "value", value, A, F, K) /\ F \in [Nat -> SUBSET Nat]
    BY DEF From, Carries
  <1>2. /\ Framed(open) /\ This = Len(program) + 1 /\ Len(open) \in Nat /\ DOMAIN open = 1 .. Len(open)
        /\ Len(open) # 0 /\ Top = open[Len(open)] /\ This \notin K
    BY <1>1, StackPlaces, Facts
  <1> DEFINE t == Below
             f == Top
  <1>3. DOMAIN t = 1 .. Len(t) /\ Len(t) = Len(open) - 1 /\ \A i \in 1 .. Len(t) : t[i] = open[i]
    <2>1. open \in Seq(FramesOf(Len(program)))
      BY <1>1 DEF Typed
    <2>2. Below \in Seq(FramesOf(Len(program))) /\ Len(Below) = Len(open) - 1 /\ \A i \in 1 .. Len(open) - 1 : Below[i] = open[i]
      BY <2>1, StackChanges
    <2>3. DOMAIN Below = 1 .. Len(Below)
      BY <2>2
    <2>. QED BY <2>2, <2>3
  <1> HIDE DEF t
  <1>4. Stands0(open, B, Len(t)) /\ F[Len(t)] \subseteq B[graph'.cur]
    BY <1>3 DEF Step
  <1>5. f = open[Len(open)]
    BY <1>2
  <1> HIDE DEF f
  <1>6. Passes(graph, program, open, A, K, graph', program', B, K) /\ graph'.cur \in B[graph'.cur] /\ program' = program
    BY DEF Step
  <1>7. /\ f.stmt \in K => Available(graph', Slot(f.stmt), B[graph'.cur])
        /\ \A part \in AlwaysDone \cap (PartsOf(f.op) \ NotYet(f)) : Place(A, f, part, F[Len(open)], A[graph.cur]) \subseteq B[graph'.cur]
    BY DEF f
  <1>8. Popping(graph, program, open, value, A, F, K, graph', program', B, K, f, t, value')
    <2>1. Len(program) + 1 \notin K
      BY <1>2
    <2>. QED BY <1>1, <1>2, <1>3, <1>4, <1>5, <1>6, <1>7, <2>1 DEF Popping
  <1>9. Carried(graph', program', t, "value", value', B, F, K)
    BY <1>8, CarriedPop
  <1>. QED BY <1>1, <1>9, ValuesFrom DEF Step, t

LEMMA MoveValues ==
  ASSUME NEW A, NEW F, NEW K, From(A, F, K), NEW B, NEW L, Step(A, K, B, L, Len(open) - 1), mode = "value", open # <<>>,
         program' = program, NEW u, open' = Append(Below, u), u.stmt = Top.stmt, u.op = Top.op, NotYet(u) \subseteq NotYet(Top),
         NEW X \in SUBSET Nat, F[Len(open) - 1] \subseteq X, X \subseteq B[graph'.cur],
         Stable(graph', B, L, u, X, F[Len(open) - 1]),
         mode' \in {"statement", "body", "value"}, mode' = "value" => Ok(graph', value', B[graph'.cur]),
         mode' = "body" /\ This \in L => Available(graph', Slot(This), B[graph'.cur]),
         \A part \in (PartsOf(u.op) \ NotYet(Top)) \cap Claimed(u) :
           /\ part \in Claimed(Top)
           /\ Place(A, Top, part, F[Len(open)], A[graph.cur]) \subseteq Place(B, u, part, X, IF mode' = "value" THEN B[graph'.cur] ELSE X)
  PROVE  Values'
  <1>1. Typed /\ Lineage(program, open) /\ Carried(graph, program, open, "value", value, A, F, K) /\ F \in [Nat -> SUBSET Nat]
    BY DEF From, Carries
  <1>2. /\ Framed(open) /\ This = Len(program) + 1 /\ Len(open) \in Nat /\ DOMAIN open = 1 .. Len(open)
        /\ Len(open) # 0 /\ Top = open[Len(open)]
    BY <1>1, StackPlaces
  <1>3. PICK G : Floored(F, Len(open), X, G)
    <2>1. Len(open) \in Nat
      BY <1>2
    <2>. QED BY <1>1, <2>1, FlooredExists
  <1>4. G \in [Nat -> SUBSET Nat] /\ G[Len(open)] = X /\ \A i \in 0 .. Len(open) - 1 : G[i] = F[i]
    <2>1. \A i \in 0 .. Len(open) - 1 : i \in Nat /\ i # Len(open)
      <3>1. Len(open) \in Nat
        BY <1>2
      <3>. QED BY ONLY <3>1
    <2>. QED BY <1>3, <2>1 DEF Floored
  <1> DEFINE t == Append(Below, u)
             f == Top
  <1>5. DOMAIN t = 1 .. Len(t) /\ Len(t) = Len(open) /\ t[Len(open)] = u /\ \A i \in 1 .. Len(open) - 1 : t[i] = open[i]
    <2>1. PICK n \in Nat : /\ n = Len(open) /\ DOMAIN Append(Below, u) = 1 .. n /\ Append(Below, u)[n] = u
                           /\ \A i \in 1 .. n - 1 : Append(Below, u)[i] = open[i]
      BY <1>1, StackDomains
    <2>2. Len(t) = Len(open)
      <3>1. open \in Seq(FramesOf(Len(program)))
        BY <1>1 DEF Typed
      <3>2. Len(Append(Below, u)) = Len(open)
        BY <3>1, StackChanges
      <3>. QED BY <3>2
    <2>. QED BY <2>1, <2>2
  <1> HIDE DEF t
  <1>6. Passes(graph, program, open, A, K, graph', program', B, L) /\ graph'.cur \in B[graph'.cur] /\ Stands0(open, B, Len(open) - 1)
    BY DEF Step
  <1>7. /\ f = open[Len(open)] /\ u.stmt = f.stmt /\ u.op = f.op /\ NotYet(u) \subseteq NotYet(f)
        /\ \A part \in (PartsOf(u.op) \ NotYet(f)) \cap Claimed(u) :
             /\ part \in Claimed(f)
             /\ Place(A, f, part, F[Len(open)], A[graph.cur]) \subseteq Place(B, u, part, X, IF mode' = "value" THEN B[graph'.cur] ELSE X)
    BY <1>2
  <1> HIDE DEF f
  <1>8. mode' = "body" /\ Len(program) + 1 \in L => Available(graph', Slot(Len(program) + 1), B[graph'.cur])
    BY <1>2
  <1>9. Moving(graph, program, open, value, A, F, K, graph', program', B, L, f, t, u, X, G, mode', value')
    BY <1>1, <1>2, <1>4, <1>5, <1>6, <1>7, <1>8 DEF Moving
  <1>10. Carried(graph', program', t, mode', value', B, G, L)
    BY <1>9, CarriedMove
  <1>. QED BY <1>4, <1>10, ValuesFrom DEF Step, t

LEMMA CrashValues == mode' \in {"crashed", "undefined"} => Values'
BY DEF Values, Active, Finished

-----------------------------------------------------------------------------
(* The variables that a statement may use.                                 *)

\* The variables may be used where the insertion point is.
Uses(A, K, by, N) == \A a \in K : Exempt(Slot(a), by, N) \/ Available(graph, Slot(a), A[graph.cur])

LEMMA SlotParts == \A a : Slot(a)[1] = a /\ Slot(a)[2] = "slot"
BY DEF Slot

LEMMA SlotsAre ==
  ASSUME NEW A, NEW F, NEW K, From(A, F, K), mode # "body"
  PROVE  \A a \in K : a \in DOMAIN program /\ a \in 1 .. Len(program) /\ Allocates(program, a)
  <1>1. Typed /\ Lineage(program, open) /\ Slots(program, K, variables, mode)
    BY DEF From, Carries
  <1>2. DOMAIN program = 1 .. Len(program)
    BY <1>1, StackPlaces
  <1>. QED BY <1>1, <1>2 DEF Slots

LEMMA NewPlaces ==
  ASSUME NEW A, NEW F, NEW K, From(A, F, K), open # <<>>, NEW kind, NEW name, program' = Append(program, Node(kind, name))
  PROVE  /\ Placed(graph, A, Excused(program')) /\ Goes1(program, open, program') /\ Longer(program, program')
         /\ Len(program') = This /\ Len(program') = Len(program) + 1 /\ This = Len(program) + 1 /\ Len(program) \in Nat
         /\ DOMAIN program = 1 .. Len(program) /\ DOMAIN program' = 1 .. Len(program')
         /\ program'[This].kind = kind /\ program'[This].name = name
         /\ \A n \in 1 .. Len(program) : program'[n] = program[n]
  <1>1. Typed /\ Lineage(program, open) /\ Placed(graph, A, Excused(program))
    BY Facts DEF From
  <1>2. /\ Goes1(program, open, program') /\ Len(program') = Len(program) + 1
        /\ program'[Len(program')].kind = kind /\ program'[Len(program')].name = name
        /\ \A n \in 1 .. Len(program) : program'[n] = program[n]
    <2>1. Written(program, Node(kind, name), program')
      BY DEF Written
    <2>2. Goes1(program, open, program') 
      BY <1>1, <2>1, PlacesGrow
    <2>3. Len(program') = Len(program) + 1
      BY <1>1, <2>1, PlacesGrow
    <2>4. program'[Len(program')] = Node(kind, name)
      BY <1>1, <2>1, PlacesGrow
    <2>5. \A n \in 1 .. Len(program) : program'[n] = program[n]
      BY <1>1, <2>1, PlacesGrow
    <2>6. Node(kind, name).kind = kind /\ Node(kind, name).name = name
      BY DEF Node
    <2>. QED BY <2>2, <2>3, <2>4, <2>5, <2>6
  <1>3. Longer(program, program') /\ DOMAIN program' = 1 .. Len(program') /\ DOMAIN program = 1 .. Len(program)
    BY <1>2 DEF Goes1, Longer, InOrder
  <1>4. Excused(program) \subseteq Excused(program')
    BY <1>3, ExcusedGrows
  <1>5. Placed(graph, A, Excused(program'))
    BY <1>1, <1>4, SoundMore DEF Placed
  <1>6. This = Len(program) + 1 /\ Len(program) \in Nat
    BY <1>1, StackPlaces
  <1>. QED BY <1>2, <1>3, <1>5, <1>6

LEMMA NewUses ==
  ASSUME NEW A, NEW F, NEW K, From(A, F, K), mode # "body", open # <<>>, NEW kind, NEW name,
         program' = Append(program, Node(kind, name))
  PROVE  Uses(A, K, This, Excused(program'))
  <1>1. Typed /\ Lineage(program, open) /\ Carried(graph, program, open, mode, value, A, F, K)
    BY DEF From, Carries
  <1>2. Placing(program, open) /\ Framed(open) /\ Choosing(open)
    BY <1>1, StackPlaces, Choosings
  <1>3. Goes1(program, open, program') /\ Len(program') = Len(program) + 1 /\ Longer(program, program') /\ This = Len(program') /\ Len(program) \in Nat
    BY NewPlaces
  <1>4. ASSUME NEW a \in K, ~Scope(program', a, Len(program')) PROVE <<a, This>> \in Excused(program')
    <2>1. a \in 1 .. Len(program) /\ Allocates(program, a)
      BY SlotsAre
    <2>2. Allocates(program', a)
      BY <1>3, <2>1, AllocatesAgain
    <2>3. a \in 1 .. Len(program') /\ This \in 1 .. Len(program')
      BY <1>3, <2>1
    <2>. QED BY <1>3, <1>4, <2>2, <2>3 DEF Excused
  <1>5. ASSUME NEW a \in K, Scope(program', a, Len(program')) PROVE Available(graph, Slot(a), A[graph.cur])
    <2>1. a \in K \cap DOMAIN program
      BY SlotsAre
    <2>. QED BY <1>1, <1>2, <1>3, <1>5, <2>1, ScopeNew
  <1>6. ASSUME NEW a \in K PROVE Exempt(Slot(a), This, Excused(program')) \/ Available(graph, Slot(a), A[graph.cur])
    BY <1>4, <1>5, SlotParts DEF Exempt
  <1>. QED BY <1>6 DEF Uses

LEMMA TopUses ==
  ASSUME NEW A, NEW F, NEW K, From(A, F, K), mode # "body", open # <<>>
  PROVE  Uses(A, K, Top.stmt, Excused(program))
  <1>1. Typed /\ Lineage(program, open) /\ Carried(graph, program, open, mode, value, A, F, K)
    BY DEF From, Carries
  <1>2. /\ Placing(program, open) /\ Framed(open) /\ Choosing(open) /\ Len(open) # 0 /\ Top = open[Len(open)]
        /\ Top.stmt \in 1 .. Len(program)
    BY <1>1, StackPlaces, Choosings
  <1>3. ASSUME NEW a \in K, ~Scope(program, a, Top.stmt) PROVE <<a, Top.stmt>> \in Excused(program)
    <2>1. a \in 1 .. Len(program) /\ Allocates(program, a)
      BY SlotsAre
    <2>. QED BY <1>2, <1>3, <2>1 DEF Excused
  <1>4. ASSUME NEW a \in K, Scope(program, a, Top.stmt) PROVE Available(graph, Slot(a), A[graph.cur])
    <2>1. a \in K \cap DOMAIN program
      BY SlotsAre
    <2>2. Scope(program, a, open[Len(open)].stmt)
      BY <1>2, <1>4
    <2>. QED BY <1>1, <1>2, <2>1, <2>2, ScopeTop
  <1>5. ASSUME NEW a \in K PROVE Exempt(Slot(a), Top.stmt, Excused(program)) \/ Available(graph, Slot(a), A[graph.cur])
    BY <1>3, <1>4, SlotParts DEF Exempt
  <1>. QED BY <1>5 DEF Uses

LEMMA SlotsSame ==
  ASSUME NEW A, NEW F, NEW K, From(A, F, K), mode # "body", UNCHANGED <<program, variables>>
  PROVE  Slots(program', K, variables', mode')
BY SlotsAre DEF From, Carries, Slots

LEMMA SlotsNew ==
  ASSUME NEW A, NEW F, NEW K, From(A, F, K), open # <<>>, NEW kind, NEW name, program' = Append(program, Node(kind, name)),
         variables' = variables, kind # "assign", mode = "body" => kind = "block"
  PROVE  Slots(program', K, variables', mode')
  <1>1. Slots(program, K, variables, mode)
    BY DEF From, Carries
  <1>2. /\ Longer(program, program') /\ Len(program') = Len(program) + 1 /\ DOMAIN program = 1 .. Len(program) /\ DOMAIN program' = 1 .. Len(program')
        /\ program'[Len(program')].kind = kind /\ Len(program) \in Nat /\ \A n \in 1 .. Len(program) : program'[n] = program[n]
    BY NewPlaces
  <1>3. ASSUME NEW a \in K PROVE a \in DOMAIN program' /\ Allocates(program', a)
    <2>1. CASE a \in DOMAIN program /\ Allocates(program, a)
      <3>1. a \in 1 .. Len(program)
        BY <1>2, <2>1
      <3>2. a \in 1 .. Len(program')
        BY <1>2, <3>1
      <3>. QED BY <1>2, <2>1, <3>1, <3>2, AllocatesAgain
    <2>2. CASE mode = "body" /\ a = Len(program) + 1
      <3>1. a \in 1 .. Len(program') /\ program'[a].kind = "block"
        BY <1>2, <2>2
      <3>. QED BY <1>2, <3>1 DEF Allocates
    <2>. QED BY <1>1, <2>1, <2>2 DEF Slots
  <1>4. ASSUME NEW n \in DOMAIN program', program'[n].kind = "assign" PROVE variables'[program'[n].name] # Null
    <2>1. n \in 1 .. Len(program)
      <3>1. n # Len(program')
        BY <1>2, <1>4
      <3>. QED BY <1>2, <3>1
    <2>2. program'[n] = program[n] /\ n \in DOMAIN program
      BY <1>2, <2>1
    <2>. QED BY <1>1, <1>4, <2>2 DEF Slots
  <1>. QED BY <1>1, <1>3, <1>4 DEF Slots

-----------------------------------------------------------------------------
(* Statements that are generated where the insertion point is.             *)

LEMMA StatementOpen == Typed /\ mode \in {"statement", "body"} => open # <<>>
BY DEF Typed, StackOK

LEMMA StartStays ==
  ASSUME NEW A, NEW F, NEW K, From(A, F, K), mode = "statement", NEW kind, NEW name, program' = Append(program, Node(kind, name)),
         UNCHANGED <<variables, open>>, kind # "assign", mode' = "value",
         NEW B, Onto(graph, A, graph', B, Excused(program')), Ok(graph', value', B[graph'.cur])
  PROVE  Values'
  <1>1. open # <<>>
    BY StatementOpen DEF From
  <1>2. Goes1(program, open, program') /\ Slots(program', K, variables', mode')
    BY <1>1, NewPlaces, SlotsNew
  <1>3. /\ Follows(graph, A, graph', B, Excused(program'), Size(graph'), graph'.cur)
        /\ graph'.cur \in Nat /\ graph'.cur \in B[graph'.cur] /\ A[graph.cur] \subseteq B[graph'.cur]
    BY DEF Onto
  <1>4. Step(A, K, B, K, Len(open))
    BY <1>2, <1>3, StepOnto
  <1>. QED BY <1>3, <1>4, StayValues

LEMMA StableKeeps ==
  ASSUME NEW A, NEW F, NEW K, From(A, F, K), NEW k \in {"call", "return", "index", "if", "block"}, NEW f,
         f.op = k, f.args = <<>>, f.part \in {"operand", "condition", "list"}, NEW X, NEW Y, Y \subseteq X,
         f.stmt \in K => k = "block" /\ Available(graph, Slot(f.stmt), X)
  PROVE  Stable(graph, A, K, f, X, Y)
  <1>1. Kept(f) = {} /\ Waiting(f) = {} /\ ~Rescuing(f)
    <2>1. Members(f.args) = {}
      BY DEF Members
    <2>. QED BY <2>1 DEF Kept, Waiting, Rescuing
  <1>2. Joined(f) = {} /\ Resumed(f) = {}
    <2>1. CASE k = "if"
      <3>1. Joined(f) = {f.base + j : j \in {}}
        BY <2>1 DEF Joined
      <3>2. Resumed(f) = Joined(f)
        BY <2>1 DEF Resumed
      <3>. QED BY <3>1, <3>2
    <2>2. CASE k # "if"
      BY <2>2 DEF Joined, Resumed
    <2>. QED BY <2>1, <2>2
  <1>. QED BY <1>1, <1>2 DEF Stable

LEMMA StartPushes ==
  ASSUME NEW A, NEW F, NEW K, From(A, F, K), mode \in {"statement", "body"}, NEW kind, NEW name, program' = Append(program, Node(kind, name)),
         UNCHANGED <<variables, graph>>, kind # "assign",
         NEW f, mode = "body" => kind = "block" /\ f.op = "block", open' = Append(open, f), f.stmt = This, f.op \in {"call", "return", "index", "if", "block"}, f.args = <<>>,
         f.part \in {"operand", "condition", "list"}, mode' = "statement" \/ (mode' = "value" /\ value' = Null)
  PROVE  Values'
  <1>1. open # <<>> /\ Typed /\ Lineage(program, open)
    BY StatementOpen DEF From
  <1>2. /\ Goes1(program, open, program') /\ Slots(program', K, variables', mode') /\ Placed(graph, A, Excused(program'))
        /\ Len(program') = This /\ This = Len(program) + 1
    BY <1>1, NewPlaces, SlotsNew
  <1>3. Onto(graph, A, graph, A, Excused(program'))
    BY <1>2, OntoNothing
  <1>4. Step(A, K, A, K, Len(open))
    BY <1>2, <1>3, StepOnto DEF Onto
  <1>5. /\ F[Len(open)] \subseteq A[graph.cur] /\ A[graph.cur] \in SUBSET Nat
        /\ mode # "body" => This \notin K
    BY Facts
  <1>6. f.stmt \in K => f.op = "block" /\ Available(graph, Slot(f.stmt), A[graph.cur])
    BY <1>2, <1>5 DEF From, Carries, Carried
  <1> DEFINE X == A[graph.cur]
             Y == F[Len(open)]
  <1>7. Y \subseteq X /\ X \in SUBSET Nat /\ (f.stmt \in K => f.op = "block" /\ Available(graph, Slot(f.stmt), X))
    BY <1>5, <1>6
  <1> HIDE DEF X, Y
  <1>8. Stable(graph, A, K, f, X, Y)
    BY <1>7, StableKeeps
  <1>9. Stable(graph', A, K, f, X, F[Len(open)]) /\ X \subseteq A[graph'.cur] /\ F[Len(open)] \subseteq X
    BY <1>7, <1>8 DEF X, Y
  <1>10. mode # "value" /\ mode' \in {"statement", "body", "value"} /\ (mode' = "value" => Ok(graph', value', A[graph'.cur]))
    BY DEF Ok, Const, Null
  <1>. QED BY <1>2, <1>4, <1>7, <1>9, <1>10, PushValues

-----------------------------------------------------------------------------
(* A value has been generated for the function on top.                     *)

LEMMA OkExempt ==
  ASSUME NEW g, NEW v, NEW X, Ok(g, v, X), NEW by, NEW N
  PROVE  Exempt(v, by, N) \/ Available(g, v, X)
BY DEF Ok, Exempt

LEMMA TopFacts ==
  ASSUME NEW A, NEW F, NEW K, From(A, F, K), open # <<>>
  PROVE  /\ Stable(graph, A, K, Top, F[Len(open)], F[Len(open) - 1])
         /\ F[Len(open) - 1] \subseteq F[Len(open)] /\ F[Len(open)] \subseteq A[graph.cur] /\ F[Len(open) - 1] \subseteq A[graph.cur]
         /\ A[graph.cur] \in SUBSET Nat /\ F[Len(open)] \in SUBSET Nat /\ F[Len(open) - 1] \in SUBSET Nat
         /\ Placed(graph, A, Excused(program)) /\ Goes1(program, open, program) /\ PadIn(A, graph.cur)
         /\ Top.stmt \in 1 .. Len(program) /\ RescuesOK(Top) /\ FrameOK(Top, Size(graph), Len(program)) /\ Typed
         /\ Top.op \in FrameOps /\ Top.part \in PartsOf(Top.op) /\ Top.args \in Seq(IdsUpTo(Len(program)))
         /\ \A v \in Kept(Top) : Ok(graph, v, A[graph.cur])
         /\ Top.stmt \in K => Top.op \in {"assign", "block"} /\ Available(graph, Slot(Top.stmt), A[graph.cur])
  <1>1. Typed /\ Lineage(program, open) /\ Nested(open)
    BY DEF From, Flow, FlowIs
  <1>2. Len(open) \in Nat /\ Len(open) # 0 /\ Top = open[Len(open)] /\ Top.stmt \in 1 .. Len(program)
    BY <1>1, StackPlaces
  <1>3. Len(open) \in 1 .. Len(open) /\ Len(open) - 1 \in Nat
    BY <1>2
  <1> DEFINE n == Len(open)
             X == F[n]
             Y == F[n - 1]
             W == A[graph.cur]
  <1>4. n \in 1 .. Len(open) /\ n - 1 \in Nat /\ n \in Nat
    BY <1>2, <1>3
  <1>5. Stable(graph, A, K, open[n], X, Y) /\ Y \subseteq X /\ X \subseteq W
    BY <1>4, Facts
  <1>6. F \in [Nat -> SUBSET Nat] /\ W \subseteq Nat /\ Placed(graph, A, Excused(program)) /\ PadIn(A, graph.cur)
    BY Facts
  <1>7. X \in SUBSET Nat /\ Y \in SUBSET Nat
    BY <1>4, <1>6
  <1>8. Goes1(program, open, program)
    BY <1>1, PlacesSame
  <1>9. RescuesOK(Top) /\ FrameOK(Top, Size(graph), Len(program)) /\ Top.op \in FrameOps /\ Top.args \in Seq(IdsUpTo(Len(program)))
    BY <1>1, NestedTop, TypedParts
  <1>10. Top.part \in PartsOf(Top.op)
    BY <1>9 DEF FrameOK
  <1> HIDE DEF X, Y, W
  <1>11. Stable(graph, A, K, Top, X, Y)
    BY <1>2, <1>5 DEF n
  <1>12. /\ \A v \in Kept(Top) : Ok(graph, v, X)
         /\ Top.stmt \in K => Top.op \in {"assign", "block"} /\ Available(graph, Slot(Top.stmt), X)
    BY <1>11 DEF Stable
  <1>13. /\ \A v \in Kept(Top) : Ok(graph, v, W)
         /\ Top.stmt \in K => Top.op \in {"assign", "block"} /\ Available(graph, Slot(Top.stmt), W)
    BY <1>5, <1>12 DEF Ok, Available
  <1>. QED BY <1>1, <1>2, <1>5, <1>6, <1>7, <1>8, <1>9, <1>10, <1>11, <1>13 DEF X, Y, W, n

LEMMA StepSame ==
  ASSUME NEW A, NEW F, NEW K, From(A, F, K), mode # "body", UNCHANGED <<program, variables>>,
         NEW B, NEW k, NEW c, Follows(graph, A, graph', B, Excused(program), k, c),
         graph'.cur \in Nat, graph'.cur \in B[graph'.cur]
  PROVE  Step(A, K, B, K, Len(open)) /\ Step(A, K, B, K, Len(open) - 1)
  <1>1. Goes1(program, open, program')
    BY PlacesSame DEF From
  <1>2. Slots(program', K, variables', mode')
    BY SlotsSame
  <1>3. Follows(graph, A, graph', B, Excused(program'), k, c)
    OBVIOUS
  <1>4. K \subseteq K /\ K \subseteq K \cup {This}
    OBVIOUS
  <1>. QED BY <1>1, <1>2, <1>3, <1>4, StepOnto

\* The function ends where its last part has, or in a block after that.
LEMMA OntoPops ==
  ASSUME NEW A, NEW F, NEW K, From(A, F, K), mode = "value", open # <<>>, UNCHANGED <<program, variables>>, open' = Below, mode' = "value",
         NEW B, Onto(graph, A, graph', B, Excused(program)), Ok(graph', value', B[graph'.cur]), ~Rescuing(Top)
  PROVE  Values'
  <1>1. /\ Follows(graph, A, graph', B, Excused(program), Size(graph'), graph'.cur)
        /\ graph'.cur \in Nat /\ graph'.cur \in B[graph'.cur] /\ A[graph.cur] \subseteq B[graph'.cur]
    BY DEF Onto
  <1>2. Step(A, K, B, K, Len(open) - 1)
    BY <1>1, StepSame
  <1>3. /\ F[Len(open) - 1] \subseteq A[graph.cur] /\ F[Len(open)] \subseteq A[graph.cur]
        /\ Top.stmt \in K => Available(graph, Slot(Top.stmt), A[graph.cur])
    BY TopFacts
  <1>4. Top.stmt \in K => Available(graph', Slot(Top.stmt), B[graph'.cur])
    BY <1>1, <1>3 DEF Follows, Available
  <1>5. \A part : Place(A, Top, part, F[Len(open)], A[graph.cur]) \subseteq B[graph'.cur]
    BY <1>1, <1>3 DEF Place
  <1>. QED BY <1>1, <1>2, <1>3, <1>4, <1>5, PopValues

\* It goes on to another part there.
LEMMA OntoMoves ==
  ASSUME NEW A, NEW F, NEW K, From(A, F, K), mode = "value", open # <<>>, program' = program,
         NEW B, NEW L, Step(A, K, B, L, Len(open) - 1), A[graph.cur] \subseteq B[graph'.cur],
         NEW u, open' = Append(Below, u), u.stmt = Top.stmt, u.op = Top.op, NotYet(u) \subseteq NotYet(Top),
         Rescuing(u) <=> Rescuing(Top), Rescuing(u) => u.rescues = Top.rescues /\ u.from = Top.from /\ A[Top.from] \subseteq B[Top.from],
         Stable(graph', B, L, u, B[graph'.cur], F[Len(open) - 1]),
         mode' \in {"statement", "body", "value"}, mode' = "value" => Ok(graph', value', B[graph'.cur]),
         mode' = "body" /\ This \in L => Available(graph', Slot(This), B[graph'.cur])
  PROVE  Values'
  <1> DEFINE X == B[graph'.cur]
  <1>1. F[Len(open) - 1] \subseteq A[graph.cur] /\ F[Len(open)] \subseteq A[graph.cur]
    BY TopFacts
  <1>2. X \in SUBSET Nat
    <2>1. Sound(graph', B, Excused(program')) /\ graph'.cur \in X
      BY DEF Step
    <2>2. graph'.cur \in Nat
      BY DEF Step
    <2>. QED BY <2>1, <2>2 DEF Sound
  <1>3. ASSUME NEW part \in Claimed(u)
        PROVE  /\ part \in Claimed(Top)
               /\ Place(A, Top, part, F[Len(open)], A[graph.cur]) \subseteq Place(B, u, part, X, IF mode' = "value" THEN X ELSE X)
    <2>1. part \in Claimed(Top)
      BY DEF Claimed
    <2>. QED BY <1>1, <2>1 DEF Place
  <1>4. \A part \in (PartsOf(u.op) \ NotYet(Top)) \cap Claimed(u) :
           /\ part \in Claimed(Top)
           /\ Place(A, Top, part, F[Len(open)], A[graph.cur]) \subseteq Place(B, u, part, X, IF mode' = "value" THEN X ELSE X)
    BY <1>3
  <1>5. F[Len(open) - 1] \subseteq X /\ X \subseteq X
    BY <1>1
  <1>. QED BY <1>2, <1>4, <1>5, MoveValues

LEMMA StableQuiet ==
  ASSUME NEW g, NEW B, NEW L, NEW f, f.op \in {"call", "return", "index", "block"}, NEW X, NEW Y, Y \subseteq X,
         f.stmt \in L => f.op = "block" /\ Available(g, Slot(f.stmt), X), \A v \in Kept(f) : Ok(g, v, X)
  PROVE  Stable(g, B, L, f, X, Y)
  <1>1. Waiting(f) = {} /\ ~Rescuing(f) /\ Joined(f) = {} /\ Resumed(f) = {}
    BY DEF Waiting, Rescuing, Joined, Resumed
  <1>. QED BY <1>1 DEF Stable

-----------------------------------------------------------------------------
(* Statements, calls, variables.                                           *)

LEMMA FirstIs == \A x, y : <<x, y>>[1] = x /\ <<x, y>>[2] = y
OBVIOUS

\* An instruction that goes nowhere, and a call.
LEMMA NewEmit ==
  ASSUME NEW A, NEW N, Placed(graph, A, N), NEW instr, instr.targets = <<>>, instr.unwind = 0, instr.op # "invoke",
         \A v \in Members(instr.args) : Exempt(v, instr.id[1], N) \/ Available(graph, v, A[graph.cur])
  PROVE  Onto(graph, A, Emit(graph, instr), A, N) /\ Ok(Emit(graph, instr), instr.id, A[Emit(graph, instr).cur])
  <1>1. Members(instr.targets) = {}
    BY MembersOf
  <1>2. \A x : ~GoesTo(instr, x)
    BY <1>1 DEF GoesTo
  <1>3. Fine(instr, graph, A, N, graph.cur)
    BY <1>2 DEF Fine
  <1>. QED BY <1>3, OntoEmit DEF Ok

LEMMA LiteralValues == ASSUME NEW A, NEW F, NEW K, From(A, F, K), Literal PROVE Values'
  <1>1. /\ mode = "statement" /\ program' = Append(program, Node("literal", "none")) /\ UNCHANGED <<variables, open>>
        /\ mode' = "value" /\ value' = <<This, "value">> /\ graph' = Emit(graph, Instr("load", <<This, "value">>, <<>>))
    BY DEF Literal, Starts, Writes, Yields
  <1>2. Placed(graph, A, Excused(program'))
    BY <1>1, StatementOpen, NewPlaces DEF From
  <1> DEFINE i == Instr("load", <<This, "value">>, <<>>)
  <1>3. i.targets = <<>> /\ i.unwind = 0 /\ i.op # "invoke" /\ i.id = <<This, "value">> /\ i.args = <<>>
    BY DEF Instr
  <1>4. Members(i.args) = {}
    BY <1>3, MembersOf
  <1> HIDE DEF i
  <1>5. Onto(graph, A, Emit(graph, i), A, Excused(program')) /\ Ok(Emit(graph, i), i.id, A[Emit(graph, i).cur])
    BY <1>2, <1>3, <1>4, NewEmit
  <1>6. Onto(graph, A, graph', A, Excused(program')) /\ Ok(graph', value', A[graph'.cur])
    BY <1>1, <1>3, <1>5 DEF i
  <1>. QED BY <1>1, <1>6, StartStays

LEMMA NoneOk == \A g, X : Ok(g, Null, X) /\ Ok(g, NullPtr, X) /\ Ok(g, True, X) /\ Ok(g, False, X)
BY DEF Ok, Const, Null, NullPtr, True, False

LEMMA AbsentValues == ASSUME NEW A, NEW F, NEW K, From(A, F, K), Absent PROVE Values'
  <1>1. /\ mode = "statement" /\ program' = Append(program, Node("absent", "none")) /\ UNCHANGED <<variables, open, graph>>
        /\ mode' = "value" /\ value' = Null
    BY DEF Absent, Starts, Writes, Yields
  <1>2. Placed(graph, A, Excused(program'))
    BY <1>1, StatementOpen, NewPlaces DEF From
  <1>3. Onto(graph, A, graph', A, Excused(program')) /\ Ok(graph', value', A[graph'.cur])
    BY <1>1, <1>2, OntoNothing, NoneOk
  <1>. QED BY <1>1, <1>3, StartStays

LEMMA CallStays ==
  ASSUME NEW A, NEW F, NEW K, From(A, F, K), mode = "statement", NEW kind, NEW name, program' = Append(program, Node(kind, name)),
         UNCHANGED <<variables, open>>, kind # "assign", mode' = "value",
         graph' = LangCall(graph, <<This, "value">>, <<>>), value' = <<This, "value">>
  PROVE  Values'
  <1>1. Placed(graph, A, Excused(program')) /\ PadIn(A, graph.cur)
    BY StatementOpen, NewPlaces, Facts DEF From
  <1> DEFINE id == <<This, "value">>
  <1>2. PICK B : /\ Onto(graph, A, LangCall(graph, id, <<>>), B, Excused(program'))
                 /\ Available(LangCall(graph, id, <<>>), id, B[LangCall(graph, id, <<>>).cur])
    <2> HIDE DEF id
    <2>1. Members(<<>>) = {}
      BY MembersOf
    <2>. QED BY <1>1, <2>1, OntoLangCall
  <1>3. Onto(graph, A, graph', B, Excused(program')) /\ Ok(graph', value', B[graph'.cur])
    BY <1>2 DEF Ok
  <1>. QED BY <1>3, StartStays

LEMMA CallStartsValues == ASSUME NEW A, NEW F, NEW K, From(A, F, K), NEW n \in Nat, CallStarts(n) PROVE Values'
  <1>1. mode = "statement" /\ program' = Append(program, Node("call", "none")) /\ UNCHANGED variables
    BY DEF CallStarts, Starts, Writes
  <1>2. CASE n = 0
    <2>1. graph' = LangCall(graph, <<This, "value">>, <<>>) /\ mode' = "value" /\ value' = <<This, "value">> /\ UNCHANGED open
      BY <1>2 DEF CallStarts, Yields
    <2>. QED BY <1>1, <2>1, CallStays
  <1>3. CASE n # 0
    <2> DEFINE f == [Running("call", "operand", This) EXCEPT !.left = n]
    <2>1. open' = Append(open, f) /\ mode' = "statement" /\ UNCHANGED graph
      BY <1>3 DEF CallStarts, Push, Generate
    <2>2. f.op = "call" /\ f.part = "operand" /\ f.args = <<>> /\ f.stmt = This
      BY DEF Running
    <2> HIDE DEF f
    <2>. QED BY <1>1, <2>1, <2>2, StartPushes
  <1>. QED BY <1>2, <1>3

LEMMA ReturnStartsValues == ASSUME NEW A, NEW F, NEW K, From(A, F, K), NEW n \in Nat, ReturnStarts(n) PROVE Values'
  <1>1. mode = "statement" /\ program' = Append(program, Node("return", "none")) /\ UNCHANGED variables
    BY DEF ReturnStarts, Starts, Writes
  <1>2. CASE n = 0
    <2>1. graph' = Emit(graph, To("return", <<>>, <<>>)) /\ mode' = "value" /\ value' = Null /\ UNCHANGED open
      BY <1>2 DEF ReturnStarts, Yields
    <2>2. Placed(graph, A, Excused(program'))
      BY <1>1, StatementOpen, NewPlaces DEF From
    <2> DEFINE i == To("return", <<>>, <<>>)
    <2>3. i.targets = <<>> /\ i.unwind = 0 /\ i.op # "invoke" /\ i.args = <<>>
      BY DEF To, Instr
    <2>4. Members(i.args) = {}
      BY <2>3, MembersOf
    <2> HIDE DEF i
    <2>5. Onto(graph, A, Emit(graph, i), A, Excused(program'))
      BY <2>2, <2>3, <2>4, NewEmit
    <2>6. Onto(graph, A, graph', A, Excused(program')) /\ Ok(graph', value', A[graph'.cur])
      BY <2>1, <2>5, NoneOk DEF i
    <2>. QED BY <1>1, <2>1, <2>6, StartStays
  <1>3. CASE n # 0
    <2> DEFINE f == [Running("return", "operand", This) EXCEPT !.left = n]
    <2>1. open' = Append(open, f) /\ mode' = "statement" /\ UNCHANGED graph
      BY <1>3 DEF ReturnStarts, Push, Generate
    <2>2. f.op = "return" /\ f.part = "operand" /\ f.args = <<>> /\ f.stmt = This
      BY DEF Running
    <2> HIDE DEF f
    <2>. QED BY <1>1, <2>1, <2>2, StartPushes
  <1>. QED BY <1>2, <1>3

LEMMA BlockStartsValues == ASSUME NEW A, NEW F, NEW K, From(A, F, K), BlockStarts PROVE Values'
  <1> DEFINE f == Running("block", "list", This)
  <1>1. /\ mode \in {"statement", "body"} /\ program' = Append(program, Node("block", "none")) /\ UNCHANGED <<graph, variables>>
        /\ open' = Append(open, f) /\ mode' = "value" /\ value' = Null
    BY DEF BlockStarts, Starts, Writes, Push, Yields
  <1>2. f.op = "block" /\ f.part = "list" /\ f.args = <<>> /\ f.stmt = This
    BY DEF Running
  <1> HIDE DEF f
  <1>. QED BY <1>1, <1>2, StartPushes

LEMMA PlainStartsValues == ASSUME NEW A, NEW F, NEW K, From(A, F, K), IndexStarts \/ \E else \in BOOLEAN : IfStarts(else) PROVE Values'
  <1>1. CASE IndexStarts
    <2> DEFINE f == [Running("index", "operand", This) EXCEPT !.left = 2]
    <2>1. /\ mode = "statement" /\ program' = Append(program, Node("index", "none")) /\ UNCHANGED <<graph, variables>>
          /\ open' = Append(open, f) /\ mode' = "statement"
      BY <1>1 DEF IndexStarts, Starts, Writes, Push, Generate
    <2>2. f.op = "index" /\ f.part = "operand" /\ f.args = <<>> /\ f.stmt = This
      BY DEF Running
    <2> HIDE DEF f
    <2>. QED BY <2>1, <2>2, StartPushes
  <1>2. ASSUME NEW else \in BOOLEAN, IfStarts(else) PROVE Values'
    <2> DEFINE f == [Running("if", "condition", This) EXCEPT !.optional = else]
    <2>1. /\ mode = "statement" /\ program' = Append(program, Node("if", "none")) /\ UNCHANGED <<graph, variables>>
          /\ open' = Append(open, f) /\ mode' = "statement"
      BY <1>2 DEF IfStarts, Starts, Writes, Push, Generate
    <2>2. f.op = "if" /\ f.part = "condition" /\ f.args = <<>> /\ f.stmt = This
      BY DEF Running
    <2> HIDE DEF f
    <2>. QED BY <2>1, <2>2, StartPushes
  <1>. QED BY <1>1, <1>2

LEMMA CaseStartsValues == ASSUME NEW A, NEW F, NEW K, From(A, F, K), NEW whens, CaseStarts(whens) PROVE Values'
  <1>1. mode = "statement" /\ program' = Append(program, Node("case", "none")) /\ UNCHANGED <<graph, variables>>
    BY DEF CaseStarts, Starts, Writes
  <1>2. CASE whens = 1
    <2> DEFINE f == Running("if", "condition", This)
    <2>1. open' = Append(open, f) /\ mode' = "statement"
      BY <1>2 DEF CaseStarts, Push, Generate
    <2>2. f.op = "if" /\ f.part = "condition" /\ f.args = <<>> /\ f.stmt = This
      BY DEF Running
    <2> HIDE DEF f
    <2>. QED BY <1>1, <2>1, <2>2, StartPushes
  <1>3. CASE whens # 1
    BY <1>3, CrashValues DEF CaseStarts
  <1>. QED BY <1>2, <1>3

LEMMA ReadStartsValues == ASSUME NEW A, NEW F, NEW K, From(A, F, K), NEW name \in Names, ReadStarts(name) PROVE Values'
  <1>1. mode = "statement" /\ UNCHANGED <<variables, open>> /\ mode' = "value" /\ value' = <<This, "value">>
    BY DEF ReadStarts, Starts, Yields
  <1>2. CASE variables[name] = Null
    <2>1. program' = Append(program, Node("call", name)) /\ graph' = LangCall(graph, <<This, "value">>, <<>>)
      BY <1>2 DEF ReadStarts, Writes
    <2>. QED BY <1>1, <2>1, CallStays
  <1>3. CASE variables[name] # Null
    <2> DEFINE slot == variables[name]
               i == Instr("load", <<This, "value">>, <<slot>>)
    <2>1. program' = Append(program, Node("read", name)) /\ graph' = Emit(graph, i)
      BY <1>3 DEF ReadStarts, Writes
    <2>2. Placed(graph, A, Excused(program')) /\ Uses(A, K, This, Excused(program'))
      BY <1>1, <2>1, StatementOpen, NewPlaces, NewUses DEF From
    <2>3. i.targets = <<>> /\ i.unwind = 0 /\ i.op # "invoke" /\ i.id = <<This, "value">> /\ i.args = <<slot>>
      BY DEF Instr
    <2>4. Members(i.args) = {slot}
      BY <2>3, MembersOf
    <2>5. i.id[1] = This
      BY <2>3, FirstIs
    <2>6. Const(slot) \/ \E a \in K : slot = Slot(a)
      BY DEF From, Carries, Slots
    <2> HIDE DEF i, slot
    <2>7. Exempt(slot, This, Excused(program')) \/ Available(graph, slot, A[graph.cur])
      BY <2>2, <2>6 DEF Uses, Exempt
    <2>8. Onto(graph, A, Emit(graph, i), A, Excused(program')) /\ Ok(Emit(graph, i), i.id, A[Emit(graph, i).cur])
      BY <2>2, <2>3, <2>4, <2>5, <2>7, NewEmit
    <2>9. Onto(graph, A, graph', A, Excused(program')) /\ Ok(graph', value', A[graph'.cur])
      BY <1>1, <2>1, <2>3, <2>8
    <2>. QED BY <1>1, <2>1, <2>9, StartStays
  <1>. QED BY <1>2, <1>3

LEMMA TopCall ==
  ASSUME NEW A, NEW F, NEW K, From(A, F, K), open # <<>>, NEW id, NEW args, \A v \in Members(args) : Ok(graph, v, A[graph.cur])
  PROVE  \E B : /\ Onto(graph, A, LangCall(graph, id, args), B, Excused(program))
                /\ Available(LangCall(graph, id, args), id, B[LangCall(graph, id, args).cur])
  <1>1. Placed(graph, A, Excused(program)) /\ PadIn(A, graph.cur)
    BY TopFacts
  <1>2. \A v \in Members(args) : Exempt(v, id[1], Excused(program)) \/ Available(graph, v, A[graph.cur])
    BY OkExempt
  <1>. QED BY <1>1, <1>2, OntoLangCall

\* The values of a function's parts, with the one it has just been given.
LEMMA MoreArgs ==
  ASSUME NEW A, NEW F, NEW K, From(A, F, K), mode = "value", open # <<>>, Members(Top.args) \subseteq Kept(Top)
  PROVE  /\ \A v \in Members(Append(Top.args, value)) : Ok(graph, v, A[graph.cur])
         /\ Members(Append(Top.args, value)) = Members(Top.args) \cup {value}
  <1>1. Top.args \in Seq(IdsUpTo(Len(program))) /\ (\A v \in Kept(Top) : Ok(graph, v, A[graph.cur])) /\ Ok(graph, value, A[graph.cur])
    BY TopFacts, Facts
  <1>2. Members(Append(Top.args, value)) = Members(Top.args) \cup {value}
    BY <1>1, MembersOf
  <1>. QED BY <1>1, <1>2

LEMMA NextOperandValues ==
  ASSUME NEW A, NEW F, NEW K, From(A, F, K), mode = "value", open # <<>>, Top.op \in {"call", "return", "index"}, Top.part = "operand",
         NextOperand, UNCHANGED <<program, variables>>
  PROVE  Values'
  <1> DEFINE u == [Top EXCEPT !.left = @ - 1, !.args = Append(@, value)]
             w == [Top EXCEPT !.left = Top.left - 1, !.part = "operand", !.args = Append(@, value)]
  <1>1. open' = Append(Below, u) /\ mode' = "statement" /\ UNCHANGED graph
    BY DEF NextOperand, TopIs, Generate
  <1>2. Typed /\ Placed(graph, A, Excused(program)) /\ Top.args \in Seq(IdsUpTo(Len(program))) /\ Top \in FramesOf(Len(program))
        /\ Top.left \in Int
    <2>1. Typed /\ Placed(graph, A, Excused(program)) /\ Top.args \in Seq(IdsUpTo(Len(program))) /\ Top \in FramesOf(Len(program))
      BY TopFacts, TypedParts
    <2>. QED BY <2>1 DEF FramesOf
  <1>3. /\ u.op = Top.op /\ u.part = "operand" /\ u.stmt = Top.stmt /\ u.rescues = Top.rescues /\ u.from = Top.from
        /\ Members(u.args) = Members(Top.args) \cup {value}
    <2> DEFINE t == Top
               x == [t EXCEPT !.left = @ - 1, !.args = Append(@, value)]
    <2>1. t \in FramesOf(Len(program)) /\ t.part = "operand"
      BY <1>2
    <2>2. Members(Append(t.args, value)) = Members(t.args) \cup {value}
      BY <1>2, MembersOf
    <2> HIDE DEF t
    <2>3. /\ x.op = t.op /\ x.part = t.part /\ x.stmt = t.stmt /\ x.rescues = t.rescues /\ x.from = t.from
          /\ x.args = Append(t.args, value)
      BY <2>1 DEF FramesOf
    <2> HIDE DEF x
    <2>4. Members(x.args) = Members(t.args) \cup {value}
      BY <2>2, <2>3
    <2>. QED BY <2>1, <2>3, <2>4 DEF t, x
  <1>4. Members(Top.args) = Kept(Top)
    BY DEF Kept, Rescuing
  <1>5. \A v \in Members(Top.args) \cup {value} : Ok(graph, v, A[graph.cur])
    BY <1>4, MoreArgs
  <1> HIDE DEF u, w
  <1>6. Kept(u) = Members(u.args)
    BY <1>3 DEF Kept, Rescuing
  <1>7. Onto(graph, A, graph', A, Excused(program))
    BY <1>1, <1>2, OntoNothing
  <1>8. Step(A, K, A, K, Len(open) - 1)
    BY <1>7, StepSame DEF Onto
  <1>9. F[Len(open) - 1] \subseteq A[graph.cur] /\ (Top.stmt \in K => Top.op \in {"assign", "block"})
    BY TopFacts
  <1> DEFINE X == A[graph.cur]
             Y == F[Len(open) - 1]
  <1>10. Y \subseteq X /\ u.stmt \notin K /\ \A v \in Kept(u) : Ok(graph, v, X)
    BY <1>3, <1>5, <1>6, <1>9
  <1> HIDE DEF X, Y
  <1>11. Stable(graph, A, K, u, X, Y)
    BY <1>3, <1>10, StableQuiet
  <1>12. Stable(graph', A, K, u, A[graph'.cur], F[Len(open) - 1])
    BY <1>1, <1>11 DEF X, Y
  <1>13. ~Rescuing(u) /\ ~Rescuing(Top) /\ NotYet(u) \subseteq NotYet(Top)
    BY <1>3 DEF Rescuing, NotYet
  <1>14. A[graph.cur] \subseteq A[graph'.cur]
    BY <1>1
  <1>. QED BY <1>1, <1>3, <1>8, <1>12, <1>13, <1>14, OntoMoves

LEMMA CrashesValues == Crashes => Values'
BY CrashValues DEF Crashes

LEMMA CallOperandValues == ASSUME NEW A, NEW F, NEW K, From(A, F, K), CallOperand PROVE Values'
  <1>1. mode = "value" /\ open # <<>> /\ Top.op = "call" /\ Top.part = "operand" /\ UNCHANGED <<program, variables>>
    BY DEF CallOperand, Has
  <1>2. CASE value = Null
    BY <1>2, CrashesValues DEF CallOperand
  <1>3. CASE value # Null /\ Top.left > 1
    BY <1>1, <1>3, NextOperandValues DEF CallOperand
  <1>4. CASE value # Null /\ ~(Top.left > 1)
    <2> DEFINE id   == <<Top.stmt, "value">>
               args == Append(Top.args, value)
    <2>1. graph' = LangCall(graph, id, args) /\ open' = Below /\ mode' = "value" /\ value' = id
      BY <1>4 DEF CallOperand, Yields
    <2>2. Members(Top.args) \subseteq Kept(Top) /\ ~Rescuing(Top)
      BY <1>1 DEF Kept, Rescuing
    <2>3. \A v \in Members(args) : Ok(graph, v, A[graph.cur])
      BY <1>1, <2>2, MoreArgs
    <2> HIDE DEF id, args
    <2>4. PICK B : Onto(graph, A, graph', B, Excused(program)) /\ Available(graph', id, B[graph'.cur])
      BY <1>1, <2>1, <2>3, TopCall
    <2>5. Ok(graph', value', B[graph'.cur])
      BY <2>1, <2>4 DEF Ok
    <2>. QED BY <1>1, <2>1, <2>2, <2>4, <2>5, OntoPops
  <1>. QED BY <1>2, <1>3, <1>4

\* The end of a function with an instruction that goes nowhere.
LEMMA EmitPops ==
  ASSUME NEW A, NEW F, NEW K, From(A, F, K), mode = "value", open # <<>>, UNCHANGED <<program, variables>>, open' = Below, mode' = "value",
         ~Rescuing(Top), NEW g, NEW B, Onto(graph, A, g, B, Excused(program)), NEW instr, instr.targets = <<>>, instr.unwind = 0, instr.op # "invoke",
         \A v \in Members(instr.args) : Exempt(v, instr.id[1], Excused(program)) \/ Available(g, v, B[g.cur]),
         graph' = Emit(g, instr), value' = instr.id \/ Ok(g, value', B[g.cur])
  PROVE  Values'
  <1>1. Placed(g, B, Excused(program))
    BY OntoPlaced
  <1>2. Members(instr.targets) = {}
    BY MembersOf
  <1>3. \A x : ~GoesTo(instr, x)
    BY <1>2 DEF GoesTo
  <1>4. Fine(instr, g, B, Excused(program), g.cur)
    BY <1>3 DEF Fine
  <1>5. Onto(g, B, graph', B, Excused(program)) /\ Available(graph', instr.id, B[g.cur]) /\ graph'.cur = g.cur
    BY <1>1, <1>4, OntoEmit
  <1>6. Onto(graph, A, graph', B, Excused(program))
    BY <1>5, OntoTwice
  <1>7. Ok(graph', value', B[graph'.cur])
    <2>1. \A v, d, j : Site(g, v, d, j) => Site(graph', v, d, j)
      BY <1>5 DEF Onto, Follows
    <2>. QED BY <1>5, <2>1 DEF Ok, Available
  <1>. QED BY <1>6, <1>7, OntoPops

LEMMA ReturnOperandValues == ASSUME NEW A, NEW F, NEW K, From(A, F, K), ReturnOperand PROVE Values'
  <1> DEFINE array    == <<Top.stmt, "value">>
             operands == Append(Top.args, value)
             returned == IF Len(operands) > 1 THEN <<array>> ELSE IF value = Null THEN <<>> ELSE <<value>>
             called   == IF Len(operands) > 1 THEN LangCall(graph, array, operands) ELSE graph
             instr    == To("return", returned, <<>>)
  <1>1. mode = "value" /\ open # <<>> /\ Top.op = "return" /\ Top.part = "operand" /\ UNCHANGED <<program, variables>>
    BY DEF ReturnOperand, Has
  <1>2. CASE Top.left > 1
    BY <1>1, <1>2, NextOperandValues DEF ReturnOperand
  <1>3. CASE ~(Top.left > 1)
    <2>1. Crashes \/ (graph' = Emit(called, instr) /\ open' = Below /\ mode' = "value" /\ value' = Null)
      BY <1>3 DEF ReturnOperand, Yields
    <2>2. Members(Top.args) \subseteq Kept(Top) /\ ~Rescuing(Top)
      BY <1>1 DEF Kept, Rescuing
    <2>3. \A v \in Members(operands) : Ok(graph, v, A[graph.cur])
      BY <1>1, <2>2, MoreArgs
    <2>4. Ok(graph, value, A[graph.cur]) /\ Placed(graph, A, Excused(program))
      BY <1>1, Facts
    <2>5. instr.targets = <<>> /\ instr.unwind = 0 /\ instr.op # "invoke" /\ instr.args = returned
      BY DEF To, Instr
    <2> HIDE DEF array, operands
    <2>6. \E B : Onto(graph, A, called, B, Excused(program)) /\ \A v \in Members(returned) : Ok(called, v, B[called.cur])
      <3>1. CASE Len(operands) > 1
        <4>1. PICK B : /\ Onto(graph, A, LangCall(graph, array, operands), B, Excused(program))
                       /\ Available(LangCall(graph, array, operands), array, B[LangCall(graph, array, operands).cur])
          BY <1>1, <2>3, TopCall
        <4>2. Members(returned) = {array}
          BY <3>1, MembersOf
        <4>. QED BY <3>1, <4>1, <4>2 DEF Ok
      <3>2. CASE ~(Len(operands) > 1)
        <4>1. Onto(graph, A, graph, A, Excused(program))
          BY <2>4, OntoNothing
        <4>2. Members(returned) \subseteq {value}
          BY <3>2, MembersOf
        <4>3. called = graph
          BY <3>2
        <4> HIDE DEF called, returned
        <4>. QED BY <2>4, <4>1, <4>2, <4>3
      <3>. QED BY <3>1, <3>2
    <2> HIDE DEF called, returned, instr
    <2>7. PICK B : Onto(graph, A, called, B, Excused(program)) /\ \A v \in Members(returned) : Ok(called, v, B[called.cur])
      BY <2>6
    <2>8. \A v \in Members(instr.args) : Exempt(v, instr.id[1], Excused(program)) \/ Available(called, v, B[called.cur])
      BY <2>5, <2>7, OkExempt
    <2>9. CASE Crashes
      BY <2>9, CrashesValues
    <2>10. CASE graph' = Emit(called, instr) /\ open' = Below /\ mode' = "value" /\ value' = Null
      <3>1. Ok(called, value', B[called.cur])
        BY <2>10, NoneOk
      <3>. QED BY <1>1, <2>2, <2>5, <2>7, <2>8, <2>10, <3>1, EmitPops
    <2>. QED BY <2>1, <2>9, <2>10
  <1>. QED BY <1>2, <1>3

LEMMA BlockGoesOnValues == ASSUME NEW A, NEW F, NEW K, From(A, F, K), BlockGoesOn PROVE Values'
  <1>1. /\ mode = "value" /\ open # <<>> /\ Top.op = "block" /\ Top.part = "list" /\ UNCHANGED <<program, variables, graph, open>>
        /\ mode' = "statement"
    BY DEF BlockGoesOn, Has, Generate
  <1>2. /\ Typed /\ Placed(graph, A, Excused(program)) /\ F[Len(open) - 1] \subseteq A[graph.cur]
        /\ Top.stmt \in K => Available(graph, Slot(Top.stmt), A[graph.cur])
    BY <1>1, TopFacts
  <1>3. Onto(graph, A, graph', A, Excused(program))
    BY <1>1, <1>2, OntoNothing
  <1>4. Step(A, K, A, K, Len(open) - 1)
    BY <1>1, <1>3, StepSame DEF Onto
  <1>5. open' = Append(Below, Top)
    <2>1. PICK n \in Nat : /\ n = Len(open) /\ DOMAIN open = 1 .. n /\ DOMAIN Append(Below, Top) = 1 .. n /\ Append(Below, Top)[n] = Top
                           /\ (\A i \in 1 .. n - 1 : Append(Below, Top)[i] = open[i]) /\ n >= 1 /\ Top = open[n]
      BY <1>1, <1>2, StackDomains
    <2>2. \E S : open \in Seq(S) /\ Append(Below, Top) \in Seq(S)
      <3>1. open \in Seq(FramesOf(Len(program)))
        BY <1>2 DEF Typed
      <3>2. Top \in FramesOf(Len(program)) /\ Below \in Seq(FramesOf(Len(program)))
        BY <1>1, <3>1, StackChanges
      <3>. QED BY <3>1, <3>2, AppendProperties
    <2> DEFINE t == Append(Below, Top)
               s == open
    <2>3. \A i \in 1 .. n : t[i] = s[i]
      BY <2>1
    <2>4. (\E S : s \in Seq(S) /\ t \in Seq(S)) /\ Len(t) = n /\ Len(s) = n
      <3>1. DOMAIN t = 1 .. n
        BY <2>1
      <3>. QED BY <2>1, <2>2, <3>1
    <2> HIDE DEF t, s
    <2>5. s = t
      BY <2>3, <2>4
    <2>. QED BY <1>1, <2>5 DEF s, t
  <1>6. \A v \in Kept(Top) : Ok(graph, v, A[graph.cur])
    BY <1>1, TopFacts
  <1> DEFINE X == A[graph.cur]
             Y == F[Len(open) - 1]
             f == Top
  <1>7. Y \subseteq X /\ (f.stmt \in K => f.op = "block" /\ Available(graph, Slot(f.stmt), X)) /\ f.op = "block" /\ \A v \in Kept(f) : Ok(graph, v, X)
    BY <1>1, <1>2, <1>6
  <1> HIDE DEF X, Y, f
  <1>8. Stable(graph, A, K, f, X, Y)
    BY <1>7, StableQuiet
  <1>9. Stable(graph', A, K, Top, A[graph'.cur], F[Len(open) - 1])
    BY <1>1, <1>8 DEF X, Y, f
  <1>10. ~Rescuing(Top) /\ A[graph.cur] \subseteq A[graph'.cur]
    BY <1>1 DEF Rescuing
  <1>. QED BY <1>1, <1>4, <1>5, <1>9, <1>10, OntoMoves

LEMMA BlockEndsValues == ASSUME NEW A, NEW F, NEW K, From(A, F, K), BlockEnds PROVE Values'
  <1> DEFINE nil == <<Top.stmt, "nil">>
             i   == Instr("load", nil, <<>>)
  <1>1. /\ mode = "value" /\ open # <<>> /\ Top.op = "block" /\ UNCHANGED <<program, variables>> /\ open' = Below /\ mode' = "value"
        /\ IF value # Null THEN value' = value /\ UNCHANGED graph ELSE value' = nil /\ graph' = Emit(graph, i)
    BY DEF BlockEnds, Has, Yields
  <1>2. ~Rescuing(Top) /\ Ok(graph, value, A[graph.cur]) /\ Placed(graph, A, Excused(program))
    BY <1>1, Facts DEF Rescuing
  <1>3. Onto(graph, A, graph, A, Excused(program))
    BY <1>2, OntoNothing
  <1>4. CASE value # Null
    <2>1. Onto(graph, A, graph', A, Excused(program)) /\ Ok(graph', value', A[graph'.cur])
      BY <1>1, <1>2, <1>3, <1>4
    <2>. QED BY <1>1, <1>2, <2>1, OntoPops
  <1>5. CASE value = Null
    <2>1. i.targets = <<>> /\ i.unwind = 0 /\ i.op # "invoke" /\ i.args = <<>> /\ i.id = nil
      BY DEF Instr
    <2>2. Members(i.args) = {}
      BY <2>1, MembersOf
    <2>3. value' = nil /\ graph' = Emit(graph, i)
      BY <1>1, <1>5
    <2> HIDE DEF i, nil
    <2>4. value' = i.id
      BY <2>1, <2>3
    <2>. QED BY <1>1, <1>2, <1>3, <2>1, <2>2, <2>3, <2>4, EmitPops
  <1>. QED BY <1>4, <1>5

LEMMA AssignOperandValues == ASSUME NEW A, NEW F, NEW K, From(A, F, K), AssignOperand PROVE Values'
  <1>1. mode = "value" /\ open # <<>> /\ Top.op = "assign" /\ UNCHANGED <<program, variables>>
    BY DEF AssignOperand, Has
  <1>2. CASE value = Null
    BY <1>2, CrashesValues DEF AssignOperand
  <1>3. CASE value # Null
    <2> DEFINE id   == <<Top.stmt, "stored">>
               args == Append(Top.args, value)
               i    == Instr("store", id, args)
    <2>1. graph' = Emit(graph, i) /\ open' = Below /\ mode' = "value" /\ value' = value
      BY <1>3 DEF AssignOperand, Yields
    <2>2. i.targets = <<>> /\ i.unwind = 0 /\ i.op # "invoke" /\ i.args = args /\ i.id = id /\ i.id[1] = Top.stmt
      BY DEF Instr
    <2>3. /\ Stable(graph, A, K, Top, F[Len(open)], F[Len(open) - 1]) /\ Placed(graph, A, Excused(program)) /\ Top.args \in Seq(IdsUpTo(Len(program)))
          /\ Uses(A, K, Top.stmt, Excused(program)) /\ Ok(graph, value, A[graph.cur])
      BY <1>1, TopFacts, TopUses, Facts
    <2>4. PICK v : Top.args = <<v>> /\ (Const(v) \/ \E a \in K : v = Slot(a))
      BY <1>1, <2>3 DEF Stable
    <2>5. Members(args) = {v, value}
      <3>1. Members(Append(Top.args, value)) = Members(Top.args) \cup {value} /\ Members(Top.args) = {v}
        BY <2>3, <2>4, MembersOf
      <3>. QED BY <3>1
    <2>6. Exempt(v, Top.stmt, Excused(program)) \/ Available(graph, v, A[graph.cur])
      BY <2>3, <2>4 DEF Uses, Exempt
    <2>7. Exempt(value, Top.stmt, Excused(program)) \/ Available(graph, value, A[graph.cur])
      BY <2>3, OkExempt
    <2> HIDE DEF i, args, id
    <2>8. \A w \in Members(i.args) : Exempt(w, i.id[1], Excused(program)) \/ Available(graph, w, A[graph.cur])
      BY <2>2, <2>5, <2>6, <2>7
    <2>9. Onto(graph, A, graph, A, Excused(program)) /\ ~Rescuing(Top) /\ Ok(graph, value', A[graph.cur])
      BY <1>1, <2>1, <2>3, OntoNothing DEF Rescuing
    <2>. QED BY <1>1, <2>1, <2>2, <2>8, <2>9, EmitPops
  <1>. QED BY <1>2, <1>3

LEMMA IndexOperandValues == ASSUME NEW A, NEW F, NEW K, From(A, F, K), IndexOperand PROVE Values'
  <1>1. mode = "value" /\ open # <<>> /\ Top.op = "index" /\ Top.part = "operand" /\ UNCHANGED <<program, variables>>
    BY DEF IndexOperand, Has
  <1>2. CASE value = Null
    BY <1>2, CrashesValues DEF IndexOperand
  <1>3. CASE value # Null /\ Top.left > 1
    BY <1>1, <1>3, NextOperandValues DEF IndexOperand
  <1>4. CASE value # Null /\ ~(Top.left > 1)
    <2> DEFINE id   == <<Top.stmt, "before">>
               args == Append(Top.args, value)
               u    == [Top EXCEPT !.part = "right", !.args = Append(@, value)]
    <2>1. graph' = LangCall(graph, id, args) /\ open' = Append(Below, u) /\ mode' = "statement"
      BY <1>4 DEF IndexOperand, TopIs, Generate
    <2>2. Members(Top.args) \subseteq Kept(Top) /\ ~Rescuing(Top)
      BY <1>1 DEF Kept, Rescuing
    <2>3. (\A v \in Members(args) : Ok(graph, v, A[graph.cur])) /\ Members(args) = Members(Top.args) \cup {value}
      BY <1>1, <2>2, MoreArgs
    <2>4. /\ u.op = "index" /\ u.part = "right" /\ u.stmt = Top.stmt /\ u.args = args
      <3> DEFINE t == Top
                 x == [t EXCEPT !.part = "right", !.args = Append(@, value)]
      <3>1. t \in FramesOf(Len(program)) /\ t.op = "index"
        BY <1>1, TopFacts, TypedParts
      <3> HIDE DEF t
      <3>2. x.op = "index" /\ x.part = "right" /\ x.stmt = t.stmt /\ x.args = Append(t.args, value)
        BY <3>1 DEF FramesOf
      <3>. QED BY <3>2 DEF t
    <2> HIDE DEF args, u, id
    <2>5. PICK B : Onto(graph, A, graph', B, Excused(program)) /\ Available(graph', id, B[graph'.cur])
      BY <1>1, <2>1, <2>3, TopCall
    <2>6. Step(A, K, B, K, Len(open) - 1) /\ A[graph.cur] \subseteq B[graph'.cur] /\ \A v, d, j : Site(graph, v, d, j) => Site(graph', v, d, j)
      <3>1. /\ Follows(graph, A, graph', B, Excused(program), Size(graph'), graph'.cur)
            /\ graph'.cur \in Nat /\ graph'.cur \in B[graph'.cur] /\ A[graph.cur] \subseteq B[graph'.cur]
        BY <2>5 DEF Onto
      <3>2. \A v, d, j : Site(graph, v, d, j) => Site(graph', v, d, j)
        BY <3>1 DEF Follows
      <3>. QED BY <1>1, <3>1, <3>2, StepSame
    <2>7. Kept(u) = Members(args) \cup {id}
      BY <2>4 DEF Kept, Rescuing, id
    <2>8. \A v \in Members(args) : Ok(graph', v, B[graph'.cur])
      BY <2>3, <2>6, AvailableLater
    <2>9. \A v \in Kept(u) : Ok(graph', v, B[graph'.cur])
      BY <2>5, <2>7, <2>8 DEF Ok
    <2>10. F[Len(open) - 1] \subseteq A[graph.cur] /\ u.stmt \notin K
      BY <1>1, <2>4, TopFacts
    <2> DEFINE X == B[graph'.cur]
               Y == F[Len(open) - 1]
    <2>11. Y \subseteq X /\ \A v \in Kept(u) : Ok(graph', v, X)
      BY <2>6, <2>9, <2>10
    <2> HIDE DEF X, Y
    <2>12. Stable(graph', B, K, u, X, Y)
      BY <2>4, <2>10, <2>11, StableQuiet
    <2>13. Stable(graph', B, K, u, B[graph'.cur], F[Len(open) - 1])
      BY <2>12 DEF X, Y
    <2>14. ~Rescuing(u) /\ NotYet(u) \subseteq NotYet(Top) /\ u.op = Top.op
      BY <1>1, <2>4 DEF Rescuing, NotYet
    <2>. QED BY <1>1, <2>1, <2>2, <2>4, <2>6, <2>13, <2>14, OntoMoves
  <1>. QED BY <1>2, <1>3, <1>4

LEMMA IndexRightValues == ASSUME NEW A, NEW F, NEW K, From(A, F, K), IndexRight PROVE Values'
  <1>1. mode = "value" /\ open # <<>> /\ Top.op = "index" /\ Top.part = "right" /\ UNCHANGED <<program, variables>>
    BY DEF IndexRight, Has
  <1>2. CASE value = Null
    BY <1>2, CrashesValues DEF IndexRight
  <1>3. CASE value # Null
    <2> DEFINE before == <<Top.stmt, "before">>
               id1 == <<Top.stmt, "operated">>
               id2 == <<Top.stmt, "value">>
               h   == LangCall(graph, id1, <<before, value>>)
               args == Append(Top.args, id1)
    <2>1. graph' = LangCall(h, id2, args) /\ open' = Below /\ mode' = "value" /\ value' = id2
      BY <1>3 DEF IndexRight, Yields
    <2>2. Kept(Top) = Members(Top.args) \cup {before} /\ ~Rescuing(Top)
      BY <1>1 DEF Kept, Rescuing
    <2>3. (\A v \in Kept(Top) : Ok(graph, v, A[graph.cur])) /\ Ok(graph, value, A[graph.cur]) /\ Sound(graph, A, Excused(program))
          /\ Top.args \in Seq(IdsUpTo(Len(program))) /\ PadIn(A, graph.cur)
      BY <1>1, TopFacts, Facts DEF Placed
    <2>4. Members(<<before, value>>) = {before, value} /\ Members(args) = Members(Top.args) \cup {id1}
      BY <2>3, MembersOf
    <2> HIDE DEF before, id1, id2, args
    <2>5. \A v \in Members(<<before, value>>) : Ok(graph, v, A[graph.cur])
      BY <2>2, <2>3, <2>4
    <2>6. PICK B : Onto(graph, A, h, B, Excused(program)) /\ Available(h, id1, B[h.cur])
      BY <1>1, <2>5, TopCall
    <2> HIDE DEF h
    <2>7. Placed(h, B, Excused(program)) /\ PadIn(B, h.cur) /\ A[graph.cur] \subseteq B[h.cur] /\ \A v, d, j : Site(graph, v, d, j) => Site(h, v, d, j)
      BY <2>3, <2>6, OntoPlaced, OntoPads DEF Onto, Follows
    <2>8. \A v \in Members(Top.args) : Ok(h, v, B[h.cur])
      BY <2>2, <2>3, <2>7, AvailableLater
    <2>9. \A v \in Members(args) : Ok(h, v, B[h.cur])
      BY <2>4, <2>6, <2>8 DEF Ok
    <2>10. \A v \in Members(args) : Exempt(v, id2[1], Excused(program)) \/ Available(h, v, B[h.cur])
      BY <2>9, OkExempt
    <2>11. PICK D : Onto(h, B, graph', D, Excused(program)) /\ Available(graph', id2, D[graph'.cur])
      BY <2>1, <2>7, <2>10, OntoLangCall
    <2>12. Onto(graph, A, graph', D, Excused(program)) /\ Ok(graph', value', D[graph'.cur])
      BY <2>1, <2>6, <2>11, OntoTwice DEF Ok
    <2>. QED BY <1>1, <2>1, <2>2, <2>12, OntoPops
  <1>. QED BY <1>2, <1>3

\* An assignment, with a variable of its own or not.
LEMMA AssignPushes ==
  ASSUME NEW A, NEW F, NEW K, From(A, F, K), mode = "statement", NEW name, program' = Append(program, Node("assign", name)),
         NEW L, K \subseteq L, L \subseteq K \cup {This}, Slots(program', L, variables', mode'),
         Onto(graph, A, graph', A, Excused(program')), graph'.cur = graph.cur, This \in L => Available(graph', Slot(This), A[graph.cur]),
         NEW slot, Const(slot) \/ \E a \in L : slot = Slot(a), NEW f, open' = Append(open, f), f.op = "assign", f.stmt = This, f.args = <<slot>>,
         mode' = "statement"
  PROVE  Values'
  <1>1. open # <<>>
    BY StatementOpen DEF From
  <1>2. Goes1(program, open, program') /\ Len(program') = This
    BY <1>1, NewPlaces
  <1>3. Follows(graph, A, graph', A, Excused(program'), Size(graph'), graph'.cur) /\ graph'.cur \in Nat /\ graph'.cur \in A[graph'.cur]
    BY DEF Onto
  <1>4. Step(A, K, A, L, Len(open))
    BY <1>2, <1>3, StepOnto
  <1>5. Kept(f) = {} /\ Waiting(f) = {} /\ ~Rescuing(f) /\ Joined(f) = {} /\ Resumed(f) = {}
    BY DEF Kept, Waiting, Rescuing, Joined, Resumed
  <1> DEFINE X == A[graph.cur]
             Y == F[Len(open)]
  <1>6. Y \subseteq X /\ X \in SUBSET Nat /\ X \subseteq A[graph'.cur]
    BY Facts
  <1>7. f.stmt \in L => f.op \in {"assign", "block"} /\ Available(graph', Slot(f.stmt), X)
    OBVIOUS
  <1>8. \E v : f.args = <<v>> /\ (Const(v) \/ \E a \in L : v = Slot(a))
    OBVIOUS
  <1> HIDE DEF X, Y
  <1>9. Stable(graph', A, L, f, X, Y)
    BY <1>5, <1>6, <1>7, <1>8 DEF Stable
  <1>10. Stable(graph', A, L, f, X, F[Len(open)]) /\ F[Len(open)] \subseteq X
    BY <1>6, <1>9 DEF Y
  <1>. QED BY <1>2, <1>4, <1>6, <1>10, PushValues

LEMMA AssignStartsValues == ASSUME NEW A, NEW F, NEW K, From(A, F, K), NEW name \in Names, AssignStarts(name) PROVE Values'
  <1> DEFINE slot == IF variables[name] = Null THEN <<This, "slot">> ELSE variables[name]
             f    == [Running("assign", "operand", This) EXCEPT !.args = <<slot>>]
  <1>1. /\ mode = "statement" /\ program' = Append(program, Node("assign", name)) /\ open' = Append(open, f) /\ mode' = "statement"
        /\ variables' = [variables EXCEPT ![name] = slot]
        /\ graph' = IF variables[name] = Null THEN Emit(graph, Instr("alloca", slot, <<>>)) ELSE graph
    BY DEF AssignStarts, Starts, Writes, Push, Generate
  <1>2. f.op = "assign" /\ f.stmt = This /\ f.args = <<slot>>
    BY DEF Running
  <1>3. Typed /\ Slots(program, K, variables, mode) /\ open # <<>>
    BY <1>1, StatementOpen DEF From, Carries
  <1>4. /\ Placed(graph, A, Excused(program')) /\ Longer(program, program') /\ Len(program') = This /\ This = Len(program) + 1 /\ Len(program) \in Nat
        /\ DOMAIN program = 1 .. Len(program) /\ DOMAIN program' = 1 .. Len(program')
        /\ program'[This].kind = "assign" /\ program'[This].name = name /\ \A n \in 1 .. Len(program) : program'[n] = program[n]
    BY <1>1, <1>3, NewPlaces
  <1>5. \A a \in K : a \in 1 .. Len(program) /\ Allocates(program, a)
    BY <1>1, SlotsAre
  <1>6. slot # Null /\ variables'[name] = slot /\ \A x \in Names : x # name => variables'[x] = variables[x]
    <2>1. <<This, "slot">> # Null
      BY <1>3, <1>4, ValueParts DEF Tags
    <2>2. variables \in [Names -> IdsUpTo(Len(program))]
      BY <1>3 DEF Typed
    <2>3. slot # Null
      BY <2>1
    <2> HIDE DEF slot
    <2>. QED BY <1>1, <2>2, <2>3
  <1>7. \A n \in 1 .. Len(program) : program[n].kind = "assign" /\ program[n].name \in Names => variables[program[n].name] # Null
    BY <1>3, <1>4 DEF Slots
  <1> HIDE DEF f
  <1>8. ASSUME NEW L, K \subseteq L, L \subseteq K \cup {This}, This \in L => Allocates(program', This), Const(slot) \/ \E a \in L : slot = Slot(a)
        PROVE  Slots(program', L, variables', mode')
    <2>1. \A a \in L : a \in DOMAIN program' /\ Allocates(program', a)
      <3> SUFFICES ASSUME NEW a \in L PROVE a \in DOMAIN program' /\ Allocates(program', a)
        OBVIOUS
      <3>1. CASE a \in K
        <4>1. a \in 1 .. Len(program) /\ Allocates(program, a)
          BY <1>5, <3>1
        <4>2. a \in 1 .. Len(program')
          BY <1>4, <4>1
        <4>. QED BY <1>4, <4>1, <4>2, AllocatesAgain
      <3>2. CASE a = This
        <4>1. This \in 1 .. Len(program')
          BY <1>4
        <4>. QED BY <1>4, <1>8, <3>2, <4>1
      <3>. QED BY <1>8, <3>1, <3>2
    <2> HIDE DEF slot
    <2>2. \A x \in Names : Const(variables'[x]) \/ \E a \in L : variables'[x] = Slot(a)
      <3>1. \A x \in Names : Const(variables[x]) \/ \E a \in K : variables[x] = Slot(a)
        BY <1>3 DEF Slots
      <3>. QED BY <1>6, <1>8, <3>1
    <2>3. \A n \in DOMAIN program' : program'[n].kind = "assign" => variables'[program'[n].name] # Null
      <3> SUFFICES ASSUME NEW n \in DOMAIN program', program'[n].kind = "assign" PROVE variables'[program'[n].name] # Null
        OBVIOUS
      <3>1. CASE n \in 1 .. Len(program)
        <4>1. program'[n] = program[n] /\ n \in DOMAIN program /\ variables[program[n].name] # Null
          BY <1>3, <1>4, <3>1 DEF Slots
        <4>2. program[n].name \in Names \/ program[n].name \notin Names
          OBVIOUS
        <4>3. variables' = [variables EXCEPT ![name] = slot]
          BY <1>1 DEF slot
        <4>4. DOMAIN variables = Names
          BY <1>3 DEF Typed
        <4>. QED BY <1>6, <4>1, <4>2, <4>3, <4>4
      <3>2. CASE n = This
        BY <1>4, <1>6, <3>2
      <3>3. n \in 1 .. Len(program) \/ n = This
        BY <1>4
      <3>. QED BY <3>1, <3>2, <3>3
    <2>4. \A x \in Parameters : variables'[x] # Null
      <3>1. \A x \in Parameters : variables[x] # Null /\ x \in Names
        BY <1>3, CodegenAssumption DEF Slots
      <3>. QED BY <1>6, <3>1
    <2>. QED BY <2>1, <2>2, <2>3, <2>4 DEF Slots
  <1>9. CASE variables[name] # Null
    <2>1. slot = variables[name] /\ graph' = graph
      BY <1>1, <1>9
    <2> HIDE DEF slot
    <2>2. (Const(slot) \/ \E a \in K : slot = Slot(a)) /\ This \notin K
      BY <1>1, <1>3, <2>1, Facts DEF Slots
    <2>3. K \subseteq K /\ K \subseteq K \cup {This} /\ Slots(program', K, variables', mode')
      BY <1>8, <2>2
    <2>4. Onto(graph, A, graph', A, Excused(program')) /\ graph'.cur = graph.cur
      BY <1>4, <2>1, OntoNothing
    <2>. QED BY <1>1, <1>2, <2>2, <2>3, <2>4, AssignPushes
  <1>10. CASE variables[name] = Null
    <2> DEFINE i == Instr("alloca", slot, <<>>)
               L == K \cup {This}
    <2>1. slot = Slot(This) /\ graph' = Emit(graph, i)
      BY <1>1, <1>10 DEF Slot
    <2>2. i.targets = <<>> /\ i.unwind = 0 /\ i.op # "invoke" /\ i.id = slot /\ i.args = <<>>
      BY DEF Instr
    <2>3. Fine(i, graph, A, Excused(program'), graph.cur)
      <3>1. Members(i.args) = {} /\ Members(i.targets) = {}
        BY <2>2, MembersOf
      <3> HIDE DEF i
      <3>. QED BY <2>2, <3>1 DEF Fine, GoesTo
    <2> HIDE DEF i, slot
    <2>4. Onto(graph, A, graph', A, Excused(program')) /\ Available(graph', Slot(This), A[graph.cur]) /\ graph'.cur = graph.cur
      BY <1>4, <2>1, <2>2, <2>3, OntoEmit
    <2>5. Allocates(program', This)
      <3>1. name \notin Parameters
        BY <1>3, <1>10 DEF Slots
      <3>2. ASSUME NEW m \in 1 .. This - 1, program'[m].kind = "assign" PROVE program'[m].name # name
        <4>1. m \in 1 .. Len(program)
          BY <1>4
        <4>. QED BY <1>4, <1>7, <1>10, <3>2, <4>1
      <3>. QED BY <1>4, <3>1, <3>2 DEF Allocates
    <2>6. (Const(slot) \/ \E a \in L : slot = Slot(a)) /\ K \subseteq L /\ L \subseteq K \cup {This}
      BY <2>1
    <2>7. Slots(program', L, variables', mode')
      BY <1>8, <2>5, <2>6
    <2> HIDE DEF L
    <2>. QED BY <1>1, <1>2, <2>4, <2>6, <2>7, AssignPushes
  <1>. QED BY <1>9, <1>10

-----------------------------------------------------------------------------
(* Blocks that are opened: if.                                             *)

Opened(A, S, X, D) == D \in [Nat -> SUBSET Nat] /\ \A x \in Nat : D[x] = IF x \in S THEN X \cup {x} ELSE A[x]
LEMMA OpenedExists ==
  ASSUME NEW A \in [Nat -> SUBSET Nat], NEW S, NEW X \in SUBSET Nat
  PROVE  \E D : Opened(A, S, X, D)
  <1> DEFINE D == [x \in Nat |-> IF x \in S THEN X \cup {x} ELSE A[x]]
  <1>1. D \in [Nat -> SUBSET Nat] /\ \A x \in Nat : D[x] = IF x \in S THEN X \cup {x} ELSE A[x]
    OBVIOUS
  <1> HIDE DEF D
  <1>. QED BY <1>1 DEF Opened

LEMMA SoundOpened ==
  ASSUME NEW g, NEW A, NEW N, Sound(g, A, N), NEW S, S \subseteq 1 .. Size(g), \A b \in S : A[b] = {}, NEW X, NEW B, Opened(A, S, X, B)
  PROVE  Sound(g, B, N)
  <1>1. /\ A \in [Nat -> SUBSET Nat] /\ A[1] = {1} /\ Shaped(g)
        /\ \A x \in Nat : A[x] # {} => x \in A[x] /\ x \in 1 .. Size(g)
        /\ \A a, x : Enters(g, a, x) => x \in Nat /\ x \in A[x] /\ A[x] \subseteq A[a] \cup {x}
    BY DEF Sound
  <1>2. 1 \notin S
    BY <1>1
  <1>3. B \in [Nat -> SUBSET Nat] /\ \A x \in Nat : B[x] = IF x \in S THEN X \cup {x} ELSE A[x]
    BY DEF Opened
  <1>4. B[1] = {1} /\ \A x \in Nat : B[x] # {} => x \in B[x] /\ x \in 1 .. Size(g)
    BY <1>1, <1>2, <1>3
  <1>5. ASSUME NEW a, NEW x, Enters(g, a, x) PROVE x \in Nat /\ x \in B[x] /\ B[x] \subseteq B[a] \cup {x}
    <2>1. x \in Nat /\ x \in A[x] /\ A[x] \subseteq A[a] \cup {x}
      BY <1>1, <1>5
    <2>2. x \notin S /\ B[x] = A[x]
      BY <1>3, <2>1
    <2>3. a \in 1 .. Size(g)
      BY <1>5 DEF Enters, Jumps, Throws
    <2>4. a \in Nat
      BY <2>3
    <2>5. A[a] \subseteq B[a]
      <3>1. CASE a \in S
        BY <3>1
      <3>2. CASE a \notin S
        BY <1>3, <2>4, <3>2
      <3>. QED BY <3>1, <3>2
    <2>. QED BY <2>1, <2>2, <2>5
  <1>6. \A x \in 1 .. Size(g) : A[x] \subseteq B[x]
    <2> SUFFICES ASSUME NEW x \in 1 .. Size(g) PROVE A[x] \subseteq B[x]
      OBVIOUS
    <2>1. x \in Nat
      OBVIOUS
    <2>2. CASE x \in S
      BY <2>2
    <2>3. CASE x \notin S
      BY <1>3, <2>1, <2>3
    <2>. QED BY <2>2, <2>3
  <1>7. ASSUME NEW x \in 1 .. Size(g), NEW i \in DOMAIN g.blocks[x].code, NEW v \in Members(g.blocks[x].code[i].args)
        PROVE  Usable(g, B, N, v, g.blocks[x].code[i].id[1], x, i)
    <2>1. Usable(g, A, N, v, g.blocks[x].code[i].id[1], x, i)
      BY <1>7 DEF Sound
    <2>. QED BY <1>6, <2>1 DEF Usable
  <1>8. ASSUME NEW x \in 1 .. Size(g), NEW p \in g.blocks[x].phi
        PROVE  p.from \in 1 .. Size(g) /\ Usable(g, B, N, p.value, p.id[1], p.from, Len(g.blocks[p.from].code) + 1)
    <2>1. p.from \in 1 .. Size(g) /\ Usable(g, A, N, p.value, p.id[1], p.from, Len(g.blocks[p.from].code) + 1)
      BY <1>8 DEF Sound
    <2>. QED BY <1>6, <2>1 DEF Usable
  <1>. QED BY <1>1, <1>3, <1>4, <1>5, <1>7, <1>8 DEF Sound

\* Blocks are created, and those of S are reached from where the blocks of X dominate.
Opening(k, m, S, X) == m \in Nat /\ S \in SUBSET (k + 1 .. k + m) /\ X \in SUBSET Nat
LEMMA FollowsOpens ==
  ASSUME NEW g, NEW A, NEW h, NEW B, NEW N, NEW k, NEW c, Follows(g, A, h, B, N, k, c), NEW m,
         NEW S, NEW X, Opening(k, m, S, X)
  PROVE  \E D : /\ Follows(g, A, Create(h, m), D, N, k + m, c)
                /\ \A b \in S : D[b] = X \cup {b}
                /\ \A b \in (k + 1 .. k + m) \ S : D[b] = {}
                /\ \A b \in 1 .. k : D[b] = B[b]
                /\ \A v, d, j : Site(h, v, d, j) => Site(Create(h, m), v, d, j)
  <1> DEFINE new == Create(h, m)
  <1>0. m \in Nat /\ S \in SUBSET (k + 1 .. k + m) /\ X \in SUBSET Nat
    BY DEF Opening
  <1>1. /\ Follows(g, A, new, B, N, k + m, c) /\ \A b \in k + 1 .. k + m : B[b] = {}
        /\ \A v, d, j : Site(h, v, d, j) => Site(new, v, d, j)
    BY <1>0, FollowsCreate
  <1>2. k \in Nat /\ B \in [Nat -> SUBSET Nat] /\ Size(g) \in Nat /\ Size(g) <= k
    BY DEF Follows, Sound
  <1>3. PICK D : Opened(B, S, X, D)
    BY <1>0, <1>2, OpenedExists
  <1> HIDE DEF new
  <1>4. Sound(new, B, N) /\ Size(new) = k + m
    BY <1>1 DEF Follows
  <1>5. S \subseteq 1 .. Size(new) /\ \A b \in S : B[b] = {}
    BY <1>0, <1>1, <1>2, <1>4
  <1>6. Sound(new, D, N)
    BY <1>3, <1>4, <1>5, SoundOpened
  <1>7. \A b \in 1 .. k : D[b] = B[b]
    <2>1. \A b \in 1 .. k : b \in Nat /\ b \notin S
      BY <1>0, <1>2
    <2>. QED BY <1>3, <2>1 DEF Opened
  <1>8. \A b \in k + 1 .. k + m : b \in Nat
    BY <1>0, <1>2
  <1>9. Follows(g, A, new, D, N, k + m, c)
    <2>1. \A b \in 1 .. Size(g) : b \in 1 .. k
      BY <1>2
    <2>. QED BY <1>1, <1>6, <1>7, <2>1 DEF Follows
  <1>10. (\A b \in S : D[b] = X \cup {b}) /\ \A b \in (k + 1 .. k + m) \ S : D[b] = {}
    BY <1>0, <1>1, <1>3, <1>8 DEF Opened
  <1>. QED BY <1>1, <1>7, <1>9, <1>10 DEF new

\* An instruction of the builder that ends a block.
LEMMA FineTo ==
  ASSUME NEW op, NEW args, NEW targets, NEW g, NEW A, NEW N, NEW b,
         \A v \in Members(args) : Exempt(v, 0, N) \/ Available(g, v, A[b]),
         \A x \in Members(targets) : x \in Nat /\ x \in A[x] /\ A[x] \subseteq A[b] \cup {x}
  PROVE  Fine(To(op, args, targets), g, A, N, b)
  <1> DEFINE i == To(op, args, targets)
  <1>1. i.args = args /\ i.targets = targets /\ i.unwind = 0 /\ i.id = Null
    BY DEF To, Instr
  <1> HIDE DEF i
  <1>2. i.id[1] = 0
    BY <1>1 DEF Null
  <1>3. \A x : GoesTo(i, x) => x \in Members(targets)
    BY <1>1 DEF GoesTo
  <1>. QED BY <1>1, <1>2, <1>3 DEF Fine, i

LEMMA IfConditionValues == ASSUME NEW A, NEW F, NEW K, From(A, F, K), IfCondition PROVE Values'
  <1> DEFINE k == Size(graph)
             c == graph.cur
             i == To("cond", <<value>>, <<k + 2, k + 3>>)
             g1 == Create(graph, 3)
             g2 == EmitAt(g1, c, i)
             u == [Top EXCEPT !.part = "true", !.base = k]
  <1>1. mode = "value" /\ open # <<>> /\ Top.op = "if" /\ Top.part = "condition" /\ UNCHANGED <<program, variables>>
    BY DEF IfCondition, Has
  <1>2. CASE value = Null
    BY <1>2, CrashesValues DEF IfCondition
  <1>3. CASE value # Null
    <2>1. graph' = MoveTo(EmitAt(g1, g1.cur, i), k + 2) /\ open' = Append(Below, u) /\ mode' = "statement"
      BY <1>3 DEF IfCondition, TopIs, Generate, Emit
    <2>2. /\ Placed(graph, A, Excused(program)) /\ Typed /\ A[c] \in SUBSET Nat /\ F[Len(open) - 1] \subseteq A[c]
          /\ Top.stmt \notin K /\ Ok(graph, value, A[c])
      BY <1>1, TopFacts, Facts
    <2>3. u.op = "if" /\ u.part = "true" /\ u.stmt = Top.stmt /\ u.base = k
      <3> DEFINE t == Top
                 x == [t EXCEPT !.part = "true", !.base = k]
      <3>1. t \in FramesOf(Len(program)) /\ t.op = "if"
        BY <1>1, <2>2, TypedParts
      <3> HIDE DEF t, k
      <3>2. x.op = "if" /\ x.part = "true" /\ x.stmt = t.stmt /\ x.base = k
        BY <3>1 DEF FramesOf
      <3>. QED BY <3>2 DEF t
    <2>4. k \in Nat /\ c \in 1 .. k /\ Follows(graph, A, graph, A, Excused(program), k, c) /\ c \in A[c]
      BY <2>2, FollowsNothing, ShapedParts DEF Placed, Sound
    <2> HIDE DEF u, k, c
    <2> DEFINE S == {k + 1, k + 2, k + 3}
               X == A[c]
               N == Excused(program)
    <2>5. /\ S \in SUBSET (k + 1 .. k + 3) /\ 3 \in Nat /\ X \in SUBSET Nat /\ c \in 1 .. k + 3 /\ k + 2 \in Int
          /\ k + 1 \in Nat /\ k + 2 \in Nat /\ k + 3 \in Nat
      BY <2>2, <2>4
    <2>6. PICK D : /\ Follows(graph, A, g1, D, N, k + 3, c) /\ \A b \in S : D[b] = X \cup {b}
                   /\ \A b \in 1 .. k : D[b] = A[b]
                   /\ \A v, d, j : Site(graph, v, d, j) => Site(g1, v, d, j)
      <3>1. Follows(graph, A, graph, A, N, k, c)
        BY <2>4
      <3>2. Opening(k, 3, S, X)
        BY <2>5 DEF Opening
      <3> HIDE DEF S, X, N
      <3>. QED BY <3>1, <3>2, FollowsOpens
    <2>7. g1.cur = c /\ D[c] = X
      BY <2>4, <2>6 DEF Follows
    <2> HIDE DEF g1
    <2>8. Fine(i, g1, D, N, c)
      <3>1. Members(<<value>>) = {value} /\ Members(<<k + 2, k + 3>>) = {k + 2, k + 3}
        BY MembersOf
      <3>2. Ok(g1, value, D[c])
        BY <2>2, <2>6, <2>7 DEF Ok, Available
      <3>3. Exempt(value, 0, N) \/ Available(g1, value, D[c])
        BY <3>2, OkExempt
      <3>4. \A x \in {k + 2, k + 3} : x \in Nat /\ x \in D[x] /\ D[x] \subseteq D[c] \cup {x}
        BY <2>5, <2>6, <2>7
      <3>. QED BY <3>1, <3>3, <3>4, FineTo
    <2> HIDE DEF i
    <2>9. Follows(graph, A, g2, D, N, k + 3, c)
      BY <2>5, <2>6, <2>8, FollowsEmitAt
    <2>10. graph' = MoveTo(g2, k + 2)
      BY <2>1, <2>7
    <2> HIDE DEF g2
    <2>11. Follows(graph, A, graph', D, N, k + 3, k + 2) /\ graph'.cur = k + 2
      BY <2>5, <2>9, <2>10, FollowsMoveTo DEF Follows
    <2>12. D[k + 2] = X \cup {k + 2} /\ D[k + 1] = X \cup {k + 1} /\ D[k + 3] = X \cup {k + 3}
      BY <2>6
    <2>13. Step(A, K, D, K, Len(open) - 1)
      BY <1>1, <2>5, <2>11, <2>12, StepSame
    <2>14. Kept(u) = {} /\ Waiting(u) = {} /\ ~Rescuing(u) /\ Joined(u) = {k + 1, k + 3} /\ Resumed(u) = {k + 1, k + 3}
      BY <2>3 DEF Kept, Waiting, Rescuing, Joined, Resumed
    <2> DEFINE Y == F[Len(open) - 1]
    <2>15. Y \subseteq X
      BY <2>2 DEF c
    <2> HIDE DEF S, X, N, Y
    <2>16. Stable(graph', D, K, u, X, Y)
      BY <2>2, <2>3, <2>12, <2>14, <2>15 DEF Stable
    <2>17. NotYet(u) = {} /\ (PartsOf(u.op) \ NotYet(Top)) \cap Claimed(u) \subseteq {"condition"} /\ "condition" \in Claimed(Top)
      BY <2>3, <2>14 DEF NotYet, PartsOf, Claimed, AlwaysDone
    <2>18. Place(A, Top, "condition", F[Len(open)], X) = X /\ Place(D, u, "condition", X, X) = X
      BY <1>1, <2>3 DEF Place
    <2>19. /\ X \subseteq D[graph'.cur] /\ Stable(graph', D, K, u, X, F[Len(open) - 1]) /\ F[Len(open) - 1] \subseteq X
           /\ NotYet(u) \subseteq NotYet(Top) /\ u.op = Top.op
      BY <1>1, <2>3, <2>11, <2>12, <2>15, <2>16, <2>17 DEF Y
    <2>20. \A part \in (PartsOf(u.op) \ NotYet(Top)) \cap Claimed(u) :
             /\ part \in Claimed(Top)
             /\ Place(A, Top, part, F[Len(open)], A[graph.cur]) \subseteq Place(D, u, part, X, IF mode' = "value" THEN D[graph'.cur] ELSE X)
      BY <2>1, <2>17, <2>18 DEF X, c
    <2>. QED BY <1>1, <2>1, <2>3, <2>5, <2>13, <2>19, <2>20, MoveValues
  <1>. QED BY <1>2, <1>3

\* The branches, which go to blocks that what dominates this one does, or that dominate it.
LEMMA FollowsTo ==
  ASSUME NEW g, NEW A, NEW h, NEW B, NEW N, NEW k, NEW c, Follows(g, A, h, B, N, k, c), c \in 1 .. k,
         NEW op, NEW args, NEW targets, \A v \in Members(args) : Exempt(v, 0, N) \/ Available(h, v, B[c]),
         \A x \in Members(targets) : x \in Nat /\ x \in B[x] /\ B[x] \subseteq B[c] \cup {x}
  PROVE  /\ Follows(g, A, Emit(h, To(op, args, targets)), B, N, k, c)
         /\ Emit(h, To(op, args, targets)) = EmitAt(h, c, To(op, args, targets))
         /\ \A v, d, j : Site(h, v, d, j) => Site(Emit(h, To(op, args, targets)), v, d, j)
  <1> DEFINE i == To(op, args, targets)
  <1>1. Fine(i, h, B, N, c)
    BY FineTo
  <1>2. Emit(h, i) = EmitAt(h, c, i)
    BY DEF Follows, Emit
  <1> HIDE DEF i
  <1>3. /\ Follows(g, A, EmitAt(h, c, i), B, N, k, c)
        /\ \A v, d, j : Site(h, v, d, j) => Site(EmitAt(h, c, i), v, d, j)
    BY <1>1, FollowsEmitAt
  <1>. QED BY <1>2, <1>3 DEF i

Near(B, c, x) == x \in Nat /\ x \in B[x] /\ B[x] \subseteq B[c] \cup {x}
LEMMA FollowsBr ==
  ASSUME NEW g, NEW A, NEW h, NEW B, NEW N, NEW k, NEW c, Follows(g, A, h, B, N, k, c), c \in 1 .. k, NEW x, Near(B, c, x)
  PROVE  /\ Follows(g, A, Emit(h, To("br", <<>>, <<x>>)), B, N, k, c)
         /\ \A v, d, j : Site(h, v, d, j) => Site(Emit(h, To("br", <<>>, <<x>>)), v, d, j)
  <1>1. Members(<<>>) = {} /\ Members(<<x>>) = {x}
    BY MembersOf
  <1>2. /\ \A v \in Members(<<>>) : Exempt(v, 0, N) \/ Available(h, v, B[c])
        /\ \A y \in Members(<<x>>) : y \in Nat /\ y \in B[y] /\ B[y] \subseteq B[c] \cup {y}
    BY <1>1 DEF Near
  <1>. QED BY <1>2, FollowsTo

LEMMA FollowsCond ==
  ASSUME NEW g, NEW A, NEW h, NEW B, NEW N, NEW k, NEW c, Follows(g, A, h, B, N, k, c), c \in 1 .. k,
         NEW v, Exempt(v, 0, N) \/ Available(h, v, B[c]), NEW x, NEW y, Near(B, c, x), Near(B, c, y)
  PROVE  /\ Follows(g, A, Emit(h, To("cond", <<v>>, <<x, y>>)), B, N, k, c)
         /\ \A w, d, j : Site(h, w, d, j) => Site(Emit(h, To("cond", <<v>>, <<x, y>>)), w, d, j)
  <1>1. Members(<<v>>) = {v} /\ Members(<<x, y>>) = {x, y}
    BY MembersOf
  <1>2. /\ \A w \in Members(<<v>>) : Exempt(w, 0, N) \/ Available(h, w, B[c])
        /\ \A z \in Members(<<x, y>>) : z \in Nat /\ z \in B[z] /\ B[z] \subseteq B[c] \cup {z}
    BY <1>1 DEF Near
  <1>. QED BY <1>2, FollowsTo

\* The branches of an if.
LEMMA IfParts ==
  ASSUME NEW A, NEW F, NEW K, From(A, F, K), open # <<>>, Top.op = "if", Top.part \in {"true", "false"}
  PROVE  /\ Top.stmt \notin K /\ ~Rescuing(Top) /\ NotYet(Top) = {} /\ Top.base \in Nat /\ Top.base + 3 \in 1 .. Size(graph)
         /\ \A b \in Joined(Top) : b \in Nat /\ b \in A[b] /\ F[Len(open)] \subseteq A[b] /\ A[b] \subseteq F[Len(open)] \cup {b}
         /\ Joined(Top) = IF Top.part = "true" THEN {Top.base + 1, Top.base + 3} ELSE {Top.base + 1}
         /\ Resumed(Top) = Joined(Top) /\ Size(graph) \in Nat
  <1>1. /\ Stable(graph, A, K, Top, F[Len(open)], F[Len(open) - 1]) /\ FrameOK(Top, Size(graph), Len(program)) /\ Size(graph) \in Nat
        /\ (Top.stmt \in K => Top.op \in {"assign", "block"})
    BY TopFacts, Facts
  <1> DEFINE f == Top
  <1>2. f.op = "if" /\ f.part \in {"true", "false"} /\ FrameOK(f, Size(graph), Len(program))
    BY <1>1
  <1>3. ~Rescuing(f) /\ NotYet(f) = {} /\ HasBlocks(f)
    BY <1>2 DEF Rescuing, NotYet, HasBlocks
  <1>4. Resumed(f) = Joined(f) /\ Joined(f) = IF f.part = "true" THEN {f.base + 1, f.base + 3} ELSE {f.base + 1}
    BY <1>2 DEF Resumed, Joined
  <1> HIDE DEF f
  <1>5. f.base \in Nat /\ f.base + 3 \in 1 .. Size(graph)
    <2>1. f.base \in Int /\ f.base >= 1 /\ f.base + 3 <= Size(graph)
      BY <1>2, <1>3 DEF FrameOK, FramesOf
    <2>. QED BY <1>1, <2>1
  <1>6. Stable(graph, A, K, f, F[Len(open)], F[Len(open) - 1])
    BY <1>1 DEF f
  <1>7. Joined(f) \subseteq Nat
    BY <1>4, <1>5
  <1>8. \A b \in Joined(f) : b \in A[b] /\ F[Len(open)] \subseteq A[b] /\ A[b] \subseteq F[Len(open)] \cup {b}
    BY <1>4, <1>6 DEF Stable
  <1>. QED BY <1>1, <1>3, <1>4, <1>5, <1>7, <1>8 DEF f

LEMMA TrueBranchValues == ASSUME NEW A, NEW F, NEW K, From(A, F, K), TrueBranch PROVE Values'
  <1> DEFINE k == Size(graph)
             c == graph.cur
             n == Len(open)
             X == F[n]
             Y == F[n - 1]
             N == Excused(program)
             t == Top.base + 1
             e == Top.base + 3
             left == MoveTo(Emit(graph, To("br", <<>>, <<t>>)), e)
             i    == NoBranch(Top)
             u == [Top EXCEPT !.part = "false", !.from = graph.cur, !.args = <<value>>]
  <1>1. /\ mode = "value" /\ open # <<>> /\ Top.op = "if" /\ Top.part = "true" /\ UNCHANGED <<program, variables>> /\ open' = Append(Below, u)
        /\ graph' = (IF Top.optional THEN left ELSE Emit(left, i))
        /\ IF Top.optional THEN mode' = "statement" ELSE mode' = "value" /\ value' = <<Top.stmt, "nil">>
    BY DEF TrueBranch, Has, TopIs, Generate, Yields
  <1>2. /\ Placed(graph, A, N) /\ Typed /\ A[c] \in SUBSET Nat /\ X \in SUBSET Nat /\ Y \subseteq X /\ X \subseteq A[c] /\ Ok(graph, value, A[c])
    BY <1>1, TopFacts, Facts
  <1>3. /\ Top.stmt \notin K /\ ~Rescuing(Top) /\ NotYet(Top) = {} /\ Top.base \in Nat /\ e \in 1 .. k /\ k \in Nat
        /\ \A b \in {t, e} : b \in Nat /\ b \in A[b] /\ X \subseteq A[b] /\ A[b] \subseteq X \cup {b}
    BY <1>1, IfParts
  <1>4. u.op = "if" /\ u.part = "false" /\ u.stmt = Top.stmt /\ u.base = Top.base /\ u.from = graph.cur /\ u.args = <<value>>
    <2> DEFINE f == Top
               x == [f EXCEPT !.part = "false", !.from = graph.cur, !.args = <<value>>]
    <2>1. f \in FramesOf(Len(program)) /\ f.op = "if"
      BY <1>1, <1>2, TypedParts
    <2> HIDE DEF f
    <2>2. x.op = "if" /\ x.part = "false" /\ x.stmt = f.stmt /\ x.base = f.base /\ x.from = graph.cur /\ x.args = <<value>>
      BY <2>1 DEF FramesOf
    <2>. QED BY <2>2 DEF f
  <1>5. c \in 1 .. k /\ Follows(graph, A, graph, A, N, k, c)
    BY <1>2, FollowsNothing DEF Placed
  <1> HIDE DEF u, k, c, X, Y, N
  <1>6. Near(A, c, t)
    BY <1>2, <1>3 DEF Near
  <1>7. Follows(graph, A, left, A, N, k, e) /\ \A v, d, j : Site(graph, v, d, j) => Site(left, v, d, j)
    <2> DEFINE g1 == Emit(graph, To("br", <<>>, <<t>>))
    <2>1. Follows(graph, A, g1, A, N, k, c) /\ \A v, d, j : Site(graph, v, d, j) => Site(g1, v, d, j)
      BY <1>5, <1>6, FollowsBr
    <2>2. e \in Int
      BY <1>3
    <2> HIDE DEF g1, t, e
    <2>3. Follows(graph, A, MoveTo(g1, e), A, N, k, e) /\ \A v, d, j : Site(g1, v, d, j) => Site(MoveTo(g1, e), v, d, j)
      BY <2>1, <2>2, FollowsMoveTo
    <2>. QED BY <2>1, <2>3 DEF g1, t, e
  <1> HIDE DEF left, t, e
  <1>8. /\ Follows(graph, A, graph', A, N, k, e) /\ \A v, d, j : Site(graph, v, d, j) => Site(graph', v, d, j)
        /\ mode' \in {"statement", "body", "value"} /\ mode' # "body" /\ (mode' = "value" => Ok(graph', value', A[e]))
    <2>1. CASE Top.optional
      BY <1>1, <1>7, <2>1
    <2>2. CASE ~Top.optional
      <3>1. left.cur = e /\ e \in 1 .. k
        BY <1>3, <1>7 DEF Follows
      <3>2. i.targets = <<>> /\ i.unwind = 0 /\ i.op # "invoke" /\ i.id = <<Top.stmt, "nil">> /\ i.args = <<>>
        BY DEF NoBranch, Instr
      <3>3. Members(i.args) = {} /\ Members(i.targets) = {}
        BY <3>2, MembersOf
      <3> HIDE DEF i
      <3>4. Fine(i, left, A, N, e)
        BY <3>2, <3>3 DEF Fine, GoesTo
      <3>5. graph' = EmitAt(left, e, i)
        BY <1>1, <2>2, <3>1 DEF Emit
      <3>6. /\ Follows(graph, A, graph', A, N, k, e) /\ \E j : Site(graph', i.id, e, j)
            /\ \A v, d, j : Site(left, v, d, j) => Site(graph', v, d, j)
        BY <1>7, <3>1, <3>2, <3>4, <3>5, FollowsEmitAt
      <3>7. mode' = "value" /\ value' = i.id /\ e \in A[e]
        BY <1>1, <1>3, <2>2, <3>2
      <3>. QED BY <1>7, <3>6, <3>7 DEF Ok, Available
    <2>. QED BY <2>1, <2>2
  <1>9. graph'.cur = e /\ e \in Nat /\ e \in A[e] /\ X \subseteq A[e]
    BY <1>3, <1>8 DEF Follows
  <1>10. Step(A, K, A, K, Len(open) - 1)
    BY <1>1, <1>8, <1>9, StepSame DEF N
  <1>11. Stable(graph', A, K, u, X, Y)
    <2>1. Kept(u) = {} /\ Waiting(u) = {value} /\ ~Rescuing(u) /\ Joined(u) = {t} /\ Resumed(u) = {t}
      <3>1. u.args[1] = value
        BY <1>4
      <3>. QED BY <1>4, <3>1 DEF Kept, Waiting, Rescuing, Joined, Resumed, t
    <2>2. Ok(graph', value, A[u.from])
      BY <1>2, <1>4, <1>8 DEF Ok, Available, c
    <2>. QED BY <1>2, <1>3, <1>4, <2>1, <2>2 DEF Stable
  <1>12. ~Rescuing(u) /\ NotYet(u) = {} /\ (PartsOf(u.op) \ NotYet(Top)) \cap Claimed(u) \subseteq {"condition"} /\ "condition" \in Claimed(Top)
    <2>1. ~Rescuing(u)
      BY <1>4 DEF Rescuing
    <2>. QED BY <1>3, <1>4, <2>1 DEF NotYet, PartsOf, Claimed, AlwaysDone
  <1>13. \A part \in (PartsOf(u.op) \ NotYet(Top)) \cap Claimed(u) :
             /\ part \in Claimed(Top)
             /\ Place(A, Top, part, F[Len(open)], A[graph.cur]) \subseteq Place(A, u, part, X, IF mode' = "value" THEN A[graph'.cur] ELSE X)
    <2>1. Place(A, Top, "condition", F[Len(open)], A[graph.cur]) = X /\ \A Z : Place(A, u, "condition", X, Z) = X
      BY <1>1, <1>4 DEF Place, X
    <2>. QED BY <1>12, <2>1
  <1>14. /\ X \subseteq A[graph'.cur] /\ Stable(graph', A, K, u, X, F[Len(open) - 1]) /\ F[Len(open) - 1] \subseteq X /\ X \in SUBSET Nat
         /\ NotYet(u) \subseteq NotYet(Top) /\ u.op = Top.op /\ (mode' = "value" => Ok(graph', value', A[graph'.cur]))
    BY <1>1, <1>2, <1>4, <1>8, <1>9, <1>11, <1>12 DEF Y
  <1>. QED BY <1>1, <1>4, <1>8, <1>10, <1>13, <1>14, MoveValues

LEMMA FalseBranchValues == ASSUME NEW A, NEW F, NEW K, From(A, F, K), FalseBranch PROVE Values'
  <1> DEFINE k == Size(graph)
             c == graph.cur
             n == Len(open)
             X == F[n]
             N == Excused(program)
             m == Top.base + 1
             w == Top.args[1]
             p == Top.from
             id   == <<Top.stmt, "value">>
             left == Emit(graph, To("br", <<>>, <<m>>))
             one  == AddIncoming(left, m, id, w, p)
             phi  == AddIncoming(one, m, id, value, c)
  <1>1. mode = "value" /\ open # <<>> /\ Top.op = "if" /\ Top.part = "false" /\ UNCHANGED <<program, variables>>
    BY DEF FalseBranch, Has
  <1>2. CASE Null \in {Top.args[1], value}
    BY <1>2, CrashesValues DEF FalseBranch
  <1>3. CASE ~(Null \in {Top.args[1], value})
    <2>1. graph' = MoveTo(phi, m) /\ open' = Below /\ mode' = "value" /\ value' = id
      BY <1>3 DEF FalseBranch, Yields
    <2>2. /\ Placed(graph, A, N) /\ Typed /\ A[c] \in SUBSET Nat /\ F[n - 1] \subseteq X /\ X \subseteq A[c] /\ Ok(graph, value, A[c])
          /\ Stable(graph, A, K, Top, X, F[n - 1]) /\ FrameOK(Top, k, Len(program))
      BY <1>1, TopFacts, Facts
    <2>3. /\ Top.stmt \notin K /\ ~Rescuing(Top) /\ NotYet(Top) = {} /\ Top.base \in Nat /\ k \in Nat /\ m \in 1 .. k
          /\ m \in Nat /\ m \in A[m] /\ X \subseteq A[m] /\ A[m] \subseteq X \cup {m}
      <3>1. /\ Top.stmt \notin K /\ ~Rescuing(Top) /\ NotYet(Top) = {} /\ Top.base \in Nat /\ k \in Nat /\ Top.base + 3 \in 1 .. k
            /\ m \in Nat /\ m \in A[m] /\ X \subseteq A[m] /\ A[m] \subseteq X \cup {m}
        BY <1>1, IfParts
      <3>. QED BY <3>1
    <2>4. w \in Waiting(Top) /\ p \in 1 .. k
      <3>1. Waiting(Top) = {w}
        BY <1>1, <2>3 DEF Waiting
      <3>2. p \in 1 .. k
        BY <1>1, <2>2 DEF FrameOK
      <3>. QED BY <3>1, <3>2
    <2>5. Ok(graph, w, A[p])
      BY <2>2, <2>4 DEF Stable
    <2>6. c \in 1 .. k /\ Follows(graph, A, graph, A, N, k, c)
      BY <2>2, FollowsNothing DEF Placed
    <2> HIDE DEF k, c, X, N, m, w, p, id
    <2>7. Near(A, c, m)
      BY <2>2, <2>3 DEF Near
    <2>8. Follows(graph, A, left, A, N, k, c) /\ \A v, d, j : Site(graph, v, d, j) => Site(left, v, d, j)
      BY <2>6, <2>7, FollowsBr
    <2> HIDE DEF left
    <2>9. Ok(left, w, A[p]) /\ Ok(left, value, A[c])
      BY <2>2, <2>5, <2>8 DEF Ok, Available
    <2>10. Follows(graph, A, one, A, N, k, c) /\ \A v, d, j : Site(left, v, d, j) => Site(one, v, d, j)
      <3>1. Exempt(w, id[1], N) \/ Available(left, w, A[p])
        BY <2>9, OkExempt
      <3>. QED BY <2>3, <2>4, <2>8, <3>1, FollowsAddIncoming
    <2> HIDE DEF one
    <2>11. Ok(one, value, A[c])
      BY <2>9, <2>10 DEF Ok, Available
    <2>12. Follows(graph, A, phi, A, N, k, c) /\ Site(phi, id, m, 0)
      <3>1. Exempt(value, id[1], N) \/ Available(one, value, A[c])
        BY <2>11, OkExempt
      <3>. QED BY <2>3, <2>6, <2>10, <3>1, FollowsAddIncoming
    <2> HIDE DEF phi
    <2>13. Follows(graph, A, graph', A, N, k, m) /\ Site(graph', id, m, 0)
      BY <2>1, <2>3, <2>12, FollowsMoveTo
    <2>14. graph'.cur = m
      BY <2>13 DEF Follows
    <2>15. Step(A, K, A, K, Len(open) - 1)
      BY <1>1, <2>1, <2>3, <2>13, <2>14, StepSame DEF N
    <2>16. Ok(graph', value', A[graph'.cur]) /\ F[Len(open) - 1] \subseteq A[graph'.cur]
      BY <2>1, <2>2, <2>3, <2>13, <2>14 DEF Ok, Available, n
    <2>17. \A part \in AlwaysDone \cap (PartsOf(Top.op) \ NotYet(Top)) : Place(A, Top, part, F[Len(open)], A[graph.cur]) \subseteq A[graph'.cur]
      <3>1. AlwaysDone \cap PartsOf("if") \subseteq {"condition"}
        BY DEF AlwaysDone, PartsOf
      <3>2. Place(A, Top, "condition", F[Len(open)], A[graph.cur]) = X
        BY <1>1 DEF Place, X, n
      <3>. QED BY <1>1, <2>3, <2>14, <3>1, <3>2
    <2>18. program' = program /\ mode' = "value"
      BY <1>1, <2>1
    <2>. QED BY <1>1, <2>1, <2>3, <2>15, <2>16, <2>17, <2>18, PopValues
  <1>. QED BY <1>2, <1>3

-----------------------------------------------------------------------------
(* while, and the start of begin.                                          *)

LEMMA StartedValues ==
  ASSUME NEW A, NEW F, NEW K, From(A, F, K), mode = "statement", NEW kind, NEW name, program' = Append(program, Node(kind, name)),
         UNCHANGED variables, kind # "assign", NEW B, NEW k, NEW c, Follows(graph, A, graph', B, Excused(program'), k, c),
         graph'.cur \in Nat, graph'.cur \in B[graph'.cur], A[graph.cur] \subseteq B[graph'.cur],
         NEW f, open' = Append(open, f), f.stmt = This, mode' \in {"statement", "body"},
         Stable(graph', B, K, f, A[graph.cur], F[Len(open)])
  PROVE  Values'
  <1>1. open # <<>>
    BY StatementOpen DEF From
  <1>2. Goes1(program, open, program') /\ Slots(program', K, variables', mode') /\ Len(program') = This
    BY <1>1, NewPlaces, SlotsNew
  <1>3. Step(A, K, B, K, Len(open))
    BY <1>2, StepOnto
  <1>4. F[Len(open)] \subseteq A[graph.cur] /\ A[graph.cur] \in SUBSET Nat
    BY Facts
  <1>5. mode # "value" /\ mode' \in {"statement", "body", "value"} /\ mode' # "value"
    OBVIOUS
  <1> DEFINE X == A[graph.cur]
  <1>6. X \in SUBSET Nat /\ F[Len(open)] \subseteq X /\ X \subseteq B[graph'.cur] /\ Stable(graph', B, K, f, X, F[Len(open)])
    BY <1>4
  <1> HIDE DEF X
  <1>. QED BY <1>2, <1>3, <1>5, <1>6, PushValues

LEMMA StartFacts ==
  ASSUME NEW A, NEW F, NEW K, From(A, F, K), mode = "statement", NEW kind, NEW name, program' = Append(program, Node(kind, name))
  PROVE  /\ Follows(graph, A, graph, A, Excused(program'), Size(graph), graph.cur) /\ This \notin K /\ Size(graph) \in Nat
         /\ graph.cur \in 1 .. Size(graph) /\ graph.cur \in A[graph.cur] /\ A[graph.cur] \in SUBSET Nat /\ F[Len(open)] \subseteq A[graph.cur]
  <1>1. Placed(graph, A, Excused(program'))
    BY StatementOpen, NewPlaces DEF From
  <1>2. Follows(graph, A, graph, A, Excused(program'), Size(graph), graph.cur)
    BY <1>1, FollowsNothing DEF Placed
  <1>. QED BY <1>1, <1>2, Facts DEF Placed

LEMMA WhileStartsValues == ASSUME NEW A, NEW F, NEW K, From(A, F, K), WhileStarts PROVE Values'
  <1> DEFINE k == Size(graph)
             c == graph.cur
             X == A[c]
             N == Excused(program')
             Y == F[Len(open)]
             g1 == Create(graph, 3)
             g2 == Emit(g1, To("br", <<>>, <<k + 2>>))
             u == [Running("while", "body", This) EXCEPT !.base = k, !.from = c]
             S == {k + 1, k + 2}
  <1>1. /\ mode = "statement" /\ program' = Append(program, Node("while", "none")) /\ UNCHANGED variables
        /\ open' = Append(open, u) /\ mode' = "statement" /\ graph' = MoveTo(g2, k + 1)
    BY DEF WhileStarts, Starts, Writes, Push, Generate
  <1>2. /\ Follows(graph, A, graph, A, N, k, c) /\ This \notin K /\ k \in Nat /\ c \in 1 .. k /\ c \in X /\ X \in SUBSET Nat /\ Y \subseteq X
    BY <1>1, StartFacts
  <1>3. u.op = "while" /\ u.part = "body" /\ u.stmt = This /\ u.base = k
    BY DEF Running
  <1> HIDE DEF u, k, c, N, Y
  <1>4. k + 1 \in Nat /\ k + 2 \in Nat /\ k + 3 \in Nat /\ c \in 1 .. k + 3 /\ k + 3 \in (k + 1 .. k + 3) \ S
    BY <1>2
  <1>5. Opening(k, 3, S, X)
    BY <1>2 DEF Opening
  <1> HIDE DEF X, S
  <1>6. PICK D : /\ Follows(graph, A, g1, D, N, k + 3, c)
                 /\ \A b \in S : D[b] = X \cup {b}
                 /\ \A b \in (k + 1 .. k + 3) \ S : D[b] = {}
                 /\ \A b \in 1 .. k : D[b] = A[b]
    BY <1>2, <1>5, FollowsOpens
  <1>7. D[c] = X /\ D[k + 1] = X \cup {k + 1} /\ D[k + 2] = X \cup {k + 2} /\ D[k + 3] = {}
    BY <1>2, <1>4, <1>6 DEF S, X
  <1>8. Near(D, c, k + 2)
    BY <1>4, <1>7 DEF Near
  <1> HIDE DEF g1
  <1>9. Follows(graph, A, g2, D, N, k + 3, c)
    BY <1>4, <1>6, <1>8, FollowsBr
  <1> HIDE DEF g2
  <1>10. Follows(graph, A, graph', D, N, k + 3, k + 1)
    BY <1>1, <1>4, <1>9, FollowsMoveTo
  <1>11. graph'.cur = k + 1
    BY <1>10 DEF Follows
  <1>12. Stable(graph', D, K, u, X, Y)
    <2>1. Kept(u) = {} /\ Waiting(u) = {} /\ ~Rescuing(u) /\ Joined(u) = {k + 1, k + 2} /\ Resumed(u) = {k + 2}
      BY <1>3 DEF Kept, Waiting, Rescuing, Joined, Resumed
    <2>. QED BY <1>2, <1>3, <1>7, <2>1 DEF Stable
  <1>13. graph'.cur \in Nat /\ graph'.cur \in D[graph'.cur] /\ A[graph.cur] \subseteq D[graph'.cur] /\ mode' \in {"statement", "body"}
    BY <1>1, <1>4, <1>7, <1>11 DEF X, c
  <1>14. Stable(graph', D, K, u, A[graph.cur], F[Len(open)]) /\ "while" # "assign"
    BY <1>12 DEF X, Y, c
  <1>. QED BY <1>1, <1>3, <1>10, <1>13, <1>14, StartedValues DEF N

\* The parts of a while.
LEMMA WhileParts ==
  ASSUME NEW A, NEW F, NEW K, From(A, F, K), open # <<>>, Top.op = "while"
  PROVE  /\ Top.stmt \notin K /\ ~Rescuing(Top) /\ Top.base \in Nat /\ Top.base + 3 \in 1 .. Size(graph) /\ Size(graph) \in Nat
         /\ A[Top.base + 3] = {} /\ Top.base + 1 \in A[Top.base + 1] /\ A[Top.base + 1] \subseteq F[Len(open)] \cup {Top.base + 1}
         /\ Top.part = "body" => /\ Top.base + 2 \in A[Top.base + 2] /\ A[Top.base + 2] \subseteq F[Len(open)] \cup {Top.base + 2}
                                 /\ F[Len(open)] \subseteq A[Top.base + 2] /\ Top.from \in 1 .. Size(graph)
  <1>1. /\ Stable(graph, A, K, Top, F[Len(open)], F[Len(open) - 1]) /\ FrameOK(Top, Size(graph), Len(program)) /\ Size(graph) \in Nat
        /\ (Top.stmt \in K => Top.op \in {"assign", "block"})
    BY TopFacts, Facts
  <1> DEFINE f == Top
             X == F[Len(open)]
             Y == F[Len(open) - 1]
  <1>2. f.op = "while" /\ FrameOK(f, Size(graph), Len(program)) /\ Stable(graph, A, K, f, X, Y)
    BY <1>1
  <1>3. ~Rescuing(f) /\ HasBlocks(f)
    BY <1>2 DEF Rescuing, HasBlocks
  <1>4. f.base + 1 \in Joined(f) /\ (f.part = "body" => f.base + 2 \in Joined(f) /\ f.base + 2 \in Resumed(f))
    BY <1>2 DEF Resumed, Joined
  <1> HIDE DEF f, X, Y
  <1>5. f.base \in Nat /\ f.base + 3 \in 1 .. Size(graph)
    <2>1. f.base \in Int /\ f.base >= 1 /\ f.base + 3 <= Size(graph)
      BY <1>2, <1>3 DEF FrameOK, FramesOf
    <2>. QED BY <1>1, <2>1
  <1>6. f.part = "body" => f.from \in 1 .. Size(graph)
    BY <1>2 DEF FrameOK
  <1>7. A[f.base + 3] = {} /\ \A b \in Joined(f) : b \in A[b] /\ A[b] \subseteq X \cup {b}
    BY <1>2 DEF Stable
  <1>8. \A b \in Resumed(f) : b \in A[b] /\ X \subseteq A[b]
    BY <1>2 DEF Stable
  <1>. QED BY <1>1, <1>3, <1>4, <1>5, <1>6, <1>7, <1>8 DEF f, X

LEMMA WhileBodyValues == ASSUME NEW A, NEW F, NEW K, From(A, F, K), WhileBody PROVE Values'
  <1> DEFINE k == Size(graph)
             c == graph.cur
             n == Len(open)
             X == F[n]
             Y == F[n - 1]
             N == Excused(program)
             m == Top.base + 2
             p == Top.from
             id    == <<Top.stmt, "value">>
             entry == <<Top.stmt, "entry">>
             br    == Emit(graph, To("br", <<>>, <<m>>))
             left  == MoveTo(br, m)
             one   == AddIncoming(left, m, id, entry, p)
             phi   == AddIncoming(one, m, id, value, c)
             i     == Instr("load", entry, <<>>)
             u == [Top EXCEPT !.part = "condition", !.args = <<value>>]
  <1>1. mode = "value" /\ open # <<>> /\ Top.op = "while" /\ Top.part = "body" /\ UNCHANGED <<program, variables>>
    BY DEF WhileBody, Has
  <1>2. CASE value = Null
    BY <1>2, CrashesValues DEF WhileBody
  <1>3. CASE value # Null
    <2>1. graph' = Emit(phi, i) /\ open' = Append(Below, u) /\ mode' = "statement"
      BY <1>3 DEF WhileBody, Generate, TopIs
    <2>2. /\ Placed(graph, A, N) /\ Typed /\ Y \subseteq X /\ X \subseteq A[c] /\ Ok(graph, value, A[c]) /\ X \in SUBSET Nat
      BY <1>1, TopFacts, Facts
    <2>3. /\ Top.stmt \notin K /\ ~Rescuing(Top) /\ Top.base \in Nat /\ k \in Nat /\ Top.base + 3 \in 1 .. k
          /\ A[Top.base + 3] = {} /\ Top.base + 1 \in A[Top.base + 1] /\ A[Top.base + 1] \subseteq X \cup {Top.base + 1}
          /\ m \in A[m] /\ A[m] \subseteq X \cup {m} /\ X \subseteq A[m] /\ p \in 1 .. k
      BY <1>1, WhileParts
    <2>4. m \in 1 .. k /\ m \in Nat /\ m \in Int
      BY <2>3
    <2>5. c \in 1 .. k /\ Follows(graph, A, graph, A, N, k, c)
      BY <2>2, FollowsNothing DEF Placed
    <2>6. u.op = "while" /\ u.part = "condition" /\ u.stmt = Top.stmt /\ u.base = Top.base /\ u.from = Top.from
      <3> DEFINE f == Top
                 x == [f EXCEPT !.part = "condition", !.args = <<value>>]
      <3>1. f \in FramesOf(Len(program)) /\ f.op = "while"
        BY <1>1, <2>2, TypedParts
      <3> HIDE DEF f
      <3>2. x.op = "while" /\ x.part = "condition" /\ x.stmt = f.stmt /\ x.base = f.base /\ x.from = f.from
        BY <3>1 DEF FramesOf
      <3>. QED BY <3>2 DEF f
    <2>7. Exempt(entry, id[1], N) /\ i.targets = <<>> /\ i.unwind = 0 /\ i.op # "invoke" /\ i.args = <<>>
      BY DEF Exempt, Instr
    <2> HIDE DEF u, k, c, X, Y, N, m, p, id, entry, i
    <2>8. Near(A, c, m)
      BY <2>2, <2>3, <2>4 DEF Near
    <2>9. Follows(graph, A, br, A, N, k, c) /\ \A v, d, j : Site(graph, v, d, j) => Site(br, v, d, j)
      BY <2>5, <2>8, FollowsBr
    <2> HIDE DEF br
    <2>10. Follows(graph, A, left, A, N, k, m) /\ \A v, d, j : Site(br, v, d, j) => Site(left, v, d, j)
      BY <2>4, <2>9, FollowsMoveTo
    <2> HIDE DEF left
    <2>11. Ok(left, value, A[c])
      BY <2>2, <2>9, <2>10 DEF Ok, Available
    <2>12. Follows(graph, A, one, A, N, k, m) /\ \A v, d, j : Site(left, v, d, j) => Site(one, v, d, j)
      BY <2>3, <2>4, <2>7, <2>10, FollowsAddIncoming
    <2> HIDE DEF one
    <2>13. Ok(one, value, A[c])
      BY <2>11, <2>12 DEF Ok, Available
    <2>14. Follows(graph, A, phi, A, N, k, m) /\ Site(phi, id, m, 0)
      <3>1. Exempt(value, id[1], N) \/ Available(one, value, A[c])
        BY <2>13, OkExempt
      <3>. QED BY <2>4, <2>5, <2>12, <3>1, FollowsAddIncoming
    <2> HIDE DEF phi
    <2>15. phi.cur = m
      BY <2>14 DEF Follows
    <2>16. Fine(i, phi, A, N, m)
      <3>1. Members(i.args) = {} /\ Members(i.targets) = {}
        BY <2>7, MembersOf
      <3>. QED BY <2>7, <3>1 DEF Fine, GoesTo
    <2>17. Follows(graph, A, graph', A, N, k, m) /\ Site(graph', id, m, 0)
      <3>1. graph' = EmitAt(phi, m, i)
        BY <2>1, <2>15 DEF Emit
      <3>. QED BY <2>4, <2>14, <2>16, <3>1, FollowsEmitAt
    <2>18. graph'.cur = m
      BY <2>17 DEF Follows
    <2>19. Step(A, K, A, K, Len(open) - 1)
      BY <1>1, <2>3, <2>4, <2>17, <2>18, StepSame DEF N
    <2> DEFINE Z == A[m]
    <2>20. Y \subseteq Z /\ Z \in SUBSET Nat
      BY <2>2, <2>3, <2>4
    <2>21. Stable(graph', A, K, u, Z, Y)
      <3>1. Kept(u) = {id} /\ Waiting(u) = {} /\ ~Rescuing(u) /\ Joined(u) = {Top.base + 1} /\ Resumed(u) = {}
        BY <2>6 DEF Kept, Waiting, Rescuing, Joined, Resumed, id
      <3>2. Ok(graph', id, Z)
        BY <2>3, <2>17 DEF Ok, Available
      <3>3. A[Top.base + 1] \subseteq Z \cup {Top.base + 1}
        BY <2>3
      <3> HIDE DEF Z
      <3>. QED BY <2>3, <2>6, <2>20, <3>1, <3>2, <3>3 DEF Stable
    <2>22. ~Rescuing(u)
      BY <2>6 DEF Rescuing
    <2>23. NotYet(u) = {} /\ \A part \in (PartsOf(u.op) \ NotYet(Top)) \cap Claimed(u) : FALSE
      <3>1. NotYet(u) = {} /\ NotYet(Top) = {"condition"} /\ Claimed(u) = AlwaysDone \cup {"class"}
        BY <1>1, <2>6, <2>22 DEF NotYet, Claimed
      <3>. QED BY <2>6, <3>1 DEF PartsOf, AlwaysDone
    <2>24. /\ Z \subseteq A[graph'.cur] /\ Stable(graph', A, K, u, Z, F[Len(open) - 1]) /\ F[Len(open) - 1] \subseteq Z
           /\ NotYet(u) \subseteq NotYet(Top) /\ u.op = Top.op /\ Z \in SUBSET Nat /\ mode' \in {"statement", "body", "value"} /\ mode' = "statement"
      BY <1>1, <2>1, <2>6, <2>18, <2>20, <2>21, <2>23 DEF Y, n
    <2> HIDE DEF Z
    <2>. QED BY <1>1, <2>1, <2>6, <2>19, <2>23, <2>24, MoveValues
  <1>. QED BY <1>2, <1>3

\* The merge of a while is entered where its condition ends.
LEMMA WhileConditionValues == ASSUME NEW A, NEW F, NEW K, From(A, F, K), WhileCondition PROVE Values'
  <1> DEFINE k == Size(graph)
             c == graph.cur
             n == Len(open)
             X == F[n]
             N == Excused(program)
             b == Top.base + 1
             m == Top.base + 3
             id    == <<Top.stmt, "value">>
             ended == Emit(graph, To("cond", <<value>>, <<b, m>>))
  <1>1. mode = "value" /\ open # <<>> /\ Top.op = "while" /\ Top.part = "condition" /\ UNCHANGED <<program, variables>>
    BY DEF WhileCondition, Has
  <1>2. CASE value = Null
    BY <1>2, CrashesValues DEF WhileCondition
  <1>3. CASE value # Null
    <2>1. graph' = MoveTo(ended, m) /\ open' = Below /\ mode' = "value" /\ value' = id
      BY <1>3 DEF WhileCondition, Yields
    <2>2. /\ Placed(graph, A, N) /\ Typed /\ F[n - 1] \subseteq A[c] /\ X \subseteq A[c] /\ Ok(graph, value, A[c])
          /\ \A v \in Kept(Top) : Ok(graph, v, A[c])
      BY <1>1, TopFacts, Facts
    <2>3. /\ Top.stmt \notin K /\ ~Rescuing(Top) /\ Top.base \in Nat /\ k \in Nat /\ m \in 1 .. k
          /\ A[m] = {} /\ b \in A[b] /\ A[b] \subseteq X \cup {b}
      BY <1>1, WhileParts
    <2>4. b \in Nat /\ m \in Nat /\ m \in Int /\ b # m
      BY <2>3
    <2>5. c \in 1 .. k /\ c \in Nat /\ c \in A[c] /\ c # m /\ A[c] \in SUBSET Nat /\ A \in [Nat -> SUBSET Nat]
      BY <2>2, <2>3 DEF Placed, Sound
    <2>6. id \in Kept(Top)
      BY <1>1 DEF Kept
    <2>7. \A i \in 1 .. n - 1 : open[i].op = "while" => open[i].base + 3 \in Nat /\ open[i].base + 3 # m /\ A[open[i].base + 3] = {}
      <3> SUFFICES ASSUME NEW i \in 1 .. n - 1, open[i].op = "while" PROVE open[i].base + 3 \in Nat /\ open[i].base + 3 # m /\ A[open[i].base + 3] = {}
        OBVIOUS
      <3>1. DOMAIN open = 1 .. n /\ n \in Nat /\ Top = open[n] /\ n \in DOMAIN open /\ n # i
        <4>1. DOMAIN open = 1 .. n /\ n \in Nat /\ Top = open[n] /\ n \in DOMAIN open
          BY <1>1, <2>2, StackBlocks
        <4>2. i \in 1 .. n - 1 /\ n \in Nat
          BY <4>1
        <4> HIDE DEF n
        <4>3. n # i
          BY ONLY <4>2
        <4>. QED BY <4>1, <4>3
      <3>2. i \in DOMAIN open
        <4>1. i \in 1 .. n - 1 /\ n \in Nat /\ DOMAIN open = 1 .. n
          BY <3>1
        <4> HIDE DEF n
        <4>2. i \in 1 .. n
          BY ONLY <4>1
        <4>. QED BY <4>1, <4>2
      <3>3. A[open[i].base + 3] = {}
        <4>1. Stable(graph, A, K, open[i], F[i], F[i - 1])
          BY <3>2, Facts
        <4>. QED BY <3>1, <4>1 DEF Stable
      <3>4. HasBlocks(open[i]) /\ HasBlocks(Top)
        BY <1>1 DEF HasBlocks
      <3>5. open[i].base + 3 \in Own(open[i]) /\ m \in Own(open[n])
        BY <3>1, <3>4 DEF Own
      <3>6. open[i].base \in Int /\ open[i].base >= 1
        BY <2>2, <3>2, <3>4, StackBlocks
      <3>7. open[i].base + 3 \in Nat
        BY <3>6
      <3>8. Nested(open)
        BY DEF From, Flow, FlowIs
      <3>9. open[i].base + 3 # m
        BY <2>2, <3>1, <3>2, <3>5, <3>8, OwnsApart
      <3>. QED BY <3>3, <3>7, <3>9
    <2> HIDE DEF k, c, n, X, N, b, m, id
    <2>8. PICK B : Entered(A, m, A[c], B)
      BY <2>4, <2>5, EnterExists
    <2>9. \A x \in Nat : B[x] = IF x = m THEN A[c] \cup {m} ELSE A[x]
      BY <2>8 DEF Entered
    <2>10. Sound(graph, B, N)
      BY <2>2, <2>3, <2>8, SoundEnter DEF Placed, k
    <2>11. B[c] = A[c] /\ B[b] = A[b] /\ B[m] = A[c] \cup {m}
      BY <2>4, <2>5, <2>9
    <2>12. Follows(graph, B, graph, B, N, k, c)
      BY <2>10, FollowsNothing DEF k, c
    <2>13. Near(B, c, b) /\ Near(B, c, m) /\ (Exempt(value, 0, N) \/ Available(graph, value, B[c]))
      <3>1. Exempt(value, 0, N) \/ Available(graph, value, A[c])
        BY <2>2, OkExempt
      <3>. QED BY <2>2, <2>3, <2>4, <2>11, <3>1 DEF Near
    <2>14. Follows(graph, B, ended, B, N, k, c)
      BY <2>5, <2>12, <2>13, FollowsCond
    <2> HIDE DEF ended
    <2>15. Follows(graph, B, graph', B, N, k, m)
      BY <2>1, <2>4, <2>14, FollowsMoveTo
    <2>16. graph'.cur = m /\ Sound(graph', B, N) /\ \A v, d, j : Site(graph, v, d, j) => Site(graph', v, d, j)
      BY <2>15 DEF Follows
    <2>17. Step(A, K, B, K, Len(open) - 1)
      <3>1. Goes1(program, open, program') /\ Placing(program, open)
        BY <1>1, <2>2, PlacesSame, StackPlaces DEF From
      <3>2. \A x \in Nat : A[x] \subseteq B[x] /\ (x \in A[x] => B[x] = A[x])
        BY <2>3, <2>9
      <3>3. Passes(graph, program, open, A, K, graph', program', B, K)
        BY <2>16, <3>1, <3>2 DEF Passes
      <3>4. Stands0(open, B, Len(open) - 1)
        BY <2>7, <2>9 DEF Stands0, n
      <3>5. Slots(program', K, variables', mode')
        BY <1>1, SlotsSame
      <3>6. Sound(graph', B, Excused(program')) /\ graph'.cur \in Nat /\ graph'.cur \in B[graph'.cur]
        BY <1>1, <2>4, <2>11, <2>16 DEF N
      <3>. QED BY <3>3, <3>4, <3>5, <3>6 DEF Step
    <2>18. Ok(graph', value', B[graph'.cur]) /\ F[Len(open) - 1] \subseteq B[graph'.cur]
      <3>1. Ok(graph, id, A[c])
        BY <2>2, <2>6
      <3>. QED BY <2>1, <2>2, <2>11, <2>16, <3>1 DEF Ok, Available, n
    <2>19. \A part \in AlwaysDone \cap (PartsOf(Top.op) \ NotYet(Top)) : Place(A, Top, part, F[Len(open)], A[graph.cur]) \subseteq B[graph'.cur]
      <3>1. \A part : Place(A, Top, part, F[Len(open)], A[graph.cur]) \subseteq A[c]
        BY <2>2, <2>3 DEF Place, X, n, c
      <3>. QED BY <2>11, <2>16, <3>1
    <2>20. program' = program /\ mode' = "value"
      BY <1>1, <2>1
    <2>. QED BY <1>1, <2>1, <2>3, <2>17, <2>18, <2>19, <2>20, PopValues
  <1>. QED BY <1>2, <1>3

-----------------------------------------------------------------------------
(* begin.                                                                  *)

LEMMA FollowsBegins ==
  ASSUME NEW g, NEW A, NEW h, NEW B, NEW N, NEW k, NEW c, Follows(g, A, h, B, N, k, c), NEW r
  PROVE  /\ Follows(g, A, [h EXCEPT !.begins = @ \cup {r}], B, N, k, c)
         /\ \A v, d, j : Site(h, v, d, j) => Site([h EXCEPT !.begins = @ \cup {r}], v, d, j)
  <1> DEFINE new == [h EXCEPT !.begins = @ \cup {r}]
  <1>1. Sound(h, B, N) /\ Size(h) = k /\ h.cur = c /\ Shaped(h) /\ k \in Nat
    BY DEF Follows, Sound
  <1>2. Shaped(new) /\ new.blocks = h.blocks /\ new.cur = c
    <2>1. PICK C, P, R : h \in [blocks : Seq([code : Seq(C), phi : SUBSET P]), cur : Int, begins : SUBSET R]
      BY <1>1 DEF Shaped
    <2>2. new \in [blocks : Seq([code : Seq(C), phi : SUBSET P]), cur : Int, begins : SUBSET (R \cup {r})]
      BY <2>1
    <2>3. new.blocks = h.blocks /\ new.cur = h.cur
      BY <2>1
    <2>. QED BY <1>1, <2>2, <2>3 DEF Shaped
  <1> HIDE DEF new
  <1>3. Size(new) = k /\ \A x : Into(new, x) = Into(h, x)
    BY <1>1, <1>2 DEF Size, Into, Enters, Jumps, Throws
  <1>4. Same(h, B, N, new)
    BY <1>1, <1>2, <1>3 DEF Same
  <1>5. Follows(g, A, new, B, N, k, c)
    BY <1>2, <1>3, <1>4, FollowsSame
  <1>6. \A v, d, j : Site(h, v, d, j) => Site(new, v, d, j)
    BY <1>1, <1>2, <1>3 DEF Site
  <1>. QED BY <1>5, <1>6 DEF new

LEMMA FollowsJoins ==
  ASSUME NEW g, NEW A, NEW h, NEW B, NEW N, NEW k, NEW c, Follows(g, A, h, B, N, k, c), NEW f, Ensure(f) \in 1 .. k,
         NEW v, NEW again, Const(again), NEW from \in 1 .. k, Ok(h, v, B[from])
  PROVE  /\ Follows(g, A, Joins(h, f, v, again, from), B, N, k, c)
         /\ \A w, d, j : Site(h, w, d, j) => Site(Joins(h, f, v, again, from), w, d, j)
         /\ Site(Joins(h, f, v, again, from), <<f.stmt, "value">>, Ensure(f), 0)
         /\ Site(Joins(h, f, v, again, from), <<f.stmt, "flag">>, Ensure(f), 0)
  <1> DEFINE e    == Ensure(f)
             id   == <<f.stmt, "value">>
             flag == <<f.stmt, "flag">>
             one  == AddIncoming(h, e, id, v, from)
             two  == AddIncoming(one, e, flag, again, from)
  <1>1. e \in 1 .. k /\ (Exempt(v, id[1], N) \/ Available(h, v, B[from])) /\ Exempt(again, flag[1], N)
    BY OkExempt DEF Exempt
  <1>2. Joins(h, f, v, again, from) = two
    BY DEF Joins
  <1> HIDE DEF e, id, flag
  <1>3. Follows(g, A, one, B, N, k, c) /\ (\A w, d, j : Site(h, w, d, j) => Site(one, w, d, j)) /\ Site(one, id, e, 0)
    BY <1>1, FollowsAddIncoming
  <1> HIDE DEF one
  <1>4. Follows(g, A, two, B, N, k, c) /\ (\A w, d, j : Site(one, w, d, j) => Site(two, w, d, j)) /\ Site(two, flag, e, 0)
    BY <1>1, <1>3, FollowsAddIncoming
  <1> HIDE DEF two
  <1>. QED BY <1>2, <1>3, <1>4 DEF e, id, flag

LEMMA BeginStartsValues ==
  ASSUME NEW A, NEW F, NEW K, From(A, F, K), NEW rescues, NEW ensured, BeginStarts(rescues, ensured)
  PROVE  Values'
  <1> DEFINE k == Size(graph)
             c == graph.cur
             X == A[c]
             N == Excused(program')
             Y == F[Len(open)]
             u == [Running("begin", "main", This) EXCEPT !.base = k, !.rescues = rescues, !.optional = ensured]
             S == {k + 1, k + 2, k + 3}
  <1>1. /\ mode = "statement" /\ program' = Append(program, Node("begin", "none")) /\ UNCHANGED variables
        /\ open' = Append(open, u) /\ mode' = "body" /\ graph' = Create(graph, 3)
    BY DEF BeginStarts, Starts, Writes, Push, BeginsBody
  <1>2. /\ Follows(graph, A, graph, A, N, k, c) /\ This \notin K /\ k \in Nat /\ c \in 1 .. k /\ c \in X /\ X \in SUBSET Nat /\ Y \subseteq X
    BY <1>1, StartFacts
  <1>3. u.op = "begin" /\ u.part = "main" /\ u.stmt = This /\ u.base = k
    BY DEF Running
  <1> HIDE DEF u, k, c, N, Y
  <1>4. k + 1 \in Nat /\ k + 2 \in Nat /\ k + 3 \in Nat /\ c \in Nat
    BY <1>2
  <1>5. Opening(k, 3, S, X)
    BY <1>2 DEF Opening
  <1> HIDE DEF X, S
  <1>6. PICK D : /\ Follows(graph, A, Create(graph, 3), D, N, k + 3, c)
                 /\ \A b \in S : D[b] = X \cup {b}
                 /\ \A b \in 1 .. k : D[b] = A[b]
    BY <1>2, <1>5, FollowsOpens
  <1>7. D[c] = X /\ D[k + 1] = X \cup {k + 1} /\ D[k + 2] = X \cup {k + 2} /\ D[k + 3] = X \cup {k + 3}
    BY <1>2, <1>4, <1>6 DEF S, X
  <1>8. Follows(graph, A, graph', D, N, k + 3, c) /\ graph'.cur = c
    BY <1>1, <1>6 DEF Follows
  <1>9. Stable(graph', D, K, u, X, Y)
    <2>1. Kept(u) = {} /\ Waiting(u) = {} /\ ~Rescuing(u) /\ Joined(u) = {k + 1, k + 2, k + 3} /\ Resumed(u) = {k + 1, k + 2, k + 3}
      BY <1>3 DEF Kept, Waiting, Rescuing, Joined, Resumed
    <2>. QED BY <1>2, <1>3, <1>7, <2>1 DEF Stable
  <1>10. graph'.cur \in Nat /\ graph'.cur \in D[graph'.cur] /\ A[graph.cur] \subseteq D[graph'.cur] /\ mode' \in {"statement", "body"}
    BY <1>1, <1>2, <1>4, <1>7, <1>8 DEF X, c
  <1>11. Stable(graph', D, K, u, A[graph.cur], F[Len(open)]) /\ "begin" # "assign"
    BY <1>9 DEF X, Y, c
  <1>. QED BY <1>1, <1>3, <1>8, <1>10, <1>11, StartedValues DEF N

\* What is known of a begin.
Begun(g, A, K, f, X, Y) ==
  /\ f.stmt \notin K /\ Y \subseteq X /\ X \subseteq A[g.cur] /\ A[g.cur] \in SUBSET Nat /\ Size(g) \in Nat
  /\ Pad(f) \in 1 .. Size(g) /\ Ensure(f) \in 1 .. Size(g) /\ Rethrow(f) \in 1 .. Size(g)
  /\ \A b \in Joined(f) : b \in A[b] /\ A[b] \subseteq X \cup {b}
  /\ \A b \in Resumed(f) : b \in A[b] /\ X \subseteq A[b]
  /\ \A v \in Waiting(f) : Ok(g, v, A[f.from])
  /\ \A v \in Kept(f) : Ok(g, v, X)
  /\ \A v \in Kept(f) : Ok(g, v, A[g.cur])
  /\ f.part = "ensure" =>
       Y \subseteq A[Pad(f)] /\ \A b \in {Ensure(f), Rethrow(f)} : b \in A[b] /\ A[b] \subseteq A[Pad(f)] \cup {b}
  /\ Rescuing(f) =>
       /\ A[Ensure(f)] \subseteq A[f.handler] \cup {Ensure(f)} /\ \A b \in {f.from, f.handler} : b \in A[b] /\ Y \subseteq A[b]
       /\ f.from \in 1 .. Size(g) /\ f.handler \in 1 .. Size(g)
LEMMA StableBegun ==
  ASSUME NEW g, NEW A, NEW K, NEW f, NEW X, NEW Y, Stable(g, A, K, f, X, Y), Size(g) \in Nat, X \subseteq A[g.cur], A[g.cur] \in SUBSET Nat,
         \A v \in Kept(f) : Ok(g, v, A[g.cur]), f.op = "begin",
         Pad(f) \in 1 .. Size(g) /\ Ensure(f) \in 1 .. Size(g) /\ Rethrow(f) \in 1 .. Size(g),
         Rescuing(f) => f.from \in 1 .. Size(g) /\ f.handler \in 1 .. Size(g)
  PROVE  Begun(g, A, K, f, X, Y)
  <1>1. /\ f.stmt \notin K /\ Y \subseteq X
        /\ \A b \in Joined(f) : b \in A[b] /\ A[b] \subseteq X \cup {b}
        /\ \A b \in Resumed(f) : b \in A[b] /\ X \subseteq A[b]
        /\ \A v \in Waiting(f) : Ok(g, v, A[f.from])
        /\ \A v \in Kept(f) : Ok(g, v, X)
    BY DEF Stable
  <1>2. f.part = "ensure" =>
              Y \subseteq A[Pad(f)] /\ \A b \in {Ensure(f), Rethrow(f)} : b \in A[b] /\ A[b] \subseteq A[Pad(f)] \cup {b}
    BY DEF Stable
  <1>3. Rescuing(f) =>
              A[Ensure(f)] \subseteq A[f.handler] \cup {Ensure(f)} /\ \A b \in {f.from, f.handler} : b \in A[b] /\ Y \subseteq A[b]
    BY DEF Stable
  <1>. QED BY <1>1, <1>2, <1>3 DEF Begun

LEMMA BegunTop ==
  ASSUME NEW A, NEW F, NEW K, From(A, F, K), open # <<>>, Top.op = "begin"
  PROVE  Begun(graph, A, K, Top, F[Len(open)], F[Len(open) - 1])
  <1>1. /\ Stable(graph, A, K, Top, F[Len(open)], F[Len(open) - 1]) /\ Size(graph) \in Nat /\ Typed
        /\ F[Len(open)] \subseteq A[graph.cur] /\ A[graph.cur] \in SUBSET Nat
        /\ \A v \in Kept(Top) : Ok(graph, v, A[graph.cur])
    BY TopFacts, Facts
  <1>2. Pad(Top) \in 1 .. Size(graph) /\ Ensure(Top) \in 1 .. Size(graph) /\ Rethrow(Top) \in 1 .. Size(graph)
    BY <1>1, BeginParts
  <1>3. Rescuing(Top) => Top.from \in 1 .. Size(graph) /\ Top.handler \in 1 .. Size(graph)
    BY <1>1, RescuingParts
  <1>. QED BY <1>1, <1>2, <1>3, StableBegun

LEMMA BeginMainValues == ASSUME NEW A, NEW F, NEW K, From(A, F, K), BeginMain PROVE Values'
  <1> DEFINE k == Size(graph)
             c == graph.cur
             n == Len(open)
             X == F[n]
             Y == F[n - 1]
             N == Excused(program)
             f == Top
             e == Ensure(Top)
             left == Emit(graph, To("br", <<>>, <<e>>))
             join == Joins(left, f, value, False, c)
             u == [Top EXCEPT !.part = "ensure"]
  <1>1. /\ mode = "value" /\ open # <<>> /\ Top.op = "begin" /\ Top.part = "main" /\ UNCHANGED <<program, variables>>
        /\ graph' = MoveTo(join, e) /\ open' = Append(Below, u)
        /\ mode' = "body" \/ (mode' = "value" /\ value' = Null)
    BY DEF BeginMain, Has, BeginsBody, Yields, TopIs
  <1>2. /\ Placed(graph, A, N) /\ Typed /\ Ok(graph, value, A[c]) /\ This \notin K
    BY <1>1, TopFacts, Facts
  <1>30. Begun(graph, A, K, f, X, Y)
    BY <1>1, BegunTop
  <1>3. /\ f.stmt \notin K /\ Y \subseteq X /\ X \subseteq A[c] /\ A[c] \in SUBSET Nat /\ k \in Nat
        /\ Pad(f) \in 1 .. k /\ e \in 1 .. k /\ Rethrow(f) \in 1 .. k
        /\ \A b \in Joined(f) : b \in A[b] /\ A[b] \subseteq X \cup {b}
        /\ \A b \in Resumed(f) : b \in A[b] /\ X \subseteq A[b]
    BY <1>30 DEF Begun
  <1>4. Joined(f) = {f.base + 1, f.base + 2, f.base + 3} /\ Resumed(f) = Joined(f)
    BY <1>1 DEF Joined, Resumed
  <1>5. Pad(f) = f.base + 1 /\ e = f.base + 2 /\ Rethrow(f) = f.base + 3
    BY DEF Pad, Ensure, Rethrow
  <1>6. c \in 1 .. k /\ Follows(graph, A, graph, A, N, k, c)
    BY <1>2, FollowsNothing DEF Placed
  <1>7. u.op = "begin" /\ u.part = "ensure" /\ u.stmt = f.stmt /\ u.base = f.base
    <2>1. f \in FramesOf(Len(program)) /\ f.op = "begin"
      BY <1>1, <1>2, TypedParts
    <2> DEFINE x == [f EXCEPT !.part = "ensure"]
    <2> HIDE DEF f
    <2>2. x.op = "begin" /\ x.part = "ensure" /\ x.stmt = f.stmt /\ x.base = f.base
      BY <2>1 DEF FramesOf
    <2>. QED BY <2>2 DEF f
  <1>8. f.op = "begin" /\ f.part = "main" /\ ~Rescuing(f) /\ ~Rescuing(u)
    BY <1>1, <1>7 DEF Rescuing
  <1>9. e \in 1 .. k /\ e \in Nat /\ e \in Int /\ Ensure(f) = e
    BY <1>3
  <1> HIDE DEF u, k, c, X, Y, N, n, e, f
  <1>10. Near(A, c, e)
    BY <1>3, <1>4, <1>5, <1>9 DEF Near
  <1>11. Follows(graph, A, left, A, N, k, c) /\ \A v, d, j : Site(graph, v, d, j) => Site(left, v, d, j)
    BY <1>6, <1>10, FollowsBr
  <1> HIDE DEF left
  <1>12. /\ Follows(graph, A, join, A, N, k, c)
         /\ Site(join, <<f.stmt, "value">>, e, 0) /\ Site(join, <<f.stmt, "flag">>, e, 0)
    <2>1. Ok(left, value, A[c])
      BY <1>2, <1>11 DEF Ok, Available
    <2>2. Const(False) /\ Ensure(f) \in 1 .. k
      BY <1>9 DEF Const, False
    <2>3. /\ Follows(graph, A, Joins(left, f, value, False, c), A, N, k, c)
          /\ Site(Joins(left, f, value, False, c), <<f.stmt, "value">>, Ensure(f), 0)
          /\ Site(Joins(left, f, value, False, c), <<f.stmt, "flag">>, Ensure(f), 0)
      BY <1>6, <1>11, <2>1, <2>2, FollowsJoins
    <2>. QED BY <1>9, <2>3
  <1> HIDE DEF join
  <1>13. Follows(graph, A, graph', A, N, k, e) /\ Site(graph', <<f.stmt, "value">>, e, 0) /\ Site(graph', <<f.stmt, "flag">>, e, 0)
    BY <1>1, <1>9, <1>12, FollowsMoveTo
  <1>14. graph'.cur = e
    BY <1>13 DEF Follows
  <1> DEFINE Z == A[e]
  <1>15. e \in Z /\ X \subseteq Z /\ Z \subseteq X \cup {e}
    BY <1>3, <1>4, <1>5
  <1>16. Y \subseteq Z /\ Z \in SUBSET Nat
    BY <1>3, <1>9, <1>15
  <1>17. Step(A, K, A, K, Len(open) - 1)
    BY <1>1, <1>9, <1>13, <1>14, <1>15, StepSame DEF N
  <1>18. Stable(graph', A, K, u, Z, Y)
    <2>1. /\ Kept(u) = {<<f.stmt, "value">>, <<f.stmt, "flag">>} /\ Waiting(u) = {} /\ Resumed(u) = {}
          /\ Joined(u) = {f.base + 1, f.base + 3}
      BY <1>7, <1>8 DEF Kept, Waiting, Joined, Resumed
    <2>2. Ok(graph', <<f.stmt, "value">>, Z) /\ Ok(graph', <<f.stmt, "flag">>, Z)
      BY <1>13, <1>15 DEF Ok, Available
    <2>3. Pad(u) = f.base + 1 /\ Ensure(u) = f.base + 2 /\ Rethrow(u) = f.base + 3
      BY <1>7 DEF Pad, Ensure, Rethrow
    <2>4. \A b \in {f.base + 1, f.base + 2, f.base + 3} : b \in A[b] /\ A[b] \subseteq X \cup {b} /\ X \subseteq A[b]
      BY <1>3, <1>4
    <2> HIDE DEF Z
    <2>5. Y \subseteq A[Pad(u)] /\ \A b \in {Ensure(u), Rethrow(u)} : b \in A[b] /\ A[b] \subseteq A[Pad(u)] \cup {b}
      BY <1>3, <2>3, <2>4
    <2>6. \A b \in Joined(u) : b \in A[b] /\ A[b] \subseteq Z \cup {b}
      BY <1>15, <2>1, <2>4
    <2>. QED BY <1>3, <1>7, <1>8, <1>16, <2>1, <2>2, <2>5, <2>6 DEF Stable
  <1>19. NotYet(u) \subseteq NotYet(Top) /\ \A part \in (PartsOf(u.op) \ NotYet(Top)) \cap Claimed(u) : FALSE
    <2>1. NotYet(u) = {"class"} /\ NotYet(f) = {"ensure", "class"} /\ Claimed(u) = AlwaysDone \cup {"class"}
      BY <1>7, <1>8 DEF NotYet, Claimed
    <2>. QED BY <1>7, <2>1 DEF PartsOf, AlwaysDone, f
  <1>20. /\ Z \subseteq A[graph'.cur] /\ Stable(graph', A, K, u, Z, F[Len(open) - 1]) /\ F[Len(open) - 1] \subseteq Z
         /\ u.op = Top.op /\ u.stmt = Top.stmt /\ Z \in SUBSET Nat /\ mode' \in {"statement", "body", "value"}
         /\ (mode' = "value" => Ok(graph', value', A[graph'.cur]))
    BY <1>1, <1>7, <1>14, <1>16, <1>18, NoneOk DEF Y, n, f
  <1> HIDE DEF Z
  <1>. QED BY <1>1, <1>2, <1>17, <1>19, <1>20, MoveValues

\* The pad of the begin around is in the part of the function below.
LEMMA PadBelow ==
  ASSUME NEW A, NEW F, NEW K, From(A, F, K), open # <<>>, ~(Top.op = "begin" /\ Top.part = "main"),
         NEW h, NEW B, NEW N, NEW k, NEW c, Follows(graph, A, h, B, N, k, c), NEW b, F[Len(open) - 1] \subseteq B[b]
  PROVE  PadIn(B, b)
  <1>1. Typed /\ HandlersNest /\ Lineage(program, open)
    BY DEF From
  <1>2. DOMAIN open = 1 .. Len(open) /\ Len(open) \in Nat /\ Len(open) # 0 /\ Top = open[Len(open)] /\ Size(graph) \in Nat
    BY <1>1, StackPlaces, Facts
  <1>3. ASSUME handlers # <<>>
        PROVE  LET pad == Last(handlers) IN pad \in Nat /\ pad \in B[pad] /\ B[pad] \subseteq B[b] \cup {pad}
    <2>1. handlers \in Seq(1 .. Size(graph))
      BY <1>1 DEF Typed
    <2>2. Len(handlers) \in DOMAIN handlers /\ Last(handlers) \in 1 .. Size(graph)
      <3>1. Len(handlers) \in DOMAIN handlers
        BY <1>3, <2>1, EmptySeq
      <3> DEFINE S == 1 .. Size(graph)
      <3>2. handlers \in Seq(S)
        BY <2>1
      <3> HIDE DEF S
      <3>3. Len(handlers) \in 1 .. Len(handlers)
        BY <3>1, <3>2
      <3>4. handlers[Len(handlers)] \in S
        BY <3>2, <3>3
      <3>. QED BY <3>1, <3>4 DEF Last, S
    <2>3. PICK i \in InMain : Last(handlers) = Pad(open[i])
      BY <1>1, <2>2 DEF HandlersNest, Last
    <2>4. i \in 1 .. Len(open) /\ open[i].op = "begin" /\ open[i].part = "main" /\ i # Len(open)
      BY <1>2, <2>3 DEF InMain
    <2> DEFINE f == open[i]
               p == Pad(f)
    <2>5. p \in Joined(f)
      BY <2>4 DEF Joined, Pad
    <2>6. p \in A[p] /\ A[p] \subseteq F[i] \cup {p}
      <3>1. Stable(graph, A, K, f, F[i], F[i - 1])
        BY <2>4, Facts
      <3> HIDE DEF p, f
      <3>. QED BY <2>5, <3>1 DEF Stable
    <2>7. p \in 1 .. Size(graph)
      BY <2>2, <2>3
    <2>8. F[i] \subseteq F[Len(open) - 1]
      <3>1. i \in 0 .. Len(open) - 1 /\ Len(open) - 1 \in 0 .. Len(open)
        <4>1. Len(open) \in Nat /\ i \in 1 .. Len(open) /\ i # Len(open) /\ Len(open) # 0
          BY <1>2, <2>4
        <4>. QED BY ONLY <4>1
      <3> DEFINE m == Len(open) - 1
      <3>2. \A x \in 1 .. Len(open) : F[x - 1] \subseteq F[x]
        BY Facts
      <3>3. m \in Nat /\ i \in 0 .. m /\ (\A x \in 1 .. m : x \in 1 .. Len(open))
        <4>1. Len(open) \in Nat /\ i \in 0 .. Len(open) - 1
          BY <1>2, <3>1
        <4>. QED BY ONLY <4>1
      <3>4. F[i] \subseteq F[m]
        <4>1. \A x \in 1 .. m : F[x - 1] \subseteq F[x]
          BY <3>2, <3>3
        <4> HIDE DEF m
        <4>. QED BY <3>3, <4>1, Rising
      <3>. QED BY <3>4
    <2>9. B[p] = A[p]
      BY <2>7 DEF Follows
    <2>10. p \in Nat
      BY <1>2, <2>7
    <2> HIDE DEF p
    <2>11. p \in Nat /\ p \in B[p] /\ B[p] \subseteq B[b] \cup {p}
      BY <2>6, <2>8, <2>9, <2>10
    <2>. QED BY <2>3, <2>11 DEF p
  <1>. QED BY <1>3 DEF PadIn

\* The landing pad, and the blocks that follow the ensure.
LEMMA BeginEnsureValues == ASSUME NEW A, NEW F, NEW K, From(A, F, K), BeginEnsure PROVE Values'
  <1> DEFINE k == Size(graph)
             c == graph.cur
             n == Len(open)
             X == F[n]
             Y == F[n - 1]
             N == Excused(program)
             f == Top
             p == Pad(Top)
             e == Ensure(Top)
             q == Rethrow(Top)
             a == k + 1
             b == k + 2
             flag      == <<Top.stmt, "flag">>
             token     == <<Top.stmt, "token">>
             exception == <<Top.stmt, "exception">>
             i1 == To("cond", <<flag>>, <<q, a>>)
             i2 == Instr("landingpad", token, <<>>)
             i3 == To("cond", <<False>>, <<b, q>>)
             i4 == To("resume", <<token>>, <<>>)
             r  == [pad |-> p, ensure |-> e, rethrow |-> q, finish |-> a]
             g1 == Create(graph, 2)
             g2 == Emit(g1, i1)
             g3 == EmitAt(g2, p, i2)
             g4 == EmitAt(g3, p, i3)
             g5 == EmitAt(g4, q, i4)
             g6 == [g5 EXCEPT !.begins = @ \cup {r}]
             g7 == MoveTo(g6, b)
             u == [Top EXCEPT !.part = "rescue", !.from = a, !.handler = b, !.args = <<exception>>, !.optional = FALSE]
  <1>1. /\ mode = "value" /\ open # <<>> /\ Top.op = "begin" /\ Top.part = "ensure" /\ UNCHANGED <<program, variables>>
        /\ graph' = (IF Top.rescues = <<>> THEN g7 ELSE LangCall(g7, exception, <<token>>)) /\ open' = Append(Below, u)
        /\ mode' = "value" /\ value' = Null
    BY DEF BeginEnsure, Has, Yields, TopIs
  <1>2. Placed(graph, A, N) /\ Typed /\ A \in [Nat -> SUBSET Nat] /\ A[c] \in SUBSET Nat
    BY <1>1, TopFacts, Facts
  <1>3. Begun(graph, A, K, f, X, Y) /\ f.op = "begin" /\ f.part = "ensure" /\ f \in FramesOf(Len(program))
    BY <1>1, <1>2, BegunTop, TypedParts
  <1>4. u.op = "begin" /\ u.part = "rescue" /\ u.stmt = f.stmt /\ u.base = f.base /\ u.from = a /\ u.handler = b
        /\ u.args = <<exception>> /\ u.rescues = f.rescues /\ u.optional = FALSE
    <2> DEFINE x == [f EXCEPT !.part = "rescue", !.from = a, !.handler = b, !.args = <<exception>>, !.optional = FALSE]
    <2> HIDE DEF f, a, b, exception
    <2>1. x.op = "begin" /\ x.part = "rescue" /\ x.stmt = f.stmt /\ x.base = f.base /\ x.from = a /\ x.handler = b
          /\ x.args = <<exception>> /\ x.rescues = f.rescues /\ x.optional = FALSE
      BY <1>3 DEF FramesOf
    <2>. QED BY <2>1 DEF f
  <1>5. Joined(f) = {f.base + 1, f.base + 3} /\ Kept(f) = {<<f.stmt, "value">>, <<f.stmt, "flag">>}
    BY <1>3 DEF Joined, Kept, Rescuing
  <1>6. p = f.base + 1 /\ e = f.base + 2 /\ q = f.base + 3 /\ Pad(f) = p /\ Ensure(f) = e /\ Rethrow(f) = q
    BY DEF Pad, Ensure, Rethrow
  <1>7. /\ f.stmt \notin K /\ Y \subseteq X /\ X \subseteq A[c] /\ k \in Nat /\ p \in 1 .. k /\ e \in 1 .. k /\ q \in 1 .. k
        /\ \A x \in Joined(f) : x \in A[x] /\ A[x] \subseteq X \cup {x}
        /\ \A v \in Kept(f) : Ok(graph, v, A[c])
        /\ Y \subseteq A[p] /\ \A x \in {e, q} : x \in A[x] /\ A[x] \subseteq A[p] \cup {x}
    BY <1>3, <1>6 DEF Begun
  <1>8. c \in 1 .. k /\ c \in A[c] /\ Follows(graph, A, graph, A, N, k, c)
    BY <1>2, FollowsNothing DEF Placed
  <1>9. Ok(graph, flag, A[c]) /\ Ok(graph, <<f.stmt, "value">>, A[c]) /\ p \in A[p] /\ q \in A[q] /\ e \in A[e]
        /\ A[q] \subseteq A[c] \cup {q} /\ A[q] \subseteq A[p] \cup {q} /\ A[e] \subseteq A[p] \cup {e} /\ Y \subseteq A[c]
    BY <1>5, <1>6, <1>7
  <1>10. a \in Nat /\ b \in Nat /\ b \in Int /\ a # b /\ 2 \in Nat /\ a \in 1 .. k + 2 /\ b \in 1 .. k + 2 /\ b > k /\ p \in 1 .. k + 2 /\ q \in 1 .. k + 2
         /\ c \in 1 .. k + 2 /\ {a} \in SUBSET (k + 1 .. k + 2) /\ b \in (k + 1 .. k + 2) \ {a} /\ k + 2 \in Nat
         /\ p \in Nat /\ q \in Nat /\ e \in Nat /\ c \in Nat /\ p # b /\ q # b /\ c # b /\ e # b
    BY <1>7, <1>8
  <1>11. A[p] \in SUBSET Nat /\ Opening(k, 2, {a}, A[c])
    BY <1>2, <1>10 DEF Opening
  <1>12. i2.targets = <<>> /\ i2.unwind = 0 /\ i2.args = <<>>
    BY DEF Instr
  <1>13. Exempt(token, 0, N) /\ Exempt(token, exception[1], N) /\ Const(False)
    BY DEF Exempt, Const, False
  <1> HIDE DEF k, c, X, Y, N, n, p, e, q, a, b, f, token, flag, exception, r, u
  <1>14. PICK D1 : /\ Follows(graph, A, g1, D1, N, k + 2, c) /\ D1[a] = A[c] \cup {a} /\ D1[b] = {} /\ \A x \in 1 .. k : D1[x] = A[x]
                   /\ \A v, d, j : Site(graph, v, d, j) => Site(g1, v, d, j)
    <2> DEFINE S == {a}
               Z == A[c]
    <2>1. Opening(k, 2, S, Z) /\ a \in S /\ b \in (k + 1 .. k + 2) \ S
      BY <1>10, <1>11
    <2> HIDE DEF S, Z
    <2>2. PICK D : /\ Follows(graph, A, Create(graph, 2), D, N, k + 2, c)
                   /\ \A x \in S : D[x] = Z \cup {x}
                   /\ \A x \in (k + 1 .. k + 2) \ S : D[x] = {}
                   /\ \A x \in 1 .. k : D[x] = A[x]
                   /\ \A v, d, j : Site(graph, v, d, j) => Site(Create(graph, 2), v, d, j)
      BY <1>8, <2>1, FollowsOpens
    <2>. QED BY <2>1, <2>2 DEF Z
  <1> HIDE DEF g1
  <1>15. PICK D : Entered(D1, b, A[p], D)
    BY <1>10, <1>11, <1>14, EnterExists DEF Follows, Sound
  <1>16. Follows(graph, A, g1, D, N, k + 2, c)
    BY <1>10, <1>14, <1>15, FollowsEnter DEF k
  <1>17. /\ D[c] = A[c] /\ D[p] = A[p] /\ D[q] = A[q] /\ D[e] = A[e] /\ D[a] = A[c] \cup {a} /\ D[b] = A[p] \cup {b}
    BY <1>7, <1>8, <1>10, <1>14, <1>15 DEF Entered
  <1>18. Near(D, c, q) /\ Near(D, c, a) /\ Near(D, p, b) /\ Near(D, p, q)
    BY <1>9, <1>10, <1>17 DEF Near
  <1>19. Follows(graph, A, g2, D, N, k + 2, c)
    <2>1. Ok(g1, flag, D[c])
      BY <1>9, <1>14, <1>17 DEF Ok, Available
    <2>2. Exempt(flag, 0, N) \/ Available(g1, flag, D[c])
      BY <2>1, OkExempt
    <2>. QED BY <1>10, <1>16, <1>18, <2>2, FollowsCond
  <1> HIDE DEF g2, i2, i3, i4
  <1>20. Follows(graph, A, g3, D, N, k + 2, c)
    <2>1. Members(i2.args) = {} /\ Members(i2.targets) = {}
      BY <1>12, MembersOf
    <2>2. Fine(i2, g2, D, N, p)
      BY <1>12, <2>1 DEF Fine, GoesTo
    <2>. QED BY <1>10, <1>19, <2>2, FollowsEmitAt
  <1> HIDE DEF g3
  <1>21. Follows(graph, A, g4, D, N, k + 2, c)
    <2>1. Members(<<False>>) = {False} /\ Members(<<b, q>>) = {b, q}
      BY MembersOf
    <2>2. \A v \in Members(<<False>>) : Exempt(v, 0, N) \/ Available(g3, v, D[p])
      BY <1>13, <2>1 DEF Exempt
    <2>3. \A x \in Members(<<b, q>>) : x \in Nat /\ x \in D[x] /\ D[x] \subseteq D[p] \cup {x}
      BY <1>18, <2>1 DEF Near
    <2>4. Fine(i3, g3, D, N, p)
      BY <2>2, <2>3, FineTo DEF i3
    <2>. QED BY <1>10, <1>20, <2>4, FollowsEmitAt
  <1> HIDE DEF g4
  <1>22. Follows(graph, A, g5, D, N, k + 2, c)
    <2>1. Members(<<token>>) = {token} /\ Members(<<>>) = {}
      BY MembersOf
    <2>2. \A v \in Members(<<token>>) : Exempt(v, 0, N) \/ Available(g4, v, D[q])
      BY <1>13, <2>1
    <2>3. \A x \in Members(<<>>) : x \in Nat /\ x \in D[x] /\ D[x] \subseteq D[q] \cup {x}
      BY <2>1
    <2>4. Fine(i4, g4, D, N, q)
      BY <2>2, <2>3, FineTo DEF i4
    <2>. QED BY <1>10, <1>21, <2>4, FollowsEmitAt
  <1> HIDE DEF g5
  <1>23. Follows(graph, A, g6, D, N, k + 2, c)
    BY <1>22, FollowsBegins
  <1> HIDE DEF g6
  <1>24. Follows(graph, A, g7, D, N, k + 2, b) /\ g7.cur = b
    <2>1. Follows(graph, A, g7, D, N, k + 2, b)
      BY <1>10, <1>23, FollowsMoveTo
    <2>. QED BY <2>1 DEF Follows
  <1> HIDE DEF g7
  <1>25. Placed(g7, D, N) /\ PadIn(D, g7.cur)
    <2>1. Placed(g7, D, N)
      BY <1>10, <1>17, <1>24 DEF Placed, Follows
    <2>2. F[Len(open) - 1] \subseteq D[b] /\ ~(Top.op = "begin" /\ Top.part = "main")
      BY <1>1, <1>7, <1>17 DEF Y, n
    <2>3. PadIn(D, b)
      BY <1>1, <1>24, <2>2, PadBelow
    <2>. QED BY <1>24, <2>1, <2>3
  <1>26. PICK B : Onto(g7, D, graph', B, N) /\ (Top.rescues # <<>> => Available(graph', exception, B[graph'.cur]))
    <2>1. CASE Top.rescues = <<>>
      BY <1>1, <1>25, <2>1, OntoNothing
    <2>2. CASE Top.rescues # <<>>
      <3>1. Members(<<token>>) = {token}
        BY MembersOf
      <3>2. \A v \in Members(<<token>>) : Exempt(v, exception[1], N) \/ Available(g7, v, D[g7.cur])
        BY <1>13, <3>1
      <3>3. \E B : Onto(g7, D, LangCall(g7, exception, <<token>>), B, N)
                   /\ Available(LangCall(g7, exception, <<token>>), exception, B[LangCall(g7, exception, <<token>>).cur])
        BY <1>25, <3>2, OntoLangCall
      <3>4. graph' = LangCall(g7, exception, <<token>>)
        BY <1>1, <2>2
      <3>. QED BY <3>3, <3>4
    <2>. QED BY <2>1, <2>2
  <1> DEFINE l  == Size(graph')
             c1 == graph'.cur
             Z  == B[c1]
  <1>27. Follows(graph, A, graph', B, N, l, c1) /\ c1 \in Nat /\ c1 \in Z /\ D[b] \subseteq Z
    <2>1. Follows(g7, D, graph', B, N, l, c1)
      BY <1>26 DEF Onto
    <2>2. Follows(graph, A, graph', B, N, l, c1)
      BY <1>24, <2>1, FollowsTwice
    <2>3. c1 \in 1 .. l /\ c1 \in Z /\ D[b] \subseteq Z
      BY <1>24, <1>26 DEF Onto
    <2>. QED BY <2>2, <2>3
  <1>28. B[a] = D[a] /\ B[b] = D[b] /\ B[e] = D[e]
    <2>1. Size(g7) = k + 2
      BY <1>24 DEF Follows
    <2>2. \A x \in 1 .. Size(g7) : B[x] = D[x]
      BY <1>26 DEF Onto, Follows
    <2>3. e \in 1 .. k + 2
      BY <1>7
    <2>. QED BY <1>10, <2>1, <2>2, <2>3
  <1>29. Step(A, K, B, K, Len(open) - 1)
    BY <1>1, <1>27, StepSame DEF N
  <1>30. Z \in SUBSET Nat
    BY <1>27 DEF Follows, Sound
  <1>31. Stable(graph', B, K, u, Z, Y)
    <2>1. u.args[1] = exception /\ Rescuing(u)
      BY <1>4 DEF Rescuing
    <2>2. /\ Kept(u) \subseteq {exception} /\ (u.rescues = <<>> => Kept(u) = {}) /\ Waiting(u) = {<<f.stmt, "value">>}
          /\ Joined(u) = {f.base + 2} /\ Resumed(u) = {}
      BY <1>4, <2>1 DEF Kept, Waiting, Joined, Resumed
    <2>3. Ensure(u) = e
      BY <1>4, <1>6 DEF Ensure
    <2>4. \A v \in Kept(u) : Ok(graph', v, Z)
      BY <1>4, <1>26, <2>2 DEF Ok, f
    <2>5. Ok(graph', <<f.stmt, "value">>, B[a])
      BY <1>9, <1>17, <1>27, <1>28 DEF Ok, Available, Follows
    <2>6. Y \subseteq Z
      BY <1>7, <1>17, <1>27
    <2>7. e \in B[e] /\ B[e] \subseteq Z \cup {e} /\ B[e] \subseteq B[b] \cup {e} /\ a \in B[a] /\ b \in B[b] /\ Y \subseteq B[a] /\ Y \subseteq B[b]
      BY <1>7, <1>9, <1>17, <1>27, <1>28
    <2> HIDE DEF Z
    <2>. QED BY <1>4, <1>6, <1>7, <2>1, <2>2, <2>3, <2>4, <2>5, <2>6, <2>7 DEF Stable
  <1>32. NotYet(u) = {} /\ NotYet(f) = {"class"} /\ PartsOf(u.op) = {"main", "ensure", "rescue", "class", "clause"} /\ Rescuing(u) /\ ~Rescuing(f)
    BY <1>3, <1>4 DEF NotYet, PartsOf, Rescuing
  <1> HIDE DEF Z
  <1>33. \A part \in (PartsOf(u.op) \ NotYet(Top)) \cap Claimed(u) :
           /\ part \in Claimed(Top)
           /\ Place(A, Top, part, F[Len(open)], A[graph.cur]) \subseteq Place(B, u, part, Z, IF mode' = "value" THEN B[graph'.cur] ELSE Z)
    <2>1. \A part \in (PartsOf(u.op) \ NotYet(f)) \cap Claimed(u) : part = "ensure"
      BY <1>32 DEF Claimed, AlwaysDone
    <2>2. "ensure" \in Claimed(f)
      BY DEF Claimed, AlwaysDone
    <2>3. Place(A, f, "ensure", X, A[c]) = A[c] /\ \A Q : Place(B, u, "ensure", Z, Q) = B[a]
      BY <1>3, <1>4, <1>32 DEF Place
    <2>4. A[c] \subseteq B[a]
      BY <1>17, <1>28
    <2>. QED BY <2>1, <2>2, <2>3, <2>4 DEF f, X, n, c
  <1>34. /\ Z \subseteq B[graph'.cur] /\ Stable(graph', B, K, u, Z, F[Len(open) - 1]) /\ F[Len(open) - 1] \subseteq Z
         /\ u.op = Top.op /\ u.stmt = Top.stmt /\ Z \in SUBSET Nat /\ mode' \in {"statement", "body", "value"}
         /\ Ok(graph', value', B[graph'.cur]) /\ NotYet(u) \subseteq NotYet(Top) /\ mode' # "body"
    <2>1. Y \subseteq Z
      BY <1>31 DEF Stable
    <2>. QED BY <1>1, <1>3, <1>4, <1>30, <1>31, <1>32, <2>1, NoneOk DEF Y, n, f, Z
  <1>. QED BY <1>1, <1>29, <1>33, <1>34, MoveValues

-----------------------------------------------------------------------------
(* The clauses of rescues.                                                 *)

LEMMA CatchOnto ==
  ASSUME NEW g, NEW B, NEW N, Placed(g, B, N), PadIn(B, g.cur), NEW rescue, Ok(g, Top.args[1], B[g.cur])
  PROVE  \E D : /\ Onto(g, B, Catch(g, rescue), D, N)
                /\ rescue.var # "none" => Available(Catch(g, rescue), Slot(This), D[Catch(g, rescue).cur])
  <1> DEFINE slot == <<This, "slot">>
             v    == Top.args[1]
             i1   == Instr("alloca", slot, <<>>)
             i2   == Instr("store", <<This, "stored">>, <<slot, v>>)
             g1   == Emit(g, i1)
             g2   == Emit(g1, i2)
             h    == IF rescue.var = "none" THEN g ELSE g2
             id   == <<This, "caught">>
  <1>1. Catch(g, rescue) = LangCall(h, id, <<>>) /\ slot = Slot(This)
    BY DEF Catch, Slot
  <1>2. /\ i1.targets = <<>> /\ i1.unwind = 0 /\ i1.op # "invoke" /\ i1.id = slot /\ i1.args = <<>>
        /\ i2.targets = <<>> /\ i2.unwind = 0 /\ i2.op # "invoke" /\ i2.args = <<slot, v>>
    BY DEF Instr
  <1>3. Ok(g, v, B[g.cur])
    OBVIOUS
  <1> HIDE DEF slot, v, i1, i2, id
  <1>4. Onto(g, B, g1, B, N) /\ Available(g1, slot, B[g.cur]) /\ g1.cur = g.cur
    <2>1. Members(i1.args) = {} /\ Members(i1.targets) = {}
      BY <1>2, MembersOf
    <2>2. Fine(i1, g, B, N, g.cur)
      BY <1>2, <2>1 DEF Fine, GoesTo
    <2>. QED BY <1>2, <2>2, OntoEmit
  <1> HIDE DEF g1
  <1>5. Placed(g1, B, N) /\ Ok(g1, v, B[g1.cur])
    BY <1>3, <1>4, OntoPlaced DEF Onto, Follows, Ok, Available
  <1>6. Onto(g1, B, g2, B, N) /\ g2.cur = g1.cur
    <2>1. Members(i2.args) = {slot, v} /\ Members(i2.targets) = {}
      <3>1. i2.args = <<slot, v>> /\ i2.targets = <<>>
        BY <1>2
      <3>2. Members(<<slot, v>>) = {slot, v} /\ Members(<<>>) = {}
        BY ONLY MembersOf
      <3>. QED BY ONLY <3>1, <3>2
    <2>2. \A w \in Members(i2.args) : Exempt(w, i2.id[1], N) \/ Available(g1, w, B[g1.cur])
      BY <1>4, <1>5, <2>1, OkExempt
    <2>3. Fine(i2, g1, B, N, g1.cur)
      BY <1>2, <2>1, <2>2 DEF Fine, GoesTo
    <2>. QED BY <1>2, <1>5, <2>3, OntoEmit
  <1> HIDE DEF g2
  <1>7. Onto(g, B, h, B, N) /\ (rescue.var # "none" => Available(h, slot, B[h.cur]))
    <2>1. CASE rescue.var = "none"
      BY <2>1, OntoNothing
    <2>2. CASE rescue.var # "none"
      <3>1. Onto(g, B, g2, B, N)
        BY <1>4, <1>6, OntoTwice
      <3>2. Available(g2, slot, B[g2.cur])
        BY <1>4, <1>6 DEF Onto, Follows, Available
      <3>. QED BY <2>2, <3>1, <3>2
    <2>. QED BY <2>1, <2>2
  <1> HIDE DEF h
  <1>8. Placed(h, B, N) /\ PadIn(B, h.cur)
    <2>1. Sound(g, B, N)
      BY DEF Placed
    <2>. QED BY <1>7, <2>1, OntoPlaced, OntoPads
  <1>9. PICK D : Onto(h, B, LangCall(h, id, <<>>), D, N)
    <2>1. Members(<<>>) = {}
      BY MembersOf
    <2>2. \A w \in Members(<<>>) : Exempt(w, id[1], N) \/ Available(h, w, B[h.cur])
      BY <2>1
    <2>. QED BY <1>8, <2>2, OntoLangCall
  <1>10. Onto(g, B, LangCall(h, id, <<>>), D, N)
    BY <1>7, <1>9, OntoTwice
  <1>11. rescue.var # "none" => Available(LangCall(h, id, <<>>), slot, D[LangCall(h, id, <<>>).cur])
    BY <1>7, <1>9 DEF Onto, Follows, Available
  <1>. QED BY <1>1, <1>10, <1>11

\* The variable of a clause is its.
LEMMA CatchSlots ==
  ASSUME NEW A, NEW F, NEW K, From(A, F, K), mode = "value", program' = program, mode' = "body", NEW rescue \in Rescues,
         variables' = IF rescue.var = "none" THEN variables ELSE [variables EXCEPT ![rescue.var] = <<This, "slot">>]
  PROVE  LET L == IF rescue.var = "none" THEN K ELSE K \cup {This} IN
         Slots(program', L, variables', mode') /\ K \subseteq L /\ L \subseteq K \cup {This}
  <1> DEFINE L == IF rescue.var = "none" THEN K ELSE K \cup {This}
             slot == <<This, "slot">>
  <1>1. Slots(program, K, variables, mode) /\ Typed
    BY DEF From, Carries
  <1>2. K \subseteq L /\ L \subseteq K \cup {This} /\ This = Len(program) + 1 /\ slot = Slot(This) /\ slot # Null
    <2>1. This \in Nat /\ This # 0 /\ This = Len(program) + 1
      <3>1. Len(program) \in Nat /\ This = Len(program) + 1
        BY <1>1, StackPlaces DEF From
      <3>. QED BY <3>1
    <2>2. slot # Null
      BY DEF Null
    <2>. QED BY <2>1, <2>2 DEF Slot
  <1>3. variables \in [Names -> IdsUpTo(Len(program))] /\ rescue.var \in Names \cup {"none"} /\ "none" \notin Names
    BY <1>1, CodegenAssumption DEF Typed, Rescues
  <1>4. \A x \in Names : variables'[x] = variables[x] \/ (rescue.var # "none" /\ variables'[x] = slot)
    <2>1. CASE rescue.var = "none"
      BY <2>1
    <2>2. CASE rescue.var # "none"
      <3>1. variables' = [variables EXCEPT ![rescue.var] = slot]
        BY <2>2
      <3> HIDE DEF slot
      <3>. QED BY <1>3, <2>2, <3>1
    <2>. QED BY <2>1, <2>2
  <1>5. \A x : x \notin Names => variables'[x] = variables[x]
    <2>1. CASE rescue.var = "none"
      BY <2>1
    <2>2. CASE rescue.var # "none"
      <3>1. variables' = [variables EXCEPT ![rescue.var] = slot]
        BY <2>2
      <3> HIDE DEF slot
      <3>. QED BY <1>3, <2>2, <3>1
    <2>. QED BY <2>1, <2>2
  <1>6. \A a \in L : (a \in DOMAIN program' /\ Allocates(program', a)) \/ (mode' = "body" /\ a = Len(program') + 1)
    <2>1. \A a \in K : a \in DOMAIN program /\ Allocates(program, a)
      BY <1>1 DEF Slots
    <2>. QED BY <1>2, <2>1
  <1>7. \A x \in Names : Const(variables'[x]) \/ \E a \in L : variables'[x] = Slot(a)
    <2>1. \A x \in Names : Const(variables[x]) \/ \E a \in K : variables[x] = Slot(a)
      BY <1>1 DEF Slots
    <2>. QED BY <1>2, <1>4, <2>1
  <1> HIDE DEF L, slot
  <1>8. \A x : variables[x] # Null => variables'[x] # Null
    BY <1>2, <1>4, <1>5
  <1>9. Slots(program', L, variables', mode')
    BY <1>1, <1>6, <1>7, <1>8 DEF Slots
  <1>. QED BY <1>2, <1>9 DEF L

\* What a begin counts on in the next step of its rescues.
RescueGoes(g, A, h, B, L, f, u, X, Y, Z) ==
  /\ Rescuing(f) /\ Rescuing(u) /\ u.stmt = f.stmt /\ u.base = f.base /\ u.from = f.from /\ f.stmt \notin L
  /\ \A v, d, j : Site(g, v, d, j) => Site(h, v, d, j)
  /\ \A b \in 1 .. Size(g) : B[b] = A[b]
  /\ Y \subseteq Z /\ A[Ensure(f)] \subseteq Z \cup {Ensure(f)} /\ \A v \in Kept(u) : Ok(h, v, Z)
  /\ u.handler \in B[u.handler] /\ Y \subseteq B[u.handler] /\ A[Ensure(f)] \subseteq B[u.handler] \cup {Ensure(f)}
  /\ \A b \in Resumed(u) : b \in B[b] /\ Z \subseteq B[b]
LEMMA StableRescue ==
  ASSUME NEW g, NEW A, NEW K, NEW f, NEW X, NEW Y, Begun(g, A, K, f, X, Y), NEW h, NEW B, NEW L, NEW u, NEW Z,
         RescueGoes(g, A, h, B, L, f, u, X, Y, Z)
  PROVE  Stable(h, B, L, u, Z, Y)
  <1>1. f.op = "begin" /\ u.op = "begin" /\ u.part \in {"rescue", "class", "clause"} /\ f.part \in {"rescue", "class", "clause"}
    BY DEF RescueGoes, Rescuing
  <1>2. Ensure(u) = Ensure(f) /\ Ensure(u) = u.base + 2
    BY DEF RescueGoes, Ensure
  <1>3. Waiting(f) = {<<f.stmt, "value">>} /\ Waiting(u) = {<<f.stmt, "value">>} /\ Joined(u) = {Ensure(f)} /\ Joined(f) = {Ensure(f)}
    BY <1>1, <1>2 DEF Waiting, Joined, Rescuing, RescueGoes
  <1>4. /\ Ensure(f) \in A[Ensure(f)] /\ Ok(g, <<f.stmt, "value">>, A[f.from]) /\ f.from \in A[f.from] /\ Y \subseteq A[f.from]
        /\ f.from \in 1 .. Size(g) /\ Ensure(f) \in 1 .. Size(g)
    BY <1>3 DEF Begun, RescueGoes
  <1>5. B[f.from] = A[f.from] /\ B[Ensure(f)] = A[Ensure(f)]
    BY <1>4 DEF RescueGoes
  <1>6. Ok(h, <<f.stmt, "value">>, B[f.from])
    BY <1>4, <1>5 DEF RescueGoes, Ok, Available
  <1>7. /\ Y \subseteq Z /\ u.stmt \notin L /\ \A v \in Kept(u) : Ok(h, v, Z)
        /\ \A v \in Waiting(u) : Ok(h, v, B[u.from])
        /\ \A b \in Resumed(u) : b \in B[b] /\ Z \subseteq B[b]
    BY <1>3, <1>6 DEF RescueGoes
  <1>8. \A b \in Joined(u) : b \in B[b] /\ B[b] \subseteq Z \cup {b}
    BY <1>3, <1>4, <1>5 DEF RescueGoes
  <1>9. /\ B[Ensure(u)] \subseteq B[u.handler] \cup {Ensure(u)}
        /\ \A b \in {u.from, u.handler} : b \in B[b] /\ Y \subseteq B[b]
    BY <1>2, <1>4, <1>5 DEF RescueGoes
  <1>. QED BY <1>1, <1>7, <1>8, <1>9 DEF Stable

LEMMA RescueTypedValues == ASSUME NEW A, NEW F, NEW K, From(A, F, K), RescueTyped PROVE Values'
  <1> DEFINE c == graph.cur
             X == F[Len(open)]
             Y == F[Len(open) - 1]
             N == Excused(program)
             f == Top
             u == [Top EXCEPT !.part = "class"]
  <1>1. /\ mode = "value" /\ open # <<>> /\ Top.op = "begin" /\ Top.part = "rescue" /\ Top.rescues # <<>>
        /\ UNCHANGED <<graph, program, variables>> /\ open' = Append(Below, u) /\ mode' = "statement"
    BY DEF RescueTyped, RescueIs, TopIs, Generate
  <1>2. Placed(graph, A, N) /\ Typed /\ Begun(graph, A, K, f, X, Y) /\ f \in FramesOf(Len(program))
    BY <1>1, TopFacts, BegunTop, TypedParts
  <1>3. u.op = "begin" /\ u.part = "class" /\ u.stmt = f.stmt /\ u.base = f.base /\ u.from = f.from /\ u.handler = f.handler
        /\ u.args = f.args /\ u.rescues = f.rescues /\ f.op = "begin" /\ f.part = "rescue" /\ f.rescues # <<>>
    <2> DEFINE x == [f EXCEPT !.part = "class"]
    <2>1. f.op = "begin" /\ f.part = "rescue" /\ f.rescues # <<>>
      BY <1>1
    <2> HIDE DEF f
    <2>2. x.op = "begin" /\ x.part = "class" /\ x.stmt = f.stmt /\ x.base = f.base /\ x.from = f.from /\ x.handler = f.handler
        /\ x.args = f.args /\ x.rescues = f.rescues
      BY <1>2, <2>1 DEF FramesOf
    <2>. QED BY <2>1, <2>2 DEF f
  <1> HIDE DEF u, f, c, X, Y, N
  <1>4. Rescuing(f) /\ Rescuing(u) /\ Kept(f) = {f.args[1]} /\ Kept(u) = {f.args[1]} /\ Resumed(u) = {} /\ Ensure(f) \in Joined(f)
        /\ NotYet(u) = {}
    <2>1. Rescuing(f) /\ Rescuing(u)
      BY <1>3 DEF Rescuing
    <2>. QED BY <1>3, <2>1 DEF Kept, Resumed, Joined, Ensure, NotYet
  <1>5. /\ f.stmt \notin K /\ Y \subseteq X /\ X \subseteq A[c] /\ \A v \in Kept(f) : Ok(graph, v, A[c])
        /\ A[Ensure(f)] \subseteq X \cup {Ensure(f)} /\ f.handler \in A[f.handler] /\ Y \subseteq A[f.handler]
        /\ A[Ensure(f)] \subseteq A[f.handler] \cup {Ensure(f)}
    BY <1>2, <1>4 DEF Begun, c
  <1>6. RescueGoes(graph, A, graph, A, K, f, u, X, Y, A[c])
    BY <1>3, <1>4, <1>5 DEF RescueGoes
  <1>7. Stable(graph, A, K, u, A[c], Y)
    BY <1>2, <1>6, StableRescue
  <1>8. Follows(graph, A, graph', A, N, Size(graph), c) /\ graph'.cur \in Nat /\ graph'.cur \in A[graph'.cur] /\ graph'.cur = c
    <2>1. Size(graph) \in Nat /\ c \in Nat /\ c \in A[c]
      BY <1>2, Facts DEF Placed, c
    <2>. QED BY <1>1, <1>2, <2>1, FollowsNothing DEF Placed, c
  <1>9. Step(A, K, A, K, Len(open) - 1)
    BY <1>1, <1>8, StepSame DEF N
  <1>10. /\ u.stmt = Top.stmt /\ u.op = Top.op /\ NotYet(u) \subseteq NotYet(Top) /\ (Rescuing(u) <=> Rescuing(Top))
         /\ u.rescues = Top.rescues /\ u.from = Top.from /\ A[graph.cur] \subseteq A[graph'.cur]
         /\ Stable(graph', A, K, u, A[graph'.cur], F[Len(open) - 1]) /\ mode' \in {"statement", "body", "value"} /\ mode' # "value" /\ mode' # "body"
    BY <1>1, <1>3, <1>4, <1>7, <1>8 DEF f, c, Y
  <1>. QED BY <1>1, <1>9, <1>10, OntoMoves

LEMMA RescueAnyValues == ASSUME NEW A, NEW F, NEW K, From(A, F, K), RescueAny PROVE Values'
  <1> DEFINE c == graph.cur
             X == F[Len(open)]
             Y == F[Len(open) - 1]
             N == Excused(program)
             f == Top
             r == Head(Top.rescues)
             L == IF r.var = "none" THEN K ELSE K \cup {This}
             u == [Top EXCEPT !.part = "clause", !.optional = TRUE]
  <1>1. /\ mode = "value" /\ open # <<>> /\ Top.op = "begin" /\ Top.part = "rescue" /\ Top.rescues # <<>>
        /\ program' = program /\ open' = Append(Below, u) /\ mode' = "body" /\ graph' = Catch(graph, r)
        /\ variables' = IF r.var = "none" THEN variables ELSE [variables EXCEPT ![r.var] = <<This, "slot">>]
    BY DEF RescueAny, RescueIs, TopIs, BeginsBody, Catches
  <1>2. Placed(graph, A, N) /\ Typed /\ Begun(graph, A, K, f, X, Y) /\ f \in FramesOf(Len(program)) /\ PadIn(A, c)
        /\ Goes1(program, open, program') /\ f.stmt \in 1 .. Len(program)
    BY <1>1, TopFacts, BegunTop, TypedParts
  <1>3. u.op = "begin" /\ u.part = "clause" /\ u.stmt = f.stmt /\ u.base = f.base /\ u.from = f.from /\ u.handler = f.handler
        /\ u.args = f.args /\ u.rescues = f.rescues /\ u.optional = TRUE /\ f.op = "begin" /\ f.part = "rescue" /\ f.rescues # <<>>
    <2> DEFINE x == [f EXCEPT !.part = "clause", !.optional = TRUE]
    <2>1. f.op = "begin" /\ f.part = "rescue" /\ f.rescues # <<>>
      BY <1>1
    <2> HIDE DEF f
    <2>2. x.op = "begin" /\ x.part = "clause" /\ x.stmt = f.stmt /\ x.base = f.base /\ x.from = f.from /\ x.handler = f.handler
        /\ x.args = f.args /\ x.rescues = f.rescues /\ x.optional = TRUE
      BY <1>2, <2>1 DEF FramesOf
    <2>. QED BY <2>1, <2>2 DEF f
  <1>4. r \in Rescues
    <2>1. f.rescues \in Seq(Rescues)
      <3> HIDE DEF f
      <3>. QED BY <1>2 DEF FramesOf
    <2>. QED BY <1>1, <2>1
  <1> HIDE DEF u, f, c, X, Y, N
  <1>5. Rescuing(f) /\ Rescuing(u) /\ Kept(f) = {f.args[1]} /\ Kept(u) = {f.args[1]} /\ Resumed(u) = {} /\ Ensure(f) \in Joined(f)
        /\ NotYet(u) = {}
    <2>1. Rescuing(f) /\ Rescuing(u)
      BY <1>3 DEF Rescuing
    <2>. QED BY <1>3, <2>1 DEF Kept, Resumed, Joined, Ensure, NotYet
  <1>6. /\ f.stmt \notin K /\ Y \subseteq X /\ X \subseteq A[c] /\ Ok(graph, f.args[1], A[c])
        /\ A[Ensure(f)] \subseteq X \cup {Ensure(f)} /\ f.handler \in A[f.handler] /\ Y \subseteq A[f.handler]
        /\ A[Ensure(f)] \subseteq A[f.handler] \cup {Ensure(f)} /\ f.handler \in 1 .. Size(graph) /\ f.from \in 1 .. Size(graph)
    BY <1>2, <1>5 DEF Begun, c
  <1>7. PICK D : /\ Onto(graph, A, graph', D, N)
                 /\ r.var # "none" => Available(graph', Slot(This), D[graph'.cur])
    <2>1. PadIn(A, graph.cur) /\ Ok(graph, Top.args[1], A[graph.cur])
      BY <1>2, <1>6 DEF c, f
    <2> HIDE DEF r
    <2>2. \E D : /\ Onto(graph, A, Catch(graph, r), D, N)
                 /\ r.var # "none" => Available(Catch(graph, r), Slot(This), D[Catch(graph, r).cur])
      BY <1>2, <2>1, CatchOnto
    <2>. QED BY <1>1, <2>2
  <1>8. Slots(program', L, variables', mode') /\ K \subseteq L /\ L \subseteq K \cup {This} /\ This \notin K
    <2> HIDE DEF r
    <2>1. LET Q == IF r.var = "none" THEN K ELSE K \cup {This} IN Slots(program', Q, variables', mode') /\ K \subseteq Q /\ Q \subseteq K \cup {This}
      BY <1>1, <1>4, CatchSlots
    <2>2. This \notin K
      BY <1>1, Facts
    <2>. QED BY <2>1, <2>2
  <1> DEFINE Z == D[graph'.cur]
  <1>9. /\ Follows(graph, A, graph', D, N, Size(graph'), graph'.cur) /\ graph'.cur \in Nat /\ graph'.cur \in Z /\ A[c] \subseteq Z
        /\ \A b \in 1 .. Size(graph) : D[b] = A[b]
        /\ \A v, d, j : Site(graph, v, d, j) => Site(graph', v, d, j)
    BY <1>7 DEF Onto, c, Follows
  <1>10. Step(A, K, D, L, Len(open) - 1)
    <2>1. Follows(graph, A, graph', D, Excused(program'), Size(graph'), graph'.cur)
      BY <1>1, <1>9 DEF N
    <2> HIDE DEF L
    <2>. QED BY <1>2, <1>8, <1>9, <2>1, StepOnto
  <1>11. u.stmt \notin L /\ f.stmt \notin L
    <2>1. Len(program) \in Nat /\ This = Len(program) + 1
      BY <1>2, StackPlaces DEF From
    <2>2. f.stmt # This
      BY <1>2, <2>1
    <2>. QED BY <1>3, <1>6, <2>2
  <1>12. This \in L => Available(graph', Slot(This), Z)
    BY <1>7, <1>8
  <1> HIDE DEF L, r
  <1>13. RescueGoes(graph, A, graph', D, L, f, u, X, Y, Z)
    <2>1. Ok(graph', f.args[1], Z)
      BY <1>6, <1>9 DEF Ok, Available
    <2>2. D[f.handler] = A[f.handler]
      BY <1>6, <1>9
    <2> HIDE DEF Z
    <2>. QED BY <1>3, <1>5, <1>6, <1>9, <1>11, <2>1, <2>2 DEF RescueGoes
  <1>14. Stable(graph', D, L, u, Z, Y)
    <2> HIDE DEF Z
    <2>. QED BY <1>2, <1>13, StableRescue
  <1>15. A[f.from] \subseteq D[f.from]
    BY <1>6, <1>9
  <1>16. /\ u.stmt = Top.stmt /\ u.op = Top.op /\ NotYet(u) \subseteq NotYet(Top) /\ (Rescuing(u) <=> Rescuing(Top))
         /\ u.rescues = Top.rescues /\ u.from = Top.from /\ A[Top.from] \subseteq D[Top.from] /\ A[graph.cur] \subseteq D[graph'.cur]
         /\ Stable(graph', D, L, u, D[graph'.cur], F[Len(open) - 1]) /\ mode' \in {"statement", "body", "value"} /\ mode' # "value"
         /\ (mode' = "body" /\ This \in L => Available(graph', Slot(This), D[graph'.cur]))
    BY <1>1, <1>3, <1>5, <1>9, <1>12, <1>14, <1>15 DEF f, c, Y
  <1> HIDE DEF Z
  <1>. QED BY <1>1, <1>10, <1>16, OntoMoves

LEMMA RescueClauseValues == ASSUME NEW A, NEW F, NEW K, From(A, F, K), RescueClause PROVE Values'
  <1> DEFINE c == graph.cur
             k == Size(graph)
             n == Len(open)
             X == F[n]
             Y == F[n - 1]
             N == Excused(program)
             f == Top
             h == Top.handler
             e == Ensure(Top)
             g1 == EndCatch
             v  == EndCatch.cur
             l  == Size(EndCatch)
             g2 == Joins(g1, Top, value, False, v)
             g3 == Emit(g2, To("br", <<>>, <<e>>))
             u == [Top EXCEPT !.part = "rescue", !.rescues = Tail(@)]
  <1>1. /\ mode = "value" /\ open # <<>> /\ Top.op = "begin" /\ Top.part = "clause"
        /\ UNCHANGED <<program, variables>> /\ open' = Append(Below, u) /\ mode' = "value" /\ value' = Null /\ graph' = MoveTo(g3, h)
    BY DEF RescueClause, Has, TopIs, Yields
  <1>2. Placed(graph, A, N) /\ Typed /\ Begun(graph, A, K, f, X, Y) /\ f \in FramesOf(Len(program)) /\ RescuesOK(f)
        /\ FrameOK(f, k, Len(program)) /\ Ok(graph, value, A[c]) /\ k \in Nat
    BY <1>1, TopFacts, Facts, BegunTop, TypedParts
  <1>3. u.op = "begin" /\ u.part = "rescue" /\ u.stmt = f.stmt /\ u.base = f.base /\ u.from = f.from /\ u.handler = f.handler
        /\ u.args = f.args /\ u.rescues = Tail(f.rescues) /\ u.optional = f.optional /\ f.op = "begin" /\ f.part = "clause"
        /\ f.rescues \in Seq(Rescues) /\ f.optional \in BOOLEAN
    <2> DEFINE x == [f EXCEPT !.part = "rescue", !.rescues = Tail(@)]
    <2>1. f.op = "begin" /\ f.part = "clause"
      BY <1>1
    <2> HIDE DEF f
    <2>2. x.op = "begin" /\ x.part = "rescue" /\ x.stmt = f.stmt /\ x.base = f.base /\ x.from = f.from /\ x.handler = f.handler
        /\ x.args = f.args /\ x.rescues = Tail(f.rescues) /\ x.optional = f.optional /\ f.rescues \in Seq(Rescues) /\ f.optional \in BOOLEAN
      BY <1>2, <2>1 DEF FramesOf
    <2>. QED BY <2>1, <2>2 DEF f
  <1>4. PICK B : Onto(graph, A, g1, B, N)
    <2>1. Members(<<>>) = {}
      BY MembersOf
    <2>2. \A w \in Members(<<>>) : Ok(graph, w, A[graph.cur])
      BY <2>1
    <2>. QED BY <1>1, <2>2, TopCall DEF EndCatch
  <1> HIDE DEF u, f, c, k, n, X, Y, N, h, e, g1, v, l
  <1>5. e = Ensure(f) /\ h = f.handler /\ v = g1.cur /\ l = Size(g1)
    BY DEF e, h, v, l, g1, f
  <1>6. Rescuing(f) /\ Rescuing(u) /\ f.rescues # <<>> /\ Kept(f) = {f.args[1]} /\ (u.rescues # <<>> => Kept(u) = {f.args[1]})
        /\ (u.rescues = <<>> => Kept(u) = {}) /\ Resumed(u) = {} /\ e \in Joined(f) /\ NotYet(u) = {} /\ (~f.optional => Resumed(f) = {h})
    <2>1. Rescuing(f) /\ Rescuing(u)
      BY <1>3 DEF Rescuing
    <2>2. f.rescues # <<>>
      BY <1>2, <1>3, <2>1 DEF FrameOK
    <2>. QED BY <1>3, <1>5, <2>1, <2>2 DEF Kept, Resumed, Joined, Ensure, NotYet
  <1>7. u.rescues # <<>> => ~f.optional
    <2>1. AnyIsLast(f.rescues) /\ (f.optional <=> f.rescues[1].class = "any")
      BY <1>2, <1>3 DEF RescuesOK
    <2>. QED BY <1>3, <1>6, <2>1, TailOfRescues
  <1>8. /\ f.stmt \notin K /\ Y \subseteq X /\ X \subseteq A[c] /\ Ok(graph, f.args[1], X)
        /\ A[e] \subseteq X \cup {e} /\ e \in A[e] /\ h \in A[h] /\ Y \subseteq A[h] /\ (~f.optional => X \subseteq A[h])
        /\ A[e] \subseteq A[h] \cup {e} /\ h \in 1 .. k /\ f.from \in 1 .. k /\ e \in 1 .. k
    BY <1>2, <1>5, <1>6 DEF Begun, c, k
  <1>9. /\ Follows(graph, A, g1, B, N, l, v) /\ v \in 1 .. l /\ v \in B[v] /\ A[c] \subseteq B[v] /\ k <= l /\ l \in Nat
        /\ (\A b \in 1 .. k : B[b] = A[b]) /\ \A w, d, j : Site(graph, w, d, j) => Site(g1, w, d, j)
    BY <1>4, <1>5 DEF Onto, c, Follows, k
  <1>10. Ok(g1, value, B[v]) /\ e \in 1 .. l /\ Const(False) /\ B[e] = A[e] /\ B[h] = A[h] /\ B[f.from] = A[f.from] /\ h \in Int /\ e \in Nat /\ h \in Nat
    <2>1. Ok(g1, value, B[v])
      BY <1>2, <1>9 DEF Ok, Available
    <2>2. e \in 1 .. l
      <3>1. e \in 1 .. k /\ k <= l /\ k \in Nat /\ l \in Nat
        BY <1>2, <1>8, <1>9
      <3>. QED BY ONLY <3>1
    <2>. QED BY <1>8, <1>9, <2>1, <2>2 DEF Const, False
  <1>11. Follows(graph, A, g2, B, N, l, v)
    <2>1. Follows(graph, A, Joins(g1, f, value, False, v), B, N, l, v)
      BY <1>5, <1>9, <1>10, FollowsJoins
    <2>. QED BY <2>1 DEF f
  <1> HIDE DEF g2
  <1>12. Near(B, v, e)
    BY <1>8, <1>9, <1>10 DEF Near
  <1>13. Follows(graph, A, g3, B, N, l, v)
    BY <1>9, <1>11, <1>12, FollowsBr
  <1> HIDE DEF g3
  <1>14. Follows(graph, A, graph', B, N, l, h) /\ graph'.cur = h
    <2>1. Follows(graph, A, graph', B, N, l, h)
      BY <1>1, <1>10, <1>13, FollowsMoveTo
    <2>. QED BY <2>1 DEF Follows
  <1> DEFINE Z == B[h]
  <1>15. Step(A, K, B, K, Len(open) - 1)
    <2>1. graph'.cur \in Nat /\ graph'.cur \in B[graph'.cur]
      BY <1>8, <1>10, <1>14
    <2>. QED BY <1>1, <1>14, <2>1, StepSame DEF N
  <1>16. RescueGoes(graph, A, graph', B, K, f, u, X, Y, Z)
    <2>1. u.rescues # <<>> => Ok(graph', f.args[1], Z)
      BY <1>7, <1>8, <1>10, <1>14 DEF Ok, Available, Follows
    <2>2. \A b \in 1 .. Size(graph) : B[b] = A[b]
      BY <1>9 DEF k
    <2>3. \A w, d, j : Site(graph, w, d, j) => Site(graph', w, d, j)
      BY <1>14 DEF Follows
    <2> HIDE DEF Z
    <2>4. Y \subseteq Z /\ A[e] \subseteq Z \cup {e} /\ h \in Z /\ Z = B[h]
      BY <1>8, <1>10 DEF Z
    <2>5. \A w \in Kept(u) : Ok(graph', w, Z)
      BY <1>6, <2>1
    <2>. QED BY <1>3, <1>5, <1>6, <1>8, <2>2, <2>3, <2>4, <2>5 DEF RescueGoes
  <1>17. Stable(graph', B, K, u, Z, Y)
    <2> HIDE DEF Z
    <2>. QED BY <1>2, <1>16, StableRescue
  <1>18. Z \in SUBSET Nat
    BY <1>10, <1>14 DEF Follows, Sound
  <1>19. \A part \in (PartsOf(u.op) \ NotYet(Top)) \cap Claimed(u) :
           /\ part \in Claimed(Top)
           /\ Place(A, Top, part, F[Len(open)], A[graph.cur]) \subseteq Place(B, u, part, Z, IF mode' = "value" THEN B[graph'.cur] ELSE Z)
    <2>1. PartsOf(u.op) = {"main", "ensure", "rescue", "class", "clause"} /\ Claimed(f) = AlwaysDone \cup {"class"}
      BY <1>3, <1>6 DEF PartsOf, Claimed
    <2>2. \A part \in (PartsOf(u.op) \ NotYet(f)) \cap Claimed(u) : part = "ensure" \/ (part = "class" /\ u.rescues # <<>>)
      BY <1>6, <2>1 DEF Claimed, AlwaysDone
    <2>3. /\ Place(A, f, "ensure", X, A[c]) = A[f.from] /\ \A Q : Place(B, u, "ensure", Z, Q) = B[f.from]
          /\ Place(A, f, "class", X, A[c]) = X /\ \A Q : Place(B, u, "class", Z, Q) = Z
      BY <1>3, <1>6 DEF Place
    <2>4. u.rescues # <<>> => X \subseteq Z
      BY <1>7, <1>8, <1>10
    <2>5. "ensure" \in Claimed(f) /\ "class" \in Claimed(f)
      BY <2>1 DEF AlwaysDone
    <2> HIDE DEF Z
    <2>6. \A part \in (PartsOf(u.op) \ NotYet(f)) \cap Claimed(u) :
           /\ part \in Claimed(f)
           /\ Place(A, f, part, X, A[c]) \subseteq Place(B, u, part, Z, IF mode' = "value" THEN B[graph'.cur] ELSE Z)
      BY <1>10, <2>2, <2>3, <2>4, <2>5
    <2>. QED BY <2>6 DEF f, X, n, c
  <1>20. /\ Z \subseteq B[graph'.cur] /\ Stable(graph', B, K, u, Z, F[Len(open) - 1]) /\ F[Len(open) - 1] \subseteq Z
         /\ u.op = Top.op /\ u.stmt = Top.stmt /\ Z \in SUBSET Nat /\ mode' \in {"statement", "body", "value"}
         /\ Ok(graph', value', B[graph'.cur]) /\ NotYet(u) \subseteq NotYet(Top) /\ mode' # "body"
    <2>1. Y \subseteq Z
      BY <1>8, <1>10
    <2>. QED BY <1>1, <1>3, <1>6, <1>14, <1>17, <1>18, <2>1, NoneOk DEF Y, n, f
  <1> HIDE DEF Z
  <1>. QED BY <1>1, <1>15, <1>19, <1>20, MoveValues

LEMMA BeginFinishValues == ASSUME NEW A, NEW F, NEW K, From(A, F, K), BeginFinish PROVE Values'
  <1> DEFINE c == graph.cur
             k == Size(graph)
             n == Len(open)
             X == F[n]
             Y == F[n - 1]
             N == Excused(program)
             f == Top
             h == Top.handler
             e == Ensure(Top)
             g1 == Joins(graph, Top, NullPtr, True, Top.handler)
             g2 == Emit(g1, To("br", <<>>, <<e>>))
             g3 == IF Top.optional THEN graph ELSE g2
  <1>1. /\ mode = "value" /\ open # <<>> /\ Top.op = "begin" /\ Top.part = "rescue"
        /\ UNCHANGED <<program, variables>> /\ open' = Below /\ mode' = "value" /\ value' = <<Top.stmt, "value">> /\ graph' = MoveTo(g3, Top.from)
    BY DEF BeginFinish, Has, Yields
  <1>2. Placed(graph, A, N) /\ Typed /\ Begun(graph, A, K, f, X, Y) /\ k \in Nat
    BY <1>1, TopFacts, Facts, BegunTop
  <1>3. f.op = "begin" /\ f.part = "rescue" /\ Rescuing(f) /\ Waiting(f) = {<<f.stmt, "value">>} /\ e = Ensure(f) /\ h = f.handler
        /\ e \in Joined(f)
    <2>1. Rescuing(f) /\ f.op = "begin" /\ f.part = "rescue"
      BY <1>1 DEF Rescuing
    <2>. QED BY <2>1 DEF Waiting, Joined, Ensure
  <1>4. /\ f.stmt \notin K /\ Y \subseteq X /\ X \subseteq A[c] /\ Ok(graph, <<f.stmt, "value">>, A[f.from])
        /\ A[e] \subseteq X \cup {e} /\ e \in A[e] /\ f.from \in A[f.from] /\ Y \subseteq A[f.from]
        /\ h \in 1 .. k /\ f.from \in 1 .. k /\ e \in 1 .. k
    BY <1>2, <1>3 DEF Begun, c, k
  <1>5. c \in 1 .. k /\ Follows(graph, A, graph, A, N, k, c)
    BY <1>2, FollowsNothing DEF Placed, c, k
  <1> HIDE DEF f, c, k, n, X, Y, N, h, e
  <1>6. Follows(graph, A, g1, A, N, k, c)
    <2>1. Const(True) /\ Ok(graph, NullPtr, A[h])
      BY NoneOk DEF Const, True
    <2>2. Follows(graph, A, Joins(graph, f, NullPtr, True, h), A, N, k, c)
      BY <1>3, <1>4, <1>5, <2>1, FollowsJoins
    <2>. QED BY <2>2 DEF f, h
  <1> HIDE DEF g1
  <1>7. Follows(graph, A, g2, A, N, k, c)
    <2>1. e \in Nat
      BY <1>2, <1>4
    <2>2. Near(A, c, e)
      BY <1>4, <2>1 DEF Near
    <2>. QED BY <1>5, <1>6, <2>2, FollowsBr
  <1> HIDE DEF g2
  <1>8. Follows(graph, A, graph', A, N, k, f.from) /\ graph'.cur = f.from /\ f.from \in Nat
    <2>1. Follows(graph, A, g3, A, N, k, c) /\ f.from \in Int /\ graph' = MoveTo(g3, f.from) /\ f.from \in Nat
      BY <1>1, <1>2, <1>4, <1>5, <1>7 DEF f
    <2> HIDE DEF g3
    <2>2. Follows(graph, A, graph', A, N, k, f.from)
      BY <2>1, FollowsMoveTo
    <2>. QED BY <2>1, <2>2 DEF Follows
  <1>9. Step(A, K, A, K, Len(open) - 1)
    BY <1>1, <1>4, <1>8, StepSame DEF N
  <1>10. Ok(graph', value', A[graph'.cur])
    <2>1. value' = <<f.stmt, "value">>
      BY <1>1 DEF f
    <2>. QED BY <1>4, <1>8, <2>1 DEF Ok, Available, Follows
  <1>11. \A part \in AlwaysDone \cap (PartsOf(f.op) \ NotYet(f)) : Place(A, f, part, X, A[c]) \subseteq A[graph'.cur]
    <2>1. \A part \in AlwaysDone \cap (PartsOf(f.op) \ NotYet(f)) : part = "ensure"
      BY <1>3 DEF AlwaysDone, PartsOf
    <2>2. Place(A, f, "ensure", X, A[c]) = A[f.from]
      BY <1>3 DEF Place
    <2>. QED BY <1>8, <2>1, <2>2
  <1>12. F[Len(open) - 1] \subseteq A[graph'.cur] /\ Top.stmt \notin K
         /\ \A part \in AlwaysDone \cap (PartsOf(Top.op) \ NotYet(Top)) : Place(A, Top, part, F[Len(open)], A[graph.cur]) \subseteq A[graph'.cur]
    BY <1>4, <1>8, <1>11 DEF Y, n, f, X, c
  <1>. QED BY <1>1, <1>9, <1>10, <1>12, PopValues

\* The class is checked and compared, and what follows is opened from where that ends.
Compares(h, v, id, args, k, d, l, r) ==
  /\ k = Size(graph) /\ l = Size(h) /\ d = h.cur
  /\ h = LangCall(MoveTo(EmitAt(Emit(Create(graph, 2), To("cond", <<v>>, <<k + 1 + 1, k + 1>>)), k + 1, To("unreachable", <<>>, <<>>)), k + 1 + 1), id, args)
  /\ r = MoveTo(Emit(Create(h, 2), To("cond", <<id>>, <<l + 1, l + 1 + 1>>)), l + 1)
LEMMA ComparesValues ==
  ASSUME NEW A, NEW F, NEW K, From(A, F, K), open # <<>>, Top.op = "begin", Top.part = "class",
         NEW h, NEW v, NEW w, NEW id, NEW k, NEW d, NEW l, NEW r, Compares(h, v, id, <<v, w>>, k, d, l, r), Ok(graph, v, A[graph.cur]), Ok(graph, w, A[graph.cur])
  PROVE  \E H, Z : /\ Follows(graph, A, r, H, Excused(program), l + 2, l + 1) /\ Placed(r, H, Excused(program)) /\ PadIn(H, l + 1)
                   /\ Z \in SUBSET Nat /\ A[graph.cur] \subseteq Z /\ H[l + 1] = Z \cup {l + 1} /\ H[l + 2] = Z \cup {l + 2} /\ l \in Nat
  <1> DEFINE c == graph.cur
             N == Excused(program)
             g1 == Create(graph, 2)
             g2 == Emit(g1, To("cond", <<v>>, <<k + 1 + 1, k + 1>>))
             i3 == To("unreachable", <<>>, <<>>)
             g3 == EmitAt(g2, k + 1, i3)
             g4 == MoveTo(g3, k + 1 + 1)
             g6 == Create(h, 2)
             g7 == Emit(g6, To("cond", <<id>>, <<l + 1, l + 1 + 1>>))
  <1>1. k = Size(graph) /\ l = Size(h) /\ d = h.cur /\ h = LangCall(g4, id, <<v, w>>) /\ r = MoveTo(g7, l + 1)
    BY DEF Compares
  <1>2. Placed(graph, A, N) /\ A[c] \in SUBSET Nat /\ k \in Nat /\ F[Len(open) - 1] \subseteq A[c]
    BY <1>1, TopFacts, Facts
  <1>3. c \in 1 .. k /\ c \in A[c] /\ Follows(graph, A, graph, A, N, k, c)
    BY <1>1, <1>2, FollowsNothing DEF Placed
  <1>4. k + 1 \in 1 .. k + 2 /\ k + 2 \in 1 .. k + 2 /\ c \in 1 .. k + 2 /\ k + 1 \in Nat /\ k + 2 \in Nat /\ k + 2 \in Int /\ k + 1 + 1 = k + 2
        /\ {k + 1, k + 2} \in SUBSET (k + 1 .. k + 2) /\ Opening(k, 2, {k + 1, k + 2}, A[c])
    BY <1>2, <1>3 DEF Opening
  <1> HIDE DEF c, N, g1
  <1>5. PICK D : /\ Follows(graph, A, g1, D, N, k + 2, c) /\ D[k + 1] = A[c] \cup {k + 1} /\ D[k + 2] = A[c] \cup {k + 2} /\ D[c] = A[c]
                 /\ \A x, b, j : Site(graph, x, b, j) => Site(g1, x, b, j)
    <2> DEFINE S == {k + 1, k + 2}
    <2>1. Opening(k, 2, S, A[c]) /\ k + 1 \in S /\ k + 2 \in S
      BY <1>4
    <2> HIDE DEF S
    <2>2. \E D : /\ Follows(graph, A, Create(graph, 2), D, N, k + 2, c)
                 /\ \A b \in S : D[b] = A[c] \cup {b}
                 /\ \A b \in (k + 1 .. k + 2) \ S : D[b] = {}
                 /\ \A b \in 1 .. k : D[b] = A[b]
                 /\ \A x, b, j : Site(graph, x, b, j) => Site(Create(graph, 2), x, b, j)
      BY <1>3, <2>1, FollowsOpens
    <2>. QED BY <1>3, <2>1, <2>2 DEF g1
  <1>6. Follows(graph, A, g2, D, N, k + 2, c)
    <2>1. Exempt(v, 0, N) \/ Available(g1, v, D[c])
      <3>1. Ok(g1, v, D[c])
        BY <1>5 DEF Ok, Available, c
      <3>. QED BY <3>1, OkExempt
    <2>2. Near(D, c, k + 1) /\ Near(D, c, k + 1 + 1)
      BY <1>4, <1>5 DEF Near
    <2>. QED BY <1>4, <1>5, <2>1, <2>2, FollowsCond
  <1> HIDE DEF g2, i3
  <1>7. Follows(graph, A, g3, D, N, k + 2, c)
    <2>1. Members(<<>>) = {}
      BY MembersOf
    <2>2. Fine(i3, g2, D, N, k + 1)
      BY <2>1, FineTo DEF i3
    <2>. QED BY <1>4, <1>6, <2>2, FollowsEmitAt
  <1> HIDE DEF g3
  <1>8. Follows(graph, A, g4, D, N, k + 2, k + 2) /\ g4.cur = k + 2
    <2>1. Follows(graph, A, g4, D, N, k + 2, k + 2)
      BY <1>4, <1>7, FollowsMoveTo
    <2>. QED BY <2>1 DEF Follows
  <1> HIDE DEF g4
  <1>9. Placed(g4, D, N) /\ PadIn(D, g4.cur)
    <2>1. Placed(g4, D, N)
      BY <1>4, <1>5, <1>8 DEF Placed, Follows
    <2>2. F[Len(open) - 1] \subseteq D[k + 2] /\ ~(Top.op = "begin" /\ Top.part = "main")
      BY <1>2, <1>5
    <2>3. PadIn(D, k + 2)
      BY <1>8, <2>2, PadBelow DEF N
    <2>. QED BY <1>8, <2>1, <2>3
  <1>10. PICK E : Onto(g4, D, h, E, N) /\ Available(h, id, E[h.cur])
    <2>1. Ok(g4, v, D[g4.cur]) /\ Ok(g4, w, D[g4.cur])
      BY <1>5, <1>8 DEF Follows, Ok, Available, c
    <2>2. Members(<<v, w>>) = {v, w}
      BY MembersOf
    <2>3. \A x \in Members(<<v, w>>) : Exempt(x, id[1], N) \/ Available(g4, x, D[g4.cur])
      BY <2>1, <2>2, OkExempt
    <2>. QED BY <1>1, <1>9, <2>3, OntoLangCall
  <1> DEFINE Z == E[d]
  <1>11. Follows(graph, A, h, E, N, l, d) /\ d \in 1 .. l /\ d \in Z /\ D[k + 2] \subseteq Z /\ l \in Nat
    <2>1. Follows(g4, D, h, E, N, l, d) /\ d \in 1 .. l /\ d \in Z /\ D[k + 2] \subseteq Z
      BY <1>1, <1>8, <1>10 DEF Onto
    <2>2. Follows(graph, A, h, E, N, l, d)
      BY <1>8, <2>1, FollowsTwice
    <2>. QED BY <2>1, <2>2 DEF Follows
  <1>12. Z \in SUBSET Nat /\ A[c] \subseteq Z
    BY <1>5, <1>11 DEF Follows, Sound
  <1>13. l + 1 \in 1 .. l + 2 /\ l + 2 \in 1 .. l + 2 /\ d \in 1 .. l + 2 /\ l + 1 \in Nat /\ l + 2 \in Nat /\ l + 1 \in Int /\ l + 1 + 1 = l + 2
        /\ {l + 1, l + 2} \in SUBSET (l + 1 .. l + 2)
    BY <1>11
  <1> HIDE DEF g6
  <1>14. PICK H : /\ Follows(graph, A, g6, H, N, l + 2, d) /\ H[l + 1] = Z \cup {l + 1} /\ H[l + 2] = Z \cup {l + 2} /\ H[d] = Z
                 /\ \A x, b, j : Site(h, x, b, j) => Site(g6, x, b, j)
    <2> DEFINE S == {l + 1, l + 2}
               W == Z
    <2>1. Opening(l, 2, S, W) /\ l + 1 \in S /\ l + 2 \in S
      BY <1>12, <1>13 DEF Opening
    <2> HIDE DEF S, W
    <2>2. \E H : /\ Follows(graph, A, Create(h, 2), H, N, l + 2, d)
                 /\ \A b \in S : H[b] = W \cup {b}
                 /\ \A b \in (l + 1 .. l + 2) \ S : H[b] = {}
                 /\ \A b \in 1 .. l : H[b] = E[b]
                 /\ \A x, b, j : Site(h, x, b, j) => Site(Create(h, 2), x, b, j)
      BY <1>11, <2>1, FollowsOpens
    <2>. QED BY <1>11, <2>1, <2>2 DEF g6, W
  <1>15. Follows(graph, A, g7, H, N, l + 2, d)
    <2>1. Exempt(id, 0, N) \/ Available(g6, id, H[d])
      BY <1>1, <1>10, <1>14 DEF Available
    <2>2. Near(H, d, l + 1) /\ Near(H, d, l + 1 + 1)
      BY <1>13, <1>14 DEF Near
    <2>. QED BY <1>13, <1>14, <2>1, <2>2, FollowsCond
  <1> HIDE DEF g7
  <1>16. Follows(graph, A, r, H, N, l + 2, l + 1)
    BY <1>1, <1>13, <1>15, FollowsMoveTo
  <1>17. Placed(r, H, N)
    BY <1>13, <1>14, <1>16 DEF Placed, Follows
  <1>18. PadIn(H, l + 1)
    <2>1. F[Len(open) - 1] \subseteq H[l + 1] /\ ~(Top.op = "begin" /\ Top.part = "main")
      BY <1>2, <1>12, <1>14
    <2>. QED BY <1>16, <2>1, PadBelow DEF N
  <1> HIDE DEF Z
  <1>. QED BY <1>11, <1>12, <1>14, <1>16, <1>17, <1>18 DEF N, c

LEMMA RescueClassValues == ASSUME NEW A, NEW F, NEW K, From(A, F, K), RescueClass PROVE Values'
  <1> DEFINE c == graph.cur
             k == Size(graph)
             n == Len(open)
             X == F[n]
             Y == F[n - 1]
             N == Excused(program)
             f == Top
             e == Ensure(Top)
             w == Top.args[1]
             r == Head(Top.rescues)
             L == IF r.var = "none" THEN K ELSE K \cup {This}
             id == <<This, "compared">>
             p == LangCall(MoveTo(EmitAt(Emit(Create(graph, 2), To("cond", <<value>>, <<k + 1 + 1, k + 1>>)), k + 1, To("unreachable", <<>>, <<>>)), k + 1 + 1), id, <<value, w>>)
             l == Size(p)
             d == p.cur
             q == MoveTo(Emit(Create(p, 2), To("cond", <<id>>, <<l + 1, l + 1 + 1>>)), l + 1)
             u == [Top EXCEPT !.part = "clause", !.handler = l + 1 + 1]
  <1>1. mode = "value" /\ open # <<>> /\ Top.op = "begin" /\ Top.part = "class" /\ Top.rescues # <<>>
        /\ program' = program /\ \/ mode' = "crashed"
                                 \/ /\ open' = Append(Below, u) /\ mode' = "body" /\ graph' = Catch(q, r)
                                    /\ variables' = IF r.var = "none" THEN variables ELSE [variables EXCEPT ![r.var] = <<This, "slot">>]
    BY DEF RescueClass, RescueIs, TopIs, BeginsBody, Catches
  <1>2. CASE mode' = "crashed"
    BY <1>2, CrashValues
  <1>3. CASE open' = Append(Below, u) /\ mode' = "body" /\ graph' = Catch(q, r)
             /\ variables' = IF r.var = "none" THEN variables ELSE [variables EXCEPT ![r.var] = <<This, "slot">>]
    <2>1. Placed(graph, A, N) /\ Typed /\ Begun(graph, A, K, f, X, Y) /\ f \in FramesOf(Len(program)) /\ RescuesOK(f) /\ k \in Nat
          /\ Goes1(program, open, program') /\ f.stmt \in 1 .. Len(program) /\ Ok(graph, value, A[c])
      BY <1>1, TopFacts, Facts, BegunTop, TypedParts
    <2>2. f.op = "begin" /\ f.part = "class" /\ f.rescues # <<>> /\ f.rescues \in Seq(Rescues) /\ f.optional = FALSE
      <3>1. f.op = "begin" /\ f.part = "class" /\ f.rescues # <<>>
        BY <1>1
      <3> HIDE DEF f
      <3>. QED BY <2>1, <3>1 DEF FramesOf, RescuesOK
    <2>3. u.op = "begin" /\ u.part = "clause" /\ u.stmt = f.stmt /\ u.base = f.base /\ u.from = f.from /\ u.handler = l + 1 + 1
          /\ u.args = f.args /\ u.rescues = f.rescues /\ u.optional = FALSE
      <3> DEFINE x == [f EXCEPT !.part = "clause", !.handler = l + 1 + 1]
      <3>1. u = x
        OBVIOUS
      <3> HIDE DEF f, l, u
      <3>2. x.op = "begin" /\ x.part = "clause" /\ x.stmt = f.stmt /\ x.base = f.base /\ x.from = f.from /\ x.handler = l + 1 + 1
          /\ x.args = f.args /\ x.rescues = f.rescues /\ x.optional = FALSE
        BY <2>1, <2>2 DEF FramesOf
      <3>. QED BY <3>1, <3>2
    <2>4. r \in Rescues
      <3>1. f.rescues \in Seq(Rescues)
        BY <2>2
      <3>. QED BY <1>1, <3>1
    <2> HIDE DEF f, X, Y, N, n, e, u
    <2>5. Rescuing(f) /\ Rescuing(u) /\ Kept(f) = {w} /\ Kept(u) = {w} /\ e \in Joined(f) /\ e = Ensure(f)
          /\ NotYet(u) = {} /\ Resumed(u) = {l + 1 + 1}
      <3>1. Rescuing(f) /\ Rescuing(u) /\ e = Ensure(f) /\ w = f.args[1]
        BY <2>2, <2>3 DEF Rescuing, e, f
      <3> HIDE DEF w, l
      <3>. QED BY <2>2, <2>3, <3>1 DEF Kept, Resumed, Joined, Ensure, NotYet
    <2>6. /\ f.stmt \notin K /\ Y \subseteq X /\ X \subseteq A[c] /\ Ok(graph, w, A[c])
          /\ A[e] \subseteq X \cup {e} /\ f.from \in 1 .. k /\ e \in 1 .. k
      <3> HIDE DEF w, l
      <3>. QED BY <2>1, <2>5 DEF Begun, c, k
    <2>7. Compares(p, value, id, <<value, w>>, k, d, l, q)
      <3> HIDE DEF id, w
      <3>. QED BY DEF Compares
    <2> HIDE DEF q, p, d
    <2>8. PICK H, Z : /\ Follows(graph, A, q, H, N, l + 2, l + 1) /\ Placed(q, H, N) /\ PadIn(H, l + 1)
                      /\ Z \in SUBSET Nat /\ A[c] \subseteq Z /\ H[l + 1] = Z \cup {l + 1} /\ H[l + 2] = Z \cup {l + 2} /\ l \in Nat
      <3>1. Ok(graph, value, A[c]) /\ Ok(graph, w, A[c])
        BY <2>1, <2>6
      <3> HIDE DEF id, w, k, l
      <3>. QED BY <1>1, <2>7, <3>1, ComparesValues DEF N
    <2> HIDE DEF l
    <2>9. l + 1 + 1 = l + 2 /\ l + 2 \in 1 .. l + 2 /\ l + 1 \in 1 .. l + 2 /\ l + 2 \in Nat
      BY <2>8
    <2>10. q.cur = l + 1 /\ Size(q) = l + 2
      BY <2>8 DEF Follows
    <2>11. PICK M : /\ Onto(q, H, graph', M, N)
                    /\ r.var # "none" => Available(graph', Slot(This), M[graph'.cur])
      <3>1. Ok(q, Top.args[1], H[q.cur]) /\ PadIn(H, q.cur)
        BY <2>6, <2>8, <2>10 DEF Follows, Ok, Available
      <3> HIDE DEF r
      <3>2. \E D : /\ Onto(q, H, Catch(q, r), D, N)
                   /\ r.var # "none" => Available(Catch(q, r), Slot(This), D[Catch(q, r).cur])
        BY <2>8, <3>1, CatchOnto
      <3>. QED BY <1>3, <3>2
    <2>12. Slots(program', L, variables', mode') /\ K \subseteq L /\ L \subseteq K \cup {This} /\ This \notin K
      <3> HIDE DEF r
      <3>1. LET Q == IF r.var = "none" THEN K ELSE K \cup {This} IN Slots(program', Q, variables', mode') /\ K \subseteq Q /\ Q \subseteq K \cup {This}
        BY <1>1, <1>3, <2>4, CatchSlots
      <3>2. This \notin K
        BY <1>1, Facts
      <3>. QED BY <3>1, <3>2
    <2>13. /\ Follows(graph, A, graph', M, N, Size(graph'), graph'.cur) /\ graph'.cur \in Nat /\ graph'.cur \in M[graph'.cur]
           /\ Z \subseteq M[graph'.cur] /\ M[l + 2] = Z \cup {l + 2}
           /\ \A b \in 1 .. k : M[b] = A[b]
           /\ \A v, b, j : Site(graph, v, b, j) => Site(graph', v, b, j)
      <3>1. Follows(q, H, graph', M, N, Size(graph'), graph'.cur) /\ H[q.cur] \subseteq M[graph'.cur] /\ graph'.cur \in M[graph'.cur]
            /\ graph'.cur \in 1 .. Size(graph')
        BY <2>11 DEF Onto
      <3>2. Follows(graph, A, graph', M, N, Size(graph'), graph'.cur)
        BY <2>8, <3>1, FollowsTwice
      <3>3. M[l + 2] = H[l + 2]
        BY <2>9, <2>10, <3>1 DEF Follows
      <3>4. Z \subseteq M[graph'.cur]
        BY <2>8, <2>10, <3>1
      <3>. QED BY <2>8, <3>1, <3>2, <3>3, <3>4 DEF Follows, k
    <2>14. Step(A, K, M, L, Len(open) - 1)
      <3>1. Follows(graph, A, graph', M, Excused(program'), Size(graph'), graph'.cur)
        BY <1>1, <2>13 DEF N
      <3> HIDE DEF L
      <3>. QED BY <2>1, <2>12, <2>13, <3>1, StepOnto
    <2>15. u.stmt \notin L /\ f.stmt \notin L
      <3>1. Len(program) \in Nat /\ This = Len(program) + 1
        BY <2>1, StackPlaces DEF From
      <3>2. f.stmt # This
        BY <2>1, <3>1
      <3>. QED BY <2>3, <2>6, <3>2
    <2>16. This \in L => Available(graph', Slot(This), M[graph'.cur])
      BY <2>11, <2>12
    <2> HIDE DEF L, r, w
    <2>17. RescueGoes(graph, A, graph', M, L, f, u, X, Y, Z)
      <3>1. Ok(graph', w, Z)
        BY <2>6, <2>8, <2>13 DEF Ok, Available
      <3>2. Y \subseteq Z /\ A[e] \subseteq Z \cup {e}
        BY <2>6, <2>8
      <3>3. u.handler = l + 2 /\ Resumed(u) = {l + 2}
        BY <2>3, <2>5, <2>9
      <3>4. l + 2 \in M[l + 2] /\ Z \subseteq M[l + 2]
        BY <2>13
      <3>. QED BY <2>3, <2>5, <2>13, <2>15, <3>1, <3>2, <3>3, <3>4 DEF RescueGoes, k
    <2>18. Stable(graph', M, L, u, Z, Y)
      BY <2>1, <2>17, StableRescue
    <2>19. \A part \in (PartsOf(u.op) \ NotYet(Top)) \cap Claimed(u) :
             /\ part \in Claimed(Top)
             /\ Place(A, Top, part, F[Len(open)], A[graph.cur]) \subseteq Place(M, u, part, Z, IF mode' = "value" THEN M[graph'.cur] ELSE Z)
      <3>1. PartsOf(u.op) = {"main", "ensure", "rescue", "class", "clause"} /\ Claimed(f) = AlwaysDone \cup {"class"} /\ Claimed(u) = Claimed(f)
        BY <2>2, <2>3, <2>5 DEF PartsOf, Claimed
      <3>2. \A part \in (PartsOf(u.op) \ NotYet(f)) \cap Claimed(u) : part = "ensure" \/ part = "class"
        BY <3>1 DEF AlwaysDone
      <3>3. /\ Place(A, f, "ensure", X, A[c]) = A[f.from] /\ \A Q : Place(M, u, "ensure", Z, Q) = M[f.from]
            /\ Place(A, f, "class", X, A[c]) = A[c] /\ \A Q : Place(M, u, "class", Z, Q) = Z
        BY <2>2, <2>3, <2>5 DEF Place
      <3>4. A[c] \subseteq Z /\ M[f.from] = A[f.from]
        BY <2>6, <2>8, <2>13
      <3>5. \A part \in (PartsOf(u.op) \ NotYet(f)) \cap Claimed(u) :
             /\ part \in Claimed(f)
             /\ Place(A, f, part, X, A[c]) \subseteq Place(M, u, part, Z, IF mode' = "value" THEN M[graph'.cur] ELSE Z)
        BY <3>1, <3>2, <3>3, <3>4
      <3>. QED BY <3>5 DEF f, X, n, c
    <2>20. /\ Z \subseteq M[graph'.cur] /\ Stable(graph', M, L, u, Z, F[Len(open) - 1]) /\ F[Len(open) - 1] \subseteq Z
           /\ u.op = Top.op /\ u.stmt = Top.stmt /\ Z \in SUBSET Nat /\ mode' \in {"statement", "body", "value"} /\ mode' # "value"
           /\ NotYet(u) \subseteq NotYet(Top) /\ (mode' = "body" /\ This \in L => Available(graph', Slot(This), M[graph'.cur]))
      <3>1. Y \subseteq Z
        BY <2>6, <2>8
      <3>. QED BY <1>1, <1>3, <2>2, <2>3, <2>5, <2>8, <2>13, <2>16, <2>18, <3>1 DEF Y, n, f
    <2>. QED BY <1>1, <1>3, <2>14, <2>19, <2>20, MoveValues
  <1>. QED BY <1>1, <1>2, <1>3

-----------------------------------------------------------------------------
(* Which statement is in which, step by step.                              *)

\* A statement is written in the part that is generated; a function begins with its
\* statement, goes on with it, or ends.
WritesOne == open # <<>> /\ \E kind, name : Writes(kind, name)
Advances ==
  \/ program' = program /\ open' = open
  \/ open # <<>> /\ program' = program /\ open' = Below
  \/ open # <<>> /\ program' = program /\ \E f : open' = Append(Below, f) /\ f.stmt = Top.stmt
  \/ WritesOne /\ open' = open
  \/ WritesOne /\ \E f : open' = Append(open, f) /\ f.stmt = This

\* How the program and the stack are, for each of these.
Traced(P, s, Q) ==
  /\ Len(P) \in Nat /\ Len(s) \in Nat /\ P # <<>> /\ Len(P) # 0 /\ DOMAIN s = 1 .. Len(s) /\ Lineage(P, s)
  /\ \A i \in 1 .. Len(s) : s[i].stmt \in 1 .. Len(P)
  /\ \A n \in 1 .. Len(P) : Q[n] = P[n]
  /\ \/ Q = P
     \/ /\ Len(Q) = Len(P) + 1 /\ Q # <<>> /\ Len(s) # 0
        /\ Q[Len(Q)].in = s[Len(s)].stmt /\ Q[Len(Q)].part = s[Len(s)].part
LEMMA ProgramTraced ==
  ASSUME NEW P, NEW s, NEW Q, Traced(P, s, Q)
  PROVE  /\ Q # <<>> /\ Q[1].in = 0 /\ \A n \in 2 .. Len(Q) : Q[n].in \in 1 .. n - 1
         /\ \A i \in 1 .. Len(s) - 1 : Q[s[i + 1].stmt].in = s[i].stmt /\ Q[s[i + 1].stmt].part = s[i].part
  <1>1. Q # <<>> /\ Q[1].in = 0
    BY DEF Traced, Lineage
  <1>2. ASSUME NEW n \in 2 .. Len(Q) PROVE Q[n].in \in 1 .. n - 1
    <2>1. CASE n \in 1 .. Len(P)
      <3>1. n \in 2 .. Len(P) /\ Q[n] = P[n]
        BY <2>1 DEF Traced
      <3>. QED BY <3>1 DEF Traced, Lineage
    <2>2. CASE n \notin 1 .. Len(P)
      <3>1. Len(Q) = Len(P) + 1 /\ Len(s) # 0 /\ Q[Len(Q)].in = s[Len(s)].stmt /\ Len(P) \in Nat /\ Len(s) \in Nat
        BY <2>2 DEF Traced
      <3>2. n = Len(P) + 1 /\ n = Len(Q)
        BY <2>2, <3>1
      <3>3. Len(s) \in 1 .. Len(s)
        BY <3>1
      <3>4. s[Len(s)].stmt \in 1 .. Len(P)
        BY <3>3 DEF Traced
      <3>5. n - 1 = Len(P)
        BY <3>1, <3>2
      <3>. QED BY <3>1, <3>2, <3>4, <3>5
    <2>. QED BY <2>1, <2>2
  <1>3. ASSUME NEW i \in 1 .. Len(s) - 1 PROVE Q[s[i + 1].stmt].in = s[i].stmt /\ Q[s[i + 1].stmt].part = s[i].part
    <2>1. i + 1 \in 1 .. Len(s)
      BY DEF Traced
    <2>2. Q[s[i + 1].stmt] = P[s[i + 1].stmt]
      BY <2>1 DEF Traced
    <2>. QED BY <2>2 DEF Traced, Lineage
  <1>. QED BY <1>1, <1>2, <1>3

LEMMA AdvancesTraced ==
  ASSUME Typed, Lineage(program, open), Advances
  PROVE  /\ Traced(program, open, program')
         /\ WritesOne => /\ Len(program') = This /\ program'[This].in = Top.stmt /\ program'[This].part = Top.part
  <1>1. /\ Len(program) \in Nat /\ Len(open) \in Nat /\ program # <<>> /\ DOMAIN open = 1 .. Len(open) /\ This = Len(program) + 1
        /\ DOMAIN program = 1 .. Len(program) /\ \A i \in 1 .. Len(open) : open[i].stmt \in 1 .. Len(program)
        /\ (open # <<>> => Len(open) # 0 /\ Top = open[Len(open)])
    BY StackPlaces DEF Lineage, Placing
  <1>2. Len(program) # 0
    <2>1. \E S : program \in Seq(S)
      BY DEF Typed
    <2>. QED BY <1>1, <2>1, EmptySeq
  <1>3. ASSUME WritesOne
        PROVE  /\ Len(program') = Len(program) + 1 /\ program'[This].in = Top.stmt /\ program'[This].part = Top.part
               /\ \A n \in 1 .. Len(program) : program'[n] = program[n]
    <2>1. PICK kind, name : program' = Append(program, Node(kind, name)) /\ open # <<>>
      BY <1>3 DEF WritesOne, Writes
    <2>2. Written(program, Node(kind, name), program')
      BY <2>1 DEF Written
    <2>3. Len(program') = Len(program) + 1 /\ program'[Len(program')] = Node(kind, name) /\ \A n \in 1 .. Len(program) : program'[n] = program[n]
      BY <2>1, <2>2, PlacesGrow
    <2>. QED BY <1>1, <2>3 DEF Node
  <1>4. program' = program \/ WritesOne
    BY DEF Advances
  <1>5. CASE program' = program
    <2>1. ~WritesOne
      <3>1. Len(program) # Len(program) + 1
        <4>1. Len(program) \in Nat
          BY <1>1
        <4>. QED BY ONLY <4>1
      <3>. QED BY <1>3, <1>5, <3>1
    <2>. QED BY <1>1, <1>2, <1>5, <2>1 DEF Traced
  <1>6. CASE WritesOne
    <2>1. program' # <<>> /\ open # <<>>
      <3>1. Len(program') # 0
        BY <1>1, <1>3, <1>6
      <3>. QED BY <1>6, <3>1 DEF WritesOne
    <2>. QED BY <1>1, <1>2, <1>3, <1>6, <2>1 DEF Traced
  <1>. QED BY <1>4, <1>5, <1>6

LEMMA LineageAdvances ==
  ASSUME Typed, Lineage(program, open), Advances
  PROVE  Lineage(program, open)'
  <1> DEFINE Q == program'
             s == open
             t == open'
             l == Len(open)
  <1>1. Traced(program, s, Q) /\ (WritesOne => Len(Q) = This /\ Q[This].in = Top.stmt /\ Q[This].part = Top.part)
    BY AdvancesTraced
  <1>2. /\ Q # <<>> /\ Q[1].in = 0 /\ \A n \in 2 .. Len(Q) : Q[n].in \in 1 .. n - 1
        /\ \A i \in 1 .. l - 1 : Q[s[i + 1].stmt].in = s[i].stmt /\ Q[s[i + 1].stmt].part = s[i].part
    BY <1>1, ProgramTraced
  <1>3. (open # <<>> => l # 0 /\ Top = s[l] /\ s[1].stmt = 1) /\ l \in Nat
    BY StackPlaces DEF Lineage
  <1>4. ASSUME NEW f
        PROVE  /\ Len(Append(s, f)) = l + 1 /\ Append(s, f)[l + 1] = f /\ \A i \in 1 .. l : Append(s, f)[i] = s[i]
               /\ open # <<>> => /\ Len(Below) = l - 1 /\ \A i \in 1 .. l - 1 : Below[i] = s[i]
                                 /\ Len(Append(Below, f)) = l /\ Append(Below, f)[l] = f /\ \A i \in 1 .. l - 1 : Append(Below, f)[i] = s[i]
    BY StackChanges DEF Typed
  <1> HIDE DEF Q, s, l
  <1>5. (t # <<>> => t[1].stmt = 1) /\ \A i \in 1 .. Len(t) - 1 : Q[t[i + 1].stmt].in = t[i].stmt /\ Q[t[i + 1].stmt].part = t[i].part
    <2>1. CASE open' = open
      BY <1>2, <1>3, <2>1 DEF s, l
    <2>2. CASE open # <<>> /\ open' = Below
      <3>1. Len(t) = l - 1 /\ \A i \in 1 .. l - 1 : t[i] = s[i]
        BY <1>4, <2>2
      <3>2. ASSUME t # <<>> PROVE t[1].stmt = 1
        <4>1. t \in Seq(FramesOf(Len(program)))
          BY <2>2, StackChanges DEF Typed
        <4>2. Len(t) # 0
          BY <3>2, <4>1, EmptySeq
        <4>3. 1 \in 1 .. l - 1
          BY <1>3, <2>2, <3>1, <4>2
        <4>. QED BY <1>3, <2>2, <3>1, <4>3
      <3>3. ASSUME NEW i \in 1 .. Len(t) - 1 PROVE Q[t[i + 1].stmt].in = t[i].stmt /\ Q[t[i + 1].stmt].part = t[i].part
        <4>1. i \in 1 .. l - 1 /\ i + 1 \in 1 .. l - 1
          BY <1>3, <3>1
        <4>. QED BY <1>2, <3>1, <4>1
      <3>. QED BY <3>2, <3>3
    <2>3. CASE open # <<>> /\ \E f : open' = Append(Below, f) /\ f.stmt = Top.stmt
      <3>1. PICK f : open' = Append(Below, f) /\ f.stmt = Top.stmt
        BY <2>3
      <3>2. Len(t) = l /\ t[l] = f /\ \A i \in 1 .. l - 1 : t[i] = s[i]
        BY <1>4, <2>3, <3>1
      <3>3. ASSUME NEW i \in 1 .. l PROVE t[i].stmt = s[i].stmt
        <4>1. i = l \/ i \in 1 .. l - 1
          BY <1>3
        <4>. QED BY <1>3, <2>3, <3>1, <3>2, <4>1
      <3>4. t[1].stmt = 1
        <4>1. 1 \in 1 .. l
          BY <1>3, <2>3
        <4>. QED BY <1>3, <2>3, <3>3, <4>1
      <3>5. ASSUME NEW i \in 1 .. Len(t) - 1 PROVE Q[t[i + 1].stmt].in = t[i].stmt /\ Q[t[i + 1].stmt].part = t[i].part
        <4>1. i \in 1 .. l - 1 /\ i + 1 \in 1 .. l
          BY <1>3, <3>2
        <4>2. t[i] = s[i] /\ t[i + 1].stmt = s[i + 1].stmt
          BY <3>2, <3>3, <4>1
        <4>. QED BY <1>2, <4>1, <4>2
      <3>. QED BY <3>4, <3>5
    <2>4. CASE WritesOne /\ \E f : open' = Append(open, f) /\ f.stmt = This
      <3>1. PICK f : open' = Append(open, f) /\ f.stmt = This
        BY <2>4
      <3>2. Len(t) = l + 1 /\ t[l + 1] = f /\ \A i \in 1 .. l : t[i] = s[i]
        BY <1>4, <3>1 DEF s
      <3>3. open # <<>>
        BY <2>4 DEF WritesOne
      <3>4. t[1].stmt = 1
        <4>1. 1 \in 1 .. l
          BY <1>3, <3>3
        <4>. QED BY <1>3, <3>2, <3>3, <4>1
      <3>5. ASSUME NEW i \in 1 .. Len(t) - 1 PROVE Q[t[i + 1].stmt].in = t[i].stmt /\ Q[t[i + 1].stmt].part = t[i].part
        <4>1. CASE i = l
          <5>1. t[i] = s[l] /\ t[i + 1] = f /\ s[l] = Top
            <6>1. l \in 1 .. l
              BY <1>3, <3>3
            <6>. QED BY <1>3, <3>2, <3>3, <4>1, <6>1
          <5>. QED BY <1>1, <2>4, <3>1, <5>1
        <4>2. CASE i # l
          <5>1. i \in 1 .. l - 1 /\ i \in 1 .. l /\ i + 1 \in 1 .. l
            BY <1>3, <3>2, <4>2
          <5>. QED BY <1>2, <3>2, <5>1
        <4>. QED BY <4>1, <4>2
      <3>. QED BY <3>4, <3>5
    <2>. QED BY <2>1, <2>2, <2>3, <2>4 DEF Advances
  <1> HIDE DEF t
  <1>6. Lineage(Q, t)
    BY <1>2, <1>5 DEF Lineage
  <1>. QED BY <1>6 DEF Q, t

LEMMA FrameAdvances ==
  ASSUME Typed, open # <<>>, program' = program, NEW f \in FramesOf(Len(program)), f = Top,
         \/ \E l, a : TopIs([f EXCEPT !.left = l, !.args = a])
         \/ \E p, a : TopIs([f EXCEPT !.part = p, !.args = a])
         \/ \E p, b : TopIs([f EXCEPT !.part = p, !.base = b])
         \/ \E p, b, a : TopIs([f EXCEPT !.part = p, !.from = b, !.args = a])
         \/ \E p : TopIs([f EXCEPT !.part = p])
         \/ \E p, b, h, a, o : TopIs([f EXCEPT !.part = p, !.from = b, !.handler = h, !.args = a, !.optional = o])
         \/ \E p, o : TopIs([f EXCEPT !.part = p, !.optional = o])
         \/ \E p, h : TopIs([f EXCEPT !.part = p, !.handler = h])
         \/ \E p, r : TopIs([f EXCEPT !.part = p, !.rescues = r])
  PROVE  Advances
  <1>1. ASSUME NEW u, TopIs(u), u.stmt = f.stmt PROVE Advances
    BY <1>1 DEF Advances, TopIs
  <1>2. ASSUME NEW l, NEW a, TopIs([f EXCEPT !.left = l, !.args = a]) PROVE Advances
    <2> DEFINE u == [f EXCEPT !.left = l, !.args = a]
    <2>1. u.stmt = f.stmt
      BY DEF FramesOf
    <2>2. TopIs(u)
      BY <1>2
    <2> HIDE DEF u
    <2>. QED BY <1>1, <2>1, <2>2
  <1>3. ASSUME NEW p, NEW a, TopIs([f EXCEPT !.part = p, !.args = a]) PROVE Advances
    <2> DEFINE u == [f EXCEPT !.part = p, !.args = a]
    <2>1. u.stmt = f.stmt
      BY DEF FramesOf
    <2>2. TopIs(u)
      BY <1>3
    <2> HIDE DEF u
    <2>. QED BY <1>1, <2>1, <2>2
  <1>4. ASSUME NEW p, NEW b, TopIs([f EXCEPT !.part = p, !.base = b]) PROVE Advances
    <2> DEFINE u == [f EXCEPT !.part = p, !.base = b]
    <2>1. u.stmt = f.stmt
      BY DEF FramesOf
    <2>2. TopIs(u)
      BY <1>4
    <2> HIDE DEF u
    <2>. QED BY <1>1, <2>1, <2>2
  <1>5. ASSUME NEW p, NEW b, NEW a, TopIs([f EXCEPT !.part = p, !.from = b, !.args = a]) PROVE Advances
    <2> DEFINE u == [f EXCEPT !.part = p, !.from = b, !.args = a]
    <2>1. u.stmt = f.stmt
      BY DEF FramesOf
    <2>2. TopIs(u)
      BY <1>5
    <2> HIDE DEF u
    <2>. QED BY <1>1, <2>1, <2>2
  <1>6. ASSUME NEW p, TopIs([f EXCEPT !.part = p]) PROVE Advances
    <2> DEFINE u == [f EXCEPT !.part = p]
    <2>1. u.stmt = f.stmt
      BY DEF FramesOf
    <2>2. TopIs(u)
      BY <1>6
    <2> HIDE DEF u
    <2>. QED BY <1>1, <2>1, <2>2
  <1>7. ASSUME NEW p, NEW b, NEW h, NEW a, NEW o, TopIs([f EXCEPT !.part = p, !.from = b, !.handler = h, !.args = a, !.optional = o]) PROVE Advances
    <2> DEFINE u == [f EXCEPT !.part = p, !.from = b, !.handler = h, !.args = a, !.optional = o]
    <2>1. u.stmt = f.stmt
      BY DEF FramesOf
    <2>2. TopIs(u)
      BY <1>7
    <2> HIDE DEF u
    <2>. QED BY <1>1, <2>1, <2>2
  <1>8. ASSUME NEW p, NEW o, TopIs([f EXCEPT !.part = p, !.optional = o]) PROVE Advances
    <2> DEFINE u == [f EXCEPT !.part = p, !.optional = o]
    <2>1. u.stmt = f.stmt
      BY DEF FramesOf
    <2>2. TopIs(u)
      BY <1>8
    <2> HIDE DEF u
    <2>. QED BY <1>1, <2>1, <2>2
  <1>9. ASSUME NEW p, NEW h, TopIs([f EXCEPT !.part = p, !.handler = h]) PROVE Advances
    <2> DEFINE u == [f EXCEPT !.part = p, !.handler = h]
    <2>1. u.stmt = f.stmt
      BY DEF FramesOf
    <2>2. TopIs(u)
      BY <1>9
    <2> HIDE DEF u
    <2>. QED BY <1>1, <2>1, <2>2
  <1>10. ASSUME NEW p, NEW r, TopIs([f EXCEPT !.part = p, !.rescues = r]) PROVE Advances
    <2> DEFINE u == [f EXCEPT !.part = p, !.rescues = r]
    <2>1. u.stmt = f.stmt
      BY DEF FramesOf
    <2>2. TopIs(u)
      BY <1>10
    <2> HIDE DEF u
    <2>. QED BY <1>1, <2>1, <2>2
  <1>. QED BY <1>2, <1>3, <1>4, <1>5, <1>6, <1>7, <1>8, <1>9, <1>10

LEMMA PushAdvances ==
  ASSUME NEW kind, NEW name, open # <<>>, Writes(kind, name), NEW op, NEW part,
         \/ open' = open
         \/ Push(Running(op, part, This))
         \/ \E n : Push([Running(op, part, This) EXCEPT !.left = n])
         \/ \E a : Push([Running(op, part, This) EXCEPT !.args = a])
         \/ \E o : Push([Running(op, part, This) EXCEPT !.optional = o])
         \/ \E b, r : Push([Running(op, part, This) EXCEPT !.base = b, !.from = r])
         \/ \E b, r, o : Push([Running(op, part, This) EXCEPT !.base = b, !.rescues = r, !.optional = o])
  PROVE  Advances
  <1>1. WritesOne
    BY DEF WritesOne
  <1> DEFINE x == Running(op, part, This)
  <1>2. /\ x.stmt = This
        /\ \A n, a, o, b, r :
             /\ [x EXCEPT !.left = n].stmt = This
             /\ [x EXCEPT !.args = a].stmt = This
             /\ [x EXCEPT !.optional = o].stmt = This
             /\ [x EXCEPT !.base = b, !.from = r].stmt = This
             /\ [x EXCEPT !.base = b, !.rescues = r, !.optional = o].stmt = This
    BY DEF Running
  <1> HIDE DEF x
  <1>3. open' = open \/ \E u : Push(u) /\ u.stmt = This
    BY <1>2, ZenonT(60) DEF x
  <1>. QED BY <1>1, <1>3 DEF Advances, Push

LEMMA StartsAdvance ==
  ASSUME Typed
  PROVE  /\ Literal \/ Absent \/ HolderStarts \/ BlockStarts \/ IndexStarts \/ WhileStarts => Advances
         /\ \A n : CallStarts(n) \/ ReturnStarts(n) => Advances
         /\ \A name : ReadStarts(name) \/ AssignStarts(name) => Advances
         /\ \A else : IfStarts(else) => Advances
         /\ \A whens : CaseStarts(whens) => Advances
         /\ \A rescues, ensured : BeginStarts(rescues, ensured) => Advances
  <1>1. mode \in {"statement", "body"} => open # <<>>
    BY StatementOpen
  <1>2. ASSUME NEW kind, NEW name, open # <<>>, Writes(kind, name), open' = open PROVE Advances
    BY <1>2 DEF Advances, WritesOne
  <1>3. ASSUME Literal \/ Absent \/ HolderStarts PROVE Advances
    BY <1>1, <1>2, <1>3 DEF Literal, Absent, HolderStarts, Starts
  <1>4. ASSUME BlockStarts PROVE Advances
    BY <1>1, <1>4, PushAdvances DEF BlockStarts, Starts
  <1>5. ASSUME IndexStarts PROVE Advances
    <2>1. Push([Running("index", "operand", This) EXCEPT !.left = 2]) /\ open # <<>> /\ Writes("index", "none")
      BY <1>1, <1>5 DEF IndexStarts, Starts
    <2>. QED BY <2>1, PushAdvances
  <1>6. ASSUME WhileStarts PROVE Advances
    <2>1. /\ Push([Running("while", "body", This) EXCEPT !.base = Size(graph), !.from = graph.cur])
          /\ open # <<>> /\ Writes("while", "none")
      BY <1>1, <1>6 DEF WhileStarts, Starts
    <2>. QED BY <2>1, PushAdvances
  <1>7. ASSUME NEW n, CallStarts(n) PROVE Advances
    <2>1. open # <<>> /\ Writes("call", "none") /\ (open' = open \/ Push([Running("call", "operand", This) EXCEPT !.left = n]))
      BY <1>1, <1>7 DEF CallStarts, Starts
    <2>. QED BY <2>1, PushAdvances
  <1>8. ASSUME NEW n, ReturnStarts(n) PROVE Advances
    <2>1. open # <<>> /\ Writes("return", "none") /\ (open' = open \/ Push([Running("return", "operand", This) EXCEPT !.left = n]))
      BY <1>1, <1>8 DEF ReturnStarts, Starts
    <2>. QED BY <2>1, PushAdvances
  <1>9. ASSUME NEW name, ReadStarts(name) PROVE Advances
    <2>1. open # <<>> /\ open' = open /\ \E kind : Writes(kind, name)
      BY <1>1, <1>9 DEF ReadStarts, Starts
    <2>. QED BY <1>2, <2>1
  <1>10. ASSUME NEW name, AssignStarts(name) PROVE Advances
    <2>1. open # <<>> /\ Writes("assign", name) /\ \E a : Push([Running("assign", "operand", This) EXCEPT !.args = a])
      BY <1>1, <1>10 DEF AssignStarts, Starts
    <2>. QED BY <2>1, PushAdvances
  <1>11. ASSUME NEW else, IfStarts(else) PROVE Advances
    <2>1. open # <<>> /\ Writes("if", "none") /\ Push([Running("if", "condition", This) EXCEPT !.optional = else])
      BY <1>1, <1>11 DEF IfStarts, Starts
    <2>. QED BY <2>1, PushAdvances
  <1>12. ASSUME NEW whens, CaseStarts(whens) PROVE Advances
    <2>1. open # <<>> /\ Writes("case", "none") /\ (open' = open \/ Push(Running("if", "condition", This)))
      BY <1>1, <1>12 DEF CaseStarts, Starts
    <2>. QED BY <2>1, PushAdvances
  <1>13. ASSUME NEW rescues, NEW ensured, BeginStarts(rescues, ensured) PROVE Advances
    <2>1. /\ open # <<>> /\ Writes("begin", "none")
          /\ Push([Running("begin", "main", This) EXCEPT !.base = Size(graph), !.rescues = rescues, !.optional = ensured])
      BY <1>1, <1>13 DEF BeginStarts, Starts
    <2>. QED BY <2>1, PushAdvances
  <1>. QED BY <1>3, <1>4, <1>5, <1>6, <1>7, <1>8, <1>9, <1>10, <1>11, <1>12, <1>13

LEMMA PartsAdvance ==
  ASSUME Typed
  PROVE  /\ CallOperand \/ ReturnOperand \/ BlockGoesOn \/ BlockEnds \/ AssignOperand \/ IndexOperand \/ IndexRight => Advances
         /\ IfCondition \/ TrueBranch \/ FalseBranch \/ WhileBody \/ WhileCondition => Advances
         /\ BeginMain \/ BeginEnsure \/ RescueAny \/ RescueTyped \/ RescueClass \/ RescueClause \/ BeginFinish \/ Finish => Advances
  <1>1. open # <<>> => Top \in FramesOf(Len(program))
    BY TypedParts
  <1>2. ASSUME program' = program, open' = open \/ (open # <<>> /\ open' = Below) PROVE Advances
    BY <1>2 DEF Advances
  <1>3. ASSUME NextOperand, program' = program, open # <<>> PROVE Advances
    <2> DEFINE f == Top
    <2>1. f \in FramesOf(Len(program)) /\ f = Top /\ TopIs([f EXCEPT !.left = @ - 1, !.args = Append(@, value)])
      BY <1>1, <1>3 DEF NextOperand
    <2> HIDE DEF f
    <2>2. TopIs([f EXCEPT !.left = f.left - 1, !.args = Append(f.args, value)])
      BY <2>1 DEF FramesOf
    <2>. QED BY <1>3, <2>1, <2>2, FrameAdvances
  <1>4. ASSUME CallOperand \/ ReturnOperand PROVE Advances
    BY <1>2, <1>3, <1>4 DEF CallOperand, ReturnOperand, Has, Crashes
  <1>5. ASSUME BlockGoesOn \/ BlockEnds \/ AssignOperand \/ IndexRight \/ FalseBranch \/ WhileCondition \/ BeginFinish \/ Finish PROVE Advances
    BY <1>2, <1>5 DEF BlockGoesOn, BlockEnds, AssignOperand, IndexRight, FalseBranch, WhileCondition, BeginFinish, Finish, Has, Crashes
  <1>6. ASSUME IndexOperand PROVE Advances
    <2>1. CASE TopIs([Top EXCEPT !.part = "right", !.args = Append(@, value)]) /\ program' = program /\ open # <<>>
      <3> DEFINE f == Top
      <3>1. f \in FramesOf(Len(program)) /\ f = Top /\ TopIs([f EXCEPT !.part = "right", !.args = Append(@, value)])
        BY <1>1, <2>1
      <3> HIDE DEF f
      <3>2. TopIs([f EXCEPT !.part = "right", !.args = Append(f.args, value)])
        BY <3>1 DEF FramesOf
      <3>. QED BY <2>1, <3>1, <3>2, FrameAdvances
    <2>. QED BY <1>2, <1>3, <1>6, <2>1 DEF IndexOperand, Has, Crashes
  <1>7. ASSUME IfCondition PROVE Advances
    <2> DEFINE f == Top
    <2>1. CASE open' = open /\ program' = program
      BY <1>2, <2>1
    <2>2. CASE TopIs([f EXCEPT !.part = "true", !.base = Size(graph)]) /\ program' = program /\ open # <<>>
      <3>1. f \in FramesOf(Len(program)) /\ f = Top
        BY <1>1, <2>2
      <3> HIDE DEF f
      <3>. QED BY <2>2, <3>1, FrameAdvances
    <2>. QED BY <1>7, <2>1, <2>2 DEF IfCondition, Has, Crashes
  <1>8. ASSUME TrueBranch PROVE Advances
    <2> DEFINE f == Top
    <2>1. TopIs([f EXCEPT !.part = "false", !.from = graph.cur, !.args = <<value>>]) /\ program' = program /\ open # <<>>
      BY <1>8 DEF TrueBranch, Has
    <2>2. f \in FramesOf(Len(program)) /\ f = Top
      BY <1>1, <2>1
    <2> HIDE DEF f
    <2>. QED BY <2>1, <2>2, FrameAdvances
  <1>9. ASSUME WhileBody PROVE Advances
    <2> DEFINE f == Top
    <2>1. CASE open' = open /\ program' = program
      BY <1>2, <2>1
    <2>2. CASE TopIs([f EXCEPT !.part = "condition", !.args = <<value>>]) /\ program' = program /\ open # <<>>
      <3>1. f \in FramesOf(Len(program)) /\ f = Top
        BY <1>1, <2>2
      <3> HIDE DEF f
      <3>. QED BY <2>2, <3>1, FrameAdvances
    <2>. QED BY <1>9, <2>1, <2>2 DEF WhileBody, Has, Crashes
  <1>10. ASSUME BeginMain PROVE Advances
    <2> DEFINE f == Top
    <2>1. TopIs([f EXCEPT !.part = "ensure"]) /\ program' = program /\ open # <<>>
      BY <1>10 DEF BeginMain, Has
    <2>2. f \in FramesOf(Len(program)) /\ f = Top
      BY <1>1, <2>1
    <2> HIDE DEF f
    <2>. QED BY <2>1, <2>2, FrameAdvances
  <1>11. ASSUME BeginEnsure PROVE Advances
    <2> DEFINE f == Top
    <2>1. /\ TopIs([f EXCEPT !.part = "rescue", !.from = Size(graph) + 1, !.handler = Size(graph) + 2,
                             !.args = <<<<f.stmt, "exception">>>>, !.optional = FALSE])
          /\ program' = program /\ open # <<>>
      BY <1>11 DEF BeginEnsure, Has
    <2>2. f \in FramesOf(Len(program)) /\ f = Top
      BY <1>1, <2>1
    <2> HIDE DEF f
    <2>. QED BY <2>1, <2>2, FrameAdvances
  <1>12. ASSUME RescueAny PROVE Advances
    <2> DEFINE f == Top
    <2>1. TopIs([f EXCEPT !.part = "clause", !.optional = TRUE]) /\ program' = program /\ open # <<>>
      BY <1>12 DEF RescueAny, RescueIs
    <2>2. f \in FramesOf(Len(program)) /\ f = Top
      BY <1>1, <2>1
    <2> HIDE DEF f
    <2>. QED BY <2>1, <2>2, FrameAdvances
  <1>13. ASSUME RescueTyped PROVE Advances
    <2> DEFINE f == Top
    <2>1. TopIs([f EXCEPT !.part = "class"]) /\ program' = program /\ open # <<>>
      BY <1>13 DEF RescueTyped, RescueIs
    <2>2. f \in FramesOf(Len(program)) /\ f = Top
      BY <1>1, <2>1
    <2> HIDE DEF f
    <2>. QED BY <2>1, <2>2, FrameAdvances
  <1>14. ASSUME RescueClass PROVE Advances
    <2> DEFINE f == Top
    <2>1. program' = program /\ open # <<>> /\ (open' = open \/ \E h : TopIs([f EXCEPT !.part = "clause", !.handler = h]))
      BY <1>14 DEF RescueClass, RescueIs
    <2>2. CASE open' = open
      BY <1>2, <2>1, <2>2
    <2>3. CASE \E h : TopIs([f EXCEPT !.part = "clause", !.handler = h])
      <3>1. f \in FramesOf(Len(program)) /\ f = Top
        BY <1>1, <2>1
      <3> HIDE DEF f
      <3>2. PICK h : TopIs([f EXCEPT !.part = "clause", !.handler = h])
        BY <2>3
      <3>. QED BY <2>1, <3>1, <3>2, FrameAdvances
    <2>. QED BY <2>1, <2>2, <2>3
  <1>15. ASSUME RescueClause PROVE Advances
    <2> DEFINE f == Top
    <2>1. TopIs([f EXCEPT !.part = "rescue", !.rescues = Tail(@)]) /\ program' = program /\ open # <<>>
      BY <1>15 DEF RescueClause, Has
    <2>2. f \in FramesOf(Len(program)) /\ f = Top
      BY <1>1, <2>1
    <2> HIDE DEF f
    <2>3. TopIs([f EXCEPT !.part = "rescue", !.rescues = Tail(f.rescues)])
      BY <2>1, <2>2 DEF FramesOf
    <2>. QED BY <2>1, <2>2, <2>3, FrameAdvances
  <1>. QED BY <1>4, <1>5, <1>6, <1>7, <1>8, <1>9, <1>10, <1>11, <1>12, <1>13, <1>14, <1>15

LEMMA NextLineage == Typed /\ Lineage(program, open) /\ [Next]_vars => Lineage(program, open)'
  <1> SUFFICES ASSUME Typed, Lineage(program, open), [Next]_vars PROVE Lineage(program, open)'
    OBVIOUS
  <1>1. Advances
    <2>1. CASE Next
      BY <2>1, StartsAdvance, PartsAdvance DEF Next
    <2>2. CASE UNCHANGED vars
      BY <2>2 DEF vars, Advances
    <2>. QED BY <2>1, <2>2
  <1>. QED BY <1>1, LineageAdvances

-----------------------------------------------------------------------------
(* The whole of generation.                                                *)

LEMMA FinishValues == ASSUME NEW A, NEW F, NEW K, From(A, F, K), Finish PROVE Values'
  <1> DEFINE N == Excused(program')
             c == graph.cur
             v == value
  <1>1. mode = "value" /\ graph' = Emit(graph, To("ret", <<v>>, <<>>)) /\ mode' = "finished" /\ program' = program
    BY DEF Finish
  <1>2. Placed(graph, A, N) /\ Ok(graph, v, A[c])
    BY <1>1, Facts
  <1>3. Follows(graph, A, graph, A, N, Size(graph), c) /\ c \in 1 .. Size(graph)
    BY <1>2, FollowsNothing DEF Placed
  <1>4. \A x \in Members(<<v>>) : Exempt(x, 0, N) \/ Available(graph, x, A[c])
    BY <1>2, OkExempt, MembersOf
  <1>5. \A x \in Members(<<>>) : x \in Nat /\ x \in A[x] /\ A[x] \subseteq A[c] \cup {x}
    BY MembersOf
  <1> HIDE DEF N, c, v
  <1>6. Follows(graph, A, graph', A, N, Size(graph), c)
    BY <1>1, <1>3, <1>4, <1>5, FollowsTo
  <1>7. Sound(graph', A, Excused(program'))
    BY <1>6 DEF Follows, N
  <1>. QED BY <1>1, <1>7 DEF Values, Active, Finished

LEMMA InitSound ==
  ASSUME NEW g, Size(g) = 1, g.blocks[1].code = <<>>, g.blocks[1].phi = {}, Shaped(g), NEW N,
         NEW A \in [Nat -> SUBSET Nat], \A b \in Nat : A[b] = IF b = 1 THEN {1} ELSE {}
  PROVE  Sound(g, A, N)
  <1>1. \A b \in 1 .. Size(g) : b = 1
    OBVIOUS
  <1>2. \A a, b : ~Enters(g, a, b)
    <2>1. \A a \in 1 .. Size(g) : Members(g.blocks[a].code) = {}
      BY <1>1, MembersOf
    <2>. QED BY <2>1 DEF Enters, Jumps, Throws
  <1>3. DOMAIN g.blocks[1].code = {}
    OBVIOUS
  <1>4. A[1] = {1} /\ \A b \in Nat : A[b] # {} => b \in A[b] /\ b \in 1 .. Size(g)
    OBVIOUS
  <1>. QED BY <1>1, <1>2, <1>3, <1>4 DEF Sound

LEMMA InitValues == Init => Lineage(program, open) /\ Values
  <1> SUFFICES ASSUME Init PROVE Lineage(program, open) /\ Values
    OBVIOUS
  <1> DEFINE f == Running("block", "list", 1)
             block == [code |-> <<>>, phi |-> {}]
             n == [kind |-> "block", name |-> "none", in |-> 0, part |-> "body"]
             A == [b \in Nat |-> IF b = 1 THEN {1} ELSE {}]
             F == [i \in Nat |-> {}]
  <1>1. graph = [blocks |-> <<block>>, cur |-> 1, begins |-> {}] /\ open = <<f>> /\ program = <<n>> /\ mode = "value" /\ value = Null
    BY DEF Init
  <1>2. f.op = "block" /\ f.part = "list" /\ f.stmt = 1
    BY DEF Running
  <1>3. n.kind = "block" /\ n.in = 0
    OBVIOUS
  <1>4. Size(graph) = 1 /\ graph.blocks[1].code = <<>> /\ graph.blocks[1].phi = {} /\ graph.cur = 1
    BY <1>1 DEF Size
  <1>5. Shaped(graph)
    BY InitTyped, EdgeTypes
  <1>6. A \in [Nat -> SUBSET Nat] /\ F \in [Nat -> SUBSET Nat] /\ (\A b \in Nat : A[b] = IF b = 1 THEN {1} ELSE {}) /\ \A i \in Nat : F[i] = {}
    OBVIOUS
  <1> HIDE DEF f, n, A, F, block
  <1>7. DOMAIN open = {1} /\ Len(open) = 1 /\ open[1] = f /\ open # <<>>
    BY <1>1
  <1>8. DOMAIN program = {1} /\ Len(program) = 1 /\ program[1] = n /\ program # <<>>
    BY <1>1
  <1>9. Lineage(program, open)
    <2>1. 2 .. 1 = {} /\ 1 .. 0 = {}
      OBVIOUS
    <2>. QED BY <1>2, <1>3, <1>7, <1>8, <2>1 DEF Lineage
  <1>10. Sound(graph, A, Excused(program))
    BY <1>4, <1>5, <1>6, InitSound
  <1>11. Slots(program, {}, variables, mode)
    <2>1. \A x \in Names : variables[x] = IF x \in Parameters THEN <<0, x>> ELSE Null
      BY DEF Init
    <2>2. \A x \in Names : Const(variables[x])
      <3>1. Const(Null) /\ \A x : Const(<<0, x>>)
        BY FirstIs DEF Const, Null
      <3>. QED BY <2>1, <3>1
    <2>3. \A x \in Parameters : x \in Names /\ <<0, x>> # Null
      BY CodegenAssumption DEF Null
    <2>. QED BY <1>3, <1>8, <2>1, <2>2, <2>3 DEF Slots
  <1>12. Stable(graph, A, {}, f, {}, {})
    <2>1. Kept(f) = {} /\ Waiting(f) = {} /\ Joined(f) = {} /\ Resumed(f) = {} /\ ~Rescuing(f)
      BY <1>2 DEF Kept, Waiting, Joined, Resumed, Rescuing
    <2>. QED BY <1>2, <2>1 DEF Stable
  <1>13. \A X, Z : Known(graph, A, program, {}, f, X, Z, 0)
    BY <1>2, <1>3, <1>8 DEF Known
  <1>14. Carried(graph, program, open, mode, value, A, F, {})
    <2>1. F[0] = {} /\ F[1] = {} /\ 1 - 1 = 0 /\ A[1] = {1}
      BY <1>6
    <2>2. Ok(graph, value, A[1])
      BY <1>1, NoneOk
    <2>3. /\ graph.cur \in A[graph.cur] /\ F[0] = {} /\ F[Len(open)] \subseteq A[graph.cur]
          /\ \A i \in DOMAIN open : i = 1 /\ ~(i < Len(open))
      BY <1>4, <1>7, <2>1
    <2>4. Stable(graph, A, {}, open[1], F[1], F[1 - 1])
      BY <1>7, <1>12, <2>1
    <2>5. \A X, Z : Known(graph, A, program, {}, open[1], X, Z, 0)
      BY <1>7, <1>13
    <2>6. Ok(graph, value, A[graph.cur]) /\ mode # "body"
      BY <1>1, <1>4, <2>2
    <2>. QED BY <2>3, <2>4, <2>5, <2>6 DEF Carried
  <1>. QED BY <1>1, <1>6, <1>9, <1>10, <1>11, <1>14 DEF Values, Carries, Finished

LEMMA NextValues == Ready /\ [Next]_vars => Values'
  <1> SUFFICES ASSUME Ready, [Next]_vars PROVE Values'
    OBVIOUS
  <1>1. CASE UNCHANGED vars
    <2>1. UNCHANGED <<graph, open, mode, program, variables, value>>
      BY <1>1 DEF vars
    <2>2. Values
      BY DEF Ready
    <2>. QED BY <2>1, <2>2 DEF Values, Active, Finished, Carries
  <1>2. CASE Next /\ ~Active
    BY <1>2 DEF Next, Active, Literal, Absent, HolderStarts, BlockStarts, BlockGoesOn, BlockEnds, AssignOperand, IndexStarts,
           IndexOperand, IndexRight, CallOperand, ReturnOperand, IfCondition, TrueBranch, FalseBranch,
           WhileStarts, WhileBody, WhileCondition, BeginMain, BeginEnsure, RescueAny, RescueTyped, RescueClass,
           RescueClause, BeginFinish, CallStarts, ReturnStarts, ReadStarts, AssignStarts, IfStarts, CaseStarts, BeginStarts,
           Starts, Has, RescueIs, Finish
  <1>3. CASE Next /\ Active
    <2>1. PICK A, F, K : Carries(A, F, K)
      BY <1>3 DEF Ready, Values
    <2>2. From(A, F, K)
      BY <1>3, <2>1 DEF Ready, From
    <2>3. CASE Literal \/ Absent \/ HolderStarts \/ BlockStarts \/ BlockGoesOn \/ BlockEnds
      <3>1. HolderStarts => mode' = "crashed"
        BY DEF HolderStarts
      <3>. QED BY <2>2, <2>3, <3>1, CrashValues, LiteralValues, AbsentValues, BlockStartsValues, BlockGoesOnValues, BlockEndsValues
    <2>4. CASE AssignOperand \/ IndexStarts \/ IndexRight \/ CallOperand \/ ReturnOperand \/ IndexOperand
      BY <2>2, <2>4, AssignOperandValues, PlainStartsValues, IndexRightValues, CallOperandValues, ReturnOperandValues,
         IndexOperandValues
    <2>5. CASE \E n \in 0 .. MaxOperands : CallStarts(n) \/ ReturnStarts(n)
      <3>1. 0 .. MaxOperands \subseteq Nat
        BY CodegenAssumption
      <3>. QED BY <2>2, <2>5, <3>1, CallStartsValues, ReturnStartsValues
    <2>6. CASE \/ \E name \in Names : ReadStarts(name) \/ AssignStarts(name)
               \/ \E else \in BOOLEAN : IfStarts(else)
               \/ \E whens \in 1 .. 2 : CaseStarts(whens)
      BY <2>2, <2>6, ReadStartsValues, AssignStartsValues, PlainStartsValues, CaseStartsValues
    <2>7. CASE IfCondition \/ TrueBranch \/ FalseBranch \/ WhileStarts \/ WhileBody \/ WhileCondition
      BY <2>2, <2>7, IfConditionValues, TrueBranchValues, FalseBranchValues, WhileStartsValues, WhileBodyValues,
         WhileConditionValues
    <2>8. CASE \E rescues \in RescueLists, ensured \in BOOLEAN : BeginStarts(rescues, ensured)
      BY <2>2, <2>8, BeginStartsValues
    <2>9. CASE BeginMain \/ BeginEnsure \/ RescueAny \/ RescueTyped \/ RescueClass \/ RescueClause \/ BeginFinish
      BY <2>2, <2>9, BeginMainValues, BeginEnsureValues, RescueAnyValues, RescueTypedValues, RescueClassValues,
         RescueClauseValues, BeginFinishValues
    <2>10. CASE Finish
      BY <2>2, <2>10, FinishValues
    <2>. QED BY <1>3, <2>3, <2>4, <2>5, <2>6, <2>7, <2>8, <2>9, <2>10 DEF Next
  <1>. QED BY <1>1, <1>2, <1>3

-----------------------------------------------------------------------------
(* What the property says.                                                 *)

\* What is known to dominate a block does.
LEMMA SoundDominates ==
  ASSUME NEW A, NEW N, Sound(graph, A, N), NEW b \in Nat, NEW d \in A[b]
  PROVE  Dominates(d, b)
  <1> DEFINE R == {x \in Blocks : d \notin A[x]}
  <1>1. Size(graph) \in Nat
    BY ShapedParts DEF Sound
  <1>2. A[1] = {1} /\ 1 \in Blocks /\ \A x \in Nat : A[x] # {} => x \in Blocks
    BY DEF Sound, Blocks
  <1>3. {1} \ {d} \subseteq R
    BY <1>2
  <1>4. ASSUME NEW a \in R, NEW x \in (Normal(a) \cup Unwinds(a)) \ {d} PROVE x \in R
    <2>1. a \in Blocks /\ d \notin A[a]
      OBVIOUS
    <2>2. Enters(graph, a, x) /\ x # d
      BY <1>4, <2>1, EdgesOf DEF Enters
    <2>3. x \in Nat /\ x \in A[x] /\ A[x] \subseteq A[a] \cup {x}
      BY <2>2 DEF Sound
    <2>4. x \in Blocks /\ d \notin A[x]
      BY <1>2, <2>1, <2>2, <2>3
    <2>. QED BY <2>4
  <1>5. b \notin R
    OBVIOUS
  <1> HIDE DEF R
  <1>6. ReachedAvoiding({d}) \subseteq R
    BY <1>1, <1>3, <1>4, ReachedWithin
  <1>. QED BY <1>5, <1>6 DEF Dominates

LEMMA SiteDefines ==
  ASSUME NEW v, NEW d, NEW j, Site(graph, v, d, j)
  PROVE  <<d, j>> \in DefinedAt(v)
  <1> DEFINE Code(b) == graph.blocks[b].code
             Of(b) == {IF Code(b)[i].op = "invoke" THEN <<Code(b)[i].targets[1], 0>> ELSE <<b, i>>
                       : i \in {i \in DOMAIN Code(b) : Code(b)[i].id = v}}
             Phis0 == {<<b, 0>> : b \in {b \in Blocks : \E p \in graph.blocks[b].phi : p.id = v}}
  <1>1. DefinedAt(v) = Phis0 \cup UNION {Of(b) : b \in Blocks}
    BY DEF DefinedAt
  <1>2. d \in Blocks
    BY DEF Site, Blocks
  <1>3. CASE j = 0 /\ \E p \in graph.blocks[d].phi : p.id = v
    BY <1>1, <1>2, <1>3
  <1>4. CASE j \in DOMAIN Code(d) /\ Code(d)[j].id = v /\ Code(d)[j].op # "invoke"
    <2>1. <<d, j>> \in Of(d)
      BY <1>4
    <2> HIDE DEF Of
    <2>. QED BY <1>1, <1>2, <2>1
  <1>5. CASE j = 0 /\ \E b \in 1 .. Size(graph) : \E i \in DOMAIN Code(b) :
               Code(b)[i].op = "invoke" /\ Code(b)[i].id = v /\ Code(b)[i].targets[1] = d
    <2>1. PICK b \in Blocks : \E i \in DOMAIN Code(b) : Code(b)[i].op = "invoke" /\ Code(b)[i].id = v /\ Code(b)[i].targets[1] = d
      BY <1>5 DEF Blocks
    <2>2. PICK i \in DOMAIN Code(b) : Code(b)[i].op = "invoke" /\ Code(b)[i].id = v /\ Code(b)[i].targets[1] = d
      BY <2>1
    <2>3. <<d, j>> \in Of(b)
      BY <1>5, <2>2
    <2> HIDE DEF Of
    <2>. QED BY <1>1, <2>3
  <1>. QED BY <1>3, <1>4, <1>5 DEF Site

LEMMA ScopesAgree ==
  \A a, s : InScope(a, s) <=> Scope(program, a, s)
  <1>1. \A s : Within(s) = Lines(program)[s]
    BY DEF Within, Lines
  <1>. QED BY <1>1 DEF InScope, Scope, Sure

\* A variable that may be used out of its scope is one that its statement allocates.
LEMMA ExcusedUse ==
  ASSUME NEW u, u.value[2] = "slot", <<u.value[1], u.by>> \in Excused(program)
  PROVE  ~UsedInScope(u)
  <1> DEFINE a == u.value[1]
  <1>1. a \in 1 .. Len(program) /\ Allocates(program, a) /\ ~Scope(program, a, u.by) /\ a # 0
    BY DEF Excused
  <1>2. Allocator(u) = a
    <2>1. CASE program[a].kind = "block"
      BY <1>1, <2>1 DEF Allocator
    <2>2. CASE program[a].kind # "block"
      <3> DEFINE x == program[a].name
                 First(n) == (\A m \in 1 .. n - 1 : program[m].kind = "assign" => program[m].name # x) /\ program[n].name = x /\ program[n].kind = "assign"
      <3>1. x \notin Parameters /\ First(a)
        BY <1>1, <2>2 DEF Allocates
      <3>2. Allocator(u) = CHOOSE n \in 1 .. a : First(n)
        BY <1>1, <2>2, <3>1 DEF Allocator
      <3>3. ASSUME NEW n \in 1 .. a, First(n), n # a PROVE FALSE
        <4>1. n \in 1 .. a - 1
          BY <1>1, <3>3
        <4>. QED BY <3>1, <3>3, <4>1
      <3>4. a \in 1 .. a
        BY <1>1
      <3> HIDE DEF First
      <3>. QED BY <3>1, <3>2, <3>3, <3>4
    <2>. QED BY <2>1, <2>2
  <1>. QED BY <1>1, <1>2, ScopesAgree DEF UsedInScope

LEMMA ValuesImply ==
  ASSUME Finished, Values
  PROVE  OperandsAreDefined
  <1>1. PICK A : Sound(graph, A, Excused(program))
    BY DEF Values
  <1> DEFINE Good(u) == \/ Const(u.value) \/ u.value[2] \in {"entry", "token"}
                        \/ u.value[2] = "slot" /\ ~UsedInScope(u)
                        \/ IsDefined(u)
             N == Excused(program)
             Code(b) == graph.blocks[b].code
  <1>2. ASSUME NEW u, u.block \in Nat, Usable(graph, A, N, u.value, u.by, u.block, u.at) PROVE Good(u)
    <2>1. CASE Exempt(u.value, u.by, N)
      BY <2>1, ExcusedUse DEF Exempt
    <2>2. CASE \E d \in A[u.block] : \E j : Site(graph, u.value, d, j) /\ (d = u.block => j < u.at)
      <3>1. PICK d \in A[u.block] : \E j : Site(graph, u.value, d, j) /\ (d = u.block => j < u.at)
        BY <2>2
      <3>2. PICK j : Site(graph, u.value, d, j) /\ (d = u.block => j < u.at)
        BY <3>1
      <3>3. <<d, j>> \in DefinedAt(u.value) /\ Dominates(d, u.block)
        BY <1>1, <1>2, <3>2, SiteDefines, SoundDominates
      <3>4. <<d, j>>[1] = d /\ <<d, j>>[2] = j
        OBVIOUS
      <3>5. IsDefined(u)
        BY <3>2, <3>3, <3>4 DEF IsDefined
      <3>. QED BY <3>5
    <2>. QED BY <1>2, <2>1, <2>2 DEF Usable
  <1> HIDE DEF Good
  <1>3. ASSUME NEW b \in Blocks, NEW u \in UsesIn(b) PROVE Good(u)
    <2> DEFINE Use(v, at, block, i) == [value |-> v, by |-> at, block |-> block, at |-> i]
               Takes(i) == {Use(v, Code(b)[i].id[1], b, i) : v \in Members(Code(b)[i].args)}
               Comes == {Use(p.value, p.id[1], p.from, Len(Code(p.from)) + 1) : p \in graph.blocks[b].phi}
    <2>1. UsesIn(b) = (UNION {Takes(i) : i \in DOMAIN Code(b)}) \cup Comes
      BY DEF UsesIn
    <2>2. b \in 1 .. Size(graph) /\ b \in Nat
      BY DEF Blocks
    <2>3. ASSUME NEW i \in DOMAIN Code(b), u \in Takes(i) PROVE Good(u)
      <3>1. PICK v \in Members(Code(b)[i].args) : u = Use(v, Code(b)[i].id[1], b, i)
        BY <2>3
      <3>2. u.value = v /\ u.by = Code(b)[i].id[1] /\ u.block = b /\ u.at = i
        BY <3>1
      <3>3. Usable(graph, A, N, v, Code(b)[i].id[1], b, i)
        BY <1>1, <2>2 DEF Sound
      <3>. QED BY <1>2, <2>2, <3>2, <3>3
    <2>4. ASSUME u \in Comes PROVE Good(u)
      <3>1. PICK p \in graph.blocks[b].phi : u = Use(p.value, p.id[1], p.from, Len(Code(p.from)) + 1)
        BY <2>4
      <3>2. u.value = p.value /\ u.by = p.id[1] /\ u.block = p.from /\ u.at = Len(Code(p.from)) + 1
        BY <3>1
      <3>3. p.from \in Nat /\ Usable(graph, A, N, p.value, p.id[1], p.from, Len(Code(p.from)) + 1)
        BY <1>1, <2>2 DEF Sound
      <3>. QED BY <1>2, <3>2, <3>3
    <2> HIDE DEF Takes, Comes
    <2>. QED BY <1>3, <2>1, <2>3, <2>4
  <1>. QED BY <1>3 DEF OperandsAreDefined, Good

\* Whatever program is generated, in which a rescue for any exception is the last one of its
\* begin: every value that an instruction or a phi takes is a constant or is defined on every
\* way to where it is taken, whatever blocks the statements in between open, and however the
\* calls among them end their blocks.  That is so of a variable too wherever it is in its
\* scope; `entry` and `token` are the two values that each while and each begin take at a
\* wrong place.
THEOREM OperandsAreAlwaysDefined == AnyComesLast => (Spec => []OperandsAreDefined)
  <1>1. Init => Ready
    BY InitTyped, InitHandlers, InitFlow, InitValues DEF Ready
  <1>2. AnyComesLast /\ Ready /\ [Next]_vars => Ready'
    BY NextTyped, NextHandlers, NextFlow, NextLineage, NextValues DEF Ready
  <1>3. Ready => OperandsAreDefined
    BY ValuesImply DEF Ready, OperandsAreDefined
  <1> SUFFICES ASSUME AnyComesLast PROVE Spec => []OperandsAreDefined
    OBVIOUS
  <1>4. Ready /\ [Next]_vars => Ready'
    BY <1>2
  <1>. QED BY <1>1, <1>3, <1>4, PTL DEF Spec
=============================================================================
