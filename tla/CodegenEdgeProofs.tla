-------------------------- MODULE CodegenEdgeProofs --------------------------
(***************************************************************************)
(* Proofs about the edges between the blocks that Codegen generates, and   *)
(* about the phis, which have a value for each of them.                    *)
(***************************************************************************)
EXTENDS CodegenProofs

-----------------------------------------------------------------------------
(* The edges that the IRBuilder's operations add.                          *)

Jumps(g, a, b)  == a \in 1 .. Size(g) /\ \E e \in Members(g.blocks[a].code) : IsEnd(e) /\ b \in Members(e.targets)
Throws(g, a, b) == a \in 1 .. Size(g) /\ \E e \in Members(g.blocks[a].code) : IsEnd(e) /\ b = e.unwind /\ b # 0

\* The landing pads that a call may go to.
MainPads == {handlers[i] : i \in DOMAIN handlers}

\* The graph h has k blocks and its insertion point at c; it has grown from g, and all the
\* edges that it has and g has not go from S to T, or from S to a landing pad.
Adds(g, h, S, T, k, c) ==
  /\ Shaped(h) /\ Size(h) = k /\ h.cur = c /\ k \in Nat
  /\ Size(g) \in Nat /\ Size(g) <= k /\ h.begins = g.begins
  /\ \A a, b : Jumps(h, a, b) => Jumps(g, a, b) \/ (a \in S /\ b \in T)
  /\ \A a, b : Throws(h, a, b) => Throws(g, a, b) \/ (a \in S /\ b \in MainPads)

LEMMA MembersOf ==
  ASSUME NEW x, NEW y
  PROVE  /\ Members(<<>>) = {} /\ Members(<<x>>) = {x} /\ Members(<<x, y>>) = {x, y}
         /\ \A S : \A s \in Seq(S) : Members(Append(s, x)) = Members(s) \cup {x}
  <1>1. Members(<<>>) = {}
    BY DEF Members
  <1>2. Members(<<x>>) = {x}
    <2>1. DOMAIN <<x>> = {1} /\ <<x>>[1] = x
      OBVIOUS
    <2>. QED BY <2>1 DEF Members
  <1>3. Members(<<x, y>>) = {x, y}
    <2>1. DOMAIN <<x, y>> = {1, 2} /\ <<x, y>>[1] = x /\ <<x, y>>[2] = y
      OBVIOUS
    <2>. QED BY <2>1 DEF Members
  <1>4. ASSUME NEW S, NEW s \in Seq(S) PROVE Members(Append(s, x)) = Members(s) \cup {x}
    <2>1. PICK l \in Nat : l = Len(s) /\ DOMAIN s = 1 .. l
      OBVIOUS
    <2>2. /\ DOMAIN Append(s, x) = 1 .. l + 1 /\ Append(s, x)[l + 1] = x
          /\ \A i \in 1 .. l : Append(s, x)[i] = s[i]
      BY <2>1
    <2>3. 1 .. l + 1 = (1 .. l) \cup {l + 1}
      BY <2>1
    <2> DEFINE w == Append(s, x)
    <2> HIDE DEF w
    <2>4. DOMAIN w = (1 .. l) \cup {l + 1} /\ w[l + 1] = x /\ \A i \in 1 .. l : w[i] = s[i]
      BY <2>2, <2>3 DEF w
    <2>5. Members(w) = Members(s) \cup {x}
      BY <2>1, <2>4 DEF Members
    <2>. QED BY <2>5 DEF w
  <1>. QED BY <1>1, <1>2, <1>3, <1>4

LEMMA AddsNothing ==
  ASSUME NEW g, Shaped(g), NEW S, NEW T
  PROVE  Adds(g, g, S, T, Size(g), g.cur)
BY ShapedParts DEF Adds

\* What an instruction that ends its block may add.
EndsInto(instr, b, S, T) ==
  IsEnd(instr) => b \in S /\ Members(instr.targets) \subseteq T /\ (instr.unwind = 0 \/ instr.unwind \in MainPads)

LEMMA AddsEmitAt ==
  ASSUME NEW g, NEW h, NEW S, NEW T, NEW k, NEW c, Adds(g, h, S, T, k, c),
         NEW b \in 1 .. k, NEW instr, EndsInto(instr, b, S, T)
  PROVE  Adds(g, EmitAt(h, b, instr), S, T, k, c)
  <1> DEFINE new == EmitAt(h, b, instr)
  <1>1. Shaped(h) /\ Size(h) = k
    BY DEF Adds
  <1>2. /\ Alike(h, new) /\ new.blocks[b].code = Append(h.blocks[b].code, instr)
        /\ \A x \in 1 .. k : x # b => new.blocks[x].code = h.blocks[x].code
    BY <1>1, EmitAtShaped
  <1> HIDE DEF new
  <1>3. Members(new.blocks[b].code) = Members(h.blocks[b].code) \cup {instr}
    <2>1. h.blocks[b].code \in Seq(Members(h.blocks[b].code))
      BY <1>1, ShapedParts
    <2>. QED BY <1>2, <2>1, MembersOf
  <1>4. \A x \in 1 .. k : Members(new.blocks[x].code) \subseteq Members(h.blocks[x].code) \cup (IF x = b THEN {instr} ELSE {})
    BY <1>2, <1>3
  <1>5. Shaped(new) /\ Size(new) = k /\ new.cur = h.cur /\ new.begins = h.begins
    BY <1>1, <1>2 DEF Alike
  <1>6. ASSUME NEW x, NEW y, Jumps(new, x, y) PROVE Jumps(h, x, y) \/ (x \in S /\ y \in T)
    BY <1>1, <1>4, <1>5, <1>6 DEF Jumps, EndsInto
  <1>7. ASSUME NEW x, NEW y, Throws(new, x, y) PROVE Throws(h, x, y) \/ (x \in S /\ y \in MainPads)
    BY <1>1, <1>4, <1>5, <1>7 DEF Throws, EndsInto
  <1>. QED BY <1>5, <1>6, <1>7 DEF Adds, new

Created(g, m, h) ==
  /\ Shaped(h) /\ Size(h) = Size(g) + m /\ h.cur = g.cur /\ h.begins = g.begins
  /\ \A b \in 1 .. Size(g) : h.blocks[b] = g.blocks[b]
  /\ \A b \in Size(g) + 1 .. Size(g) + m : h.blocks[b].code = <<>> /\ h.blocks[b].phi = {}
LEMMA CreateIs ==
  ASSUME NEW g, Shaped(g), NEW m \in Nat
  PROVE  Created(g, m, Create(g, m))
BY CreateShaped DEF Created

LEMMA AddsCreate ==
  ASSUME NEW g, NEW h, NEW S, NEW T, NEW k, NEW c, Adds(g, h, S, T, k, c), NEW m \in Nat
  PROVE  Adds(g, Create(h, m), S, T, k + m, c)
  <1> DEFINE new == Create(h, m)
  <1>1. Shaped(h) /\ Size(h) = k /\ k \in Nat
    BY DEF Adds
  <1>2. /\ Shaped(new) /\ Size(new) = k + m /\ new.cur = h.cur /\ new.begins = h.begins
        /\ \A b \in 1 .. k : new.blocks[b] = h.blocks[b]
        /\ \A b \in k + 1 .. k + m : new.blocks[b].code = <<>>
    <2>1. Created(h, m, new)
      BY <1>1, CreateIs
    <2>. QED BY <1>1, <2>1 DEF Created
  <1> HIDE DEF new
  <1>3. \A b \in 1 .. k + m : b \in 1 .. k \/ b \in k + 1 .. k + m
    BY <1>1
  <1>4. \A b \in k + 1 .. k + m : Members(new.blocks[b].code) = {}
    BY <1>2, MembersOf
  <1>5. ASSUME NEW a, NEW b PROVE (Jumps(new, a, b) => Jumps(h, a, b)) /\ (Throws(new, a, b) => Throws(h, a, b))
    BY <1>1, <1>2, <1>3, <1>4 DEF Jumps, Throws
  <1>6. k + m \in Nat /\ k <= k + m
    BY <1>1
  <1>7. Size(g) \in Nat /\ Size(g) <= k + m
    BY <1>1, <1>6 DEF Adds
  <1>. QED BY <1>2, <1>5, <1>6, <1>7 DEF Adds, new

\* The operations that leave the code as it is.
LEMMA AddsSame ==
  ASSUME NEW g, NEW h, NEW S, NEW T, NEW k, NEW c, Adds(g, h, S, T, k, c),
         NEW new, Shaped(new), Size(new) = k, new.begins = h.begins, \A b \in 1 .. k : new.blocks[b].code = h.blocks[b].code
  PROVE  Adds(g, new, S, T, k, new.cur)
  <1>1. Size(h) = k
    BY DEF Adds
  <1>2. ASSUME NEW a, NEW b PROVE (Jumps(new, a, b) => Jumps(h, a, b)) /\ (Throws(new, a, b) => Throws(h, a, b))
    BY <1>1 DEF Jumps, Throws
  <1>. QED BY <1>2 DEF Adds

LEMMA AddsMoveTo ==
  ASSUME NEW g, NEW h, NEW S, NEW T, NEW k, NEW c, Adds(g, h, S, T, k, c), NEW b \in Int
  PROVE  Adds(g, MoveTo(h, b), S, T, k, b)
  <1> DEFINE new == MoveTo(h, b)
  <1>1. Shaped(new) /\ new.blocks = h.blocks /\ new.cur = b /\ new.begins = h.begins
    BY MoveToShaped DEF Adds
  <1> HIDE DEF new
  <1>2. Size(new) = k
    BY <1>1 DEF Adds, Size
  <1>3. Adds(g, new, S, T, k, new.cur)
    BY <1>1, <1>2, AddsSame
  <1>. QED BY <1>1, <1>3 DEF new

LEMMA AddsAddIncoming ==
  ASSUME NEW g, NEW h, NEW S, NEW T, NEW k, NEW c, Adds(g, h, S, T, k, c), NEW b \in 1 .. k, NEW id, NEW v, NEW from
  PROVE  Adds(g, AddIncoming(h, b, id, v, from), S, T, k, c)
  <1> DEFINE new == AddIncoming(h, b, id, v, from)
  <1>1. Alike(h, new) /\ \A x \in 1 .. k : new.blocks[x].code = h.blocks[x].code
    BY AddIncomingShaped DEF Adds
  <1> HIDE DEF new
  <1>2. Shaped(new) /\ Size(new) = k /\ new.begins = h.begins /\ new.cur = c
    BY <1>1 DEF Adds, Alike
  <1>3. Adds(g, new, S, T, k, new.cur)
    BY <1>1, <1>2, AddsSame
  <1>. QED BY <1>2, <1>3 DEF new

LEMMA AddsJoins ==
  ASSUME NEW g, NEW h, NEW S, NEW T, NEW k, NEW c, Adds(g, h, S, T, k, c), NEW f, Ensure(f) \in 1 .. k,
         NEW v, NEW again, NEW from
  PROVE  Adds(g, Joins(h, f, v, again, from), S, T, k, c)
  <1> DEFINE h1 == AddIncoming(h, Ensure(f), <<f.stmt, "value">>, v, from)
  <1>1. Adds(g, h1, S, T, k, c)
    BY AddsAddIncoming
  <1> HIDE DEF h1
  <1>2. Adds(g, AddIncoming(h1, Ensure(f), <<f.stmt, "flag">>, again, from), S, T, k, c)
    BY <1>1, AddsAddIncoming
  <1>. QED BY <1>2 DEF Joins, h1

\* Code that goes on in S and in new blocks, which are all in T.
Newer(g) == {b \in Int : b > Size(g)}
Runs(g, h, S, T) ==
  /\ Newer(g) \subseteq S /\ Newer(g) \subseteq T
  /\ \E k, c : Adds(g, h, S, T, k, c) /\ c \in S /\ c \in 1 .. k

LEMMA RunsEmit ==
  ASSUME NEW g, NEW h, NEW S, NEW T, Runs(g, h, S, T), NEW instr, ~IsEnd(instr) \/ (instr.targets = <<>> /\ instr.unwind = 0)
  PROVE  Runs(g, Emit(h, instr), S, T)
  <1>1. PICK k, c : Adds(g, h, S, T, k, c) /\ c \in S /\ c \in 1 .. k
    BY DEF Runs
  <1>2. EndsInto(instr, c, S, T)
    BY <1>1, MembersOf DEF EndsInto
  <1>3. Adds(g, EmitAt(h, c, instr), S, T, k, c)
    BY <1>1, <1>2, AddsEmitAt
  <1>4. h.cur = c
    BY <1>1 DEF Adds
  <1>. QED BY <1>1, <1>3, <1>4 DEF Runs, Emit

LEMMA RunsLangCall ==
  ASSUME Typed, NEW g, NEW h, NEW S, NEW T, Runs(g, h, S, T), NEW id, NEW args
  PROVE  Runs(g, LangCall(h, id, args), S, T)
  <1> DEFINE new == LangCall(h, id, args)
  <1>1. PICK k, c : Adds(g, h, S, T, k, c) /\ c \in S /\ c \in 1 .. k
    BY DEF Runs
  <1>2. Size(h) = k /\ h.cur = c /\ k \in Nat /\ Size(g) \in Nat /\ Size(g) <= k
    BY <1>1 DEF Adds
  <1> HIDE DEF new
  <1>3. \/ \E instr : ~IsEnd(instr) /\ new = EmitAt(h, h.cur, instr)
        \/ \E instr : /\ IsEnd(instr) /\ instr.op = "invoke" /\ instr.id = id /\ handlers # <<>>
                      /\ instr.targets = <<Size(h) + 1>> /\ instr.unwind = Last(handlers)
                      /\ new = MoveTo(EmitAt(Create(h, 1), Create(h, 1).cur, instr), Size(h) + 1)
    <2>1. new = LangCall(h, id, args)
      BY DEF new
    <2>. QED BY <2>1, LangCallIs
  <1>4. ASSUME NEW instr, ~IsEnd(instr), new = EmitAt(h, h.cur, instr) PROVE Runs(g, new, S, T)
    BY <1>4, RunsEmit DEF Emit
  <1>5. ASSUME NEW instr, IsEnd(instr), handlers # <<>>, instr.targets = <<Size(h) + 1>>, instr.unwind = Last(handlers),
               new = MoveTo(EmitAt(Create(h, 1), Create(h, 1).cur, instr), Size(h) + 1)
        PROVE  Runs(g, new, S, T)
    <2> DEFINE g1 == Create(h, 1)
               g2 == EmitAt(g1, c, instr)
    <2>1. Adds(g, g1, S, T, k + 1, c)
      BY <1>1, AddsCreate
    <2>2. g1.cur = c
      BY <2>1 DEF Adds
    <2> HIDE DEF g1
    <2>3. k + 1 \in Newer(g) /\ k + 1 \in Int /\ k + 1 \in 1 .. k + 1 /\ c \in 1 .. k + 1
      BY <1>1, <1>2 DEF Newer
    <2>4. EndsInto(instr, c, S, T)
      <3>1. Members(instr.targets) = {k + 1} /\ k + 1 \in T
        BY <1>2, <1>5, <2>3, MembersOf DEF Runs
      <3>2. Last(handlers) \in MainPads
        <4>1. handlers \in Seq(1 .. Size(graph))
          BY DEF Typed
        <4>2. Len(handlers) \in DOMAIN handlers
          BY <1>5, <4>1, EmptySeq
        <4>. QED BY <4>2 DEF MainPads, Last
      <3>. QED BY <1>1, <1>5, <3>1, <3>2 DEF EndsInto
    <2>5. Adds(g, g2, S, T, k + 1, c)
      BY <2>1, <2>3, <2>4, AddsEmitAt
    <2> HIDE DEF g2
    <2>6. Adds(g, MoveTo(g2, k + 1), S, T, k + 1, k + 1)
      BY <2>3, <2>5, AddsMoveTo
    <2>7. new = MoveTo(g2, k + 1)
      BY <1>2, <1>5, <2>2 DEF g1, g2
    <2>. QED BY <2>3, <2>6, <2>7 DEF Runs
  <1>. QED BY <1>3, <1>4, <1>5 DEF new

LEMMA RunsCatch ==
  ASSUME Typed, NEW g, NEW h, NEW S, NEW T, Runs(g, h, S, T), NEW rescue
  PROVE  Runs(g, Catch(h, rescue), S, T)
  <1> DEFINE slot == <<This, "slot">>
             args == <<slot, Top.args[1]>>
             g1   == Emit(h, Instr("alloca", slot, <<>>))
             g2   == Emit(g1, Instr("store", <<This, "stored">>, args))
             g3   == IF rescue.var = "none" THEN h ELSE g2
  <1>1. Runs(g, g1, S, T)
    BY RunsEmit, EndInstrs
  <1> HIDE DEF g1, args
  <1>2. Runs(g, g2, S, T)
    BY <1>1, RunsEmit, EndInstrs
  <1>3. Runs(g, g3, S, T)
    BY <1>2
  <1> HIDE DEF g3
  <1>4. Runs(g, LangCall(g3, <<This, "caught">>, <<>>), S, T)
    BY <1>3, RunsLangCall
  <1>. QED BY <1>4 DEF Catch, g3, g1, args

-----------------------------------------------------------------------------
(* What is known of the edges while the blocks are generated.              *)

PadsOf(s)   == {Pad(s[i]) : i \in {i \in DOMAIN s : s[i].op = "begin"}}
DonePads(g) == {r.pad : r \in g.begins}
InEnsure(f) == f.op = "begin" /\ f.part = "ensure"
Enters(g, a, b) == Jumps(g, a, b) \/ Throws(g, a, b)

\* The blocks of a function are younger than those of the functions that it is a part of.
Layered(s) ==
  \A i, j \in DOMAIN s : i < j /\ HasBlocks(s[j]) => \A b \in Recorded(s[i]) : b <= s[j].base

\* Landing pads are come to by exceptions, and exceptions come to nothing else.
Padded(g, s) ==
  /\ \A a, b : Jumps(g, a, b) => b \notin PadsOf(s) \cup DonePads(g)
  /\ \A a, b : Throws(g, a, b) => b \in PadsOf(s) \cup DonePads(g)
  /\ \A i \in DOMAIN s : Rescuing(s[i]) => Pad(s[i]) \in DonePads(g)
  /\ \A i \in DOMAIN s : \A p \in DonePads(g) : p \in Own(s[i]) => s[i].op = "begin" /\ p = Pad(s[i])

\* While an ensure is generated: what is younger than n has been generated since then, and
\* is come to through the ensure.
EnsuringSince(g, s, i, n) ==
  /\ n \in Int /\ s[i].base + 3 <= n /\ n <= Size(g)
  /\ g.cur = Ensure(s[i]) \/ g.cur > n
  /\ \A j \in DOMAIN s : i < j /\ HasBlocks(s[j]) => n <= s[j].base
  /\ \A a, b : Enters(g, a, b) /\ b > n => a = Ensure(s[i]) \/ a > n
Ensuring(g, s) == \A i \in DOMAIN s : InEnsure(s[i]) => \E n : EnsuringSince(g, s, i, n)

\* When it has been generated: the blocks between n and the finish are not come to any more.
EnsuredSince(g, s, r, n) ==
  /\ n \in Int /\ 1 <= n /\ n < r.finish /\ r.finish <= Size(g) /\ r.ensure # 1
  /\ \A i \in DOMAIN s : \A b \in Own(s[i]) : ~(n < b /\ b <= r.finish)
  /\ \A a, b : Enters(g, a, b) /\ n < b /\ b <= r.finish => a = r.ensure \/ (n < a /\ a <= r.finish)
Ensured(g, s) == \A r \in g.begins : \E n : EnsuredSince(g, s, r, n)

EdgesAre(g, s) == Layered(s) /\ Padded(g, s) /\ Ensuring(g, s) /\ Ensured(g, s)
Edges == Active \/ Finished => EdgesAre(graph, open)

\* The blocks that a step may add edges from, and those it may add jumps to: the one that is
\* generated, those of the function on top, and new ones.
Sources == ({graph.cur} \cup Newer(graph)) \cup (IF open # <<>> THEN Recorded(Top) ELSE {})
Targets == Newer(graph) \cup (IF open = <<>> THEN {} ELSE IF Top.op = "begin" THEN Own(Top) \ {Pad(Top)} ELSE Own(Top))

\* What becomes of the stack: a function stays, is new, or goes on with its next part.
Stays(i, S) == i \in DOMAIN open /\ open'[i] = open[i] /\ (i = Len(open) => S \subseteq {graph.cur} \cup Newer(graph))
IsNew(f, T) ==
  /\ ~HasBlocks(f) \/ f.base = Size(graph)
  /\ ~Rescuing(f) /\ ~InEnsure(f) /\ (f.op = "begin" => T = {})
MovesOn(f) ==
  /\ open # <<>> /\ HasBlocks(Top) /\ HasBlocks(f) /\ f.op = Top.op /\ f.base = Top.base
  /\ Rescuing(f) => Pad(f) \in DonePads(graph')
  /\ InEnsure(f) => graph'.cur = Ensure(f) /\ Size(graph') = Size(graph)
StackMoves(S, T) ==
  /\ \A i \in DOMAIN open' :
       \/ Stays(i, S)
       \/ i = Len(open') /\ IsNew(open'[i], T)
       \/ i = Len(open') /\ i = Len(open) /\ MovesOn(open'[i])
  /\ PadsOf(open) \subseteq PadsOf(open') \cup DonePads(graph')

EdgeStep(S, T) ==
  /\ Active /\ S \subseteq Sources /\ T \subseteq Targets /\ graph'.cur \in S /\ Size(graph) <= Size(graph')
  /\ \A a, b : Jumps(graph', a, b) => Jumps(graph, a, b) \/ (a \in S /\ b \in T)
  /\ \A a, b : Throws(graph', a, b) => Throws(graph, a, b) \/ (a \in S /\ b \in MainPads)
  /\ graph.begins \subseteq graph'.begins
  /\ \A r \in graph'.begins : r \notin graph.begins =>
       /\ open # <<>> /\ Top.op = "begin" /\ r.pad = Pad(Top)
       /\ \E n : EnsuredSince(graph', open', r, n)
  /\ StackMoves(S, T)

LEMMA EdgeTypes ==
  ASSUME Typed
  PROVE  /\ \A a, b : Enters(graph, a, b) => a \in 1 .. Size(graph) /\ b \in 1 .. Size(graph)
         /\ \A p \in DonePads(graph) : p \in 1 .. Size(graph)
         /\ Shaped(graph)
  <1>1. Len(program) \in Nat /\ GraphOK(graph, Len(program))
    BY DEF Typed
  <1>2. /\ graph.begins \subseteq BeginsOf(Size(graph))
        /\ \A b \in 1 .. Size(graph) : graph.blocks[b].code \in Seq(InstrsOf(Size(graph), Len(program)))
    BY <1>1, GraphParts
  <1>3. ASSUME NEW a \in 1 .. Size(graph), NEW e \in Members(graph.blocks[a].code), NEW b
        PROVE  /\ b \in Members(e.targets) => b \in 1 .. Size(graph)
               /\ b = e.unwind /\ b # 0 => b \in 1 .. Size(graph)
    <2>1. e \in InstrsOf(Size(graph), Len(program))
      BY <1>2, <1>3 DEF Members
    <2>2. e.targets \in Seq(1 .. Size(graph)) /\ e.unwind \in 0 .. Size(graph)
      BY <2>1 DEF InstrsOf
    <2>3. Size(graph) \in Nat
      BY TypedParts
    <2>. QED BY <2>2, <2>3 DEF Members
  <1>4. \A a, b : Enters(graph, a, b) => a \in 1 .. Size(graph) /\ b \in 1 .. Size(graph)
    BY <1>3 DEF Enters, Jumps, Throws
  <1>5. \A p \in DonePads(graph) : p \in 1 .. Size(graph)
    BY <1>2 DEF DonePads, BeginsOf
  <1>6. Shaped(graph)
    BY <1>1 DEF GraphOK, GraphsOf, BlocksOf, Shaped
  <1>. QED BY <1>4, <1>5, <1>6

LEMMA EdgeTypesNext == (Typed => \A a, b : Enters(graph, a, b) => a \in 1 .. Size(graph) /\ b \in 1 .. Size(graph))'
  <1>1. Typed => \A a, b : Enters(graph, a, b) => a \in 1 .. Size(graph) /\ b \in 1 .. Size(graph)
    BY EdgeTypes
  <1>. QED BY <1>1, PTL

\* The stack and the blocks of its functions.
LEMMA StackBlocks ==
  ASSUME Typed
  PROVE  /\ DOMAIN open = 1 .. Len(open) /\ Len(open) \in Nat
         /\ open # <<>> => Top = open[Len(open)] /\ Len(open) \in DOMAIN open
         /\ \A i \in DOMAIN open : /\ Recorded(open[i]) \subseteq 1 .. Size(graph) /\ Own(open[i]) \subseteq Recorded(open[i])
                                   /\ open[i].base \in Int
                                   /\ HasBlocks(open[i]) => open[i].base >= 1
                                   /\ \A b \in Recorded(open[i]) : HasBlocks(open[i]) /\ b > open[i].base
                                   /\ \A b \in Own(open[i]) : b <= open[i].base + 3
  <1>1. open \in Seq(FramesOf(Len(program))) /\ Size(graph) \in Nat
    BY TypedParts DEF Typed
  <1>2. ASSUME NEW i \in DOMAIN open
        PROVE  /\ Recorded(open[i]) \subseteq 1 .. Size(graph) /\ Own(open[i]) \subseteq Recorded(open[i])
               /\ open[i].base \in Int
               /\ HasBlocks(open[i]) => open[i].base >= 1
               /\ \A b \in Recorded(open[i]) : HasBlocks(open[i]) /\ b > open[i].base
               /\ \A b \in Own(open[i]) : b <= open[i].base + 3
    <2> DEFINE f == open[i]
    <2>1. FrameOK(f, Size(graph), Len(program))
      BY DEF Typed
    <2> HIDE DEF f
    <2>2. f.base \in Int
      BY <2>1 DEF FrameOK, FramesOf
    <2>3. Recorded(f) \subseteq 1 .. Size(graph) /\ Own(f) \subseteq Recorded(f)
      BY <1>1, <2>1, RecordedParts DEF Recorded
    <2>4. HasBlocks(f) => f.base >= 1
      BY <2>1 DEF FrameOK
    <2>5. \A b \in Own(f) : HasBlocks(f) /\ b > f.base /\ b <= f.base + 3
      BY <2>2 DEF Own
    <2>6. Rescuing(f) => HasBlocks(f) /\ f.from > f.base /\ f.handler > f.base
      BY <2>1, <2>2, <1>1 DEF FrameOK, Rescuing, HasBlocks
    <2>. QED BY <2>2, <2>3, <2>4, <2>5, <2>6 DEF Recorded, f
  <1>3. open # <<>> => Top = open[Len(open)] /\ Len(open) \in DOMAIN open
    BY TypedParts
  <1>. QED BY <1>1, <1>2, <1>3

LEMMA LayersKept ==
  ASSUME Typed, Layered(open), NEW S, NEW T, StackMoves(S, T), open' \in Seq(FramesOf(Len(program)'))
  PROVE  Layered(open')
  <1>1. DOMAIN open' = 1 .. Len(open') /\ Len(open') \in Nat
    OBVIOUS
  <1>2. ASSUME NEW i \in DOMAIN open', NEW j \in DOMAIN open', i < j, HasBlocks(open'[j]), NEW b \in Recorded(open'[i])
        PROVE  b <= open'[j].base
    <2>1. i # Len(open') /\ i \in Int /\ j \in Int /\ j <= Len(open')
      BY <1>1, <1>2
    <2>2. i \in DOMAIN open /\ open'[i] = open[i]
      BY <2>1 DEF StackMoves, Stays
    <2>3. CASE Stays(j, S)
      BY <1>2, <2>2, <2>3 DEF Stays, Layered
    <2>4. CASE IsNew(open'[j], T)
      <3>1. b \in 1 .. Size(graph)
        BY <1>2, <2>2, StackBlocks
      <3>. QED BY <1>2, <2>4, <3>1 DEF IsNew
    <2>5. CASE j = Len(open) /\ MovesOn(open'[j])
      <3>1. Top = open[j] /\ j \in DOMAIN open /\ HasBlocks(Top) /\ open'[j].base = Top.base
        BY <2>5, StackBlocks DEF MovesOn
      <3>. QED BY <1>2, <2>2, <3>1 DEF Layered
    <2>. QED BY <2>3, <2>4, <2>5 DEF StackMoves
  <1>. QED BY <1>2 DEF Layered

\* The blocks of the functions after a step.
LEMMA OwnKept ==
  ASSUME Typed, NEW S, NEW T, StackMoves(S, T), NEW i \in DOMAIN open', NEW b \in Own(open'[i])
  PROVE  b > Size(graph) \/ \E j \in DOMAIN open : b \in Own(open[j]) /\ open'[i].op = open[j].op /\ open'[i].base = open[j].base
  <1>1. CASE Stays(i, S)
    BY <1>1 DEF Stays
  <1>2. CASE IsNew(open'[i], T)
    <2>1. HasBlocks(open'[i]) /\ open'[i].base = Size(graph)
      BY <1>2 DEF IsNew, Own
    <2>2. Size(graph) \in Nat
      BY TypedParts
    <2>. QED BY <2>1, <2>2 DEF Own
  <1>3. CASE i = Len(open) /\ MovesOn(open'[i])
    <2>1. Top = open[i] /\ i \in DOMAIN open
      BY <1>3, StackBlocks DEF MovesOn
    <2>2. Own(open'[i]) = Own(open[i])
      BY <1>3, <2>1 DEF MovesOn, Own
    <2>. QED BY <1>3, <2>1, <2>2 DEF MovesOn
  <1>. QED BY <1>1, <1>2, <1>3 DEF StackMoves

LEMMA PadsOfMain ==
  ASSUME HandlersNest
  PROVE  MainPads \subseteq PadsOf(open)
  <1>1. PICK at \in [DOMAIN handlers -> InMain] : \A i \in DOMAIN handlers : handlers[i] = Pad(open[at[i]])
    BY DEF HandlersNest
  <1>2. \A i \in DOMAIN handlers : at[i] \in InMain
    BY <1>1
  <1>. QED BY <1>1, <1>2 DEF MainPads, PadsOf, InMain

\* The blocks of the function on top are no other's.
LEMMA TopBlocks ==
  ASSUME Typed, Layered(open), open # <<>>, NEW b \in Own(Top), NEW i \in DOMAIN open, b \in Own(open[i])
  PROVE  i = Len(open)
  <1>1. DOMAIN open = 1 .. Len(open) /\ Len(open) \in Nat /\ Top = open[Len(open)] /\ Len(open) \in DOMAIN open
    BY StackBlocks
  <1>2. b \in Recorded(open[i]) /\ HasBlocks(Top) /\ b > Top.base /\ b \in Int /\ Top.base \in Int
    BY <1>1, StackBlocks
  <1>3. CASE i < Len(open)
    <2>1. b <= Top.base
      BY <1>1, <1>2, <1>3 DEF Layered
    <2>. QED BY <1>2, <2>1
  <1>. QED BY <1>1, <1>3

LEMMA PaddedKept ==
  ASSUME Typed, HandlersNest, Layered(open), Padded(graph, open), NEW S, NEW T, EdgeStep(S, T)
  PROVE  Padded(graph', open')
  <1> DEFINE k == Size(graph)
  <1>1. StackMoves(S, T) /\ k \in Nat
    BY TypedParts DEF EdgeStep
  <1>2. ASSUME open # <<>>, Top.op = "begin"
        PROVE  Pad(Top) \in Own(Top) /\ Pad(Top) \in PadsOf(open) /\ Own(Top) \subseteq 1 .. k
    <2>1. Len(open) \in DOMAIN open /\ Top = open[Len(open)]
      BY <1>2, StackBlocks
    <2>2. Pad(Top) \in Own(Top) /\ Pad(Top) \in PadsOf(open)
      BY <1>2, <2>1 DEF Pad, Own, HasBlocks, PadsOf
    <2>. QED BY <2>1, <2>2, StackBlocks
  <1>3. \A p \in PadsOf(open) : p \in 1 .. k /\ \E i \in DOMAIN open : open[i].op = "begin" /\ p = Pad(open[i]) /\ p \in Own(open[i])
    <2>1. ASSUME NEW i \in DOMAIN open, open[i].op = "begin" PROVE Pad(open[i]) \in Own(open[i])
      BY <2>1 DEF Pad, Own, HasBlocks
    <2>. QED BY <2>1, StackBlocks DEF PadsOf
  <1>4. \A p \in PadsOf(open') : p \in PadsOf(open) \/ (p > k /\ T = {})
    <2>1. ASSUME NEW i \in DOMAIN open', open'[i].op = "begin"
          PROVE  Pad(open'[i]) \in PadsOf(open) \/ (Pad(open'[i]) > k /\ T = {})
      <3>1. CASE Stays(i, S)
        BY <2>1, <3>1 DEF Stays, PadsOf
      <3>2. CASE IsNew(open'[i], T)
        <4>1. open'[i].base = k /\ T = {}
          BY <2>1, <3>2 DEF IsNew, HasBlocks
        <4>. QED BY <1>1, <4>1 DEF Pad
      <3>3. CASE MovesOn(open'[i])
        BY <1>2, <2>1, <3>3 DEF MovesOn, Pad
      <3>. QED BY <1>1, <3>1, <3>2, <3>3 DEF StackMoves
    <2>. QED BY <2>1 DEF PadsOf
  <1>5. \A p \in DonePads(graph') : p \in DonePads(graph) \/ (open # <<>> /\ Top.op = "begin" /\ p = Pad(Top))
    BY DEF EdgeStep, DonePads
  <1>6. DonePads(graph) \subseteq DonePads(graph')
    BY DEF EdgeStep, DonePads
  <1>7. /\ \A a, b : Enters(graph, a, b) => a \in 1 .. k /\ b \in 1 .. k
        /\ \A p \in DonePads(graph) : p \in 1 .. k
    BY EdgeTypes
  <1> HIDE DEF k
  <1>8. \A p \in DonePads(graph') : p \in 1 .. k
    BY <1>2, <1>5, <1>7
  <1>9. \A b \in 1 .. k : ~(b > k)
    BY <1>1
  <1>10. ASSUME NEW a, NEW b, Jumps(graph', a, b)
         PROVE  b \notin PadsOf(open') \cup DonePads(graph')
    <2>1. CASE Jumps(graph, a, b)
      <3>1. b \in 1 .. k /\ b \notin PadsOf(open) \cup DonePads(graph)
        BY <1>7, <2>1 DEF Padded, Enters
      <3>. QED BY <1>2, <1>4, <1>5, <1>9, <3>1
    <2>2. CASE b \in T /\ b > k
      BY <1>3, <1>4, <1>8, <1>9, <2>2
    <2>3. CASE b \in T /\ open # <<>> /\ b \in Own(Top) /\ (Top.op = "begin" => b # Pad(Top))
      <3>1. Len(open) \in DOMAIN open /\ Top = open[Len(open)] /\ b \in 1 .. k
        BY <2>3, StackBlocks DEF k
      <3>2. b \notin DonePads(graph)
        BY <2>3, <3>1 DEF Padded
      <3>3. b \notin PadsOf(open)
        <4>1. SUFFICES ASSUME b \in PadsOf(open) PROVE FALSE
          OBVIOUS
        <4>2. PICK i \in DOMAIN open : open[i].op = "begin" /\ b = Pad(open[i]) /\ b \in Own(open[i])
          BY <1>3, <4>1
        <4>3. i = Len(open)
          BY <2>3, <4>2, TopBlocks
        <4>. QED BY <2>3, <3>1, <4>2, <4>3
      <3>. QED BY <1>4, <1>5, <1>9, <2>3, <3>1, <3>2, <3>3
    <2>4. Jumps(graph, a, b) \/ (b \in T /\ b \in Targets)
      BY <1>10 DEF EdgeStep
    <2>5. b \in Targets => b > k \/ (open # <<>> /\ b \in Own(Top) /\ (Top.op = "begin" => b # Pad(Top)))
      BY DEF Targets, Newer, k
    <2>. QED BY <2>1, <2>2, <2>3, <2>4, <2>5
  <1>11. ASSUME NEW a, NEW b, Throws(graph', a, b)
         PROVE  b \in PadsOf(open') \cup DonePads(graph')
    <2>1. Throws(graph, a, b) \/ b \in MainPads
      BY <1>11 DEF EdgeStep
    <2>2. b \in PadsOf(open) \cup DonePads(graph)
      BY <2>1, PadsOfMain DEF Padded
    <2>. QED BY <1>1, <1>6, <2>2 DEF StackMoves
  <1>12. ASSUME NEW i \in DOMAIN open', Rescuing(open'[i])
         PROVE  Pad(open'[i]) \in DonePads(graph')
    BY <1>1, <1>6, <1>12 DEF StackMoves, Stays, IsNew, MovesOn, Padded
  <1>13. ASSUME NEW i \in DOMAIN open', NEW p \in DonePads(graph'), p \in Own(open'[i])
         PROVE  open'[i].op = "begin" /\ p = Pad(open'[i])
    <2>1. p \in 1 .. k /\ ~(p > k)
      BY <1>8, <1>9
    <2>2. PICK j \in DOMAIN open : p \in Own(open[j]) /\ open'[i].op = open[j].op /\ open'[i].base = open[j].base
      BY <1>1, <1>13, <2>1, OwnKept DEF k
    <2>3. open[j].op = "begin" /\ p = Pad(open[j])
      <3>1. CASE p \in DonePads(graph)
        BY <2>2, <3>1 DEF Padded
      <3>2. CASE open # <<>> /\ Top.op = "begin" /\ p = Pad(Top)
        <4>1. j = Len(open)
          BY <1>2, <2>2, <3>2, TopBlocks
        <4>. QED BY <3>2, <4>1, StackBlocks
      <3>. QED BY <1>5, <3>1, <3>2
    <2>. QED BY <2>2, <2>3 DEF Pad
  <1>. QED BY <1>10, <1>11, <1>12, <1>13 DEF Padded

\* What is added while an ensure is generated is added behind it.
LEMMA SourcesBehind ==
  ASSUME Typed, NEW S, S \subseteq Sources, NEW i \in DOMAIN open', Stays(i, S), InEnsure(open[i]),
         NEW n, EnsuringSince(graph, open, i, n), NEW a \in S
  PROVE  a = Ensure(open[i]) \/ a > n
  <1>1. n \in Int /\ n <= Size(graph) /\ Size(graph) \in Nat /\ i \in DOMAIN open
    BY TypedParts DEF EnsuringSince, Stays
  <1>2. CASE a = graph.cur
    BY <1>2 DEF EnsuringSince
  <1>3. CASE a \in Newer(graph)
    BY <1>1, <1>3 DEF Newer
  <1>4. CASE i # Len(open) /\ open # <<>> /\ a \in Recorded(Top)
    <2>1. Len(open) \in DOMAIN open /\ Top = open[Len(open)] /\ DOMAIN open = 1 .. Len(open) /\ Len(open) \in Nat
      BY <1>4, StackBlocks
    <2>2. i < Len(open)
      BY <1>1, <1>4, <2>1
    <2>3. HasBlocks(Top) /\ a > Top.base /\ Top.base \in Int /\ a \in 1 .. Size(graph)
      BY <1>4, <2>1, StackBlocks
    <2>4. n <= Top.base
      BY <2>1, <2>2, <2>3 DEF EnsuringSince
    <2>. QED BY <1>1, <2>3, <2>4
  <1>5. i = Len(open) => S \subseteq {graph.cur} \cup Newer(graph)
    BY DEF Stays
  <1>. QED BY <1>2, <1>3, <1>4, <1>5 DEF Sources

LEMMA EnsuringKept ==
  ASSUME Typed, Typed', Ensuring(graph, open), NEW S, NEW T, EdgeStep(S, T)
  PROVE  Ensuring(graph', open')
  <1> DEFINE k == Size(graph)
  <1>1. StackMoves(S, T) /\ k \in Nat /\ S \subseteq Sources /\ graph'.cur \in S /\ k <= Size(graph') /\ Size(graph') \in Int
    <2>1. GraphOK(graph', Len(program)')
      BY DEF Typed
    <2>2. Size(graph') \in Int
      BY <2>1 DEF GraphOK, GraphsOf, Size
    <2>. QED BY <2>2, TypedParts DEF EdgeStep
  <1>2. \A a, b : Enters(graph', a, b) => Enters(graph, a, b) \/ a \in S
    BY DEF EdgeStep, Enters
  <1>3. DOMAIN open' = 1 .. Len(open') /\ Len(open') \in Nat
    <2>1. open' \in Seq(FramesOf(Len(program)'))
      BY DEF Typed
    <2>. QED BY <2>1
  <1>4. ASSUME NEW i \in DOMAIN open', InEnsure(open'[i]), Stays(i, S)
        PROVE  \E n : EnsuringSince(graph', open', i, n)
    <2>1. i \in DOMAIN open /\ open'[i] = open[i]
      BY <1>4 DEF Stays
    <2>2. PICK n : EnsuringSince(graph, open, i, n)
      BY <1>4, <2>1 DEF Ensuring
    <2>3. \A a \in S : a = Ensure(open[i]) \/ a > n
      BY <1>1, <1>4, <2>1, <2>2, SourcesBehind
    <2>4. n \in Int /\ n <= k /\ open[i].base + 3 <= n
      BY <2>2 DEF EnsuringSince, k
    <2>5. n <= Size(graph')
      <3> HIDE DEF k
      <3>. QED BY <1>1, <2>4
    <2>6. ASSUME NEW j \in DOMAIN open', i < j, HasBlocks(open'[j])
          PROVE  n <= open'[j].base
      <3>1. CASE Stays(j, S)
        BY <2>2, <2>6, <3>1 DEF Stays, EnsuringSince
      <3>2. CASE IsNew(open'[j], T)
        BY <2>4, <2>6, <3>2 DEF IsNew
      <3>3. CASE j = Len(open) /\ MovesOn(open'[j])
        <4>1. j \in DOMAIN open /\ HasBlocks(open[j]) /\ open'[j].base = open[j].base
          BY <3>3, StackBlocks DEF MovesOn
        <4>. QED BY <2>2, <2>6, <4>1 DEF EnsuringSince
      <3>. QED BY <1>1, <3>1, <3>2, <3>3 DEF StackMoves
    <2>7. ASSUME NEW a, NEW b, Enters(graph', a, b), b > n
          PROVE  a = Ensure(open'[i]) \/ a > n
      BY <1>2, <2>1, <2>2, <2>3, <2>7 DEF EnsuringSince
    <2>8. graph'.cur = Ensure(open'[i]) \/ graph'.cur > n
      BY <1>1, <2>1, <2>3
    <2>. QED BY <2>1, <2>4, <2>5, <2>6, <2>7, <2>8 DEF EnsuringSince
  <1>5. ASSUME NEW i \in DOMAIN open', InEnsure(open'[i]), i = Len(open'), i = Len(open), MovesOn(open'[i])
        PROVE  \E n : EnsuringSince(graph', open', i, n)
    <2>1. graph'.cur = Ensure(open'[i]) /\ Size(graph') = k
      BY <1>5 DEF MovesOn
    <2>2. open'[i].base + 3 <= k
      <3>1. FrameOK(open'[i], Size(graph'), Len(program)')
        BY <1>5 DEF Typed
      <3>. QED BY <1>5, <2>1, <3>1 DEF FrameOK, InEnsure, HasBlocks
    <2>3. \A a, b : Enters(graph', a, b) => ~(b > k)
      <3>1. \A a, b : Enters(graph', a, b) => b \in 1 .. Size(graph')
        BY EdgeTypesNext
      <3>. QED BY <1>1, <2>1, <3>1
    <2>4. \A j \in DOMAIN open' : ~(i < j)
      BY <1>3, <1>5
    <2>5. EnsuringSince(graph', open', i, k)
      BY <1>1, <2>1, <2>2, <2>3, <2>4 DEF EnsuringSince
    <2>. QED BY <2>5
  <1>6. ASSUME NEW i \in DOMAIN open', InEnsure(open'[i])
        PROVE  \E n : EnsuringSince(graph', open', i, n)
    BY <1>1, <1>4, <1>5, <1>6 DEF StackMoves, IsNew
  <1>. QED BY <1>6 DEF Ensuring

LEMMA EnsuredKept ==
  ASSUME Typed, HandlersNest, Layered(open), Ensured(graph, open), NEW S, NEW T, EdgeStep(S, T),
         Size(graph') \in Int
  PROVE  Ensured(graph', open')
  <1> DEFINE k == Size(graph)
  <1>1. StackMoves(S, T) /\ k \in Nat /\ T \subseteq Targets /\ k <= Size(graph')
    BY TypedParts DEF EdgeStep
  <1>2. ASSUME NEW r \in graph.begins
        PROVE  \E n : EnsuredSince(graph', open', r, n)
    <2>1. PICK n : EnsuredSince(graph, open, r, n)
      BY DEF Ensured
    <2>2. n \in Int /\ 1 <= n /\ n < r.finish /\ r.finish <= k /\ r.ensure # 1
      BY <2>1 DEF EnsuredSince, k
    <2>3. r.finish \in Int
      <3>1. graph.begins \subseteq BeginsOf(k)
        <4>1. Len(program) \in Nat /\ GraphOK(graph, Len(program))
          BY DEF Typed
        <4>. QED BY <4>1, GraphParts
      <3>. QED BY <3>1 DEF BeginsOf
    <2>4. \A i \in DOMAIN open : \A b \in Own(open[i]) : ~(n < b /\ b <= r.finish)
      BY <2>1 DEF EnsuredSince
    <2>5. \A b : b > k /\ b \in Int => ~(b <= r.finish)
      BY <1>1, <2>2, <2>3
    <2>6. ASSUME NEW i \in DOMAIN open', NEW b \in Own(open'[i]) PROVE ~(n < b /\ b <= r.finish)
      <3>1. CASE \E j \in DOMAIN open : b \in Own(open[j])
        BY <2>4, <3>1
      <3>2. CASE b > k /\ b \in Int
        BY <2>5, <3>2
      <3>3. b \in Int \/ \E j \in DOMAIN open : b \in Own(open[j])
        <4>1. CASE IsNew(open'[i], T)
          <5>1. open'[i].base = k
            BY <4>1 DEF IsNew, Own
          <5>. QED BY <1>1, <5>1 DEF Own
        <4>2. CASE Stays(i, S)
          BY <4>2 DEF Stays
        <4>3. CASE i = Len(open) /\ MovesOn(open'[i])
          <5>1. i \in DOMAIN open /\ Own(open'[i]) = Own(open[i])
            BY <4>3, StackBlocks DEF MovesOn, Own
          <5>. QED BY <5>1
        <4>. QED BY <1>1, <4>1, <4>2, <4>3 DEF StackMoves
      <3>. QED BY <1>1, <3>1, <3>2, <3>3, OwnKept DEF k
    <2>7. ASSUME NEW a, NEW b, Enters(graph', a, b), n < b, b <= r.finish
          PROVE  a = r.ensure \/ (n < a /\ a <= r.finish)
      <3>1. CASE Enters(graph, a, b)
        BY <2>1, <2>7, <3>1 DEF EnsuredSince
      <3>2. CASE b \in Targets
        <4>1. (b > k /\ b \in Int) \/ (open # <<>> /\ b \in Own(Top))
          BY <3>2 DEF Targets, Newer, k
        <4>. QED BY <2>4, <2>5, <2>7, <4>1, StackBlocks
      <3>3. CASE b \in MainPads
        <4>1. PICK i \in DOMAIN open : open[i].op = "begin" /\ b = Pad(open[i])
          BY <3>3, PadsOfMain DEF PadsOf
        <4>2. b \in Own(open[i])
          BY <4>1 DEF Pad, Own, HasBlocks
        <4>. QED BY <2>4, <2>7, <4>2
      <3>4. Enters(graph, a, b) \/ b \in Targets \/ b \in MainPads
        BY <2>7 DEF EdgeStep, Enters
      <3>. QED BY <3>1, <3>2, <3>3, <3>4
    <2>8. r.finish <= Size(graph')
      <3> HIDE DEF k
      <3>. QED BY <1>1, <2>2, <2>3
    <2>. QED BY <2>2, <2>6, <2>7, <2>8 DEF EnsuredSince
  <1>3. ASSUME NEW r \in graph'.begins, r \notin graph.begins
        PROVE  \E n : EnsuredSince(graph', open', r, n)
    BY <1>3 DEF EdgeStep
  <1>. QED BY <1>2, <1>3 DEF Ensured

LEMMA EdgesKept ==
  ASSUME Typed, Typed', HandlersNest, Edges, NEW S, NEW T, EdgeStep(S, T)
  PROVE  Edges'
  <1>1. EdgesAre(graph, open) /\ StackMoves(S, T)
    BY DEF Edges, EdgeStep
  <1>2. open' \in Seq(FramesOf(Len(program)'))
    BY DEF Typed
  <1>3. Size(graph') \in Int
    <2>1. GraphOK(graph', Len(program)')
      BY DEF Typed
    <2>. QED BY <2>1 DEF GraphOK, GraphsOf, Size
  <1>4. Layered(open')
    BY <1>1, <1>2, LayersKept DEF EdgesAre
  <1>5. Padded(graph', open') /\ Ensuring(graph', open') /\ Ensured(graph', open')
    BY <1>1, <1>3, PaddedKept, EnsuringKept, EnsuredKept DEF EdgesAre
  <1>. QED BY <1>4, <1>5 DEF Edges, EdgesAre

-----------------------------------------------------------------------------
(* Every step is one of those.                                             *)

LEMMA IntoOf ==
  /\ \A op, args, b, S, T : b \in S => EndsInto(To(op, args, <<>>), b, S, T)
  /\ \A op, args, b, S, T : \A x \in T : b \in S => EndsInto(To(op, args, <<x>>), b, S, T)
  /\ \A op, args, b, S, T : \A x, y \in T : b \in S => EndsInto(To(op, args, <<x, y>>), b, S, T)
  /\ \A op \in {"load", "store", "alloca", "landingpad"} : \A id, args, b, S, T : EndsInto(Instr(op, id, args), b, S, T)
  <1>1. \A op, args, targets : To(op, args, targets).targets = targets /\ To(op, args, targets).unwind = 0
    BY DEF To, Instr
  <1>2. \A op \in {"load", "store", "alloca", "landingpad"} : \A id, args : ~IsEnd(Instr(op, id, args))
    BY DEF Instr, IsEnd, EndOps
  <1>3. Members(<<>>) = {} /\ \A x, y : Members(<<x>>) = {x} /\ Members(<<x, y>>) = {x, y}
    BY MembersOf
  <1>4. \A op, args, b, S, T : b \in S => EndsInto(To(op, args, <<>>), b, S, T)
    <2> SUFFICES ASSUME NEW op, NEW args, NEW b, NEW S, NEW T, b \in S
                 PROVE  EndsInto(To(op, args, <<>>), b, S, T)
      OBVIOUS
    <2>1. Members(<<>>) \subseteq T
      BY <1>3
    <2>. QED BY <1>1, <2>1 DEF EndsInto
  <1>5. \A op, args, b, S, T : \A x \in T : b \in S => EndsInto(To(op, args, <<x>>), b, S, T)
    <2> SUFFICES ASSUME NEW op, NEW args, NEW b, NEW S, NEW T, NEW x \in T, b \in S
                 PROVE  EndsInto(To(op, args, <<x>>), b, S, T)
      OBVIOUS
    <2>1. Members(<<x>>) \subseteq T
      BY <1>3
    <2>. QED BY <1>1, <2>1 DEF EndsInto
  <1>6. \A op, args, b, S, T : \A x, y \in T : b \in S => EndsInto(To(op, args, <<x, y>>), b, S, T)
    <2> SUFFICES ASSUME NEW op, NEW args, NEW b, NEW S, NEW T, NEW x \in T, NEW y \in T, b \in S
                 PROVE  EndsInto(To(op, args, <<x, y>>), b, S, T)
      OBVIOUS
    <2>1. Members(<<x, y>>) \subseteq T
      BY <1>3
    <2>. QED BY <1>1, <2>1 DEF EndsInto
  <1>7. \A op \in {"load", "store", "alloca", "landingpad"} : \A id, args, b, S, T : EndsInto(Instr(op, id, args), b, S, T)
    BY <1>2 DEF EndsInto
  <1>. QED BY <1>4, <1>5, <1>6, <1>7

LEMMA AddsEmit ==
  ASSUME NEW g, NEW h, NEW S, NEW T, NEW k, NEW c, Adds(g, h, S, T, k, c), c \in 1 .. k,
         NEW instr, EndsInto(instr, c, S, T)
  PROVE  Adds(g, Emit(h, instr), S, T, k, c)
  <1>1. h.cur = c
    BY DEF Adds
  <1>2. Adds(g, EmitAt(h, c, instr), S, T, k, c)
    BY AddsEmitAt
  <1>. QED BY <1>1, <1>2 DEF Emit

LEMMA AddsStep ==
  ASSUME NEW S, NEW T, NEW k, NEW c, Adds(graph, graph', S, T, k, c), c \in S, Active,
         S \subseteq Sources, T \subseteq Targets, StackMoves(S, T)
  PROVE  EdgeStep(S, T)
BY DEF EdgeStep, Adds

LEMMA EdgesCrash == mode' \in {"crashed", "undefined"} => Edges'
BY DEF Edges, Active, Finished

\* How the stack changes.
LEMMA MovesPush ==
  ASSUME Typed, NEW S, S \subseteq {graph.cur} \cup Newer(graph), NEW T, NEW f, open' = Append(open, f), IsNew(f, T)
  PROVE  StackMoves(S, T)
  <1>1. PICK top \in Nat :
          /\ DOMAIN open = 1 .. top /\ DOMAIN Append(open, f) = 1 .. top + 1 /\ Append(open, f)[top + 1] = f
          /\ \A i \in 1 .. top : Append(open, f)[i] = open[i]
    BY StackDomains
  <1>2. Len(open') = top + 1
    BY <1>1 DEF Typed
  <1>3. \A i \in 1 .. top + 1 : i \in 1 .. top \/ i = top + 1
    BY <1>1
  <1>4. \A i \in 1 .. top : i \in 1 .. top + 1
    BY <1>1
  <1>5. \A i \in DOMAIN open' : Stays(i, S) \/ (i = Len(open') /\ IsNew(open'[i], T))
    BY <1>1, <1>2, <1>3 DEF Stays
  <1>6. PadsOf(open) \subseteq PadsOf(open')
    BY <1>1, <1>4 DEF PadsOf
  <1>. QED BY <1>5, <1>6 DEF StackMoves

LEMMA MovesPop ==
  ASSUME Typed, NEW S, NEW T, open # <<>>, open' = Below, Top.op = "begin" => Pad(Top) \in DonePads(graph')
  PROVE  StackMoves(S, T)
  <1>1. PICK top \in Nat :
          /\ top = Len(open) /\ DOMAIN open = 1 .. top
          /\ top >= 1 /\ Top = open[top] /\ DOMAIN Below = 1 .. top - 1 /\ \A i \in 1 .. top - 1 : Below[i] = open[i]
    BY StackDomains
  <1>2. \A i \in 1 .. top - 1 : i \in 1 .. top /\ i # top
    BY <1>1
  <1>3. \A i \in 1 .. top : i \in 1 .. top - 1 \/ i = top
    BY <1>1
  <1>4. \A i \in DOMAIN open' : Stays(i, S)
    BY <1>1, <1>2 DEF Stays
  <1>5. PadsOf(open) \subseteq PadsOf(open') \cup DonePads(graph')
    BY <1>1, <1>3 DEF PadsOf
  <1>. QED BY <1>4, <1>5 DEF StackMoves

LEMMA MovesTop ==
  ASSUME Typed, NEW S, NEW T, open # <<>>, NEW f, open' = Append(Below, f),
         \/ IsNew(f, T) /\ Top.op # "begin"
         \/ MovesOn(f)
  PROVE  StackMoves(S, T)
  <1>1. PICK top \in Nat :
          /\ top = Len(open) /\ DOMAIN open = 1 .. top
          /\ top >= 1 /\ Top = open[top]
          /\ DOMAIN Append(Below, f) = 1 .. top /\ Append(Below, f)[top] = f
          /\ \A i \in 1 .. top - 1 : Append(Below, f)[i] = open[i]
    BY StackDomains
  <1>2. \A i \in 1 .. top - 1 : i \in 1 .. top /\ i # top
    BY <1>1
  <1>3. \A i \in 1 .. top : i \in 1 .. top - 1 \/ i = top
    BY <1>1
  <1>4. top \in 1 .. top
    BY <1>1
  <1>5. Len(open') = top
    <2>1. open \in Seq(FramesOf(Len(program)))
      BY DEF Typed
    <2>. QED BY <1>1, <2>1, StackChanges
  <1>6. \A i \in DOMAIN open' :
           \/ Stays(i, S)
           \/ i = Len(open') /\ IsNew(open'[i], T)
           \/ i = Len(open') /\ i = Len(open) /\ MovesOn(open'[i])
    BY <1>1, <1>2, <1>3, <1>5 DEF Stays
  <1>7. PadsOf(open) \subseteq PadsOf(open')
    <2>1. Top.op = "begin" => f.op = "begin" /\ Pad(f) = Pad(Top)
      BY DEF MovesOn, Pad
    <2>2. \A i \in 1 .. top - 1 : open'[i] = open[i]
      BY <1>1
    <2>3. open'[top] = f /\ DOMAIN open' = 1 .. top
      BY <1>1
    <2>. QED BY <1>1, <1>2, <1>3, <1>4, <2>1, <2>2, <2>3 DEF PadsOf
  <1>. QED BY <1>6, <1>7 DEF StackMoves

\* The blocks of the function on top.
LEMMA AtTop ==
  ASSUME Typed, open # <<>>, HasBlocks(Top)
  PROVE  /\ Top.base \in Int /\ Top.base >= 1 /\ Top.base + 3 <= Size(graph)
         /\ Own(Top) = {Top.base + 1, Top.base + 2, Top.base + 3} /\ Own(Top) \subseteq 1 .. Size(graph)
         /\ {graph.cur} \cup Recorded(Top) \subseteq Sources /\ Own(Top) \subseteq Recorded(Top)
         /\ Recorded(Top) \subseteq 1 .. Size(graph)
         /\ Top.op # "begin" => Own(Top) \subseteq Targets
         /\ Top.op = "begin" => {Ensure(Top), Rethrow(Top)} \subseteq Targets
  <1>1. Len(open) \in DOMAIN open /\ Top = open[Len(open)]
    BY StackBlocks
  <1>2. Top.base \in Int /\ Top.base >= 1 /\ Recorded(Top) \subseteq 1 .. Size(graph) /\ Own(Top) \subseteq Recorded(Top)
    BY <1>1, StackBlocks
  <1>3. Top.base + 3 <= Size(graph)
    BY <1>1, TypedParts DEF FrameOK
  <1>4. Own(Top) = {Top.base + 1, Top.base + 2, Top.base + 3}
    BY DEF Own
  <1>5. Top.op = "begin" => {Ensure(Top), Rethrow(Top)} \subseteq Own(Top) \ {Pad(Top)}
    BY <1>2, <1>4 DEF Ensure, Rethrow, Pad
  <1>. QED BY <1>2, <1>3, <1>4, <1>5 DEF Sources, Targets

LEMMA QuietRuns ==
  ASSUME Typed, Continues(graph, graph'), NEW S, NEW T, Runs(graph, graph, S, T)
  PROVE  Runs(graph, graph', S, T)
  <1>1. ASSUME NEW g, Runs(graph, g, S, T), NEW h, Emits(g, h) PROVE Runs(graph, h, S, T)
    <2>1. CASE h = g
      BY <1>1, <2>1
    <2>2. ASSUME NEW instr, Quiet(instr), h = Emit(g, instr) PROVE Runs(graph, h, S, T)
      BY <1>1, <2>2, RunsEmit DEF Quiet
    <2>. QED BY <1>1, <2>1, <2>2 DEF Emits
  <1>2. ASSUME NEW g, Runs(graph, g, S, T), NEW h, Calls(g, h) PROVE Runs(graph, h, S, T)
    <2>1. PICK id, args : h = LangCall(g, id, args)
      BY <1>2 DEF Calls
    <2>. QED BY <1>2, <2>1, RunsLangCall
  <1>3. CASE Emits(graph, graph')
    BY <1>1, <1>3
  <1>4. CASE \E between : Calls(graph, between) /\ (Emits(between, graph') \/ Calls(between, graph'))
    <2>1. PICK between : Calls(graph, between) /\ (Emits(between, graph') \/ Calls(between, graph'))
      BY <1>4
    <2>2. Runs(graph, between, S, T)
      BY <1>2, <2>1
    <2>. QED BY <1>1, <1>2, <2>1, <2>2
  <1>. QED BY <1>3, <1>4 DEF Continues

\* Where a step starts from.
Onward == {graph.cur} \cup Newer(graph)
LEMMA RunsFrom ==
  ASSUME Typed, NEW S, NEW T, Onward \subseteq S, Newer(graph) \subseteq T
  PROVE  /\ Runs(graph, graph, S, T) /\ Adds(graph, graph, S, T, Size(graph), graph.cur)
         /\ graph.cur \in 1 .. Size(graph) /\ Size(graph) \in Nat
         /\ Onward \subseteq Sources /\ Newer(graph) \subseteq Targets
  <1>1. Adds(graph, graph, S, T, Size(graph), graph.cur)
    BY EdgeTypes, AddsNothing
  <1>2. graph.cur \in 1 .. Size(graph) /\ Size(graph) \in Nat
    BY TypedParts
  <1>. QED BY <1>1, <1>2 DEF Runs, Onward, Sources, Targets

LEMMA NewBlocks ==
  ASSUME Typed
  PROVE  \A i \in 1 .. 4 : Size(graph) + i \in Newer(graph) /\ Size(graph) + i \in Onward
  <1> DEFINE k == Size(graph)
  <1>1. k \in Nat
    BY TypedParts
  <1> HIDE DEF k
  <1>2. \A i \in 1 .. 4 : k + i \in Int /\ k + i > k
    BY <1>1
  <1>. QED BY <1>2 DEF k, Newer, Onward

LEMMA RunsStep ==
  ASSUME NEW S, NEW T, Runs(graph, graph', S, T), Active, S \subseteq Sources, T \subseteq Targets, StackMoves(S, T)
  PROVE  EdgeStep(S, T)
  <1>1. PICK k, c : Adds(graph, graph', S, T, k, c) /\ c \in S
    BY DEF Runs
  <1>. QED BY <1>1, AddsStep

LEMMA QuietEdges ==
  ASSUME Typed, Typed', HandlersNest, Edges, GoesOnQuietly
  PROVE  Edges'
  <1>1. CASE mode' \in {"crashed", "undefined"}
    BY <1>1, EdgesCrash
  <1>2. CASE Active /\ KeepsBlocks /\ Continues(graph, graph')
    <2>1. Runs(graph, graph', Onward, Newer(graph)) /\ Onward \subseteq Sources /\ Newer(graph) \subseteq Targets
      BY <1>2, RunsFrom, QuietRuns
    <2>2. ASSUME NEW f, ~HasBlocks(f) PROVE IsNew(f, Newer(graph)) /\ f.op # "begin"
      BY <2>2 DEF IsNew, HasBlocks, Rescuing, InEnsure
    <2>3. StackMoves(Onward, Newer(graph))
      <3>1. CASE open' = open
        BY <3>1 DEF StackMoves, Stays, Onward
      <3>2. CASE open # <<>> /\ ~HasBlocks(Top) /\ open' = Below
        BY <2>2, <3>2, MovesPop
      <3>3. ASSUME NEW f, ~HasBlocks(f), open' = Append(open, f)
            PROVE  StackMoves(Onward, Newer(graph))
        BY <2>2, <3>3, MovesPush DEF Onward
      <3>4. ASSUME NEW f, open # <<>>, ~HasBlocks(Top), ~HasBlocks(f), open' = Append(Below, f)
            PROVE  StackMoves(Onward, Newer(graph))
        BY <2>2, <3>4, MovesTop
      <3>. QED BY <1>2, <3>1, <3>2, <3>3, <3>4 DEF KeepsBlocks
    <2>4. EdgeStep(Onward, Newer(graph))
      BY <1>2, <2>1, <2>3, RunsStep
    <2>. QED BY <2>4, EdgesKept
  <1>. QED BY <1>1, <1>2 DEF GoesOnQuietly

\* codegenIf and codegenWhile.
LEMMA IfConditionEdges == ASSUME Typed, Typed', HandlersNest, Edges, IfCondition PROVE Edges'
  <1> DEFINE k  == Size(graph)
             c  == graph.cur
             S  == Onward
             T  == Newer(graph)
             g1 == Create(graph, 3)
             g2 == Emit(g1, To("cond", <<value>>, <<k + 2, k + 3>>))
             g3 == MoveTo(g2, k + 2)
             t  == Top
             f  == [t EXCEPT !.part = "true", !.base = k]
  <1>1. /\ Has("if", "condition")
        /\ mode' = "crashed" \/ (graph' = g3 /\ open' = Append(Below, f))
    BY DEF IfCondition, Crashes, TopIs
  <1>2. Active /\ open # <<>> /\ t.op = "if" /\ t \in FramesOf(Len(program))
    BY <1>1, TypedParts DEF Has, Active
  <1>3. f.op = "if" /\ f.part = "true" /\ f.base = k
    <2> HIDE DEF k, t
    <2>. QED BY <1>2 DEF FramesOf
  <1> HIDE DEF f, t
  <1>4. IsNew(f, T)
    BY <1>3 DEF IsNew, Rescuing, InEnsure
  <1>5. /\ Adds(graph, graph, S, T, k, c) /\ S \subseteq Sources /\ T \subseteq Targets
        /\ c \in 1 .. k /\ k \in Nat /\ c \in S /\ {k + 2, k + 3} \subseteq S /\ {k + 2, k + 3} \subseteq T
    BY RunsFrom, NewBlocks DEF Onward
  <1> HIDE DEF k, c, S, T
  <1>6. Adds(graph, g1, S, T, k + 3, c) /\ c \in 1 .. k + 3 /\ k + 2 \in Int
    BY <1>5, AddsCreate
  <1> HIDE DEF g1
  <1>7. Adds(graph, g2, S, T, k + 3, c)
    BY <1>5, <1>6, IntoOf, AddsEmit
  <1> HIDE DEF g2
  <1>8. Adds(graph, g3, S, T, k + 3, k + 2)
    BY <1>6, <1>7, AddsMoveTo
  <1> HIDE DEF g3
  <1>9. CASE graph' = g3 /\ open' = Append(Below, f)
    <2>1. StackMoves(S, T)
      BY <1>2, <1>4, <1>9, MovesTop DEF t
    <2>2. EdgeStep(S, T)
      BY <1>2, <1>5, <1>8, <1>9, <2>1, AddsStep
    <2>. QED BY <2>2, EdgesKept
  <1>. QED BY <1>1, <1>9, EdgesCrash

LEMMA TrueBranchEdges == ASSUME Typed, Typed', HandlersNest, Edges, TrueBranch PROVE Edges'
  <1> DEFINE k  == Size(graph)
             c  == graph.cur
             b  == Top.base
             S  == {c, b + 3}
             T  == {b + 1}
             g1 == Emit(graph, To("br", <<>>, <<b + 1>>))
             g2 == MoveTo(g1, b + 3)
             g3 == Emit(g2, Instr("load", <<Top.stmt, "nil">>, <<>>))
             t  == Top
             y  == <<value>>
             f  == [t EXCEPT !.part = "false", !.from = c, !.args = y]
  <1>1. /\ Has("if", "true") /\ open' = Append(Below, f)
        /\ graph' = g2 \/ graph' = g3
    BY DEF TrueBranch, TopIs, NoBranch
  <1>2. Active /\ open # <<>> /\ HasBlocks(Top) /\ t.op = "if" /\ t \in FramesOf(Len(program))
    BY <1>1, TypedParts DEF Has, Active, HasBlocks
  <1>3. f.op = "if" /\ f.part = "false" /\ f.base = b
    <2>1. t.base = b
      OBVIOUS
    <2> HIDE DEF c, y, t, b
    <2>. QED BY <1>2, <2>1 DEF FramesOf
  <1> HIDE DEF f
  <1>4. MovesOn(f)
    BY <1>2, <1>3 DEF MovesOn, HasBlocks, Rescuing, InEnsure
  <1>5. S \subseteq Sources /\ T \subseteq Targets
    BY <1>2, AtTop
  <1>6. Adds(graph, graph, S, T, k, c) /\ c \in 1 .. k /\ b \in Int /\ b + 3 \in 1 .. k /\ c \in S /\ b + 3 \in S /\ b + 1 \in T
    BY <1>2, AtTop, EdgeTypes, AddsNothing, TypedParts
  <1> HIDE DEF t, k, c, b, S, T
  <1>7. Adds(graph, g1, S, T, k, c)
    BY <1>6, IntoOf, AddsEmit
  <1> HIDE DEF g1
  <1>8. Adds(graph, g2, S, T, k, b + 3)
    BY <1>6, <1>7, AddsMoveTo
  <1> HIDE DEF g2
  <1>9. Adds(graph, g3, S, T, k, b + 3)
    BY <1>6, <1>8, IntoOf, AddsEmit
  <1> HIDE DEF g3
  <1>10. StackMoves(S, T)
    BY <1>1, <1>2, <1>4, MovesTop
  <1>11. EdgeStep(S, T)
    BY <1>1, <1>2, <1>5, <1>6, <1>8, <1>9, <1>10, AddsStep
  <1>. QED BY <1>11, EdgesKept

LEMMA FalseBranchEdges == ASSUME Typed, Typed', HandlersNest, Edges, FalseBranch PROVE Edges'
  <1> DEFINE k  == Size(graph)
             c  == graph.cur
             b  == Top.base
             S  == {c, b + 1}
             T  == {b + 1}
             id == <<Top.stmt, "value">>
             x  == Top.args[1]
             y  == Top.from
             g1 == Emit(graph, To("br", <<>>, <<b + 1>>))
             g2 == AddIncoming(g1, b + 1, id, x, y)
             g3 == AddIncoming(g2, b + 1, id, value, c)
             g4 == MoveTo(g3, b + 1)
  <1>1. /\ Has("if", "false")
        /\ mode' = "crashed" \/ (graph' = g4 /\ open' = Below)
    BY DEF FalseBranch, Crashes
  <1>2. Active /\ open # <<>> /\ HasBlocks(Top) /\ Top.op = "if"
    BY <1>1 DEF Has, Active, HasBlocks
  <1>5. S \subseteq Sources /\ T \subseteq Targets
    BY <1>2, AtTop
  <1>6. Adds(graph, graph, S, T, k, c) /\ c \in 1 .. k /\ b \in Int /\ b + 1 \in 1 .. k /\ c \in S /\ b + 1 \in S /\ b + 1 \in T
    BY <1>2, AtTop, EdgeTypes, AddsNothing, TypedParts
  <1> HIDE DEF k, c, b, S, T, id, x, y
  <1>7. Adds(graph, g1, S, T, k, c)
    BY <1>6, IntoOf, AddsEmit
  <1> HIDE DEF g1
  <1>8. Adds(graph, g2, S, T, k, c)
    BY <1>6, <1>7, AddsAddIncoming
  <1> HIDE DEF g2
  <1>9. Adds(graph, g3, S, T, k, c)
    BY <1>6, <1>8, AddsAddIncoming
  <1> HIDE DEF g3
  <1>10. Adds(graph, g4, S, T, k, b + 1)
    BY <1>6, <1>9, AddsMoveTo
  <1> HIDE DEF g4
  <1>11. CASE graph' = g4 /\ open' = Below
    <2>1. StackMoves(S, T)
      BY <1>2, <1>11, MovesPop
    <2>2. EdgeStep(S, T)
      BY <1>2, <1>5, <1>6, <1>10, <1>11, <2>1, AddsStep
    <2>. QED BY <2>2, EdgesKept
  <1>. QED BY <1>1, <1>11, EdgesCrash

LEMMA WhileStartsEdges == ASSUME Typed, Typed', HandlersNest, Edges, WhileStarts PROVE Edges'
  <1> DEFINE k  == Size(graph)
             c  == graph.cur
             S  == Onward
             T  == Newer(graph)
             g1 == Create(graph, 3)
             g2 == Emit(g1, To("br", <<>>, <<k + 2>>))
             g3 == MoveTo(g2, k + 1)
             f  == [Running("while", "body", This) EXCEPT !.base = k, !.from = c]
  <1>1. mode = "statement" /\ graph' = g3 /\ open' = Append(open, f)
    BY DEF WhileStarts, Starts, Push
  <1>2. Active
    BY <1>1 DEF Active
  <1>3. f.op = "while" /\ f.part = "body" /\ f.base = k
    <2> HIDE DEF k, c
    <2>. QED BY DEF Running
  <1> HIDE DEF f
  <1>4. IsNew(f, T)
    BY <1>3 DEF IsNew, Rescuing, InEnsure
  <1>5. /\ Adds(graph, graph, S, T, k, c) /\ S \subseteq Sources /\ T \subseteq Targets
        /\ c \in 1 .. k /\ k \in Nat /\ c \in S /\ k + 1 \in S /\ k + 2 \in T
    BY RunsFrom, NewBlocks DEF Onward
  <1>6. StackMoves(S, T)
    BY <1>1, <1>4, MovesPush DEF Onward
  <1> HIDE DEF k, c, S, T
  <1>7. Adds(graph, g1, S, T, k + 3, c) /\ c \in 1 .. k + 3 /\ k + 1 \in Int
    BY <1>5, AddsCreate
  <1> HIDE DEF g1
  <1>8. Adds(graph, g2, S, T, k + 3, c)
    BY <1>5, <1>7, IntoOf, AddsEmit
  <1> HIDE DEF g2
  <1>9. Adds(graph, g3, S, T, k + 3, k + 1)
    BY <1>7, <1>8, AddsMoveTo
  <1> HIDE DEF g3
  <1>10. EdgeStep(S, T)
    BY <1>1, <1>2, <1>5, <1>6, <1>9, AddsStep
  <1>. QED BY <1>10, EdgesKept

LEMMA WhileBodyEdges == ASSUME Typed, Typed', HandlersNest, Edges, WhileBody PROVE Edges'
  <1> DEFINE k  == Size(graph)
             c  == graph.cur
             b  == Top.base
             S  == {c, b + 2}
             T  == {b + 2}
             id == <<Top.stmt, "value">>
             x  == <<Top.stmt, "entry">>
             y  == Top.from
             g1 == Emit(graph, To("br", <<>>, <<b + 2>>))
             g2 == MoveTo(g1, b + 2)
             g3 == AddIncoming(g2, b + 2, id, x, y)
             g4 == AddIncoming(g3, b + 2, id, value, c)
             g5 == Emit(g4, Instr("load", x, <<>>))
             t  == Top
             args == <<value>>
             f  == [t EXCEPT !.part = "condition", !.args = args]
  <1>1. /\ Has("while", "body")
        /\ mode' = "crashed" \/ (graph' = g5 /\ open' = Append(Below, f))
    BY DEF WhileBody, Crashes, TopIs
  <1>2. Active /\ open # <<>> /\ HasBlocks(Top) /\ t.op = "while" /\ t \in FramesOf(Len(program))
    BY <1>1, TypedParts DEF Has, Active, HasBlocks
  <1>3. f.op = "while" /\ f.part = "condition" /\ f.base = b
    <2>1. t.base = b
      OBVIOUS
    <2> HIDE DEF args, t, b
    <2>. QED BY <1>2, <2>1 DEF FramesOf
  <1> HIDE DEF f
  <1>4. MovesOn(f)
    BY <1>2, <1>3 DEF MovesOn, HasBlocks, Rescuing, InEnsure
  <1>5. S \subseteq Sources /\ T \subseteq Targets
    BY <1>2, AtTop
  <1>6. Adds(graph, graph, S, T, k, c) /\ c \in 1 .. k /\ b \in Int /\ b + 2 \in 1 .. k /\ c \in S /\ b + 2 \in S /\ b + 2 \in T
    BY <1>2, AtTop, EdgeTypes, AddsNothing, TypedParts
  <1> HIDE DEF t, k, c, b, S, T, id, x, y, args
  <1>7. Adds(graph, g1, S, T, k, c)
    BY <1>6, IntoOf, AddsEmit
  <1> HIDE DEF g1
  <1>8. Adds(graph, g2, S, T, k, b + 2)
    BY <1>6, <1>7, AddsMoveTo
  <1> HIDE DEF g2
  <1>9. Adds(graph, g3, S, T, k, b + 2)
    BY <1>6, <1>8, AddsAddIncoming
  <1> HIDE DEF g3
  <1>10. Adds(graph, g4, S, T, k, b + 2)
    BY <1>6, <1>9, AddsAddIncoming
  <1> HIDE DEF g4
  <1>11. Adds(graph, g5, S, T, k, b + 2)
    BY <1>6, <1>10, IntoOf, AddsEmit
  <1> HIDE DEF g5
  <1>12. CASE graph' = g5 /\ open' = Append(Below, f)
    <2>1. StackMoves(S, T)
      BY <1>2, <1>4, <1>12, MovesTop
    <2>2. EdgeStep(S, T)
      BY <1>2, <1>5, <1>6, <1>11, <1>12, <2>1, AddsStep
    <2>. QED BY <2>2, EdgesKept
  <1>. QED BY <1>1, <1>12, EdgesCrash

LEMMA WhileConditionEdges == ASSUME Typed, Typed', HandlersNest, Edges, WhileCondition PROVE Edges'
  <1> DEFINE k  == Size(graph)
             c  == graph.cur
             b  == Top.base
             S  == {c, b + 3}
             T  == {b + 1, b + 3}
             g1 == Emit(graph, To("cond", <<value>>, <<b + 1, b + 3>>))
             g2 == MoveTo(g1, b + 3)
  <1>1. /\ Has("while", "condition")
        /\ mode' = "crashed" \/ (graph' = g2 /\ open' = Below)
    BY DEF WhileCondition, Crashes
  <1>2. Active /\ open # <<>> /\ HasBlocks(Top) /\ Top.op = "while"
    BY <1>1 DEF Has, Active, HasBlocks
  <1>5. S \subseteq Sources /\ T \subseteq Targets
    BY <1>2, AtTop
  <1>6. Adds(graph, graph, S, T, k, c) /\ c \in 1 .. k /\ b \in Int /\ b + 3 \in Int /\ c \in S /\ b + 3 \in S /\ b + 1 \in T /\ b + 3 \in T
    BY <1>2, AtTop, EdgeTypes, AddsNothing, TypedParts
  <1> HIDE DEF k, c, b, S, T
  <1>7. Adds(graph, g1, S, T, k, c)
    BY <1>6, IntoOf, AddsEmit
  <1> HIDE DEF g1
  <1>8. Adds(graph, g2, S, T, k, b + 3)
    BY <1>6, <1>7, AddsMoveTo
  <1> HIDE DEF g2
  <1>9. CASE graph' = g2 /\ open' = Below
    <2>1. StackMoves(S, T)
      BY <1>2, <1>9, MovesPop
    <2>2. EdgeStep(S, T)
      BY <1>2, <1>5, <1>6, <1>8, <1>9, <2>1, AddsStep
    <2>. QED BY <2>2, EdgesKept
  <1>. QED BY <1>1, <1>9, EdgesCrash

\* codegenExceptionalBlock.
LEMMA Rescued ==
  ASSUME Typed, Edges, Active, open # <<>>, Rescuing(Top)
  PROVE  /\ Pad(Top) \in DonePads(graph) /\ HasBlocks(Top) /\ Top.op = "begin"
         /\ {Top.from, Top.handler} \subseteq Sources /\ Top.from \in Int /\ Top.handler \in Int
         /\ Ensure(Top) \in Targets /\ Ensure(Top) \in 1 .. Size(graph)
  <1>1. HasBlocks(Top) /\ Top.op = "begin"
    BY DEF Rescuing, HasBlocks
  <1>2. Len(open) \in DOMAIN open /\ Top = open[Len(open)]
    BY StackBlocks
  <1>3. Pad(Top) \in DonePads(graph)
    BY <1>2 DEF Edges, EdgesAre, Padded
  <1>4. {Top.from, Top.handler} \subseteq Recorded(Top)
    BY DEF Recorded
  <1>5. Ensure(Top) \in Own(Top) /\ Own(Top) \subseteq 1 .. Size(graph) /\ Ensure(Top) \in Targets
    BY <1>1, AtTop DEF Own, Ensure
  <1>6. {Top.from, Top.handler} \subseteq Sources /\ {Top.from, Top.handler} \subseteq 1 .. Size(graph)
    BY <1>1, <1>4, AtTop
  <1>. QED BY <1>1, <1>3, <1>5, <1>6

LEMMA RescuingMoves ==
  ASSUME Typed, Edges, Active, open # <<>>, Rescuing(Top), NEW f, Rescuing(f), f.base = Top.base,
         open' = Append(Below, f), graph'.begins = graph.begins, NEW S, NEW T
  PROVE  StackMoves(S, T)
  <1>1. Pad(Top) \in DonePads(graph) /\ HasBlocks(Top) /\ Top.op = "begin"
    BY Rescued
  <1>2. Pad(f) = Pad(Top) /\ DonePads(graph') = DonePads(graph)
    BY DEF Pad, DonePads
  <1>3. MovesOn(f)
    BY <1>1, <1>2 DEF MovesOn, HasBlocks, Rescuing, InEnsure
  <1>. QED BY <1>3, MovesTop

LEMMA BeginStartsEdges ==
  ASSUME Typed, Typed', HandlersNest, Edges, NEW rescues, NEW ensured, BeginStarts(rescues, ensured)
  PROVE  Edges'
  <1> DEFINE k  == Size(graph)
             c  == graph.cur
             S  == {c}
             g1 == Create(graph, 3)
             r  == Running("begin", "main", This)
             f  == [r EXCEPT !.base = k, !.rescues = rescues, !.optional = ensured]
  <1>1. mode = "statement" /\ open' = Append(open, f) /\ graph' = g1
    BY DEF BeginStarts, Starts, Push
  <1>2. Active /\ S \subseteq Sources
    BY <1>1 DEF Active, Sources
  <1>3. f.op = "begin" /\ f.part = "main" /\ f.base = k
    <2>1. r \in [op : {"begin"}, part : {"main"}, stmt : {r.stmt}, left : {r.left}, optional : {r.optional}, base : {r.base},
                 from : {r.from}, args : {r.args}, rescues : {r.rescues}, handler : {r.handler}]
      BY DEF Running
    <2> HIDE DEF k, r
    <2>. QED BY <2>1
  <1> HIDE DEF f, r
  <1>4. IsNew(f, {})
    BY <1>3 DEF IsNew, Rescuing, InEnsure
  <1>5. StackMoves(S, {})
    BY <1>1, <1>4, MovesPush
  <1>6. Adds(graph, graph, S, {}, k, c) /\ c \in S
    BY EdgeTypes, AddsNothing
  <1> HIDE DEF k, c, S
  <1>7. Adds(graph, g1, S, {}, k + 3, c)
    BY <1>6, AddsCreate
  <1> HIDE DEF g1
  <1>8. EdgeStep(S, {})
    BY <1>1, <1>2, <1>5, <1>6, <1>7, AddsStep
  <1>. QED BY <1>8, EdgesKept

LEMMA BeginMainEdges == ASSUME Typed, Typed', HandlersNest, Edges, BeginMain PROVE Edges'
  <1> DEFINE k  == Size(graph)
             c  == graph.cur
             t  == Top
             e  == Ensure(Top)
             S  == {c, e}
             T  == {e}
             g1 == Emit(graph, To("br", <<>>, <<e>>))
             g2 == Joins(g1, Top, value, False, c)
             g3 == MoveTo(g2, e)
             f  == [t EXCEPT !.part = "ensure"]
  <1>1. Has("begin", "main") /\ open' = Append(Below, f) /\ graph' = g3
    BY DEF BeginMain, TopIs
  <1>2. Active /\ open # <<>> /\ HasBlocks(Top) /\ t.op = "begin" /\ t \in FramesOf(Len(program))
    BY <1>1, TypedParts DEF Has, Active, HasBlocks
  <1>3. f.op = "begin" /\ f.part = "ensure" /\ f.base = t.base
    <2> HIDE DEF t
    <2>. QED BY <1>2 DEF FramesOf
  <1> HIDE DEF f
  <1>4. S \subseteq Sources /\ T \subseteq Targets /\ e \in 1 .. k
    <2>1. e \in Own(Top)
      BY <1>2 DEF Own, Ensure
    <2>. QED BY <1>2, <2>1, AtTop
  <1>5. Adds(graph, graph, S, T, k, c) /\ c \in 1 .. k /\ c \in S /\ e \in S /\ e \in T /\ e \in Int
    BY <1>2, <1>4, EdgeTypes, AddsNothing, TypedParts
  <1>6. Ensure(f) = e
    BY <1>3 DEF Ensure
  <1> HIDE DEF k, c, S, T, e
  <1>7. Adds(graph, g1, S, T, k, c)
    BY <1>5, IntoOf, AddsEmit
  <1> HIDE DEF g1
  <1>8. Adds(graph, g2, S, T, k, c)
    BY <1>4, <1>7, AddsJoins DEF e
  <1> HIDE DEF g2
  <1>9. Adds(graph, g3, S, T, k, e)
    BY <1>5, <1>8, AddsMoveTo
  <1> HIDE DEF g3
  <1>10. MovesOn(f)
    <2>1. Size(graph') = Size(graph) /\ graph'.cur = Ensure(f)
      BY <1>1, <1>6, <1>9 DEF Adds, k
    <2>. QED BY <1>2, <1>3, <2>1 DEF MovesOn, HasBlocks, Rescuing
  <1>11. StackMoves(S, T)
    BY <1>1, <1>2, <1>10, MovesTop
  <1>12. EdgeStep(S, T)
    BY <1>1, <1>2, <1>4, <1>5, <1>9, <1>11, AddsStep
  <1>. QED BY <1>12, EdgesKept

LEMMA RescueAnyEdges == ASSUME Typed, Typed', HandlersNest, Edges, RescueAny PROVE Edges'
  <1> DEFINE t  == Top
             f  == [t EXCEPT !.part = "clause", !.optional = TRUE]
             S  == Onward
             T  == Newer(graph)
  <1>1. /\ mode = "value" /\ open # <<>> /\ t.op = "begin" /\ t.part = "rescue"
        /\ open' = Append(Below, f) /\ graph' = Catch(graph, Head(Top.rescues))
    BY DEF RescueAny, RescueIs, TopIs, Catches
  <1>2. Active /\ Rescuing(Top) /\ t \in FramesOf(Len(program))
    BY <1>1, TypedParts DEF Active, Rescuing
  <1>3. Rescuing(f) /\ f.base = t.base
    <2> HIDE DEF t
    <2>1. f.op = "begin" /\ f.part = "clause" /\ f.base = t.base
      BY <1>1, <1>2 DEF FramesOf
    <2>. QED BY <2>1 DEF Rescuing
  <1> HIDE DEF f
  <1>4. Runs(graph, graph, S, T) /\ S \subseteq Sources /\ T \subseteq Targets
    BY RunsFrom
  <1> HIDE DEF S, T
  <1>5. Runs(graph, graph', S, T)
    BY <1>1, <1>4, RunsCatch
  <1>6. graph'.begins = graph.begins
    BY <1>5 DEF Runs, Adds
  <1>7. StackMoves(S, T)
    BY <1>1, <1>2, <1>3, <1>6, RescuingMoves
  <1>8. EdgeStep(S, T)
    BY <1>2, <1>4, <1>5, <1>7, RunsStep
  <1>. QED BY <1>8, EdgesKept

LEMMA RescueTypedEdges == ASSUME Typed, Typed', HandlersNest, Edges, RescueTyped PROVE Edges'
  <1> DEFINE t  == Top
             f  == [t EXCEPT !.part = "class"]
             S  == Onward
             T  == Newer(graph)
  <1>1. /\ mode = "value" /\ open # <<>> /\ t.op = "begin" /\ t.part = "rescue"
        /\ open' = Append(Below, f) /\ graph' = graph
    BY DEF RescueTyped, RescueIs, TopIs
  <1>2. Active /\ Rescuing(Top) /\ t \in FramesOf(Len(program))
    BY <1>1, TypedParts DEF Active, Rescuing
  <1>3. Rescuing(f) /\ f.base = t.base
    <2> HIDE DEF t
    <2>1. f.op = "begin" /\ f.part = "class" /\ f.base = t.base
      BY <1>1, <1>2 DEF FramesOf
    <2>. QED BY <2>1 DEF Rescuing
  <1> HIDE DEF f
  <1>4. Runs(graph, graph', S, T) /\ S \subseteq Sources /\ T \subseteq Targets
    BY <1>1, RunsFrom
  <1> HIDE DEF S, T
  <1>7. StackMoves(S, T)
    BY <1>1, <1>2, <1>3, RescuingMoves
  <1>8. EdgeStep(S, T)
    BY <1>2, <1>4, <1>7, RunsStep
  <1>. QED BY <1>8, EdgesKept

LEMMA RescueClassEdges == ASSUME Typed, Typed', HandlersNest, Edges, RescueClass PROVE Edges'
  <1> DEFINE k  == Size(graph)
             c  == graph.cur
             S  == Onward
             T  == Newer(graph)
             t  == Top
             compare == <<This, "compared">>
             args == <<value, Top.args[1]>>
             g1 == Create(graph, 2)
             g2 == Emit(g1, To("cond", <<value>>, <<k + 1 + 1, k + 1>>))
             g3 == EmitAt(g2, k + 1, To("unreachable", <<>>, <<>>))
             g4 == MoveTo(g3, k + 1 + 1)
             g5 == LangCall(g4, compare, args)
             m  == Size(g5) + 1
             g6 == Create(g5, 2)
             g7 == Emit(g6, To("cond", <<compare>>, <<m, m + 1>>))
             g8 == MoveTo(g7, m)
             g9 == Catch(g8, Head(Top.rescues))
             x  == m + 1
             f  == [t EXCEPT !.part = "clause", !.handler = x]
  <1>1. /\ mode = "value" /\ open # <<>> /\ t.op = "begin" /\ t.part = "class"
        /\ \/ mode' = "crashed"
           \/ open' = Append(Below, f) /\ graph' = g9
    BY DEF RescueClass, RescueIs, TopIs, Catches
  <1>2. Active /\ Rescuing(Top) /\ t \in FramesOf(Len(program))
    BY <1>1, TypedParts DEF Active, Rescuing
  <1>3. Rescuing(f) /\ f.base = t.base
    <2> HIDE DEF t, x
    <2>1. f.op = "begin" /\ f.part = "clause" /\ f.base = t.base
      BY <1>1, <1>2 DEF FramesOf
    <2>. QED BY <2>1 DEF Rescuing
  <1> HIDE DEF f, compare, args, t
  <1>4. /\ Adds(graph, graph, S, T, k, c) /\ S \subseteq Sources /\ T \subseteq Targets
        /\ c \in 1 .. k /\ k \in Nat /\ c \in S /\ {k + 1, k + 2} \subseteq S /\ {k + 1, k + 2} \subseteq T
    BY RunsFrom, NewBlocks DEF Onward
  <1>5. /\ k + 1 + 1 = k + 2 /\ k + 1 \in 1 .. k + 2 /\ c \in 1 .. k + 2 /\ k + 2 \in 1 .. k + 2
        /\ Newer(graph) \subseteq S /\ Newer(graph) \subseteq T
    BY <1>4 DEF Onward
  <1>6. \A l \in Nat : k <= l => {l + 1, l + 2} \subseteq S /\ {l + 1, l + 2} \subseteq T
    BY <1>4 DEF Newer, Onward
  <1>7. Size(graph) = k
    OBVIOUS
  <1> HIDE DEF k, c, S, T
  <1>8. Adds(graph, g1, S, T, k + 2, c)
    BY <1>4, AddsCreate
  <1> HIDE DEF g1
  <1>9. Adds(graph, g2, S, T, k + 2, c)
    BY <1>4, <1>5, <1>8, IntoOf, AddsEmit
  <1> HIDE DEF g2
  <1>10. Adds(graph, g3, S, T, k + 2, c)
    BY <1>4, <1>5, <1>9, IntoOf, AddsEmitAt
  <1> HIDE DEF g3
  <1>11. Adds(graph, g4, S, T, k + 2, k + 2)
    BY <1>5, <1>10, AddsMoveTo
  <1> HIDE DEF g4
  <1>12. Runs(graph, g4, S, T)
    BY <1>4, <1>5, <1>11 DEF Runs
  <1>13. Runs(graph, g5, S, T)
    BY <1>12, RunsLangCall
  <1> HIDE DEF g5
  <1>14. PICK l, d : Adds(graph, g5, S, T, l, d) /\ d \in S /\ d \in 1 .. l
    BY <1>13 DEF Runs
  <1>15. m = l + 1 /\ l \in Nat /\ k <= l
    BY <1>7, <1>14 DEF Adds
  <1>16. /\ {l + 1, l + 2} \subseteq S /\ {l + 1, l + 2} \subseteq T /\ m + 1 = l + 2
         /\ d \in 1 .. l + 2 /\ l + 1 \in 1 .. l + 2
    BY <1>6, <1>14, <1>15
  <1>17. Adds(graph, g6, S, T, l + 2, d)
    BY <1>14, AddsCreate
  <1> HIDE DEF g6, m
  <1>18. Adds(graph, g7, S, T, l + 2, d)
    BY <1>14, <1>15, <1>16, <1>17, IntoOf, AddsEmit
  <1> HIDE DEF g7
  <1>19. Adds(graph, g8, S, T, l + 2, l + 1)
    BY <1>15, <1>16, <1>18, AddsMoveTo
  <1> HIDE DEF g8
  <1>20. Runs(graph, g8, S, T)
    BY <1>5, <1>16, <1>19 DEF Runs
  <1>21. Runs(graph, g9, S, T)
    BY <1>20, RunsCatch
  <1> HIDE DEF g9
  <1>22. CASE open' = Append(Below, f) /\ graph' = g9
    <2>1. graph'.begins = graph.begins
      BY <1>21, <1>22 DEF Runs, Adds
    <2>2. StackMoves(S, T)
      BY <1>1, <1>2, <1>3, <1>22, <2>1, RescuingMoves DEF t
    <2>3. EdgeStep(S, T)
      BY <1>2, <1>4, <1>21, <1>22, <2>2, RunsStep
    <2>. QED BY <2>3, EdgesKept
  <1>. QED BY <1>1, <1>22, EdgesCrash

LEMMA RescueClauseEdges == ASSUME Typed, Typed', HandlersNest, Edges, RescueClause PROVE Edges'
  <1> DEFINE k  == Size(graph)
             t  == Top
             h  == Top.handler
             e  == Ensure(Top)
             S  == Onward \cup {h}
             T  == Newer(graph) \cup {e}
             g1 == EndCatch
             v  == EndCatch.cur
             g2 == Joins(g1, Top, value, False, v)
             g3 == Emit(g2, To("br", <<>>, <<e>>))
             g4 == MoveTo(g3, h)
             x  == Tail(t.rescues)
             f  == [t EXCEPT !.part = "rescue", !.rescues = x]
  <1>1. /\ mode = "value" /\ open # <<>> /\ t.op = "begin" /\ t.part = "clause"
        /\ open' = Append(Below, f) /\ graph' = g4
    BY DEF RescueClause, Has, TopIs
  <1>2. Active /\ Rescuing(Top) /\ t \in FramesOf(Len(program))
    BY <1>1, TypedParts DEF Active, Rescuing
  <1>3. Rescuing(f) /\ f.base = t.base
    <2> HIDE DEF t, x
    <2>1. f.op = "begin" /\ f.part = "rescue" /\ f.base = t.base
      BY <1>1, <1>2 DEF FramesOf
    <2>. QED BY <2>1 DEF Rescuing
  <1> HIDE DEF f, t
  <1>4. h \in Sources /\ h \in Int /\ e \in Targets /\ e \in 1 .. k
    BY <1>1, <1>2, Rescued
  <1>5. Runs(graph, graph, S, T) /\ S \subseteq Sources /\ T \subseteq Targets /\ h \in S /\ e \in T
    BY <1>4, RunsFrom
  <1>6. Size(graph) = k
    OBVIOUS
  <1> HIDE DEF k, h, S, T
  <1>7. Runs(graph, g1, S, T)
    BY <1>5, RunsLangCall DEF EndCatch
  <1>8. PICK l, d : Adds(graph, g1, S, T, l, d) /\ d \in S /\ d \in 1 .. l
    BY <1>7 DEF Runs
  <1>9. l \in Nat /\ k <= l /\ k \in Int
    BY <1>6, <1>8 DEF Adds
  <1>10. e \in 1 .. l
    BY <1>4, <1>9
  <1> HIDE DEF g1, v
  <1>11. Adds(graph, g2, S, T, l, d)
    BY <1>8, <1>10, AddsJoins
  <1> HIDE DEF g2, e
  <1>12. Adds(graph, g3, S, T, l, d)
    BY <1>5, <1>8, <1>11, IntoOf, AddsEmit
  <1> HIDE DEF g3
  <1>13. Adds(graph, g4, S, T, l, h)
    BY <1>4, <1>12, AddsMoveTo
  <1> HIDE DEF g4
  <1>14. StackMoves(S, T)
    <2>1. graph'.begins = graph.begins
      BY <1>1, <1>13 DEF Adds
    <2>. QED BY <1>1, <1>2, <1>3, <2>1, RescuingMoves DEF t
  <1>15. EdgeStep(S, T)
    BY <1>1, <1>2, <1>5, <1>13, <1>14, AddsStep
  <1>. QED BY <1>15, EdgesKept

LEMMA BeginFinishEdges == ASSUME Typed, Typed', HandlersNest, Edges, BeginFinish PROVE Edges'
  <1> DEFINE k  == Size(graph)
             c  == graph.cur
             e  == Ensure(Top)
             x  == Top.from
             h  == Top.handler
             S  == {c, x}
             T  == {e}
             g1 == Joins(graph, Top, NullPtr, True, h)
             g2 == Emit(g1, To("br", <<>>, <<e>>))
             g3 == IF Top.optional THEN graph ELSE g2
             g4 == MoveTo(g3, x)
  <1>1. /\ mode = "value" /\ open # <<>> /\ Top.op = "begin" /\ Top.part = "rescue"
        /\ open' = Below /\ graph' = g4
    BY DEF BeginFinish, Has
  <1>2. Active /\ Rescuing(Top)
    BY <1>1 DEF Active, Rescuing
  <1>3. /\ Pad(Top) \in DonePads(graph) /\ x \in Sources /\ x \in Int /\ e \in Targets /\ e \in 1 .. k
    BY <1>1, <1>2, Rescued
  <1>4. Adds(graph, graph, S, T, k, c) /\ c \in 1 .. k /\ c \in S /\ x \in S /\ e \in T
    BY EdgeTypes, AddsNothing, TypedParts
  <1>5. S \subseteq Sources /\ T \subseteq Targets
    BY <1>3 DEF Sources
  <1> HIDE DEF k, c, S, T, x, h
  <1>6. Adds(graph, g1, S, T, k, c)
    BY <1>3, <1>4, AddsJoins
  <1> HIDE DEF g1, e
  <1>7. Adds(graph, g2, S, T, k, c)
    BY <1>4, <1>6, IntoOf, AddsEmit
  <1> HIDE DEF g2
  <1>8. Adds(graph, g3, S, T, k, c)
    BY <1>4, <1>7
  <1> HIDE DEF g3
  <1>9. Adds(graph, g4, S, T, k, x)
    BY <1>3, <1>8, AddsMoveTo
  <1> HIDE DEF g4
  <1>10. StackMoves(S, T)
    <2>1. DonePads(graph') = DonePads(graph)
      BY <1>1, <1>9 DEF Adds, DonePads
    <2>. QED BY <1>1, <1>3, <2>1, MovesPop
  <1>11. EdgeStep(S, T)
    BY <1>1, <1>2, <1>4, <1>5, <1>9, <1>10, AddsStep
  <1>. QED BY <1>11, EdgesKept

LEMMA FinishEdges == ASSUME Typed, Typed', HandlersNest, Edges, Finish PROVE Edges'
  <1> DEFINE k == Size(graph)
             c == graph.cur
             S == {c}
             g == Emit(graph, To("ret", <<value>>, <<>>))
  <1>1. mode = "value" /\ open = <<>> /\ open' = open /\ graph' = g
    BY DEF Finish
  <1>2. Adds(graph, graph, S, {}, k, c) /\ c \in 1 .. k /\ c \in S /\ S \subseteq Sources
    BY EdgeTypes, AddsNothing, TypedParts DEF Sources
  <1>3. StackMoves(S, {})
    BY <1>1 DEF StackMoves, Stays
  <1> HIDE DEF k, c, S
  <1>4. Adds(graph, g, S, {}, k, c)
    BY <1>2, IntoOf, AddsEmit
  <1> HIDE DEF g
  <1>5. EdgeStep(S, {})
    BY <1>1, <1>2, <1>3, <1>4, AddsStep DEF Active
  <1>. QED BY <1>5, EdgesKept

\* What BeginEnsure adds: the finish is come to from the ensure alone, the handler and the
\* rethrow from the landing pad.
RecordOf(f, k) == [pad |-> Pad(f), ensure |-> Ensure(f), rethrow |-> Rethrow(f), finish |-> k + 1]
EnsureAdds(h) ==
  LET k == Size(graph)
      c == graph.cur
  IN  /\ h.begins = graph.begins \cup {RecordOf(Top, k)}
      /\ Size(h) \in Nat /\ k + 2 <= Size(h) /\ h.cur \in Int /\ k + 2 <= h.cur
      /\ \A a, b : Jumps(h, a, b) =>
           \/ Jumps(graph, a, b)
           \/ a = c /\ b \in {Rethrow(Top), k + 1}
           \/ a \in {Pad(Top), Rethrow(Top)} /\ b \in {k + 2, Rethrow(Top)}
           \/ a \in Int /\ k + 2 <= a /\ b \in Int /\ k + 2 < b
      /\ \A a, b : Throws(h, a, b) =>
           \/ Throws(graph, a, b)
           \/ (a \in {c, Pad(Top), Rethrow(Top)} \/ (a \in Int /\ k + 2 <= a)) /\ b \in MainPads

LEMMA EnsureGraph ==
  ASSUME Typed, HandlersNest, BeginEnsure
  PROVE  EnsureAdds(graph')
  <1> DEFINE k  == Size(graph)
             c  == graph.cur
             p  == Pad(Top)
             q  == Rethrow(Top)
             token     == <<Top.stmt, "token">>
             exception == <<Top.stmt, "exception">>
             flags     == <<<<Top.stmt, "flag">>>>
             r  == RecordOf(Top, k)
             g1 == Create(graph, 2)
             g2 == Emit(g1, To("cond", flags, <<q, k + 1>>))
             g3 == EmitAt(g2, p, Instr("landingpad", token, <<>>))
             g4 == EmitAt(g3, p, To("cond", <<False>>, <<k + 2, q>>))
             g5 == EmitAt(g4, q, To("resume", <<token>>, <<>>))
             g6 == [g5 EXCEPT !.begins = @ \cup {r}]
             g7 == MoveTo(g6, k + 2)
             g8 == IF Top.rescues = <<>> THEN g7 ELSE LangCall(g7, exception, <<token>>)
             S1 == {c}
             T1 == {q, k + 1}
             S2 == {p, q}
             T2 == {k + 2, q}
  <1>1. Has("begin", "ensure") /\ graph' = g8
    BY DEF BeginEnsure, RecordOf
  <1>2. open # <<>> /\ HasBlocks(Top) /\ Top.op = "begin"
    BY <1>1 DEF Has, HasBlocks
  <1>3. k \in Nat /\ p \in 1 .. k /\ q \in 1 .. k /\ c \in 1 .. k
    <2>1. p \in Own(Top) /\ q \in Own(Top)
      BY <1>2 DEF Own, Pad, Rethrow
    <2>. QED BY <1>2, <2>1, AtTop, TypedParts
  <1>4. Adds(graph, graph, S1, T1, k, c) /\ q \in T1 /\ k + 1 \in T1 /\ c \in S1 /\ k + 2 \in T2 /\ q \in T2 /\ p \in S2 /\ q \in S2
    BY EdgeTypes, AddsNothing
  <1>5. p \in 1 .. k + 2 /\ q \in 1 .. k + 2 /\ c \in 1 .. k + 2 /\ k + 2 \in 1 .. k + 2 /\ k + 2 \in Int
    BY <1>3
  <1> HIDE DEF k, c, p, q, r, token, exception, flags, S1, T1, S2, T2
  <1>6. Adds(graph, g1, S1, T1, k + 2, c)
    BY <1>4, AddsCreate
  <1> HIDE DEF g1
  <1>7. Adds(graph, g2, S1, T1, k + 2, c)
    BY <1>4, <1>5, <1>6, IntoOf, AddsEmit
  <1> HIDE DEF g2
  <1>8. Adds(g2, g2, S2, T2, k + 2, c)
    <2>1. Shaped(g2) /\ Size(g2) = k + 2 /\ g2.cur = c
      BY <1>7 DEF Adds
    <2>. QED BY <2>1, AddsNothing
  <1>9. Adds(g2, g3, S2, T2, k + 2, c)
    <2>1. EndsInto(Instr("landingpad", token, <<>>), p, S2, T2)
      BY IntoOf
    <2>. QED BY <1>5, <1>8, <2>1, AddsEmitAt
  <1> HIDE DEF g3
  <1>10. Adds(g2, g4, S2, T2, k + 2, c)
    <2>1. EndsInto(To("cond", <<False>>, <<k + 2, q>>), p, S2, T2)
      BY <1>4, IntoOf
    <2>. QED BY <1>5, <1>9, <2>1, AddsEmitAt
  <1> HIDE DEF g4
  <1>11. Adds(g2, g5, S2, T2, k + 2, c)
    <2>1. EndsInto(To("resume", <<token>>, <<>>), q, S2, T2)
      BY <1>4, IntoOf
    <2>. QED BY <1>5, <1>10, <2>1, AddsEmitAt
  <1> HIDE DEF g5
  <1>12. Shaped(g6) /\ g6.blocks = g5.blocks /\ g6.begins = g5.begins \cup {r}
    <2>1. PICK C, P, B : g5 \in [blocks : Seq([code : Seq(C), phi : SUBSET P]), cur : Int, begins : SUBSET B]
      BY <1>11 DEF Adds, Shaped
    <2>2. g6 \in [blocks : Seq([code : Seq(C), phi : SUBSET P]), cur : Int, begins : SUBSET (B \cup {r})]
      BY <2>1
    <2>. QED BY <2>1, <2>2 DEF Shaped
  <1> HIDE DEF g6
  <1>13. Shaped(g7) /\ g7.blocks = g5.blocks /\ g7.cur = k + 2 /\ g7.begins = g5.begins \cup {r}
    BY <1>5, <1>12, MoveToShaped
  <1> HIDE DEF g7
  <1>14. Size(g7) = k + 2 /\ g7.begins = graph.begins \cup {r}
    <2>1. Size(g5) = k + 2 /\ g5.begins = g2.begins /\ g2.begins = graph.begins
      BY <1>7, <1>11 DEF Adds
    <2>. QED BY <1>13, <2>1 DEF Size
  <1>15. \A a, b : (Jumps(g7, a, b) => Jumps(g5, a, b)) /\ (Throws(g7, a, b) => Throws(g5, a, b))
    BY <1>13 DEF Jumps, Throws, Size
  <1> DEFINE N == Newer(g7)
             S3 == {k + 2} \cup N
  <1>16. Runs(g7, g7, S3, N)
    <2>1. Adds(g7, g7, S3, N, k + 2, k + 2)
      <3>1. Adds(g7, g7, S3, N, Size(g7), g7.cur)
        BY <1>13, AddsNothing
      <3>. QED BY <1>13, <1>14, <3>1
    <2>. QED BY <1>5, <2>1 DEF Runs
  <1>17. \A a : (a \in N => a \in Int /\ k + 2 < a) /\ (a \in S3 => a \in Int /\ k + 2 <= a)
    BY <1>3, <1>14 DEF Newer
  <1> HIDE DEF S3, N
  <1>18. Runs(g7, g8, S3, N)
    BY <1>16, RunsLangCall
  <1> HIDE DEF g8
  <1>19. PICK l, d : Adds(g7, g8, S3, N, l, d) /\ d \in S3
    BY <1>18 DEF Runs
  <1>20. Size(g8) \in Nat /\ k + 2 <= Size(g8) /\ g8.cur \in Int /\ k + 2 <= g8.cur /\ g8.begins = graph.begins \cup {r}
    BY <1>14, <1>17, <1>19 DEF Adds
  <1>21. ASSUME NEW a, NEW b, Jumps(g8, a, b)
         PROVE  \/ Jumps(graph, a, b)
                \/ a = c /\ b \in {q, k + 1}
                \/ a \in {p, q} /\ b \in {k + 2, q}
                \/ a \in Int /\ k + 2 <= a /\ b \in Int /\ k + 2 < b
    <2>1. Jumps(g7, a, b) \/ (a \in S3 /\ b \in N)
      BY <1>19, <1>21 DEF Adds
    <2>2. Jumps(g5, a, b) => Jumps(g2, a, b) \/ (a \in S2 /\ b \in T2)
      BY <1>11 DEF Adds
    <2>3. Jumps(g2, a, b) => Jumps(graph, a, b) \/ (a \in S1 /\ b \in T1)
      BY <1>7 DEF Adds
    <2>. QED BY <1>15, <1>17, <2>1, <2>2, <2>3 DEF S1, T1, S2, T2
  <1>22. ASSUME NEW a, NEW b, Throws(g8, a, b)
         PROVE  \/ Throws(graph, a, b)
                \/ (a \in {c, p, q} \/ (a \in Int /\ k + 2 <= a)) /\ b \in MainPads
    <2>1. Throws(g7, a, b) \/ (a \in S3 /\ b \in MainPads)
      BY <1>19, <1>22 DEF Adds
    <2>2. Throws(g5, a, b) => Throws(g2, a, b) \/ (a \in S2 /\ b \in MainPads)
      BY <1>11 DEF Adds
    <2>3. Throws(g2, a, b) => Throws(graph, a, b) \/ (a \in S1 /\ b \in MainPads)
      BY <1>7 DEF Adds
    <2>. QED BY <1>15, <1>17, <2>1, <2>2, <2>3 DEF S1, S2
  <1>. QED BY <1>1, <1>20, <1>21, <1>22 DEF EnsureAdds, k, c, p, q, r

LEMMA BeginEnsureEdges == ASSUME Typed, Typed', HandlersNest, Edges, BeginEnsure PROVE Edges'
  <1> DEFINE k  == Size(graph)
             c  == graph.cur
             p  == Pad(Top)
             q  == Rethrow(Top)
             e  == Ensure(Top)
             t  == Top
             r  == RecordOf(Top, k)
             S  == {c, p, q} \cup Newer(graph)
             T  == {q} \cup Newer(graph)
             x1 == k + 1
             x2 == k + 2
             y  == <<<<Top.stmt, "exception">>>>
             f  == [t EXCEPT !.part = "rescue", !.from = x1, !.handler = x2, !.args = y, !.optional = FALSE]
  <1>1. Has("begin", "ensure") /\ open' = Append(Below, f)
    BY DEF BeginEnsure, TopIs
  <1>2. /\ Active /\ open # <<>> /\ HasBlocks(Top) /\ InEnsure(Top) /\ t.op = "begin" /\ t \in FramesOf(Len(program))
    BY <1>1, TypedParts DEF Has, Active, HasBlocks, InEnsure
  <1>3. f.op = "begin" /\ f.part = "rescue" /\ f.base = t.base
    <2> HIDE DEF t, x1, x2, y
    <2>. QED BY <1>2 DEF FramesOf
  <1> HIDE DEF f, t
  <1>4. EnsureAdds(graph')
    BY EnsureGraph
  <1>5. /\ graph'.begins = graph.begins \cup {r}
        /\ Size(graph') \in Nat /\ k + 2 <= Size(graph') /\ graph'.cur \in Int /\ k + 2 <= graph'.cur
    BY <1>4 DEF EnsureAdds
  <1>6. k \in Nat /\ p \in Own(Top) /\ q \in Own(Top) /\ {p, q} \subseteq Sources /\ q \in Targets /\ c \in 1 .. k
    <2>1. p \in Own(Top) /\ q \in Own(Top)
      BY <1>2 DEF Own, Pad, Rethrow
    <2>. QED BY <1>2, <2>1, AtTop, TypedParts
  <1>7. S \subseteq Sources /\ T \subseteq Targets
    BY <1>6 DEF Sources, Targets
  <1>8. ASSUME NEW b \in Int, k < b PROVE b \in S /\ b \in T
    BY <1>8 DEF Newer
  <1>9. k + 1 \in T /\ k + 2 \in T /\ (\A b \in Int : k + 2 <= b => b \in S /\ b \in T) /\ graph'.cur \in S
    BY <1>5, <1>6, <1>8
  <1>10. r.pad = p /\ r.ensure = e /\ r.finish = k + 1 /\ r \in graph'.begins
    BY <1>5 DEF RecordOf
  <1>11. MovesOn(f)
    <2>1. Pad(f) = p
      BY <1>3 DEF Pad, t
    <2>2. p \in DonePads(graph')
      BY <1>10 DEF DonePads
    <2>. QED BY <1>2, <1>3, <2>1, <2>2 DEF MovesOn, HasBlocks, Rescuing, InEnsure, t
  <1>12. StackMoves(S, T)
    BY <1>1, <1>2, <1>11, MovesTop
  <1>13. PICK n : EnsuringSince(graph, open, Len(open), n)
    BY <1>2, StackBlocks DEF Edges, EdgesAre, Ensuring
  <1>14. /\ n \in Int /\ Top.base + 3 <= n /\ n <= k /\ (c = e \/ c > n)
         /\ \A a, b : Enters(graph, a, b) /\ b > n => a = e \/ a > n
    BY <1>2, <1>13, StackBlocks DEF EnsuringSince
  <1>15. Top.base \in Int /\ Top.base >= 1 /\ e = Top.base + 2
    BY <1>2, AtTop DEF Ensure
  <1>16. ASSUME NEW i \in DOMAIN open, NEW b \in Own(open[i]) PROVE ~(n < b)
    <2>1. b \in Recorded(open[i]) /\ b <= open[i].base + 3 /\ b \in 1 .. k
      BY StackBlocks
    <2>2. CASE i = Len(open)
      BY <1>2, <1>14, <1>15, <2>1, <2>2, StackBlocks
    <2>3. CASE i # Len(open)
      <3>1. i < Len(open) /\ Len(open) \in DOMAIN open /\ Top = open[Len(open)]
        BY <1>2, <2>3, StackBlocks
      <3>2. b <= Top.base
        BY <1>2, <2>1, <3>1 DEF Edges, EdgesAre, Layered
      <3>. QED BY <1>14, <1>15, <2>1, <3>2
    <2>. QED BY <2>2, <2>3
  <1>17. ASSUME NEW b \in MainPads PROVE ~(n < b)
    <2>1. PICK i \in DOMAIN open : open[i].op = "begin" /\ b = Pad(open[i])
      BY PadsOfMain DEF PadsOf
    <2>2. b \in Own(open[i])
      BY <2>1 DEF Own, Pad, HasBlocks
    <2>. QED BY <1>16, <2>2
  <1>18. ~(n < q)
    BY <1>2, <1>6, <1>16, StackBlocks
  <1>19. \A a, b : Enters(graph, a, b) => a \in 1 .. k /\ b \in 1 .. k
    BY EdgeTypes
  <1>20. ASSUME NEW a, NEW b, Enters(graph', a, b), n < b, b <= k + 1
         PROVE  a = e \/ (n < a /\ a <= k + 1)
    <2>1. CASE Enters(graph, a, b)
      <3>1. a \in 1 .. k /\ (a = e \/ a > n)
        BY <1>14, <1>19, <1>20, <2>1
      <3>. QED BY <1>6, <1>14, <3>1
    <2>2. CASE a = c
      BY <1>6, <1>14, <2>2
    <2>3. CASE b = k + 2 \/ (b \in Int /\ k + 2 < b)
      BY <1>6, <1>20, <2>3
    <2>4. b # q /\ b \notin MainPads
      BY <1>17, <1>18, <1>20
    <2>5. \/ Enters(graph, a, b) \/ a = c \/ b = k + 2 \/ (b \in Int /\ k + 2 < b)
      BY <1>4, <1>20, <2>4 DEF EnsureAdds, Enters
    <2>. QED BY <2>1, <2>2, <2>3, <2>5
  <1>21. ASSUME NEW i \in DOMAIN open', NEW b \in Own(open'[i]) PROVE ~(n < b)
    <2>1. \/ i \in DOMAIN open /\ open'[i] = open[i]
          \/ open'[i] = f
      <3>1. PICK top \in Nat :
              /\ top = Len(open) /\ DOMAIN open = 1 .. top /\ top >= 1
              /\ DOMAIN Append(Below, f) = 1 .. top /\ Append(Below, f)[top] = f
              /\ \A j \in 1 .. top - 1 : Append(Below, f)[j] = open[j]
        BY <1>2, StackDomains
      <3>2. i = top \/ i \in 1 .. top - 1
        BY <1>1, <3>1
      <3>. QED BY <1>1, <3>1, <3>2
    <2>2. Own(f) = Own(Top)
      BY <1>2, <1>3 DEF Own, HasBlocks, t
    <2>. QED BY <1>2, <1>16, <2>1, <2>2, StackBlocks
  <1>22. EnsuredSince(graph', open', r, n)
    <2>1. 1 <= n /\ n < k + 1 /\ k + 1 <= Size(graph') /\ e # 1
      BY <1>5, <1>6, <1>14, <1>15
    <2>. QED BY <1>10, <1>14, <1>20, <1>21, <2>1 DEF EnsuredSince
  <1>23. \A a, b : Jumps(graph', a, b) => Jumps(graph, a, b) \/ (a \in S /\ b \in T)
    <2>1. p \in S /\ q \in S /\ c \in S /\ q \in T
      OBVIOUS
    <2>2. \A b \in Int : k + 2 < b => k + 2 <= b
      BY <1>6
    <2> HIDE DEF S, T
    <2>. QED BY <1>4, <1>9, <2>1, <2>2 DEF EnsureAdds
  <1>24. \A a, b : Throws(graph', a, b) => Throws(graph, a, b) \/ (a \in S /\ b \in MainPads)
    <2>1. p \in S /\ q \in S /\ c \in S
      OBVIOUS
    <2> HIDE DEF S, T
    <2>. QED BY <1>4, <1>9, <2>1 DEF EnsureAdds
  <1>25. k <= Size(graph')
    BY <1>5, <1>6
  <1>26. EdgeStep(S, T)
    <2> HIDE DEF S, T, r, p
    <2>1. \A w \in graph'.begins : w \notin graph.begins => w = r
      BY <1>5
    <2>2. graph.begins \subseteq graph'.begins
      BY <1>5
    <2>. QED BY <1>2, <1>7, <1>9, <1>10, <1>12, <1>22, <1>23, <1>24, <1>25, <2>1, <2>2 DEF EdgeStep, p, t
  <1>. QED BY <1>26, EdgesKept

-----------------------------------------------------------------------------
(* Where control can be.                                                   *)

LEMMA SmallestExists ==
  ASSUME NEW T \in SUBSET Nat, T # {}
  PROVE  \E x \in T : \A y \in T : x <= y
  <1> DEFINE Less == {ss \in Nat \X Nat : ss[1] < ss[2]}
  <1>1. IsWellFoundedOn(Less, Nat)
    BY NatLessThanWellFounded DEF OpToRel
  <1> HIDE DEF Less
  <1>2. PICK x \in T : \A y \in T : <<y, x>> \notin Less
    BY <1>1, WFMin
  <1>3. \A y \in T : ~(y < x)
    BY <1>2 DEF Less
  <1>. QED BY <1>2, <1>3

\* What is reached in K steps of some kind from a start.
Grown(V, first, step, K) == first \in V /\ step \in [V -> V] /\ K \in Nat
Grows(f, first, step, K) == f = [k \in 0 .. K |-> IF k = 0 THEN first ELSE step[f[k - 1]]]
LEMMA GrowthExists ==
  ASSUME NEW V, NEW first, NEW step, NEW K, Grown(V, first, step, K)
  PROVE  \E f \in [0 .. K -> V] : Grows(f, first, step, K)
  <1>1. first \in V /\ step \in [V -> V]
    BY DEF Grown
  <1> DEFINE Failing == {n \in Nat : ~ \E f \in [0 .. n -> V] : Grows(f, first, step, n)}
  <1>2. ASSUME NEW n \in Nat, NEW f \in [0 .. n -> V], Grows(f, first, step, n)
        PROVE  \E g \in [0 .. n + 1 -> V] : Grows(g, first, step, n + 1)
    <2> DEFINE g == [k \in 0 .. n + 1 |-> IF k = n + 1 THEN step[f[n]] ELSE f[k]]
    <2>1. g \in [0 .. n + 1 -> V]
      BY <1>1
    <2>2. ASSUME NEW k \in 0 .. n + 1 PROVE g[k] = IF k = 0 THEN first ELSE step[g[k - 1]]
      <3>1. CASE k = n + 1
        BY <3>1
      <3>2. CASE k \in 0 .. n
        <4>1. g[k] = f[k] /\ (k # 0 => k - 1 \in 0 .. n /\ g[k - 1] = f[k - 1])
          BY <3>2
        <4>. QED BY <1>2, <3>2, <4>1 DEF Grows
      <3>. QED BY <3>1, <3>2
    <2>3. g = [k \in 0 .. n + 1 |-> g[k]]
      OBVIOUS
    <2> HIDE DEF g
    <2>4. Grows(g, first, step, n + 1)
      BY <2>2, <2>3 DEF Grows
    <2>. QED BY <2>1, <2>4
  <1>3. 0 \notin Failing
    <2> DEFINE e == [k \in 0 .. 0 |-> first]
    <2>1. e \in [0 .. 0 -> V] /\ Grows(e, first, step, 0)
      BY <1>1 DEF Grows
    <2>. QED BY <2>1
  <1>4. Failing = {}
    <2> SUFFICES ASSUME Failing # {} PROVE FALSE
      OBVIOUS
    <2>1. Failing \in SUBSET Nat
      OBVIOUS
    <2>2. PICK n \in Failing : \A m \in Failing : n <= m
      <3> HIDE DEF Failing
      <3>. QED BY <2>1, SmallestExists
    <2>3. n \in Nat /\ n # 0
      BY <1>3, <2>1, <2>2
    <2>4. n - 1 \in Nat /\ n - 1 \notin Failing /\ n - 1 + 1 = n
      <3> HIDE DEF Failing
      <3>. QED BY <2>2, <2>3
    <2>5. PICK f \in [0 .. n - 1 -> V] : Grows(f, first, step, n - 1)
      BY <2>4
    <2>6. \E g \in [0 .. n -> V] : Grows(g, first, step, n)
      <3> HIDE DEF Failing
      <3>. QED BY <1>2, <2>4, <2>5
    <2>. QED BY <2>2, <2>6
  <1>5. K \in Nat
    BY DEF Grown
  <1>. QED BY <1>4, <1>5

\* If nothing leads out of a region but through the barred blocks, control stays in it.
LEMMA ReachedWithin ==
  ASSUME Size(graph) \in Nat, NEW barred, NEW R, {1} \ barred \subseteq R,
         \A b \in R : (Normal(b) \cup Unwinds(b)) \ barred \subseteq R
  PROVE  ReachedAvoiding(barred) \subseteq R
  <1> DEFINE K == Size(graph)
             V == SUBSET R
             Step(S) == S \cup ((UNION {Normal(b) \cup Unwinds(b) : b \in S}) \ barred)
             first == {1} \ barred
             step == [S \in V |-> Step(S)]
             reach[n \in 0 .. K] == IF n = 0 THEN first ELSE Step(reach[n - 1])
  <1>1. ReachedAvoiding(barred) = reach[K]
    BY DEF ReachedAvoiding
  <1>2. ASSUME NEW S \in V PROVE Step(S) \in V
    <2> DEFINE W == {Normal(b) \cup Unwinds(b) : b \in S}
    <2>1. S \subseteq R
      OBVIOUS
    <2>2. ASSUME NEW x \in (UNION W) \ barred PROVE x \in R
      <3>1. PICK w \in W : x \in w
        BY Zenon
      <3>2. PICK b \in S : w = Normal(b) \cup Unwinds(b)
        BY <3>1
      <3>3. x \in (Normal(b) \cup Unwinds(b)) \ barred
        BY <3>1, <3>2
      <3>. QED BY <2>1, <3>3
    <2>3. Step(S) = S \cup ((UNION W) \ barred)
      OBVIOUS
    <2> HIDE DEF W, Step
    <2>. QED BY <2>1, <2>2, <2>3
  <1>3. first \in V /\ step \in [V -> V] /\ \A S \in V : step[S] = Step(S)
    BY <1>2
  <1>4. K \in Nat
    OBVIOUS
  <1>5. PICK f \in [0 .. K -> V] : Grows(f, first, step, K)
    <2>1. Grown(V, first, step, K)
      BY <1>3, <1>4 DEF Grown
    <2> HIDE DEF V, first, step, K, reach
    <2>. QED BY <2>1, GrowthExists
  <1> HIDE DEF step, first, Step, V, K
  <1>6. f = [n \in 0 .. K |-> IF n = 0 THEN first ELSE Step(f[n - 1])]
    <2>1. ASSUME NEW n \in 0 .. K, n # 0 PROVE step[f[n - 1]] = Step(f[n - 1])
      <3>1. n - 1 \in 0 .. K
        BY <1>4, <2>1
      <3>. QED BY <1>3, <3>1
    <2>. QED BY <1>5, <2>1 DEF Grows
  <1>7. reach = [n \in 0 .. K |-> IF n = 0 THEN first ELSE Step(reach[n - 1])]
    BY <1>6 DEF reach
  <1> HIDE DEF reach
  <1>8. \A n \in 0 .. K : reach[n] \in V
    <2> DEFINE Bad == {n \in 0 .. K : reach[n] \notin V}
    <2> SUFFICES ASSUME Bad # {} PROVE FALSE
      OBVIOUS
    <2>1. Bad \in SUBSET Nat
      BY <1>4
    <2>2. PICK n \in Bad : \A m \in Bad : n <= m
      <3> HIDE DEF Bad
      <3>. QED BY <2>1, SmallestExists
    <2>3. n \in 0 .. K /\ reach[n] \notin V
      OBVIOUS
    <2>4. n # 0
      BY <1>3, <1>7, <2>3
    <2>5. n - 1 \in 0 .. K /\ ~(n <= n - 1)
      BY <1>4, <2>3, <2>4
    <2>6. reach[n - 1] \in V
      BY <2>2, <2>5
    <2>7. reach[n] = Step(reach[n - 1])
      BY <1>7, <2>3, <2>4
    <2>. QED BY <1>2, <2>3, <2>6, <2>7
  <1>9. reach[K] \in V
    BY <1>4, <1>8
  <1>. QED BY <1>1, <1>9 DEF V

-----------------------------------------------------------------------------
(* The whole of generation.                                                *)

LEMMA InitEdges == Init => Edges
  <1> SUFFICES ASSUME Init PROVE Edges
    OBVIOUS
  <1> DEFINE f == Running("block", "list", 1)
             block == [code |-> <<>>, phi |-> {}]
             g == [blocks |-> <<block>>, cur |-> 1, begins |-> {}]
  <1>1. graph = g /\ open = <<f>>
    BY DEF Init
  <1>2. f.op = "block"
    BY DEF Running
  <1>3. Size(g) = 1 /\ g.blocks[1].code = <<>> /\ g.begins = {}
    BY DEF Size
  <1>4. DOMAIN open = {1} /\ open[1] = f
    BY <1>1
  <1> HIDE DEF f, g
  <1>5. \A a, b : ~Enters(g, a, b)
    <2>1. \A a \in 1 .. Size(g) : Members(g.blocks[a].code) = {}
      <3>1. \A a \in 1 .. 1 : a = 1
        OBVIOUS
      <3>. QED BY <1>3, <3>1, MembersOf
    <2>. QED BY <2>1 DEF Enters, Jumps, Throws
  <1>6. Layered(open)
    BY <1>4 DEF Layered
  <1>7. Padded(g, open)
    <2>1. ~Rescuing(open[1]) /\ DonePads(g) = {}
      BY <1>2, <1>3, <1>4 DEF Rescuing, DonePads
    <2>. QED BY <1>4, <1>5, <2>1 DEF Padded, Enters
  <1>8. Ensuring(g, open) /\ Ensured(g, open)
    BY <1>2, <1>3, <1>4 DEF Ensuring, Ensured, InEnsure
  <1>. QED BY <1>1, <1>6, <1>7, <1>8 DEF Edges, EdgesAre

LEMMA NextEdges == Typed /\ Typed' /\ HandlersNest /\ Edges /\ [Next]_vars => Edges'
  <1> SUFFICES ASSUME Typed, Typed', HandlersNest, Edges, [Next]_vars PROVE Edges'
    OBVIOUS
  <1>1. CASE \/ Literal \/ Absent \/ HolderStarts \/ BlockStarts \/ BlockGoesOn \/ BlockEnds
             \/ AssignOperand \/ IndexStarts \/ IndexRight \/ CallOperand \/ ReturnOperand
             \/ IndexOperand
    BY <1>1, SimpleSteps, QuietEdges
  <1>2. CASE \/ \E n \in 0 .. MaxOperands : CallStarts(n) \/ ReturnStarts(n)
             \/ \E name \in Names : ReadStarts(name) \/ AssignStarts(name)
             \/ \E else \in BOOLEAN : IfStarts(else)
             \/ \E whens \in 1 .. 2 : CaseStarts(whens)
    <2>1. 0 .. MaxOperands \subseteq Nat
      BY CodegenAssumption
    <2>. QED BY <1>2, <2>1, StartSteps, QuietEdges
  <1>3. CASE IfCondition \/ TrueBranch \/ FalseBranch \/ WhileStarts \/ WhileBody \/ WhileCondition
    BY <1>3, IfConditionEdges, TrueBranchEdges, FalseBranchEdges, WhileStartsEdges, WhileBodyEdges, WhileConditionEdges
  <1>4. CASE \E rescues \in RescueLists, ensured \in BOOLEAN : BeginStarts(rescues, ensured)
    BY <1>4, BeginStartsEdges
  <1>5. CASE BeginMain \/ BeginEnsure \/ RescueAny \/ RescueTyped \/ RescueClass \/ RescueClause \/ BeginFinish
    BY <1>5, BeginMainEdges, BeginEnsureEdges, RescueAnyEdges, RescueTypedEdges, RescueClassEdges, RescueClauseEdges,
       BeginFinishEdges
  <1>6. CASE Finish
    BY <1>6, FinishEdges
  <1>7. CASE UNCHANGED vars
    <2>1. graph' = graph /\ open' = open /\ mode' = mode
      BY <1>7 DEF vars
    <2>. QED BY <2>1 DEF Edges, Active, Finished
  <1>. QED BY <1>1, <1>2, <1>3, <1>4, <1>5, <1>6, <1>7 DEF Next

\* Generation has come to its end only when no function runs any more.
AllDone == Finished => open = <<>>
LEMMA NextAllDone == AllDone /\ [Next]_vars => AllDone'
  <1> SUFFICES ASSUME AllDone, [Next]_vars, mode' = "finished" PROVE open' = <<>>
    BY DEF AllDone, Finished
  <1>1. CASE Finish
    BY <1>1 DEF Finish
  <1>2. CASE UNCHANGED vars
    BY <1>2 DEF AllDone, Finished, vars
  <1>3. CASE \/ Literal \/ Absent \/ HolderStarts \/ BlockStarts \/ BlockGoesOn \/ BlockEnds
             \/ AssignOperand \/ IndexStarts \/ IndexOperand \/ IndexRight \/ CallOperand \/ ReturnOperand
             \/ IfCondition \/ TrueBranch \/ FalseBranch \/ WhileStarts \/ WhileBody \/ WhileCondition
             \/ BeginMain \/ BeginEnsure \/ RescueAny \/ RescueTyped \/ RescueClass \/ RescueClause \/ BeginFinish
             \/ \E n \in 0 .. MaxOperands : CallStarts(n) \/ ReturnStarts(n)
             \/ \E name \in Names : ReadStarts(name) \/ AssignStarts(name)
             \/ \E else \in BOOLEAN : IfStarts(else)
             \/ \E whens \in 1 .. 2 : CaseStarts(whens)
             \/ \E rescues \in RescueLists, ensured \in BOOLEAN : BeginStarts(rescues, ensured)
    <2>1. /\ ~Generate /\ ~BeginsBody /\ ~Crashes /\ \A v : ~Yields(v)
          /\ mode' # "crashed" /\ mode' # "undefined"
      BY DEF Generate, BeginsBody, Crashes, Yields
    <2>. QED BY <1>3, <2>1 DEF Literal, Absent, HolderStarts, BlockStarts, BlockGoesOn, BlockEnds, AssignOperand, IndexStarts,
           IndexOperand, IndexRight, CallOperand, ReturnOperand, NextOperand, IfCondition, TrueBranch, FalseBranch,
           WhileStarts, WhileBody, WhileCondition, BeginMain, BeginEnsure, RescueAny, RescueTyped, RescueClass,
           RescueClause, BeginFinish, CallStarts, ReturnStarts, ReadStarts, AssignStarts, IfStarts, CaseStarts, BeginStarts
  <1>. QED BY <1>1, <1>2, <1>3 DEF Next

\* The edges that the property speaks of are those.
LEMMA EdgesOf ==
  ASSUME NEW a \in Blocks, NEW b
  PROVE  /\ b \in Normal(a) <=> Jumps(graph, a, b)
         /\ b \in Unwinds(a) <=> Throws(graph, a, b)
BY DEF Normal, Unwinds, EndsOf, Jumps, Throws, Blocks

LEMMA EdgesImply ==
  ASSUME Typed, Edges, AllDone
  PROVE  EnsureIsPassed
  <1> SUFFICES ASSUME Finished
               PROVE  /\ \A r \in graph.begins :
                           /\ Dominates(r.ensure, r.finish)
                           /\ \A b \in Blocks : r.pad \notin Normal(b)
                      /\ \A b \in Blocks : Unwinds(b) \subseteq {r.pad : r \in graph.begins}
    BY DEF EnsureIsPassed
  <1>1. Padded(graph, open) /\ Ensured(graph, open) /\ open = <<>> /\ Size(graph) \in Nat
    BY TypedParts DEF Edges, EdgesAre, AllDone
  <1>2. PadsOf(open) = {}
    BY <1>1 DEF PadsOf
  <1>3. ASSUME NEW r \in graph.begins, NEW b \in Blocks PROVE r.pad \notin Normal(b)
    BY <1>1, <1>3, EdgesOf DEF Padded, DonePads
  <1>4. ASSUME NEW b \in Blocks PROVE Unwinds(b) \subseteq {r.pad : r \in graph.begins}
    BY <1>1, <1>2, <1>4, EdgesOf DEF Padded, DonePads
  <1>5. ASSUME NEW r \in graph.begins PROVE Dominates(r.ensure, r.finish)
    <2>1. PICK n : EnsuredSince(graph, open, r, n)
      BY <1>1 DEF Ensured
    <2> DEFINE e == r.ensure
               x == r.finish
               Behind == {b \in Blocks : n < b /\ b <= x}
               R == Blocks \ (Behind \cup {e})
    <2>2. n \in Int /\ 1 <= n /\ n < x /\ x <= Size(graph) /\ e # 1
      BY <2>1 DEF EnsuredSince
    <2>3. x \in Blocks
      <3>1. graph.begins \subseteq BeginsOf(Size(graph))
        <4>1. Len(program) \in Nat /\ GraphOK(graph, Len(program))
          BY DEF Typed
        <4>. QED BY <4>1, GraphParts
      <3>. QED BY <3>1 DEF BeginsOf, Blocks
    <2>4. {1} \ {e} \subseteq R
      BY <1>1, <2>2, <2>3 DEF Blocks
    <2>5. ASSUME NEW a \in R, NEW b \in (Normal(a) \cup Unwinds(a)) \ {e} PROVE b \in R
      <3>1. Enters(graph, a, b) /\ a \in Blocks /\ a \notin Behind /\ a # e
        BY <2>5, EdgesOf DEF Enters
      <3>2. b \in Blocks
        BY <3>1, EdgeTypes DEF Blocks
      <3>3. b \notin Behind
        BY <2>1, <3>1 DEF EnsuredSince
      <3>. QED BY <2>5, <3>2, <3>3
    <2> HIDE DEF R
    <2>6. ReachedAvoiding({e}) \subseteq R
      BY <1>1, <2>4, <2>5, ReachedWithin
    <2>7. x \notin R
      <3>1. x \in Behind
        BY <2>2, <2>3 DEF Blocks
      <3>. QED BY <3>1 DEF R
    <2>. QED BY <2>6, <2>7 DEF Dominates
  <1>. QED BY <1>3, <1>4, <1>5

\* Whatever program is generated, and however its begins are nested in one another, in loops
\* and in rescues: a begin that is left by its end has gone through its ensure, no jump goes
\* to a landing pad, and every exception that a call throws goes to the pad of a begin.
THEOREM EnsureIsAlwaysPassed == Spec => []EnsureIsPassed
  <1> DEFINE Inv == Typed /\ HandlersNest /\ Edges /\ AllDone
  <1>1. Init => Inv
    <2>1. Init => AllDone
      BY DEF Init, AllDone, Finished
    <2>. QED BY <2>1, InitTyped, InitHandlers, InitEdges
  <1>2. Inv /\ [Next]_vars => Inv'
    BY NextTyped, NextHandlers, NextEdges, NextAllDone
  <1>3. Inv => EnsureIsPassed
    BY EdgesImply
  <1>. QED BY <1>1, <1>2, <1>3, PTL DEF Spec

-----------------------------------------------------------------------------
(* The phis.                                                               *)

Phi(g, b)  == g.blocks[b].phi
Into(g, b) == {a \in 1 .. Size(g) : Enters(g, a, b)}

\* The phis phi have one value for each of the blocks of from, and no other.
Matches(phi, from) ==
  /\ \A id \in {p.id : p \in phi} : {p.from : p \in {p \in phi : p.id = id}} = from
  /\ \A p, q \in phi : p.from = q.from /\ p.id = q.id => p = q

\* A block that has no end is left by no edge.
Left(g) ==
  \A a \in Ongoing(g) : \A e \in Members(g.blocks[a].code) : IsEnd(e) => e.targets = <<>> /\ e.unwind = 0

\* What a function knows of the blocks that it joins.
Joint(g, b, from, phi) == Into(g, b) = from /\ Phi(g, b) = phi
HasIds(phi, x, y) == {p.id : p \in phi} = {x, y}
Named(phi, f) == HasIds(phi, <<f.stmt, "value">>, <<f.stmt, "flag">>)
Knows(g, f) ==
  /\ f.op = "if" /\ f.part = "true"    => Joint(g, f.base + 1, {}, {})
  /\ f.op = "if" /\ f.part = "false"   => Joint(g, f.base + 1, {f.from}, {})
  /\ f.op = "while" /\ f.part = "body" => Joint(g, f.base + 2, {f.from}, {})
  /\ HasBlocks(f) /\ f.op # "if"       => Phi(g, f.base + 1) = {} /\ Phi(g, f.base + 3) = {}
  /\ f.op = "begin" /\ f.part = "main" => Joint(g, Ensure(f), {}, {})
  /\ f.op = "begin" /\ f.part # "main" => Named(Phi(g, Ensure(f)), f)

\* When the rescues have been generated, the last handler goes on.
Handled(g, s) ==
  s # <<>> /\ Last(s).op = "begin" /\ Last(s).part = "rescue" /\ Last(s).rescues = <<>> /\ ~Last(s).optional
    => g.cur = Last(s).handler

PhisAre(g, s) ==
  /\ \A b \in 1 .. Size(g) : Matches(Phi(g, b), Into(g, b))
  /\ Left(g)
  /\ \A i \in DOMAIN s : Knows(g, s[i])
  /\ Handled(g, s)
Phis == Active \/ Finished => PhisAre(graph, open)

\* What the IRBuilder's operations do to them.
GoesTo(instr, b)  == IsEnd(instr) /\ (b \in Members(instr.targets) \/ (b = instr.unwind /\ b # 0))
Decided(instr)    == Ends(instr) \/ Quiet(instr)

LEMMA EmitAtJoint ==
  ASSUME NEW g, Shaped(g), NEW b \in 1 .. Size(g), NEW instr
  PROVE  /\ Alike(g, EmitAt(g, b, instr))
         /\ \A x \in 1 .. Size(g) : Phi(EmitAt(g, b, instr), x) = Phi(g, x)
         /\ \A x : Into(EmitAt(g, b, instr), x) = Into(g, x) \cup (IF GoesTo(instr, x) THEN {b} ELSE {})
         /\ Left(g) /\ Decided(instr) => Left(EmitAt(g, b, instr))
  <1> DEFINE h == EmitAt(g, b, instr)
  <1>1. /\ Alike(g, h) /\ \A x \in 1 .. Size(g) : Phi(h, x) = Phi(g, x)
        /\ h.blocks[b].code = Append(g.blocks[b].code, instr)
        /\ \A x \in 1 .. Size(g) : x # b => h.blocks[x].code = g.blocks[x].code
    BY EmitAtShaped DEF Phi
  <1> HIDE DEF h
  <1>2. g.blocks[b].code \in Seq(Members(g.blocks[b].code))
    BY ShapedParts
  <1>3. Members(h.blocks[b].code) = Members(g.blocks[b].code) \cup {instr}
    BY <1>1, <1>2, MembersOf
  <1>4. EndsAt(g.blocks[b].code) \subseteq EndsAt(h.blocks[b].code) /\ (Ends(instr) => EndsAt(h.blocks[b].code) # {})
    BY <1>1, <1>2, AppendEnds
  <1>5. Size(h) = Size(g)
    BY <1>1 DEF Alike
  <1>6. ASSUME NEW x PROVE Into(h, x) = Into(g, x) \cup (IF GoesTo(instr, x) THEN {b} ELSE {})
    <2>1. \A a \in 1 .. Size(g) : Enters(h, a, x) <=> Enters(g, a, x) \/ (a = b /\ GoesTo(instr, x))
      BY <1>1, <1>3, <1>5 DEF Enters, Jumps, Throws, GoesTo
    <2>. QED BY <1>5, <2>1 DEF Into
  <1>7. ASSUME Left(g), Decided(instr) PROVE Left(h)
    <2> SUFFICES ASSUME NEW a \in Ongoing(h), NEW e \in Members(h.blocks[a].code), IsEnd(e)
                 PROVE  e.targets = <<>> /\ e.unwind = 0
      BY DEF Left
    <2>1. a \in 1 .. Size(g) /\ EndsAt(h.blocks[a].code) = {}
      BY <1>5 DEF Ongoing
    <2>2. a \in Ongoing(g)
      BY <1>1, <1>4, <2>1 DEF Ongoing
    <2>3. CASE e \in Members(g.blocks[a].code)
      BY <1>7, <2>2, <2>3 DEF Left
    <2>4. CASE a = b /\ e = instr
      BY <1>4, <1>7, <2>1, <2>4 DEF Decided, Quiet
    <2>. QED BY <1>1, <1>3, <2>1, <2>3, <2>4
  <1>. QED BY <1>1, <1>6, <1>7 DEF h

\* The code, and with it the edges, is that of h.
LEMMA SameEdges ==
  ASSUME NEW h, NEW new, Size(new) = Size(h), \A b \in 1 .. Size(h) : new.blocks[b].code = h.blocks[b].code
  PROVE  (\A x : Into(new, x) = Into(h, x)) /\ (Left(h) => Left(new))
  <1>1. \A a, x : Enters(new, a, x) <=> Enters(h, a, x)
    BY DEF Enters, Jumps, Throws
  <1>2. Ongoing(new) = Ongoing(h) /\ Ongoing(h) \subseteq 1 .. Size(h)
    BY DEF Ongoing
  <1>. QED BY <1>1, <1>2 DEF Into, Left

LEMMA MoveToJoint ==
  ASSUME NEW g, Shaped(g), NEW b \in Int
  PROVE  /\ Shaped(MoveTo(g, b)) /\ Size(MoveTo(g, b)) = Size(g) /\ MoveTo(g, b).cur = b
         /\ \A x : Phi(MoveTo(g, b), x) = Phi(g, x) /\ Into(MoveTo(g, b), x) = Into(g, x)
         /\ Left(g) => Left(MoveTo(g, b))
  <1> DEFINE h == MoveTo(g, b)
  <1>1. Shaped(h) /\ h.blocks = g.blocks /\ h.cur = b
    BY MoveToShaped
  <1> HIDE DEF h
  <1>2. Size(h) = Size(g)
    BY <1>1 DEF Size
  <1>3. (\A x : Into(h, x) = Into(g, x)) /\ (Left(g) => Left(h))
    BY <1>1, <1>2, SameEdges
  <1>. QED BY <1>1, <1>2, <1>3 DEF h, Phi

LEMMA AddIncomingJoint ==
  ASSUME NEW g, Shaped(g), NEW b \in 1 .. Size(g), NEW id, NEW v, NEW from
  PROVE  /\ Alike(g, AddIncoming(g, b, id, v, from))
         /\ Phi(AddIncoming(g, b, id, v, from), b) = Phi(g, b) \cup {Incoming(id, v, from)}
         /\ \A x \in 1 .. Size(g) : x # b => Phi(AddIncoming(g, b, id, v, from), x) = Phi(g, x)
         /\ \A x : Into(AddIncoming(g, b, id, v, from), x) = Into(g, x)
         /\ Left(g) => Left(AddIncoming(g, b, id, v, from))
  <1> DEFINE h == AddIncoming(g, b, id, v, from)
  <1>1. /\ Alike(g, h) /\ \A x \in 1 .. Size(g) : h.blocks[x].code = g.blocks[x].code
        /\ Phi(h, b) = Phi(g, b) \cup {Incoming(id, v, from)}
        /\ \A x \in 1 .. Size(g) : x # b => Phi(h, x) = Phi(g, x)
    BY AddIncomingShaped DEF Phi
  <1> HIDE DEF h
  <1>2. (\A x : Into(h, x) = Into(g, x)) /\ (Left(g) => Left(h))
    BY <1>1, SameEdges DEF Alike
  <1>. QED BY <1>1, <1>2 DEF h

LEMMA CreateJoint ==
  ASSUME NEW g, Shaped(g), NEW m \in Nat
  PROVE  /\ Shaped(Create(g, m)) /\ Size(Create(g, m)) = Size(g) + m /\ Create(g, m).cur = g.cur
         /\ \A x \in 1 .. Size(g) : Phi(Create(g, m), x) = Phi(g, x)
         /\ \A x \in Size(g) + 1 .. Size(g) + m : Phi(Create(g, m), x) = {}
         /\ \A x : Into(Create(g, m), x) = Into(g, x)
         /\ Left(g) => Left(Create(g, m))
  <1> DEFINE h == Create(g, m)
             k == Size(g)
  <1>1. /\ Shaped(h) /\ Size(h) = k + m /\ h.cur = g.cur /\ k \in Nat
        /\ \A b \in 1 .. k : h.blocks[b] = g.blocks[b]
        /\ \A b \in k + 1 .. k + m : h.blocks[b].code = <<>> /\ h.blocks[b].phi = {}
    <2>1. Created(g, m, h)
      BY CreateIs
    <2>. QED BY <2>1, ShapedParts DEF Created
  <1> HIDE DEF h
  <1>2. 1 .. k + m = (1 .. k) \cup (k + 1 .. k + m)
    BY <1>1
  <1>3. \A b \in k + 1 .. k + m : Members(h.blocks[b].code) = {}
    BY <1>1, MembersOf
  <1>4. Size(g) = k
    OBVIOUS
  <1> HIDE DEF k
  <1>5. \A a, x : Enters(h, a, x) <=> Enters(g, a, x)
    BY <1>1, <1>2, <1>3, <1>4 DEF Enters, Jumps, Throws
  <1>6. \A x : Into(h, x) = Into(g, x)
    <2> SUFFICES ASSUME NEW x, NEW a PROVE a \in Into(h, x) <=> a \in Into(g, x)
      OBVIOUS
    <2>1. Enters(h, a, x) => a \in 1 .. k + m
      BY <1>1 DEF Enters, Jumps, Throws
    <2>2. Enters(g, a, x) => a \in 1 .. k
      BY <1>4 DEF Enters, Jumps, Throws
    <2>. QED BY <1>1, <1>4, <1>5, <2>1, <2>2 DEF Into
  <1>7. Left(g) => Left(h)
    <2> SUFFICES ASSUME Left(g), NEW a \in Ongoing(h), NEW e \in Members(h.blocks[a].code), IsEnd(e)
                 PROVE  e.targets = <<>> /\ e.unwind = 0
      BY DEF Left
    <2>1. a \in 1 .. k /\ h.blocks[a] = g.blocks[a] /\ a \in Ongoing(g)
      BY <1>1, <1>2, <1>3, <1>4 DEF Ongoing
    <2>. QED BY <2>1 DEF Left
  <1>. QED BY <1>1, <1>4, <1>6, <1>7 DEF h, Phi

\* The graph h has k blocks and its insertion point at c; it has grown from g, of whose blocks
\* only those of X have got edges and only those of Y phis.
Fits(g, h, X, Y, k, c) ==
  /\ Shaped(h) /\ Size(h) = k /\ h.cur = c /\ k \in Nat /\ Size(g) \in Nat /\ Size(g) <= k
  /\ Left(h)
  /\ \A x \in 1 .. Size(g) : (x \in Y \/ Phi(h, x) = Phi(g, x)) /\ (x \in X \/ Into(h, x) = Into(g, x))
  /\ \A x \in 1 .. k : x > Size(g) => Phi(h, x) = {}

LEMMA FitsNothing ==
  ASSUME NEW g, Shaped(g), Left(g), NEW X, NEW Y
  PROVE  Fits(g, g, X, Y, Size(g), g.cur)
  <1>1. Size(g) \in Nat
    BY ShapedParts
  <1>. QED BY <1>1 DEF Fits

\* An instruction that decides where its block goes, if it ends it, and goes only there.
FitsInto(instr, g, X) == Decided(instr) /\ \A x \in 1 .. Size(g) : GoesTo(instr, x) => x \in X

LEMMA FitsEmitAt ==
  ASSUME NEW g, NEW h, NEW X, NEW Y, NEW k, NEW c, Fits(g, h, X, Y, k, c),
         NEW b \in 1 .. k, NEW instr, FitsInto(instr, g, X)
  PROVE  Fits(g, EmitAt(h, b, instr), X, Y, k, c)
  <1> DEFINE new == EmitAt(h, b, instr)
  <1>1. Shaped(h) /\ Size(h) = k
    BY DEF Fits
  <1>2. /\ Alike(h, new) /\ \A x \in 1 .. k : Phi(new, x) = Phi(h, x)
        /\ \A x : Into(new, x) = Into(h, x) \cup (IF GoesTo(instr, x) THEN {b} ELSE {})
        /\ Left(h) => Left(new)
    BY <1>1, EmitAtJoint DEF FitsInto
  <1> HIDE DEF new
  <1>3. Shaped(new) /\ Size(new) = k /\ new.cur = c
    BY <1>1, <1>2 DEF Alike, Fits
  <1>4. Size(g) \in Nat /\ k \in Nat /\ Size(g) <= k
    BY DEF Fits
  <1>5. \A x \in 1 .. Size(g) : x \in 1 .. k
    BY <1>4
  <1>6. ASSUME NEW x \in 1 .. Size(g) PROVE (x \in Y \/ Phi(new, x) = Phi(g, x)) /\ (x \in X \/ Into(new, x) = Into(g, x))
    BY <1>2, <1>5 DEF Fits, FitsInto
  <1>7. \A x \in 1 .. k : x > Size(g) => Phi(new, x) = {}
    BY <1>2 DEF Fits
  <1>8. Left(new)
    BY <1>2 DEF Fits
  <1>. QED BY <1>3, <1>4, <1>6, <1>7, <1>8 DEF Fits, new

LEMMA FitsEmit ==
  ASSUME NEW g, NEW h, NEW X, NEW Y, NEW k, NEW c, Fits(g, h, X, Y, k, c), c \in 1 .. k,
         NEW instr, FitsInto(instr, g, X)
  PROVE  Fits(g, Emit(h, instr), X, Y, k, c)
  <1>1. h.cur = c
    BY DEF Fits
  <1>2. Fits(g, EmitAt(h, c, instr), X, Y, k, c)
    BY FitsEmitAt
  <1>. QED BY <1>1, <1>2 DEF Emit

LEMMA FitsCreate ==
  ASSUME NEW g, NEW h, NEW X, NEW Y, NEW k, NEW c, Fits(g, h, X, Y, k, c), NEW m \in Nat
  PROVE  Fits(g, Create(h, m), X, Y, k + m, c)
  <1> DEFINE new == Create(h, m)
  <1>1. Shaped(h) /\ Size(h) = k /\ Size(g) \in Nat /\ k \in Nat /\ Size(g) <= k
    BY DEF Fits
  <1>2. /\ Shaped(new) /\ Size(new) = k + m /\ new.cur = h.cur
        /\ \A x \in 1 .. k : Phi(new, x) = Phi(h, x)
        /\ \A x \in k + 1 .. k + m : Phi(new, x) = {}
        /\ \A x : Into(new, x) = Into(h, x)
        /\ Left(h) => Left(new)
    BY <1>1, CreateJoint
  <1> HIDE DEF new
  <1>3. \A x \in 1 .. Size(g) : x \in 1 .. k
    BY <1>1
  <1>4. \A x \in 1 .. k + m : x \in 1 .. k \/ x \in k + 1 .. k + m
    BY <1>1
  <1>5. k + m \in Nat /\ Size(g) <= k + m
    BY <1>1
  <1>6. \A x \in 1 .. k + m : x > Size(g) => Phi(new, x) = {}
    BY <1>2, <1>4 DEF Fits
  <1>7. \A x \in 1 .. Size(g) : (x \in Y \/ Phi(new, x) = Phi(g, x)) /\ (x \in X \/ Into(new, x) = Into(g, x))
    BY <1>2, <1>3 DEF Fits
  <1>. QED BY <1>1, <1>2, <1>5, <1>6, <1>7 DEF Fits, new

LEMMA FitsMoveTo ==
  ASSUME NEW g, NEW h, NEW X, NEW Y, NEW k, NEW c, Fits(g, h, X, Y, k, c), NEW b \in Int
  PROVE  Fits(g, MoveTo(h, b), X, Y, k, b)
  <1> DEFINE new == MoveTo(h, b)
  <1>1. /\ Shaped(new) /\ Size(new) = Size(h) /\ new.cur = b
        /\ \A x : Phi(new, x) = Phi(h, x) /\ Into(new, x) = Into(h, x)
        /\ Left(h) => Left(new)
    BY MoveToJoint DEF Fits
  <1> HIDE DEF new
  <1>. QED BY <1>1 DEF Fits, new

LEMMA FitsAddIncoming ==
  ASSUME NEW g, NEW h, NEW X, NEW Y, NEW k, NEW c, Fits(g, h, X, Y, k, c), NEW b \in Y, b \in 1 .. Size(g),
         NEW id, NEW v, NEW from
  PROVE  Fits(g, AddIncoming(h, b, id, v, from), X, Y, k, c)
  <1> DEFINE new == AddIncoming(h, b, id, v, from)
  <1>1. Shaped(h) /\ Size(h) = k /\ Size(g) \in Nat /\ k \in Nat /\ Size(g) <= k /\ b \in 1 .. k
    BY DEF Fits
  <1>2. /\ Alike(h, new)
        /\ \A x \in 1 .. k : x # b => Phi(new, x) = Phi(h, x)
        /\ \A x : Into(new, x) = Into(h, x)
        /\ Left(h) => Left(new)
    BY <1>1, AddIncomingJoint
  <1> HIDE DEF new
  <1>3. \A x \in 1 .. Size(g) : x \in 1 .. k
    BY <1>1
  <1>4. \A x \in 1 .. k : x > Size(g) => x # b
    BY <1>1
  <1>5. Shaped(new) /\ Size(new) = k /\ new.cur = c
    BY <1>1, <1>2 DEF Alike, Fits
  <1>6. \A x \in 1 .. Size(g) : (x \in Y \/ Phi(new, x) = Phi(g, x)) /\ (x \in X \/ Into(new, x) = Into(g, x))
    BY <1>2, <1>3 DEF Fits
  <1>7. \A x \in 1 .. k : x > Size(g) => Phi(new, x) = {}
    BY <1>2, <1>4 DEF Fits
  <1>. QED BY <1>1, <1>2, <1>5, <1>6, <1>7 DEF Fits, new

\* The instructions, and where they go.
LEMMA GoesOf ==
  /\ \A op \in {"br", "cond", "ret", "resume", "unreachable"} : \A args, targets : Decided(To(op, args, targets))
  /\ \A op \in {"br", "cond"} : \A args, x, b : GoesTo(To(op, args, <<x>>), b) <=> b = x
  /\ \A op \in {"br", "cond"} : \A args, x, y, b : GoesTo(To(op, args, <<x, y>>), b) <=> b \in {x, y}
  /\ \A op, args, b : ~GoesTo(To(op, args, <<>>), b)
  /\ \A instr, b : Quiet(instr) => Decided(instr) /\ ~GoesTo(instr, b)
  <1>1. \A op, args, targets : To(op, args, targets).targets = targets /\ To(op, args, targets).unwind = 0
    BY DEF To, Instr
  <1>2. Members(<<>>) = {} /\ \A x, y : Members(<<x>>) = {x} /\ Members(<<x, y>>) = {x, y}
    BY MembersOf
  <1>3. \A op \in {"br", "cond", "ret", "resume", "unreachable"} : \A args, targets :
          Ends(To(op, args, targets)) /\ IsEnd(To(op, args, targets))
    BY EndInstrs DEF Ends
  <1>4. \A op \in {"br", "cond"} : \A args, x, b : GoesTo(To(op, args, <<x>>), b) <=> b = x
    <2> SUFFICES ASSUME NEW op \in {"br", "cond"}, NEW args, NEW x, NEW b
                 PROVE  GoesTo(To(op, args, <<x>>), b) <=> b = x
      OBVIOUS
    <2> DEFINE targets == <<x>>
               instr == To(op, args, targets)
    <2>1. Members(targets) = {x}
      BY <1>2
    <2> HIDE DEF targets
    <2>2. IsEnd(instr) /\ instr.targets = targets /\ instr.unwind = 0
      BY <1>1, <1>3
    <2> HIDE DEF instr
    <2>3. GoesTo(instr, b) <=> b = x
      BY <2>1, <2>2 DEF GoesTo
    <2>. QED BY <2>3 DEF instr, targets
  <1>5. \A op \in {"br", "cond"} : \A args, x, y, b : GoesTo(To(op, args, <<x, y>>), b) <=> b \in {x, y}
    <2> SUFFICES ASSUME NEW op \in {"br", "cond"}, NEW args, NEW x, NEW y, NEW b
                 PROVE  GoesTo(To(op, args, <<x, y>>), b) <=> b \in {x, y}
      OBVIOUS
    <2> DEFINE targets == <<x, y>>
               instr == To(op, args, targets)
    <2>1. Members(targets) = {x, y}
      BY <1>2
    <2> HIDE DEF targets
    <2>2. IsEnd(instr) /\ instr.targets = targets /\ instr.unwind = 0
      BY <1>1, <1>3
    <2> HIDE DEF instr
    <2>3. GoesTo(instr, b) <=> b \in {x, y}
      BY <2>1, <2>2 DEF GoesTo
    <2>. QED BY <2>3 DEF instr, targets
  <1>6. \A op, args, b : ~GoesTo(To(op, args, <<>>), b)
    BY <1>1, <1>2 DEF GoesTo
  <1>7. ASSUME NEW instr, NEW b, Quiet(instr) PROVE Decided(instr) /\ ~GoesTo(instr, b)
    BY <1>2, <1>7 DEF Quiet, Decided, GoesTo
  <1>. QED BY <1>3, <1>4, <1>5, <1>6, <1>7 DEF Decided

LEMMA FitsIntoOf ==
  ASSUME NEW g, NEW X
  PROVE  /\ \A op \in {"br", "cond"} : \A args, x : x \in X \/ x \notin 1 .. Size(g) => FitsInto(To(op, args, <<x>>), g, X)
         /\ \A op \in {"br", "cond"} : \A args, x, y :
              (x \in X \/ x \notin 1 .. Size(g)) /\ (y \in X \/ y \notin 1 .. Size(g)) => FitsInto(To(op, args, <<x, y>>), g, X)
         /\ \A op \in {"ret", "resume", "unreachable"} : \A args : FitsInto(To(op, args, <<>>), g, X)
         /\ \A op \in {"load", "store", "alloca", "landingpad"} : \A id, args : FitsInto(Instr(op, id, args), g, X)
         /\ \A instr : Quiet(instr) => FitsInto(instr, g, X)
  <1>1. \A op \in {"br", "cond"} : \A args, x : x \in X \/ x \notin 1 .. Size(g) => FitsInto(To(op, args, <<x>>), g, X)
    BY GoesOf DEF FitsInto
  <1>2. \A op \in {"br", "cond"} : \A args, x, y :
          (x \in X \/ x \notin 1 .. Size(g)) /\ (y \in X \/ y \notin 1 .. Size(g)) => FitsInto(To(op, args, <<x, y>>), g, X)
    <2> SUFFICES ASSUME NEW op \in {"br", "cond"}, NEW args, NEW x, NEW y,
                        x \in X \/ x \notin 1 .. Size(g), y \in X \/ y \notin 1 .. Size(g)
                 PROVE  FitsInto(To(op, args, <<x, y>>), g, X)
      OBVIOUS
    <2>1. Decided(To(op, args, <<x, y>>)) /\ \A b : GoesTo(To(op, args, <<x, y>>), b) => b \in {x, y}
      BY GoesOf
    <2>. QED BY <2>1 DEF FitsInto
  <1>3. \A op \in {"ret", "resume", "unreachable"} : \A args : FitsInto(To(op, args, <<>>), g, X)
    BY GoesOf DEF FitsInto
  <1>4. \A instr : Quiet(instr) => FitsInto(instr, g, X)
    BY GoesOf DEF FitsInto
  <1>5. \A op \in {"load", "store", "alloca", "landingpad"} : \A id, args : FitsInto(Instr(op, id, args), g, X)
    BY <1>4, QuietInstrs
  <1>. QED BY <1>1, <1>2, <1>3, <1>4, <1>5

\* Code that goes on wherever its calls go on.
FitsOn(g, h, X, Y) == \E k, c : Fits(g, h, X, Y, k, c) /\ c \in 1 .. k

LEMMA FitsOnEmit ==
  ASSUME NEW g, NEW h, NEW X, NEW Y, FitsOn(g, h, X, Y), NEW instr, FitsInto(instr, g, X)
  PROVE  FitsOn(g, Emit(h, instr), X, Y)
  <1>1. PICK k, c : Fits(g, h, X, Y, k, c) /\ c \in 1 .. k
    BY DEF FitsOn
  <1>2. Fits(g, Emit(h, instr), X, Y, k, c)
    BY <1>1, FitsEmit
  <1>. QED BY <1>1, <1>2 DEF FitsOn

LEMMA FitsOnLangCall ==
  ASSUME Typed, NEW g, NEW h, NEW X, NEW Y, FitsOn(g, h, X, Y), MainPads \subseteq X, NEW id, NEW args
  PROVE  FitsOn(g, LangCall(h, id, args), X, Y)
  <1> DEFINE new == LangCall(h, id, args)
  <1>1. PICK k, c : Fits(g, h, X, Y, k, c) /\ c \in 1 .. k
    BY DEF FitsOn
  <1>2. Size(h) = k /\ h.cur = c /\ k \in Nat /\ Size(g) \in Nat /\ Size(g) <= k
    BY <1>1 DEF Fits
  <1> HIDE DEF new
  <1>3. \/ \E instr : ~IsEnd(instr) /\ new = EmitAt(h, h.cur, instr)
        \/ \E instr : /\ IsEnd(instr) /\ instr.op = "invoke" /\ instr.id = id /\ handlers # <<>>
                      /\ instr.targets = <<Size(h) + 1>> /\ instr.unwind = Last(handlers)
                      /\ new = MoveTo(EmitAt(Create(h, 1), Create(h, 1).cur, instr), Size(h) + 1)
    <2>1. new = LangCall(h, id, args)
      BY DEF new
    <2>. QED BY <2>1, LangCallIs, SMTT(60)
  <1>4. ASSUME NEW instr, ~IsEnd(instr), new = EmitAt(h, h.cur, instr) PROVE FitsOn(g, new, X, Y)
    BY <1>4, FitsOnEmit, FitsIntoOf DEF Emit, Quiet
  <1>5. ASSUME NEW instr, IsEnd(instr), instr.op = "invoke", handlers # <<>>,
               instr.targets = <<Size(h) + 1>>, instr.unwind = Last(handlers),
               new = MoveTo(EmitAt(Create(h, 1), Create(h, 1).cur, instr), Size(h) + 1)
        PROVE  FitsOn(g, new, X, Y)
    <2> DEFINE g1 == Create(h, 1)
               g2 == EmitAt(g1, c, instr)
    <2>1. Fits(g, g1, X, Y, k + 1, c)
      BY <1>1, FitsCreate
    <2>2. g1.cur = c
      BY <2>1 DEF Fits
    <2> HIDE DEF g1
    <2>3. k + 1 \notin 1 .. Size(g) /\ k + 1 \in Int /\ k + 1 \in 1 .. k + 1 /\ c \in 1 .. k + 1
      BY <1>1, <1>2
    <2>4. FitsInto(instr, g, X)
      <3>1. Members(instr.targets) = {k + 1}
        BY <1>2, <1>5, MembersOf
      <3>2. Last(handlers) \in MainPads
        <4>1. handlers \in Seq(1 .. Size(graph))
          BY DEF Typed
        <4>2. Len(handlers) \in DOMAIN handlers
          BY <1>5, <4>1, EmptySeq
        <4>. QED BY <4>2 DEF MainPads, Last
      <3>3. Decided(instr)
        BY <1>5 DEF Decided, Ends
      <3>. QED BY <1>5, <2>3, <3>1, <3>2, <3>3 DEF FitsInto, GoesTo
    <2>5. Fits(g, g2, X, Y, k + 1, c)
      BY <2>1, <2>3, <2>4, FitsEmitAt
    <2> HIDE DEF g2
    <2>6. Fits(g, MoveTo(g2, k + 1), X, Y, k + 1, k + 1)
      BY <2>3, <2>5, FitsMoveTo
    <2>7. new = MoveTo(g2, k + 1)
      BY <1>2, <1>5, <2>2 DEF g1, g2
    <2>. QED BY <2>3, <2>6, <2>7 DEF FitsOn
  <1>. QED BY <1>3, <1>4, <1>5 DEF new

LEMMA FitsOnCatch ==
  ASSUME Typed, NEW g, NEW h, NEW X, NEW Y, FitsOn(g, h, X, Y), MainPads \subseteq X, NEW rescue
  PROVE  FitsOn(g, Catch(h, rescue), X, Y)
  <1> DEFINE slot == <<This, "slot">>
             args == <<slot, Top.args[1]>>
             g1   == Emit(h, Instr("alloca", slot, <<>>))
             g2   == Emit(g1, Instr("store", <<This, "stored">>, args))
             g3   == IF rescue.var = "none" THEN h ELSE g2
  <1>1. FitsOn(g, g1, X, Y)
    BY FitsOnEmit, FitsIntoOf
  <1> HIDE DEF g1, args
  <1>2. FitsOn(g, g2, X, Y)
    BY <1>1, FitsOnEmit, FitsIntoOf
  <1>3. FitsOn(g, g3, X, Y)
    BY <1>2
  <1> HIDE DEF g3
  <1>4. FitsOn(g, LangCall(g3, <<This, "caught">>, <<>>), X, Y)
    BY <1>3, FitsOnLangCall
  <1>. QED BY <1>4 DEF Catch, g3, g1, args

LEMMA FitsJoins ==
  ASSUME NEW g, NEW h, NEW X, NEW Y, NEW k, NEW c, Fits(g, h, X, Y, k, c), NEW f, Ensure(f) \in Y, Ensure(f) \in 1 .. Size(g),
         NEW v, NEW again, NEW from
  PROVE  Fits(g, Joins(h, f, v, again, from), X, Y, k, c)
  <1> DEFINE h1 == AddIncoming(h, Ensure(f), <<f.stmt, "value">>, v, from)
  <1>1. Fits(g, h1, X, Y, k, c)
    BY FitsAddIncoming
  <1> HIDE DEF h1
  <1>2. Fits(g, AddIncoming(h1, Ensure(f), <<f.stmt, "flag">>, again, from), X, Y, k, c)
    BY <1>1, FitsAddIncoming
  <1>. QED BY <1>2 DEF Joins, h1

-----------------------------------------------------------------------------
(* What is exactly known of one block.                                     *)

\* In h the block x is come to from those of P, and has the phis F.
At(h, x, P, F) == Shaped(h) /\ x \in 1 .. Size(h) /\ h.cur \in 1 .. Size(h) /\ Joint(h, x, P, F)

LEMMA AtEmit ==
  ASSUME NEW h, NEW x, NEW P, NEW F, At(h, x, P, F), NEW instr
  PROVE  /\ GoesTo(instr, x)  => At(Emit(h, instr), x, P \cup {h.cur}, F)
         /\ ~GoesTo(instr, x) => At(Emit(h, instr), x, P, F)
         /\ Emit(h, instr).cur = h.cur /\ Size(Emit(h, instr)) = Size(h)
  <1> DEFINE new == EmitAt(h, h.cur, instr)
  <1>1. /\ Alike(h, new)
        /\ \A y \in 1 .. Size(h) : Phi(new, y) = Phi(h, y)
        /\ \A y : Into(new, y) = Into(h, y) \cup (IF GoesTo(instr, y) THEN {h.cur} ELSE {})
    BY EmitAtJoint DEF At
  <1> HIDE DEF new
  <1>2. Shaped(new) /\ Size(new) = Size(h) /\ new.cur = h.cur
    BY <1>1 DEF Alike
  <1>3. Phi(new, x) = F /\ Into(new, x) = P \cup (IF GoesTo(instr, x) THEN {h.cur} ELSE {})
    BY <1>1 DEF At, Joint
  <1>4. x \in 1 .. Size(new) /\ new.cur \in 1 .. Size(new)
    BY <1>2 DEF At
  <1>5. Emit(h, instr) = new
    BY DEF Emit, new
  <1>6. GoesTo(instr, x) => At(new, x, P \cup {h.cur}, F)
    BY <1>2, <1>3, <1>4 DEF At, Joint
  <1>7. ~GoesTo(instr, x) => At(new, x, P, F)
    BY <1>2, <1>3, <1>4 DEF At, Joint
  <1>. QED BY <1>2, <1>5, <1>6, <1>7

LEMMA AtJump ==
  ASSUME NEW h, NEW x, NEW P, NEW F, At(h, x, P, F), NEW op \in {"br", "cond"}, NEW args, NEW c, h.cur = c
  PROVE  /\ At(Emit(h, To(op, args, <<x>>)), x, P \cup {c}, F)
         /\ Emit(h, To(op, args, <<x>>)).cur = c /\ Size(Emit(h, To(op, args, <<x>>))) = Size(h)
  <1> DEFINE instr == To(op, args, <<x>>)
  <1>1. GoesTo(instr, x)
    BY GoesOf
  <1> HIDE DEF instr
  <1>2. At(Emit(h, instr), x, P \cup {h.cur}, F) /\ Emit(h, instr).cur = h.cur /\ Size(Emit(h, instr)) = Size(h)
    BY <1>1, AtEmit
  <1>. QED BY <1>2 DEF instr

LEMMA AtPasses ==
  ASSUME NEW h, NEW x, NEW P, NEW F, At(h, x, P, F), NEW instr, NEW op \in {"br", "cond"}, NEW args, NEW y, NEW z,
         x # y, x # z, instr = To(op, args, <<y>>) \/ instr = To(op, args, <<y, z>>)
  PROVE  At(Emit(h, instr), x, P, F)
  <1>1. ~GoesTo(To(op, args, <<y>>), x)
    BY GoesOf
  <1>2. ~GoesTo(To(op, args, <<y, z>>), x)
    <2>1. GoesTo(To(op, args, <<y, z>>), x) <=> x \in {y, z}
      BY GoesOf
    <2>. QED BY <2>1
  <1>. QED BY <1>1, <1>2, AtEmit

LEMMA AtQuiet ==
  ASSUME NEW h, NEW x, NEW P, NEW F, At(h, x, P, F), NEW instr, Quiet(instr)
  PROVE  At(Emit(h, instr), x, P, F)
  <1>1. ~GoesTo(instr, x)
    BY GoesOf
  <1>. QED BY <1>1, AtEmit

LEMMA AtMoveTo ==
  ASSUME NEW h, NEW x, NEW P, NEW F, At(h, x, P, F), NEW b \in 1 .. Size(h)
  PROVE  At(MoveTo(h, b), x, P, F) /\ MoveTo(h, b).cur = b /\ Size(MoveTo(h, b)) = Size(h)
  <1> DEFINE new == MoveTo(h, b)
  <1>1. b \in Int
    BY ShapedParts DEF At
  <1>2. /\ Shaped(new) /\ Size(new) = Size(h) /\ new.cur = b
        /\ \A y : Phi(new, y) = Phi(h, y) /\ Into(new, y) = Into(h, y)
    BY <1>1, MoveToJoint DEF At
  <1> HIDE DEF new
  <1>. QED BY <1>2 DEF At, Joint, new

LEMMA AtAddIncoming ==
  ASSUME NEW h, NEW x, NEW P, NEW F, At(h, x, P, F), NEW id, NEW v, NEW from
  PROVE  /\ At(AddIncoming(h, x, id, v, from), x, P, F \cup {Incoming(id, v, from)})
         /\ AddIncoming(h, x, id, v, from).cur = h.cur /\ Size(AddIncoming(h, x, id, v, from)) = Size(h)
  <1> DEFINE new == AddIncoming(h, x, id, v, from)
  <1>1. /\ Alike(h, new) /\ Phi(new, x) = Phi(h, x) \cup {Incoming(id, v, from)}
        /\ \A y : Into(new, y) = Into(h, y)
    BY AddIncomingJoint DEF At
  <1> HIDE DEF new
  <1>2. Shaped(new) /\ Size(new) = Size(h) /\ new.cur = h.cur
    BY <1>1 DEF Alike
  <1>. QED BY <1>1, <1>2 DEF At, Joint, new

\* The phis F with one more way a into their block.
OneMore(F, x, v, y, w, a) == F \cup {Incoming(x, v, a), Incoming(y, w, a)}

LEMMA AtJoins ==
  ASSUME NEW h, NEW f, NEW P, NEW F, At(h, Ensure(f), P, F), NEW v, NEW again, NEW from
  PROVE  /\ At(Joins(h, f, v, again, from), Ensure(f), P,
               OneMore(F, <<f.stmt, "value">>, v, <<f.stmt, "flag">>, again, from))
         /\ Joins(h, f, v, again, from).cur = h.cur /\ Size(Joins(h, f, v, again, from)) = Size(h)
  <1> DEFINE e  == Ensure(f)
             a  == Incoming(<<f.stmt, "value">>, v, from)
             b  == Incoming(<<f.stmt, "flag">>, again, from)
             h1 == AddIncoming(h, e, <<f.stmt, "value">>, v, from)
             h2 == AddIncoming(h1, e, <<f.stmt, "flag">>, again, from)
  <1>1. At(h1, e, P, F \cup {a}) /\ h1.cur = h.cur /\ Size(h1) = Size(h)
    BY AtAddIncoming
  <1>2. Joins(h, f, v, again, from) = h2
    BY DEF Joins
  <1> HIDE DEF h1
  <1>3. At(h2, e, P, (F \cup {a}) \cup {b}) /\ h2.cur = h1.cur /\ Size(h2) = Size(h1)
    BY <1>1, AtAddIncoming
  <1> HIDE DEF h2
  <1>4. (F \cup {a}) \cup {b} = OneMore(F, <<f.stmt, "value">>, v, <<f.stmt, "flag">>, again, from)
    BY DEF OneMore
  <1> HIDE DEF a, b, e
  <1>5. At(h2, e, P, OneMore(F, <<f.stmt, "value">>, v, <<f.stmt, "flag">>, again, from))
    BY <1>3, <1>4
  <1>. QED BY <1>1, <1>2, <1>3, <1>5 DEF e

\* The phis of a join of two ways, and of one that has another way added.
LEMMA MatchesTwo ==
  ASSUME NEW id, NEW v, NEW w, NEW a, NEW b, a # b
  PROVE  Matches({Incoming(id, v, a), Incoming(id, w, b)}, {a, b})
BY DEF Matches, Incoming

LEMMA MatchesMore ==
  ASSUME NEW F, NEW P, Matches(F, P), NEW x, NEW y, x # y, NEW v, NEW w, NEW a, a \notin P,
         HasIds(F, x, y) \/ (F = {} /\ P = {})
  PROVE  Matches(OneMore(F, x, v, y, w, a), P \cup {a}) /\ HasIds(OneMore(F, x, v, y, w, a), x, y)
  <1> DEFINE G == F \cup {Incoming(x, v, a), Incoming(y, w, a)}
  <1>1. /\ Incoming(x, v, a).id = x /\ Incoming(x, v, a).from = a
        /\ Incoming(y, w, a).id = y /\ Incoming(y, w, a).from = a
    BY DEF Incoming
  <1>2. ASSUME NEW p \in F PROVE p.id \in {x, y} /\ p.from \in P /\ p.from # a
    <2>1. p.id \in {x, y}
      BY DEF HasIds
    <2>2. {q.from : q \in {q \in F : q.id = p.id}} = P
      BY DEF Matches
    <2>. QED BY <2>1, <2>2
  <1>3. HasIds(G, x, y)
    BY <1>1, <1>2 DEF HasIds
  <1>4. ASSUME NEW id \in {x, y} PROVE {p.from : p \in {p \in G : p.id = id}} = P \cup {a}
    <2>1. {p.from : p \in {p \in F : p.id = id}} = P
      <3>1. CASE HasIds(F, x, y)
        BY <1>4, <3>1 DEF Matches, HasIds
      <3>2. CASE F = {} /\ P = {}
        BY <3>2
      <3>. QED BY <3>1, <3>2
    <2>2. {p.from : p \in {p \in G : p.id = id}} = {p.from : p \in {p \in F : p.id = id}} \cup {a}
      BY <1>1, <1>4
    <2>. QED BY <2>1, <2>2
  <1>5. ASSUME NEW p \in G, NEW q \in G, p.from = q.from, p.id = q.id PROVE p = q
    BY <1>1, <1>2, <1>5 DEF Matches
  <1>. QED BY <1>3, <1>4, <1>5 DEF Matches, HasIds, OneMore

-----------------------------------------------------------------------------
(* What a step leaves of it.                                               *)

\* No two functions have a block in common.
LEMMA OwnsApart ==
  ASSUME Typed, Nested(open), NEW i \in DOMAIN open, NEW j \in DOMAIN open, NEW b \in Own(open[i]), b \in Own(open[j])
  PROVE  i = j
  <1>1. DOMAIN open = 1 .. Len(open) /\ Len(open) \in Nat
    BY StackBlocks
  <1>2. ASSUME NEW m \in DOMAIN open, NEW n \in DOMAIN open, m < n, b \in Own(open[m]), b \in Own(open[n]) PROVE FALSE
    <2>1. /\ b \in Recorded(open[m]) /\ b \in Recorded(open[n]) /\ Recorded(open[n]) \subseteq 1 .. Size(graph)
          /\ open[n].base \in Int
      BY <1>2, StackBlocks
    <2>2. HasBlocks(open[n]) /\ b > open[n].base /\ b \in Int
      BY <2>1, StackBlocks
    <2>3. b <= open[n].base
      BY <1>2, <2>1, <2>2 DEF Nested
    <2>. QED BY <2>1, <2>2, <2>3
  <1>. QED BY <1>1, <1>2

\* What a function knows is about its own blocks.
LEMMA KnowsKept ==
  ASSUME NEW g, NEW h, NEW f, f.base \in Int, Knows(g, f),
         \A x \in Own(f) : Phi(h, x) = Phi(g, x) /\ (Into(h, x) = Into(g, x) \/ (f.op = "begin" /\ x = Pad(f)))
  PROVE  Knows(h, f)
  <1>1. CASE HasBlocks(f)
    <2>1. Own(f) = {f.base + 1, f.base + 2, f.base + 3}
      BY <1>1 DEF Own
    <2>2. /\ Phi(h, f.base + 1) = Phi(g, f.base + 1) /\ Phi(h, f.base + 2) = Phi(g, f.base + 2)
          /\ Phi(h, f.base + 3) = Phi(g, f.base + 3)
      BY <2>1
    <2>3. Into(h, f.base + 2) = Into(g, f.base + 2)
      <3>1. f.base + 2 # Pad(f)
        BY DEF Pad
      <3>. QED BY <2>1, <3>1
    <2>4. f.op # "begin" => Into(h, f.base + 1) = Into(g, f.base + 1)
      BY <2>1
    <2>. QED BY <2>2, <2>3, <2>4 DEF Knows, Joint, Ensure
  <1>2. CASE ~HasBlocks(f)
    BY <1>2 DEF Knows, HasBlocks
  <1>. QED BY <1>1, <1>2

\* Blocks of X, of the function on top, get edges, and those of Y phis; calls may go to a pad.
PhiStep(X, Y) ==
  /\ Active /\ FitsOn(graph, graph', X \cup MainPads, Y)
  /\ Y \subseteq X /\ X \subseteq (IF open = <<>> THEN {} ELSE Own(Top))
  /\ \A x \in X : Matches(Phi(graph', x), Into(graph', x))
  /\ \A i \in DOMAIN open' :
       \/ i \in DOMAIN open /\ open'[i] = open[i] /\ (i = Len(open) => X = {})
       \/ Knows(graph', open'[i])
  /\ Handled(graph', open')

LEMMA PhisKept ==
  ASSUME Typed, HandlersNest, Flow, Phis, NEW X, NEW Y, PhiStep(X, Y)
  PROVE  Phis'
  <1>1. PhisAre(graph, open) /\ Nested(open)
    BY DEF Phis, PhiStep, Flow, FlowIs
  <1>2. PICK k, c : Fits(graph, graph', X \cup MainPads, Y, k, c)
    BY DEF PhiStep, FitsOn
  <1>3. /\ Size(graph') = k /\ k \in Nat /\ Size(graph) \in Nat /\ Size(graph) <= k /\ Left(graph')
        /\ \A x \in 1 .. Size(graph) : /\ x \in Y \/ Phi(graph', x) = Phi(graph, x)
                                       /\ x \in X \cup MainPads \/ Into(graph', x) = Into(graph, x)
        /\ \A x \in 1 .. k : x > Size(graph) => Phi(graph', x) = {}
    BY <1>2 DEF Fits
  <1>4. Y \subseteq X /\ (open = <<>> => X = {}) /\ (open # <<>> => X \subseteq Own(Top))
    BY DEF PhiStep
  <1>5. \A x \in MainPads : \E j \in DOMAIN open : open[j].op = "begin" /\ x = Pad(open[j]) /\ x \in Own(open[j])
    <2>1. MainPads \subseteq PadsOf(open)
      BY PadsOfMain
    <2>2. \A j \in DOMAIN open : open[j].op = "begin" => Pad(open[j]) \in Own(open[j])
      BY DEF Own, Pad, HasBlocks
    <2>. QED BY <2>1, <2>2 DEF PadsOf
  <1>6. \A x \in MainPads : Phi(graph, x) = {}
    <2> SUFFICES ASSUME NEW x \in MainPads PROVE Phi(graph, x) = {}
      OBVIOUS
    <2>1. PICK j \in DOMAIN open : open[j].op = "begin" /\ x = Pad(open[j])
      BY <1>5
    <2>2. Knows(graph, open[j])
      BY <1>1 DEF PhisAre
    <2>. QED BY <2>1, <2>2 DEF Knows, HasBlocks, Pad
  <1>7. ASSUME NEW b \in 1 .. k PROVE Matches(Phi(graph', b), Into(graph', b))
    <2>1. \A from : Matches({}, from)
      BY DEF Matches
    <2>2. CASE b \in X
      BY <2>2 DEF PhiStep
    <2>3. CASE b > Size(graph)
      BY <1>3, <2>1, <2>3
    <2>4. CASE b \in 1 .. Size(graph) /\ b \notin X
      <3>1. Phi(graph', b) = Phi(graph, b) /\ Matches(Phi(graph, b), Into(graph, b))
        BY <1>1, <1>3, <1>4, <2>4 DEF PhisAre
      <3>2. CASE b \in MainPads
        BY <1>6, <2>1, <3>1, <3>2
      <3>3. CASE b \notin MainPads
        BY <1>3, <2>4, <3>1, <3>3
      <3>. QED BY <3>2, <3>3
    <2>. QED BY <1>3, <2>2, <2>3, <2>4
  <1>8. ASSUME NEW i \in DOMAIN open, i = Len(open) => X = {} PROVE Knows(graph', open[i])
    <2>1. Knows(graph, open[i]) /\ open[i].base \in Int /\ Own(open[i]) \subseteq 1 .. Size(graph)
      BY <1>1, StackBlocks DEF PhisAre
    <2>2. ASSUME NEW x \in Own(open[i]) PROVE x \notin X
      <3>1. open # <<>> => Top = open[Len(open)] /\ Len(open) \in DOMAIN open
        BY StackBlocks
      <3>. QED BY <1>1, <1>4, <1>8, <2>2, <3>1, OwnsApart
    <2>3. ASSUME NEW x \in Own(open[i]), x \in MainPads PROVE open[i].op = "begin" /\ x = Pad(open[i])
      <3>1. PICK j \in DOMAIN open : open[j].op = "begin" /\ x = Pad(open[j]) /\ x \in Own(open[j])
        BY <1>5, <2>3
      <3>. QED BY <1>1, <2>3, <3>1, OwnsApart
    <2>. QED BY <1>3, <1>4, <2>1, <2>2, <2>3, KnowsKept
  <1>9. \A i \in DOMAIN open' : Knows(graph', open'[i])
    BY <1>8 DEF PhiStep
  <1>10. Handled(graph', open')
    BY DEF PhiStep
  <1>. QED BY <1>3, <1>7, <1>9, <1>10 DEF Phis, PhisAre

LEMMA PhisCrash == mode' \in {"crashed", "undefined"} => Phis'
BY DEF Phis, Active, Finished

\* How the stack changes.
LEMMA KnowsPush ==
  ASSUME Typed, NEW f, open' = Append(open, f), Knows(graph', f), NEW X, X = {},
         f.op = "begin" => f.part # "rescue"
  PROVE  /\ \A i \in DOMAIN open' :
              \/ i \in DOMAIN open /\ open'[i] = open[i] /\ (i = Len(open) => X = {})
              \/ Knows(graph', open'[i])
         /\ Handled(graph', open')
  <1>1. PICK top \in Nat :
          /\ DOMAIN open = 1 .. top /\ DOMAIN Append(open, f) = 1 .. top + 1 /\ Append(open, f)[top + 1] = f
          /\ \A i \in 1 .. top : Append(open, f)[i] = open[i]
    BY StackDomains
  <1>2. \A i \in 1 .. top + 1 : i \in 1 .. top \/ i = top + 1
    BY <1>1
  <1>3. Last(open') = f
    <2>1. open \in Seq(FramesOf(Len(program)))
      BY DEF Typed
    <2>2. Len(Append(open, f)) = Len(open) + 1 /\ Append(open, f)[Len(open) + 1] = f
      BY <2>1, StackChanges
    <2>. QED BY <2>2 DEF Last
  <1>. QED BY <1>1, <1>2, <1>3 DEF Handled

LEMMA KnowsPop ==
  ASSUME Typed, open # <<>>, open' = Below, NEW X
  PROVE  /\ \A i \in DOMAIN open' :
              \/ i \in DOMAIN open /\ open'[i] = open[i] /\ (i = Len(open) => X = {})
              \/ Knows(graph', open'[i])
         /\ Handled(graph', open')
  <1>1. PICK top \in Nat :
          /\ top = Len(open) /\ DOMAIN open = 1 .. top
          /\ top >= 1 /\ Top = open[top] /\ DOMAIN Below = 1 .. top - 1 /\ \A i \in 1 .. top - 1 : Below[i] = open[i]
    BY StackDomains
  <1>2. \A i \in 1 .. top - 1 : i \in 1 .. top /\ i # top
    BY <1>1
  <1>3. ASSUME Below # <<>> PROVE ~(Last(Below).op = "begin" /\ Last(Below).part = "rescue")
    <2>1. open \in Seq(FramesOf(Len(program)))
      BY DEF Typed
    <2>2. Below \in Seq(FramesOf(Len(program))) /\ Len(Below) = top - 1
      BY <1>1, <2>1, StackChanges
    <2>3. top - 1 \in 1 .. top - 1
      BY <1>3, <2>2, EmptySeq
    <2>4. Last(Below) = open[top - 1]
      BY <1>1, <2>2, <2>3 DEF Last
    <2>. QED BY <1>1, <2>3, <2>4 DEF Typed, StackOK
  <1>. QED BY <1>1, <1>2, <1>3 DEF Handled

LEMMA KnowsTop ==
  ASSUME Typed, open # <<>>, NEW f, open' = Append(Below, f), Knows(graph', f), NEW X,
         f.op = "begin" /\ f.part = "rescue" /\ f.rescues = <<>> /\ ~f.optional => graph'.cur = f.handler
  PROVE  /\ \A i \in DOMAIN open' :
              \/ i \in DOMAIN open /\ open'[i] = open[i] /\ (i = Len(open) => X = {})
              \/ Knows(graph', open'[i])
         /\ Handled(graph', open')
  <1>1. PICK top \in Nat :
          /\ top = Len(open) /\ DOMAIN open = 1 .. top
          /\ top >= 1 /\ Top = open[top]
          /\ DOMAIN Append(Below, f) = 1 .. top /\ Append(Below, f)[top] = f
          /\ \A i \in 1 .. top - 1 : Append(Below, f)[i] = open[i]
    BY StackDomains
  <1>2. \A i \in 1 .. top : (i \in 1 .. top - 1 /\ i # top) \/ i = top
    BY <1>1
  <1>3. Last(open') = f
    <2>1. open \in Seq(FramesOf(Len(program)))
      BY DEF Typed
    <2>2. Len(Append(Below, f)) = Len(open) /\ Append(Below, f)[Len(open)] = f
      BY <2>1, StackChanges
    <2>. QED BY <2>2 DEF Last
  <1>. QED BY <1>1, <1>2, <1>3 DEF Handled

-----------------------------------------------------------------------------
(* The phis after every step.                                              *)

LEMMA PhisFrom ==
  ASSUME Typed, Phis, Active, NEW X, NEW Y
  PROVE  /\ Fits(graph, graph, X, Y, Size(graph), graph.cur) /\ FitsOn(graph, graph, X, Y)
         /\ graph.cur \in 1 .. Size(graph) /\ Size(graph) \in Nat /\ Shaped(graph) /\ Left(graph)
         /\ \A i \in DOMAIN open : Knows(graph, open[i])
         /\ open # <<>> => Knows(graph, Top)
         /\ \A b \in 1 .. Size(graph) : Matches(Phi(graph, b), Into(graph, b)) /\ At(graph, b, Into(graph, b), Phi(graph, b))
  <1>1. Shaped(graph) /\ graph.cur \in 1 .. Size(graph) /\ Size(graph) \in Nat
    BY EdgeTypes, TypedParts
  <1>2. PhisAre(graph, open)
    BY DEF Phis
  <1>3. Fits(graph, graph, X, Y, Size(graph), graph.cur)
    BY <1>1, <1>2, FitsNothing DEF PhisAre
  <1>4. open # <<>> => Knows(graph, Top)
    BY <1>2, StackBlocks DEF PhisAre
  <1>. QED BY <1>1, <1>2, <1>3, <1>4 DEF FitsOn, PhisAre, At, Joint

\* New blocks are not come to yet.
LEMMA AtNew ==
  ASSUME Typed, NEW m \in Nat
  PROVE  \A x \in Size(graph) + 1 .. Size(graph) + m : At(Create(graph, m), x, {}, {})
  <1> DEFINE h == Create(graph, m)
             k == Size(graph)
  <1>1. Shaped(graph) /\ \A a, b : Enters(graph, a, b) => b \in 1 .. k
    BY EdgeTypes
  <1>2. k \in Nat /\ graph.cur \in 1 .. k
    BY TypedParts
  <1>3. /\ Shaped(h) /\ Size(h) = k + m /\ h.cur = graph.cur
        /\ \A x \in k + 1 .. k + m : Phi(h, x) = {}
        /\ \A x : Into(h, x) = Into(graph, x)
    BY <1>1, CreateJoint
  <1> HIDE DEF h, k
  <1>4. \A x \in k + 1 .. k + m : x \notin 1 .. k /\ x \in 1 .. k + m
    BY <1>2
  <1>5. graph.cur \in 1 .. k + m
    BY <1>2
  <1>6. \A x \in k + 1 .. k + m : Into(graph, x) = {}
    BY <1>1, <1>4 DEF Into
  <1>7. \A x \in k + 1 .. k + m : At(h, x, {}, {})
    BY <1>3, <1>4, <1>5, <1>6 DEF At, Joint
  <1>. QED BY <1>7 DEF h, k

\* The block that is generated has not been left yet.
LEMMA OngoingStays ==
  ASSUME NEW g, Left(g), NEW a \in Ongoing(g), NEW x
  PROVE  a \notin Into(g, x)
  <1>1. Members(<<>>) = {}
    BY MembersOf
  <1>. QED BY <1>1 DEF Left, Into, Enters, Jumps, Throws

LEMMA CurrentStays ==
  ASSUME Typed, Flow, Phis, Active, ~Idles(open), NEW x
  PROVE  graph.cur \notin Into(graph, x)
  <1>1. graph.cur \in Ongoing(graph)
    BY Standing DEF GoesOnIn, Stands
  <1>2. Left(graph)
    BY PhisFrom
  <1>. QED BY <1>1, <1>2, OngoingStays

LEMMA KnowsNothing == ASSUME NEW g, NEW f, ~HasBlocks(f) PROVE Knows(g, f)
BY DEF Knows, HasBlocks

\* A step that goes on quietly is none of a begin's.
NotRescuing == mode \in {"statement", "body"} \/ (open # <<>> /\ Top.op # "begin")
LEMMA QuietSteps ==
  ASSUME \/ Literal \/ Absent \/ HolderStarts \/ BlockStarts \/ BlockGoesOn \/ BlockEnds
         \/ AssignOperand \/ IndexStarts \/ IndexRight \/ CallOperand \/ ReturnOperand \/ IndexOperand
         \/ \E n \in Nat : CallStarts(n) \/ ReturnStarts(n)
         \/ \E name \in Names : ReadStarts(name) \/ AssignStarts(name)
         \/ \E else \in BOOLEAN : IfStarts(else)
         \/ \E whens \in 1 .. 2 : CaseStarts(whens)
  PROVE  NotRescuing
  <1>1. ASSUME NEW kind, NEW parts, Starts(kind, parts) PROVE mode = "statement"
    BY <1>1 DEF Starts
  <1>2. ASSUME NEW op, NEW part, Has(op, part), op # "begin" PROVE open # <<>> /\ Top.op # "begin"
    BY <1>2 DEF Has
  <1>3. CASE Literal \/ Absent \/ HolderStarts \/ IndexStarts
    BY <1>1, <1>3 DEF Literal, Absent, HolderStarts, IndexStarts, NotRescuing
  <1>4. CASE BlockStarts
    BY <1>4 DEF BlockStarts, Starts, NotRescuing
  <1>5. CASE \/ BlockGoesOn \/ BlockEnds \/ AssignOperand \/ IndexRight \/ CallOperand \/ ReturnOperand \/ IndexOperand
    BY <1>2, <1>5 DEF BlockGoesOn, BlockEnds, AssignOperand, IndexRight, CallOperand, ReturnOperand, IndexOperand, NotRescuing
  <1>6. CASE \/ \E n \in Nat : CallStarts(n) \/ ReturnStarts(n)
             \/ \E name \in Names : ReadStarts(name) \/ AssignStarts(name)
    BY <1>1, <1>6 DEF CallStarts, ReturnStarts, ReadStarts, AssignStarts, NotRescuing
  <1>7. CASE \/ \E else \in BOOLEAN : IfStarts(else)
             \/ \E whens \in 1 .. 2 : CaseStarts(whens)
    BY <1>1, <1>7 DEF IfStarts, CaseStarts, NotRescuing
  <1>. QED BY <1>3, <1>4, <1>5, <1>6, <1>7

LEMMA QuietPhis ==
  ASSUME Typed, HandlersNest, Flow, Phis, GoesOnQuietly, NotRescuing
  PROVE  Phis'
  <1>1. CASE mode' \in {"crashed", "undefined"}
    BY <1>1, PhisCrash
  <1>2. CASE Active /\ KeepsBlocks /\ Continues(graph, graph')
    <2> DEFINE On(h) == FitsOn(graph, h, MainPads, {})
    <2>1. On(graph)
      BY <1>2, PhisFrom
    <2>2. ASSUME NEW g, On(g), NEW h, Emits(g, h) PROVE On(h)
      BY <2>2, FitsOnEmit, FitsIntoOf DEF Emits
    <2>3. ASSUME NEW g, On(g), NEW h, Calls(g, h) PROVE On(h)
      BY <2>3, FitsOnLangCall DEF Calls
    <2> HIDE DEF On
    <2>4. On(graph')
      BY <1>2, <2>1, <2>2, <2>3 DEF Continues
    <2>5. FitsOn(graph, graph', {} \cup MainPads, {})
      BY <2>4 DEF On
    <2>6. /\ \A i \in DOMAIN open' :
               \/ i \in DOMAIN open /\ open'[i] = open[i] /\ (i = Len(open) => {} = {})
               \/ Knows(graph', open'[i])
          /\ Handled(graph', open')
      <3>1. CASE open' = open
        <4>1. open # <<>> => ~(Top.op = "begin" /\ Top.part = "rescue")
          BY DEF NotRescuing, Typed, StackOK, IsBody
        <4>. QED BY <3>1, <4>1 DEF Handled, Top
      <3>2. CASE open # <<>> /\ ~HasBlocks(Top) /\ open' = Below
        BY <3>2, KnowsPop
      <3>3. ASSUME NEW f, ~HasBlocks(f), open' = Append(open, f)
            PROVE  /\ \A i \in DOMAIN open' :
                        \/ i \in DOMAIN open /\ open'[i] = open[i] /\ (i = Len(open) => {} = {})
                        \/ Knows(graph', open'[i])
                   /\ Handled(graph', open')
        <4>1. f.op # "begin" /\ Knows(graph', f)
          BY <3>3, KnowsNothing DEF HasBlocks
        <4>. QED BY <3>3, <4>1, KnowsPush
      <3>4. ASSUME NEW f, open # <<>>, ~HasBlocks(f), open' = Append(Below, f)
            PROVE  /\ \A i \in DOMAIN open' :
                        \/ i \in DOMAIN open /\ open'[i] = open[i] /\ (i = Len(open) => {} = {})
                        \/ Knows(graph', open'[i])
                   /\ Handled(graph', open')
        <4>1. f.op # "begin" /\ Knows(graph', f)
          BY <3>4, KnowsNothing DEF HasBlocks
        <4>. QED BY <3>4, <4>1, KnowsTop
      <3>. QED BY <1>2, <3>1, <3>2, <3>3, <3>4 DEF KeepsBlocks
    <2>7. PhiStep({}, {})
      BY <1>2, <2>5, <2>6 DEF PhiStep
    <2>. QED BY <2>7, PhisKept
  <1>. QED BY <1>1, <1>2 DEF GoesOnQuietly

\* codegenIf and codegenWhile.
LEMMA IfConditionPhis == ASSUME Typed, HandlersNest, Flow, Phis, IfCondition PROVE Phis'
  <1> DEFINE k  == Size(graph)
             c  == graph.cur
             X  == {} \cup MainPads
             g1 == Create(graph, 3)
             g2 == Emit(g1, To("cond", <<value>>, <<k + 2, k + 3>>))
             g3 == MoveTo(g2, k + 2)
             t  == Top
             f  == [t EXCEPT !.part = "true", !.base = k]
  <1>1. /\ Has("if", "condition")
        /\ mode' = "crashed" \/ (graph' = g3 /\ open' = Append(Below, f))
    BY DEF IfCondition, Crashes, TopIs
  <1>2. Active /\ open # <<>> /\ t.op = "if" /\ t \in FramesOf(Len(program))
    BY <1>1, TypedParts DEF Has, Active
  <1>3. f.op = "if" /\ f.part = "true" /\ f.base = k
    <2> HIDE DEF k, t
    <2>. QED BY <1>2 DEF FramesOf
  <1> HIDE DEF f, t
  <1>4. Fits(graph, graph, X, {}, k, c) /\ c \in 1 .. k /\ k \in Nat
    BY <1>2, PhisFrom
  <1>5. At(g1, k + 1, {}, {}) /\ Size(g1) = k + 3 /\ g1.cur = c
    <2>1. k + 1 \in k + 1 .. k + 3
      BY <1>4
    <2>2. Fits(graph, g1, X, {}, k + 3, c)
      BY <1>4, FitsCreate
    <2>. QED BY <2>1, <2>2, AtNew DEF Fits
  <1>6. k + 2 \in 1 .. k + 3 /\ k + 2 \in Int /\ k + 2 \notin 1 .. k /\ k + 3 \notin 1 .. k /\ c \in 1 .. k + 3 /\ k + 1 \notin {k + 2, k + 3}
    BY <1>4
  <1>7. Fits(graph, g1, X, {}, k + 3, c)
    BY <1>4, FitsCreate
  <1> HIDE DEF g1, X
  <1>8. Fits(graph, g2, X, {}, k + 3, c)
    BY <1>6, <1>7, FitsIntoOf, FitsEmit
  <1>9. At(g2, k + 1, {}, {}) /\ Size(g2) = k + 3
    <2> DEFINE args == <<value>>
               x == k + 1
               y == k + 2
               z == k + 3
               instr == To("cond", args, <<y, z>>)
    <2>1. x # y /\ x # z /\ At(g1, x, {}, {}) /\ instr = To("cond", args, <<y, z>>)
      BY <1>5, <1>6
    <2>2. g2 = Emit(g1, instr)
      OBVIOUS
    <2> HIDE DEF args, g2, x, y, z, instr
    <2>3. At(Emit(g1, instr), x, {}, {})
      BY <2>1, AtPasses
    <2>. QED BY <1>8, <2>2, <2>3 DEF x, Fits
  <1> HIDE DEF g2
  <1>10. Fits(graph, g3, X, {}, k + 3, k + 2) /\ At(g3, k + 1, {}, {})
    BY <1>6, <1>8, <1>9, FitsMoveTo, AtMoveTo
  <1> HIDE DEF g3
  <1>11. CASE graph' = g3 /\ open' = Append(Below, f)
    <2>1. Knows(graph', f)
      BY <1>3, <1>10, <1>11 DEF Knows, At
    <2>2. FitsOn(graph, graph', {} \cup MainPads, {})
      BY <1>6, <1>10, <1>11 DEF FitsOn, X
    <2>3. PhiStep({}, {})
      BY <1>2, <1>3, <1>11, <2>1, <2>2, KnowsTop DEF PhiStep
    <2>. QED BY <2>3, PhisKept
  <1>. QED BY <1>1, <1>11, PhisCrash

LEMMA TrueBranchPhis == ASSUME Typed, HandlersNest, Flow, Phis, TrueBranch PROVE Phis'
  <1> DEFINE k  == Size(graph)
             c  == graph.cur
             b  == Top.base
             X  == {b + 1} \cup MainPads
             g1 == Emit(graph, To("br", <<>>, <<b + 1>>))
             g2 == MoveTo(g1, b + 3)
             nil == Instr("load", <<Top.stmt, "nil">>, <<>>)
             g3 == Emit(g2, nil)
             t  == Top
             y  == <<value>>
             f  == [t EXCEPT !.part = "false", !.from = c, !.args = y]
  <1>1. /\ Has("if", "true") /\ open' = Append(Below, f)
        /\ graph' = g2 \/ graph' = g3
    BY DEF TrueBranch, TopIs, NoBranch
  <1>2. Active /\ open # <<>> /\ HasBlocks(Top) /\ t.op = "if" /\ t.part = "true" /\ t \in FramesOf(Len(program))
    BY <1>1, TypedParts DEF Has, Active, HasBlocks
  <1>3. f.op = "if" /\ f.part = "false" /\ f.base = b /\ f.from = c
    <2>1. t.base = b
      OBVIOUS
    <2> HIDE DEF c, y, t, b
    <2>. QED BY <1>2, <2>1 DEF FramesOf
  <1> HIDE DEF f
  <1>4. {b + 1} \subseteq Own(Top) /\ b + 1 \in 1 .. k /\ b + 3 \in 1 .. k
    BY <1>2, AtTop
  <1>5. Fits(graph, graph, X, {}, k, c) /\ c \in 1 .. k /\ k \in Nat /\ At(graph, b + 1, {}, {})
    <2>1. Joint(graph, b + 1, {}, {})
      BY <1>2, PhisFrom DEF Knows
    <2>. QED BY <1>2, <1>4, <2>1, PhisFrom DEF Joint
  <1>6. b + 1 \in X /\ b + 3 \in Int /\ Quiet(nil)
    BY <1>4, QuietInstrs
  <1>12. graph.cur = c /\ Size(graph) = k
    OBVIOUS
  <1> HIDE DEF t, k, c, b, X, nil
  <1>7. Fits(graph, g1, X, {}, k, c)
    BY <1>5, <1>6, FitsIntoOf, FitsEmit
  <1>8. At(g1, b + 1, {c}, {}) /\ Size(g1) = k
    <2>1. At(g1, b + 1, {} \cup {c}, {}) /\ Size(g1) = k
      BY <1>5, <1>12, AtJump
    <2>. QED BY <2>1
  <1> HIDE DEF g1
  <1>9. Fits(graph, g2, X, {}, k, b + 3) /\ At(g2, b + 1, {c}, {})
    BY <1>4, <1>6, <1>7, <1>8, FitsMoveTo, AtMoveTo
  <1> HIDE DEF g2
  <1>10. Fits(graph, g3, X, {}, k, b + 3) /\ At(g3, b + 1, {c}, {})
    <2>1. FitsInto(nil, graph, X)
      BY <1>6, FitsIntoOf
    <2>2. Fits(graph, g3, X, {}, k, b + 3)
      BY <1>4, <1>9, <2>1, FitsEmit
    <2>3. At(g3, b + 1, {c}, {})
      BY <1>6, <1>9, AtQuiet
    <2>. QED BY <2>2, <2>3
  <1> HIDE DEF g3
  <1>11. FitsOn(graph, graph', {b + 1} \cup MainPads, {}) /\ Joint(graph', b + 1, {c}, {})
    BY <1>1, <1>4, <1>9, <1>10 DEF FitsOn, X, At
  <1>13. Knows(graph', f)
    BY <1>3, <1>11 DEF Knows
  <1>14. Matches(Phi(graph', b + 1), Into(graph', b + 1))
    BY <1>11 DEF Joint, Matches
  <1>15. PhiStep({b + 1}, {})
    BY <1>1, <1>2, <1>3, <1>4, <1>11, <1>13, <1>14, KnowsTop DEF PhiStep
  <1>. QED BY <1>15, PhisKept
\* Two values come together in a phi of the block b, that of the branch x and that of the one y.
LEMMA JoinsTwo ==
  ASSUME NEW h, NEW b, NEW x, NEW y, x # y, At(h, b, {x, y}, {}), NEW id, NEW v, NEW w, NEW new,
         new = AddIncoming(AddIncoming(h, b, id, v, x), b, id, w, y)
  PROVE  /\ At(new, b, {x, y}, {Incoming(id, v, x), Incoming(id, w, y)})
         /\ Matches({Incoming(id, v, x), Incoming(id, w, y)}, {x, y})
  <1> DEFINE p  == Incoming(id, v, x)
             q  == Incoming(id, w, y)
             h1 == AddIncoming(h, b, id, v, x)
  <1>1. At(h1, b, {x, y}, {} \cup {p})
    BY AtAddIncoming
  <1> HIDE DEF h1
  <1>2. At(AddIncoming(h1, b, id, w, y), b, {x, y}, ({} \cup {p}) \cup {q})
    BY <1>1, AtAddIncoming
  <1>3. ({} \cup {p}) \cup {q} = {p, q}
    OBVIOUS
  <1> HIDE DEF p, q
  <1>4. At(AddIncoming(h1, b, id, w, y), b, {x, y}, {p, q})
    BY <1>2, <1>3
  <1>. QED BY <1>4, MatchesTwo DEF h1, p, q

LEMMA FalseBranchPhis == ASSUME Typed, HandlersNest, Flow, Phis, FalseBranch PROVE Phis'
  <1> DEFINE k  == Size(graph)
             c  == graph.cur
             m  == Top.base + 1
             X  == {m} \cup MainPads
             Y  == {m}
             id == <<Top.stmt, "value">>
             v  == Top.args[1]
             x  == Top.from
             g1 == Emit(graph, To("br", <<>>, <<m>>))
             g2 == AddIncoming(g1, m, id, v, x)
             g3 == AddIncoming(g2, m, id, value, c)
             g4 == MoveTo(g3, m)
  <1>1. /\ Has("if", "false")
        /\ mode' = "crashed" \/ (graph' = g4 /\ open' = Below)
    BY DEF FalseBranch, Crashes
  <1>2. Active /\ open # <<>> /\ HasBlocks(Top) /\ Top.op = "if" /\ Top.part = "false" /\ ~Idles(open)
    BY <1>1, NotIdle DEF Has, Active, HasBlocks, Idle
  <1>3. Y \subseteq Own(Top) /\ m \in 1 .. k /\ m \in Int
    BY <1>2, AtTop
  <1>4. Fits(graph, graph, X, Y, k, c) /\ c \in 1 .. k /\ At(graph, m, {x}, {}) /\ Joint(graph, m, {x}, {})
    <2>1. Joint(graph, m, {x}, {})
      BY <1>2, PhisFrom DEF Knows
    <2>. QED BY <1>2, <1>3, <2>1, PhisFrom DEF Joint
  <1>5. x # c
    BY <1>2, <1>4, CurrentStays DEF Joint
  <1>6. graph.cur = c /\ m \in X /\ m \in Y
    OBVIOUS
  <1> HIDE DEF k, c, m, X, Y, id, v, x
  <1>7. m \in 1 .. Size(graph)
    BY <1>3 DEF k
  <1>8. Fits(graph, g1, X, Y, k, c)
    BY <1>4, <1>6, FitsIntoOf, FitsEmit
  <1>9. At(g1, m, {x, c}, {})
    <2>1. At(g1, m, {x} \cup {c}, {})
      BY <1>4, <1>6, AtJump
    <2>2. {x} \cup {c} = {x, c}
      OBVIOUS
    <2>. QED BY <2>1, <2>2
  <1> DEFINE F == {Incoming(id, v, x), Incoming(id, value, c)}
  <1>10. At(g3, m, {x, c}, F) /\ Matches(F, {x, c})
    <2> HIDE DEF g1
    <2>. QED BY <1>5, <1>9, JoinsTwo
  <1> HIDE DEF F, g1
  <1>11. Fits(graph, g2, X, Y, k, c)
    BY <1>6, <1>7, <1>8, FitsAddIncoming
  <1> HIDE DEF g2
  <1>12. Fits(graph, g3, X, Y, k, c) /\ Size(g3) = k
    <2>1. Fits(graph, g3, X, Y, k, c)
      BY <1>6, <1>7, <1>11, FitsAddIncoming
    <2>. QED BY <2>1 DEF Fits
  <1> HIDE DEF g3
  <1>13. Fits(graph, g4, X, Y, k, m) /\ At(g4, m, {x, c}, F)
    BY <1>3, <1>10, <1>12, FitsMoveTo, AtMoveTo
  <1> HIDE DEF g4
  <1>14. CASE graph' = g4 /\ open' = Below
    <2>1. FitsOn(graph, graph', Y \cup MainPads, Y)
      BY <1>3, <1>13, <1>14 DEF FitsOn, X, Y
    <2>2. \A b \in Y : Matches(Phi(graph', b), Into(graph', b))
      BY <1>10, <1>13, <1>14 DEF At, Joint, Y
    <2>3. PhiStep(Y, Y)
      BY <1>2, <1>3, <1>14, <2>1, <2>2, KnowsPop DEF PhiStep
    <2>. QED BY <2>3, PhisKept
  <1>. QED BY <1>1, <1>14, PhisCrash

LEMMA WhileStartsPhis == ASSUME Typed, HandlersNest, Flow, Phis, WhileStarts PROVE Phis'
  <1> DEFINE k  == Size(graph)
             c  == graph.cur
             x  == k + 2
             X  == {} \cup MainPads
             g1 == Create(graph, 3)
             g2 == Emit(g1, To("br", <<>>, <<x>>))
             g3 == MoveTo(g2, k + 1)
             f  == [Running("while", "body", This) EXCEPT !.base = k, !.from = c]
  <1>1. mode = "statement" /\ graph' = g3 /\ open' = Append(open, f)
    BY DEF WhileStarts, Starts, Push
  <1>2. Active
    BY <1>1 DEF Active
  <1>3. f.op = "while" /\ f.part = "body" /\ f.base = k /\ f.from = c
    <2> HIDE DEF k, c
    <2>. QED BY DEF Running
  <1> HIDE DEF f
  <1>4. Fits(graph, graph, X, {}, k, c) /\ c \in 1 .. k /\ k \in Nat
    BY <1>2, PhisFrom
  <1>5. Fits(graph, g1, X, {}, k + 3, c)
    BY <1>4, FitsCreate
  <1>6. At(g1, x, {}, {}) /\ g1.cur = c
    <2>1. x \in k + 1 .. k + 3
      BY <1>4
    <2>. QED BY <1>5, <2>1, AtNew DEF Fits
  <1>7. c \in 1 .. k + 3 /\ x \notin 1 .. Size(graph) /\ k + 1 \in 1 .. k + 3 /\ k + 1 \in Int
    BY <1>4
  <1> HIDE DEF g1, X, x
  <1>8. Fits(graph, g2, X, {}, k + 3, c)
    BY <1>5, <1>7, FitsIntoOf, FitsEmit
  <1>9. At(g2, x, {c}, {})
    <2>1. At(g2, x, {} \cup {c}, {})
      BY <1>6, AtJump
    <2>. QED BY <2>1
  <1> HIDE DEF g2
  <1>10. Fits(graph, g3, X, {}, k + 3, k + 1) /\ At(g3, x, {c}, {})
    <2>1. Size(g2) = k + 3
      BY <1>8 DEF Fits
    <2>. QED BY <1>7, <1>8, <1>9, <2>1, FitsMoveTo, AtMoveTo
  <1> HIDE DEF g3
  <1>11. Phi(g3, k + 1) = {} /\ Phi(g3, k + 3) = {}
    BY <1>4, <1>10 DEF Fits
  <1>12. Knows(graph', f)
    BY <1>1, <1>3, <1>10, <1>11 DEF Knows, At, x
  <1>13. FitsOn(graph, graph', {} \cup MainPads, {})
    BY <1>1, <1>7, <1>10 DEF FitsOn, X
  <1>14. PhiStep({}, {})
    BY <1>1, <1>2, <1>3, <1>12, <1>13, KnowsPush DEF PhiStep
  <1>. QED BY <1>14, PhisKept

LEMMA WhileBodyPhis == ASSUME Typed, HandlersNest, Flow, Phis, WhileBody PROVE Phis'
  <1> DEFINE k  == Size(graph)
             c  == graph.cur
             b  == Top.base
             m  == b + 2
             X  == {m} \cup MainPads
             Y  == {m}
             id == <<Top.stmt, "value">>
             v  == <<Top.stmt, "entry">>
             x  == Top.from
             load == Instr("load", v, <<>>)
             g1 == Emit(graph, To("br", <<>>, <<m>>))
             g2 == MoveTo(g1, m)
             g3 == AddIncoming(g2, m, id, v, x)
             g4 == AddIncoming(g3, m, id, value, c)
             g5 == Emit(g4, load)
             t  == Top
             args == <<value>>
             f  == [t EXCEPT !.part = "condition", !.args = args]
  <1>1. /\ Has("while", "body")
        /\ mode' = "crashed" \/ (graph' = g5 /\ open' = Append(Below, f))
    BY DEF WhileBody, Crashes, TopIs
  <1>2. /\ Active /\ open # <<>> /\ HasBlocks(Top) /\ Top.op = "while" /\ Top.part = "body" /\ ~Idles(open)
        /\ t \in FramesOf(Len(program))
    BY <1>1, NotIdle, TypedParts DEF Has, Active, HasBlocks, Idle
  <1>3. f.op = "while" /\ f.part = "condition" /\ f.base = b
    <2>1. t.base = b /\ t.op = "while"
      BY <1>2
    <2> HIDE DEF args, t, b
    <2>. QED BY <1>2, <2>1 DEF FramesOf
  <1> HIDE DEF f
  <1>4. Y \subseteq Own(Top) /\ m \in 1 .. k /\ m \in Int /\ b + 1 \in 1 .. k /\ b + 3 \in 1 .. k /\ b + 1 # m /\ b + 3 # m
    BY <1>2, AtTop
  <1>5. /\ Fits(graph, graph, X, Y, k, c) /\ c \in 1 .. k /\ At(graph, m, {x}, {}) /\ Joint(graph, m, {x}, {})
        /\ Phi(graph, b + 1) = {} /\ Phi(graph, b + 3) = {}
    <2>1. Joint(graph, m, {x}, {}) /\ Phi(graph, b + 1) = {} /\ Phi(graph, b + 3) = {}
      BY <1>2, PhisFrom DEF Knows
    <2>. QED BY <1>2, <1>4, <2>1, PhisFrom DEF Joint
  <1>6. x # c
    BY <1>2, <1>5, CurrentStays DEF Joint
  <1>7. graph.cur = c /\ m \in X /\ m \in Y /\ Quiet(load)
    BY QuietInstrs
  <1> HIDE DEF t, k, c, m, X, Y, id, v, x, args, load
  <1>8. m \in 1 .. Size(graph)
    BY <1>4 DEF k
  <1>9. Fits(graph, g1, X, Y, k, c) /\ Size(g1) = k
    <2>1. Fits(graph, g1, X, Y, k, c)
      BY <1>5, <1>7, FitsIntoOf, FitsEmit
    <2>. QED BY <2>1 DEF Fits
  <1>10. At(g1, m, {x, c}, {})
    <2>1. At(g1, m, {x} \cup {c}, {})
      BY <1>5, <1>7, AtJump
    <2>2. {x} \cup {c} = {x, c}
      OBVIOUS
    <2>. QED BY <2>1, <2>2
  <1> HIDE DEF g1
  <1>11. Fits(graph, g2, X, Y, k, m) /\ At(g2, m, {x, c}, {})
    BY <1>4, <1>9, <1>10, FitsMoveTo, AtMoveTo
  <1> DEFINE F == {Incoming(id, v, x), Incoming(id, value, c)}
  <1>12. At(g4, m, {x, c}, F) /\ Matches(F, {x, c})
    <2> HIDE DEF g2
    <2>. QED BY <1>6, <1>11, JoinsTwo
  <1> HIDE DEF F, g2
  <1>13. Fits(graph, g3, X, Y, k, m)
    BY <1>7, <1>8, <1>11, FitsAddIncoming
  <1> HIDE DEF g3
  <1>14. Fits(graph, g4, X, Y, k, m)
    BY <1>7, <1>8, <1>13, FitsAddIncoming
  <1> HIDE DEF g4
  <1>15. Fits(graph, g5, X, Y, k, m) /\ At(g5, m, {x, c}, F)
    <2>1. FitsInto(load, graph, X)
      BY <1>7, FitsIntoOf
    <2>2. Fits(graph, g5, X, Y, k, m)
      BY <1>4, <1>14, <2>1, FitsEmit
    <2>3. At(g5, m, {x, c}, F)
      BY <1>7, <1>12, AtQuiet
    <2>. QED BY <2>2, <2>3
  <1> HIDE DEF g5
  <1>16. CASE graph' = g5 /\ open' = Append(Below, f)
    <2>1. FitsOn(graph, graph', Y \cup MainPads, Y)
      BY <1>4, <1>15, <1>16 DEF FitsOn, X, Y
    <2>2. \A a \in Y : Matches(Phi(graph', a), Into(graph', a))
      BY <1>12, <1>15, <1>16 DEF At, Joint, Y
    <2>3. Phi(graph', b + 1) = {} /\ Phi(graph', b + 3) = {}
      BY <1>4, <1>5, <1>15, <1>16 DEF Fits, Y, k
    <2>4. Knows(graph', f)
      BY <1>3, <2>3 DEF Knows
    <2>5. PhiStep(Y, Y)
      BY <1>2, <1>3, <1>4, <1>16, <2>1, <2>2, <2>4, KnowsTop DEF PhiStep
    <2>. QED BY <2>5, PhisKept
  <1>. QED BY <1>1, <1>16, PhisCrash

LEMMA WhileConditionPhis == ASSUME Typed, HandlersNest, Flow, Phis, WhileCondition PROVE Phis'
  <1> DEFINE k  == Size(graph)
             c  == graph.cur
             y  == Top.base + 1
             z  == Top.base + 3
             X  == {y, z} \cup MainPads
             args == <<value>>
             g1 == Emit(graph, To("cond", args, <<y, z>>))
             g2 == MoveTo(g1, z)
  <1>1. /\ Has("while", "condition")
        /\ mode' = "crashed" \/ (graph' = g2 /\ open' = Below)
    BY DEF WhileCondition, Crashes
  <1>2. Active /\ open # <<>> /\ HasBlocks(Top) /\ Top.op = "while" /\ Top.op # "if"
    BY <1>1 DEF Has, Active, HasBlocks
  <1>3. {y, z} \subseteq Own(Top) /\ y \in 1 .. k /\ z \in 1 .. k /\ z \in Int
    BY <1>2, AtTop
  <1>4. Fits(graph, graph, X, {}, k, c) /\ c \in 1 .. k /\ Phi(graph, y) = {} /\ Phi(graph, z) = {}
    <2>1. Phi(graph, y) = {} /\ Phi(graph, z) = {}
      BY <1>2, PhisFrom DEF Knows
    <2>. QED BY <1>2, <2>1, PhisFrom
  <1>5. y \in X /\ z \in X
    OBVIOUS
  <1> HIDE DEF k, c, y, z, X, args
  <1>6. Fits(graph, g1, X, {}, k, c)
    BY <1>4, <1>5, FitsIntoOf, FitsEmit
  <1> HIDE DEF g1
  <1>7. Fits(graph, g2, X, {}, k, z)
    BY <1>3, <1>6, FitsMoveTo
  <1> HIDE DEF g2
  <1>8. CASE graph' = g2 /\ open' = Below
    <2>1. FitsOn(graph, graph', {y, z} \cup MainPads, {})
      BY <1>3, <1>7, <1>8 DEF FitsOn, X
    <2>2. \A b \in {y, z} : Matches(Phi(graph', b), Into(graph', b))
      <3>1. Phi(graph', y) = {} /\ Phi(graph', z) = {}
        BY <1>3, <1>4, <1>7, <1>8 DEF Fits, k
      <3>. QED BY <3>1 DEF Matches
    <2>3. PhiStep({y, z}, {})
      BY <1>2, <1>3, <1>8, <2>1, <2>2, KnowsPop DEF PhiStep
    <2>. QED BY <2>3, PhisKept
  <1>. QED BY <1>1, <1>8, PhisCrash
\* codegenExceptionalBlock.
LEMMA BeginStartsPhis ==
  ASSUME Typed, HandlersNest, Flow, Phis, NEW rescues, NEW ensured, BeginStarts(rescues, ensured)
  PROVE  Phis'
  <1> DEFINE k  == Size(graph)
             c  == graph.cur
             X  == {} \cup MainPads
             g1 == Create(graph, 3)
             r  == Running("begin", "main", This)
             f  == [r EXCEPT !.base = k, !.rescues = rescues, !.optional = ensured]
  <1>1. mode = "statement" /\ open' = Append(open, f) /\ graph' = g1
    BY DEF BeginStarts, Starts, Push
  <1>2. Active
    BY <1>1 DEF Active
  <1>3. f.op = "begin" /\ f.part = "main" /\ f.base = k
    <2>1. r \in [op : {"begin"}, part : {"main"}, stmt : {r.stmt}, left : {r.left}, optional : {r.optional}, base : {r.base},
                 from : {r.from}, args : {r.args}, rescues : {r.rescues}, handler : {r.handler}]
      BY DEF Running
    <2> HIDE DEF k, r
    <2>. QED BY <2>1
  <1> HIDE DEF f, r
  <1>4. Fits(graph, graph, X, {}, k, c) /\ c \in 1 .. k /\ k \in Nat
    BY <1>2, PhisFrom
  <1>5. Fits(graph, g1, X, {}, k + 3, c)
    BY <1>4, FitsCreate
  <1>6. At(g1, k + 2, {}, {})
    <2>1. k + 2 \in k + 1 .. k + 3
      BY <1>4
    <2>. QED BY <2>1, AtNew
  <1> HIDE DEF g1
  <1>7. Phi(g1, k + 1) = {} /\ Phi(g1, k + 3) = {}
    BY <1>4, <1>5 DEF Fits
  <1>8. Knows(graph', f)
    BY <1>1, <1>3, <1>6, <1>7 DEF Knows, At, Ensure
  <1>9. FitsOn(graph, graph', {} \cup MainPads, {})
    <2>1. c \in 1 .. k + 3
      BY <1>4
    <2>. QED BY <1>1, <1>5, <2>1 DEF FitsOn, X
  <1>10. PhiStep({}, {})
    BY <1>1, <1>2, <1>3, <1>8, <1>9, KnowsPush DEF PhiStep
  <1>. QED BY <1>10, PhisKept

\* The phis of the ensure of f are for the blocks that it is come to from.
JoinedIn(g, f) ==
  \E P, F : At(g, Ensure(f), P, F) /\ Matches(F, P) /\ Named(F, f)

\* The block a that is generated goes to it too.
LEMMA JoinsOne ==
  ASSUME NEW h, NEW f, NEW P, NEW F, At(h, Ensure(f), P, F), Matches(F, P),
         Named(F, f) \/ (F = {} /\ P = {}),
         NEW a, h.cur = a, a \notin P, NEW v, NEW again, NEW new,
         \/ new = Joins(Emit(h, To("br", <<>>, <<Ensure(f)>>)), f, v, again, a)
         \/ new = Emit(Joins(h, f, v, again, a), To("br", <<>>, <<Ensure(f)>>))
  PROVE  JoinedIn(new, f)
  <1> DEFINE e  == Ensure(f)
             x  == <<f.stmt, "value">>
             y  == <<f.stmt, "flag">>
             G  == OneMore(F, x, v, y, again, a)
             br == To("br", <<>>, <<e>>)
             h1 == Emit(h, br)
             h2 == Joins(h, f, v, again, a)
  <1>1. x # y /\ \A phi : Named(phi, f) <=> HasIds(phi, x, y)
    BY DEF Named
  <1>2. Matches(G, P \cup {a}) /\ HasIds(G, x, y)
    <2>1. HasIds(F, x, y) \/ (F = {} /\ P = {})
      BY <1>1
    <2> HIDE DEF x, y
    <2>. QED BY <1>1, <2>1, MatchesMore
  <1>3. At(h1, e, P \cup {a}, F)
    BY AtJump
  <1>4. At(h2, e, P, G) /\ h2.cur = a
    BY AtJoins
  <1> HIDE DEF h1, h2
  <1>5. At(Joins(h1, f, v, again, a), e, P \cup {a}, G)
    BY <1>3, AtJoins
  <1> HIDE DEF G
  <1>6. At(Emit(h2, br), e, P \cup {a}, G)
    BY <1>4, AtJump
  <1>7. new = Joins(h1, f, v, again, a) \/ new = Emit(h2, br)
    BY DEF h1, h2
  <1>8. At(new, e, P \cup {a}, G)
    BY <1>5, <1>6, <1>7
  <1>. QED BY <1>1, <1>2, <1>8 DEF JoinedIn

LEMMA JoinedMoveTo ==
  ASSUME NEW g, NEW f, JoinedIn(g, f), NEW b \in 1 .. Size(g)
  PROVE  JoinedIn(MoveTo(g, b), f)
BY AtMoveTo DEF JoinedIn

LEMMA JoinedPhis ==
  ASSUME NEW g, NEW f, JoinedIn(g, f)
  PROVE  Matches(Phi(g, Ensure(f)), Into(g, Ensure(f))) /\ Named(Phi(g, Ensure(f)), f)
BY DEF JoinedIn, At, Joint

\* The begin on top, and its ensure.
LEMMA BeginOnTop ==
  ASSUME Typed, HandlersNest, Flow, Phis, Active, open # <<>>, Top.op = "begin"
  PROVE  /\ Ensure(Top) \in Own(Top) /\ Ensure(Top) \in 1 .. Size(graph) /\ Ensure(Top) \in Int
         /\ Pad(Top) \in Own(Top) /\ Pad(Top) \in 1 .. Size(graph) /\ Rethrow(Top) \in Own(Top) /\ Rethrow(Top) \in 1 .. Size(graph)
         /\ Pad(Top) # Ensure(Top) /\ Rethrow(Top) # Ensure(Top)
         /\ Phi(graph, Pad(Top)) = {} /\ Phi(graph, Rethrow(Top)) = {}
         /\ Ensure(Top) \notin MainPads
         /\ LET P == Into(graph, Ensure(Top))
                F == Phi(graph, Ensure(Top))
            IN  /\ At(graph, Ensure(Top), P, F) /\ Matches(F, P)
                /\ Top.part = "main" => P = {} /\ F = {}
                /\ Top.part # "main" => Named(F, Top)
  <1>1. HasBlocks(Top)
    BY DEF HasBlocks
  <1>2. /\ Ensure(Top) \in Own(Top) /\ Ensure(Top) \in 1 .. Size(graph) /\ Ensure(Top) \in Int
        /\ Pad(Top) \in Own(Top) /\ Pad(Top) \in 1 .. Size(graph) /\ Rethrow(Top) \in Own(Top) /\ Rethrow(Top) \in 1 .. Size(graph)
        /\ Pad(Top) # Ensure(Top) /\ Rethrow(Top) # Ensure(Top)
    BY <1>1, AtTop DEF Ensure, Pad, Rethrow
  <1>3. Knows(graph, Top)
    BY PhisFrom
  <1>4. Phi(graph, Pad(Top)) = {} /\ Phi(graph, Rethrow(Top)) = {}
    BY <1>1, <1>3 DEF Knows, Pad, Rethrow
  <1>5. Ensure(Top) \notin MainPads
    <2> SUFFICES ASSUME Ensure(Top) \in MainPads PROVE FALSE
      OBVIOUS
    <2>1. PICK j \in DOMAIN open : open[j].op = "begin" /\ Ensure(Top) = Pad(open[j])
      BY PadsOfMain DEF PadsOf
    <2>2. Ensure(Top) \in Own(open[j])
      BY <2>1 DEF Own, Pad, HasBlocks
    <2>3. Len(open) \in DOMAIN open /\ Top = open[Len(open)] /\ Nested(open)
      BY StackBlocks DEF Flow, FlowIs
    <2>4. j = Len(open)
      BY <1>2, <2>2, <2>3, OwnsApart
    <2>. QED BY <1>2, <2>1, <2>3, <2>4
  <1>6. /\ At(graph, Ensure(Top), Into(graph, Ensure(Top)), Phi(graph, Ensure(Top)))
        /\ Matches(Phi(graph, Ensure(Top)), Into(graph, Ensure(Top)))
    BY <1>2, PhisFrom
  <1>7. Top.part = "main" => Into(graph, Ensure(Top)) = {} /\ Phi(graph, Ensure(Top)) = {}
    BY <1>3 DEF Knows, Joint
  <1>8. Top.part # "main" => Named(Phi(graph, Ensure(Top)), Top)
    BY <1>3 DEF Knows
  <1>. QED BY <1>2, <1>4, <1>5, <1>6, <1>7, <1>8

\* A begin that goes on knows that of its blocks.
LEMMA BeginKnows ==
  ASSUME NEW g, NEW t, NEW f, f.op = "begin", f.part # "main", f.base = t.base, f.stmt = t.stmt,
         Phi(g, Pad(t)) = {}, Phi(g, Rethrow(t)) = {}, Named(Phi(g, Ensure(t)), t)
  PROVE  Knows(g, f)
BY DEF Knows, Pad, Rethrow, Ensure, Named

\* A step of a begin that joins nothing, on the way to a clause.
LEMMA RescuePhis ==
  ASSUME Typed, HandlersNest, Flow, Phis, Active, open # <<>>, Rescuing(Top), FitsOn(graph, graph', MainPads, {}),
         NEW f, Rescuing(f), f.part # "rescue", f.base = Top.base, f.stmt = Top.stmt, open' = Append(Below, f)
  PROVE  Phis'
  <1>1. Top.op = "begin" /\ Top.part # "main" /\ f.op = "begin" /\ f.part # "main"
    BY DEF Rescuing
  <1>2. PICK k, c : Fits(graph, graph', MainPads, {}, k, c)
    BY DEF FitsOn
  <1>3. /\ Phi(graph', Pad(Top)) = {} /\ Phi(graph', Rethrow(Top)) = {}
        /\ Phi(graph', Ensure(Top)) = Phi(graph, Ensure(Top))
    BY <1>1, <1>2, BeginOnTop DEF Fits
  <1>4. Named(Phi(graph', Ensure(Top)), Top)
    BY <1>1, <1>3, BeginOnTop
  <1>5. Knows(graph', f)
    BY <1>1, <1>3, <1>4, BeginKnows
  <1>6. FitsOn(graph, graph', {} \cup MainPads, {})
    OBVIOUS
  <1>7. PhiStep({}, {})
    BY <1>5, <1>6, KnowsTop DEF PhiStep
  <1>. QED BY <1>7, PhisKept

LEMMA BeginMainPhis == ASSUME Typed, HandlersNest, Flow, Phis, BeginMain PROVE Phis'
  <1> DEFINE k  == Size(graph)
             c  == graph.cur
             t  == Top
             e  == Ensure(Top)
             X  == {e} \cup MainPads
             Y  == {e}
             g1 == Emit(graph, To("br", <<>>, <<e>>))
             g2 == Joins(g1, Top, value, False, c)
             g3 == MoveTo(g2, e)
             f  == [t EXCEPT !.part = "ensure"]
  <1>1. Has("begin", "main") /\ open' = Append(Below, f) /\ graph' = g3
    BY DEF BeginMain, TopIs
  <1>2. /\ Active /\ open # <<>> /\ Top.op = "begin" /\ Top.part = "main" /\ ~Idles(open)
        /\ t \in FramesOf(Len(program))
    BY <1>1, NotIdle, TypedParts DEF Has, Active, Idle
  <1>3. f.op = "begin" /\ f.part = "ensure" /\ f.base = t.base /\ f.stmt = t.stmt
    <2>1. t.op = "begin"
      BY <1>2
    <2> HIDE DEF t
    <2>. QED BY <1>2, <2>1 DEF FramesOf
  <1> HIDE DEF f
  <1>4. /\ e \in Own(Top) /\ e \in 1 .. k /\ e \in Int
        /\ Pad(Top) \in 1 .. k /\ Rethrow(Top) \in 1 .. k /\ Pad(Top) # e /\ Rethrow(Top) # e
        /\ Phi(graph, Pad(Top)) = {} /\ Phi(graph, Rethrow(Top)) = {}
    BY <1>2, BeginOnTop
  <1>5. Fits(graph, graph, X, Y, k, c) /\ c \in 1 .. k /\ At(graph, e, {}, {}) /\ Matches({}, {})
    <2>1. At(graph, e, {}, {}) /\ Matches({}, {})
      BY <1>2, BeginOnTop
    <2>. QED BY <1>2, <2>1, PhisFrom
  <1>6. JoinedIn(g2, Top)
    <2>1. graph.cur = c /\ c \notin {}
      OBVIOUS
    <2>. QED BY <1>5, <2>1, JoinsOne
  <1>7. e \in X /\ e \in Y
    OBVIOUS
  <1> HIDE DEF k, c, X, Y, t
  <1>8. Fits(graph, g1, X, Y, k, c)
    <2> HIDE DEF e
    <2>. QED BY <1>5, <1>7, FitsIntoOf, FitsEmit
  <1> HIDE DEF g1
  <1>9. Fits(graph, g2, X, Y, k, c) /\ Size(g2) = k
    <2>1. Fits(graph, g2, X, Y, k, c)
      BY <1>4, <1>7, <1>8, FitsJoins DEF k
    <2>. QED BY <2>1 DEF Fits
  <1> HIDE DEF g2
  <1>10. Fits(graph, g3, X, Y, k, e) /\ JoinedIn(g3, Top)
    BY <1>4, <1>6, <1>9, FitsMoveTo, JoinedMoveTo
  <1> HIDE DEF g3
  <1>11. Matches(Phi(g3, e), Into(g3, e)) /\ Named(Phi(g3, e), Top)
    BY <1>10, JoinedPhis
  <1>12. Phi(g3, Pad(Top)) = {} /\ Phi(g3, Rethrow(Top)) = {}
    BY <1>4, <1>10 DEF Fits, Y, k
  <1>13. Knows(graph', f)
    BY <1>1, <1>3, <1>11, <1>12, BeginKnows DEF t
  <1>14. FitsOn(graph, graph', {e} \cup MainPads, {e})
    BY <1>1, <1>4, <1>10 DEF FitsOn, X, Y
  <1>15. PhiStep({e}, {e})
    <2> HIDE DEF e
    <2>. QED BY <1>1, <1>2, <1>3, <1>4, <1>11, <1>13, <1>14, KnowsTop DEF PhiStep
  <1>. QED BY <1>15, PhisKept
LEMMA FitsRecord ==
  ASSUME NEW g, NEW h, NEW X, NEW Y, NEW k, NEW c, Fits(g, h, X, Y, k, c), NEW r
  PROVE  Fits(g, [h EXCEPT !.begins = @ \cup {r}], X, Y, k, c)
  <1> DEFINE new == [h EXCEPT !.begins = @ \cup {r}]
  <1>1. PICK C, P, B : h \in [blocks : Seq([code : Seq(C), phi : SUBSET P]), cur : Int, begins : SUBSET B]
    BY DEF Fits, Shaped
  <1>2. new \in [blocks : Seq([code : Seq(C), phi : SUBSET P]), cur : Int, begins : SUBSET (B \cup {r})]
    BY <1>1
  <1>3. Shaped(new) /\ new.blocks = h.blocks /\ new.cur = h.cur
    BY <1>1, <1>2 DEF Shaped
  <1> HIDE DEF new
  <1>4. Size(new) = Size(h) /\ \A x : Phi(new, x) = Phi(h, x)
    BY <1>3 DEF Size, Phi
  <1>5. (\A x : Into(new, x) = Into(h, x)) /\ (Left(h) => Left(new))
    BY <1>3, <1>4, SameEdges
  <1>. QED BY <1>3, <1>4, <1>5 DEF Fits, new

LEMMA BeginEnsurePhis == ASSUME Typed, HandlersNest, Flow, Phis, BeginEnsure PROVE Phis'
  <1> DEFINE k  == Size(graph)
             c  == graph.cur
             p  == Pad(Top)
             q  == Rethrow(Top)
             t  == Top
             X  == {q} \cup MainPads
             token     == <<Top.stmt, "token">>
             exception == <<Top.stmt, "exception">>
             flags     == <<<<Top.stmt, "flag">>>>
             r  == [pad |-> p, ensure |-> Ensure(Top), rethrow |-> q, finish |-> k + 1]
             x1 == k + 1
             x2 == k + 2
             y  == <<exception>>
             g1 == Create(graph, 2)
             g2 == Emit(g1, To("cond", flags, <<q, x1>>))
             g3 == EmitAt(g2, p, Instr("landingpad", token, <<>>))
             g4 == EmitAt(g3, p, To("cond", <<False>>, <<x2, q>>))
             g5 == EmitAt(g4, q, To("resume", <<token>>, <<>>))
             g6 == [g5 EXCEPT !.begins = @ \cup {r}]
             g7 == MoveTo(g6, x2)
             g8 == IF Top.rescues = <<>> THEN g7 ELSE LangCall(g7, exception, <<token>>)
             f  == [t EXCEPT !.part = "rescue", !.from = x1, !.handler = x2, !.args = y, !.optional = FALSE]
  <1>1. Has("begin", "ensure") /\ open' = Append(Below, f) /\ graph' = g8
    BY DEF BeginEnsure, TopIs
  <1>2. Active /\ open # <<>> /\ Top.op = "begin" /\ Top.part = "ensure" /\ t \in FramesOf(Len(program))
    BY <1>1, TypedParts DEF Has, Active
  <1>3. f.op = "begin" /\ f.part = "rescue" /\ f.base = t.base /\ f.stmt = t.stmt /\ f.handler = x2 /\ f.rescues = t.rescues
    <2>1. t.op = "begin"
      BY <1>2
    <2> HIDE DEF t, x1, x2, y
    <2>. QED BY <1>2, <2>1 DEF FramesOf
  <1> HIDE DEF f
  <1>4. /\ p \in 1 .. k /\ q \in 1 .. k /\ q \in Own(Top) /\ Ensure(Top) \in 1 .. k
        /\ Phi(graph, p) = {} /\ Phi(graph, q) = {} /\ Named(Phi(graph, Ensure(Top)), Top)
    BY <1>2, BeginOnTop
  <1>5. Fits(graph, graph, X, {}, k, c) /\ c \in 1 .. k /\ k \in Nat
    BY <1>2, PhisFrom
  <1>6. /\ p \in 1 .. k + 2 /\ q \in 1 .. k + 2 /\ c \in 1 .. k + 2 /\ x2 \in 1 .. k + 2 /\ x2 \in Int
        /\ x1 \notin 1 .. Size(graph) /\ x2 \notin 1 .. Size(graph) /\ q \in X
    BY <1>4, <1>5
  <1>7. Fits(graph, g1, X, {}, k + 2, c)
    BY <1>5, FitsCreate
  <1> HIDE DEF g1, X, k, c, p, q, t, token, exception, flags, r, x1, x2, y
  <1>8. Fits(graph, g2, X, {}, k + 2, c)
    BY <1>6, <1>7, FitsIntoOf, FitsEmit
  <1> HIDE DEF g2
  <1>9. Fits(graph, g3, X, {}, k + 2, c)
    <2>1. FitsInto(Instr("landingpad", token, <<>>), graph, X)
      BY FitsIntoOf
    <2>. QED BY <1>6, <1>8, <2>1, FitsEmitAt
  <1> HIDE DEF g3
  <1>10. Fits(graph, g4, X, {}, k + 2, c)
    <2>1. FitsInto(To("cond", <<False>>, <<x2, q>>), graph, X)
      BY <1>6, FitsIntoOf
    <2>. QED BY <1>6, <1>9, <2>1, FitsEmitAt
  <1> HIDE DEF g4
  <1>11. Fits(graph, g5, X, {}, k + 2, c)
    <2>1. FitsInto(To("resume", <<token>>, <<>>), graph, X)
      BY FitsIntoOf
    <2>. QED BY <1>6, <1>10, <2>1, FitsEmitAt
  <1> HIDE DEF g5
  <1>12. Fits(graph, g6, X, {}, k + 2, c)
    BY <1>11, FitsRecord
  <1> HIDE DEF g6
  <1>13. Fits(graph, g7, X, {}, k + 2, x2)
    BY <1>6, <1>12, FitsMoveTo
  <1>14. g7.cur = x2 /\ FitsOn(graph, g7, X, {}) /\ MainPads \subseteq X
    BY <1>6, <1>13 DEF Fits, FitsOn, X
  <1> HIDE DEF g7
  <1>15. FitsOn(graph, g8, X, {}) /\ (Top.rescues = <<>> => g8.cur = x2)
    BY <1>14, FitsOnLangCall
  <1> HIDE DEF g8
  <1>16. /\ Phi(graph', p) = {} /\ Phi(graph', q) = {}
         /\ Phi(graph', Ensure(Top)) = Phi(graph, Ensure(Top))
    <2>1. PICK l, d : Fits(graph, g8, X, {}, l, d)
      BY <1>15 DEF FitsOn
    <2>. QED BY <1>1, <1>4, <2>1 DEF Fits, k
  <1>17. Knows(graph', f)
    BY <1>3, <1>4, <1>16, BeginKnows DEF t, p, q
  <1>18. f.rescues = <<>> => graph'.cur = f.handler
    BY <1>1, <1>3, <1>15 DEF t
  <1>19. \A b \in {q} : Matches(Phi(graph', b), Into(graph', b))
    BY <1>16 DEF Matches
  <1>20. FitsOn(graph, graph', {q} \cup MainPads, {})
    BY <1>1, <1>15 DEF X
  <1>21. PhiStep({q}, {})
    BY <1>1, <1>2, <1>4, <1>17, <1>18, <1>19, <1>20, KnowsTop DEF PhiStep
  <1>. QED BY <1>21, PhisKept

LEMMA RescueAnyPhis == ASSUME Typed, HandlersNest, Flow, Phis, RescueAny PROVE Phis'
  <1> DEFINE t  == Top
             f  == [t EXCEPT !.part = "clause", !.optional = TRUE]
  <1>1. /\ mode = "value" /\ open # <<>> /\ t.op = "begin" /\ t.part = "rescue"
        /\ open' = Append(Below, f) /\ graph' = Catch(graph, Head(Top.rescues))
    BY DEF RescueAny, RescueIs, TopIs, Catches
  <1>2. Active /\ Rescuing(Top) /\ t \in FramesOf(Len(program))
    BY <1>1, TypedParts DEF Active, Rescuing
  <1>3. f.op = "begin" /\ f.part = "clause" /\ f.base = t.base /\ f.stmt = t.stmt
    <2> HIDE DEF t
    <2>. QED BY <1>1, <1>2 DEF FramesOf
  <1> HIDE DEF f
  <1>4. FitsOn(graph, graph', MainPads, {})
    BY <1>1, <1>2, PhisFrom, FitsOnCatch
  <1>. QED BY <1>1, <1>2, <1>3, <1>4, RescuePhis DEF Rescuing

LEMMA RescueTypedPhis == ASSUME Typed, HandlersNest, Flow, Phis, RescueTyped PROVE Phis'
  <1> DEFINE t  == Top
             f  == [t EXCEPT !.part = "class"]
  <1>1. /\ mode = "value" /\ open # <<>> /\ t.op = "begin" /\ t.part = "rescue"
        /\ open' = Append(Below, f) /\ graph' = graph
    BY DEF RescueTyped, RescueIs, TopIs
  <1>2. Active /\ Rescuing(Top) /\ t \in FramesOf(Len(program))
    BY <1>1, TypedParts DEF Active, Rescuing
  <1>3. f.op = "begin" /\ f.part = "class" /\ f.base = t.base /\ f.stmt = t.stmt
    <2> HIDE DEF t
    <2>. QED BY <1>1, <1>2 DEF FramesOf
  <1> HIDE DEF f
  <1>4. FitsOn(graph, graph', MainPads, {})
    BY <1>1, <1>2, PhisFrom
  <1>. QED BY <1>1, <1>2, <1>3, <1>4, RescuePhis DEF Rescuing

LEMMA RescueClassPhis == ASSUME Typed, HandlersNest, Flow, Phis, RescueClass PROVE Phis'
  <1> DEFINE k  == Size(graph)
             c  == graph.cur
             X  == MainPads
             t  == Top
             compare == <<This, "compared">>
             args == <<value, Top.args[1]>>
             x1 == k + 1
             x2 == k + 1 + 1
             g1 == Create(graph, 2)
             g2 == Emit(g1, To("cond", <<value>>, <<x2, x1>>))
             g3 == EmitAt(g2, x1, To("unreachable", <<>>, <<>>))
             g4 == MoveTo(g3, x2)
             g5 == LangCall(g4, compare, args)
             m  == Size(g5) + 1
             n  == m + 1
             g6 == Create(g5, 2)
             g7 == Emit(g6, To("cond", <<compare>>, <<m, n>>))
             g8 == MoveTo(g7, m)
             g9 == Catch(g8, Head(Top.rescues))
             f  == [t EXCEPT !.part = "clause", !.handler = n]
  <1>1. /\ mode = "value" /\ open # <<>> /\ t.op = "begin" /\ t.part = "class"
        /\ \/ mode' = "crashed"
           \/ open' = Append(Below, f) /\ graph' = g9
    BY DEF RescueClass, RescueIs, TopIs, Catches
  <1>2. Active /\ Rescuing(Top) /\ t \in FramesOf(Len(program))
    BY <1>1, TypedParts DEF Active, Rescuing
  <1>3. f.op = "begin" /\ f.part = "clause" /\ f.base = t.base /\ f.stmt = t.stmt
    <2> HIDE DEF t, n
    <2>. QED BY <1>1, <1>2 DEF FramesOf
  <1> HIDE DEF f, compare, args, t
  <1>4. Fits(graph, graph, X, {}, k, c) /\ c \in 1 .. k /\ k \in Nat
    BY <1>2, PhisFrom
  <1>5. /\ x1 \in 1 .. k + 2 /\ c \in 1 .. k + 2 /\ x2 \in 1 .. k + 2 /\ x2 \in Int
        /\ x1 \notin 1 .. Size(graph) /\ x2 \notin 1 .. Size(graph)
    BY <1>4
  <1>6. Fits(graph, g1, X, {}, k + 2, c)
    BY <1>4, FitsCreate
  <1>7. MainPads \subseteq X /\ Size(graph) = k
    OBVIOUS
  <1> HIDE DEF k, c, X, x1, x2, g1
  <1>8. Fits(graph, g2, X, {}, k + 2, c)
    BY <1>5, <1>6, FitsIntoOf, FitsEmit
  <1> HIDE DEF g2
  <1>9. Fits(graph, g3, X, {}, k + 2, c)
    <2>1. FitsInto(To("unreachable", <<>>, <<>>), graph, X)
      BY FitsIntoOf
    <2>. QED BY <1>5, <1>8, <2>1, FitsEmitAt
  <1> HIDE DEF g3
  <1>10. Fits(graph, g4, X, {}, k + 2, x2)
    BY <1>5, <1>9, FitsMoveTo
  <1> HIDE DEF g4
  <1>11. FitsOn(graph, g4, X, {})
    BY <1>5, <1>10 DEF FitsOn
  <1>12. FitsOn(graph, g5, X, {})
    BY <1>7, <1>11, FitsOnLangCall
  <1> HIDE DEF g5
  <1>13. PICK l, d : Fits(graph, g5, X, {}, l, d) /\ d \in 1 .. l
    BY <1>12 DEF FitsOn
  <1>14. m = l + 1 /\ l \in Nat /\ k <= l /\ k \in Nat
    BY <1>4, <1>7, <1>13 DEF Fits
  <1>15. m \notin 1 .. k /\ n \notin 1 .. k /\ d \in 1 .. l + 2 /\ m \in 1 .. l + 2 /\ m \in Int
    BY <1>13, <1>14
  <1>16. Fits(graph, g6, X, {}, l + 2, d)
    BY <1>13, FitsCreate
  <1> HIDE DEF g6, m, n
  <1>17. Fits(graph, g7, X, {}, l + 2, d)
    BY <1>7, <1>15, <1>16, FitsIntoOf, FitsEmit
  <1> HIDE DEF g7
  <1>18. Fits(graph, g8, X, {}, l + 2, m)
    BY <1>15, <1>17, FitsMoveTo
  <1> HIDE DEF g8
  <1>19. FitsOn(graph, g8, X, {})
    BY <1>15, <1>18 DEF FitsOn
  <1>20. FitsOn(graph, g9, X, {})
    BY <1>7, <1>19, FitsOnCatch
  <1> HIDE DEF g9
  <1>21. CASE open' = Append(Below, f) /\ graph' = g9
    BY <1>1, <1>2, <1>3, <1>20, <1>21, RescuePhis DEF Rescuing, X, t
  <1>. QED BY <1>1, <1>21, PhisCrash

\* The blocks that a begin with a rescue remembers are blocks of the function.
LEMMA RescuingParts ==
  ASSUME Typed, open # <<>>, Rescuing(Top)
  PROVE  Top.from \in 1 .. Size(graph) /\ Top.handler \in 1 .. Size(graph) /\ Size(graph) \in Nat
  <1>1. HasBlocks(Top)
    BY DEF Rescuing, HasBlocks
  <1>2. {Top.from, Top.handler} \subseteq Recorded(Top)
    BY DEF Recorded
  <1>. QED BY <1>1, <1>2, AtTop, TypedParts

LEMMA RescueClausePhis == ASSUME Typed, HandlersNest, Flow, Phis, RescueClause PROVE Phis'
  <1> DEFINE k  == Size(graph)
             t  == Top
             h  == Top.handler
             e  == Ensure(Top)
             X  == {e} \cup MainPads
             Y  == {e}
             P  == Into(graph, e)
             F  == Phi(graph, e)
             g1 == EndCatch
             v  == EndCatch.cur
             g2 == Joins(g1, Top, value, False, v)
             g3 == Emit(g2, To("br", <<>>, <<e>>))
             g4 == MoveTo(g3, h)
             x  == Tail(t.rescues)
             f  == [t EXCEPT !.part = "rescue", !.rescues = x]
  <1>1. /\ mode = "value" /\ open # <<>> /\ t.op = "begin" /\ t.part = "clause"
        /\ open' = Append(Below, f) /\ graph' = g4
    BY DEF RescueClause, Has, TopIs
  <1>2. Active /\ Top.op = "begin" /\ Top.part = "clause" /\ ~Idle(Top) /\ ~Idles(open) /\ t \in FramesOf(Len(program))
    BY <1>1, NotIdle, TypedParts DEF Active, Idle
  <1>3. f.op = "begin" /\ f.part = "rescue" /\ f.base = t.base /\ f.stmt = t.stmt /\ f.handler = t.handler
    <2>1. t.op = "begin"
      BY <1>2
    <2> HIDE DEF t, x
    <2>. QED BY <1>2, <2>1 DEF FramesOf
  <1> HIDE DEF f
  <1>4. /\ e \in Own(Top) /\ e \in 1 .. k /\ e \in Int /\ e \notin MainPads
        /\ Pad(Top) \in 1 .. k /\ Rethrow(Top) \in 1 .. k /\ Pad(Top) # e /\ Rethrow(Top) # e
        /\ Phi(graph, Pad(Top)) = {} /\ Phi(graph, Rethrow(Top)) = {}
        /\ Matches(F, P) /\ Named(F, Top)
    BY <1>1, <1>2, BeginOnTop
  <1>5. h \in 1 .. k /\ k \in Nat
    <2>1. Rescuing(Top)
      BY <1>1 DEF Rescuing
    <2>. QED BY <1>1, <2>1, RescuingParts
  <1>6. FitsOn(graph, graph, X, Y) /\ FitsOn(graph, graph, MainPads, {}) /\ MainPads \subseteq X /\ e \in X /\ e \in Y
    BY <1>2, PhisFrom
  <1>7. Leads(graph, PendingIn(open))
    BY <1>2, Standing DEF Goes
  <1>8. Size(graph) = k
    OBVIOUS
  <1> HIDE DEF k, h, X, Y, P, F, t
  <1>9. FitsOn(graph, g1, X, Y) /\ FitsOn(graph, g1, MainPads, {})
    BY <1>6, FitsOnLangCall DEF EndCatch
  <1>10. v \in Ongoing(g1)
    <2>1. Leads(g1, PendingIn(open))
      BY <1>7, LeadsLangCall DEF EndCatch
    <2>. QED BY <2>1 DEF Leads, Stands
  <1>11. PICK l, d : Fits(graph, g1, X, Y, l, d) /\ d \in 1 .. l
    BY <1>9 DEF FitsOn
  <1>12. /\ Size(g1) = l /\ v = d /\ Shaped(g1) /\ Left(g1) /\ k <= l /\ l \in Nat
    BY <1>8, <1>11 DEF Fits
  <1>13. At(g1, e, P, F)
    <2>1. PICK l2, d2 : Fits(graph, g1, MainPads, {}, l2, d2)
      BY <1>9 DEF FitsOn
    <2>2. Into(g1, e) = P /\ Phi(g1, e) = F
      BY <1>4, <1>8, <2>1 DEF Fits, P, F
    <2>3. e \in 1 .. l
      BY <1>4, <1>5, <1>12
    <2>. QED BY <1>11, <1>12, <2>2, <2>3 DEF At, Joint
  <1>14. v \notin P
    <2>1. v \notin Into(g1, e)
      BY <1>10, <1>12, OngoingStays
    <2>. QED BY <1>13, <2>1 DEF At, Joint
  <1>15. JoinedIn(g3, Top)
    <2>1. g1.cur = v
      OBVIOUS
    <2> HIDE DEF g1, v
    <2>. QED BY <1>4, <1>13, <1>14, <2>1, JoinsOne
  <1> HIDE DEF g1, v
  <1>16. Fits(graph, g2, X, Y, l, d)
    BY <1>4, <1>6, <1>8, <1>11, FitsJoins
  <1> HIDE DEF g2
  <1>17. Fits(graph, g3, X, Y, l, d) /\ Size(g3) = l
    <2>1. Fits(graph, g3, X, Y, l, d)
      <3> HIDE DEF e
      <3>. QED BY <1>6, <1>11, <1>16, FitsIntoOf, FitsEmit
    <2>. QED BY <2>1 DEF Fits
  <1> HIDE DEF g3
  <1>18. h \in 1 .. l /\ h \in Int
    BY <1>5, <1>12
  <1>19. Fits(graph, g4, X, Y, l, h) /\ JoinedIn(g4, Top)
    BY <1>15, <1>17, <1>18, FitsMoveTo, JoinedMoveTo
  <1> HIDE DEF g4
  <1>20. Matches(Phi(g4, e), Into(g4, e)) /\ Named(Phi(g4, e), Top)
    BY <1>19, JoinedPhis
  <1>21. Phi(g4, Pad(Top)) = {} /\ Phi(g4, Rethrow(Top)) = {} /\ g4.cur = h
    BY <1>4, <1>8, <1>19 DEF Fits, Y
  <1>22. Knows(graph', f)
    BY <1>1, <1>3, <1>20, <1>21, BeginKnows DEF t
  <1>23. graph'.cur = f.handler
    BY <1>1, <1>3, <1>21 DEF t, h
  <1>24. FitsOn(graph, graph', {e} \cup MainPads, {e})
    BY <1>1, <1>18, <1>19 DEF FitsOn, X, Y
  <1>25. PhiStep({e}, {e})
    <2> HIDE DEF e
    <2>. QED BY <1>1, <1>2, <1>4, <1>20, <1>22, <1>23, <1>24, KnowsTop DEF PhiStep
  <1>. QED BY <1>25, PhisKept

LEMMA BeginFinishPhis == ASSUME Typed, HandlersNest, Flow, Phis, BeginFinish PROVE Phis'
  <1> DEFINE k  == Size(graph)
             c  == graph.cur
             e  == Ensure(Top)
             x  == Top.from
             h  == Top.handler
             X  == {e} \cup MainPads
             Y  == {e}
             P  == Into(graph, e)
             F  == Phi(graph, e)
             g1 == Joins(graph, Top, NullPtr, True, h)
             g2 == Emit(g1, To("br", <<>>, <<e>>))
             g3 == IF Top.optional THEN graph ELSE g2
             g4 == MoveTo(g3, x)
  <1>1. /\ mode = "value" /\ open # <<>> /\ Top.op = "begin" /\ Top.part = "rescue" /\ Top.rescues = <<>>
        /\ open' = Below /\ graph' = g4
    BY DEF BeginFinish, Has
  <1>2. Active
    BY <1>1 DEF Active
  <1>3. /\ e \in Own(Top) /\ e \in 1 .. k
        /\ Matches(F, P) /\ Named(F, Top) /\ At(graph, e, P, F)
    BY <1>1, <1>2, BeginOnTop
  <1>4. x \in 1 .. k /\ x \in Int /\ k \in Nat
    <2>1. Rescuing(Top)
      BY <1>1 DEF Rescuing
    <2>. QED BY <1>1, <2>1, RescuingParts
  <1>5. Fits(graph, graph, X, Y, k, c) /\ c \in 1 .. k /\ e \in X /\ e \in Y
    BY <1>2, PhisFrom
  <1>6. Size(graph) = k /\ JoinedIn(graph, Top)
    BY <1>3 DEF JoinedIn
  <1>7. ASSUME ~Top.optional PROVE JoinedIn(g2, Top)
    <2>1. c = h
      <3>1. Top = Last(open)
        BY DEF Top
      <3>. QED BY <1>1, <1>2, <1>7, <3>1 DEF Phis, PhisAre, Handled
    <2>2. ~Idles(open)
      BY <1>1, <1>7, NotIdle DEF Idle
    <2>3. c \notin P
      BY <1>2, <2>2, CurrentStays
    <2>4. graph.cur = h /\ h \notin P
      BY <2>1, <2>3
    <2> HIDE DEF h, P, F
    <2>. QED BY <1>3, <2>4, JoinsOne
  <1> HIDE DEF k, c, X, Y, P, F, x, h
  <1>8. Fits(graph, g1, X, Y, k, c)
    BY <1>3, <1>5, <1>6, FitsJoins
  <1> HIDE DEF g1
  <1>9. Fits(graph, g2, X, Y, k, c)
    <2> HIDE DEF e
    <2>. QED BY <1>5, <1>8, FitsIntoOf, FitsEmit
  <1> HIDE DEF g2
  <1>10. Fits(graph, g3, X, Y, k, c) /\ JoinedIn(g3, Top) /\ Size(g3) = k
    <2>1. Fits(graph, g3, X, Y, k, c) /\ JoinedIn(g3, Top)
      BY <1>5, <1>6, <1>7, <1>9
    <2>. QED BY <2>1 DEF Fits
  <1> HIDE DEF g3
  <1>11. Fits(graph, g4, X, Y, k, x) /\ JoinedIn(g4, Top)
    BY <1>4, <1>10, FitsMoveTo, JoinedMoveTo
  <1> HIDE DEF g4
  <1>12. Matches(Phi(g4, e), Into(g4, e))
    BY <1>11, JoinedPhis
  <1>13. FitsOn(graph, graph', {e} \cup MainPads, {e})
    BY <1>1, <1>4, <1>11 DEF FitsOn, X, Y
  <1>14. PhiStep({e}, {e})
    <2> HIDE DEF e
    <2>. QED BY <1>1, <1>2, <1>3, <1>12, <1>13, KnowsPop DEF PhiStep
  <1>. QED BY <1>14, PhisKept

-----------------------------------------------------------------------------
(* The phis through the whole of generation.                               *)

LEMMA FinishPhis == ASSUME Typed, HandlersNest, Flow, Phis, Finish PROVE Phis'
  <1> DEFINE g == Emit(graph, To("ret", <<value>>, <<>>))
  <1>1. mode = "value" /\ open = <<>> /\ open' = open /\ graph' = g
    BY DEF Finish
  <1>2. Active
    BY <1>1 DEF Active
  <1>3. FitsOn(graph, graph', {} \cup MainPads, {})
    <2>1. FitsInto(To("ret", <<value>>, <<>>), graph, {} \cup MainPads)
      BY FitsIntoOf
    <2>. QED BY <1>1, <1>2, <2>1, PhisFrom, FitsOnEmit
  <1> HIDE DEF g
  <1>4. DOMAIN open' = {} /\ Handled(graph', open')
    BY <1>1 DEF Handled
  <1>5. PhiStep({}, {})
    BY <1>2, <1>3, <1>4 DEF PhiStep
  <1>. QED BY <1>5, PhisKept

LEMMA InitPhis == Init => Phis
  <1> SUFFICES ASSUME Init PROVE Phis
    OBVIOUS
  <1> DEFINE f == Running("block", "list", 1)
             block == [code |-> <<>>, phi |-> {}]
             g == [blocks |-> <<block>>, cur |-> 1, begins |-> {}]
  <1>1. graph = g /\ open = <<f>>
    BY DEF Init
  <1>2. f.op = "block"
    BY DEF Running
  <1>3. Size(g) = 1 /\ g.blocks[1].code = <<>> /\ g.blocks[1].phi = {}
    BY DEF Size
  <1>4. DOMAIN open = {1} /\ open[1] = f /\ Last(open) = f
    BY <1>1 DEF Last
  <1> HIDE DEF f, g
  <1>5. \A b \in 1 .. Size(g) : b = 1
    BY <1>3
  <1>6. \A b \in 1 .. Size(g) : Matches(Phi(g, b), Into(g, b))
    BY <1>3, <1>5 DEF Matches, Phi
  <1>7. Left(g)
    BY <1>3, <1>5, MembersOf DEF Left, Ongoing
  <1>8. (\A i \in DOMAIN open : Knows(g, open[i])) /\ Handled(g, open)
    BY <1>2, <1>4 DEF Knows, Handled, HasBlocks
  <1>. QED BY <1>1, <1>6, <1>7, <1>8 DEF Phis, PhisAre

LEMMA NextPhis == Typed /\ HandlersNest /\ Flow /\ Phis /\ [Next]_vars => Phis'
  <1> SUFFICES ASSUME Typed, HandlersNest, Flow, Phis, [Next]_vars PROVE Phis'
    OBVIOUS
  <1>1. CASE \/ Literal \/ Absent \/ HolderStarts \/ BlockStarts \/ BlockGoesOn \/ BlockEnds
             \/ AssignOperand \/ IndexStarts \/ IndexRight \/ CallOperand \/ ReturnOperand
             \/ IndexOperand
    <2>1. NotRescuing
      BY <1>1, QuietSteps
    <2>. QED BY <1>1, <2>1, SimpleSteps, QuietPhis
  <1>2. CASE \/ \E n \in 0 .. MaxOperands : CallStarts(n) \/ ReturnStarts(n)
             \/ \E name \in Names : ReadStarts(name) \/ AssignStarts(name)
             \/ \E else \in BOOLEAN : IfStarts(else)
             \/ \E whens \in 1 .. 2 : CaseStarts(whens)
    <2>1. 0 .. MaxOperands \subseteq Nat
      BY CodegenAssumption
    <2>2. NotRescuing
      BY <1>2, <2>1, QuietSteps
    <2>. QED BY <1>2, <2>1, <2>2, StartSteps, QuietPhis
  <1>3. CASE IfCondition \/ TrueBranch \/ FalseBranch \/ WhileStarts \/ WhileBody \/ WhileCondition
    BY <1>3, IfConditionPhis, TrueBranchPhis, FalseBranchPhis, WhileStartsPhis, WhileBodyPhis, WhileConditionPhis
  <1>4. CASE \E rescues \in RescueLists, ensured \in BOOLEAN : BeginStarts(rescues, ensured)
    BY <1>4, BeginStartsPhis
  <1>5. CASE BeginMain \/ BeginEnsure \/ RescueAny \/ RescueTyped \/ RescueClass \/ RescueClause \/ BeginFinish
    BY <1>5, BeginMainPhis, BeginEnsurePhis, RescueAnyPhis, RescueTypedPhis, RescueClassPhis, RescueClausePhis, BeginFinishPhis
  <1>6. CASE Finish
    BY <1>6, FinishPhis
  <1>7. CASE UNCHANGED vars
    <2>1. graph' = graph /\ open' = open /\ mode' = mode
      BY <1>7 DEF vars
    <2>. QED BY <2>1 DEF Phis, Active, Finished
  <1>. QED BY <1>1, <1>2, <1>3, <1>4, <1>5, <1>6, <1>7 DEF Next

LEMMA PhisImply == Phis => PhisMatchPredecessors
  <1> SUFFICES ASSUME Phis, Finished, NEW b \in Blocks
               PROVE  LET phi == graph.blocks[b].phi
                      IN  /\ \A id \in {p.id : p \in phi} : {p.from : p \in {p \in phi : p.id = id}} = Preds(b)
                          /\ \A p, q \in phi : p.from = q.from /\ p.id = q.id => p = q
    BY DEF PhisMatchPredecessors
  <1>1. Matches(Phi(graph, b), Into(graph, b))
    BY DEF Phis, PhisAre, Blocks
  <1>2. Preds(b) = Into(graph, b)
    <2>1. \A a \in Blocks : b \in Normal(a) \cup Unwinds(a) <=> Enters(graph, a, b)
      BY EdgesOf DEF Enters
    <2>. QED BY <2>1 DEF Preds, Into, Blocks
  <1>. QED BY <1>1, <1>2 DEF Matches, Phi

\* Whatever program is generated, in which a rescue for any exception is the last one of its
\* begin: a phi has one value for each way into its block, however far from where it began
\* the part ended that the value comes from, and although a begin adds ways into its ensure
\* when the ensure is done.
THEOREM PhisAlwaysMatch == AnyComesLast => (Spec => []PhisMatchPredecessors)
  <1> DEFINE Inv == Typed /\ HandlersNest /\ Flow /\ Phis
  <1>1. Init => Inv
    BY InitTyped, InitHandlers, InitFlow, InitPhis
  <1>2. AnyComesLast /\ Inv /\ [Next]_vars => Inv'
    BY NextTyped, NextHandlers, NextFlow, NextPhis
  <1>3. Inv => PhisMatchPredecessors
    BY PhisImply
  <1> SUFFICES ASSUME AnyComesLast PROVE Spec => []PhisMatchPredecessors
    OBVIOUS
  <1>4. Inv /\ [Next]_vars => Inv'
    BY <1>2
  <1>. QED BY <1>1, <1>3, <1>4, PTL DEF Spec
=============================================================================
