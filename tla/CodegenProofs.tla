--------------------------- MODULE CodegenProofs ---------------------------
(***************************************************************************)
(* Proofs of the properties of Codegen that hold for every program.        *)
(***************************************************************************)
EXTENDS Codegen, SequenceTheorems, WellFoundedInduction, TLAPS

-----------------------------------------------------------------------------
(* The types, for a graph of k blocks and a program of n statements.       *)

IdsUpTo(n)    == (0 .. n + 1) \X Tags
Ops           == EndOps \cup {"load", "alloca", "store", "call", "landingpad"}
InstrsOf(k, n) == [op : Ops, id : IdsUpTo(n), args : Seq(IdsUpTo(n)), targets : Seq(1 .. k), unwind : 0 .. k]
Incomings(k, n) == [id : IdsUpTo(n), value : IdsUpTo(n) \ {Null}, from : 1 .. k]
BlocksOf(k, n) == [code : Seq(InstrsOf(k, n)), phi : SUBSET Incomings(k, n)]
BeginsOf(k)   == [pad : 1 .. k, ensure : 1 .. k, rethrow : 1 .. k, finish : 1 .. k]
GraphsOf(k, n) == [blocks : Seq(BlocksOf(k, n)), cur : Int, begins : SUBSET BeginsOf(k)]
GraphOK(g, n) ==
  /\ g \in GraphsOf(Size(g), n)
  /\ g.cur \in 1 .. Size(g)

PartsOf(op) ==
  CASE op \in {"call", "return", "assign"} -> {"operand"}
    [] op = "block" -> {"list"}
    [] op = "index" -> {"operand", "right"}
    [] op = "if"    -> {"condition", "true", "false"}
    [] op = "while" -> {"body", "condition"}
    [] op = "begin" -> {"main", "ensure", "rescue", "class", "clause"}
FrameOps == {"call", "return", "assign", "block", "index", "if", "while", "begin"}
Rescues == [class : {"typed", "any"}, var : Names \cup {"none"}]
FramesOf(n) ==
  [op : FrameOps, part : Parts, stmt : 1 .. n, left : Int, optional : BOOLEAN, base : Int,
   from : Int, args : Seq(IdsUpTo(n)), rescues : Seq(Rescues), handler : Int]

\* The function has blocks of its own, and has come to its rescues.
HasBlocks(f) == f.op \in {"while", "begin"} \/ (f.op = "if" /\ f.part \in {"true", "false"})
Rescuing(f)  == f.op = "begin" /\ f.part \in {"rescue", "class", "clause"}
FrameOK(f, k, n) ==
  /\ f \in FramesOf(n) /\ f.part \in PartsOf(f.op)
  /\ HasBlocks(f) => f.base >= 1 /\ f.base + 3 <= k
  /\ f.op = "if" /\ f.part = "false" => f.from \in 1 .. k /\ f.args # <<>>
  /\ f.op = "while" /\ f.part = "body" => f.from \in 1 .. k
  /\ Rescuing(f) => /\ f.from \in f.base + 4 .. k /\ f.handler \in f.base + 4 .. k
                    /\ f.args # <<>> /\ (f.part # "rescue" => f.rescues # <<>>)

\* Bodies are blocks, and what they yield is a value.
IsBody(f) == f.op = "begin" /\ f.part \in {"main", "ensure", "clause"}
StackOK ==
  /\ open # <<>> => open[1].op = "block"
  /\ \A i \in 1 .. Len(open) - 1 :
       /\ ~(open[i].op = "begin" /\ open[i].part = "rescue")
       /\ IsBody(open[i]) => open[i + 1].op = "block"
  /\ mode = "body" => open # <<>> /\ IsBody(Top)
  /\ mode = "statement" => open # <<>> /\ ~(Top.op = "begin" /\ Top.part # "class")
  /\ mode = "value" /\ open # <<>> /\ Top.op = "begin" /\ Top.part \in {"main", "clause"} => value # Null
  /\ mode = "value" /\ open = <<>> => value # Null

Active == mode \in {"statement", "body", "value"}

Typed ==
  /\ GraphOK(graph, Len(program))
  /\ handlers \in Seq(1 .. Size(graph))
  /\ open \in Seq(FramesOf(Len(program)))
  /\ \A i \in DOMAIN open : FrameOK(open[i], Size(graph), Len(program))
  /\ variables \in [Names -> IdsUpTo(Len(program))]
  /\ value \in IdsUpTo(Len(program))
  /\ mode \in {"statement", "body", "value", "finished", "crashed", "undefined"}
  /\ mode = "finished" => value # Null
  /\ program \in Seq([kind : Kinds, name : Names \cup {"none"}, in : Nat, part : Parts])
  /\ room \in 0 .. MaxStatements
  /\ StackOK

-----------------------------------------------------------------------------
(* The IRBuilder's operations keep the types.                              *)

LEMMA TypesGrow ==
  ASSUME NEW k \in Nat, NEW l \in Nat, k <= l, NEW n \in Nat, NEW m \in Nat, n <= m
  PROVE  /\ IdsUpTo(n) \subseteq IdsUpTo(m)
         /\ InstrsOf(k, n) \subseteq InstrsOf(l, m)
         /\ BlocksOf(k, n) \subseteq BlocksOf(l, m)
         /\ BeginsOf(k) \subseteq BeginsOf(l)
  <1>1. IdsUpTo(n) \subseteq IdsUpTo(m) /\ 1 .. k \subseteq 1 .. l /\ 0 .. k \subseteq 0 .. l
    BY DEF IdsUpTo
  <1>2. Seq(IdsUpTo(n)) \subseteq Seq(IdsUpTo(m)) /\ Seq(1 .. k) \subseteq Seq(1 .. l)
    BY <1>1, SeqMonotonic
  <1>3. InstrsOf(k, n) \subseteq InstrsOf(l, m)
    BY <1>1, <1>2 DEF InstrsOf
  <1>4. Incomings(k, n) \subseteq Incomings(l, m)
    BY <1>1 DEF Incomings
  <1>5. Seq(InstrsOf(k, n)) \subseteq Seq(InstrsOf(l, m))
    BY <1>3, SeqMonotonic
  <1>6. BlocksOf(k, n) \subseteq BlocksOf(l, m)
    BY <1>4, <1>5 DEF BlocksOf
  <1>7. BeginsOf(k) \subseteq BeginsOf(l)
    BY <1>1 DEF BeginsOf
  <1>. QED BY <1>1, <1>3, <1>6, <1>7

\* What changing a field of a block, or of an instruction, comes to.
LEMMA EmitAtIs ==
  ASSUME NEW k, NEW n, NEW g \in GraphsOf(k, n), NEW b, g.blocks[b] \in BlocksOf(k, n), NEW i
  PROVE  EmitAt(g, b, i) = [blocks |-> [g.blocks EXCEPT ![b] = [code |-> Append(g.blocks[b].code, i), phi |-> g.blocks[b].phi]],
                   cur |-> g.cur, begins |-> g.begins]
  <1> DEFINE r   == g.blocks[b]
             x   == Append(g.blocks[b].code, i)
             new == [r EXCEPT !.code = x]
             bs  == [g.blocks EXCEPT ![b] = new]
  <1>1. EmitAt(g, b, i) = [g EXCEPT !.blocks = bs]
    BY DEF EmitAt
  <1>2. new = [code |-> x, phi |-> r.phi]
    <2>1. r \in BlocksOf(k, n)
      OBVIOUS
    <2> HIDE DEF r, x
    <2>. QED BY <2>1 DEF BlocksOf
  <1> HIDE DEF new, bs
  <1>3. [g EXCEPT !.blocks = bs] = [blocks |-> bs, cur |-> g.cur, begins |-> g.begins]
    BY DEF GraphsOf
  <1>4. bs = [g.blocks EXCEPT ![b] = new]
    BY DEF bs
  <1>. QED BY <1>1, <1>2, <1>3, <1>4

LEMMA AddIncomingIs ==
  ASSUME NEW k, NEW n, NEW g \in GraphsOf(k, n), NEW b, g.blocks[b] \in BlocksOf(k, n), NEW id, NEW v, NEW from
  PROVE  AddIncoming(g, b, id, v, from) = [blocks |-> [g.blocks EXCEPT ![b] = [code |-> g.blocks[b].code, phi |-> g.blocks[b].phi \cup {[id |-> id, value |-> v, from |-> from]}]],
                   cur |-> g.cur, begins |-> g.begins]
  <1> DEFINE r   == g.blocks[b]
             x   == g.blocks[b].phi \cup {[id |-> id, value |-> v, from |-> from]}
             new == [r EXCEPT !.phi = x]
             bs  == [g.blocks EXCEPT ![b] = new]
  <1>1. AddIncoming(g, b, id, v, from) = [g EXCEPT !.blocks = bs]
    BY DEF AddIncoming
  <1>2. new = [code |-> r.code, phi |-> x]
    <2>1. r \in BlocksOf(k, n)
      OBVIOUS
    <2> HIDE DEF r, x
    <2>. QED BY <2>1 DEF BlocksOf
  <1> HIDE DEF new, bs
  <1>3. [g EXCEPT !.blocks = bs] = [blocks |-> bs, cur |-> g.cur, begins |-> g.begins]
    BY DEF GraphsOf
  <1>4. bs = [g.blocks EXCEPT ![b] = new]
    BY DEF bs
  <1>. QED BY <1>1, <1>2, <1>3, <1>4

LEMMA GraphGrows ==
  ASSUME NEW g, NEW n \in Nat, NEW m \in Nat, n <= m, GraphOK(g, n)
  PROVE  GraphOK(g, m)
  <1>1. Size(g) \in Nat
    BY DEF GraphOK, GraphsOf, Size
  <1>2. BlocksOf(Size(g), n) \subseteq BlocksOf(Size(g), m)
    BY <1>1, TypesGrow
  <1>3. Seq(BlocksOf(Size(g), n)) \subseteq Seq(BlocksOf(Size(g), m))
    BY <1>2, SeqMonotonic
  <1>. QED BY <1>3 DEF GraphOK, GraphsOf

LEMMA GraphParts ==
  ASSUME NEW g, NEW n \in Nat, GraphOK(g, n)
  PROVE  /\ Size(g) \in Nat \ {0} /\ g.cur \in 1 .. Size(g) /\ DOMAIN g.blocks = 1 .. Size(g)
         /\ g.begins \subseteq BeginsOf(Size(g))
         /\ \A b \in 1 .. Size(g) : /\ g.blocks[b] \in BlocksOf(Size(g), n)
                                   /\ g.blocks[b].code \in Seq(InstrsOf(Size(g), n))
                                   /\ g.blocks[b].phi \subseteq Incomings(Size(g), n)
  <1>1. g.blocks \in Seq(BlocksOf(Size(g), n)) /\ Size(g) = Len(g.blocks) /\ g.cur \in 1 .. Size(g)
    BY DEF GraphOK, GraphsOf, Size
  <1>2. Size(g) \in Nat \ {0} /\ DOMAIN g.blocks = 1 .. Size(g)
    BY <1>1
  <1>3. \A b \in 1 .. Size(g) : g.blocks[b] \in BlocksOf(Size(g), n)
    BY <1>1, <1>2
  <1>. QED BY <1>1, <1>2, <1>3 DEF GraphOK, GraphsOf, BlocksOf

\* New blocks are empty, and the others are as they were.
LEMMA CreateOK ==
  ASSUME NEW g, NEW n \in Nat, GraphOK(g, n), NEW m \in Nat
  PROVE  /\ GraphOK(Create(g, m), n)
         /\ Size(Create(g, m)) = Size(g) + m
         /\ Create(g, m).cur = g.cur /\ Create(g, m).begins = g.begins
         /\ \A b \in 1 .. Size(g) : Create(g, m).blocks[b] = g.blocks[b]
         /\ \A b \in Size(g) + 1 .. Size(g) + m : Create(g, m).blocks[b] = [code |-> <<>>, phi |-> {}]
  <1> DEFINE new == [i \in 1 .. m |-> [code |-> <<>>, phi |-> {}]]
             k   == Size(g)
             T   == BlocksOf(k + m, n)
  <1>1. k \in Nat /\ k = Len(g.blocks) /\ g.blocks \in Seq(BlocksOf(k, n))
    BY GraphParts DEF GraphOK, GraphsOf, Size
  <1>2. BlocksOf(k, n) \subseteq T /\ BeginsOf(k) \subseteq BeginsOf(k + m)
    BY <1>1, TypesGrow
  <1>3. g.blocks \in Seq(T)
    BY <1>1, <1>2, SeqMonotonic
  <1>4. [code |-> <<>>, phi |-> {}] \in T
    BY DEF BlocksOf
  <1>5. new \in Seq(T) /\ Len(new) = m /\ \A i \in 1 .. m : new[i] = [code |-> <<>>, phi |-> {}]
    <2>1. new \in [1 .. m -> T]
      BY <1>4
    <2>2. new \in Seq(T)
      BY <2>1, IsASeq
    <2>3. DOMAIN new = 1 .. m
      BY <2>1
    <2>. QED BY <2>2, <2>3, LenProperties
  <1> HIDE DEF new
  <1>6. new \in Seq(T) /\ Len(new) = m
    BY <1>5
  <1>15. /\ g.blocks \o new \in Seq(T)
         /\ Len(g.blocks \o new) = k + m
         /\ \A b \in 1 .. k + m : (g.blocks \o new)[b] = IF b <= k THEN g.blocks[b] ELSE new[b - k]
    <2>1. /\ g.blocks \o new \in Seq(T)
          /\ Len(g.blocks \o new) = k + m
      BY <1>1, <1>3, <1>6, ConcatProperties
    <2>2. \A b \in 1 .. k + m : (g.blocks \o new)[b] = IF b <= Len(g.blocks) THEN g.blocks[b] ELSE new[b - Len(g.blocks)]
      BY <1>1, <1>3, <1>6, ConcatProperties
    <2>. QED BY <2>1, <2>2, <1>1
  <1>7. Create(g, m) = [g EXCEPT !.blocks = g.blocks \o new]
    BY DEF Create, new
  <1>8. g = [blocks |-> g.blocks, cur |-> g.cur, begins |-> g.begins]
    BY DEF GraphOK, GraphsOf
  <1>9. Create(g, m) = [blocks |-> g.blocks \o new, cur |-> g.cur, begins |-> g.begins]
    BY <1>7, <1>8
  <1>10. Size(Create(g, m)) = k + m
    BY <1>9, <1>15 DEF Size
  <1>11. GraphOK(Create(g, m), n)
    <2>1. g.cur \in 1 .. k /\ g.begins \subseteq BeginsOf(k + m)
      BY <1>2, GraphParts
    <2>. QED BY <1>1, <1>15, <1>9, <1>10, <2>1 DEF GraphOK, GraphsOf
  <1>16. Create(g, m).blocks = g.blocks \o new
    BY <1>9
  <1> HIDE DEF k, T
  <1>12. ASSUME NEW b \in k + 1 .. k + m
         PROVE  Create(g, m).blocks[b] = [code |-> <<>>, phi |-> {}]
    <2>1. b - k \in 1 .. m /\ b \in 1 .. k + m /\ ~(b <= k)
      BY <1>1
    <2>2. Create(g, m).blocks[b] = new[b - k]
      BY <1>15, <1>16, <2>1
    <2>. QED BY <1>5, <2>1, <2>2
  <1>13. ASSUME NEW b \in 1 .. k
         PROVE  Create(g, m).blocks[b] = g.blocks[b]
    <2>1. b \in 1 .. k + m /\ b <= k
      BY <1>1
    <2>. QED BY <1>15, <1>16, <2>1
  <1>14. Create(g, m).cur = g.cur /\ Create(g, m).begins = g.begins
    BY <1>9
  <1>. QED BY <1>10, <1>11, <1>12, <1>13, <1>14 DEF k, T

\* An instruction is added to block b, and the others are as they were.
LEMMA EmitAtOK ==
  ASSUME NEW g, NEW n \in Nat, GraphOK(g, n), NEW b \in 1 .. Size(g),
         NEW instr \in InstrsOf(Size(g), n)
  PROVE  /\ GraphOK(EmitAt(g, b, instr), n)
         /\ Size(EmitAt(g, b, instr)) = Size(g)
         /\ EmitAt(g, b, instr).cur = g.cur /\ EmitAt(g, b, instr).begins = g.begins
         /\ \A x \in 1 .. Size(g) : EmitAt(g, b, instr).blocks[x].phi = g.blocks[x].phi
         /\ \A x \in 1 .. Size(g) : EmitAt(g, b, instr).blocks[x].code =
              IF x = b THEN Append(g.blocks[x].code, instr) ELSE g.blocks[x].code
  <1> DEFINE k == Size(g)
             new == [code |-> Append(g.blocks[b].code, instr), phi |-> g.blocks[b].phi]
             blocks == [g.blocks EXCEPT ![b] = new]
  <1>1. /\ g.blocks \in Seq(BlocksOf(k, n)) /\ k = Len(g.blocks) /\ k \in Nat
        /\ g = [blocks |-> g.blocks, cur |-> g.cur, begins |-> g.begins]
    BY DEF GraphOK, GraphsOf, Size
  <1>2. /\ g.blocks[b] = [code |-> g.blocks[b].code, phi |-> g.blocks[b].phi]
        /\ g.blocks[b].code \in Seq(InstrsOf(k, n))
        /\ g.blocks[b].phi \in SUBSET Incomings(k, n)
    BY GraphParts DEF BlocksOf
  <1>3. Append(g.blocks[b].code, instr) \in Seq(InstrsOf(k, n))
    BY <1>2, AppendProperties
  <1>4. new \in BlocksOf(k, n)
    BY <1>2, <1>3 DEF BlocksOf
  <1>6. EmitAt(g, b, instr) = [blocks |-> blocks, cur |-> g.cur, begins |-> g.begins]
    BY EmitAtIs, GraphParts DEF GraphOK
  <1> HIDE DEF new
  <1>7. /\ blocks \in Seq(BlocksOf(k, n)) /\ Len(blocks) = k
        /\ \A x \in 1 .. k : blocks[x] = IF x = b THEN new ELSE g.blocks[x]
    BY <1>1, <1>4, ExceptSeq
  <1> HIDE DEF blocks
  <1>8. /\ EmitAt(g, b, instr).blocks = blocks
        /\ EmitAt(g, b, instr).cur = g.cur /\ EmitAt(g, b, instr).begins = g.begins
        /\ Size(EmitAt(g, b, instr)) = k
    BY <1>6, <1>7 DEF Size
  <1>9. GraphOK(EmitAt(g, b, instr), n)
    <2>1. g.cur \in 1 .. k /\ g.begins \subseteq BeginsOf(k)
      BY GraphParts
    <2>. QED BY <1>1, <1>6, <1>7, <1>8, <2>1 DEF GraphOK, GraphsOf
  <1>10. new.code = Append(g.blocks[b].code, instr) /\ new.phi = g.blocks[b].phi
    BY DEF new
  <1>. QED BY <1>7, <1>8, <1>9, <1>10

LEMMA MoveToOK ==
  ASSUME NEW g, NEW n \in Nat, GraphOK(g, n), NEW b \in 1 .. Size(g)
  PROVE  /\ GraphOK(MoveTo(g, b), n)
         /\ Size(MoveTo(g, b)) = Size(g) /\ MoveTo(g, b).cur = b
         /\ MoveTo(g, b).blocks = g.blocks /\ MoveTo(g, b).begins = g.begins
  <1>1. MoveTo(g, b) = [blocks |-> g.blocks, cur |-> b, begins |-> g.begins]
    BY DEF MoveTo, GraphOK, GraphsOf
  <1>2. Size(MoveTo(g, b)) = Size(g)
    BY <1>1 DEF Size
  <1>3. Size(g) \in Nat
    BY GraphParts
  <1>. QED BY <1>1, <1>2, <1>3 DEF GraphOK, GraphsOf

Incoming(id, v, from) == [id |-> id, value |-> v, from |-> from]

LEMMA AddIncomingChanges ==
  ASSUME NEW g, NEW n \in Nat, GraphOK(g, n), NEW b \in 1 .. Size(g),
         NEW id \in IdsUpTo(n), NEW v \in IdsUpTo(n) \ {Null}, NEW from \in 1 .. Size(g)
  PROVE  /\ GraphOK(AddIncoming(g, b, id, v, from), n)
         /\ Size(AddIncoming(g, b, id, v, from)) = Size(g)
         /\ AddIncoming(g, b, id, v, from).cur = g.cur
         /\ AddIncoming(g, b, id, v, from).begins = g.begins
         /\ \A x \in 1 .. Size(g) : AddIncoming(g, b, id, v, from).blocks[x].code = g.blocks[x].code
         /\ \A x \in 1 .. Size(g) : x # b => AddIncoming(g, b, id, v, from).blocks[x].phi = g.blocks[x].phi
         /\ AddIncoming(g, b, id, v, from).blocks[b].phi = g.blocks[b].phi \cup {Incoming(id, v, from)}
  <1> DEFINE k == Size(g)
             phi == g.blocks[b].phi \cup {Incoming(id, v, from)}
             new == [code |-> g.blocks[b].code, phi |-> phi]
             blocks == [g.blocks EXCEPT ![b] = new]
             h == AddIncoming(g, b, id, v, from)
  <1>1. /\ g.blocks \in Seq(BlocksOf(k, n)) /\ k = Len(g.blocks) /\ k \in Nat
        /\ g = [blocks |-> g.blocks, cur |-> g.cur, begins |-> g.begins]
    BY DEF GraphOK, GraphsOf, Size
  <1>2. /\ g.blocks[b] = [code |-> g.blocks[b].code, phi |-> g.blocks[b].phi]
        /\ g.blocks[b].code \in Seq(InstrsOf(k, n))
        /\ g.blocks[b].phi \in SUBSET Incomings(k, n)
    BY GraphParts DEF BlocksOf
  <1>3. phi \in SUBSET Incomings(k, n)
    BY <1>2 DEF Incomings, Incoming
  <1>4. new \in BlocksOf(k, n)
    BY <1>2, <1>3 DEF BlocksOf
  <1>6. h = [blocks |-> blocks, cur |-> g.cur, begins |-> g.begins]
    BY AddIncomingIs, GraphParts DEF GraphOK, Incoming
  <1>10. new.code = g.blocks[b].code /\ new.phi = phi
    OBVIOUS
  <1> HIDE DEF new
  <1>7. /\ blocks \in Seq(BlocksOf(k, n)) /\ Len(blocks) = k
        /\ \A x \in 1 .. k : blocks[x] = IF x = b THEN new ELSE g.blocks[x]
    BY <1>1, <1>4, ExceptSeq
  <1> HIDE DEF blocks
  <1>8. /\ h.blocks = blocks /\ h.cur = g.cur /\ h.begins = g.begins /\ Size(h) = k
    BY <1>6, <1>7 DEF Size
  <1>9. GraphOK(h, n)
    <2>1. g.cur \in 1 .. k /\ g.begins \subseteq BeginsOf(k)
      BY GraphParts
    <2>. QED BY <1>1, <1>6, <1>7, <1>8, <2>1 DEF GraphOK, GraphsOf
  <1>. QED BY <1>7, <1>8, <1>9, <1>10

\* A value that a phi of block b may have.
IsIncoming(g, n, b, id, v, from) ==
  /\ n \in Nat /\ GraphOK(g, n) /\ b \in 1 .. Size(g)
  /\ id \in IdsUpTo(n) /\ v \in IdsUpTo(n) \ {Null} /\ from \in 1 .. Size(g)

LEMMA AddIncomingOK ==
  ASSUME NEW g, NEW n, NEW b, NEW id, NEW v, NEW from, IsIncoming(g, n, b, id, v, from)
  PROVE  /\ GraphOK(AddIncoming(g, b, id, v, from), n)
         /\ Size(AddIncoming(g, b, id, v, from)) = Size(g)
         /\ AddIncoming(g, b, id, v, from).cur = g.cur
         /\ AddIncoming(g, b, id, v, from).begins = g.begins
         /\ \A x \in 1 .. Size(g) : AddIncoming(g, b, id, v, from).blocks[x].code = g.blocks[x].code
         /\ \A x \in 1 .. Size(g) : x # b => AddIncoming(g, b, id, v, from).blocks[x].phi = g.blocks[x].phi
         /\ AddIncoming(g, b, id, v, from).blocks[b].phi = g.blocks[b].phi \cup {Incoming(id, v, from)}
  <1>1. /\ n \in Nat /\ GraphOK(g, n) /\ b \in 1 .. Size(g)
        /\ id \in IdsUpTo(n) /\ v \in IdsUpTo(n) \ {Null} /\ from \in 1 .. Size(g)
    BY DEF IsIncoming
  <1>. QED BY <1>1, AddIncomingChanges

LEMMA InstrTypes ==
  ASSUME NEW k \in Nat, NEW n \in Nat, NEW id \in IdsUpTo(n), NEW args \in Seq(IdsUpTo(n))
  PROVE  /\ \A op \in Ops : Instr(op, id, args) \in InstrsOf(k, n)
         /\ \A op \in Ops : To(op, args, <<>>) \in InstrsOf(k, n)
         /\ \A op \in Ops, t \in 1 .. k : To(op, args, <<t>>) \in InstrsOf(k, n)
         /\ \A op \in Ops, t \in 1 .. k, u \in 1 .. k : To(op, args, <<t, u>>) \in InstrsOf(k, n)
         /\ \A t \in 1 .. k, u \in 1 .. k : Invoke(id, args, t, u) \in InstrsOf(k, n)
  <1>1. Null \in IdsUpTo(n)
    BY DEF IdsUpTo, Null, Tags
  <1>2. \A op \in Ops : Instr(op, id, args) \in InstrsOf(k, n)
    BY DEF Instr, InstrsOf
  <1>3. \A op \in Ops : Instr(op, Null, args) \in InstrsOf(k, n)
    BY <1>1 DEF Instr, InstrsOf
  <1>4. ASSUME NEW op \in Ops, NEW targets \in Seq(1 .. k)
        PROVE  To(op, args, targets) \in InstrsOf(k, n)
    <2> DEFINE r == Instr(op, Null, args)
    <2>1. r \in InstrsOf(k, n)
      BY <1>3
    <2> HIDE DEF r
    <2>2. [r EXCEPT !.targets = targets] \in InstrsOf(k, n)
      BY <2>1 DEF InstrsOf
    <2>. QED BY <2>2 DEF r, To
  <1>5. Instr("invoke", id, args) \in InstrsOf(k, n)
    BY <1>2 DEF Ops, EndOps
  <1>6. ASSUME NEW t \in 1 .. k, NEW u \in 1 .. k
        PROVE  Invoke(id, args, t, u) \in InstrsOf(k, n)
    <2> DEFINE r == Instr("invoke", id, args)
               to == <<t>>
    <2>1. r \in InstrsOf(k, n) /\ to \in Seq(1 .. k) /\ u \in 0 .. k
      BY <1>5
    <2> HIDE DEF r, to
    <2>2. [r EXCEPT !.targets = to, !.unwind = u] \in InstrsOf(k, n)
      BY <2>1 DEF InstrsOf
    <2>. QED BY <2>2 DEF r, to, Invoke
  <1>7. /\ <<>> \in Seq(1 .. k)
        /\ \A t \in 1 .. k : <<t>> \in Seq(1 .. k)
        /\ \A t \in 1 .. k, u \in 1 .. k : <<t, u>> \in Seq(1 .. k)
    OBVIOUS
  <1>. QED BY <1>2, <1>4, <1>6, <1>7

LEMMA IdTypes ==
  ASSUME NEW n \in Nat, NEW m \in 0 .. n + 1, NEW tag \in Tags
  PROVE  /\ <<m, tag>> \in IdsUpTo(n)
         /\ m # 0 \/ tag # "none" => <<m, tag>> # Null
BY DEF IdsUpTo, Null

LEMMA ConstTypes ==
  ASSUME NEW n \in Nat
  PROVE  /\ Null \in IdsUpTo(n)
         /\ {NullPtr, True, False} \subseteq IdsUpTo(n) \ {Null}
BY DEF IdsUpTo, Null, NullPtr, True, False, Tags

LEMMA ArgTypes ==
  ASSUME NEW n \in Nat, NEW args \in Seq(IdsUpTo(n)), NEW v \in IdsUpTo(n), NEW w \in IdsUpTo(n)
  PROVE  /\ Append(args, v) \in Seq(IdsUpTo(n)) /\ Append(args, v) # <<>>
         /\ <<>> \in Seq(IdsUpTo(n)) /\ <<v>> \in Seq(IdsUpTo(n)) /\ <<v, w>> \in Seq(IdsUpTo(n))
  <1>1. Append(args, v) \in Seq(IdsUpTo(n)) /\ Append(args, v) # <<>>
    BY AppendProperties
  <1>. QED BY <1>1

LEMMA EmitOK ==
  ASSUME NEW g, NEW n \in Nat, GraphOK(g, n), NEW instr \in InstrsOf(Size(g), n)
  PROVE  /\ GraphOK(Emit(g, instr), n) /\ Size(Emit(g, instr)) = Size(g)
         /\ Emit(g, instr).cur = g.cur /\ Emit(g, instr).begins = g.begins
  <1>1. g.cur \in 1 .. Size(g)
    BY GraphParts
  <1>. QED BY <1>1, EmitAtOK DEF Emit

\* A call ends its block or it does not, and keeps the types.
LEMMA LangCallOK ==
  ASSUME NEW g, NEW n \in Nat, GraphOK(g, n), handlers \in Seq(1 .. Size(g)),
         NEW id \in IdsUpTo(n), NEW args \in Seq(IdsUpTo(n))
  PROVE  /\ GraphOK(LangCall(g, id, args), n)
         /\ Size(LangCall(g, id, args)) \in Size(g) .. Size(g) + 1
         /\ LangCall(g, id, args).begins = g.begins
  <1>0. Size(g) \in Nat /\ g.cur \in 1 .. Size(g)
    BY GraphParts
  <1>1. CASE handlers = <<>>
    <2>1. Instr("call", id, args) \in InstrsOf(Size(g), n)
      BY <1>0, InstrTypes DEF Ops
    <2>2. LangCall(g, id, args) = Emit(g, Instr("call", id, args))
      BY <1>1 DEF LangCall
    <2>. QED BY <1>0, <2>1, <2>2, EmitOK
  <1>2. CASE handlers # <<>>
    <2> DEFINE k  == Size(g)
               g1 == Create(g, 1)
               i  == Invoke(id, args, k + 1, Last(handlers))
               g2 == Emit(g1, i)
    <2>1. LangCall(g, id, args) = MoveTo(g2, k + 1)
      BY <1>2 DEF LangCall
    <2>2. GraphOK(g1, n) /\ Size(g1) = k + 1 /\ g1.begins = g.begins
      BY CreateOK
    <2>3. Last(handlers) \in 1 .. k
      <3>1. Len(handlers) \in Nat \ {0}
        BY <1>2, EmptySeq
      <3>2. Len(handlers) \in 1 .. Len(handlers)
        BY <3>1
      <3>. QED BY <3>2, ElementOfSeq DEF Last
    <2>4. i \in InstrsOf(k + 1, n)
      BY <1>0, <2>3, InstrTypes
    <2> HIDE DEF g1, i
    <2>5. GraphOK(g2, n) /\ Size(g2) = k + 1 /\ g2.begins = g.begins
      BY <2>2, <2>4, EmitOK
    <2> HIDE DEF g2
    <2>6. GraphOK(MoveTo(g2, k + 1), n) /\ Size(MoveTo(g2, k + 1)) = k + 1 /\ MoveTo(g2, k + 1).begins = g.begins
      BY <1>0, <2>5, MoveToOK
    <2>. QED BY <1>0, <2>1, <2>6
  <1>. QED BY <1>1, <1>2

-----------------------------------------------------------------------------
(* The functions that run.                                                 *)

LEMMA FrameGrows ==
  ASSUME NEW f, NEW k \in Nat, NEW l \in Nat, k <= l, NEW n \in Nat, NEW m \in Nat, n <= m,
         FrameOK(f, k, n)
  PROVE  FrameOK(f, l, m)
  <1>1. FramesOf(n) \subseteq FramesOf(m)
    <2>1. Seq(IdsUpTo(n)) \subseteq Seq(IdsUpTo(m))
      BY TypesGrow, SeqMonotonic
    <2>2. 1 .. n \subseteq 1 .. m
      OBVIOUS
    <2>. QED BY <2>1, <2>2 DEF FramesOf
  <1>2. f \in FramesOf(n) /\ f.part \in PartsOf(f.op) /\ f.base \in Int
    BY DEF FrameOK, FramesOf
  <1>3. HasBlocks(f) => f.base >= 1 /\ f.base + 3 <= l
    BY <1>2 DEF FrameOK
  <1>4. /\ f.op = "if" /\ f.part = "false" => f.from \in 1 .. l /\ f.args # <<>>
        /\ f.op = "while" /\ f.part = "body" => f.from \in 1 .. l
        /\ Rescuing(f) => /\ f.from \in f.base + 4 .. l /\ f.handler \in f.base + 4 .. l
                          /\ f.args # <<>> /\ (f.part # "rescue" => f.rescues # <<>>)
    BY <1>2 DEF FrameOK
  <1>. QED BY <1>1, <1>2, <1>3, <1>4 DEF FrameOK

\* How the stack changes: one is pushed, the top one is changed, or it ends.
LEMMA StackChanges ==
  ASSUME NEW S, open \in Seq(S), NEW f
  PROVE  /\ Len(open) \in Nat
         /\ Len(Append(open, f)) = Len(open) + 1 /\ Append(open, f)[Len(open) + 1] = f
         /\ \A i \in 1 .. Len(open) : Append(open, f)[i] = open[i] /\ open[i] \in S
         /\ open # <<>> =>
              /\ Len(open) >= 1 /\ Top = open[Len(open)] /\ Top \in S
              /\ Below \in Seq(S) /\ Len(Below) = Len(open) - 1
              /\ \A i \in 1 .. Len(open) - 1 : Below[i] = open[i]
              /\ Len(Append(Below, f)) = Len(open) /\ Append(Below, f)[Len(open)] = f
              /\ \A i \in 1 .. Len(open) - 1 : Append(Below, f)[i] = open[i]
  <1>1. Len(open) \in Nat /\ \A i \in 1 .. Len(open) : open[i] \in S
    OBVIOUS
  <1>2. /\ Len(Append(open, f)) = Len(open) + 1 /\ Append(open, f)[Len(open) + 1] = f
        /\ \A i \in 1 .. Len(open) : Append(open, f)[i] = open[i]
    OBVIOUS
  <1>3. ASSUME open # <<>>
        PROVE  /\ Len(open) >= 1 /\ Top = open[Len(open)] /\ Top \in S
               /\ Below \in Seq(S) /\ Len(Below) = Len(open) - 1
               /\ \A i \in 1 .. Len(open) - 1 : Below[i] = open[i]
    <2>1. Len(open) \in Nat \ {0} /\ Len(open) - 1 \in 0 .. Len(open)
      BY <1>3, EmptySeq
    <2>2. Top = open[Len(open)] /\ Top \in S
      BY <2>1, <1>1 DEF Top, Last
    <2>3. Below \in Seq(S) /\ Len(Below) = Len(open) - 1
      <3>1. \A i \in 1 .. Len(open) - 1 : open[i] \in S
        BY <1>1
      <3>2. Below \in Seq(S)
        BY <2>1, <3>1, SubSeqProperties DEF Below
      <3>3. PICK L \in Nat \ {0} : L = Len(open)
        BY <2>1
      <3>4. Len(SubSeq(open, 1, L - 1)) = L - 1
        BY <3>3
      <3>5. Len(Below) = Len(open) - 1
        BY <3>3, <3>4 DEF Below
      <3>. QED BY <3>2, <3>5
    <2>4. \A i \in 1 .. Len(open) - 1 : Below[i] = open[i]
      BY <2>1 DEF Below
    <2>. QED BY <2>1, <2>2, <2>3, <2>4
  <1>4. ASSUME open # <<>>
        PROVE  /\ Len(Append(Below, f)) = Len(open) /\ Append(Below, f)[Len(open)] = f
               /\ \A i \in 1 .. Len(open) - 1 : Append(Below, f)[i] = open[i]
    BY <1>1, <1>3, <1>4
  <1>. QED BY <1>1, <1>2, <1>3, <1>4

\* What the types say of the numbers and of the function on top.
LEMMA TypedParts ==
  ASSUME Typed
  PROVE  /\ Len(program) \in Nat /\ Size(graph) \in Nat \ {0} /\ graph.cur \in 1 .. Size(graph)
         /\ This \in Nat \ {0} /\ This = Len(program) + 1
         /\ open # <<>> => /\ Top = open[Len(open)] /\ Len(open) \in DOMAIN open
                           /\ Top \in FramesOf(Len(program)) /\ FrameOK(Top, Size(graph), Len(program))
                           /\ Top.stmt \in 1 .. Len(program) /\ Top.args \in Seq(IdsUpTo(Len(program)))
                           /\ Top.base \in Int /\ Top.part \in Parts /\ Top.op \in FrameOps
  <1>1. Len(program) \in Nat
    BY DEF Typed
  <1>2. Size(graph) \in Nat \ {0} /\ graph.cur \in 1 .. Size(graph)
    BY <1>1, GraphParts DEF Typed
  <1>3. This \in Nat \ {0} /\ This = Len(program) + 1
    BY <1>1 DEF This
  <1>4. ASSUME open # <<>>
        PROVE  /\ Top = open[Len(open)] /\ Len(open) \in DOMAIN open
               /\ Top \in FramesOf(Len(program)) /\ FrameOK(Top, Size(graph), Len(program))
    <2>1. open \in Seq(FramesOf(Len(program))) /\ \A i \in DOMAIN open : FrameOK(open[i], Size(graph), Len(program))
      BY DEF Typed
    <2>2. Len(open) \in Nat \ {0} /\ DOMAIN open = 1 .. Len(open)
      BY <1>4, <2>1, EmptySeq
    <2>3. Len(open) \in DOMAIN open
      BY <2>2
    <2>. QED BY <1>4, <2>1, <2>3, StackChanges
  <1>5. ASSUME open # <<>>
        PROVE  /\ Top.stmt \in 1 .. Len(program) /\ Top.args \in Seq(IdsUpTo(Len(program)))
               /\ Top.base \in Int /\ Top.part \in Parts /\ Top.op \in FrameOps
    <2>1. Top \in FramesOf(Len(program))
      BY <1>4, <1>5
    <2>. QED BY <2>1 DEF FramesOf
  <1>. QED BY <1>1, <1>2, <1>3, <1>4, <1>5

\* What a step leaves as it was keeps its type when the graph and the program grow.
LEMMA TypesKept ==
  ASSUME Typed, NEW k \in Nat, Size(graph) <= k, NEW n \in Nat, Len(program) <= n
  PROVE  /\ variables \in [Names -> IdsUpTo(n)] /\ value \in IdsUpTo(n)
         /\ handlers \in Seq(1 .. k) /\ GraphOK(graph, n)
         /\ \A args \in Seq(IdsUpTo(Len(program))) : args \in Seq(IdsUpTo(n))
  <1>1. IdsUpTo(Len(program)) \subseteq IdsUpTo(n) /\ 1 .. Size(graph) \subseteq 1 .. k
    BY TypedParts, TypesGrow
  <1>2. /\ variables \in [Names -> IdsUpTo(Len(program))] /\ value \in IdsUpTo(Len(program))
        /\ handlers \in Seq(1 .. Size(graph)) /\ GraphOK(graph, Len(program))
    BY DEF Typed
  <1>3. handlers \in Seq(1 .. k) /\ \A args \in Seq(IdsUpTo(Len(program))) : args \in Seq(IdsUpTo(n))
    BY <1>1, <1>2, SeqMonotonic
  <1>. QED BY <1>1, <1>2, <1>3, GraphGrows, TypedParts

LEMMA FramesKept ==
  ASSUME Typed, NEW k \in Nat, Size(graph) <= k, NEW n \in Nat, Len(program) <= n, NEW f, NEW fs,
         \/ fs = open
         \/ fs = Append(open, f) /\ FrameOK(f, k, n)
         \/ open # <<>> /\ fs = Below
         \/ open # <<>> /\ fs = Append(Below, f) /\ FrameOK(f, k, n)
  PROVE  fs \in Seq(FramesOf(n)) /\ \A i \in DOMAIN fs : FrameOK(fs[i], k, n)
  <1> DEFINE old == Len(program)
  <1>1. Size(graph) \in Nat /\ old \in Nat /\ open \in Seq(FramesOf(old))
    BY TypedParts DEF Typed
  <1>2. \A i \in 1 .. Len(open) : FrameOK(open[i], k, n)
    <2>1. \A i \in 1 .. Len(open) : FrameOK(open[i], Size(graph), old)
      BY <1>1 DEF Typed
    <2>. QED BY <1>1, <2>1, FrameGrows
  <1>3. \A g : FrameOK(g, k, n) => g \in FramesOf(n)
    BY DEF FrameOK
  <1>4. open \in Seq(FramesOf(n))
    <2>1. open \in [1 .. Len(open) -> FramesOf(n)]
      BY <1>1, <1>2, <1>3
    <2>2. Len(open) \in Nat
      BY <1>1
    <2>. QED BY <2>1, <2>2, SeqDef
  <1>5. CASE fs = open
    BY <1>2, <1>4, <1>5
  <1>6. CASE fs = Append(open, f) /\ FrameOK(f, k, n)
    <2>1. fs \in Seq(FramesOf(n)) /\ DOMAIN fs = 1 .. Len(open) + 1
      BY <1>3, <1>4, <1>6
    <2>. QED BY <2>1, <1>2, <1>4, <1>6, StackChanges
  <1>7. CASE open # <<>> /\ fs = Below
    <2>1. fs \in Seq(FramesOf(n)) /\ Len(fs) = Len(open) - 1 /\ \A i \in 1 .. Len(open) - 1 : fs[i] = open[i]
      BY <1>4, <1>7, StackChanges
    <2>. QED BY <2>1, <1>2, <1>4
  <1>8. CASE open # <<>> /\ fs = Append(Below, f) /\ FrameOK(f, k, n)
    <2>1. Below \in Seq(FramesOf(n)) /\ f \in FramesOf(n)
      BY <1>3, <1>4, <1>8, StackChanges
    <2>2. fs \in Seq(FramesOf(n))
      BY <2>1, <1>8, AppendProperties
    <2>3. /\ Len(fs) = Len(open) /\ fs[Len(open)] = f
          /\ \A i \in 1 .. Len(open) - 1 : fs[i] = open[i]
      BY <1>4, <1>8, StackChanges
    <2>. QED BY <2>2, <2>3, <1>2, <1>4, <1>8
  <1>. QED BY <1>5, <1>6, <1>7, <1>8

\* The stack stays as it should be when a function starts, ends, or goes on to its next part.
LEMMA StackPushed ==
  ASSUME Typed, mode \in {"statement", "body"}, NEW f, open' = Append(open, f),
         mode = "body" => f.op = "block",
         mode' \in {"statement", "value"} => f.op # "begin",
         mode' = "body" => IsBody(f)
  PROVE  StackOK'
  <1>1. open \in Seq(FramesOf(Len(program)))
    BY DEF Typed
  <1>2. open # <<>> /\ Top = open[Len(open)]
    BY TypedParts DEF Typed, StackOK
  <1>3. /\ Len(open') = Len(open) + 1 /\ open'[Len(open) + 1] = f /\ Len(open) \in Nat /\ Len(open) >= 1
        /\ \A i \in 1 .. Len(open) : open'[i] = open[i]
    BY <1>1, <1>2, StackChanges
  <1>4. open' # <<>> /\ Top' = f
    BY <1>3 DEF Top, Last
  <1>5. open'[1].op = "block"
    BY <1>2, <1>3 DEF Typed, StackOK
  <1>6. ASSUME NEW i \in 1 .. Len(open') - 1
        PROVE  /\ ~(open'[i].op = "begin" /\ open'[i].part = "rescue")
               /\ IsBody(open'[i]) => open'[i + 1].op = "block"
    <2>1. CASE i = Len(open)
      <3>1. open'[i] = Top /\ open'[i + 1] = f
        BY <1>2, <1>3, <2>1
      <3>. QED BY <3>1 DEF Typed, StackOK, IsBody
    <2>2. CASE i # Len(open)
      <3>1. i \in 1 .. Len(open) - 1 /\ open'[i] = open[i] /\ open'[i + 1] = open[i + 1]
        BY <1>3, <2>2
      <3>. QED BY <3>1 DEF Typed, StackOK
    <2>. QED BY <2>1, <2>2
  <1>. QED BY <1>4, <1>5, <1>6 DEF StackOK

LEMMA StackPopped ==
  ASSUME Typed, mode = "value", open # <<>>, open' = Below, mode' = "value",
         Top.op = "block" => value' # Null
  PROVE  StackOK'
  <1>1. open \in Seq(FramesOf(Len(program)))
    BY DEF Typed
  <1>2. /\ Len(open') = Len(open) - 1 /\ Len(open) \in Nat /\ Len(open) >= 1 /\ Top = open[Len(open)]
        /\ \A i \in 1 .. Len(open) - 1 : open'[i] = open[i]
        /\ open' \in Seq(FramesOf(Len(program)))
    BY <1>1, StackChanges
  <1>3. ASSUME open' # <<>>
        PROVE  /\ Len(open) - 1 \in 1 .. Len(open) - 1 /\ Top' = open[Len(open) - 1]
               /\ open'[1] = open[1]
    <2>1. Len(open') \in Nat \ {0}
      BY <1>2, <1>3, EmptySeq
    <2>2. Len(open) - 1 >= 1
      BY <1>2, <2>1
    <2>. QED BY <1>2, <2>2 DEF Top, Last
  <1>4. \A i \in 1 .. Len(open') - 1 :
          /\ ~(open'[i].op = "begin" /\ open'[i].part = "rescue")
          /\ IsBody(open'[i]) => open'[i + 1].op = "block"
    <2> TAKE i \in 1 .. Len(open') - 1
    <2>1. i \in 1 .. Len(open) - 1 /\ i + 1 \in 1 .. Len(open) - 1
      BY <1>2
    <2>. QED BY <1>2, <2>1 DEF Typed, StackOK
  <1>5. ASSUME open' # <<>>, Top'.op = "begin", Top'.part \in {"main", "clause"}
        PROVE  value' # Null
    <2>1. IsBody(open[Len(open) - 1]) /\ Len(open) - 1 \in 1 .. Len(open) - 1
      BY <1>3, <1>5 DEF IsBody
    <2>2. open[Len(open) - 1 + 1].op = "block"
      BY <2>1 DEF Typed, StackOK
    <2>. QED BY <1>2, <2>2
  <1>6. ASSUME open' = <<>>
        PROVE  value' # Null
    <2>1. Len(open) = 1
      BY <1>2, <1>6
    <2>. QED BY <1>2, <2>1 DEF Typed, StackOK
  <1>7. open' # <<>> => open'[1].op = "block"
    BY <1>3 DEF Typed, StackOK
  <1>. QED BY <1>4, <1>5, <1>6, <1>7 DEF StackOK

LEMMA StackReplaced ==
  ASSUME Typed, open # <<>>, NEW f, open' = Append(Below, f), f.op = Top.op,
         mode' = "statement" => f.op # "begin" \/ f.part = "class",
         mode' = "body" => IsBody(f),
         mode' = "value" => f.op # "begin" \/ f.part \notin {"main", "clause"}
  PROVE  StackOK'
  <1>1. open \in Seq(FramesOf(Len(program)))
    BY DEF Typed
  <1>2. /\ Len(open') = Len(open) /\ Len(open) \in Nat /\ Len(open) >= 1 /\ Top = open[Len(open)]
        /\ \A i \in 1 .. Len(open) - 1 : open'[i] = open[i]
        /\ open'[Len(open)] = f
    BY <1>1, StackChanges
  <1>3. open' # <<>> /\ Top' = f
    BY <1>2 DEF Top, Last
  <1>4. \A i \in 1 .. Len(open) : open'[i].op = open[i].op
    BY <1>2
  <1>5. open'[1].op = "block"
    BY <1>2, <1>4 DEF Typed, StackOK
  <1>6. ASSUME NEW i \in 1 .. Len(open') - 1
        PROVE  /\ ~(open'[i].op = "begin" /\ open'[i].part = "rescue")
               /\ IsBody(open'[i]) => open'[i + 1].op = "block"
    <2>1. i \in 1 .. Len(open) - 1 /\ i + 1 \in 1 .. Len(open) /\ open'[i] = open[i]
      BY <1>2
    <2>. QED BY <1>4, <2>1 DEF Typed, StackOK
  <1>. QED BY <1>3, <1>5, <1>6 DEF StackOK

LEMMA StackStays ==
  ASSUME Typed, open' = open,
         \/ mode = "statement" /\ mode' = "value"
         \/ mode' \in {"crashed", "undefined"}
  PROVE  StackOK'
BY DEF Typed, StackOK, Top, Last, IsBody

-----------------------------------------------------------------------------
(* The types are kept by every step.                                       *)

Programs == Seq([kind : Kinds, name : Names \cup {"none"}, in : Nat, part : Parts])
ActiveModes == {"statement", "body", "value"}

LEMMA TypedAgain ==
  ASSUME Typed, program' \in Programs, Len(program) <= Len(program'),
         GraphOK(graph', Len(program')), Size(graph) <= Size(graph'),
         handlers' \in Seq(1 .. Size(graph')), variables' \in [Names -> IdsUpTo(Len(program'))],
         value' \in IdsUpTo(Len(program')), mode' \in ActiveModes \cup {"crashed", "undefined"},
         room' \in 0 .. MaxStatements, StackOK', NEW f,
         \/ open' = open
         \/ open' = Append(open, f) /\ FrameOK(f, Size(graph'), Len(program'))
         \/ open # <<>> /\ open' = Below
         \/ open # <<>> /\ open' = Append(Below, f) /\ FrameOK(f, Size(graph'), Len(program'))
  PROVE  Typed'
  <1>1. Len(program') \in Nat
    BY DEF Programs
  <1>2. Size(graph') \in Nat
    BY <1>1, GraphParts
  <1>3. open' \in Seq(FramesOf(Len(program'))) /\ \A i \in DOMAIN open' : FrameOK(open'[i], Size(graph'), Len(program'))
    BY <1>1, <1>2, FramesKept
  <1>. QED BY <1>3 DEF Typed, Programs, ActiveModes

LEMMA WritesOK ==
  ASSUME Typed, open # <<>>, NEW kind \in Kinds, NEW name \in Names \cup {"none"}, Writes(kind, name)
  PROVE  program' \in Programs /\ Len(program') = This
  <1>1. Top.stmt \in Nat /\ Top.part \in Parts /\ Len(program) \in Nat
    BY TypedParts
  <1>2. Node(kind, name) \in [kind : Kinds, name : Names \cup {"none"}, in : Nat, part : Parts]
    BY <1>1 DEF Node
  <1>3. program \in Programs /\ program' = Append(program, Node(kind, name))
    BY DEF Typed, Programs, Writes
  <1>. QED BY <1>1, <1>2, <1>3 DEF Programs, This

\* A statement is begun, in a function that is pushed or without one.
LEMMA StartTyped ==
  ASSUME Typed, mode = "statement", NEW kind \in Kinds, NEW name \in Names \cup {"none"}, Writes(kind, name),
         NEW parts \in Nat, parts <= room, room' = room - parts,
         GraphOK(graph', This), Size(graph) <= Size(graph'),
         handlers' \in Seq(1 .. Size(graph')), variables' \in [Names -> IdsUpTo(This)],
         value' \in IdsUpTo(This), NEW f,
         \/ open' = open /\ mode' \in {"value", "crashed", "undefined"}
         \/ /\ open' = Append(open, f) /\ FrameOK(f, Size(graph'), This)
            /\ \/ mode' \in {"statement", "value"} /\ f.op # "begin"
               \/ mode' = "body" /\ IsBody(f)
  PROVE  Typed'
  <1>1. open # <<>>
    BY DEF Typed, StackOK
  <1>2. program' \in Programs /\ Len(program') = This /\ Len(program) <= This
    BY <1>1, WritesOK, TypedParts
  <1>3. StackOK'
    BY StackPushed, StackStays
  <1>4. room' \in 0 .. MaxStatements
    BY CodegenAssumption DEF Typed
  <1>. QED BY <1>2, <1>3, <1>4, TypedAgain DEF ActiveModes

\* A value has been generated for the function on top, which ends or goes on.
LEMMA ValueTyped ==
  ASSUME Typed, mode = "value", open # <<>>, program' = program,
         GraphOK(graph', Len(program)), Size(graph) <= Size(graph'),
         handlers' \in Seq(1 .. Size(graph')), variables' \in [Names -> IdsUpTo(Len(program))],
         value' \in IdsUpTo(Len(program)), room' \in 0 .. MaxStatements, NEW f,
         \/ open' = Below /\ mode' = "value" /\ (Top.op = "block" => value' # Null)
         \/ /\ open' = Append(Below, f) /\ FrameOK(f, Size(graph'), Len(program)) /\ f.op = Top.op
            /\ \/ mode' = "statement" /\ (f.op # "begin" \/ f.part = "class")
               \/ mode' = "body" /\ IsBody(f)
               \/ mode' = "value" /\ (f.op # "begin" \/ f.part \notin {"main", "clause"})
         \/ open' = open /\ mode' \in {"crashed", "undefined"}
  PROVE  Typed'
  <1>1. StackOK'
    BY StackPopped, StackReplaced, StackStays
  <1>2. program' \in Programs /\ Len(program) <= Len(program')
    BY DEF Typed, Programs
  <1>. QED BY <1>1, <1>2, TypedAgain DEF ActiveModes

LEMMA CrashTyped == Typed /\ mode = "value" /\ open # <<>> /\ Crashes /\ UNCHANGED <<program, variables>> => Typed'
  <1> SUFFICES ASSUME Typed, mode = "value", open # <<>>, Crashes, UNCHANGED <<program, variables>> PROVE Typed'
    OBVIOUS
  <1>1. /\ GraphOK(graph, Len(program)) /\ handlers \in Seq(1 .. Size(graph))
        /\ variables \in [Names -> IdsUpTo(Len(program))] /\ value \in IdsUpTo(Len(program))
        /\ room \in 0 .. MaxStatements /\ Size(graph) <= Size(graph)
    BY TypedParts DEF Typed
  <1>. QED BY <1>1, ValueTyped DEF Crashes

LEMMA RunningOK ==
  ASSUME NEW n \in Nat, NEW s \in 1 .. n, NEW op \in FrameOps, NEW part \in Parts
  PROVE  /\ Running(op, part, s) \in FramesOf(n)
         /\ Running(op, part, s).op = op /\ Running(op, part, s).part = part
         /\ Running(op, part, s).stmt = s /\ Running(op, part, s).args = <<>>
BY DEF Running, FramesOf

\* What is kept when a statement is begun.
LEMMA StartParts ==
  ASSUME Typed, mode = "statement" \/ mode = "body"
  PROVE  /\ open # <<>> /\ This \in Nat \ {0} /\ Size(graph) \in Nat \ {0}
         /\ GraphOK(graph, This) /\ handlers \in Seq(1 .. Size(graph))
         /\ variables \in [Names -> IdsUpTo(This)] /\ value \in IdsUpTo(This)
         /\ \A tag \in Tags : <<This, tag>> \in IdsUpTo(This)
         /\ Null \in IdsUpTo(This)
  <1>1. This \in Nat \ {0} /\ Len(program) <= This /\ Size(graph) \in Nat \ {0} /\ Size(graph) <= Size(graph)
    BY TypedParts
  <1>2. open # <<>>
    BY DEF Typed, StackOK
  <1>3. \A tag \in Tags : <<This, tag>> \in IdsUpTo(This)
    BY <1>1, IdTypes
  <1>. QED BY <1>1, <1>2, <1>3, TypesKept, ConstTypes

LEMMA LiteralTyped == Typed /\ (Literal \/ Absent \/ HolderStarts) => Typed'
  <1>1. ASSUME Typed, Literal PROVE Typed'
    <2>1. <<This, "value">> \in IdsUpTo(This)
      BY <1>1, StartParts DEF Literal, Starts, Tags
    <2>2. Instr("load", <<This, "value">>, <<>>) \in InstrsOf(Size(graph), This)
      <3>1. <<>> \in Seq(IdsUpTo(This)) /\ This \in Nat /\ Size(graph) \in Nat
        BY <1>1, StartParts DEF Literal, Starts
      <3>. QED BY <2>1, <3>1, InstrTypes DEF Ops
    <2>3. GraphOK(graph', This) /\ Size(graph') = Size(graph)
      BY <1>1, <2>2, StartParts, EmitOK DEF Literal, Starts
    <2>. QED BY <1>1, <2>1, <2>3, StartParts, StartTyped DEF Literal, Starts, Yields, Kinds
  <1>2. ASSUME Typed, Absent PROVE Typed'
    BY <1>2, StartParts, StartTyped DEF Absent, Starts, Yields, Kinds
  <1>3. ASSUME Typed, HolderStarts PROVE Typed'
    BY <1>3, StartParts, StartTyped DEF HolderStarts, Starts, Kinds
  <1>. QED BY <1>1, <1>2, <1>3

\* A function that is pushed with nothing but its parts to generate.
LEMMA PushedOK ==
  ASSUME Typed, mode = "statement", NEW op \in FrameOps, NEW part \in Parts, NEW n \in Int,
         NEW args \in Seq(IdsUpTo(This)), part \in PartsOf(op), ~HasBlocks(Running(op, part, This))
  PROVE  /\ FrameOK(Running(op, part, This), Size(graph), This)
         /\ FrameOK([Running(op, part, This) EXCEPT !.left = n], Size(graph), This)
         /\ FrameOK([Running(op, part, This) EXCEPT !.args = args], Size(graph), This)
         /\ \A b \in BOOLEAN : FrameOK([Running(op, part, This) EXCEPT !.optional = b], Size(graph), This)
         /\ [Running(op, part, This) EXCEPT !.left = n].op = op
         /\ [Running(op, part, This) EXCEPT !.args = args].op = op
         /\ \A b \in BOOLEAN : [Running(op, part, This) EXCEPT !.optional = b].op = op
  <1> DEFINE r == Running(op, part, This)
  <1>1. r \in FramesOf(This) /\ r.op = op /\ r.part = part
    <2>1. This \in Nat /\ This \in 1 .. This
      BY TypedParts
    <2>. QED BY <2>1, RunningOK
  <1>2. ~Rescuing(r) /\ ~(op = "if" /\ part = "false") /\ ~(op = "while" /\ part = "body")
    BY <1>1 DEF HasBlocks, Rescuing
  <1> HIDE DEF r
  <1>3. /\ [r EXCEPT !.left = n] \in FramesOf(This) /\ [r EXCEPT !.left = n].op = op
        /\ [r EXCEPT !.left = n].part = part
    BY <1>1 DEF FramesOf
  <1>4. /\ [r EXCEPT !.args = args] \in FramesOf(This) /\ [r EXCEPT !.args = args].op = op
        /\ [r EXCEPT !.args = args].part = part
    BY <1>1 DEF FramesOf
  <1>5. ASSUME NEW b \in BOOLEAN
        PROVE  /\ [r EXCEPT !.optional = b] \in FramesOf(This) /\ [r EXCEPT !.optional = b].op = op
               /\ [r EXCEPT !.optional = b].part = part
    BY <1>1 DEF FramesOf
  <1>6. ASSUME NEW f \in FramesOf(This), f.op = op, f.part = part
        PROVE  FrameOK(f, Size(graph), This)
    BY <1>1, <1>2, <1>6 DEF FrameOK, HasBlocks, Rescuing, r
  <1>. QED BY <1>1, <1>3, <1>4, <1>5, <1>6 DEF r

LEMMA CallStartsTyped == ASSUME Typed, NEW n \in Nat, CallStarts(n) PROVE Typed'
  <1>1. mode = "statement" /\ n <= room /\ room' = room - n /\ Writes("call", "none")
    BY DEF CallStarts, Starts
  <1>2. <<This, "value">> \in IdsUpTo(This) /\ <<>> \in Seq(IdsUpTo(This))
    BY <1>1, StartParts DEF Tags
  <1>3. CASE n = 0
    <2>1. GraphOK(graph', This) /\ Size(graph') >= Size(graph) /\ Size(graph') \in Nat
      <3>1. graph' = LangCall(graph, <<This, "value">>, <<>>)
        BY <1>3 DEF CallStarts
      <3>2. GraphOK(graph, This) /\ handlers \in Seq(1 .. Size(graph)) /\ This \in Nat /\ Size(graph) \in Nat
        BY <1>1, StartParts
      <3>3. /\ GraphOK(LangCall(graph, <<This, "value">>, <<>>), This)
            /\ Size(LangCall(graph, <<This, "value">>, <<>>)) \in Size(graph) .. Size(graph) + 1
        BY <1>2, <3>2, LangCallOK
      <3>4. Size(graph') \in Size(graph) .. Size(graph) + 1
        BY <3>1, <3>3
      <3>. QED BY <3>1, <3>2, <3>3, <3>4
    <2>2. handlers' \in Seq(1 .. Size(graph'))
      BY <1>1, <2>1, TypesKept, TypedParts DEF CallStarts
    <2>. QED BY <1>1, <1>2, <1>3, <2>1, <2>2, StartParts, StartTyped DEF CallStarts, Yields, Kinds
  <1>4. CASE n # 0
    <2> DEFINE f == [Running("call", "operand", This) EXCEPT !.left = n]
    <2>1. FrameOK(f, Size(graph), This) /\ f.op = "call"
      <3>1. ~HasBlocks(Running("call", "operand", This))
        BY DEF HasBlocks, Running
      <3>2. "call" \in FrameOps /\ "operand" \in Parts /\ "operand" \in PartsOf("call")
        BY DEF FrameOps, Parts, PartsOf
      <3>3. n \in Int
        OBVIOUS
      <3>. QED BY <1>1, <1>2, <3>1, <3>2, <3>3, PushedOK
    <2>2. open' = Append(open, f) /\ mode' = "statement" /\ UNCHANGED <<graph, handlers, variables, value>>
      BY <1>4 DEF CallStarts, Push, Generate
    <2> HIDE DEF f
    <2>. QED BY <1>1, <2>1, <2>2, StartParts, StartTyped DEF Kinds
  <1>. QED BY <1>3, <1>4

\* What is kept when a value has been generated for the function on top.
LEMMA ValueParts ==
  ASSUME Typed, open # <<>>
  PROVE  /\ Len(program) \in Nat /\ Size(graph) \in Nat \ {0} /\ graph.cur \in 1 .. Size(graph)
         /\ GraphOK(graph, Len(program)) /\ handlers \in Seq(1 .. Size(graph))
         /\ variables \in [Names -> IdsUpTo(Len(program))] /\ value \in IdsUpTo(Len(program))
         /\ room \in 0 .. MaxStatements
         /\ \A tag \in Tags : <<Top.stmt, tag>> \in IdsUpTo(Len(program)) /\ <<Top.stmt, tag>> # Null
         /\ \A tag \in Tags : <<This, tag>> \in IdsUpTo(Len(program)) /\ <<This, tag>> # Null
         /\ Null \in IdsUpTo(Len(program)) /\ {NullPtr, True, False} \subseteq IdsUpTo(Len(program)) \ {Null}
  <1>1. Len(program) \in Nat /\ Top.stmt \in 1 .. Len(program) /\ This = Len(program) + 1
    BY TypedParts
  <1>2. \A tag \in Tags : <<Top.stmt, tag>> \in IdsUpTo(Len(program)) /\ <<Top.stmt, tag>> # Null
    BY <1>1, IdTypes
  <1>3. \A tag \in Tags : <<This, tag>> \in IdsUpTo(Len(program)) /\ <<This, tag>> # Null
    BY <1>1, IdTypes
  <1>. QED BY <1>1, <1>2, <1>3, TypedParts, ConstTypes DEF Typed

\* A step that changes the graph and goes on with what is on the stack.
LEMMA PartTyped ==
  ASSUME Typed, mode = "value", open # <<>>, UNCHANGED <<handlers, program, variables>>,
         GraphOK(graph', Len(program)), Size(graph) <= Size(graph'),
         value' \in IdsUpTo(Len(program)), room' \in 0 .. MaxStatements, NEW f,
         \/ open' = Below /\ mode' = "value" /\ (Top.op = "block" => value' # Null)
         \/ /\ open' = Append(Below, f) /\ FrameOK(f, Size(graph'), Len(program)) /\ f.op = Top.op
            /\ \/ mode' = "statement" /\ (f.op # "begin" \/ f.part = "class")
               \/ mode' = "body" /\ IsBody(f)
               \/ mode' = "value" /\ (f.op # "begin" \/ f.part \notin {"main", "clause"})
  PROVE  Typed'
  <1>1. Len(program) \in Nat
    BY TypedParts
  <1>2. Size(graph') \in Nat
    BY <1>1, GraphParts
  <1>3. handlers \in Seq(1 .. Size(graph')) /\ variables \in [Names -> IdsUpTo(Len(program))]
    BY <1>1, <1>2, TypesKept
  <1>. QED BY <1>3, ValueTyped

LEMMA NextOperandTyped ==
  ASSUME Typed, mode = "value", open # <<>>, Top.op \in {"call", "return", "index"}, Top.part = "operand",
         NextOperand, UNCHANGED <<program, variables>>
  PROVE  Typed'
  <1> DEFINE n == Len(program)
             t == Top
             args == Append(t.args, value)
             f == [t EXCEPT !.left = t.left - 1, !.args = args]
  <1>1. open' = Append(Below, f) /\ mode' = "statement" /\ UNCHANGED <<graph, handlers, room, value>>
    BY DEF NextOperand, TopIs, Generate
  <1>2. t \in FramesOf(n) /\ t.left - 1 \in Int /\ args \in Seq(IdsUpTo(n)) /\ t.part \in PartsOf(t.op)
    <2>1. Top \in FramesOf(n) /\ Top.args \in Seq(IdsUpTo(n)) /\ value \in IdsUpTo(n) /\ n \in Nat
      BY TypedParts, ValueParts
    <2>2. Top.left \in Int
      BY <2>1 DEF FramesOf
    <2>3. Top.part \in PartsOf(Top.op)
      BY TypedParts DEF FrameOK
    <2>. QED BY <2>1, <2>2, <2>3, ArgTypes
  <1> HIDE DEF t, args
  <1>3. f \in FramesOf(n) /\ f.op = t.op /\ f.part = t.part
    BY <1>2 DEF FramesOf
  <1> HIDE DEF f
  <1>4. t.op \in {"call", "return", "index"} /\ t.part = "operand"
    BY DEF t
  <1>5. FrameOK(f, Size(graph), n)
    BY <1>2, <1>3, <1>4 DEF FrameOK, HasBlocks, Rescuing
  <1>6. f.op = Top.op /\ f.op # "begin"
    BY <1>3, <1>4 DEF t
  <1>. QED BY <1>1, <1>5, <1>6, ValueParts, PartTyped

\* A call that ends what is on top.
LEMMA CalledOK ==
  ASSUME Typed, open # <<>>, NEW id \in IdsUpTo(Len(program)), NEW args \in Seq(IdsUpTo(Len(program))),
         NEW g, GraphOK(g, Len(program)), Size(graph) <= Size(g)
  PROVE  /\ GraphOK(LangCall(g, id, args), Len(program)) /\ Size(g) \in Nat
         /\ Size(LangCall(g, id, args)) \in Size(g) .. Size(g) + 1
         /\ Size(graph) <= Size(LangCall(g, id, args))
         /\ LangCall(g, id, args).begins = g.begins
  <1>1. Len(program) \in Nat /\ Size(graph) \in Nat
    BY TypedParts
  <1>2. Size(g) \in Nat
    BY <1>1, GraphParts
  <1>3. handlers \in Seq(1 .. Size(g))
    BY <1>1, <1>2, TypesKept
  <1>4. /\ GraphOK(LangCall(g, id, args), Len(program))
        /\ Size(LangCall(g, id, args)) \in Size(g) .. Size(g) + 1
        /\ LangCall(g, id, args).begins = g.begins
    BY <1>1, <1>3, LangCallOK
  <1>. QED BY <1>1, <1>2, <1>4

LEMMA CallOperandTyped == ASSUME Typed, CallOperand PROVE Typed'
  <1>1. mode = "value" /\ open # <<>> /\ Top.op = "call" /\ Top.part = "operand" /\ UNCHANGED <<program, variables>>
    BY DEF CallOperand, Has
  <1>2. CASE value = Null
    BY <1>1, <1>2, CrashTyped DEF CallOperand
  <1>3. CASE value # Null /\ Top.left > 1
    BY <1>1, <1>3, NextOperandTyped DEF CallOperand
  <1>4. CASE value # Null /\ ~(Top.left > 1)
    <2> DEFINE n == Len(program)
               id == <<Top.stmt, "value">>
               args == Append(Top.args, value)
    <2>1. graph' = LangCall(graph, id, args) /\ open' = Below /\ mode' = "value" /\ value' = id /\ UNCHANGED <<handlers, room>>
      BY <1>4 DEF CallOperand, Yields
    <2>2. id \in IdsUpTo(n) /\ id # Null /\ args \in Seq(IdsUpTo(n))
      BY <1>1, ValueParts, TypedParts, ArgTypes DEF Tags
    <2> HIDE DEF id, args
    <2>3. GraphOK(graph, n) /\ Size(graph) <= Size(graph)
      BY <1>1, ValueParts
    <2>4. GraphOK(LangCall(graph, id, args), n) /\ Size(graph) <= Size(LangCall(graph, id, args))
      BY <1>1, <2>2, <2>3, CalledOK
    <2>5. GraphOK(graph', n) /\ Size(graph) <= Size(graph')
      BY <2>1, <2>4
    <2>. QED BY <1>1, <2>1, <2>2, <2>5, ValueParts, PartTyped
  <1>. QED BY <1>2, <1>3, <1>4

LEMMA ReturnStartsTyped == ASSUME Typed, NEW n \in Nat, ReturnStarts(n) PROVE Typed'
  <1>1. mode = "statement" /\ n <= room /\ room' = room - n /\ Writes("return", "none")
    BY DEF ReturnStarts, Starts
  <1>2. This \in Nat /\ Size(graph) \in Nat /\ Null \in IdsUpTo(This) /\ <<>> \in Seq(IdsUpTo(This))
    BY <1>1, StartParts
  <1>3. CASE n = 0
    <2>1. To("return", <<>>, <<>>) \in InstrsOf(Size(graph), This)
      BY <1>2, InstrTypes DEF Ops, EndOps
    <2>2. GraphOK(graph', This) /\ Size(graph') = Size(graph)
      BY <1>1, <1>2, <1>3, <2>1, StartParts, EmitOK DEF ReturnStarts
    <2>. QED BY <1>1, <1>2, <1>3, <2>2, StartParts, StartTyped DEF ReturnStarts, Yields, Kinds
  <1>4. CASE n # 0
    <2> DEFINE f == [Running("return", "operand", This) EXCEPT !.left = n]
    <2>1. FrameOK(f, Size(graph), This) /\ f.op = "return"
      <3>1. ~HasBlocks(Running("return", "operand", This))
        BY DEF HasBlocks, Running
      <3>2. "return" \in FrameOps /\ "operand" \in Parts /\ "operand" \in PartsOf("return")
        BY DEF FrameOps, Parts, PartsOf
      <3>3. n \in Int
        OBVIOUS
      <3>. QED BY <1>1, <1>2, <3>1, <3>2, <3>3, PushedOK
    <2>2. open' = Append(open, f) /\ mode' = "statement" /\ UNCHANGED <<graph, handlers, variables, value>>
      BY <1>4 DEF ReturnStarts, Push, Generate
    <2> HIDE DEF f
    <2>. QED BY <1>1, <2>1, <2>2, StartParts, StartTyped DEF Kinds
  <1>. QED BY <1>3, <1>4

LEMMA ReturnOperandTyped == ASSUME Typed, ReturnOperand PROVE Typed'
  <1>1. mode = "value" /\ open # <<>> /\ Top.op = "return" /\ Top.part = "operand" /\ UNCHANGED <<program, variables>>
    BY DEF ReturnOperand, Has
  <1> DEFINE n        == Len(program)
             array    == <<Top.stmt, "value">>
             operands == Append(Top.args, value)
             returned == IF Len(operands) > 1 THEN <<array>> ELSE IF value = Null THEN <<>> ELSE <<value>>
             called   == IF Len(operands) > 1 THEN LangCall(graph, array, operands) ELSE graph
  <1>2. \/ Top.left > 1 /\ NextOperand
        \/ Crashes
        \/ /\ graph' = Emit(called, To("return", returned, <<>>))
           /\ open' = Below /\ Yields(Null) /\ UNCHANGED <<handlers, room>>
    BY DEF ReturnOperand
  <1>3. CASE Top.left > 1 /\ NextOperand
    BY <1>1, <1>3, NextOperandTyped
  <1>4. CASE Crashes
    BY <1>1, <1>4, CrashTyped
  <1>5. CASE /\ graph' = Emit(called, To("return", returned, <<>>))
             /\ open' = Below /\ Yields(Null) /\ UNCHANGED <<handlers, room>>
    <2>1. array \in IdsUpTo(n) /\ operands \in Seq(IdsUpTo(n)) /\ value \in IdsUpTo(n)
      BY <1>1, ValueParts, TypedParts, ArgTypes DEF Tags
    <2>2. returned \in Seq(IdsUpTo(n))
      BY <2>1
    <2> HIDE DEF array, operands, returned
    <2>3. GraphOK(graph, n) /\ Size(graph) <= Size(graph)
      BY <1>1, ValueParts
    <2>4. GraphOK(called, n) /\ Size(graph) <= Size(called)
      BY <1>1, <2>1, <2>3, CalledOK
    <2> HIDE DEF called
    <2>5. To("return", returned, <<>>) \in InstrsOf(Size(called), n)
      <3>1. Size(called) \in Nat /\ n \in Nat /\ Null \in IdsUpTo(n)
        BY <1>1, <2>4, ValueParts, GraphParts
      <3>. QED BY <2>2, <3>1, InstrTypes DEF Ops, EndOps
    <2>6. GraphOK(graph', n) /\ Size(graph') = Size(called)
      BY <1>1, <1>5, <2>4, <2>5, EmitOK, ValueParts
    <2>. QED BY <1>1, <1>5, <2>4, <2>6, ValueParts, PartTyped DEF Yields
  <1>. QED BY <1>2, <1>3, <1>4, <1>5

LEMMA BlockStartsTyped == ASSUME Typed, BlockStarts PROVE Typed'
  <1> DEFINE f == Running("block", "list", This)
  <1>1. /\ mode \in {"statement", "body"} /\ room' \in 0 .. MaxStatements /\ Writes("block", "none")
        /\ open' = Append(open, f) /\ mode' = "value" /\ value' = Null
        /\ UNCHANGED <<graph, handlers, variables>>
    BY CodegenAssumption DEF BlockStarts, Starts, Push, Yields, Typed
  <1>2. FrameOK(f, Size(graph), This) /\ f.op = "block"
    <2>1. This \in Nat /\ This \in 1 .. This
      BY TypedParts
    <2>2. "block" \in FrameOps /\ "list" \in Parts /\ "list" \in PartsOf("block")
      BY DEF FrameOps, Parts, PartsOf
    <2>3. f \in FramesOf(This) /\ f.op = "block" /\ f.part = "list"
      BY <2>1, <2>2, RunningOK
    <2>. QED BY <2>2, <2>3 DEF FrameOK, HasBlocks, Rescuing
  <1> HIDE DEF f
  <1>3. StackOK'
    BY <1>1, <1>2, StackPushed
  <1>4. program' \in Programs /\ Len(program') = This /\ Len(program) <= This
    BY <1>1, StartParts, WritesOK, TypedParts DEF Kinds
  <1>5. /\ GraphOK(graph, This) /\ handlers \in Seq(1 .. Size(graph)) /\ variables \in [Names -> IdsUpTo(This)]
        /\ Null \in IdsUpTo(This) /\ Size(graph) <= Size(graph)
    BY <1>1, StartParts
  <1>. QED BY <1>1, <1>2, <1>3, <1>4, <1>5, TypedAgain DEF ActiveModes

LEMMA BlockGoesOnTyped == ASSUME Typed, BlockGoesOn PROVE Typed'
  <1>1. /\ mode = "value" /\ open # <<>> /\ Top.op = "block" /\ UNCHANGED <<program, variables>>
        /\ mode' = "statement" /\ room' \in 0 .. MaxStatements
        /\ UNCHANGED <<graph, handlers, open, value>>
    BY CodegenAssumption DEF BlockGoesOn, Has, Generate, Typed
  <1>2. StackOK'
    BY <1>1 DEF Typed, StackOK, Top, Last, IsBody
  <1>3. program' \in Programs /\ Len(program) <= Len(program')
    BY <1>1 DEF Typed, Programs
  <1>4. /\ GraphOK(graph, Len(program)) /\ handlers \in Seq(1 .. Size(graph))
        /\ variables \in [Names -> IdsUpTo(Len(program))] /\ value \in IdsUpTo(Len(program))
        /\ Size(graph) <= Size(graph)
    BY <1>1, ValueParts
  <1>. QED BY <1>1, <1>2, <1>3, <1>4, TypedAgain DEF ActiveModes

LEMMA BlockEndsTyped == ASSUME Typed, BlockEnds PROVE Typed'
  <1> DEFINE nil == <<Top.stmt, "nil">>
             n   == Len(program)
  <1>1. /\ mode = "value" /\ open # <<>> /\ UNCHANGED <<program, variables, handlers, room>>
        /\ open' = Below /\ mode' = "value"
        /\ \/ value # Null /\ value' = value /\ graph' = graph
           \/ value' = nil /\ graph' = Emit(graph, Instr("load", nil, <<>>))
    BY DEF BlockEnds, Has, Yields
  <1>2. nil \in IdsUpTo(n) /\ nil # Null /\ value \in IdsUpTo(n) /\ GraphOK(graph, n) /\ n \in Nat
    BY <1>1, ValueParts DEF Tags
  <1> HIDE DEF nil
  <1>3. Instr("load", nil, <<>>) \in InstrsOf(Size(graph), n)
    <2>1. Size(graph) \in Nat /\ <<>> \in Seq(IdsUpTo(n))
      BY <1>1, ValueParts
    <2>. QED BY <1>2, <2>1, InstrTypes DEF Ops
  <1>4. GraphOK(graph', n) /\ Size(graph') = Size(graph)
    BY <1>1, <1>2, <1>3, EmitOK
  <1>5. Size(graph) <= Size(graph') /\ value' \in IdsUpTo(n) /\ value' # Null
    BY <1>1, <1>2, <1>4, ValueParts
  <1>. QED BY <1>1, <1>4, <1>5, ValueParts, PartTyped

LEMMA ReadStartsTyped == ASSUME Typed, NEW name \in Names, ReadStarts(name) PROVE Typed'
  <1> DEFINE slot == variables[name]
             id   == <<This, "value">>
  <1>1. /\ mode = "statement" /\ 0 <= room /\ room' = room - 0
        /\ Writes(IF slot = Null THEN "call" ELSE "read", name)
        /\ mode' = "value" /\ value' = id /\ UNCHANGED <<handlers, variables, open>>
        /\ \/ graph' = LangCall(graph, id, <<>>)
           \/ graph' = Emit(graph, Instr("load", id, <<slot>>))
    BY DEF ReadStarts, Starts, Yields
  <1>2. /\ id \in IdsUpTo(This) /\ slot \in IdsUpTo(This) /\ This \in Nat
        /\ GraphOK(graph, This) /\ handlers \in Seq(1 .. Size(graph)) /\ Size(graph) \in Nat
        /\ variables \in [Names -> IdsUpTo(This)]
    BY <1>1, StartParts DEF Tags
  <1> HIDE DEF slot, id
  <1>3. <<>> \in Seq(IdsUpTo(This)) /\ <<slot>> \in Seq(IdsUpTo(This))
    BY <1>2
  <1>4. Instr("load", id, <<slot>>) \in InstrsOf(Size(graph), This)
    BY <1>2, <1>3, InstrTypes DEF Ops
  <1>5. GraphOK(graph', This) /\ Size(graph') \in Size(graph) .. Size(graph) + 1
    <2>1. CASE graph' = LangCall(graph, id, <<>>)
      <3>1. /\ GraphOK(LangCall(graph, id, <<>>), This)
            /\ Size(LangCall(graph, id, <<>>)) \in Size(graph) .. Size(graph) + 1
        BY <1>2, <1>3, LangCallOK
      <3>. QED BY <2>1, <3>1
    <2>2. CASE graph' = Emit(graph, Instr("load", id, <<slot>>))
      BY <1>2, <1>4, <2>2, EmitOK
    <2>. QED BY <1>1, <2>1, <2>2
  <1>6. handlers' \in Seq(1 .. Size(graph')) /\ Size(graph) <= Size(graph')
    BY <1>1, <1>2, <1>5, TypesKept, TypedParts
  <1>7. (IF slot = Null THEN "call" ELSE "read") \in Kinds
    BY DEF Kinds
  <1>. QED BY <1>1, <1>2, <1>5, <1>6, <1>7, StartTyped

LEMMA AssignStartsTyped == ASSUME Typed, NEW name \in Names, AssignStarts(name) PROVE Typed'
  <1> DEFINE slot == IF variables[name] = Null THEN <<This, "slot">> ELSE variables[name]
             f    == [Running("assign", "operand", This) EXCEPT !.args = <<slot>>]
  <1>1. /\ mode = "statement" /\ 1 <= room /\ room' = room - 1 /\ Writes("assign", name)
        /\ variables' = [variables EXCEPT ![name] = slot]
        /\ graph' = Emit(graph, Instr("alloca", slot, <<>>)) \/ graph' = graph
        /\ open' = Append(open, f) /\ mode' = "statement" /\ UNCHANGED <<handlers, value>>
    BY DEF AssignStarts, Starts, Push, Generate
  <1>2. /\ slot \in IdsUpTo(This) /\ This \in Nat /\ GraphOK(graph, This) /\ Size(graph) \in Nat
        /\ handlers \in Seq(1 .. Size(graph))
        /\ variables \in [Names -> IdsUpTo(This)] /\ value \in IdsUpTo(This)
    BY <1>1, StartParts DEF Tags
  <1> HIDE DEF slot
  <1>3. <<slot>> \in Seq(IdsUpTo(This)) /\ <<>> \in Seq(IdsUpTo(This))
    BY <1>2
  <1>4. FrameOK(f, Size(graph), This) /\ f.op = "assign"
    <2>1. ~HasBlocks(Running("assign", "operand", This))
      BY DEF HasBlocks, Running
    <2>2. "assign" \in FrameOps /\ "operand" \in Parts /\ "operand" \in PartsOf("assign")
      BY DEF FrameOps, Parts, PartsOf
    <2>3. 0 \in Int
      OBVIOUS
    <2>. QED BY <1>1, <1>3, <2>1, <2>2, <2>3, PushedOK
  <1> HIDE DEF f
  <1>5. Instr("alloca", slot, <<>>) \in InstrsOf(Size(graph), This)
    BY <1>2, <1>3, InstrTypes DEF Ops
  <1>6. GraphOK(graph', This) /\ Size(graph') = Size(graph)
    BY <1>1, <1>2, <1>5, EmitOK
  <1>7. variables' \in [Names -> IdsUpTo(This)]
    BY <1>1, <1>2
  <1>8. name \in Names \cup {"none"} /\ "assign" \in Kinds /\ Size(graph) <= Size(graph')
    BY <1>2, <1>6 DEF Kinds
  <1>. QED BY <1>1, <1>2, <1>4, <1>6, <1>7, <1>8, StartTyped

LEMMA AssignOperandTyped == ASSUME Typed, AssignOperand PROVE Typed'
  <1>1. mode = "value" /\ open # <<>> /\ Top.op = "assign" /\ UNCHANGED <<program, variables>>
    BY DEF AssignOperand, Has
  <1>2. CASE value = Null
    BY <1>1, <1>2, CrashTyped DEF AssignOperand
  <1>3. CASE value # Null
    <2> DEFINE n == Len(program)
               id == <<Top.stmt, "stored">>
               args == Append(Top.args, value)
    <2>1. /\ graph' = Emit(graph, Instr("store", id, args))
          /\ open' = Below /\ mode' = "value" /\ value' = value /\ UNCHANGED <<handlers, room>>
      BY <1>3 DEF AssignOperand, Yields
    <2>2. id \in IdsUpTo(n) /\ args \in Seq(IdsUpTo(n)) /\ n \in Nat
      BY <1>1, ValueParts, TypedParts, ArgTypes DEF Tags
    <2> HIDE DEF id, args
    <2>3. GraphOK(graph, n) /\ Size(graph) \in Nat
      BY <1>1, ValueParts
    <2>4. Instr("store", id, args) \in InstrsOf(Size(graph), n)
      BY <2>2, <2>3, InstrTypes DEF Ops
    <2>5. GraphOK(graph', n) /\ Size(graph') = Size(graph)
      BY <2>1, <2>2, <2>3, <2>4, EmitOK
    <2>6. Size(graph) <= Size(graph')
      BY <2>3, <2>5
    <2>. QED BY <1>1, <2>1, <2>5, <2>6, ValueParts, PartTyped
  <1>. QED BY <1>2, <1>3

LEMMA IndexStartsTyped == ASSUME Typed, IndexStarts PROVE Typed'
  <1> DEFINE f == [Running("index", "operand", This) EXCEPT !.left = 2]
  <1>1. /\ mode = "statement" /\ 3 <= room /\ room' = room - 3 /\ Writes("index", "none")
        /\ open' = Append(open, f) /\ mode' = "statement" /\ UNCHANGED <<graph, handlers, variables, value>>
    BY DEF IndexStarts, Starts, Push, Generate
  <1>2. FrameOK(f, Size(graph), This) /\ f.op = "index"
    <2>1. ~HasBlocks(Running("index", "operand", This))
      BY DEF HasBlocks, Running
    <2>2. "index" \in FrameOps /\ "operand" \in Parts /\ "operand" \in PartsOf("index")
      BY DEF FrameOps, Parts, PartsOf
    <2>3. 2 \in Int /\ <<>> \in Seq(IdsUpTo(This))
      OBVIOUS
    <2>. QED BY <1>1, <2>1, <2>2, <2>3, PushedOK
  <1> HIDE DEF f
  <1>. QED BY <1>1, <1>2, StartParts, StartTyped DEF Kinds

LEMMA IndexOperandTyped == ASSUME Typed, IndexOperand PROVE Typed'
  <1>1. mode = "value" /\ open # <<>> /\ Top.op = "index" /\ Top.part = "operand" /\ UNCHANGED <<program, variables>>
    BY DEF IndexOperand, Has
  <1>2. CASE value = Null
    BY <1>1, <1>2, CrashTyped DEF IndexOperand
  <1>3. CASE value # Null /\ Top.left > 1
    BY <1>1, <1>3, NextOperandTyped DEF IndexOperand
  <1>4. CASE value # Null /\ ~(Top.left > 1)
    <2> DEFINE n == Len(program)
               id == <<Top.stmt, "before">>
               t == Top
               args == Append(t.args, value)
               f == [t EXCEPT !.part = "right", !.args = args]
    <2>1. /\ graph' = LangCall(graph, id, args) /\ open' = Append(Below, f)
          /\ mode' = "statement" /\ UNCHANGED <<handlers, room, value>>
      BY <1>4 DEF IndexOperand, TopIs, Generate
    <2>2. id \in IdsUpTo(n) /\ args \in Seq(IdsUpTo(n)) /\ t \in FramesOf(n) /\ t.op = "index"
      BY <1>1, ValueParts, TypedParts, ArgTypes DEF Tags
    <2>3. t.op = Top.op
      OBVIOUS
    <2> HIDE DEF id, args, t
    <2>4. f \in FramesOf(n) /\ f.op = "index" /\ f.part = "right"
      BY <2>2 DEF FramesOf, Parts
    <2> HIDE DEF f
    <2>5. GraphOK(graph, n) /\ Size(graph) <= Size(graph)
      BY <1>1, ValueParts
    <2>6. GraphOK(LangCall(graph, id, args), n) /\ Size(graph) <= Size(LangCall(graph, id, args))
      BY <1>1, <2>2, <2>5, CalledOK
    <2>7. GraphOK(graph', n) /\ Size(graph) <= Size(graph')
      BY <2>1, <2>6
    <2>8. FrameOK(f, Size(graph'), n)
      BY <2>4 DEF FrameOK, PartsOf, HasBlocks, Rescuing
    <2>. QED BY <1>1, <2>1, <2>2, <2>3, <2>4, <2>7, <2>8, ValueParts, PartTyped
  <1>. QED BY <1>2, <1>3, <1>4

LEMMA IndexRightTyped == ASSUME Typed, IndexRight PROVE Typed'
  <1>1. mode = "value" /\ open # <<>> /\ Top.op = "index" /\ UNCHANGED <<program, variables>>
    BY DEF IndexRight, Has
  <1>2. CASE value = Null
    BY <1>1, <1>2, CrashTyped DEF IndexRight
  <1>3. CASE value # Null
    <2> DEFINE n    == Len(program)
               idb  == <<Top.stmt, "before">>
               ido  == <<Top.stmt, "operated">>
               id   == <<Top.stmt, "value">>
               args == <<idb, value>>
               all  == Append(Top.args, ido)
               operated == LangCall(graph, ido, args)
    <2>1. graph' = LangCall(operated, id, all) /\ open' = Below /\ mode' = "value" /\ value' = id /\ UNCHANGED <<handlers, room>>
      BY <1>3 DEF IndexRight, Yields
    <2>2. /\ idb \in IdsUpTo(n) /\ ido \in IdsUpTo(n) /\ id \in IdsUpTo(n) /\ id # Null /\ value \in IdsUpTo(n)
          /\ n \in Nat /\ GraphOK(graph, n) /\ Size(graph) <= Size(graph)
      BY <1>1, ValueParts DEF Tags
    <2>3. Top.args \in Seq(IdsUpTo(n))
      BY <1>1, TypedParts
    <2> HIDE DEF idb, ido, id
    <2>4. args \in Seq(IdsUpTo(n)) /\ all \in Seq(IdsUpTo(n))
      BY <2>2, <2>3, ArgTypes
    <2> HIDE DEF args, all
    <2>5. GraphOK(operated, n) /\ Size(graph) <= Size(operated)
      BY <1>1, <2>2, <2>4, CalledOK
    <2> HIDE DEF operated
    <2>6. GraphOK(LangCall(operated, id, all), n) /\ Size(graph) <= Size(LangCall(operated, id, all))
      BY <1>1, <2>2, <2>4, <2>5, CalledOK
    <2>7. GraphOK(graph', n) /\ Size(graph) <= Size(graph')
      BY <2>1, <2>6
    <2>. QED BY <1>1, <2>1, <2>2, <2>7, ValueParts, PartTyped
  <1>. QED BY <1>2, <1>3

LEMMA IfStartsTyped == ASSUME Typed, NEW else \in BOOLEAN, IfStarts(else) PROVE Typed'
  <1> DEFINE f == [Running("if", "condition", This) EXCEPT !.optional = else]
             parts == IF else THEN 3 ELSE 2
  <1>1. /\ mode = "statement" /\ parts <= room /\ room' = room - parts /\ Writes("if", "none") /\ parts \in Nat
        /\ open' = Append(open, f) /\ mode' = "statement" /\ UNCHANGED <<graph, handlers, variables, value>>
    BY DEF IfStarts, Starts, Push, Generate
  <1>2. FrameOK(f, Size(graph), This) /\ f.op = "if"
    <2>1. ~HasBlocks(Running("if", "condition", This))
      BY DEF HasBlocks, Running
    <2>2. "if" \in FrameOps /\ "condition" \in Parts /\ "condition" \in PartsOf("if")
      BY DEF FrameOps, Parts, PartsOf
    <2>3. 2 \in Int /\ <<>> \in Seq(IdsUpTo(This))
      OBVIOUS
    <2>. QED BY <1>1, <2>1, <2>2, <2>3, PushedOK
  <1> HIDE DEF f, parts
  <1>. QED BY <1>1, <1>2, StartParts, StartTyped DEF Kinds

LEMMA CaseStartsTyped == ASSUME Typed, NEW whens \in 1 .. 2, CaseStarts(whens) PROVE Typed'
  <1> DEFINE f == Running("if", "condition", This)
             parts == 2 * whens
  <1>1. /\ mode = "statement" /\ parts <= room /\ room' = room - parts /\ Writes("case", "none") /\ parts \in Nat
        /\ UNCHANGED <<graph, handlers, variables, value>>
        /\ \/ open' = Append(open, f) /\ mode' = "statement"
           \/ open' = open /\ mode' = "undefined"
    BY DEF CaseStarts, Starts, Push, Generate
  <1>2. FrameOK(f, Size(graph), This) /\ f.op = "if"
    <2>1. ~HasBlocks(Running("if", "condition", This))
      BY DEF HasBlocks, Running
    <2>2. "if" \in FrameOps /\ "condition" \in Parts /\ "condition" \in PartsOf("if")
      BY DEF FrameOps, Parts, PartsOf
    <2>3. 2 \in Int /\ <<>> \in Seq(IdsUpTo(This))
      OBVIOUS
    <2>4. f.op = "if"
      BY DEF Running
    <2>. QED BY <1>1, <2>1, <2>2, <2>3, <2>4, PushedOK
  <1> HIDE DEF f, parts
  <1>. QED BY <1>1, <1>2, StartParts, StartTyped DEF Kinds

LEMMA IfConditionTyped == ASSUME Typed, IfCondition PROVE Typed'
  <1>1. mode = "value" /\ open # <<>> /\ Top.op = "if" /\ Top.part = "condition" /\ UNCHANGED <<program, variables>>
    BY DEF IfCondition, Has
  <1>2. CASE value = Null
    BY <1>1, <1>2, CrashTyped DEF IfCondition
  <1>3. CASE value # Null
    <2> DEFINE n    == Len(program)
               base == Size(graph)
               g1   == Create(graph, 3)
               i    == To("cond", <<value>>, <<base + 2, base + 3>>)
               g2   == Emit(g1, i)
               t    == Top
               f    == [t EXCEPT !.part = "true", !.base = base]
    <2>1. /\ graph' = MoveTo(g2, base + 2) /\ open' = Append(Below, f)
          /\ mode' = "statement" /\ UNCHANGED <<handlers, room, value>>
      BY <1>3 DEF IfCondition, TopIs, Generate
    <2>2. /\ n \in Nat /\ base \in Nat \ {0} /\ GraphOK(graph, n) /\ value \in IdsUpTo(n)
          /\ Null \in IdsUpTo(n)
      BY <1>1, ValueParts
    <2>3. GraphOK(g1, n) /\ Size(g1) = base + 3
      <3>1. 3 \in Nat
        OBVIOUS
      <3>. QED BY <2>2, <3>1, CreateOK
    <2>4. i \in InstrsOf(base + 3, n)
      <3>1. base + 3 \in Nat /\ base + 2 \in 1 .. base + 3 /\ base + 3 \in 1 .. base + 3 /\ <<value>> \in Seq(IdsUpTo(n))
        BY <2>2
      <3>. QED BY <2>2, <3>1, InstrTypes DEF Ops, EndOps
    <2>5. t \in FramesOf(n) /\ t.op = "if" /\ t.op = Top.op
      BY <1>1, TypedParts
    <2> HIDE DEF g1, i, t
    <2>6. GraphOK(g2, n) /\ Size(g2) = base + 3
      BY <2>2, <2>3, <2>4, EmitOK
    <2> HIDE DEF g2
    <2>7. GraphOK(graph', n) /\ Size(graph') = base + 3
      <3>1. base + 2 \in 1 .. Size(g2)
        BY <2>2, <2>6
      <3>. QED BY <2>1, <2>2, <2>6, <3>1, MoveToOK
    <2>11. Size(graph) = base
      OBVIOUS
    <2> HIDE DEF base
    <2>8. f \in FramesOf(n) /\ f.op = "if" /\ f.part = "true" /\ f.base = base
      <3>1. base \in Int /\ "true" \in Parts
        BY <2>2 DEF Parts
      <3>. QED BY <2>5, <3>1 DEF FramesOf
    <2> HIDE DEF f
    <2>9. FrameOK(f, Size(graph'), n)
      BY <2>2, <2>7, <2>8 DEF FrameOK, PartsOf, HasBlocks, Rescuing
    <2>10. Size(graph) <= Size(graph')
      BY <2>2, <2>7, <2>11
    <2>. QED BY <1>1, <2>1, <2>2, <2>5, <2>7, <2>8, <2>9, <2>10, ValueParts, PartTyped
  <1>. QED BY <1>2, <1>3

LEMMA TrueBranchTyped == ASSUME Typed, TrueBranch PROVE Typed'
  <1> DEFINE n    == Len(program)
             nil  == <<Top.stmt, "nil">>
             i    == To("br", <<>>, <<Top.base + 1>>)
             g1   == Emit(graph, i)
             left == MoveTo(g1, Top.base + 3)
             t    == Top
             from == graph.cur
             args == <<value>>
             f    == [t EXCEPT !.part = "false", !.from = from, !.args = args]
  <1>1. /\ mode = "value" /\ open # <<>> /\ Top.op = "if" /\ Top.part = "true"
        /\ UNCHANGED <<program, variables, handlers, room>>
        /\ graph' = left \/ graph' = Emit(left, NoBranch(Top))
        /\ open' = Append(Below, f)
        /\ \/ mode' = "statement" /\ value' = value
           \/ mode' = "value" /\ value' = nil
    BY DEF TrueBranch, Has, TopIs, Generate, Yields
  <1>2. /\ n \in Nat /\ Size(graph) \in Nat \ {0} /\ GraphOK(graph, n) /\ value \in IdsUpTo(n)
        /\ nil \in IdsUpTo(n) /\ from \in 1 .. Size(graph)
    BY <1>1, ValueParts DEF Tags
  <1>3. Top.base + 1 \in 1 .. Size(graph) /\ Top.base + 3 \in 1 .. Size(graph)
    <2>1. Top.base \in Int /\ Top.base >= 1 /\ Top.base + 3 <= Size(graph)
      BY <1>1, TypedParts DEF FrameOK, HasBlocks
    <2>. QED BY <1>2, <2>1
  <1>4. t \in FramesOf(n) /\ t.op = "if" /\ t.op = Top.op /\ t.part = "true" /\ FrameOK(t, Size(graph), n)
    BY <1>1, TypedParts
  <1>5. <<>> \in Seq(IdsUpTo(n)) /\ args \in Seq(IdsUpTo(n)) /\ args # <<>>
    BY <1>2
  <1>6. i \in InstrsOf(Size(graph), n)
    <2>1. \A m : To("br", <<>>, m) = To("br", <<>>, m)
      OBVIOUS
    <2>. QED BY <1>2, <1>3, <1>5, InstrTypes, ConstTypes DEF Ops, EndOps
  <1>7. NoBranch(Top) \in InstrsOf(Size(graph), n)
    BY <1>2, <1>5, InstrTypes DEF Ops, NoBranch
  <1> HIDE DEF i, t, from, args
  <1>8. GraphOK(g1, n) /\ Size(g1) = Size(graph)
    BY <1>2, <1>6, EmitOK
  <1> HIDE DEF g1
  <1>9. GraphOK(left, n) /\ Size(left) = Size(graph)
    BY <1>2, <1>3, <1>8, MoveToOK
  <1> HIDE DEF left
  <1>10. GraphOK(graph', n) /\ Size(graph') = Size(graph) /\ Size(graph) <= Size(graph')
    BY <1>1, <1>2, <1>7, <1>9, EmitOK
  <1>11. f \in FramesOf(n) /\ f.op = "if" /\ f.part = "false" /\ f.base = t.base /\ f.from = from /\ f.args = args
    <2>1. from \in Int /\ "false" \in Parts
      BY <1>2 DEF Parts
    <2>. QED BY <2>1, <1>4, <1>5 DEF FramesOf
  <1> HIDE DEF f
  <1>12. FrameOK(f, Size(graph'), n)
    BY <1>2, <1>4, <1>5, <1>10, <1>11 DEF FrameOK, PartsOf, HasBlocks, Rescuing
  <1>. QED BY <1>1, <1>2, <1>4, <1>10, <1>11, <1>12, ValueParts, PartTyped

LEMMA FalseBranchTyped == ASSUME Typed, FalseBranch PROVE Typed'
  <1>1. mode = "value" /\ open # <<>> /\ Top.op = "if" /\ Top.part = "false" /\ UNCHANGED <<program, variables>>
    BY DEF FalseBranch, Has
  <1>2. CASE Null \in {Top.args[1], value}
    BY <1>1, <1>2, CrashTyped DEF FalseBranch
  <1>3. CASE ~(Null \in {Top.args[1], value})
    <2> DEFINE n     == Len(program)
               merge == Top.base + 1
               id    == <<Top.stmt, "value">>
               i     == To("br", <<>>, <<merge>>)
               left  == Emit(graph, i)
               one   == AddIncoming(left, merge, id, Top.args[1], Top.from)
               phi   == AddIncoming(one, merge, id, value, graph.cur)
    <2>1. /\ graph' = MoveTo(phi, merge) /\ open' = Below /\ mode' = "value" /\ value' = id /\ UNCHANGED <<handlers, room>>
      BY <1>3 DEF FalseBranch, Yields
    <2>2. /\ n \in Nat /\ Size(graph) \in Nat \ {0} /\ GraphOK(graph, n) /\ value \in IdsUpTo(n) \ {Null}
          /\ id \in IdsUpTo(n) /\ id # Null /\ graph.cur \in 1 .. Size(graph) /\ <<>> \in Seq(IdsUpTo(n))
      BY <1>1, <1>3, ValueParts DEF Tags
    <2>3. merge \in 1 .. Size(graph) /\ Top.from \in 1 .. Size(graph)
      <3>1. /\ Top.base \in Int /\ Top.base >= 1 /\ Top.base + 3 <= Size(graph)
            /\ Top.from \in 1 .. Size(graph)
        BY <1>1, TypedParts DEF FrameOK, HasBlocks
      <3>. QED BY <2>2, <3>1
    <2>4. Top.args[1] \in IdsUpTo(n) \ {Null}
      <3>1. Top.args # <<>> /\ Top.args \in Seq(IdsUpTo(n))
        BY <1>1, TypedParts DEF FrameOK
      <3>2. Top.args[1] \in IdsUpTo(n)
        <4>1. Len(Top.args) \in Nat \ {0}
          BY <3>1, EmptySeq
        <4>2. 1 \in 1 .. Len(Top.args)
          BY <4>1
        <4>. QED BY <3>1, <4>2, ElementOfSeq
      <3>. QED BY <1>3, <3>2
    <2>5. i \in InstrsOf(Size(graph), n)
      BY <2>2, <2>3, InstrTypes DEF Ops, EndOps
    <2> HIDE DEF i, merge, id
    <2>6. GraphOK(left, n) /\ Size(left) = Size(graph)
      BY <2>2, <2>5, EmitOK
    <2> HIDE DEF left
    <2>7. GraphOK(one, n) /\ Size(one) = Size(graph)
      <3>1. IsIncoming(left, n, merge, id, Top.args[1], Top.from)
        BY <2>2, <2>3, <2>4, <2>6 DEF IsIncoming
      <3>. QED BY <2>6, <3>1, AddIncomingOK
    <2> HIDE DEF one
    <2>8. GraphOK(phi, n) /\ Size(phi) = Size(graph)
      <3>1. IsIncoming(one, n, merge, id, value, graph.cur)
        BY <2>2, <2>3, <2>7 DEF IsIncoming
      <3>. QED BY <2>7, <3>1, AddIncomingOK
    <2> HIDE DEF phi
    <2>9. GraphOK(graph', n) /\ Size(graph') = Size(graph) /\ Size(graph) <= Size(graph')
      BY <2>1, <2>2, <2>3, <2>8, MoveToOK
    <2>. QED BY <1>1, <2>1, <2>2, <2>9, ValueParts, PartTyped
  <1>. QED BY <1>2, <1>3

LEMMA WhileStartsTyped == ASSUME Typed, WhileStarts PROVE Typed'
  <1> DEFINE base == Size(graph)
             from == graph.cur
             i    == To("br", <<>>, <<base + 2>>)
             g1   == Create(graph, 3)
             g2   == Emit(g1, i)
             r    == Running("while", "body", This)
             f    == [r EXCEPT !.base = base, !.from = from]
  <1>1. /\ mode = "statement" /\ 2 <= room /\ room' = room - 2 /\ Writes("while", "none")
        /\ graph' = MoveTo(g2, base + 1) /\ UNCHANGED <<handlers, variables, value>>
        /\ open' = Append(open, f) /\ mode' = "statement"
    BY DEF WhileStarts, Starts, Push, Generate
  <1>2. /\ This \in Nat /\ base \in Nat \ {0} /\ GraphOK(graph, This) /\ <<>> \in Seq(IdsUpTo(This))
        /\ from \in 1 .. base /\ This \in 1 .. This /\ base = Size(graph)
    BY <1>1, StartParts, TypedParts
  <1>3. r \in FramesOf(This) /\ r.op = "while" /\ r.part = "body"
    <2>1. "while" \in FrameOps /\ "body" \in Parts
      BY DEF FrameOps, Parts
    <2>. QED BY <1>2, <2>1, RunningOK
  <1> HIDE DEF base, from, r
  <1>4. base + 3 \in Nat /\ base + 2 \in 1 .. base + 3 /\ base + 1 \in 1 .. base + 3 /\ 3 \in Nat /\ from \in Int /\ base \in Int
    BY <1>2
  <1>5. i \in InstrsOf(base + 3, This)
    <2>1. Null \in IdsUpTo(This)
      BY <1>2, ConstTypes
    <2>. QED BY <1>2, <1>4, <2>1, InstrTypes DEF Ops, EndOps
  <1> HIDE DEF i
  <1>6. GraphOK(g1, This) /\ Size(g1) = base + 3
    BY <1>2, <1>4, CreateOK
  <1> HIDE DEF g1
  <1>7. GraphOK(g2, This) /\ Size(g2) = base + 3
    BY <1>2, <1>5, <1>6, EmitOK
  <1> HIDE DEF g2
  <1>8. GraphOK(graph', This) /\ Size(graph') = base + 3 /\ Size(graph) <= Size(graph')
    BY <1>1, <1>2, <1>4, <1>7, MoveToOK
  <1>9. f \in FramesOf(This) /\ f.op = "while" /\ f.part = "body" /\ f.base = base /\ f.from = from
    BY <1>3, <1>4 DEF FramesOf
  <1> HIDE DEF f
  <1>10. FrameOK(f, Size(graph'), This)
    BY <1>2, <1>8, <1>9 DEF FrameOK, PartsOf, HasBlocks, Rescuing
  <1>11. handlers' \in Seq(1 .. Size(graph')) /\ variables' \in [Names -> IdsUpTo(This)] /\ value' \in IdsUpTo(This)
    <2>1. Size(graph') \in Nat
      BY <1>4, <1>8
    <2>2. Len(program) <= This
      BY TypedParts
    <2>. QED BY <1>1, <1>2, <1>8, <2>1, <2>2, TypesKept
  <1>. QED BY <1>1, <1>8, <1>9, <1>10, <1>11, StartTyped DEF Kinds

LEMMA WhileBodyTyped == ASSUME Typed, WhileBody PROVE Typed'
  <1>1. mode = "value" /\ open # <<>> /\ Top.op = "while" /\ Top.part = "body" /\ UNCHANGED <<program, variables>>
    BY DEF WhileBody, Has
  <1>2. CASE value = Null
    BY <1>1, <1>2, CrashTyped DEF WhileBody
  <1>3. CASE value # Null
    <2> DEFINE n     == Len(program)
               check == Top.base + 2
               id    == <<Top.stmt, "value">>
               entry == <<Top.stmt, "entry">>
               i     == To("br", <<>>, <<check>>)
               g1    == Emit(graph, i)
               left  == MoveTo(g1, check)
               one   == AddIncoming(left, check, id, entry, Top.from)
               phi   == AddIncoming(one, check, id, value, graph.cur)
               load  == Instr("load", entry, <<>>)
               t     == Top
               args  == <<value>>
               f     == [t EXCEPT !.part = "condition", !.args = args]
    <2>1. /\ graph' = Emit(phi, load) /\ open' = Append(Below, f)
          /\ mode' = "statement" /\ UNCHANGED <<handlers, room, value>>
      BY <1>3 DEF WhileBody, TopIs, Generate
    <2>2. /\ n \in Nat /\ Size(graph) \in Nat \ {0} /\ GraphOK(graph, n) /\ value \in IdsUpTo(n) \ {Null}
          /\ id \in IdsUpTo(n) /\ entry \in IdsUpTo(n) \ {Null} /\ graph.cur \in 1 .. Size(graph)
          /\ <<>> \in Seq(IdsUpTo(n))
      BY <1>1, <1>3, ValueParts DEF Tags
    <2>3. t \in FramesOf(n) /\ t.op = "while" /\ t.op = Top.op /\ FrameOK(t, Size(graph), n) /\ t.part = "body"
      BY <1>1, TypedParts
    <2>4. check \in 1 .. Size(graph) /\ Top.from \in 1 .. Size(graph)
      <3>1. /\ Top.base \in Int /\ Top.base >= 1 /\ Top.base + 3 <= Size(graph)
            /\ Top.from \in 1 .. Size(graph)
        BY <1>1, TypedParts DEF FrameOK, HasBlocks
      <3>. QED BY <2>2, <3>1
    <2>5. i \in InstrsOf(Size(graph), n) /\ load \in InstrsOf(Size(graph), n)
      BY <2>2, <2>4, InstrTypes DEF Ops, EndOps
    <2>12. args \in Seq(IdsUpTo(n)) /\ "condition" \in Parts
      BY <2>2 DEF Parts
    <2> HIDE DEF i, check, id, entry, load, t, args
    <2>6. GraphOK(g1, n) /\ Size(g1) = Size(graph)
      BY <2>2, <2>5, EmitOK
    <2> HIDE DEF g1
    <2>7. GraphOK(left, n) /\ Size(left) = Size(graph)
      BY <2>2, <2>4, <2>6, MoveToOK
    <2> HIDE DEF left
    <2>8. GraphOK(one, n) /\ Size(one) = Size(graph)
      <3>1. IsIncoming(left, n, check, id, entry, Top.from)
        BY <2>2, <2>4, <2>7 DEF IsIncoming
      <3>. QED BY <2>7, <3>1, AddIncomingOK
    <2> HIDE DEF one
    <2>9. GraphOK(phi, n) /\ Size(phi) = Size(graph)
      <3>1. IsIncoming(one, n, check, id, value, graph.cur)
        BY <2>2, <2>4, <2>8 DEF IsIncoming
      <3>. QED BY <2>8, <3>1, AddIncomingOK
    <2> HIDE DEF phi
    <2>10. GraphOK(graph', n) /\ Size(graph') = Size(graph) /\ Size(graph) <= Size(graph')
      BY <2>1, <2>2, <2>5, <2>9, EmitOK
    <2>11. f \in FramesOf(n) /\ f.op = "while" /\ f.part = "condition" /\ f.base = t.base
      BY <2>3, <2>12 DEF FramesOf
    <2> HIDE DEF f
    <2>13. FrameOK(f, Size(graph'), n)
      BY <2>3, <2>10, <2>11 DEF FrameOK, PartsOf, HasBlocks, Rescuing
    <2>. QED BY <1>1, <2>1, <2>2, <2>3, <2>10, <2>11, <2>13, ValueParts, PartTyped
  <1>. QED BY <1>2, <1>3

LEMMA WhileConditionTyped == ASSUME Typed, WhileCondition PROVE Typed'
  <1>1. mode = "value" /\ open # <<>> /\ Top.op = "while" /\ UNCHANGED <<program, variables>>
    BY DEF WhileCondition, Has
  <1>2. CASE value = Null
    BY <1>1, <1>2, CrashTyped DEF WhileCondition
  <1>3. CASE value # Null
    <2> DEFINE n     == Len(program)
               id    == <<Top.stmt, "value">>
               i     == To("cond", <<value>>, <<Top.base + 1, Top.base + 3>>)
               ended == Emit(graph, i)
    <2>1. /\ graph' = MoveTo(ended, Top.base + 3) /\ open' = Below
          /\ mode' = "value" /\ value' = id /\ UNCHANGED <<handlers, room>>
      BY <1>3 DEF WhileCondition, Yields
    <2>2. /\ n \in Nat /\ Size(graph) \in Nat \ {0} /\ GraphOK(graph, n) /\ value \in IdsUpTo(n)
          /\ id \in IdsUpTo(n) /\ id # Null /\ Null \in IdsUpTo(n)
      BY <1>1, <1>3, ValueParts DEF Tags
    <2>3. Top.base + 1 \in 1 .. Size(graph) /\ Top.base + 3 \in 1 .. Size(graph)
      <3>1. Top.base \in Int /\ Top.base >= 1 /\ Top.base + 3 <= Size(graph)
        BY <1>1, TypedParts DEF FrameOK, HasBlocks
      <3>. QED BY <2>2, <3>1
    <2>4. i \in InstrsOf(Size(graph), n)
      <3>1. <<value>> \in Seq(IdsUpTo(n))
        BY <2>2
      <3>. QED BY <2>2, <2>3, <3>1, InstrTypes DEF Ops, EndOps
    <2> HIDE DEF i, id
    <2>5. GraphOK(ended, n) /\ Size(ended) = Size(graph)
      BY <2>2, <2>4, EmitOK
    <2> HIDE DEF ended
    <2>6. GraphOK(graph', n) /\ Size(graph') = Size(graph) /\ Size(graph) <= Size(graph')
      BY <2>1, <2>2, <2>3, <2>5, MoveToOK
    <2>. QED BY <1>1, <2>1, <2>2, <2>6, ValueParts, PartTyped
  <1>. QED BY <1>2, <1>3

\* What is known of a begin that runs, and of what comes of it.
LEMMA BeginParts ==
  ASSUME Typed, open # <<>>, Top.op = "begin"
  PROVE  /\ Top \in FramesOf(Len(program)) /\ Top.base \in Nat \ {0} /\ Top.base + 3 <= Size(graph)
         /\ {Pad(Top), Ensure(Top), Rethrow(Top)} \subseteq 1 .. Size(graph)
         /\ Top.part # "main" /\ Top.part # "ensure" =>
              /\ Top.from \in Top.base + 4 .. Size(graph) /\ Top.handler \in Top.base + 4 .. Size(graph)
              /\ Top.from \in 1 .. Size(graph) /\ Top.handler \in 1 .. Size(graph)
              /\ Top.args # <<>> /\ Top.args[1] \in IdsUpTo(Len(program))
         /\ Top.rescues # <<>> => Head(Top.rescues) \in Rescues /\ Tail(Top.rescues) \in Seq(Rescues)
  <1>1. Top \in FramesOf(Len(program)) /\ FrameOK(Top, Size(graph), Len(program)) /\ Size(graph) \in Nat
    BY TypedParts
  <1>2. Top.base \in Int /\ Top.base >= 1 /\ Top.base + 3 <= Size(graph)
    BY <1>1 DEF FrameOK, HasBlocks, FramesOf
  <1>3. {Pad(Top), Ensure(Top), Rethrow(Top)} \subseteq 1 .. Size(graph)
    BY <1>1, <1>2 DEF Pad, Ensure, Rethrow
  <1>4. ASSUME Top.part # "main", Top.part # "ensure"
        PROVE  /\ Top.from \in Top.base + 4 .. Size(graph) /\ Top.handler \in Top.base + 4 .. Size(graph)
               /\ Top.from \in 1 .. Size(graph) /\ Top.handler \in 1 .. Size(graph)
               /\ Top.args # <<>> /\ Top.args[1] \in IdsUpTo(Len(program))
    <2>1. Top.part \in {"main", "ensure", "rescue", "class", "clause"}
      BY <1>1 DEF FrameOK, PartsOf
    <2>2. Rescuing(Top)
      BY <1>4, <2>1 DEF Rescuing
    <2>3. /\ Top.from \in Top.base + 4 .. Size(graph) /\ Top.handler \in Top.base + 4 .. Size(graph)
          /\ Top.args # <<>>
      BY <1>1, <2>2 DEF FrameOK
    <2>4. Top.args \in Seq(IdsUpTo(Len(program)))
      BY TypedParts
    <2>5. 1 \in 1 .. Len(Top.args)
      <3>1. Len(Top.args) \in Nat \ {0}
        BY <2>3, <2>4, EmptySeq
      <3>. QED BY <3>1
    <2>6. Top.args[1] \in IdsUpTo(Len(program))
      BY <2>4, <2>5, ElementOfSeq
    <2>. QED BY <1>1, <1>2, <2>3, <2>6
  <1>5. ASSUME Top.rescues # <<>>
        PROVE  Head(Top.rescues) \in Rescues /\ Tail(Top.rescues) \in Seq(Rescues)
    <2>1. Top.rescues \in Seq(Rescues)
      BY <1>1 DEF FramesOf
    <2>. QED BY <1>5, <2>1, HeadTailProperties
  <1>. QED BY <1>1, <1>2, <1>3, <1>4, <1>5

LEMMA JoinsOK ==
  ASSUME NEW g, NEW n \in Nat, GraphOK(g, n), NEW f, Ensure(f) \in 1 .. Size(g),
         <<f.stmt, "value">> \in IdsUpTo(n), <<f.stmt, "flag">> \in IdsUpTo(n),
         NEW v \in IdsUpTo(n) \ {Null}, NEW again \in IdsUpTo(n) \ {Null}, NEW from \in 1 .. Size(g)
  PROVE  /\ GraphOK(Joins(g, f, v, again, from), n)
         /\ Size(Joins(g, f, v, again, from)) = Size(g)
         /\ Joins(g, f, v, again, from).cur = g.cur
         /\ Joins(g, f, v, again, from).begins = g.begins
         /\ \A x \in 1 .. Size(g) : Joins(g, f, v, again, from).blocks[x].code = g.blocks[x].code
         /\ \A x \in 1 .. Size(g) : x # Ensure(f) => Joins(g, f, v, again, from).blocks[x].phi = g.blocks[x].phi
         /\ Joins(g, f, v, again, from).blocks[Ensure(f)].phi =
              g.blocks[Ensure(f)].phi \cup {Incoming(<<f.stmt, "value">>, v, from), Incoming(<<f.stmt, "flag">>, again, from)}
  <1> DEFINE b    == Ensure(f)
             idv  == <<f.stmt, "value">>
             idf  == <<f.stmt, "flag">>
             one  == AddIncoming(g, b, idv, v, from)
             two  == AddIncoming(one, b, idf, again, from)
  <1> HIDE DEF b, idv, idf
  <1>1. b \in 1 .. Size(g) /\ idv \in IdsUpTo(n) /\ idf \in IdsUpTo(n)
    BY DEF b, idv, idf
  <1>2. /\ GraphOK(one, n) /\ Size(one) = Size(g) /\ one.cur = g.cur /\ one.begins = g.begins
        /\ \A x \in 1 .. Size(g) : one.blocks[x].code = g.blocks[x].code
        /\ \A x \in 1 .. Size(g) : x # b => one.blocks[x].phi = g.blocks[x].phi
        /\ one.blocks[b].phi = g.blocks[b].phi \cup {Incoming(idv, v, from)}
    <2>1. IsIncoming(g, n, b, idv, v, from)
      BY <1>1 DEF IsIncoming
    <2>. QED BY <2>1, AddIncomingOK
  <1> HIDE DEF one
  <1>3. b \in 1 .. Size(one) /\ from \in 1 .. Size(one)
    BY <1>1, <1>2
  <1>4. /\ GraphOK(two, n) /\ Size(two) = Size(one) /\ two.cur = one.cur /\ two.begins = one.begins
        /\ \A x \in 1 .. Size(one) : two.blocks[x].code = one.blocks[x].code
        /\ \A x \in 1 .. Size(one) : x # b => two.blocks[x].phi = one.blocks[x].phi
        /\ two.blocks[b].phi = one.blocks[b].phi \cup {Incoming(idf, again, from)}
    <2>1. IsIncoming(one, n, b, idf, again, from)
      BY <1>1, <1>2, <1>3 DEF IsIncoming
    <2>. QED BY <2>1, AddIncomingOK
  <1>5. two = Joins(g, f, v, again, from)
    BY DEF Joins, two, one, b, idv, idf
  <1> HIDE DEF two
  <1>6. two.blocks[b].phi = g.blocks[b].phi \cup {Incoming(idv, v, from), Incoming(idf, again, from)}
    BY <1>2, <1>4
  <1>. QED BY <1>2, <1>4, <1>5, <1>6 DEF b, idv, idf

LEMMA CatchOK ==
  ASSUME Typed, open # <<>>, Top.op = "begin", Top.part \notin {"main", "ensure"},
         NEW g, GraphOK(g, Len(program)), Size(graph) <= Size(g), NEW rescue
  PROVE  /\ GraphOK(Catch(g, rescue), Len(program)) /\ Size(g) \in Nat
         /\ Size(Catch(g, rescue)) \in Size(g) .. Size(g) + 1
         /\ Catch(g, rescue).begins = g.begins
  <1> DEFINE n      == Len(program)
             slot   == <<This, "slot">>
             stored == <<This, "stored">>
             caught == <<This, "caught">>
             i1     == Instr("alloca", slot, <<>>)
             i2     == Instr("store", stored, <<slot, Top.args[1]>>)
             one    == Emit(g, i1)
             two    == Emit(one, i2)
             all    == IF rescue.var = "none" THEN g ELSE two
  <1>1. /\ slot \in IdsUpTo(n) /\ stored \in IdsUpTo(n) /\ caught \in IdsUpTo(n) /\ n \in Nat
        /\ Top.args[1] \in IdsUpTo(n)
    BY ValueParts, BeginParts DEF Tags
  <1>2. Catch(g, rescue) = LangCall(all, caught, <<>>)
    BY DEF Catch
  <1> HIDE DEF slot, stored, caught
  <1>3. Size(g) \in Nat /\ <<>> \in Seq(IdsUpTo(n)) /\ <<slot, Top.args[1]>> \in Seq(IdsUpTo(n))
    BY <1>1, GraphParts
  <1>4. i1 \in InstrsOf(Size(g), n) /\ i2 \in InstrsOf(Size(g), n)
    BY <1>1, <1>3, InstrTypes DEF Ops
  <1> HIDE DEF i1, i2
  <1>5. GraphOK(one, n) /\ Size(one) = Size(g) /\ one.begins = g.begins
    BY <1>1, <1>4, EmitOK
  <1> HIDE DEF one
  <1>6. GraphOK(two, n) /\ Size(two) = Size(g) /\ two.begins = g.begins
    BY <1>1, <1>4, <1>5, EmitOK
  <1> HIDE DEF two
  <1>7. GraphOK(all, n) /\ Size(all) = Size(g) /\ all.begins = g.begins
    BY <1>6
  <1> HIDE DEF all
  <1>8. Size(graph) <= Size(all)
    BY <1>7
  <1>9. /\ GraphOK(LangCall(all, caught, <<>>), n)
        /\ Size(LangCall(all, caught, <<>>)) \in Size(all) .. Size(all) + 1
        /\ LangCall(all, caught, <<>>).begins = all.begins
    BY <1>1, <1>3, <1>7, <1>8, CalledOK
  <1>. QED BY <1>2, <1>3, <1>7, <1>9

LEMMA CatchesTyped ==
  ASSUME Typed, open # <<>>, NEW g, NEW rescue \in Rescues, Catches(g, rescue)
  PROVE  variables' \in [Names -> IdsUpTo(Len(program))]
  <1>1. <<This, "slot">> \in IdsUpTo(Len(program)) /\ variables \in [Names -> IdsUpTo(Len(program))]
    BY ValueParts DEF Tags
  <1>. QED BY <1>1 DEF Catches

LEMMA RecordOK ==
  ASSUME NEW g, NEW n \in Nat, GraphOK(g, n), NEW r \in BeginsOf(Size(g))
  PROVE  /\ GraphOK([g EXCEPT !.begins = @ \cup {r}], n)
         /\ Size([g EXCEPT !.begins = @ \cup {r}]) = Size(g)
         /\ [g EXCEPT !.begins = @ \cup {r}].blocks = g.blocks
         /\ [g EXCEPT !.begins = @ \cup {r}].cur = g.cur
         /\ [g EXCEPT !.begins = @ \cup {r}].begins = g.begins \cup {r}
  <1>1. [g EXCEPT !.begins = @ \cup {r}] = [blocks |-> g.blocks, cur |-> g.cur, begins |-> g.begins \cup {r}]
    <2> DEFINE begins == g.begins \cup {r}
    <2>1. g \in GraphsOf(Size(g), n) /\ [g EXCEPT !.begins = @ \cup {r}] = [g EXCEPT !.begins = begins]
      BY DEF GraphOK
    <2> HIDE DEF begins
    <2>2. [g EXCEPT !.begins = begins] = [blocks |-> g.blocks, cur |-> g.cur, begins |-> begins]
      BY <2>1 DEF GraphsOf
    <2>. QED BY <2>1, <2>2 DEF begins
  <1>2. Size([g EXCEPT !.begins = @ \cup {r}]) = Size(g)
    BY <1>1 DEF Size
  <1>. QED BY <1>1, <1>2 DEF GraphOK, GraphsOf

LEMMA BeginStartsTyped ==
  ASSUME Typed, NEW rescues \in RescueLists, NEW ensured \in BOOLEAN, BeginStarts(rescues, ensured)
  PROVE  Typed'
  <1> DEFINE base == Size(graph)
             r    == Running("begin", "main", This)
             f    == [r EXCEPT !.base = base, !.rescues = rescues, !.optional = ensured]
             len  == Len(rescues)
  <1>1. /\ mode = "statement" /\ len <= room /\ room' = room - len /\ Writes("begin", "none")
        /\ graph' = Create(graph, 3) /\ handlers' = Append(handlers, Pad(f)) /\ UNCHANGED <<variables, value>>
        /\ open' = Append(open, f) /\ mode' = "body"
    BY DEF BeginStarts, Starts, Push, BeginsBody
  <1>2. /\ This \in Nat /\ base \in Nat \ {0} /\ GraphOK(graph, This) /\ This \in 1 .. This /\ base = Size(graph)
    BY <1>1, StartParts, TypedParts
  <1>3. r \in FramesOf(This) /\ r.op = "begin" /\ r.part = "main"
    <2>1. "begin" \in FrameOps /\ "main" \in Parts
      BY DEF FrameOps, Parts
    <2>. QED BY <1>2, <2>1, RunningOK
  <1>4. rescues \in Seq(Rescues) /\ len \in Nat
    <2>1. RescueLists \subseteq Seq(Rescues)
      BY CodegenAssumption DEF Rescues
    <2>. QED BY <2>1, LenProperties
  <1> HIDE DEF base, r
  <1>5. f \in FramesOf(This) /\ f.op = "begin" /\ f.part = "main" /\ f.base = base
    <2>1. base \in Int
      BY <1>2
    <2>. QED BY <2>1, <1>3, <1>4 DEF FramesOf
  <1> HIDE DEF f, len
  <1>6. GraphOK(graph', This) /\ Size(graph') = base + 3
    <2>1. 3 \in Nat
      OBVIOUS
    <2>. QED BY <1>1, <1>2, <2>1, CreateOK
  <1>7. FrameOK(f, Size(graph'), This) /\ IsBody(f)
    BY <1>2, <1>5, <1>6 DEF FrameOK, PartsOf, HasBlocks, Rescuing, IsBody
  <1>8. Size(graph) <= Size(graph') /\ Size(graph') \in Nat /\ Len(program) <= This
    BY <1>2, <1>6, TypedParts
  <1>9. variables' \in [Names -> IdsUpTo(This)] /\ value' \in IdsUpTo(This)
    BY <1>1, <1>2, <1>8, TypesKept
  <1>10. handlers' \in Seq(1 .. Size(graph'))
    <2>1. handlers \in Seq(1 .. Size(graph'))
      BY <1>2, <1>8, TypesKept
    <2>2. Pad(f) \in 1 .. Size(graph')
      BY <1>2, <1>5, <1>6 DEF Pad
    <2>. QED BY <1>1, <2>1, <2>2, AppendProperties
  <1>11. "begin" \in Kinds /\ "none" \in Names \cup {"none"}
    BY DEF Kinds
  <1>. QED BY <1>1, <1>4, <1>6, <1>7, <1>8, <1>9, <1>10, <1>11, StartTyped

LEMMA BeginMainTyped == ASSUME Typed, BeginMain PROVE Typed'
  <1> DEFINE n    == Len(program)
             i    == To("br", <<>>, <<Ensure(Top)>>)
             left == Emit(graph, i)
             g2   == Joins(left, Top, value, False, graph.cur)
             t    == Top
             f    == [t EXCEPT !.part = "ensure"]
  <1>1. /\ mode = "value" /\ open # <<>> /\ Top.op = "begin" /\ Top.part = "main" /\ UNCHANGED <<program, variables, room>>
        /\ handlers' = SubSeq(handlers, 1, Len(handlers) - 1)
        /\ graph' = MoveTo(g2, Ensure(Top)) /\ open' = Append(Below, f)
        /\ \/ mode' = "body" /\ value' = value
           \/ mode' = "value" /\ value' = Null
    <2>1. IF Top.optional THEN BeginsBody ELSE Yields(Null)
      BY DEF BeginMain
    <2>2. \/ mode' = "body" /\ value' = value
          \/ mode' = "value" /\ value' = Null
      BY <2>1 DEF BeginsBody, Yields
    <2>. QED BY <2>2 DEF BeginMain, Has, TopIs
  <1>2. /\ n \in Nat /\ Size(graph) \in Nat \ {0} /\ GraphOK(graph, n) /\ value \in IdsUpTo(n) \ {Null}
        /\ graph.cur \in 1 .. Size(graph) /\ <<>> \in Seq(IdsUpTo(n)) /\ Null \in IdsUpTo(n)
        /\ False \in IdsUpTo(n) \ {Null}
        /\ <<Top.stmt, "value">> \in IdsUpTo(n) /\ <<Top.stmt, "flag">> \in IdsUpTo(n)
    <2>1. value # Null
      BY <1>1 DEF Typed, StackOK
    <2>. QED BY <1>1, <2>1, ValueParts DEF Tags
  <1>3. Ensure(Top) \in 1 .. Size(graph)
    BY <1>1, BeginParts
  <1>4. t \in FramesOf(n) /\ t.op = "begin" /\ t.op = Top.op /\ FrameOK(t, Size(graph), n)
    BY <1>1, TypedParts
  <1>5. i \in InstrsOf(Size(graph), n)
    BY <1>2, <1>3, InstrTypes DEF Ops, EndOps
  <1> HIDE DEF i, t
  <1>6. GraphOK(left, n) /\ Size(left) = Size(graph)
    BY <1>2, <1>5, EmitOK
  <1> HIDE DEF left
  <1>7. GraphOK(g2, n) /\ Size(g2) = Size(graph)
    BY <1>2, <1>3, <1>6, JoinsOK
  <1> HIDE DEF g2
  <1>8. GraphOK(graph', n) /\ Size(graph') = Size(graph) /\ Size(graph) <= Size(graph')
    BY <1>1, <1>2, <1>3, <1>7, MoveToOK
  <1>9. f \in FramesOf(n) /\ f.op = "begin" /\ f.part = "ensure" /\ f.base = t.base
    <2>1. "ensure" \in Parts
      BY DEF Parts
    <2>. QED BY <1>4, <2>1 DEF FramesOf
  <1> HIDE DEF f
  <1>10. FrameOK(f, Size(graph'), n) /\ IsBody(f)
    BY <1>4, <1>8, <1>9 DEF FrameOK, PartsOf, HasBlocks, Rescuing, IsBody
  <1>11. handlers' \in Seq(1 .. Size(graph'))
    <2>1. handlers \in Seq(1 .. Size(graph))
      BY <1>1, ValueParts
    <2>2. SubSeq(handlers, 1, Len(handlers) - 1) \in Seq(1 .. Size(graph))
      <3>1. PICK L \in Nat : L = Len(handlers)
        BY <2>1
      <3>2. \A j \in 1 .. L - 1 : handlers[j] \in 1 .. Size(graph)
        <4>1. \A j \in 1 .. Len(handlers) : handlers[j] \in 1 .. Size(graph)
          BY <2>1, ElementOfSeq
        <4>. QED BY <3>1, <4>1
      <3>3. SubSeq(handlers, 1, L - 1) \in Seq(1 .. Size(graph))
        <4>1. CASE L = 0
          BY <4>1
        <4>2. CASE L # 0
          BY <2>1, <3>1, <3>2, <4>2, SubSeqProperties
        <4>. QED BY <4>1, <4>2
      <3>. QED BY <3>1, <3>3
    <2>. QED BY <1>1, <1>8, <2>2
  <1>12. variables' \in [Names -> IdsUpTo(n)] /\ value' \in IdsUpTo(n) /\ room' \in 0 .. MaxStatements
    BY <1>1, <1>2, ValueParts
  <1>. QED BY <1>1, <1>4, <1>8, <1>9, <1>10, <1>11, <1>12, ValueTyped

LEMMA RescueAnyTyped == ASSUME Typed, RescueAny PROVE Typed'
  <1> DEFINE n == Len(program)
             rescue == Head(Top.rescues)
             t == Top
             f == [t EXCEPT !.part = "clause", !.optional = TRUE]
  <1>1. /\ mode = "value" /\ open # <<>> /\ Top.op = "begin" /\ Top.rescues # <<>> /\ Top.part = "rescue"
        /\ UNCHANGED <<handlers, program, room, value>> /\ Catches(graph, rescue)
        /\ open' = Append(Below, f) /\ mode' = "body"
    BY DEF RescueAny, RescueIs, TopIs, BeginsBody
  <1>2. rescue \in Rescues
    BY <1>1, BeginParts
  <1>3. /\ t \in FramesOf(n) /\ t.op = "begin" /\ t.part = "rescue" /\ t.op = Top.op /\ FrameOK(t, Size(graph), n)
        /\ t.rescues # <<>>
    BY <1>1, TypedParts
  <1> HIDE DEF rescue, t
  <1>4. variables' \in [Names -> IdsUpTo(n)]
    BY <1>1, <1>2, CatchesTyped
  <1>5. n \in Nat /\ Size(graph) \in Nat /\ GraphOK(graph, n) /\ Size(graph) <= Size(graph)
    BY <1>1, ValueParts
  <1>6. /\ GraphOK(Catch(graph, rescue), n)
        /\ Size(Catch(graph, rescue)) \in Size(graph) .. Size(graph) + 1
    BY <1>1, <1>5, CatchOK
  <1>7. GraphOK(graph', n) /\ Size(graph') \in Size(graph) .. Size(graph) + 1
    BY <1>1, <1>6 DEF Catches
  <1>8. Size(graph') \in Nat /\ Size(graph) <= Size(graph')
    BY <1>5, <1>7
  <1>9. f \in FramesOf(n) /\ f.op = "begin" /\ f.part = "clause" /\ f.base = t.base /\ f.from = t.from
        /\ f.handler = t.handler /\ f.args = t.args /\ f.rescues = t.rescues
    <2>1. "clause" \in Parts
      BY DEF Parts
    <2>. QED BY <1>3, <2>1 DEF FramesOf
  <1> HIDE DEF f
  <1>10. FrameOK(t, Size(graph'), n)
    BY <1>3, <1>5, <1>8, FrameGrows
  <1>11. FrameOK(f, Size(graph'), n) /\ IsBody(f)
    BY <1>3, <1>9, <1>10 DEF FrameOK, PartsOf, HasBlocks, Rescuing, IsBody
  <1>12. handlers' \in Seq(1 .. Size(graph')) /\ value' \in IdsUpTo(n) /\ room' \in 0 .. MaxStatements
    BY <1>1, <1>5, <1>8, TypesKept, ValueParts
  <1>. QED BY <1>1, <1>3, <1>4, <1>7, <1>8, <1>9, <1>11, <1>12, ValueTyped

LEMMA RescueTypedTyped == ASSUME Typed, RescueTyped PROVE Typed'
  <1> DEFINE n == Len(program)
             t == Top
             f == [t EXCEPT !.part = "class"]
  <1>1. /\ mode = "value" /\ open # <<>> /\ Top.op = "begin" /\ Top.part = "rescue"
        /\ Top.rescues # <<>> /\ UNCHANGED <<handlers, program, room, value, graph, variables>>
        /\ open' = Append(Below, f) /\ mode' = "statement"
    BY DEF RescueTyped, RescueIs, TopIs, Generate
  <1>2. /\ t \in FramesOf(n) /\ t.op = "begin" /\ t.part = "rescue" /\ t.op = Top.op /\ FrameOK(t, Size(graph), n)
        /\ t.rescues # <<>>
    BY <1>1, TypedParts
  <1> HIDE DEF t
  <1>3. f \in FramesOf(n) /\ f.op = "begin" /\ f.part = "class" /\ f.base = t.base /\ f.from = t.from
        /\ f.handler = t.handler /\ f.args = t.args /\ f.rescues = t.rescues
    <2>1. "class" \in Parts
      BY DEF Parts
    <2>. QED BY <1>2, <2>1 DEF FramesOf
  <1> HIDE DEF f
  <1>4. FrameOK(f, Size(graph), n)
    BY <1>2, <1>3 DEF FrameOK, PartsOf, HasBlocks, Rescuing
  <1>. QED BY <1>1, <1>2, <1>3, <1>4, ValueParts, PartTyped

LEMMA RescueClauseTyped == ASSUME Typed, RescueClause PROVE Typed'
  <1> DEFINE n      == Len(program)
             ended  == <<Top.stmt, "ended">>
             g2     == Joins(EndCatch, Top, value, False, EndCatch.cur)
             i      == To("br", <<>>, <<Ensure(Top)>>)
             leaves == Emit(g2, i)
             t      == Top
             rest   == Tail(t.rescues)
             f      == [t EXCEPT !.part = "rescue", !.rescues = rest]
  <1>1. /\ mode = "value" /\ open # <<>> /\ Top.op = "begin" /\ Top.part = "clause"
        /\ UNCHANGED <<program, variables, handlers, room>>
        /\ graph' = MoveTo(leaves, Top.handler) /\ open' = Append(Below, f)
        /\ mode' = "value" /\ value' = Null
    BY DEF RescueClause, Has, TopIs, Yields
  <1>2. /\ n \in Nat /\ Size(graph) \in Nat \ {0} /\ GraphOK(graph, n) /\ value \in IdsUpTo(n) \ {Null}
        /\ <<>> \in Seq(IdsUpTo(n)) /\ Null \in IdsUpTo(n) /\ ended \in IdsUpTo(n)
        /\ False \in IdsUpTo(n) \ {Null} /\ Size(graph) <= Size(graph)
        /\ <<Top.stmt, "value">> \in IdsUpTo(n) /\ <<Top.stmt, "flag">> \in IdsUpTo(n)
    <2>1. value # Null
      BY <1>1 DEF Typed, StackOK
    <2>. QED BY <1>1, <2>1, ValueParts DEF Tags
  <1>3. Ensure(Top) \in 1 .. Size(graph) /\ Top.handler \in 1 .. Size(graph)
    BY <1>1, BeginParts
  <1>4. t \in FramesOf(n) /\ t.op = "begin" /\ t.part = "clause" /\ t.op = Top.op /\ FrameOK(t, Size(graph), n)
    BY <1>1, TypedParts
  <1>5. GraphOK(EndCatch, n) /\ Size(graph) <= Size(EndCatch) /\ Size(EndCatch) \in Nat
    <2>1. /\ GraphOK(LangCall(graph, ended, <<>>), n)
          /\ Size(LangCall(graph, ended, <<>>)) \in Size(graph) .. Size(graph) + 1
      BY <1>1, <1>2, CalledOK
    <2>. QED BY <1>2, <2>1 DEF EndCatch
  <1>6. Ensure(Top) \in 1 .. Size(EndCatch) /\ Top.handler \in 1 .. Size(EndCatch) /\ EndCatch.cur \in 1 .. Size(EndCatch)
    BY <1>2, <1>3, <1>5, GraphParts
  <1>7. i \in InstrsOf(Size(EndCatch), n)
    BY <1>2, <1>5, <1>6, InstrTypes DEF Ops, EndOps
  <1>14. rest \in Seq(Rescues)
    <2>1. t.rescues \in Seq(Rescues)
      BY <1>4 DEF FramesOf
    <2>2. t.rescues # <<>>
      BY <1>4 DEF FrameOK, Rescuing
    <2>. QED BY <2>1, <2>2, HeadTailProperties
  <1> HIDE DEF i, t, rest
  <1>8. GraphOK(g2, n) /\ Size(g2) = Size(EndCatch)
    BY <1>2, <1>5, <1>6, JoinsOK
  <1> HIDE DEF g2
  <1>9. GraphOK(leaves, n) /\ Size(leaves) = Size(EndCatch)
    BY <1>2, <1>7, <1>8, EmitOK
  <1> HIDE DEF leaves
  <1>10. GraphOK(graph', n) /\ Size(graph') = Size(EndCatch) /\ Size(graph) <= Size(graph') /\ Size(graph') \in Nat
    BY <1>1, <1>2, <1>5, <1>6, <1>9, MoveToOK
  <1>11. f \in FramesOf(n) /\ f.op = "begin" /\ f.part = "rescue" /\ f.base = t.base /\ f.from = t.from
        /\ f.handler = t.handler /\ f.args = t.args
    <2>1. "rescue" \in Parts
      BY DEF Parts
    <2>. QED BY <1>4, <1>14, <2>1 DEF FramesOf
  <1> HIDE DEF f
  <1>12. FrameOK(t, Size(graph'), n)
    BY <1>2, <1>4, <1>10, FrameGrows
  <1>13. FrameOK(f, Size(graph'), n)
    BY <1>4, <1>11, <1>12 DEF FrameOK, PartsOf, HasBlocks, Rescuing
  <1>. QED BY <1>1, <1>2, <1>4, <1>10, <1>11, <1>13, ValueParts, PartTyped

LEMMA BeginEnsureTyped == ASSUME Typed, BeginEnsure PROVE Typed'
  <1> DEFINE n         == Len(program)
             finish    == Size(graph) + 1
             handler   == Size(graph) + 2
             token     == <<Top.stmt, "token">>
             exception == <<Top.stmt, "exception">>
             i1        == To("cond", <<<<Top.stmt, "flag">>>>, <<Rethrow(Top), finish>>)
             i2        == Instr("landingpad", token, <<>>)
             i3        == To("cond", <<False>>, <<handler, Rethrow(Top)>>)
             i4        == To("resume", <<token>>, <<>>)
             r         == [pad |-> Pad(Top), ensure |-> Ensure(Top), rethrow |-> Rethrow(Top), finish |-> finish]
             g1        == Create(graph, 2)
             leaves    == Emit(g1, i1)
             g3        == EmitAt(leaves, Pad(Top), i2)
             padded    == EmitAt(g3, Pad(Top), i3)
             resumes   == EmitAt(padded, Rethrow(Top), i4)
             recorded  == [resumes EXCEPT !.begins = @ \cup {r}]
             handles   == MoveTo(recorded, handler)
             called    == LangCall(handles, exception, <<token>>)
             t         == Top
             args      == <<exception>>
             f         == [t EXCEPT !.part = "rescue", !.from = finish, !.handler = handler,
                                    !.args = args, !.optional = FALSE]
  <1>1. /\ mode = "value" /\ open # <<>> /\ Top.op = "begin" /\ Top.part = "ensure"
        /\ UNCHANGED <<program, variables, handlers, room>>
        /\ graph' = handles \/ graph' = called
        /\ open' = Append(Below, f) /\ mode' = "value" /\ value' = Null
    BY DEF BeginEnsure, Has, TopIs, Yields
  <1>2. /\ n \in Nat /\ Size(graph) \in Nat \ {0} /\ GraphOK(graph, n) /\ Null \in IdsUpTo(n)
        /\ token \in IdsUpTo(n) /\ exception \in IdsUpTo(n) /\ <<Top.stmt, "flag">> \in IdsUpTo(n)
        /\ False \in IdsUpTo(n)
    BY <1>1, ValueParts DEF Tags
  <1>3. /\ Pad(Top) \in 1 .. Size(graph) /\ Ensure(Top) \in 1 .. Size(graph) /\ Rethrow(Top) \in 1 .. Size(graph)
        /\ Top.base \in Nat \ {0} /\ Top.base + 3 <= Size(graph)
    BY <1>1, BeginParts
  <1>4. PICK k \in Nat : k = Size(graph) + 2
    BY <1>2
  <1>5. /\ Pad(Top) \in 1 .. k /\ Ensure(Top) \in 1 .. k /\ Rethrow(Top) \in 1 .. k
        /\ finish \in 1 .. k /\ handler \in 1 .. k /\ finish \in Int /\ handler \in Int
    BY <1>2, <1>3, <1>4
  <1>6. /\ <<>> \in Seq(IdsUpTo(n)) /\ <<<<Top.stmt, "flag">>>> \in Seq(IdsUpTo(n)) /\ args \in Seq(IdsUpTo(n))
        /\ <<token>> \in Seq(IdsUpTo(n)) /\ <<False>> \in Seq(IdsUpTo(n)) /\ args # <<>>
    BY <1>2
  <1>7. i1 \in InstrsOf(k, n)
    BY <1>2, <1>5, <1>6, InstrTypes DEF Ops, EndOps
  <1>8. i2 \in InstrsOf(k, n)
    BY <1>2, <1>6, InstrTypes DEF Ops, EndOps
  <1>9. i3 \in InstrsOf(k, n)
    BY <1>2, <1>5, <1>6, InstrTypes DEF Ops, EndOps
  <1>10. i4 \in InstrsOf(k, n)
    BY <1>2, <1>6, InstrTypes DEF Ops, EndOps
  <1>11. r \in BeginsOf(k)
    BY <1>5 DEF BeginsOf
  <1>12. t \in FramesOf(n) /\ t.op = "begin" /\ t.op = Top.op /\ FrameOK(t, Size(graph), n) /\ t.base = Top.base
    BY <1>1, TypedParts
  <1> HIDE DEF i1, i2, i3, i4, r, t, args, token, exception
  <1>13. GraphOK(g1, n) /\ Size(g1) = k
    <2>1. 2 \in Nat
      OBVIOUS
    <2>. QED BY <1>2, <1>4, <2>1, CreateOK
  <1> HIDE DEF g1
  <1>14. GraphOK(leaves, n) /\ Size(leaves) = k
    BY <1>2, <1>7, <1>13, EmitOK
  <1> HIDE DEF leaves
  <1>15. GraphOK(g3, n) /\ Size(g3) = k
    BY <1>2, <1>5, <1>8, <1>14, EmitAtOK
  <1> HIDE DEF g3
  <1>16. GraphOK(padded, n) /\ Size(padded) = k
    BY <1>2, <1>5, <1>9, <1>15, EmitAtOK
  <1> HIDE DEF padded
  <1>17. GraphOK(resumes, n) /\ Size(resumes) = k
    BY <1>2, <1>5, <1>10, <1>16, EmitAtOK
  <1> HIDE DEF resumes
  <1>18. GraphOK(recorded, n) /\ Size(recorded) = k
    BY <1>2, <1>11, <1>17, RecordOK
  <1> HIDE DEF recorded
  <1>19. GraphOK(handles, n) /\ Size(handles) = k
    BY <1>2, <1>5, <1>18, MoveToOK
  <1> HIDE DEF handles
  <1>20. GraphOK(graph', n) /\ Size(graph') \in k .. k + 1
    <2>1. Size(graph) <= Size(handles)
      BY <1>2, <1>4, <1>19
    <2>2. GraphOK(called, n) /\ Size(called) \in Size(handles) .. Size(handles) + 1
      BY <1>1, <1>2, <1>6, <1>19, <2>1, CalledOK
    <2> HIDE DEF called
    <2>. QED BY <1>1, <1>4, <1>19, <2>2
  <1>21. Size(graph) <= Size(graph') /\ Size(graph') \in Nat /\ k <= Size(graph')
    BY <1>2, <1>4, <1>20
  <1>22. /\ f \in FramesOf(n) /\ f.op = "begin" /\ f.part = "rescue" /\ f.base = t.base
         /\ f.from = Size(graph) + 1 /\ f.handler = Size(graph) + 2 /\ f.args = args
    <2>1. "rescue" \in Parts /\ FALSE \in BOOLEAN
      BY DEF Parts
    <2>2. finish = Size(graph) + 1 /\ handler = Size(graph) + 2
      OBVIOUS
    <2> HIDE DEF finish, handler
    <2>. QED BY <1>5, <1>6, <1>12, <2>1, <2>2 DEF FramesOf
  <1> HIDE DEF f
  <1>23. FrameOK(f, Size(graph'), n)
    <2>1. /\ f.base >= 1 /\ f.base + 3 <= Size(graph')
          /\ f.from \in f.base + 4 .. Size(graph') /\ f.handler \in f.base + 4 .. Size(graph')
      BY <1>2, <1>3, <1>4, <1>12, <1>21, <1>22
    <2>. QED BY <1>6, <1>22, <2>1 DEF FrameOK, PartsOf, HasBlocks, Rescuing
  <1>. QED BY <1>1, <1>2, <1>12, <1>20, <1>21, <1>22, <1>23, ValueParts, PartTyped

LEMMA RescueClassTyped == ASSUME Typed, RescueClass PROVE Typed'
  <1>1. /\ mode = "value" /\ open # <<>> /\ Top.op = "begin" /\ Top.rescues # <<>> /\ Top.part = "class"
        /\ UNCHANGED <<handlers, program, room>>
    BY DEF RescueClass, RescueIs
  <1>2. CASE value = Null
    <2>1. Crashes /\ UNCHANGED <<program, variables>>
      BY <1>1, <1>2 DEF RescueClass, Crashes
    <2>. QED BY <1>1, <2>1, CrashTyped
  <1>3. CASE value # Null
    <2> DEFINE n        == Len(program)
               invalid  == Size(graph) + 1
               compare  == <<This, "compared">>
               i1       == To("cond", <<value>>, <<invalid + 1, invalid>>)
               i2       == To("unreachable", <<>>, <<>>)
               args     == <<value, Top.args[1]>>
               g1       == Create(graph, 2)
               checked  == Emit(g1, i1)
               g3       == EmitAt(checked, invalid, i2)
               valid    == MoveTo(g3, invalid + 1)
               compared == LangCall(valid, compare, args)
               clause   == Size(compared) + 1
               i3       == To("cond", <<compare>>, <<clause, clause + 1>>)
               g4       == Create(compared, 2)
               g5       == Emit(g4, i3)
               matched  == MoveTo(g5, clause)
               rescue   == Head(Top.rescues)
               t        == Top
               handler  == clause + 1
               f        == [t EXCEPT !.part = "clause", !.handler = handler]
    <2>1. /\ Catches(matched, rescue) /\ open' = Append(Below, f) /\ mode' = "body" /\ value' = value
      BY <1>3 DEF RescueClass, TopIs, BeginsBody
    <2>2. /\ n \in Nat /\ Size(graph) \in Nat \ {0} /\ GraphOK(graph, n) /\ value \in IdsUpTo(n)
          /\ Null \in IdsUpTo(n) /\ compare \in IdsUpTo(n) /\ Top.args[1] \in IdsUpTo(n)
      BY <1>1, ValueParts, BeginParts DEF Tags
    <2>3. rescue \in Rescues
      BY <1>1, BeginParts
    <2>4. /\ t \in FramesOf(n) /\ t.op = "begin" /\ t.part = "class" /\ t.op = Top.op /\ FrameOK(t, Size(graph), n)
          /\ t.rescues # <<>>
      BY <1>1, TypedParts
    <2>5. /\ <<>> \in Seq(IdsUpTo(n)) /\ <<value>> \in Seq(IdsUpTo(n)) /\ <<compare>> \in Seq(IdsUpTo(n))
          /\ args \in Seq(IdsUpTo(n))
      BY <2>2
    <2>6. PICK k \in Nat : k = Size(graph) + 2
      BY <2>2
    <2>7. invalid \in 1 .. k /\ invalid + 1 \in 1 .. k /\ 2 \in Nat
      BY <2>2, <2>6
    <2>8. i1 \in InstrsOf(k, n) /\ i2 \in InstrsOf(k, n)
      BY <2>2, <2>5, <2>7, InstrTypes DEF Ops, EndOps
    <2> HIDE DEF compare, i1, i2, args, rescue, t
    <2>9. GraphOK(g1, n) /\ Size(g1) = k
      BY <2>2, <2>6, <2>7, CreateOK
    <2> HIDE DEF g1
    <2>10. GraphOK(checked, n) /\ Size(checked) = k
      BY <2>2, <2>8, <2>9, EmitOK
    <2> HIDE DEF checked
    <2>11. GraphOK(g3, n) /\ Size(g3) = k
      BY <2>2, <2>7, <2>8, <2>10, EmitAtOK
    <2> HIDE DEF g3
    <2>12. GraphOK(valid, n) /\ Size(valid) = k
      BY <2>2, <2>7, <2>11, MoveToOK
    <2> HIDE DEF valid
    <2>13. GraphOK(compared, n) /\ Size(compared) \in k .. k + 1
      <3>1. Size(graph) <= Size(valid)
        BY <2>2, <2>6, <2>12
      <3>2. GraphOK(compared, n) /\ Size(compared) \in Size(valid) .. Size(valid) + 1
        BY <1>1, <2>2, <2>5, <2>12, <3>1, CalledOK
      <3>. QED BY <2>12, <3>2
    <2> HIDE DEF compared
    <2>14. PICK l \in Nat : l = Size(compared) + 2
      BY <2>6, <2>13
    <2>15. clause \in 1 .. l /\ clause + 1 \in 1 .. l /\ 2 \in Nat /\ k <= l /\ clause + 1 = l
      BY <2>6, <2>13, <2>14
    <2>16. i3 \in InstrsOf(l, n)
      BY <2>2, <2>5, <2>15, InstrTypes DEF Ops, EndOps
    <2>26. handler = l
      BY <2>15
    <2> HIDE DEF i3, handler
    <2>17. GraphOK(g4, n) /\ Size(g4) = l
      BY <2>2, <2>13, <2>14, <2>15, CreateOK
    <2> HIDE DEF g4
    <2>18. GraphOK(g5, n) /\ Size(g5) = l
      BY <2>2, <2>16, <2>17, EmitOK
    <2> HIDE DEF g5
    <2>19. GraphOK(matched, n) /\ Size(matched) = l
      BY <2>2, <2>15, <2>18, MoveToOK
    <2> HIDE DEF matched
    <2>20. GraphOK(Catch(matched, rescue), n) /\ Size(Catch(matched, rescue)) \in l .. l + 1
      <3>1. Size(graph) <= Size(matched)
        BY <2>2, <2>6, <2>15, <2>19
      <3>2. Top.part \notin {"main", "ensure"}
        BY <1>1
      <3>. QED BY <1>1, <2>19, <3>1, <3>2, CatchOK
    <2>21. GraphOK(graph', n) /\ Size(graph') \in l .. l + 1
      BY <2>1, <2>20 DEF Catches
    <2>22. Size(graph) <= Size(graph') /\ Size(graph') \in Nat /\ l <= Size(graph')
      BY <2>2, <2>6, <2>15, <2>21
    <2>23. /\ f \in FramesOf(n) /\ f.op = "begin" /\ f.part = "clause" /\ f.base = t.base /\ f.from = t.from
           /\ f.handler = l /\ f.args = t.args /\ f.rescues = t.rescues
      <3>1. "clause" \in Parts /\ handler \in Int
        BY <2>26 DEF Parts
      <3>. QED BY <2>4, <2>26, <3>1 DEF FramesOf
    <2> HIDE DEF f
    <2>24. FrameOK(f, Size(graph'), n) /\ IsBody(f)
      <3>1. FrameOK(t, Size(graph'), n)
        BY <2>2, <2>4, <2>22, FrameGrows
      <3>2. /\ t.base >= 1 /\ t.base + 3 <= Size(graph) /\ t.base \in Int
        BY <2>4 DEF FrameOK, HasBlocks, FramesOf
      <3>3. l \in t.base + 4 .. Size(graph')
        BY <2>2, <2>6, <2>15, <2>22, <3>2
      <3>. QED BY <2>4, <2>23, <3>1, <3>3 DEF FrameOK, PartsOf, HasBlocks, Rescuing, IsBody
    <2>25. variables' \in [Names -> IdsUpTo(n)]
      BY <1>1, <2>1, <2>3, CatchesTyped
    <2>27. handlers' \in Seq(1 .. Size(graph')) /\ value' \in IdsUpTo(n) /\ room' \in 0 .. MaxStatements
      <3>1. Len(program) <= n
        BY <2>2
      <3>. QED BY <1>1, <2>1, <2>2, <2>22, <3>1, TypesKept, ValueParts
    <2>. QED BY <1>1, <2>1, <2>4, <2>21, <2>22, <2>23, <2>24, <2>25, <2>27, ValueTyped
  <1>. QED BY <1>2, <1>3

LEMMA BeginFinishTyped == ASSUME Typed, BeginFinish PROVE Typed'
  <1> DEFINE n       == Len(program)
             i       == To("br", <<>>, <<Ensure(Top)>>)
             g1      == Joins(graph, Top, NullPtr, True, Top.handler)
             ensured == Emit(g1, i)
             left    == IF Top.optional THEN graph ELSE ensured
             id      == <<Top.stmt, "value">>
  <1>1. /\ mode = "value" /\ open # <<>> /\ Top.op = "begin" /\ Top.part = "rescue"
        /\ UNCHANGED <<program, variables, handlers, room>>
        /\ graph' = MoveTo(left, Top.from) /\ open' = Below /\ mode' = "value" /\ value' = id
    BY DEF BeginFinish, Has, Yields
  <1>2. /\ n \in Nat /\ Size(graph) \in Nat \ {0} /\ GraphOK(graph, n)
        /\ <<>> \in Seq(IdsUpTo(n)) /\ Null \in IdsUpTo(n)
        /\ NullPtr \in IdsUpTo(n) \ {Null} /\ True \in IdsUpTo(n) \ {Null}
        /\ id \in IdsUpTo(n) /\ id # Null /\ <<Top.stmt, "value">> \in IdsUpTo(n) /\ <<Top.stmt, "flag">> \in IdsUpTo(n)
    BY <1>1, ValueParts DEF Tags
  <1>3. Ensure(Top) \in 1 .. Size(graph) /\ Top.handler \in 1 .. Size(graph) /\ Top.from \in 1 .. Size(graph)
    BY <1>1, BeginParts
  <1>4. i \in InstrsOf(Size(graph), n)
    BY <1>2, <1>3, InstrTypes DEF Ops, EndOps
  <1> HIDE DEF i, id
  <1>5. GraphOK(g1, n) /\ Size(g1) = Size(graph)
    BY <1>2, <1>3, JoinsOK
  <1> HIDE DEF g1
  <1>6. GraphOK(ensured, n) /\ Size(ensured) = Size(graph)
    BY <1>2, <1>4, <1>5, EmitOK
  <1> HIDE DEF ensured
  <1>7. GraphOK(left, n) /\ Size(left) = Size(graph)
    BY <1>2, <1>6
  <1> HIDE DEF left
  <1>8. GraphOK(graph', n) /\ Size(graph') = Size(graph) /\ Size(graph) <= Size(graph')
    BY <1>1, <1>2, <1>3, <1>7, MoveToOK
  <1>. QED BY <1>1, <1>2, <1>8, ValueParts, PartTyped

LEMMA FinishTyped == ASSUME Typed, Finish PROVE Typed'
  <1> DEFINE n == Len(program)
             i == To("ret", <<value>>, <<>>)
  <1>1. /\ mode = "value" /\ open = <<>> /\ graph' = Emit(graph, i) /\ mode' = "finished"
        /\ UNCHANGED <<handlers, variables, open, value, program, room>>
    BY DEF Finish
  <1>2. /\ n \in Nat /\ Size(graph) \in Nat \ {0} /\ GraphOK(graph, n) /\ value \in IdsUpTo(n) /\ Null \in IdsUpTo(n)
    BY TypedParts, ConstTypes DEF Typed
  <1>3. value # Null
    BY <1>1 DEF Typed, StackOK
  <1>4. i \in InstrsOf(Size(graph), n)
    <2>1. <<value>> \in Seq(IdsUpTo(n))
      BY <1>2
    <2>. QED BY <1>2, <2>1, InstrTypes DEF Ops, EndOps
  <1> HIDE DEF i
  <1>5. GraphOK(graph', n) /\ Size(graph') = Size(graph)
    BY <1>1, <1>2, <1>4, EmitOK
  <1>6. GraphOK(graph', Len(program')) /\ handlers' \in Seq(1 .. Size(graph'))
    BY <1>1, <1>5 DEF Typed
  <1>7. \A j \in DOMAIN open' : FrameOK(open'[j], Size(graph'), Len(program'))
    BY <1>1, <1>5 DEF Typed
  <1>8. StackOK'
    BY <1>1, <1>3 DEF Typed, StackOK, Top, Last, IsBody
  <1>9. /\ open' \in Seq(FramesOf(Len(program'))) /\ variables' \in [Names -> IdsUpTo(Len(program'))]
        /\ value' \in IdsUpTo(Len(program')) /\ room' \in 0 .. MaxStatements
        /\ program' \in Seq([kind : Kinds, name : Names \cup {"none"}, in : Nat, part : Parts])
    BY <1>1 DEF Typed
  <1>. QED BY <1>1, <1>3, <1>6, <1>7, <1>8, <1>9 DEF Typed

LEMMA InitTyped == Init => Typed
  <1> SUFFICES ASSUME Init PROVE Typed
    OBVIOUS
  <1> DEFINE block == [code |-> <<>>, phi |-> {}]
             node  == [kind |-> "block", name |-> "none", in |-> 0, part |-> "body"]
             f     == Running("block", "list", 1)
  <1>1. graph = [blocks |-> <<block>>, cur |-> 1, begins |-> {}] /\ program = <<node>> /\ open = <<f>>
    BY DEF Init
  <1>2. program \in Programs /\ Len(program) = 1
    <2>1. node \in [kind : Kinds, name : Names \cup {"none"}, in : Nat, part : Parts]
      BY DEF Kinds, Parts
    <2> HIDE DEF node
    <2>. QED BY <1>1, <2>1 DEF Programs
  <1>3. GraphOK(graph, 1) /\ Size(graph) = 1
    <2>1. block \in BlocksOf(1, 1)
      BY DEF BlocksOf
    <2> HIDE DEF block
    <2>2. <<block>> \in Seq(BlocksOf(1, 1)) /\ Len(<<block>>) = 1
      BY <2>1
    <2>3. graph.blocks = <<block>> /\ graph.cur = 1 /\ graph.begins = {}
      BY <1>1
    <2>4. Size(graph) = 1
      BY <2>2, <2>3 DEF Size
    <2>. QED BY <1>1, <2>2, <2>3, <2>4 DEF GraphOK, GraphsOf
  <1>4. FrameOK(f, 1, 1) /\ f.op = "block" /\ f \in FramesOf(1) /\ f.part = "list"
    <2>1. "block" \in FrameOps /\ "list" \in Parts /\ 1 \in 1 .. 1 /\ 1 \in Nat
      BY DEF FrameOps, Parts
    <2>2. f \in FramesOf(1) /\ f.op = "block" /\ f.part = "list"
      BY <2>1, RunningOK
    <2>. QED BY <2>2 DEF FrameOK, PartsOf, HasBlocks, Rescuing
  <1> HIDE DEF f
  <1>5. open \in Seq(FramesOf(1)) /\ Len(open) = 1 /\ open[1] = f /\ Top = f /\ DOMAIN open = {1}
    BY <1>1, <1>4 DEF Top, Last
  <1>6. variables \in [Names -> IdsUpTo(1)]
    <2>1. \A name \in Names : <<0, name>> \in IdsUpTo(1)
      BY DEF IdsUpTo, Tags
    <2>2. Null \in IdsUpTo(1)
      BY ConstTypes
    <2>. QED BY <2>1, <2>2 DEF Init
  <1>7. handlers \in Seq(1 .. Size(graph)) /\ value \in IdsUpTo(1) /\ mode = "value" /\ room \in 0 .. MaxStatements
    <2>1. Null \in IdsUpTo(1)
      BY ConstTypes
    <2>. QED BY <2>1, CodegenAssumption DEF Init
  <1>8. StackOK
    <2>1. 1 .. Len(open) - 1 = {}
      BY <1>5
    <2>2. open # <<>> /\ open[1].op = "block" /\ Top.op = "block"
      <3>1. open # <<>>
        BY <1>1
      <3>. QED BY <1>4, <1>5, <3>1
    <2>. QED BY <1>7, <2>1, <2>2 DEF StackOK
  <1>. QED BY <1>2, <1>3, <1>4, <1>5, <1>6, <1>7, <1>8 DEF Typed, Programs

LEMMA StutterTyped == Typed /\ UNCHANGED vars => Typed'
  <1> SUFFICES ASSUME Typed, UNCHANGED vars PROVE Typed'
    OBVIOUS
  <1>1. UNCHANGED <<graph, handlers, variables, open, value, mode, program, room>>
    BY DEF vars
  <1>2. GraphOK(graph, Len(program))' /\ (\A i \in DOMAIN open : FrameOK(open[i], Size(graph), Len(program)))'
    BY <1>1 DEF Typed
  <1>3. StackOK'
    BY <1>1 DEF Typed, StackOK, Top, Last, IsBody
  <1>. QED BY <1>1, <1>2, <1>3 DEF Typed

\* One lemma for each action.
LEMMA NextTyped == Typed /\ [Next]_vars => Typed'
  <1> SUFFICES ASSUME Typed, [Next]_vars PROVE Typed'
    OBVIOUS
  <1>1. CASE Literal \/ Absent \/ HolderStarts
    BY <1>1, LiteralTyped
  <1>2. ASSUME NEW n \in 0 .. MaxOperands, CallStarts(n) \/ ReturnStarts(n) PROVE Typed'
    <2>1. n \in Nat
      BY CodegenAssumption
    <2>. QED BY <1>2, <2>1, CallStartsTyped, ReturnStartsTyped
  <1>3. CASE CallOperand \/ ReturnOperand
    BY <1>3, CallOperandTyped, ReturnOperandTyped
  <1>4. CASE BlockStarts \/ BlockGoesOn \/ BlockEnds
    BY <1>4, BlockStartsTyped, BlockGoesOnTyped, BlockEndsTyped
  <1>5. ASSUME NEW name \in Names, ReadStarts(name) \/ AssignStarts(name) PROVE Typed'
    BY <1>5, ReadStartsTyped, AssignStartsTyped
  <1>6. CASE AssignOperand \/ IndexStarts \/ IndexOperand \/ IndexRight
    BY <1>6, AssignOperandTyped, IndexStartsTyped, IndexOperandTyped, IndexRightTyped
  <1>7. ASSUME NEW else \in BOOLEAN, IfStarts(else) PROVE Typed'
    BY <1>7, IfStartsTyped
  <1>8. ASSUME NEW whens \in 1 .. 2, CaseStarts(whens) PROVE Typed'
    BY <1>8, CaseStartsTyped
  <1>9. CASE IfCondition \/ TrueBranch \/ FalseBranch
    BY <1>9, IfConditionTyped, TrueBranchTyped, FalseBranchTyped
  <1>10. CASE WhileStarts \/ WhileBody \/ WhileCondition
    BY <1>10, WhileStartsTyped, WhileBodyTyped, WhileConditionTyped
  <1>11. ASSUME NEW rescues \in RescueLists, NEW ensured \in BOOLEAN, BeginStarts(rescues, ensured) PROVE Typed'
    BY <1>11, BeginStartsTyped
  <1>12. CASE BeginMain \/ BeginEnsure \/ BeginFinish
    BY <1>12, BeginMainTyped, BeginEnsureTyped, BeginFinishTyped
  <1>13. CASE RescueAny \/ RescueTyped \/ RescueClass \/ RescueClause
    BY <1>13, RescueAnyTyped, RescueTypedTyped, RescueClassTyped, RescueClauseTyped
  <1>14. CASE Finish
    BY <1>14, FinishTyped
  <1>15. CASE UNCHANGED vars
    BY <1>15, StutterTyped
  <1>. QED
    BY <1>1, <1>2, <1>3, <1>4, <1>5, <1>6, <1>7, <1>8, <1>9, <1>10, <1>11, <1>12, <1>13, <1>14, <1>15 DEF Next

LEMMA TypedImplies == Typed => TypeOK
  <1> SUFFICES ASSUME Typed PROVE TypeOK
    OBVIOUS
  <1> DEFINE n == Len(program)
  <1>1. n \in Nat /\ Size(graph) \in Nat \ {0} /\ graph.cur \in 1 .. Size(graph)
    BY TypedParts
  <1>2. IdsUpTo(n) = Ids
    BY DEF Ids, IdsUpTo
  <1>3. \A b \in 1 .. Size(graph) : /\ graph.blocks[b].code \in Seq(InstrsOf(Size(graph), n))
                                   /\ graph.blocks[b].phi \subseteq Incomings(Size(graph), n)
    BY <1>1, GraphParts DEF Typed
  <1>4. graph.begins \subseteq BeginsOf(Size(graph))
    BY <1>1, GraphParts DEF Typed
  <1>5. InstrsOf(Size(graph), n) \subseteq Instrs
    <2>1. 0 .. Size(graph) = 1 .. Size(graph) \cup {0}
      BY <1>1
    <2>. QED BY <1>2, <2>1 DEF InstrsOf, Instrs, Blocks, Ops
  <1>6. ASSUME NEW b \in Blocks
        PROVE  /\ \A i \in DOMAIN graph.blocks[b].code : graph.blocks[b].code[i] \in Instrs
               /\ graph.blocks[b].phi \subseteq [id : Ids, value : Ids \ {Null}, from : Blocks]
    <2>1. /\ graph.blocks[b].code \in Seq(InstrsOf(Size(graph), n))
          /\ graph.blocks[b].phi \subseteq Incomings(Size(graph), n)
      BY <1>3 DEF Blocks
    <2>2. \A i \in DOMAIN graph.blocks[b].code : graph.blocks[b].code[i] \in InstrsOf(Size(graph), n)
      BY <2>1
    <2>. QED BY <1>2, <1>5, <2>1, <2>2 DEF Incomings, Blocks
  <1>7. graph.begins \subseteq [pad : Blocks, ensure : Blocks, rethrow : Blocks, finish : Blocks]
    BY <1>4 DEF BeginsOf, Blocks
  <1>8. /\ handlers \in Seq(Blocks) /\ variables \in [Names -> Ids] /\ value \in Ids
        /\ graph.cur \in Blocks
    BY <1>1, <1>2 DEF Typed, Blocks
  <1>. QED BY <1>6, <1>7, <1>8 DEF Typed, TypeOK

\* Whatever the program, every pointer that a generating function keeps to a block of its own
\* is to one that exists, no null value gets into a phi, and the value of the function is not
\* null when its return is generated: the parts before it crash the compiler first.
THEOREM TypeCorrect == Spec => []TypeOK
  <1>1. Init => Typed
    BY InitTyped
  <1>2. Typed /\ [Next]_vars => Typed'
    BY NextTyped
  <1>. QED BY <1>1, <1>2, TypedImplies, PTL DEF Spec

-----------------------------------------------------------------------------
(* The landing pads.                                                       *)

\* How a step changes the stack: it is not in the main part of a begin that the function on
\* top was, or is.
IsMain(f) == f.op = "begin" /\ f.part = "main"
KeepsMains ==
  /\ handlers' = handlers
  /\ \/ open' = open
     \/ \E f : open' = Append(open, f) /\ ~IsMain(f)
     \/ open # <<>> /\ ~IsMain(Top) /\ open' = Below
     \/ open # <<>> /\ ~IsMain(Top) /\ \E f : open' = Append(Below, f) /\ ~IsMain(f)

\* The stack before a step and after it, and how long they are.
LEMMA StackDomains ==
  ASSUME Typed, NEW f
  PROVE  \E top \in Nat :
           /\ top = Len(open) /\ DOMAIN open = 1 .. top
           /\ DOMAIN Append(open, f) = 1 .. top + 1 /\ Append(open, f)[top + 1] = f
           /\ \A i \in 1 .. top : Append(open, f)[i] = open[i]
           /\ open # <<>> =>
                /\ top >= 1 /\ Top = open[top]
                /\ DOMAIN Below = 1 .. top - 1 /\ \A i \in 1 .. top - 1 : Below[i] = open[i]
                /\ DOMAIN Append(Below, f) = 1 .. top /\ Append(Below, f)[top] = f
                /\ \A i \in 1 .. top - 1 : Append(Below, f)[i] = open[i]
  <1>1. open \in Seq(FramesOf(Len(program)))
    BY DEF Typed
  <1>2. PICK top \in Nat : top = Len(open) /\ DOMAIN open = 1 .. top
    BY <1>1
  <1>3. /\ DOMAIN Append(open, f) = 1 .. top + 1 /\ Append(open, f)[top + 1] = f
        /\ \A i \in 1 .. top : Append(open, f)[i] = open[i]
    BY <1>1, <1>2
  <1>4. ASSUME open # <<>>
        PROVE  /\ top >= 1 /\ Top = open[top]
               /\ DOMAIN Below = 1 .. top - 1 /\ \A i \in 1 .. top - 1 : Below[i] = open[i]
               /\ DOMAIN Append(Below, f) = 1 .. top /\ Append(Below, f)[top] = f
               /\ \A i \in 1 .. top - 1 : Append(Below, f)[i] = open[i]
    <2>1. /\ top >= 1 /\ Top = open[top] /\ Below \in Seq(FramesOf(Len(program))) /\ Len(Below) = top - 1
          /\ \A i \in 1 .. top - 1 : Below[i] = open[i]
      BY <1>1, <1>2, <1>4, StackChanges
    <2>2. DOMAIN Below = 1 .. top - 1
      BY <2>1
    <2>3. DOMAIN Append(Below, f) = 1 .. Len(Below) + 1 /\ Append(Below, f)[Len(Below) + 1] = f
      BY <2>1
    <2>4. Len(Below) + 1 = top
      BY <1>2, <2>1
    <2>5. \A i \in 1 .. top - 1 : Append(Below, f)[i] = open[i]
      BY <1>1, <1>2, <1>4, StackChanges
    <2>. QED BY <2>1, <2>2, <2>3, <2>4, <2>5
  <1>. QED BY <1>2, <1>3, <1>4

LEMMA MainsKept ==
  ASSUME Typed, KeepsMains
  PROVE  InMain' = InMain /\ \A i \in InMain : open'[i] = open[i]
  <1>2. CASE open' = open
    BY <1>2 DEF InMain
  <1>3. ASSUME NEW f, open' = Append(open, f), ~IsMain(f)
        PROVE  InMain' = InMain /\ \A i \in InMain : open'[i] = open[i]
    <2>1. PICK top \in Nat : /\ DOMAIN open = 1 .. top /\ DOMAIN open' = 1 .. top + 1 /\ open'[top + 1] = f
                             /\ \A i \in 1 .. top : open'[i] = open[i]
      BY <1>3, StackDomains
    <2>. QED BY <1>3, <2>1 DEF InMain, IsMain
  <1>4. CASE open # <<>> /\ ~IsMain(Top) /\ open' = Below
    <2>1. PICK top \in Nat : /\ DOMAIN open = 1 .. top /\ DOMAIN open' = 1 .. top - 1 /\ Top = open[top]
                             /\ \A i \in 1 .. top - 1 : open'[i] = open[i]
      BY <1>4, StackDomains
    <2>. QED BY <1>4, <2>1 DEF InMain, IsMain
  <1>5. ASSUME open # <<>>, ~IsMain(Top), NEW f, open' = Append(Below, f), ~IsMain(f)
        PROVE  InMain' = InMain /\ \A i \in InMain : open'[i] = open[i]
    <2>1. PICK top \in Nat : /\ DOMAIN open = 1 .. top /\ DOMAIN open' = 1 .. top /\ Top = open[top] /\ open'[top] = f
                             /\ \A i \in 1 .. top - 1 : open'[i] = open[i]
      BY <1>5, StackDomains
    <2>. QED BY <1>5, <2>1 DEF InMain, IsMain
  <1>. QED BY <1>2, <1>3, <1>4, <1>5 DEF KeepsMains

LEMMA HandlersKept == Typed /\ HandlersNest /\ KeepsMains => HandlersNest'
  <1> SUFFICES ASSUME Typed, HandlersNest, KeepsMains PROVE HandlersNest'
    OBVIOUS
  <1>1. PICK at \in [DOMAIN handlers -> InMain] :
          /\ \A i \in DOMAIN handlers : handlers[i] = Pad(open[at[i]])
          /\ \A i, j \in DOMAIN handlers : i < j => at[i] < at[j]
          /\ InMain = {at[i] : i \in DOMAIN handlers}
    BY DEF HandlersNest
  <1>2. InMain' = InMain /\ handlers' = handlers /\ \A i \in InMain : open'[i] = open[i]
    BY MainsKept DEF KeepsMains
  <1>3. at \in [DOMAIN handlers' -> InMain'] /\ \A i \in DOMAIN handlers' : handlers'[i] = Pad(open'[at[i]])
    BY <1>1, <1>2
  <1>4. /\ \A i, j \in DOMAIN handlers' : i < j => at[i] < at[j]
        /\ InMain' = {at[i] : i \in DOMAIN handlers'}
    BY <1>1, <1>2
  <1>. QED BY <1>3, <1>4 DEF HandlersNest

\* A begin pushes its pad with itself.
LEMMA HandlersPushed ==
  ASSUME Typed, HandlersNest, NEW f, IsMain(f), open' = Append(open, f), handlers' = Append(handlers, Pad(f))
  PROVE  HandlersNest'
  <1>1. PICK top \in Nat : /\ DOMAIN open = 1 .. top /\ DOMAIN open' = 1 .. top + 1 /\ open'[top + 1] = f
                           /\ \A i \in 1 .. top : open'[i] = open[i]
    BY StackDomains
  <1>2. PICK len \in Nat : /\ DOMAIN handlers = 1 .. len
                           /\ DOMAIN handlers' = 1 .. len + 1 /\ handlers'[len + 1] = Pad(f)
                           /\ \A i \in 1 .. len : handlers'[i] = handlers[i]
    <2>1. handlers \in Seq(1 .. Size(graph))
      BY DEF Typed
    <2>. QED BY <2>1
  <1>3. PICK at \in [DOMAIN handlers -> InMain] :
          /\ \A i \in DOMAIN handlers : handlers[i] = Pad(open[at[i]])
          /\ \A i, j \in DOMAIN handlers : i < j => at[i] < at[j]
          /\ InMain = {at[i] : i \in DOMAIN handlers}
    BY DEF HandlersNest
  <1>4. InMain \subseteq 1 .. top
    BY <1>1 DEF InMain
  <1>5. InMain' = InMain \cup {top + 1}
    BY <1>1 DEF InMain, IsMain
  <1> DEFINE new == [i \in 1 .. len + 1 |-> IF i = len + 1 THEN top + 1 ELSE at[i]]
  <1>7. \A i \in 1 .. len : new[i] = at[i] /\ at[i] \in InMain /\ at[i] \in 1 .. top
    BY <1>2, <1>3, <1>4
  <1>8. new[len + 1] = top + 1
    BY <1>2
  <1>12. \A i \in 1 .. len + 1 : i \in 1 .. len \/ i = len + 1
    OBVIOUS
  <1>6. new \in [DOMAIN handlers' -> InMain']
    <2>1. ASSUME NEW i \in 1 .. len + 1 PROVE new[i] \in InMain'
      <3>1. CASE i \in 1 .. len
        <4>1. new[i] = at[i] /\ at[i] \in InMain
          BY <1>7, <3>1
        <4> HIDE DEF new
        <4>. QED BY <1>5, <4>1
      <3>2. CASE i = len + 1
        <4> HIDE DEF new
        <4>. QED BY <1>5, <1>8, <3>2
      <3>. QED BY <1>12, <3>1, <3>2
    <2>. QED BY <1>2, <2>1
  <1> HIDE DEF new
  <1>9. ASSUME NEW i \in DOMAIN handlers'
        PROVE  handlers'[i] = Pad(open'[new[i]])
    <2>1. CASE i \in 1 .. len
      <3>1. handlers'[i] = handlers[i] /\ new[i] = at[i] /\ open'[at[i]] = open[at[i]]
        BY <1>1, <1>2, <1>7, <2>1
      <3>2. handlers[i] = Pad(open[at[i]])
        BY <1>2, <1>3, <2>1
      <3>. QED BY <3>1, <3>2
    <2>2. CASE i = len + 1
      BY <1>1, <1>2, <1>8, <2>2
    <2>. QED BY <1>2, <1>12, <2>1, <2>2
  <1>10. ASSUME NEW i \in DOMAIN handlers', NEW j \in DOMAIN handlers', i < j
         PROVE  new[i] < new[j]
    <2>1. i \in 1 .. len /\ new[i] = at[i] /\ at[i] \in 1 .. top
      BY <1>2, <1>7, <1>10
    <2>2. CASE j = len + 1
      BY <1>1, <1>8, <2>1, <2>2
    <2>3. CASE j # len + 1
      <3>1. j \in 1 .. len
        BY <1>2, <2>3
      <3>2. new[j] = at[j] /\ at[i] < at[j]
        BY <1>2, <1>3, <1>7, <1>10, <2>1, <3>1
      <3>. QED BY <2>1, <3>2
    <2>. QED BY <2>2, <2>3
  <1>11. InMain' = {new[i] : i \in DOMAIN handlers'}
    <2>1. \A x \in InMain' : \E i \in 1 .. len + 1 : x = new[i]
      <3>1. \A x \in InMain : \E i \in 1 .. len : x = at[i]
        BY <1>2, <1>3
      <3>2. \A i \in 1 .. len : i \in 1 .. len + 1
        OBVIOUS
      <3>3. len + 1 \in 1 .. len + 1
        OBVIOUS
      <3>. QED BY <1>5, <1>7, <1>8, <3>1, <3>2, <3>3
    <2>2. \A i \in 1 .. len + 1 : new[i] \in InMain'
      BY <1>2, <1>6
    <2>. QED BY <1>2, <2>1, <2>2
  <1>. QED BY <1>6, <1>9, <1>10, <1>11 DEF HandlersNest

\* The main part of the begin on top ends, and the pad that is popped is its own.
LEMMA HandlersPopped ==
  ASSUME Typed, HandlersNest, open # <<>>, IsMain(Top), NEW f, ~IsMain(f), open' = Append(Below, f),
         handlers' = SubSeq(handlers, 1, Len(handlers) - 1)
  PROVE  HandlersNest'
  <1>1. PICK top \in Nat : /\ DOMAIN open = 1 .. top /\ DOMAIN open' = 1 .. top /\ Top = open[top] /\ open'[top] = f
                           /\ top >= 1 /\ \A i \in 1 .. top - 1 : open'[i] = open[i]
    BY StackDomains
  <1>2. PICK at \in [DOMAIN handlers -> InMain] :
          /\ \A i \in DOMAIN handlers : handlers[i] = Pad(open[at[i]])
          /\ \A i, j \in DOMAIN handlers : i < j => at[i] < at[j]
          /\ InMain = {at[i] : i \in DOMAIN handlers}
    BY DEF HandlersNest
  <1>3. InMain \subseteq 1 .. top /\ top \in InMain
    BY <1>1 DEF InMain, IsMain
  <1>4. PICK len \in Nat : len = Len(handlers) /\ DOMAIN handlers = 1 .. len
    <2>1. handlers \in Seq(1 .. Size(graph))
      BY DEF Typed
    <2>. QED BY <2>1
  <1>5. PICK last \in 1 .. len : at[last] = top
    BY <1>2, <1>3, <1>4
  <1>6. last = len
    <2>1. ASSUME last # len PROVE FALSE
      <3>1. last < len /\ len \in 1 .. len
        BY <1>4, <1>5, <2>1
      <3>2. at[last] < at[len] /\ at[len] \in InMain
        BY <1>2, <1>4, <1>5, <3>1
      <3>3. at[len] \in 1 .. top
        BY <1>3, <3>2
      <3>. QED BY <1>1, <1>5, <3>2, <3>3
    <2>. QED BY <2>1
  <1>7. len >= 1 /\ at[len] = top
    BY <1>5, <1>6
  <1>8. DOMAIN handlers' = 1 .. len - 1 /\ \A i \in 1 .. len - 1 : handlers'[i] = handlers[i]
    <2>1. handlers' = SubSeq(handlers, 1, len - 1)
      BY <1>4
    <2>. QED BY <1>4, <1>7, <2>1
  <1>9. InMain' = InMain \ {top}
    <2>1. \A i \in 1 .. top : i \in InMain' <=> i # top /\ i \in InMain
      BY <1>1 DEF InMain, IsMain
    <2>2. InMain' \subseteq 1 .. top
      BY <1>1 DEF InMain
    <2>. QED BY <1>3, <2>1, <2>2
  <1>10. ASSUME NEW i \in 1 .. len - 1 PROVE at[i] \in InMain \ {top} /\ at[i] \in 1 .. top - 1
    <2>1. i \in 1 .. len /\ len \in 1 .. len /\ i < len
      BY <1>4, <1>7
    <2>2. at[i] < at[len] /\ at[i] \in InMain
      BY <1>2, <1>4, <2>1
    <2>3. at[i] \in 1 .. top /\ at[i] < top
      BY <1>3, <1>7, <2>2
    <2>. QED BY <1>1, <2>2, <2>3
  <1> DEFINE new == [i \in 1 .. len - 1 |-> at[i]]
  <1>11. new \in [DOMAIN handlers' -> InMain']
    BY <1>8, <1>9, <1>10
  <1>12. \A i \in 1 .. len - 1 : new[i] = at[i]
    OBVIOUS
  <1> HIDE DEF new
  <1>16. \A i \in 1 .. len - 1 : i \in 1 .. len
    OBVIOUS
  <1>13. ASSUME NEW i \in DOMAIN handlers'
         PROVE  handlers'[i] = Pad(open'[new[i]])
    <2>1. i \in 1 .. len - 1 /\ i \in DOMAIN handlers
      BY <1>4, <1>8, <1>16
    <2>2. new[i] = at[i] /\ at[i] \in 1 .. top - 1 /\ handlers'[i] = handlers[i]
      BY <1>8, <1>10, <1>12, <2>1
    <2>3. open'[at[i]] = open[at[i]]
      BY <1>1, <2>2
    <2>. QED BY <1>2, <2>1, <2>2, <2>3
  <1>14. \A i, j \in DOMAIN handlers' : i < j => new[i] < new[j]
    BY <1>2, <1>4, <1>8, <1>12, <1>16
  <1>15. InMain' = {new[i] : i \in DOMAIN handlers'}
    <2>1. ASSUME NEW x \in InMain \ {top} PROVE \E i \in 1 .. len - 1 : x = at[i]
      <3>1. PICK i \in 1 .. len : x = at[i]
        BY <1>2, <1>4
      <3>2. i # len
        BY <1>7, <3>1
      <3>3. i \in 1 .. len - 1
        BY <1>4, <3>2
      <3>. QED BY <3>1, <3>3
    <2>2. \A x \in InMain' : \E i \in DOMAIN handlers' : x = new[i]
      BY <1>8, <1>9, <1>12, <2>1
    <2>3. \A i \in DOMAIN handlers' : new[i] \in InMain'
      BY <1>11
    <2>. QED BY <2>2, <2>3
  <1>. QED BY <1>11, <1>13, <1>14, <1>15 DEF HandlersNest

LEMMA NextOperandMains ==
  ASSUME Typed, open # <<>>, NextOperand, Top.op # "begin"
  PROVE  KeepsMains
  <1> DEFINE x == Top.left - 1
             y == Append(Top.args, value)
             t == Top
  <1>1. open' = Append(Below, [t EXCEPT !.left = x, !.args = y]) /\ handlers' = handlers
    BY DEF NextOperand, TopIs
  <1>2. t \in FramesOf(Len(program)) /\ t.op # "begin" /\ t = Top
    BY TypedParts
  <1> HIDE DEF x, y, t
  <1>3. ~IsMain([t EXCEPT !.left = x, !.args = y]) /\ ~IsMain(Top)
    BY <1>2 DEF FramesOf, IsMain
  <1>. QED BY <1>1, <1>3 DEF KeepsMains

LEMMA SimpleMains ==
  ASSUME Typed,
         \/ Literal \/ Absent \/ HolderStarts \/ BlockStarts \/ BlockGoesOn \/ BlockEnds
         \/ AssignOperand \/ IndexStarts \/ IndexRight \/ CallOperand \/ ReturnOperand
         \/ FalseBranch \/ WhileStarts \/ WhileCondition \/ BeginFinish \/ Finish
  PROVE  KeepsMains
  <1>1. CASE Literal \/ Absent \/ HolderStarts \/ BlockGoesOn \/ Finish
    BY <1>1 DEF KeepsMains, Literal, Absent, HolderStarts, BlockGoesOn, Finish
  <1>2. CASE BlockStarts
    <2>1. ~IsMain(Running("block", "list", This))
      BY DEF IsMain, Running
    <2>. QED BY <1>2, <2>1 DEF KeepsMains, BlockStarts, Push
  <1>3. CASE IndexStarts
    <2>1. ~IsMain([Running("index", "operand", This) EXCEPT !.left = 2])
      BY DEF IsMain, Running
    <2>. QED BY <1>3, <2>1 DEF KeepsMains, IndexStarts, Push
  <1>4. CASE WhileStarts
    <2> DEFINE r == Running("while", "body", This)
               f == [r EXCEPT !.base = Size(graph), !.from = graph.cur]
    <2>1. r \in [op : {"while"}, part : {r.part}, stmt : {r.stmt}, left : {r.left}, optional : {r.optional}, base : {r.base},
                 from : {r.from}, args : {r.args}, rescues : {r.rescues}, handler : {r.handler}]
      BY DEF Running
    <2>2. open' = Append(open, f) /\ handlers' = handlers
      BY <1>4 DEF WhileStarts, Push
    <2> HIDE DEF r
    <2>3. ~IsMain(f)
      BY <2>1 DEF IsMain
    <2>. QED BY <2>2, <2>3 DEF KeepsMains
  <1>5. CASE CallOperand
    <2>1. open # <<>> /\ Top.op = "call" /\ (Crashes \/ NextOperand \/ (open' = Below /\ handlers' = handlers))
      BY <1>5 DEF CallOperand, Has
    <2>2. CASE NextOperand
      BY <2>1, <2>2, NextOperandMains
    <2>. QED BY <2>1, <2>2 DEF KeepsMains, IsMain, Crashes
  <1>6. CASE ReturnOperand
    <2>1. open # <<>> /\ Top.op = "return" /\ (Crashes \/ NextOperand \/ (open' = Below /\ handlers' = handlers))
      BY <1>6 DEF ReturnOperand, Has
    <2>2. CASE NextOperand
      BY <2>1, <2>2, NextOperandMains
    <2>. QED BY <2>1, <2>2 DEF KeepsMains, IsMain, Crashes
  <1>7. CASE BlockEnds \/ AssignOperand \/ IndexRight \/ FalseBranch \/ WhileCondition
    BY <1>7 DEF KeepsMains, IsMain, Crashes, BlockEnds, AssignOperand, IndexRight, FalseBranch, WhileCondition, Has
  <1>8. CASE BeginFinish
    BY <1>8 DEF KeepsMains, IsMain, BeginFinish, Has
  <1>. QED BY <1>1, <1>2, <1>3, <1>4, <1>5, <1>6, <1>7, <1>8

LEMMA StartMains ==
  ASSUME Typed,
         \/ \E n \in Nat : CallStarts(n) \/ ReturnStarts(n)
         \/ \E name \in Names : ReadStarts(name) \/ AssignStarts(name)
         \/ \E else \in BOOLEAN : IfStarts(else)
         \/ \E whens \in 1 .. 2 : CaseStarts(whens)
  PROVE  KeepsMains
  <1>1. ASSUME NEW op, op # "begin", NEW part, NEW x
        PROVE  /\ ~IsMain([Running(op, part, This) EXCEPT !.left = x])
               /\ ~IsMain([Running(op, part, This) EXCEPT !.args = x])
               /\ ~IsMain([Running(op, part, This) EXCEPT !.optional = x])
               /\ ~IsMain(Running(op, part, This))
    BY <1>1 DEF IsMain, Running
  <1>2. ASSUME NEW n \in Nat, CallStarts(n) PROVE KeepsMains
    <2>1. ~IsMain([Running("call", "operand", This) EXCEPT !.left = n])
      BY <1>1
    <2>. QED BY <1>2, <2>1 DEF KeepsMains, CallStarts, Push
  <1>3. ASSUME NEW n \in Nat, ReturnStarts(n) PROVE KeepsMains
    <2>1. ~IsMain([Running("return", "operand", This) EXCEPT !.left = n])
      BY <1>1
    <2>. QED BY <1>3, <2>1 DEF KeepsMains, ReturnStarts, Push
  <1>4. ASSUME NEW name \in Names, ReadStarts(name) PROVE KeepsMains
    BY <1>4 DEF KeepsMains, ReadStarts
  <1>5. ASSUME NEW name \in Names, AssignStarts(name) PROVE KeepsMains
    <2> DEFINE args == <<IF variables[name] = Null THEN <<This, "slot">> ELSE variables[name]>>
    <2>1. open' = Append(open, [Running("assign", "operand", This) EXCEPT !.args = args]) /\ handlers' = handlers
      BY <1>5 DEF AssignStarts, Push
    <2> HIDE DEF args
    <2>2. ~IsMain([Running("assign", "operand", This) EXCEPT !.args = args])
      BY <1>1
    <2>. QED BY <2>1, <2>2 DEF KeepsMains
  <1>6. ASSUME NEW else \in BOOLEAN, IfStarts(else) PROVE KeepsMains
    <2>1. ~IsMain([Running("if", "condition", This) EXCEPT !.optional = else])
      BY <1>1
    <2>. QED BY <1>6, <2>1 DEF KeepsMains, IfStarts, Push
  <1>7. ASSUME NEW whens \in 1 .. 2, CaseStarts(whens) PROVE KeepsMains
    <2>1. ~IsMain(Running("if", "condition", This))
      BY <1>1
    <2>. QED BY <1>7, <2>1 DEF KeepsMains, CaseStarts, Push
  <1>. QED BY <1>2, <1>3, <1>4, <1>5, <1>6, <1>7

LEMMA PartMains ==
  ASSUME Typed,
         \/ IndexOperand \/ IfCondition \/ TrueBranch \/ WhileBody
         \/ BeginEnsure \/ RescueAny \/ RescueTyped \/ RescueClass \/ RescueClause
  PROVE  KeepsMains
  <1> DEFINE t == Top
  <1>1. open # <<>> => t \in FramesOf(Len(program))
    BY TypedParts
  <1>2. CASE IndexOperand
    <2> DEFINE x == Append(t.args, value)
    <2>1. /\ open # <<>> /\ ~IsMain(Top) /\ Top.op # "begin"
          /\ \/ Crashes \/ NextOperand
             \/ handlers' = handlers /\ open' = Append(Below, [t EXCEPT !.part = "right", !.args = x])
      BY <1>2 DEF IndexOperand, Has, IsMain, TopIs
    <2> HIDE DEF t, x
    <2>2. ~IsMain([t EXCEPT !.part = "right", !.args = x])
      BY <1>1, <2>1 DEF FramesOf, IsMain
    <2>3. CASE NextOperand
      BY <2>1, <2>3, NextOperandMains
    <2>. QED BY <2>1, <2>2, <2>3 DEF KeepsMains, Crashes
  <1>3. CASE IfCondition
    <2> DEFINE x == Size(graph)
    <2>1. /\ open # <<>> /\ ~IsMain(Top)
          /\ \/ Crashes
             \/ handlers' = handlers /\ open' = Append(Below, [t EXCEPT !.part = "true", !.base = x])
      BY <1>3 DEF IfCondition, Has, IsMain, TopIs
    <2> HIDE DEF t, x
    <2>2. ~IsMain([t EXCEPT !.part = "true", !.base = x])
      BY <1>1, <2>1 DEF FramesOf, IsMain
    <2>. QED BY <2>1, <2>2 DEF KeepsMains, Crashes
  <1>4. CASE TrueBranch
    <2> DEFINE x == graph.cur
               y == <<value>>
    <2>1. /\ open # <<>> /\ ~IsMain(Top)
          /\ handlers' = handlers /\ open' = Append(Below, [t EXCEPT !.part = "false", !.from = x, !.args = y])
      BY <1>4 DEF TrueBranch, Has, IsMain, TopIs
    <2> HIDE DEF t, x, y
    <2>2. ~IsMain([t EXCEPT !.part = "false", !.from = x, !.args = y])
      BY <1>1, <2>1 DEF FramesOf, IsMain
    <2>. QED BY <2>1, <2>2 DEF KeepsMains
  <1>5. CASE WhileBody
    <2> DEFINE x == <<value>>
    <2>1. /\ open # <<>> /\ ~IsMain(Top)
          /\ \/ Crashes
             \/ handlers' = handlers /\ open' = Append(Below, [t EXCEPT !.part = "condition", !.args = x])
      BY <1>5 DEF WhileBody, Has, IsMain, TopIs
    <2> HIDE DEF t, x
    <2>2. ~IsMain([t EXCEPT !.part = "condition", !.args = x])
      BY <1>1, <2>1 DEF FramesOf, IsMain
    <2>. QED BY <2>1, <2>2 DEF KeepsMains, Crashes
  <1>6. CASE BeginEnsure
    <2> DEFINE x == Size(graph) + 1
               y == Size(graph) + 2
               z == <<<<Top.stmt, "exception">>>>
    <2>1. /\ open # <<>> /\ ~IsMain(Top) /\ handlers' = handlers
          /\ open' = Append(Below, [t EXCEPT !.part = "rescue", !.from = x, !.handler = y, !.args = z, !.optional = FALSE])
      BY <1>6 DEF BeginEnsure, Has, IsMain, TopIs
    <2> HIDE DEF t, x, y, z
    <2>2. ~IsMain([t EXCEPT !.part = "rescue", !.from = x, !.handler = y, !.args = z, !.optional = FALSE])
      BY <1>1, <2>1 DEF FramesOf, IsMain
    <2>. QED BY <2>1, <2>2 DEF KeepsMains
  <1>7. CASE RescueAny
    <2>1. /\ open # <<>> /\ ~IsMain(Top) /\ handlers' = handlers
          /\ open' = Append(Below, [t EXCEPT !.part = "clause", !.optional = TRUE])
      BY <1>7 DEF RescueAny, RescueIs, IsMain, TopIs
    <2> HIDE DEF t
    <2>2. ~IsMain([t EXCEPT !.part = "clause", !.optional = TRUE])
      BY <1>1, <2>1 DEF FramesOf, IsMain
    <2>. QED BY <2>1, <2>2 DEF KeepsMains
  <1>8. CASE RescueTyped
    <2>1. /\ open # <<>> /\ ~IsMain(Top) /\ handlers' = handlers
          /\ open' = Append(Below, [t EXCEPT !.part = "class"])
      BY <1>8 DEF RescueTyped, RescueIs, IsMain, TopIs
    <2> HIDE DEF t
    <2>2. ~IsMain([t EXCEPT !.part = "class"])
      BY <1>1, <2>1 DEF FramesOf, IsMain
    <2>. QED BY <2>1, <2>2 DEF KeepsMains
  <1>9. CASE RescueClass
    <2>1. /\ open # <<>> /\ ~IsMain(Top) /\ handlers' = handlers
          /\ open' = open \/ \E x : open' = Append(Below, [t EXCEPT !.part = "clause", !.handler = x])
      BY <1>9 DEF RescueClass, RescueIs, IsMain, TopIs
    <2> HIDE DEF t
    <2>2. \A x : ~IsMain([t EXCEPT !.part = "clause", !.handler = x])
      BY <1>1, <2>1 DEF FramesOf, IsMain
    <2>. QED BY <2>1, <2>2 DEF KeepsMains
  <1>10. CASE RescueClause
    <2> DEFINE x == Tail(t.rescues)
    <2>1. /\ open # <<>> /\ ~IsMain(Top) /\ handlers' = handlers
          /\ open' = Append(Below, [t EXCEPT !.part = "rescue", !.rescues = x])
      BY <1>10 DEF RescueClause, Has, IsMain, TopIs
    <2> HIDE DEF t, x
    <2>2. ~IsMain([t EXCEPT !.part = "rescue", !.rescues = x])
      BY <1>1, <2>1 DEF FramesOf, IsMain
    <2>. QED BY <2>1, <2>2 DEF KeepsMains
  <1>. QED BY <1>2, <1>3, <1>4, <1>5, <1>6, <1>7, <1>8, <1>9, <1>10

LEMMA BeginMains ==
  ASSUME Typed, HandlersNest,
         BeginMain \/ \E rescues \in RescueLists, ensured \in BOOLEAN : BeginStarts(rescues, ensured)
  PROVE  HandlersNest'
  <1>1. ASSUME NEW rescues \in RescueLists, NEW ensured \in BOOLEAN, BeginStarts(rescues, ensured)
        PROVE  HandlersNest'
    <2> DEFINE r == Running("begin", "main", This)
               x == Size(graph)
               f == [r EXCEPT !.base = x, !.rescues = rescues, !.optional = ensured]
    <2>1. open' = Append(open, f) /\ handlers' = Append(handlers, Pad(f))
      BY <1>1 DEF BeginStarts, Push
    <2>2. r \in FramesOf(This) /\ r.op = "begin" /\ r.part = "main"
      <3>1. "begin" \in FrameOps /\ "main" \in Parts /\ This \in Nat /\ This \in 1 .. This
        BY TypedParts DEF FrameOps, Parts
      <3>. QED BY <3>1, RunningOK
    <2> HIDE DEF r, x
    <2>3. IsMain(f)
      BY <2>2 DEF FramesOf, IsMain
    <2> HIDE DEF f
    <2>. QED BY <2>1, <2>3, HandlersPushed
  <1>2. CASE BeginMain
    <2> DEFINE t == Top
               f == [t EXCEPT !.part = "ensure"]
    <2>1. /\ open # <<>> /\ IsMain(Top) /\ open' = Append(Below, f)
          /\ handlers' = SubSeq(handlers, 1, Len(handlers) - 1)
      BY <1>2 DEF BeginMain, Has, TopIs, IsMain
    <2>2. t \in FramesOf(Len(program))
      BY <2>1, TypedParts
    <2> HIDE DEF t
    <2>3. ~IsMain(f)
      BY <2>2 DEF FramesOf, IsMain
    <2> HIDE DEF f
    <2>. QED BY <2>1, <2>3, HandlersPopped
  <1>. QED BY <1>1, <1>2

LEMMA InitHandlers == Init => HandlersNest
  <1> SUFFICES ASSUME Init PROVE HandlersNest
    OBVIOUS
  <1> DEFINE f == Running("block", "list", 1)
  <1>1. f.op = "block"
    BY DEF Running
  <1>2. open = <<f>> /\ handlers = <<>>
    BY DEF Init
  <1> HIDE DEF f
  <1>3. InMain = {}
    BY <1>1, <1>2 DEF InMain
  <1>4. <<>> \in [DOMAIN handlers -> InMain] /\ DOMAIN handlers = {}
    BY <1>2
  <1>. QED BY <1>3, <1>4 DEF HandlersNest

LEMMA NextHandlers == Typed /\ HandlersNest /\ [Next]_vars => HandlersNest'
  <1> SUFFICES ASSUME Typed, HandlersNest, [Next]_vars PROVE HandlersNest'
    OBVIOUS
  <1>1. CASE KeepsMains
    BY <1>1, HandlersKept
  <1>2. CASE BeginMain \/ \E rescues \in RescueLists, ensured \in BOOLEAN : BeginStarts(rescues, ensured)
    BY <1>2, BeginMains
  <1>3. CASE \/ Literal \/ Absent \/ HolderStarts \/ BlockStarts \/ BlockGoesOn \/ BlockEnds
             \/ AssignOperand \/ IndexStarts \/ IndexRight \/ CallOperand \/ ReturnOperand
             \/ FalseBranch \/ WhileStarts \/ WhileCondition \/ BeginFinish \/ Finish
    BY <1>1, <1>3, SimpleMains
  <1>4. CASE \/ IndexOperand \/ IfCondition \/ TrueBranch \/ WhileBody
             \/ BeginEnsure \/ RescueAny \/ RescueTyped \/ RescueClass \/ RescueClause
    BY <1>1, <1>4, PartMains
  <1>5. CASE \/ \E n \in 0 .. MaxOperands : CallStarts(n) \/ ReturnStarts(n)
             \/ \E name \in Names : ReadStarts(name) \/ AssignStarts(name)
             \/ \E else \in BOOLEAN : IfStarts(else)
             \/ \E whens \in 1 .. 2 : CaseStarts(whens)
    <2>1. 0 .. MaxOperands \subseteq Nat
      BY CodegenAssumption
    <2>. QED BY <1>1, <1>5, <2>1, StartMains
  <1>6. CASE UNCHANGED vars
    <2>1. KeepsMains
      BY <1>6 DEF vars, KeepsMains
    <2>. QED BY <1>1, <2>1
  <1>. QED BY <1>2, <1>3, <1>4, <1>5, <1>6 DEF Next

\* The landing pads on the stack are those of the begins whose main part is generated, in
\* their order, whatever the begins have been nested in: a call never goes to the rescues
\* of a begin whose rescue, else or ensure it is in.
THEOREM CallsUnwindToTheirBegin == Spec => []HandlersNest
  <1>1. Init => Typed /\ HandlersNest
    BY InitTyped, InitHandlers
  <1>2. (Typed /\ HandlersNest) /\ [Next]_vars => (Typed /\ HandlersNest)'
    BY NextTyped, NextHandlers
  <1>. QED BY <1>1, <1>2, PTL DEF Spec

-----------------------------------------------------------------------------
(* What the IRBuilder's operations do to the blocks, whatever is in them.   *)

Shaped(g) ==
  \E C, P, B : g \in [blocks : Seq([code : Seq(C), phi : SUBSET P]), cur : Int, begins : SUBSET B]

\* The graph h has the insertion point of g, and as many blocks.
Alike(g, h) == Shaped(h) /\ Size(h) = Size(g) /\ h.cur = g.cur /\ h.begins = g.begins

LEMMA ShapedParts ==
  ASSUME NEW g, Shaped(g)
  PROVE  /\ Size(g) \in Nat /\ g.cur \in Int /\ DOMAIN g.blocks = 1 .. Size(g)
         /\ g = [blocks |-> g.blocks, cur |-> g.cur, begins |-> g.begins]
         /\ \A b \in 1 .. Size(g) : /\ g.blocks[b] = [code |-> g.blocks[b].code, phi |-> g.blocks[b].phi]
                                   /\ g.blocks[b].code \in Seq(Members(g.blocks[b].code))
  <1>1. PICK C, P, B : g \in [blocks : Seq([code : Seq(C), phi : SUBSET P]), cur : Int, begins : SUBSET B]
    BY DEF Shaped
  <1>2. g.blocks \in Seq([code : Seq(C), phi : SUBSET P]) /\ g.cur \in Int
    BY <1>1
  <1>3. Size(g) = Len(g.blocks)
    BY DEF Size
  <1>4. Size(g) \in Nat /\ DOMAIN g.blocks = 1 .. Size(g)
    BY <1>2, <1>3
  <1>5. ASSUME NEW b \in 1 .. Size(g)
        PROVE  /\ g.blocks[b] = [code |-> g.blocks[b].code, phi |-> g.blocks[b].phi]
               /\ g.blocks[b].code \in Seq(Members(g.blocks[b].code))
    <2>1. g.blocks[b] \in [code : Seq(C), phi : SUBSET P]
      BY <1>2, <1>3, ElementOfSeq
    <2> DEFINE code == g.blocks[b].code
    <2>2. code \in Seq(C)
      BY <2>1
    <2>3. code \in Seq(Members(code))
      <3>1. \A i \in 1 .. Len(code) : code[i] \in Members(code)
        BY <2>2 DEF Members
      <3>. QED BY <2>2, <3>1
    <2>. QED BY <2>1, <2>3
  <1>. QED BY <1>1, <1>2, <1>4, <1>5

\* How a graph whose blocks are changed is shaped.
LEMMA ShapedAgain ==
  ASSUME NEW C, NEW P, NEW B, NEW g \in [blocks : Seq([code : Seq(C), phi : SUBSET P]), cur : Int, begins : SUBSET B],
         NEW D, NEW Q, NEW blocks \in Seq([code : Seq(D), phi : SUBSET Q])
  PROVE  Shaped([g EXCEPT !.blocks = blocks])
  <1>1. [g EXCEPT !.blocks = blocks] \in [blocks : Seq([code : Seq(D), phi : SUBSET Q]), cur : Int, begins : SUBSET B]
    OBVIOUS
  <1>. QED BY <1>1 DEF Shaped

\* The blocks of a graph when one of them is changed.
IsChange(g, b, new, D) == Shaped(g) /\ b \in 1 .. Size(g) /\ new \in [code : Seq(D), phi : SUBSET D]
LEMMA BlockChanges ==
  ASSUME NEW g, NEW b, NEW new, NEW D, IsChange(g, b, new, D)
  PROVE  /\ Alike(g, [g EXCEPT !.blocks = [g.blocks EXCEPT ![b] = new]])
         /\ \A x \in 1 .. Size(g) : [g EXCEPT !.blocks = [g.blocks EXCEPT ![b] = new]].blocks[x] = IF x = b THEN new ELSE g.blocks[x]
  <1>0. Shaped(g) /\ b \in 1 .. Size(g) /\ new \in [code : Seq(D), phi : SUBSET D]
    BY DEF IsChange
  <1>1. PICK C, P, B : g \in [blocks : Seq([code : Seq(C), phi : SUBSET P]), cur : Int, begins : SUBSET B]
    BY <1>0 DEF Shaped
  <1> DEFINE S == [code : Seq(C), phi : SUBSET P]
             T == [code : Seq(C \cup D), phi : SUBSET (P \cup D)]
             blocks == [g.blocks EXCEPT ![b] = new]
  <1>2. S \subseteq T /\ new \in T
    <2>1. Seq(C) \subseteq Seq(C \cup D) /\ Seq(D) \subseteq Seq(C \cup D)
      BY SeqMonotonic
    <2>. QED BY <1>0, <2>1
  <1>7. g.blocks \in Seq(S) /\ Len(g.blocks) = Size(g)
    BY <1>1 DEF Size
  <1> HIDE DEF S, T
  <1>3. g.blocks \in Seq(T) /\ Len(g.blocks) = Size(g)
    BY <1>2, <1>7, SeqMonotonic
  <1>4. /\ blocks \in Seq(T) /\ Len(blocks) = Size(g)
        /\ \A x \in 1 .. Size(g) : blocks[x] = IF x = b THEN new ELSE g.blocks[x]
    BY <1>0, <1>2, <1>3, ExceptSeq
  <1> HIDE DEF blocks
  <1>5. Shaped([g EXCEPT !.blocks = blocks])
    <2>1. blocks \in Seq([code : Seq(C \cup D), phi : SUBSET (P \cup D)])
      BY <1>4 DEF T
    <2>. QED BY <1>1, <2>1, ShapedAgain
  <1>6. /\ [g EXCEPT !.blocks = blocks].blocks = blocks
        /\ [g EXCEPT !.blocks = blocks].cur = g.cur /\ [g EXCEPT !.blocks = blocks].begins = g.begins
    BY <1>1
  <1>. QED BY <1>4, <1>5, <1>6 DEF Alike, Size, blocks

LEMMA EmitAtShaped ==
  ASSUME NEW g, Shaped(g), NEW b \in 1 .. Size(g), NEW instr
  PROVE  /\ Alike(g, EmitAt(g, b, instr))
         /\ \A x \in 1 .. Size(g) : EmitAt(g, b, instr).blocks[x].phi = g.blocks[x].phi
         /\ EmitAt(g, b, instr).blocks[b].code = Append(g.blocks[b].code, instr)
         /\ \A x \in 1 .. Size(g) : x # b => EmitAt(g, b, instr).blocks[x].code = g.blocks[x].code
  <1> DEFINE r    == g.blocks[b]
             code == Append(g.blocks[b].code, instr)
             new  == [r EXCEPT !.code = code]
             h    == [g EXCEPT !.blocks = [g.blocks EXCEPT ![b] = new]]
  <1>1. EmitAt(g, b, instr) = h
    BY DEF EmitAt
  <1>2. r = [code |-> r.code, phi |-> r.phi] /\ r.code \in Seq(Members(r.code))
    BY ShapedParts
  <1> HIDE DEF r
  <1>3. new = [code |-> code, phi |-> r.phi]
    <2> HIDE DEF code
    <2>. QED BY <1>2
  <1>4. code \in Seq(Members(r.code) \cup {instr})
    <2>1. r.code \in Seq(Members(r.code) \cup {instr})
      BY <1>2, SeqMonotonic
    <2>. QED BY <2>1, AppendProperties DEF r
  <1> DEFINE D == (Members(r.code) \cup {instr}) \cup r.phi
  <1>5. PICK C, P, B : g \in [blocks : Seq([code : Seq(C), phi : SUBSET P]), cur : Int, begins : SUBSET B]
    BY DEF Shaped
  <1>6. r.phi \subseteq D /\ code \in Seq(D)
    BY <1>4, SeqMonotonic
  <1> HIDE DEF code, D
  <1>7. new \in [code : Seq(D), phi : SUBSET D]
    BY <1>3, <1>6
  <1>8. new.code = code /\ new.phi = r.phi
    BY <1>3
  <1> HIDE DEF new
  <1>9. Alike(g, h) /\ \A x \in 1 .. Size(g) : h.blocks[x] = IF x = b THEN new ELSE g.blocks[x]
    <2>1. IsChange(g, b, new, D)
      BY <1>7 DEF IsChange
    <2>. QED BY <2>1, BlockChanges
  <1> HIDE DEF h
  <1>. QED BY <1>1, <1>8, <1>9 DEF r, code

LEMMA AddIncomingShaped ==
  ASSUME NEW g, Shaped(g), NEW b \in 1 .. Size(g), NEW id, NEW v, NEW from
  PROVE  /\ Alike(g, AddIncoming(g, b, id, v, from))
         /\ \A x \in 1 .. Size(g) : AddIncoming(g, b, id, v, from).blocks[x].code = g.blocks[x].code
         /\ AddIncoming(g, b, id, v, from).blocks[b].phi = g.blocks[b].phi \cup {Incoming(id, v, from)}
         /\ \A x \in 1 .. Size(g) : x # b => AddIncoming(g, b, id, v, from).blocks[x].phi = g.blocks[x].phi
  <1> DEFINE r    == g.blocks[b]
             phi  == g.blocks[b].phi \cup {Incoming(id, v, from)}
             new  == [r EXCEPT !.phi = phi]
             h    == [g EXCEPT !.blocks = [g.blocks EXCEPT ![b] = new]]
  <1>1. AddIncoming(g, b, id, v, from) = h
    BY DEF AddIncoming, Incoming
  <1>2. r = [code |-> r.code, phi |-> r.phi] /\ r.code \in Seq(Members(r.code))
    BY ShapedParts
  <1> HIDE DEF r
  <1> DEFINE D == Members(r.code) \cup phi
  <1>6. phi \subseteq D /\ r.code \in Seq(D)
    BY <1>2, SeqMonotonic
  <1> HIDE DEF phi, D
  <1>3. new = [code |-> r.code, phi |-> phi]
    BY <1>2
  <1>7. new \in [code : Seq(D), phi : SUBSET D]
    BY <1>3, <1>6
  <1>8. new.code = r.code /\ new.phi = phi
    BY <1>3
  <1> HIDE DEF new
  <1>9. Alike(g, h) /\ \A x \in 1 .. Size(g) : h.blocks[x] = IF x = b THEN new ELSE g.blocks[x]
    <2>1. IsChange(g, b, new, D)
      BY <1>7 DEF IsChange
    <2>. QED BY <2>1, BlockChanges
  <1> HIDE DEF h
  <1>. QED BY <1>1, <1>8, <1>9 DEF r, phi

LEMMA MoveToShaped ==
  ASSUME NEW g, Shaped(g), NEW b \in Int
  PROVE  Shaped(MoveTo(g, b)) /\ MoveTo(g, b).blocks = g.blocks /\ MoveTo(g, b).cur = b /\ MoveTo(g, b).begins = g.begins
  <1>1. PICK C, P, B : g \in [blocks : Seq([code : Seq(C), phi : SUBSET P]), cur : Int, begins : SUBSET B]
    BY DEF Shaped
  <1>2. MoveTo(g, b) \in [blocks : Seq([code : Seq(C), phi : SUBSET P]), cur : Int, begins : SUBSET B]
    BY <1>1 DEF MoveTo
  <1>. QED BY <1>1, <1>2 DEF Shaped, MoveTo

LEMMA CreateShaped ==
  ASSUME NEW g, Shaped(g), NEW m \in Nat
  PROVE  /\ Shaped(Create(g, m)) /\ Size(Create(g, m)) = Size(g) + m
         /\ Create(g, m).cur = g.cur /\ Create(g, m).begins = g.begins
         /\ \A b \in 1 .. Size(g) : Create(g, m).blocks[b] = g.blocks[b]
         /\ \A b \in Size(g) + 1 .. Size(g) + m : Create(g, m).blocks[b] = [code |-> <<>>, phi |-> {}]
  <1>1. PICK C, P, B : g \in [blocks : Seq([code : Seq(C), phi : SUBSET P]), cur : Int, begins : SUBSET B]
    BY DEF Shaped
  <1> DEFINE new == [i \in 1 .. m |-> [code |-> <<>>, phi |-> {}]]
             S   == [code : Seq(C), phi : SUBSET P]
             k   == Size(g)
             blocks == g.blocks \o new
  <1>2. /\ new \in Seq(S) /\ Len(new) = m
        /\ \A i \in 1 .. m : new[i] = [code |-> <<>>, phi |-> {}]
    <2>1. [code |-> <<>>, phi |-> {}] \in S
      OBVIOUS
    <2> HIDE DEF S
    <2>2. new \in [1 .. m -> S] /\ DOMAIN new = 1 .. m
      BY <2>1
    <2>3. new \in Seq(S)
      BY <2>2, IsASeq
    <2>. QED BY <2>2, <2>3, LenProperties
  <1>3. g.blocks \in Seq(S) /\ Len(g.blocks) = k /\ k \in Nat
    BY <1>1, ShapedParts DEF Size
  <1> HIDE DEF new, S
  <1>4. /\ blocks \in Seq(S) /\ Len(blocks) = Len(g.blocks) + Len(new)
        /\ \A b \in 1 .. Len(g.blocks) + Len(new) :
             blocks[b] = IF b <= Len(g.blocks) THEN g.blocks[b] ELSE new[b - Len(g.blocks)]
    BY <1>2, <1>3, ConcatProperties
  <1>5. /\ blocks \in Seq(S) /\ Len(blocks) = k + m
        /\ \A b \in 1 .. k + m : blocks[b] = IF b <= k THEN g.blocks[b] ELSE new[b - k]
    BY <1>2, <1>3, <1>4
  <1> HIDE DEF blocks
  <1>6. Create(g, m) = [g EXCEPT !.blocks = blocks]
    BY DEF Create, new, blocks
  <1>7. Shaped(Create(g, m))
    <2>1. [g EXCEPT !.blocks = blocks] \in [blocks : Seq([code : Seq(C), phi : SUBSET P]), cur : Int, begins : SUBSET B]
      BY <1>1, <1>5 DEF S
    <2>. QED BY <1>6, <2>1 DEF Shaped
  <1>8. Create(g, m).blocks = blocks /\ Create(g, m).cur = g.cur /\ Create(g, m).begins = g.begins
    BY <1>1, <1>6
  <1> HIDE DEF k
  <1>9. \A b \in 1 .. k : b \in 1 .. k + m /\ b <= k
    BY <1>3
  <1>10. \A b \in k + 1 .. k + m : b \in 1 .. k + m /\ ~(b <= k) /\ b - k \in 1 .. m
    BY <1>3
  <1>11. Size(Create(g, m)) = k + m
    BY <1>5, <1>8 DEF Size
  <1>. QED BY <1>2, <1>5, <1>7, <1>8, <1>9, <1>10, <1>11 DEF k

LEMMA LangCallIs ==
  ASSUME NEW g, NEW id, NEW args
  PROVE  \/ \E instr : ~IsEnd(instr) /\ LangCall(g, id, args) = EmitAt(g, g.cur, instr)
         \/ \E instr : /\ IsEnd(instr) /\ instr.op = "invoke" /\ instr.id = id /\ handlers # <<>>
                       /\ instr.targets = <<Size(g) + 1>> /\ instr.unwind = Last(handlers)
                       /\ LangCall(g, id, args) = MoveTo(EmitAt(Create(g, 1), Create(g, 1).cur, instr), Size(g) + 1)
  <1>1. CASE handlers = <<>>
    <2>1. ~IsEnd(Instr("call", id, args))
      BY DEF IsEnd, Instr, EndOps
    <2>. QED BY <1>1, <2>1 DEF LangCall, Emit
  <1>2. CASE handlers # <<>>
    <2> DEFINE k == Size(g)
               pad == Last(handlers)
               instr == Invoke(id, args, k + 1, pad)
    <2>1. LangCall(g, id, args) = MoveTo(EmitAt(Create(g, 1), Create(g, 1).cur, instr), k + 1)
      BY <1>2 DEF LangCall, Emit
    <2> HIDE DEF k, pad
    <2>2. IsEnd(instr) /\ instr.op = "invoke" /\ instr.id = id /\ instr.targets = <<k + 1>> /\ instr.unwind = pad
      BY DEF IsEnd, Instr, Invoke, EndOps
    <2> HIDE DEF instr
    <2>. QED BY <1>2, <2>1, <2>2 DEF k, pad
  <1>. QED BY <1>1, <1>2

-----------------------------------------------------------------------------
(* The blocks that have no end yet.                                        *)

\* Where a block ends; what codegenReturn generates is not counted, as nothing stops there.
EndsAt(code) == {i \in DOMAIN code : IsEnd(code[i]) /\ code[i].op # "return"}
Ends(instr)  == IsEnd(instr) /\ instr.op # "return"
Ongoing(g)   == {b \in 1 .. Size(g) : EndsAt(g.blocks[b].code) = {}}

\* The graph has k blocks, those of S have no end and the others end once, with their last
\* instruction; the insertion point is c.
Stands(g, k, S, c) ==
  /\ Shaped(g) /\ Size(g) = k /\ Ongoing(g) = S /\ g.cur = c
  /\ \A b \in (1 .. k) \ S : EndsAt(g.blocks[b].code) = {Len(g.blocks[b].code)}

LEMMA AppendEnds ==
  ASSUME NEW S, NEW code \in Seq(S), NEW instr
  PROVE  /\ EndsAt(Append(code, instr)) = EndsAt(code) \cup (IF Ends(instr) THEN {Len(code) + 1} ELSE {})
         /\ Len(Append(code, instr)) = Len(code) + 1
  <1>1. PICK l \in Nat : l = Len(code) /\ DOMAIN code = 1 .. l
    OBVIOUS
  <1>2. /\ DOMAIN Append(code, instr) = 1 .. l + 1 /\ Append(code, instr)[l + 1] = instr
        /\ \A i \in 1 .. l : Append(code, instr)[i] = code[i] /\ i # l + 1
        /\ Len(Append(code, instr)) = l + 1
    BY <1>1
  <1>3. \A i \in 1 .. l + 1 : i \in 1 .. l \/ i = l + 1
    OBVIOUS
  <1>4. \A i \in 1 .. l : i \in 1 .. l + 1
    OBVIOUS
  <1>5. l + 1 \in 1 .. l + 1
    OBVIOUS
  <1> DEFINE new == Append(code, instr)
  <1> HIDE DEF new
  <1>6. /\ DOMAIN new = 1 .. l + 1 /\ new[l + 1] = instr
        /\ \A i \in 1 .. l : new[i] = code[i] /\ i # l + 1
    BY <1>2 DEF new
  <1>7. EndsAt(new) = EndsAt(code) \cup (IF Ends(instr) THEN {l + 1} ELSE {})
    BY <1>1, <1>3, <1>4, <1>5, <1>6 DEF EndsAt, Ends
  <1>. QED BY <1>1, <1>2, <1>7 DEF new

\* An instruction is added to a block that has no end.
LEMMA StandsEmitAt ==
  ASSUME NEW g, NEW k, NEW S, NEW c, Stands(g, k, S, c), NEW b \in S, NEW instr
  PROVE  Stands(EmitAt(g, b, instr), k, IF Ends(instr) THEN S \ {b} ELSE S, c)
  <1> DEFINE h == EmitAt(g, b, instr)
  <1>1. Shaped(g) /\ b \in 1 .. Size(g) /\ EndsAt(g.blocks[b].code) = {} /\ Size(g) = k
    BY DEF Stands, Ongoing
  <1>2. /\ Alike(g, h) /\ h.blocks[b].code = Append(g.blocks[b].code, instr)
        /\ \A x \in 1 .. Size(g) : x # b => h.blocks[x].code = g.blocks[x].code
    BY <1>1, EmitAtShaped
  <1> HIDE DEF h
  <1>3. /\ EndsAt(h.blocks[b].code) = IF Ends(instr) THEN {Len(g.blocks[b].code) + 1} ELSE {}
        /\ Len(h.blocks[b].code) = Len(g.blocks[b].code) + 1
    <2>1. g.blocks[b].code \in Seq(Members(g.blocks[b].code))
      BY <1>1, ShapedParts
    <2>. QED BY <1>1, <1>2, <2>1, AppendEnds
  <1>4. CASE Ends(instr)
    <2>1. EndsAt(h.blocks[b].code) = {Len(h.blocks[b].code)}
      BY <1>3, <1>4
    <2>2. Ongoing(h) = S \ {b}
      BY <1>1, <1>2, <2>1 DEF Stands, Ongoing, Alike
    <2>. QED BY <1>1, <1>2, <1>4, <2>1, <2>2 DEF Stands, Alike, h
  <1>5. CASE ~Ends(instr)
    <2>2. Ongoing(h) = S
      BY <1>1, <1>2, <1>3, <1>5 DEF Stands, Ongoing, Alike
    <2>. QED BY <1>1, <1>2, <1>5, <2>2 DEF Stands, Alike, h
  <1>. QED BY <1>4, <1>5

\* New blocks have no end.
LEMMA StandsCreate ==
  ASSUME NEW g, NEW k, NEW S, NEW c, Stands(g, k, S, c), NEW m \in Nat
  PROVE  Stands(Create(g, m), k + m, S \cup (k + 1 .. k + m), c)
  <1> DEFINE h == Create(g, m)
  <1>1. Shaped(g) /\ Size(g) = k /\ k \in Nat
    BY ShapedParts DEF Stands
  <1>2. /\ Shaped(h) /\ Size(h) = k + m /\ h.cur = g.cur
        /\ \A b \in 1 .. k : h.blocks[b] = g.blocks[b]
        /\ \A b \in k + 1 .. k + m : h.blocks[b] = [code |-> <<>>, phi |-> {}]
    <2>1. /\ Shaped(h) /\ Size(h) = Size(g) + m /\ h.cur = g.cur
          /\ \A b \in 1 .. Size(g) : h.blocks[b] = g.blocks[b]
          /\ \A b \in Size(g) + 1 .. Size(g) + m : h.blocks[b] = [code |-> <<>>, phi |-> {}]
      <3>1. m \in Nat /\ Shaped(g)
        BY <1>1
      <3>2. Shaped(h) /\ Size(h) = Size(g) + m /\ h.cur = g.cur
        BY <3>1, CreateShaped
      <3>3. \A b \in 1 .. Size(g) : h.blocks[b] = g.blocks[b]
        BY <3>1, CreateShaped
      <3>4. \A b \in Size(g) + 1 .. Size(g) + m : h.blocks[b] = [code |-> <<>>, phi |-> {}]
        BY <3>1, CreateShaped
      <3>. QED BY <3>2, <3>3, <3>4
    <2>. QED BY <1>1, <2>1
  <1> HIDE DEF h
  <1>3. ASSUME NEW b \in k + 1 .. k + m PROVE EndsAt(h.blocks[b].code) = {}
    <2>1. h.blocks[b].code = <<>>
      BY <1>2
    <2>. QED BY <2>1 DEF EndsAt
  <1>4. 1 .. k + m = (1 .. k) \cup (k + 1 .. k + m)
    BY <1>1
  <1>5. Ongoing(h) = S \cup (k + 1 .. k + m)
    BY <1>1, <1>2, <1>3, <1>4 DEF Ongoing, Stands
  <1>6. \A b \in (1 .. k + m) \ (S \cup (k + 1 .. k + m)) : EndsAt(h.blocks[b].code) = {Len(h.blocks[b].code)}
    BY <1>2, <1>4 DEF Stands
  <1>. QED BY <1>2, <1>5, <1>6 DEF Stands, h

LEMMA StandsMoveTo ==
  ASSUME NEW g, NEW k, NEW S, NEW c, Stands(g, k, S, c), NEW b \in Int
  PROVE  Stands(MoveTo(g, b), k, S, b)
  <1> DEFINE h == MoveTo(g, b)
  <1>1. Shaped(h) /\ h.blocks = g.blocks /\ h.cur = b
    BY MoveToShaped DEF Stands
  <1> HIDE DEF h
  <1>. QED BY <1>1 DEF Stands, Ongoing, Size, h

LEMMA StandsAddIncoming ==
  ASSUME NEW g, NEW k, NEW S, NEW c, Stands(g, k, S, c), NEW b \in 1 .. k, NEW id, NEW v, NEW from
  PROVE  Stands(AddIncoming(g, b, id, v, from), k, S, c)
  <1> DEFINE h == AddIncoming(g, b, id, v, from)
  <1>1. Alike(g, h) /\ \A x \in 1 .. k : h.blocks[x].code = g.blocks[x].code
    BY AddIncomingShaped DEF Stands
  <1> HIDE DEF h
  <1>. QED BY <1>1 DEF Stands, Ongoing, Alike, h

\* A call goes on where it left off, in the block of the call or in a new one.
GoesOn(h, k, S, c, l, d) ==
  /\ Stands(h, l, (S \ {c}) \cup {d}, d)
  /\ d \in 1 .. l /\ k <= l /\ l \in Nat /\ (d = c \/ k < d)
LEMMA StandsLangCall ==
  ASSUME NEW g, NEW k, NEW S, NEW c, Stands(g, k, S, c), c \in S, NEW id, NEW args
  PROVE  \E l, d : GoesOn(LangCall(g, id, args), k, S, c, l, d)
  <1>1. k \in Nat /\ S \subseteq 1 .. k /\ g.cur = c /\ Size(g) = k
    BY ShapedParts DEF Stands, Ongoing
  <1> DEFINE h == LangCall(g, id, args)
  <1>4. \/ \E instr : ~IsEnd(instr) /\ h = EmitAt(g, g.cur, instr)
        \/ \E instr : /\ IsEnd(instr) /\ instr.op = "invoke"
                      /\ h = MoveTo(EmitAt(Create(g, 1), Create(g, 1).cur, instr), Size(g) + 1)
    BY LangCallIs
  <1> HIDE DEF h
  <1>2. CASE \E instr : ~IsEnd(instr) /\ h = EmitAt(g, g.cur, instr)
    <2>1. PICK instr : ~Ends(instr) /\ h = EmitAt(g, c, instr)
      BY <1>1, <1>2 DEF Ends
    <2>2. Stands(h, k, S, c) /\ S = (S \ {c}) \cup {c}
      BY <2>1, StandsEmitAt
    <2>3. c \in 1 .. k /\ k <= k /\ k \in Nat
      BY <1>1
    <2>4. GoesOn(h, k, S, c, k, c)
      BY <2>2, <2>3 DEF GoesOn
    <2>. QED BY <2>4 DEF h
  <1>3. CASE \E instr : /\ IsEnd(instr) /\ instr.op = "invoke"
                        /\ h = MoveTo(EmitAt(Create(g, 1), Create(g, 1).cur, instr), Size(g) + 1)
    <2>1. PICK instr : Ends(instr) /\ h = MoveTo(EmitAt(Create(g, 1), Create(g, 1).cur, instr), k + 1)
      BY <1>1, <1>3 DEF Ends
    <2> DEFINE g1 == Create(g, 1)
    <2>2. Stands(g1, k + 1, S \cup (k + 1 .. k + 1), c) /\ k + 1 .. k + 1 = {k + 1}
      BY <1>1, StandsCreate
    <2>3. g1.cur = c
      BY <2>2 DEF Stands
    <2> HIDE DEF g1
    <2> DEFINE g2 == EmitAt(g1, c, instr)
    <2>4. Stands(g2, k + 1, (S \cup {k + 1}) \ {c}, c)
      BY <2>1, <2>2, StandsEmitAt
    <2> HIDE DEF g2
    <2>5. Stands(MoveTo(g2, k + 1), k + 1, (S \cup {k + 1}) \ {c}, k + 1)
      BY <1>1, <2>4, StandsMoveTo
    <2>6. (S \cup {k + 1}) \ {c} = (S \ {c}) \cup {k + 1}
      BY <1>1
    <2>7. Stands(h, k + 1, (S \ {c}) \cup {k + 1}, k + 1)
      BY <2>1, <2>3, <2>5, <2>6 DEF g1, g2
    <2>8. k + 1 \in 1 .. k + 1 /\ k < k + 1 /\ k <= k + 1 /\ k + 1 \in Nat
      BY <1>1
    <2>9. GoesOn(h, k, S, c, k + 1, k + 1)
      BY <2>7, <2>8 DEF GoesOn
    <2>. QED BY <2>9 DEF h
  <1>. QED BY <1>2, <1>3, <1>4 DEF h

-----------------------------------------------------------------------------
(* The blocks that the functions on the stack come back to.                *)

\* The blocks that a function has created, and that it has kept.
Own(f)      == IF HasBlocks(f) THEN {f.base + 1, f.base + 2, f.base + 3} ELSE {}
Recorded(f) == Own(f) \cup (IF Rescuing(f) THEN {f.from, f.handler} ELSE {})

\* Those that it has still to come to.
Pending(f) ==
  CASE f.op = "if" /\ f.part = "true"  -> {f.base + 1, f.base + 3}
    [] f.op = "if" /\ f.part = "false" -> {f.base + 1}
    [] f.op = "while" /\ f.part = "body" -> {f.base + 2, f.base + 3}
    [] f.op = "while" /\ f.part = "condition" -> {f.base + 3}
    [] f.op = "begin" /\ f.part = "main" -> {f.base + 1, f.base + 2, f.base + 3}
    [] f.op = "begin" /\ f.part = "ensure" -> {f.base + 1, f.base + 3}
    [] f.op = "begin" /\ f.part \in {"rescue", "class"} -> {f.from}
    [] f.op = "begin" /\ f.part = "clause" -> IF f.optional THEN {f.from} ELSE {f.from, f.handler}
    [] OTHER -> {}
PendingIn(s) == UNION {Pending(s[i]) : i \in DOMAIN s}

\* A rescue for any exception is the last one of its begin: with another one after it that
\* would go on in a handler that has ended.
AnyIsLast(rescues) == \A i \in DOMAIN rescues : rescues[i].class = "any" => i = Len(rescues)
AnyComesLast == \A rescues \in RescueLists : AnyIsLast(rescues)

\* After such a rescue nothing is generated until the begin ends.
Idle(f)  == f.op = "begin" /\ f.part = "rescue" /\ f.optional
Idles(s) == s # <<>> /\ Idle(Last(s))

RescuesOK(f) ==
  f.op = "begin" =>
    /\ AnyIsLast(f.rescues)
    /\ Rescuing(f) => f.from # f.handler
    /\ f.part = "rescue" /\ f.optional => f.rescues = <<>>
    /\ f.part = "clause" => f.rescues # <<>> /\ (f.optional <=> f.rescues[1].class = "any")
    /\ f.part = "class" => ~f.optional

\* The blocks of a function are younger than those of the functions that it is a part of.
Under(s, f) ==
  /\ \A i \in DOMAIN s : RescuesOK(s[i])
  /\ \A i, j \in DOMAIN s : i < j /\ HasBlocks(s[j]) => \A b \in Recorded(s[i]) : b <= s[j].base
  /\ HasBlocks(f) => \A i \in DOMAIN s : \A b \in Recorded(s[i]) : b <= f.base
Nested(s) ==
  /\ \A i \in DOMAIN s : RescuesOK(s[i])
  /\ \A i, j \in DOMAIN s : i < j /\ HasBlocks(s[j]) => \A b \in Recorded(s[i]) : b <= s[j].base

\* The blocks without an end are those, and the one that is generated.
FlowIs(g, s) ==
  /\ Nested(s)
  /\ IF Idles(s) THEN Stands(g, Size(g), PendingIn(s), g.cur)
     ELSE g.cur \notin PendingIn(s) /\ Stands(g, Size(g), PendingIn(s) \cup {g.cur}, g.cur)
Flow ==
  /\ Active => FlowIs(graph, open)
  /\ Finished => Stands(graph, Size(graph), {}, graph.cur)

LEMMA PendingParts ==
  ASSUME NEW f
  PROVE  /\ ~HasBlocks(f) => Pending(f) = {}
         /\ Pending(f) \subseteq Recorded(f)
  <1>1. CASE f.op = "if"
    BY <1>1 DEF HasBlocks, Pending, Recorded, Own
  <1>2. CASE f.op = "while"
    BY <1>2 DEF HasBlocks, Pending, Recorded, Own
  <1>3. CASE f.op = "begin"
    BY <1>3 DEF HasBlocks, Pending, Recorded, Own, Rescuing
  <1>4. CASE f.op \notin {"if", "while", "begin"}
    BY <1>4 DEF HasBlocks, Pending, Recorded, Own
  <1>. QED BY <1>1, <1>2, <1>3, <1>4

LEMMA RecordedParts ==
  ASSUME NEW k \in Nat, NEW n, NEW f, FrameOK(f, k, n)
  PROVE  Recorded(f) \subseteq 1 .. k
  <1>1. f.base \in Int
    BY DEF FrameOK, FramesOf
  <1>2. HasBlocks(f) => Own(f) \subseteq 1 .. k
    BY <1>1 DEF FrameOK, Own
  <1>3. Rescuing(f) => f.from \in 1 .. k /\ f.handler \in 1 .. k
    <2>1. Rescuing(f) => f.base >= 1 /\ f.from \in f.base + 4 .. k /\ f.handler \in f.base + 4 .. k
      BY DEF FrameOK, Rescuing, HasBlocks
    <2>. QED BY <1>1, <2>1
  <1>. QED BY <1>2, <1>3 DEF Recorded, Own

\* A function is pushed on a stack.
LEMMA NestedAppend ==
  ASSUME NEW S, NEW s \in Seq(S), NEW f, Under(s, f), RescuesOK(f)
  PROVE  /\ Nested(Append(s, f)) /\ PendingIn(Append(s, f)) = PendingIn(s) \cup Pending(f)
         /\ Idles(Append(s, f)) <=> Idle(f)
  <1> DEFINE new == Append(s, f)
  <1>1. PICK top \in Nat : top = Len(s) /\ DOMAIN s = 1 .. top
    OBVIOUS
  <1>2. /\ DOMAIN new = 1 .. top + 1 /\ new[top + 1] = f /\ Len(new) = top + 1 /\ new # <<>>
        /\ \A i \in 1 .. top : new[i] = s[i]
    BY <1>1
  <1> HIDE DEF new
  <1>3. \A i \in 1 .. top + 1 : (i \in 1 .. top /\ i < top + 1) \/ i = top + 1
    OBVIOUS
  <1>4. \A i \in 1 .. top : i \in 1 .. top + 1 /\ ~(top + 1 < i)
    OBVIOUS
  <1>5. top + 1 \in 1 .. top + 1 /\ ~(top + 1 < top + 1)
    OBVIOUS
  <1>6. PendingIn(new) = PendingIn(s) \cup Pending(f)
    BY <1>1, <1>2, <1>3, <1>4, <1>5 DEF PendingIn
  <1>7. \A i \in DOMAIN new : RescuesOK(new[i])
    BY <1>1, <1>2, <1>3 DEF Under
  <1>8. ASSUME NEW i \in DOMAIN new, NEW j \in DOMAIN new, i < j, HasBlocks(new[j]), NEW b \in Recorded(new[i])
        PROVE  b <= new[j].base
    <2>1. i \in 1 .. top /\ new[i] = s[i]
      BY <1>2, <1>3, <1>4, <1>5, <1>8
    <2>2. CASE j \in 1 .. top
      BY <1>1, <1>2, <1>8, <2>1, <2>2 DEF Under
    <2>3. CASE j = top + 1
      BY <1>1, <1>2, <1>8, <2>1, <2>3 DEF Under
    <2>. QED BY <1>2, <1>3, <2>2, <2>3
  <1>9. Idles(new) <=> Idle(f)
    BY <1>2 DEF Idles, Last
  <1>. QED BY <1>6, <1>7, <1>8, <1>9 DEF Nested, new

\* The stack without its top, and what can be put on it and on the whole of it.
LEMMA NestedTop ==
  ASSUME Typed, Nested(open), NEW f
  PROVE  /\ ~HasBlocks(f) \/ f.base = Size(graph) => Under(open, f)
         /\ open # <<>> =>
              /\ PendingIn(open) = PendingIn(Below) \cup Pending(Top) /\ RescuesOK(Top)
              /\ Nested(Below) /\ ~Idles(Below)
              /\ HasBlocks(Top) => \A b \in PendingIn(Below) : b <= Top.base
              /\ \/ ~HasBlocks(f) \/ f.base = Size(graph)
                 \/ HasBlocks(Top) /\ f.base = Top.base
                 => Under(Below, f)
  <1>1. PICK top \in Nat :
           /\ DOMAIN open = 1 .. top
           /\ open # <<>> =>
                /\ top >= 1 /\ Top = open[top]
                /\ DOMAIN Below = 1 .. top - 1 /\ \A i \in 1 .. top - 1 : Below[i] = open[i]
    BY StackDomains
  <1>2. \A i \in 1 .. top : \A b \in Recorded(open[i]) : b <= Size(graph)
    <2>1. \A i \in 1 .. top : FrameOK(open[i], Size(graph), Len(program)) /\ Size(graph) \in Nat
      BY <1>1, TypedParts DEF Typed
    <2>2. \A i \in 1 .. top : Recorded(open[i]) \subseteq 1 .. Size(graph)
      BY <2>1, RecordedParts
    <2>. QED BY <2>2
  <1>3. ~HasBlocks(f) \/ f.base = Size(graph) => Under(open, f)
    BY <1>1, <1>2 DEF Under, Nested
  <1>4. ASSUME open # <<>>
        PROVE  /\ PendingIn(open) = PendingIn(Below) \cup Pending(Top) /\ RescuesOK(Top)
               /\ Nested(Below) /\ ~Idles(Below)
               /\ HasBlocks(Top) => \A b \in PendingIn(Below) : b <= Top.base
               /\ \/ ~HasBlocks(f) \/ f.base = Size(graph)
                  \/ HasBlocks(Top) /\ f.base = Top.base
                  => Under(Below, f)
    <2>1. /\ top >= 1 /\ Top = open[top]
          /\ DOMAIN Below = 1 .. top - 1 /\ \A i \in 1 .. top - 1 : Below[i] = open[i]
      BY <1>1, <1>4
    <2>2. \A i \in 1 .. top : (i \in 1 .. top - 1 /\ i < top) \/ i = top
      OBVIOUS
    <2>3. \A i \in 1 .. top - 1 : i \in 1 .. top /\ i < top
      OBVIOUS
    <2>4. top \in 1 .. top
      BY <2>1
    <2>5. PendingIn(open) = PendingIn(Below) \cup Pending(Top)
      BY <1>1, <2>1, <2>2, <2>3, <2>4 DEF PendingIn
    <2>6. Nested(Below) /\ RescuesOK(Top)
      BY <1>1, <2>1, <2>3, <2>4 DEF Nested
    <2>7. HasBlocks(Top) => \A i \in 1 .. top - 1 : \A b \in Recorded(Below[i]) : b <= Top.base
      BY <1>1, <2>1, <2>3, <2>4 DEF Nested
    <2>8. HasBlocks(Top) => \A b \in PendingIn(Below) : b <= Top.base
      <3>1. \A i \in 1 .. top - 1 : Pending(Below[i]) \subseteq Recorded(Below[i])
        BY PendingParts
      <3>. QED BY <2>1, <2>7, <3>1 DEF PendingIn
    <2>9. \A i \in 1 .. top - 1 : \A b \in Recorded(Below[i]) : b <= Size(graph)
      BY <1>2, <2>1, <2>3
    <2>10. \/ ~HasBlocks(f) \/ f.base = Size(graph)
           \/ HasBlocks(Top) /\ f.base = Top.base
           => Under(Below, f)
      BY <2>1, <2>6, <2>7, <2>9 DEF Under, Nested
    <2>11. ~Idles(Below)
      <3>1. \A i \in 1 .. Len(open) - 1 : ~(open[i].op = "begin" /\ open[i].part = "rescue")
        BY DEF Typed, StackOK
      <3>2. open \in Seq(FramesOf(Len(program)))
        BY DEF Typed
      <3>3. Len(open) = top /\ Len(Below) = top - 1
        BY <1>4, <3>2, <1>1, StackChanges
      <3>4. CASE Below = <<>>
        BY <3>4 DEF Idles
      <3>5. CASE Below # <<>>
        <4>1. Below \in Seq(FramesOf(Len(program)))
          BY <1>4, <3>2, StackChanges
        <4>2. top - 1 \in 1 .. top - 1
          BY <3>3, <3>5, <4>1, EmptySeq
        <4>3. Last(Below) = open[top - 1]
          BY <2>1, <3>3, <4>2 DEF Last
        <4>. QED BY <3>1, <3>3, <4>2, <4>3 DEF Idles, Idle
      <3>. QED BY <3>4, <3>5
    <2>. QED BY <2>5, <2>6, <2>8, <2>10, <2>11
  <1>. QED BY <1>3, <1>4

-----------------------------------------------------------------------------
(* The steps that open no block of their own.                              *)

LEMMA FlowPushes ==
  ASSUME NEW S, NEW s \in Seq(S), NEW f, Under(s, f), RescuesOK(f), ~Idle(f),
         NEW g, NEW k, NEW c, Stands(g, k, (PendingIn(s) \cup Pending(f)) \cup {c}, c),
         c \notin PendingIn(s) \cup Pending(f)
  PROVE  FlowIs(g, Append(s, f))
  <1>1. /\ Nested(Append(s, f)) /\ PendingIn(Append(s, f)) = PendingIn(s) \cup Pending(f)
        /\ ~Idles(Append(s, f))
    BY NestedAppend
  <1>2. Size(g) = k /\ g.cur = c
    BY DEF Stands
  <1>. QED BY <1>1, <1>2 DEF FlowIs

LEMMA FlowPops ==
  ASSUME NEW s, Nested(s), ~Idles(s), NEW g, NEW k, NEW c,
         Stands(g, k, PendingIn(s) \cup {c}, c), c \notin PendingIn(s)
  PROVE  FlowIs(g, s)
  <1>1. Size(g) = k /\ g.cur = c
    BY DEF Stands
  <1>. QED BY <1>1 DEF FlowIs

\* What is generated goes on in one block, and all that is left open beside it are those of
\* S; here, the blocks that the functions on the stack come back to.
Leads(g, S) == \E l, d : Stands(g, l, S \cup {d}, d) /\ d \notin S
GoesOnIn(g, l, d) == Stands(g, l, PendingIn(open) \cup {d}, d) /\ d \notin PendingIn(open)
Goes(g) == Leads(g, PendingIn(open))

LEMMA Standing ==
  ASSUME Typed, Flow, Active, ~Idles(open)
  PROVE  /\ GoesOnIn(graph, Size(graph), graph.cur) /\ Goes(graph)
         /\ PendingIn(open) \subseteq 1 .. Size(graph) /\ Nested(open)
  <1>1. GoesOnIn(graph, Size(graph), graph.cur) /\ Nested(open)
    BY DEF Flow, FlowIs, GoesOnIn
  <1>2. PendingIn(open) \subseteq 1 .. Size(graph)
    BY <1>1 DEF GoesOnIn, Stands, Ongoing
  <1>. QED BY <1>1, <1>2 DEF Goes, Leads, GoesOnIn

LEMMA NotIdle ==
  ASSUME Typed
  PROVE  /\ mode = "statement" \/ mode = "body" => ~Idles(open)
         /\ open # <<>> => (Idles(open) <=> Idle(Top))
         /\ open = <<>> => ~Idles(open)
  <1>1. open # <<>> => (Idles(open) <=> Idle(Top))
    BY DEF Idles, Top
  <1>2. open = <<>> => ~Idles(open)
    BY DEF Idles
  <1>3. mode = "statement" \/ mode = "body" => open # <<>> /\ ~Idle(Top)
    BY DEF Typed, StackOK, IsBody, Idle
  <1>. QED BY <1>1, <1>2, <1>3

LEMMA LeadsEmit ==
  ASSUME NEW g, NEW S, Leads(g, S), NEW instr, ~Ends(instr)
  PROVE  Leads(Emit(g, instr), S)
  <1>1. PICK l, d : Stands(g, l, S \cup {d}, d) /\ d \notin S
    BY DEF Leads
  <1>2. g.cur = d /\ d \in S \cup {d}
    BY <1>1 DEF Stands
  <1>3. Stands(Emit(g, instr), l, S \cup {d}, d)
    BY <1>1, <1>2, StandsEmitAt DEF Emit
  <1>. QED BY <1>1, <1>3 DEF Leads

LEMMA LeadsLangCall ==
  ASSUME NEW g, NEW S, Leads(g, S), NEW id, NEW args
  PROVE  Leads(LangCall(g, id, args), S)
  <1>1. PICK k, c : Stands(g, k, S \cup {c}, c) /\ c \notin S
    BY DEF Leads
  <1> DEFINE T == S \cup {c}
             h == LangCall(g, id, args)
  <1>2. c \in T /\ T \ {c} = S /\ Stands(g, k, T, c)
    BY <1>1
  <1> HIDE DEF T
  <1>3. k \in Nat /\ T \subseteq 1 .. k
    BY <1>2, ShapedParts DEF Stands, Ongoing
  <1>4. PICK l, d : GoesOn(h, k, T, c, l, d)
    BY <1>2, StandsLangCall
  <1> HIDE DEF h
  <1>5. Stands(h, l, S \cup {d}, d) /\ (d = c \/ k < d)
    BY <1>2, <1>4 DEF GoesOn
  <1>6. d \notin S
    <2>1. CASE d = c
      BY <1>1, <2>1
    <2>2. CASE k < d
      <3>1. S \subseteq 1 .. k
        BY <1>2, <1>3
      <3>2. \A b \in 1 .. k : ~(k < b)
        BY <1>3
      <3>. QED BY <2>2, <3>1, <3>2
    <2>. QED BY <1>5, <2>1, <2>2
  <1>. QED BY <1>5, <1>6 DEF Leads, h

LEMMA GoesEmit ==
  ASSUME NEW g, Goes(g), NEW instr, ~IsEnd(instr) \/ instr.op = "return"
  PROVE  Goes(Emit(g, instr))
BY LeadsEmit DEF Goes, Ends

LEMMA GoesLangCall ==
  ASSUME NEW g, Goes(g), NEW id, NEW args
  PROVE  Goes(LangCall(g, id, args))
BY LeadsLangCall DEF Goes

\* The stack as it was, but for a function without blocks.
KeepsBlocks ==
  \/ open' = open
  \/ open # <<>> /\ ~HasBlocks(Top) /\ open' = Below
  \/ \E f : ~HasBlocks(f) /\ open' = Append(open, f)
  \/ \E f : open # <<>> /\ ~HasBlocks(Top) /\ ~HasBlocks(f) /\ open' = Append(Below, f)

LEMMA FlowKept ==
  ASSUME Typed, Flow, Active, ~Idles(open), Goes(graph'), KeepsBlocks, mode' # "finished"
  PROVE  Flow'
  <1>1. PICK l, d : GoesOnIn(graph', l, d)
    BY DEF Goes, Leads, GoesOnIn
  <1>2. Stands(graph', l, PendingIn(open) \cup {d}, d) /\ d \notin PendingIn(open) /\ Nested(open)
    BY <1>1, Standing DEF GoesOnIn
  <1>3. open \in Seq(FramesOf(Len(program))) /\ (open # <<>> => Below \in Seq(FramesOf(Len(program))))
    BY StackChanges DEF Typed
  <1>4. ASSUME NEW f, ~HasBlocks(f) PROVE RescuesOK(f) /\ ~Idle(f) /\ Pending(f) = {}
    BY <1>4, PendingParts DEF RescuesOK, Idle, HasBlocks
  <1>5. CASE open' = open
    BY <1>2, <1>5, FlowPops DEF Flow, Finished
  <1>6. CASE open # <<>> /\ ~HasBlocks(Top) /\ open' = Below
    <2>1. PendingIn(Below) = PendingIn(open) /\ Nested(Below) /\ ~Idles(Below)
      BY <1>2, <1>4, <1>6, NestedTop
    <2>2. FlowIs(graph', Below)
      BY <1>2, <2>1, FlowPops
    <2>. QED BY <1>6, <2>2 DEF Flow, Finished
  <1>7. ASSUME NEW f, ~HasBlocks(f), open' = Append(open, f)
        PROVE  Flow'
    <2>1. Under(open, f) /\ PendingIn(open) \cup Pending(f) = PendingIn(open)
      BY <1>2, <1>4, <1>7, NestedTop
    <2>2. FlowIs(graph', Append(open, f))
      BY <1>2, <1>3, <1>4, <1>7, <2>1, FlowPushes
    <2>. QED BY <1>7, <2>2 DEF Flow, Finished
  <1>8. ASSUME NEW f, open # <<>>, ~HasBlocks(Top), ~HasBlocks(f), open' = Append(Below, f)
        PROVE  Flow'
    <2>1. Under(Below, f) /\ PendingIn(Below) \cup Pending(f) = PendingIn(open)
      BY <1>2, <1>4, <1>8, NestedTop
    <2>2. FlowIs(graph', Append(Below, f))
      BY <1>2, <1>3, <1>4, <1>8, <2>1, FlowPushes
    <2>. QED BY <1>8, <2>2 DEF Flow, Finished
  <1>. QED BY <1>5, <1>6, <1>7, <1>8 DEF KeepsBlocks

LEMMA FlowCrashes == mode' \in {"crashed", "undefined"} => Flow'
BY DEF Flow, Active, Finished

\* An instruction that leaves its block as it is, or a return, behind which nothing stops; and
\* what a function may do with them that opens no block of its own.
Quiet(instr)    == ~IsEnd(instr) \/ (instr.op = "return" /\ instr.targets = <<>> /\ instr.unwind = 0)
Emits(g, h)     == h = g \/ \E instr : Quiet(instr) /\ h = Emit(g, instr)
Calls(g, h)     == \E id, args : h = LangCall(g, id, args)
Continues(g, h) == Emits(g, h) \/ \E between : Calls(g, between) /\ (Emits(between, h) \/ Calls(between, h))

LEMMA QuietInstrs ==
  ASSUME NEW id, NEW args
  PROVE  /\ \A op \in {"load", "store", "alloca", "landingpad"} : Quiet(Instr(op, id, args))
         /\ Quiet(To("return", args, <<>>))
  <1>1. \A op \in {"load", "store", "alloca", "landingpad"} : Instr(op, id, args).op = op
    BY DEF Instr
  <1>2. /\ To("return", args, <<>>).op = "return" /\ To("return", args, <<>>).targets = <<>>
        /\ To("return", args, <<>>).unwind = 0
    BY DEF To, Instr
  <1>. QED BY <1>1, <1>2 DEF Quiet, IsEnd, EndOps

LEMMA Continuing ==
  ASSUME NEW g
  PROVE  /\ Continues(g, g)
         /\ \A instr : Quiet(instr) => Continues(g, Emit(g, instr))
         /\ \A id, args : Continues(g, LangCall(g, id, args))
         /\ \A id, args, instr : Quiet(instr) => Continues(g, Emit(LangCall(g, id, args), instr))
         /\ \A id, args, id2, args2 : Continues(g, LangCall(LangCall(g, id, args), id2, args2))
BY DEF Continues, Emits, Calls

\* A step that opens no block of its own: it goes on in the block that was generated.
GoesOnQuietly ==
  \/ mode' \in {"crashed", "undefined"}
  \/ Active /\ ~Idles(open) /\ KeepsBlocks /\ Continues(graph, graph') /\ mode' # "finished"

LEMMA SimpleSteps ==
  ASSUME Typed,
         \/ Literal \/ Absent \/ HolderStarts \/ BlockStarts \/ BlockGoesOn \/ BlockEnds
         \/ AssignOperand \/ IndexStarts \/ IndexRight \/ CallOperand \/ ReturnOperand
         \/ IndexOperand
  PROVE  GoesOnQuietly
  <1>1. ASSUME mode = "statement" \/ mode = "body" PROVE Active /\ ~Idles(open) /\ open # <<>>
    BY <1>1, NotIdle DEF Active, Typed, StackOK
  <1>2. ASSUME NEW op, NEW part, op # "begin", Has(op, part)
        PROVE  Active /\ ~Idles(open) /\ open # <<>> /\ Top.op = op /\ Top.part = part
    <2>1. Active /\ open # <<>> /\ Top.op = op /\ Top.part = part
      BY <1>2 DEF Has, Active
    <2>2. ~Idles(open)
      BY <1>2, <2>1, NotIdle DEF Idle
    <2>. QED BY <2>1, <2>2
  <1>4. ASSUME NextOperand, Active, ~Idles(open), open # <<>>, Top.part = "operand", Top.op \notin {"while", "begin"}
        PROVE  GoesOnQuietly
    <2> DEFINE x == Top.left - 1
               y == Append(Top.args, value)
               t == Top
               f == [t EXCEPT !.left = x, !.args = y]
    <2>1. open' = Append(Below, f) /\ graph' = graph /\ mode' = "statement"
      BY <1>4 DEF NextOperand, TopIs, Generate
    <2>2. t \in FramesOf(Len(program)) /\ t.part = "operand" /\ t.op \notin {"while", "begin"}
      BY <1>4, TypedParts
    <2>3. ~HasBlocks(Top)
      BY <1>4 DEF HasBlocks
    <2> HIDE DEF x, y, t
    <2>4. ~HasBlocks(f)
      BY <2>2 DEF FramesOf, HasBlocks
    <2> HIDE DEF f
    <2>. QED BY <1>4, <2>1, <2>3, <2>4, Continuing DEF KeepsBlocks, GoesOnQuietly
  <1>5. CASE Literal
    <2>1. mode = "statement" /\ graph' = Emit(graph, Instr("load", <<This, "value">>, <<>>)) /\ open' = open /\ mode' = "value"
      BY <1>5 DEF Literal, Starts, Yields
    <2>2. Continues(graph, graph')
      BY <2>1, QuietInstrs, Continuing
    <2>. QED BY <1>1, <2>1, <2>2 DEF KeepsBlocks, GoesOnQuietly
  <1>6. CASE Absent
    <2>1. mode = "statement" /\ graph' = graph /\ open' = open /\ mode' = "value"
      BY <1>6 DEF Absent, Starts, Yields
    <2>. QED BY <1>1, <2>1, Continuing DEF KeepsBlocks, GoesOnQuietly
  <1>7. CASE HolderStarts
    BY <1>7 DEF HolderStarts, GoesOnQuietly
  <1>8. CASE BlockStarts
    <2>1. ~HasBlocks(Running("block", "list", This))
      BY DEF HasBlocks, Running
    <2>2. mode = "statement" \/ mode = "body"
      BY <1>8 DEF BlockStarts, Starts
    <2>3. graph' = graph /\ open' = Append(open, Running("block", "list", This)) /\ mode' = "value"
      BY <1>8 DEF BlockStarts, Push, Yields
    <2>. QED BY <1>1, <2>1, <2>2, <2>3, Continuing DEF KeepsBlocks, GoesOnQuietly
  <1>9. CASE BlockGoesOn
    <2>1. Has("block", "list") /\ graph' = graph /\ open' = open /\ mode' = "statement"
      BY <1>9 DEF BlockGoesOn, Generate
    <2>. QED BY <1>2, <2>1, Continuing DEF KeepsBlocks, GoesOnQuietly
  <1>10. CASE BlockEnds
    <2>1. /\ Has("block", "list") /\ open' = Below /\ mode' = "value"
          /\ graph' = graph \/ graph' = Emit(graph, Instr("load", <<Top.stmt, "nil">>, <<>>))
      BY <1>10 DEF BlockEnds, Yields
    <2>2. Continues(graph, graph')
      BY <2>1, QuietInstrs, Continuing
    <2>3. ~HasBlocks(Top)
      BY <1>2, <2>1 DEF HasBlocks
    <2>. QED BY <1>2, <2>1, <2>2, <2>3 DEF KeepsBlocks, GoesOnQuietly
  <1>11. CASE AssignOperand
    <2> DEFINE g1 == Emit(graph, Instr("store", <<Top.stmt, "stored">>, Append(Top.args, value)))
    <2>1. /\ Has("assign", "operand")
          /\ mode' = "crashed" \/ (graph' = g1 /\ open' = Below /\ mode' = "value")
      BY <1>11 DEF AssignOperand, Crashes, Yields
    <2>2. ~HasBlocks(Top) /\ Continues(graph, g1)
      BY <1>2, <2>1, QuietInstrs, Continuing DEF HasBlocks
    <2> HIDE DEF g1
    <2>. QED BY <1>2, <2>1, <2>2 DEF KeepsBlocks, GoesOnQuietly
  <1>12. CASE IndexStarts
    <2>1. ~HasBlocks([Running("index", "operand", This) EXCEPT !.left = 2])
      BY DEF HasBlocks, Running
    <2>2. /\ mode = "statement" /\ graph' = graph /\ mode' = "statement"
          /\ open' = Append(open, [Running("index", "operand", This) EXCEPT !.left = 2])
      BY <1>12 DEF IndexStarts, Starts, Push, Generate
    <2>. QED BY <1>1, <2>1, <2>2, Continuing DEF KeepsBlocks, GoesOnQuietly
  <1>13. CASE IndexRight
    <2> DEFINE a1 == <<<<Top.stmt, "before">>, value>>
               a2 == Append(Top.args, <<Top.stmt, "operated">>)
               g2 == LangCall(LangCall(graph, <<Top.stmt, "operated">>, a1), <<Top.stmt, "value">>, a2)
    <2>1. /\ Has("index", "right")
          /\ mode' = "crashed" \/ (graph' = g2 /\ open' = Below /\ mode' = "value")
      BY <1>13 DEF IndexRight, Crashes, Yields
    <2>2. ~HasBlocks(Top)
      BY <1>2, <2>1 DEF HasBlocks
    <2>3. Continues(graph, g2)
      <3> HIDE DEF a1, a2
      <3>. QED BY Continuing
    <2> HIDE DEF g2
    <2>. QED BY <1>2, <2>1, <2>2, <2>3 DEF KeepsBlocks, GoesOnQuietly
  <1>14. CASE CallOperand
    <2> DEFINE g1 == LangCall(graph, <<Top.stmt, "value">>, Append(Top.args, value))
    <2>1. /\ Has("call", "operand")
          /\ mode' = "crashed" \/ NextOperand \/ (graph' = g1 /\ open' = Below /\ mode' = "value")
      BY <1>14 DEF CallOperand, Crashes, Yields
    <2>2. ~HasBlocks(Top) /\ Active /\ ~Idles(open) /\ open # <<>> /\ Top.op = "call" /\ Top.part = "operand"
      BY <1>2, <2>1 DEF HasBlocks
    <2>3. Continues(graph, g1)
      BY Continuing
    <2> HIDE DEF g1
    <2>. QED BY <1>4, <2>1, <2>2, <2>3 DEF KeepsBlocks, GoesOnQuietly
  <1>15. CASE ReturnOperand
    <2> DEFINE operands == Append(Top.args, value)
               g1 == LangCall(graph, <<Top.stmt, "value">>, operands)
               returned == IF Len(operands) > 1 THEN <<<<Top.stmt, "value">>>> ELSE IF value = Null THEN <<>> ELSE <<value>>
               called == IF Len(operands) > 1 THEN g1 ELSE graph
               instr == To("return", returned, <<>>)
    <2>1. /\ Has("return", "operand")
          /\ mode' = "crashed" \/ NextOperand \/ (graph' = Emit(called, instr) /\ open' = Below /\ mode' = "value")
      BY <1>15 DEF ReturnOperand, Crashes, Yields
    <2>2. ~HasBlocks(Top) /\ Active /\ ~Idles(open) /\ open # <<>> /\ Top.op = "return" /\ Top.part = "operand"
      BY <1>2, <2>1 DEF HasBlocks
    <2> HIDE DEF operands, returned
    <2>3. Quiet(instr)
      BY QuietInstrs
    <2> HIDE DEF instr
    <2>4. Continues(graph, Emit(called, instr))
      BY <2>3, Continuing
    <2> HIDE DEF called
    <2>. QED BY <1>4, <2>1, <2>2, <2>4 DEF KeepsBlocks, GoesOnQuietly
  <1>16. CASE IndexOperand
    <2> DEFINE args == Append(Top.args, value)
               g1 == LangCall(graph, <<Top.stmt, "before">>, args)
               t  == Top
               f  == [t EXCEPT !.part = "right", !.args = args]
    <2>1. /\ Has("index", "operand")
          /\ mode' = "crashed" \/ NextOperand \/ (graph' = g1 /\ open' = Append(Below, f) /\ mode' = "statement")
      BY <1>16 DEF IndexOperand, Crashes, TopIs, Generate
    <2>2. ~HasBlocks(Top) /\ Active /\ ~Idles(open) /\ open # <<>> /\ Top.op = "index" /\ Top.part = "operand"
      BY <1>2, <2>1 DEF HasBlocks
    <2>3. Continues(graph, g1)
      BY Continuing
    <2>4. t \in FramesOf(Len(program)) /\ t.op = "index"
      BY <2>2, TypedParts
    <2> HIDE DEF g1, args, t
    <2>5. ~HasBlocks(f)
      BY <2>4 DEF FramesOf, HasBlocks
    <2> HIDE DEF f
    <2>. QED BY <1>4, <2>1, <2>2, <2>3, <2>5 DEF KeepsBlocks, GoesOnQuietly
  <1>. QED BY <1>5, <1>6, <1>7, <1>8, <1>9, <1>10, <1>11, <1>12, <1>13, <1>14, <1>15, <1>16

LEMMA StartSteps ==
  ASSUME Typed,
         \/ \E n \in Nat : CallStarts(n) \/ ReturnStarts(n)
         \/ \E name \in Names : ReadStarts(name) \/ AssignStarts(name)
         \/ \E else \in BOOLEAN : IfStarts(else)
         \/ \E whens \in 1 .. 2 : CaseStarts(whens)
  PROVE  GoesOnQuietly
  <1>1. ASSUME mode = "statement" PROVE Active /\ ~Idles(open) /\ open # <<>>
    BY <1>1, NotIdle DEF Active, Typed, StackOK
  <1>2. ASSUME NEW op, op \notin {"while", "begin"}, NEW part, part \notin {"true", "false"}, NEW x
        PROVE  /\ ~HasBlocks([Running(op, part, This) EXCEPT !.left = x])
               /\ ~HasBlocks([Running(op, part, This) EXCEPT !.args = x])
               /\ ~HasBlocks([Running(op, part, This) EXCEPT !.optional = x])
               /\ ~HasBlocks(Running(op, part, This))
    BY <1>2 DEF HasBlocks, Running
  <1>3. ASSUME NEW f, ~HasBlocks(f), mode = "statement", mode' = "statement", open' = Append(open, f), Continues(graph, graph')
        PROVE  GoesOnQuietly
    BY <1>1, <1>3 DEF KeepsBlocks, GoesOnQuietly
  <1>4. ASSUME NEW n \in Nat, CallStarts(n) PROVE GoesOnQuietly
    <2> DEFINE f == [Running("call", "operand", This) EXCEPT !.left = n]
    <2>1. /\ mode = "statement"
          /\ \/ graph' = LangCall(graph, <<This, "value">>, <<>>) /\ open' = open /\ mode' = "value"
             \/ graph' = graph /\ open' = Append(open, f) /\ mode' = "statement"
      BY <1>4 DEF CallStarts, Starts, Yields, Push, Generate
    <2>2. ~HasBlocks(f)
      BY <1>2
    <2> HIDE DEF f
    <2>3. Continues(graph, graph')
      BY <2>1, Continuing
    <2>. QED BY <1>1, <1>3, <2>1, <2>2, <2>3 DEF KeepsBlocks, GoesOnQuietly
  <1>5. ASSUME NEW n \in Nat, ReturnStarts(n) PROVE GoesOnQuietly
    <2> DEFINE f == [Running("return", "operand", This) EXCEPT !.left = n]
    <2>1. /\ mode = "statement"
          /\ \/ graph' = Emit(graph, To("return", <<>>, <<>>)) /\ open' = open /\ mode' = "value"
             \/ graph' = graph /\ open' = Append(open, f) /\ mode' = "statement"
      BY <1>5 DEF ReturnStarts, Starts, Yields, Push, Generate
    <2>2. ~HasBlocks(f)
      BY <1>2
    <2> HIDE DEF f
    <2>3. Continues(graph, graph')
      BY <2>1, QuietInstrs, Continuing
    <2>. QED BY <1>1, <1>3, <2>1, <2>2, <2>3 DEF KeepsBlocks, GoesOnQuietly
  <1>6. ASSUME NEW name \in Names, ReadStarts(name) PROVE GoesOnQuietly
    <2> DEFINE g1 == LangCall(graph, <<This, "value">>, <<>>)
               g2 == Emit(graph, Instr("load", <<This, "value">>, <<variables[name]>>))
    <2>1. /\ mode = "statement" /\ open' = open /\ mode' = "value"
          /\ graph' = g1 \/ graph' = g2
      BY <1>6 DEF ReadStarts, Starts, Yields
    <2>2. Continues(graph, g1) /\ Continues(graph, g2)
      BY QuietInstrs, Continuing
    <2> HIDE DEF g1, g2
    <2>. QED BY <1>1, <2>1, <2>2 DEF KeepsBlocks, GoesOnQuietly
  <1>7. ASSUME NEW name \in Names, AssignStarts(name) PROVE GoesOnQuietly
    <2> DEFINE slot == IF variables[name] = Null THEN <<This, "slot">> ELSE variables[name]
               g1   == Emit(graph, Instr("alloca", slot, <<>>))
               args == <<slot>>
               f    == [Running("assign", "operand", This) EXCEPT !.args = args]
    <2>1. /\ mode = "statement" /\ open' = Append(open, f) /\ mode' = "statement"
          /\ graph' = g1 \/ graph' = graph
      BY <1>7 DEF AssignStarts, Starts, Push, Generate
    <2> HIDE DEF slot, args
    <2>2. ~HasBlocks(f)
      BY <1>2
    <2>3. Continues(graph, g1) /\ Continues(graph, graph)
      BY QuietInstrs, Continuing
    <2> HIDE DEF g1, f
    <2>. QED BY <1>3, <2>1, <2>2, <2>3
  <1>8. ASSUME NEW else \in BOOLEAN, IfStarts(else) PROVE GoesOnQuietly
    <2> DEFINE f == [Running("if", "condition", This) EXCEPT !.optional = else]
    <2>1. mode = "statement" /\ open' = Append(open, f) /\ mode' = "statement" /\ graph' = graph
      BY <1>8 DEF IfStarts, Starts, Push, Generate
    <2>2. ~HasBlocks(f)
      BY <1>2
    <2> HIDE DEF f
    <2>. QED BY <1>3, <2>1, <2>2, Continuing
  <1>9. ASSUME NEW whens \in 1 .. 2, CaseStarts(whens) PROVE GoesOnQuietly
    <2> DEFINE f == Running("if", "condition", This)
    <2>1. /\ mode = "statement" /\ graph' = graph
          /\ mode' = "undefined" \/ (open' = Append(open, f) /\ mode' = "statement")
      BY <1>9 DEF CaseStarts, Starts, Push, Generate
    <2>2. ~HasBlocks(f)
      BY <1>2
    <2> HIDE DEF f
    <2>. QED BY <1>3, <2>1, <2>2, Continuing DEF GoesOnQuietly
  <1>. QED BY <1>4, <1>5, <1>6, <1>7, <1>8, <1>9

LEMMA QuietFlow ==
  ASSUME Typed, Flow, GoesOnQuietly
  PROVE  Flow'
  <1>1. ASSUME NEW g, Goes(g), NEW h, Emits(g, h) PROVE Goes(h)
    BY <1>1, GoesEmit DEF Emits, Quiet
  <1>2. ASSUME NEW g, Goes(g), NEW h, Calls(g, h) PROVE Goes(h)
    BY <1>2, GoesLangCall DEF Calls
  <1>3. CASE mode' \in {"crashed", "undefined"}
    BY <1>3, FlowCrashes
  <1>4. CASE Active /\ ~Idles(open) /\ KeepsBlocks /\ Continues(graph, graph') /\ mode' # "finished"
    <2>1. Goes(graph)
      BY <1>4, Standing
    <2>2. Goes(graph')
      <3>1. CASE Emits(graph, graph')
        BY <1>1, <2>1, <3>1
      <3>2. CASE \E between : Calls(graph, between) /\ (Emits(between, graph') \/ Calls(between, graph'))
        <4>1. PICK between : Calls(graph, between) /\ (Emits(between, graph') \/ Calls(between, graph'))
          BY <3>2
        <4>2. Goes(between)
          BY <1>2, <2>1, <4>1
        <4>. QED BY <1>1, <1>2, <4>1, <4>2
      <3>. QED BY <1>4, <3>1, <3>2 DEF Continues
    <2>. QED BY <1>4, <2>2, FlowKept
  <1>. QED BY <1>3, <1>4 DEF GoesOnQuietly

-----------------------------------------------------------------------------
(* codegenIf and codegenWhile.                                             *)

\* What stands before a part of a function ends: the block that it ends in, those of the
\* function, and those of the functions below, which are older.
LEMMA Before ==
  ASSUME Typed, Flow, Active, open # <<>>, ~Idle(Top)
  PROVE  /\ Stands(graph, Size(graph), (PendingIn(Below) \cup Pending(Top)) \cup {graph.cur}, graph.cur)
         /\ graph.cur \notin PendingIn(Below) \cup Pending(Top)
         /\ PendingIn(Below) \cup Pending(Top) \subseteq 1 .. Size(graph)
         /\ graph.cur \in 1 .. Size(graph) /\ Size(graph) \in Nat /\ Top \in FramesOf(Len(program))
         /\ Top.base \in Int
         /\ HasBlocks(Top) => /\ \A b \in PendingIn(Below) : b <= Top.base
                              /\ Top.base >= 1 /\ Top.base + 3 <= Size(graph)
         /\ Below \in Seq(FramesOf(Len(program))) /\ Nested(Below) /\ ~Idles(Below) /\ RescuesOK(Top) /\ Nested(open)
  <1>1. ~Idles(open)
    BY NotIdle
  <1>2. /\ GoesOnIn(graph, Size(graph), graph.cur) /\ PendingIn(open) \subseteq 1 .. Size(graph) /\ Nested(open)
    BY <1>1, Standing
  <1>3. PendingIn(open) = PendingIn(Below) \cup Pending(Top)
    BY <1>2, NestedTop
  <1>4. /\ Nested(Below) /\ ~Idles(Below) /\ RescuesOK(Top)
        /\ HasBlocks(Top) => \A b \in PendingIn(Below) : b <= Top.base
    BY <1>2, NestedTop
  <1>5. graph.cur \in 1 .. Size(graph) /\ Size(graph) \in Nat /\ Top \in FramesOf(Len(program)) /\ Top.base \in Int
    BY TypedParts
  <1>6. HasBlocks(Top) => Top.base >= 1 /\ Top.base + 3 <= Size(graph)
    BY TypedParts DEF FrameOK
  <1>7. Below \in Seq(FramesOf(Len(program)))
    BY StackChanges DEF Typed
  <1>. QED BY <1>2, <1>3, <1>4, <1>5, <1>6, <1>7 DEF GoesOnIn

\* The graph after the end of the block that was generated.
LEMMA StandsEnds ==
  ASSUME NEW g, NEW k, NEW S, NEW c, Stands(g, k, S \cup {c}, c), c \notin S, NEW instr, Ends(instr)
  PROVE  Stands(Emit(g, instr), k, S, c)
  <1>1. g.cur = c
    BY DEF Stands
  <1>2. c \in S \cup {c} /\ (S \cup {c}) \ {c} = S
    OBVIOUS
  <1>3. Stands(EmitAt(g, c, instr), k, (S \cup {c}) \ {c}, c)
    BY <1>2, StandsEmitAt
  <1>. QED BY <1>1, <1>2, <1>3 DEF Emit

LEMMA EndInstrs ==
  ASSUME NEW args, NEW targets, NEW id
  PROVE  /\ \A op \in {"br", "cond", "ret", "resume", "unreachable"} : Ends(To(op, args, targets))
         /\ \A op \in {"load", "store", "alloca", "call", "landingpad"} : ~IsEnd(Instr(op, id, args)) /\ ~Ends(Instr(op, id, args))
BY DEF Ends, IsEnd, To, Instr, EndOps

\* The graph with two or three new blocks.
LEMMA StandsCreates ==
  ASSUME NEW g, NEW k, NEW S, NEW c, Stands(g, k, S \cup {c}, c)
  PROVE  /\ Stands(Create(g, 2), k + 2, (S \cup {k + 1, k + 2}) \cup {c}, c)
         /\ Stands(Create(g, 3), k + 3, (S \cup {k + 1, k + 2, k + 3}) \cup {c}, c)
  <1>1. k \in Nat /\ 2 \in Nat /\ 3 \in Nat
    BY ShapedParts DEF Stands
  <1>2. k + 1 .. k + 2 = {k + 1, k + 2} /\ k + 1 .. k + 3 = {k + 1, k + 2, k + 3}
    BY <1>1
  <1>3. /\ Stands(Create(g, 2), k + 2, (S \cup {c}) \cup (k + 1 .. k + 2), c)
        /\ Stands(Create(g, 3), k + 3, (S \cup {c}) \cup (k + 1 .. k + 3), c)
    BY <1>1, StandsCreate
  <1>4. /\ (S \cup {c}) \cup {k + 1, k + 2} = (S \cup {k + 1, k + 2}) \cup {c}
        /\ (S \cup {c}) \cup {k + 1, k + 2, k + 3} = (S \cup {k + 1, k + 2, k + 3}) \cup {c}
    OBVIOUS
  <1>. QED BY <1>2, <1>3, <1>4

LEMMA IfConditionFlow == ASSUME Typed, Flow, IfCondition PROVE Flow'
  <1> DEFINE k  == Size(graph)
             c  == graph.cur
             O  == PendingIn(Below)
             g1 == Create(graph, 3)
             g2 == Emit(g1, To("cond", <<value>>, <<k + 2, k + 3>>))
             g3 == MoveTo(g2, k + 2)
             t  == Top
             f  == [t EXCEPT !.part = "true", !.base = k]
  <1>1. /\ Has("if", "condition")
        /\ mode' = "crashed" \/ (graph' = g3 /\ open' = Append(Below, f) /\ mode' = "statement")
    BY DEF IfCondition, Crashes, TopIs, Generate
  <1>2. Active /\ open # <<>> /\ ~Idle(Top) /\ ~HasBlocks(Top) /\ t.op = "if"
    BY <1>1 DEF Has, Active, Idle, HasBlocks
  <1>3. Pending(Top) = {}
    BY <1>2, PendingParts
  <1>4. Stands(graph, k, O \cup {c}, c) /\ c \notin O /\ O \subseteq 1 .. k /\ k \in Nat /\ c \in 1 .. k /\ t \in FramesOf(Len(program))
    BY <1>2, <1>3, Before
  <1>5. Stands(g1, k + 3, (O \cup {k + 1, k + 2, k + 3}) \cup {c}, c)
    <2> HIDE DEF k, O, c
    <2>. QED BY <1>4, StandsCreates
  <1>6. f.op = "if" /\ f.part = "true" /\ f.base = k
    <2> HIDE DEF k, t
    <2>. QED BY <1>2, <1>4 DEF FramesOf
  <1>7. RescuesOK(f) /\ ~Idle(f) /\ Pending(f) = {k + 1, k + 3} /\ Under(Below, f)
    <2> HIDE DEF f
    <2>1. Under(Below, f)
      BY <1>2, <1>6, NestedTop, Before
    <2>. QED BY <1>6, <2>1 DEF RescuesOK, Idle, Pending
  <1> HIDE DEF g1, f, t
  <1>8. Stands(g2, k + 3, O \cup {k + 1, k + 2, k + 3}, c)
    <2>1. c \notin O \cup {k + 1, k + 2, k + 3}
      BY <1>4
    <2> HIDE DEF k, O, c
    <2>. QED BY <1>5, <2>1, StandsEnds, EndInstrs
  <1> HIDE DEF g2
  <1>9. Stands(g3, k + 3, O \cup {k + 1, k + 2, k + 3}, k + 2)
    BY <1>4, <1>8, StandsMoveTo
  <1> HIDE DEF g3, k, O, c
  <1>10. O \cup {k + 1, k + 2, k + 3} = (O \cup {k + 1, k + 3}) \cup {k + 2} /\ k + 2 \notin O \cup {k + 1, k + 3}
    BY <1>4
  <1>11. Below \in Seq(FramesOf(Len(program)))
    BY <1>2, Before
  <1>12. FlowIs(g3, Append(Below, f))
    BY <1>7, <1>9, <1>10, <1>11, FlowPushes DEF O
  <1>. QED BY <1>1, <1>12, FlowCrashes DEF Flow, Finished

LEMMA TrueBranchFlow == ASSUME Typed, Flow, TrueBranch PROVE Flow'
  <1> DEFINE k  == Size(graph)
             c  == graph.cur
             O  == PendingIn(Below)
             b  == Top.base
             g1 == Emit(graph, To("br", <<>>, <<b + 1>>))
             g2 == MoveTo(g1, b + 3)
             g3 == Emit(g2, Instr("load", <<Top.stmt, "nil">>, <<>>))
             t  == Top
             x  == graph.cur
             y  == <<value>>
             f  == [t EXCEPT !.part = "false", !.from = x, !.args = y]
  <1>1. /\ Has("if", "true") /\ open' = Append(Below, f) /\ mode' \in {"statement", "value"}
        /\ graph' = g2 \/ graph' = g3
    BY DEF TrueBranch, TopIs, Generate, Yields, NoBranch
  <1>2. Active /\ open # <<>> /\ ~Idle(Top) /\ HasBlocks(Top) /\ t.op = "if" /\ Pending(Top) = {b + 1, b + 3}
    BY <1>1 DEF Has, Active, Idle, HasBlocks, Pending
  <1>3. /\ Stands(graph, k, (O \cup {b + 1, b + 3}) \cup {c}, c) /\ c \notin O \cup {b + 1, b + 3}
        /\ t \in FramesOf(Len(program)) /\ b \in Int /\ \A p \in O : p <= b
    BY <1>2, Before
  <1>4. f.op = "if" /\ f.part = "false" /\ f.base = b
    <2>1. t.base = b
      OBVIOUS
    <2> HIDE DEF x, y, t, b
    <2>. QED BY <1>2, <1>3, <2>1 DEF FramesOf
  <1> HIDE DEF f, t
  <1>5. RescuesOK(f) /\ ~Idle(f) /\ Pending(f) = {b + 1} /\ Under(Below, f)
    <2>1. Under(Below, f)
      BY <1>2, <1>4, NestedTop, Before
    <2>. QED BY <1>4, <2>1 DEF RescuesOK, Idle, Pending
  <1>6. Below \in Seq(FramesOf(Len(program)))
    BY <1>2, Before
  <1> HIDE DEF k, O, c, b
  <1>7. Stands(g1, k, O \cup {b + 1, b + 3}, c)
    BY <1>3, StandsEnds, EndInstrs
  <1> HIDE DEF g1
  <1>8. Stands(g2, k, O \cup {b + 1, b + 3}, b + 3)
    BY <1>3, <1>7, StandsMoveTo
  <1> HIDE DEF g2
  <1>9. Stands(g3, k, O \cup {b + 1, b + 3}, b + 3)
    <2>1. g2.cur = b + 3 /\ b + 3 \in O \cup {b + 1, b + 3}
      BY <1>8 DEF Stands
    <2>. QED BY <1>8, <2>1, StandsEmitAt, EndInstrs DEF Emit
  <1> HIDE DEF g3
  <1>10. O \cup {b + 1, b + 3} = (O \cup {b + 1}) \cup {b + 3} /\ b + 3 \notin O \cup {b + 1}
    BY <1>3
  <1>11. Stands(graph', k, (O \cup {b + 1}) \cup {b + 3}, b + 3)
    BY <1>1, <1>8, <1>9, <1>10
  <1>12. FlowIs(graph', Append(Below, f))
    BY <1>5, <1>6, <1>10, <1>11, FlowPushes DEF O
  <1>. QED BY <1>1, <1>12 DEF Flow, Finished

LEMMA FalseBranchFlow == ASSUME Typed, Flow, FalseBranch PROVE Flow'
  <1> DEFINE k  == Size(graph)
             c  == graph.cur
             O  == PendingIn(Below)
             b  == Top.base
             id == <<Top.stmt, "value">>
             g1 == Emit(graph, To("br", <<>>, <<b + 1>>))
             g2 == AddIncoming(g1, b + 1, id, Top.args[1], Top.from)
             g3 == AddIncoming(g2, b + 1, id, value, c)
             g4 == MoveTo(g3, b + 1)
  <1>1. /\ Has("if", "false")
        /\ mode' = "crashed" \/ (open' = Below /\ mode' = "value" /\ graph' = g4)
    BY DEF FalseBranch, Crashes, Yields
  <1>2. Active /\ open # <<>> /\ ~Idle(Top) /\ HasBlocks(Top) /\ Pending(Top) = {b + 1}
    BY <1>1 DEF Has, Active, Idle, HasBlocks, Pending
  <1>3. /\ Stands(graph, k, (O \cup {b + 1}) \cup {c}, c) /\ c \notin O \cup {b + 1}
        /\ b \in Int /\ \A p \in O : p <= b
        /\ b >= 1 /\ b + 3 <= k /\ k \in Nat /\ Nested(Below) /\ ~Idles(Below)
    BY <1>2, Before
  <1> HIDE DEF k, O, c, b, id
  <1>4. Stands(g1, k, O \cup {b + 1}, c)
    BY <1>3, StandsEnds, EndInstrs
  <1>5. b + 1 \in 1 .. k
    BY <1>3
  <1> HIDE DEF g1
  <1>6. Stands(g2, k, O \cup {b + 1}, c)
    BY <1>4, <1>5, StandsAddIncoming
  <1> HIDE DEF g2
  <1>7. Stands(g3, k, O \cup {b + 1}, c)
    BY <1>5, <1>6, StandsAddIncoming
  <1> HIDE DEF g3
  <1>8. Stands(g4, k, O \cup {b + 1}, b + 1)
    BY <1>3, <1>7, StandsMoveTo
  <1>9. b + 1 \notin O
    BY <1>3
  <1> HIDE DEF g4
  <1>10. FlowIs(g4, Below)
    BY <1>3, <1>8, <1>9, FlowPops DEF O
  <1>. QED BY <1>1, <1>10, FlowCrashes DEF Flow, Finished

LEMMA WhileStartsFlow == ASSUME Typed, Flow, WhileStarts PROVE Flow'
  <1> DEFINE k  == Size(graph)
             c  == graph.cur
             O  == PendingIn(open)
             g1 == Create(graph, 3)
             g2 == Emit(g1, To("br", <<>>, <<k + 2>>))
             g3 == MoveTo(g2, k + 1)
             r  == Running("while", "body", This)
             f  == [r EXCEPT !.base = k, !.from = c]
  <1>1. mode = "statement" /\ open' = Append(open, f) /\ mode' = "statement" /\ graph' = g3
    BY DEF WhileStarts, Starts, Push, Generate
  <1>2. Active /\ ~Idles(open)
    BY <1>1, NotIdle DEF Active
  <1>3. Stands(graph, k, O \cup {c}, c) /\ c \notin O /\ O \subseteq 1 .. k /\ k \in Nat /\ c \in 1 .. k /\ Nested(open)
    BY <1>2, Standing, TypedParts DEF GoesOnIn
  <1>4. f.op = "while" /\ f.part = "body" /\ f.base = k
    <2> HIDE DEF k, c
    <2>. QED BY DEF Running
  <1>5. open \in Seq(FramesOf(Len(program)))
    BY DEF Typed
  <1> HIDE DEF f
  <1>6. RescuesOK(f) /\ ~Idle(f) /\ Pending(f) = {k + 2, k + 3} /\ Under(open, f)
    <2>1. Under(open, f)
      BY <1>3, <1>4, NestedTop
    <2>. QED BY <1>4, <2>1 DEF RescuesOK, Idle, Pending
  <1> HIDE DEF k, O, c
  <1>7. Stands(g1, k + 3, (O \cup {k + 1, k + 2, k + 3}) \cup {c}, c)
    BY <1>3, StandsCreates
  <1> HIDE DEF g1
  <1>8. Stands(g2, k + 3, O \cup {k + 1, k + 2, k + 3}, c)
    <2>1. c \notin O \cup {k + 1, k + 2, k + 3}
      BY <1>3
    <2>. QED BY <1>7, <2>1, StandsEnds, EndInstrs
  <1> HIDE DEF g2
  <1>9. Stands(g3, k + 3, O \cup {k + 1, k + 2, k + 3}, k + 1)
    BY <1>3, <1>8, StandsMoveTo
  <1> HIDE DEF g3
  <1>10. O \cup {k + 1, k + 2, k + 3} = (O \cup {k + 2, k + 3}) \cup {k + 1} /\ k + 1 \notin O \cup {k + 2, k + 3}
    BY <1>3
  <1>11. FlowIs(g3, Append(open, f))
    BY <1>5, <1>6, <1>9, <1>10, FlowPushes DEF O
  <1>. QED BY <1>1, <1>11 DEF Flow, Finished

LEMMA WhileBodyFlow == ASSUME Typed, Flow, WhileBody PROVE Flow'
  <1> DEFINE k  == Size(graph)
             c  == graph.cur
             O  == PendingIn(Below)
             b  == Top.base
             id == <<Top.stmt, "value">>
             entry == <<Top.stmt, "entry">>
             from == Top.from
             g1 == Emit(graph, To("br", <<>>, <<b + 2>>))
             g2 == MoveTo(g1, b + 2)
             g3 == AddIncoming(g2, b + 2, id, entry, from)
             g4 == AddIncoming(g3, b + 2, id, value, c)
             g5 == Emit(g4, Instr("load", entry, <<>>))
             t  == Top
             y  == <<value>>
             f  == [t EXCEPT !.part = "condition", !.args = y]
  <1>1. /\ Has("while", "body")
        /\ mode' = "crashed" \/ (open' = Append(Below, f) /\ mode' = "statement" /\ graph' = g5)
    BY DEF WhileBody, Crashes, TopIs, Generate
  <1>2. Active /\ open # <<>> /\ ~Idle(Top) /\ HasBlocks(Top) /\ t.op = "while" /\ Pending(Top) = {b + 2, b + 3}
    BY <1>1 DEF Has, Active, Idle, HasBlocks, Pending
  <1>3. /\ Stands(graph, k, (O \cup {b + 2, b + 3}) \cup {c}, c) /\ c \notin O \cup {b + 2, b + 3}
        /\ t \in FramesOf(Len(program)) /\ b \in Int /\ \A p \in O : p <= b
        /\ b >= 1 /\ b + 3 <= k /\ k \in Nat
    BY <1>2, Before
  <1>4. f.op = "while" /\ f.part = "condition" /\ f.base = b
    <2>1. t.base = b
      OBVIOUS
    <2> HIDE DEF y, t, b
    <2>. QED BY <1>2, <1>3, <2>1 DEF FramesOf
  <1> HIDE DEF f, t
  <1>5. RescuesOK(f) /\ ~Idle(f) /\ Pending(f) = {b + 3} /\ Under(Below, f)
    <2>1. Under(Below, f)
      BY <1>2, <1>4, NestedTop, Before
    <2>. QED BY <1>4, <2>1 DEF RescuesOK, Idle, Pending
  <1>6. Below \in Seq(FramesOf(Len(program)))
    BY <1>2, Before
  <1> HIDE DEF k, O, c, b, id, entry, from
  <1> DEFINE S == O \cup {b + 2, b + 3}
  <1>7. Stands(g1, k, S, c)
    BY <1>3, StandsEnds, EndInstrs
  <1>8. b + 2 \in S /\ b + 2 \in 1 .. k /\ b + 2 \in Int
    BY <1>3
  <1>9. S = (O \cup {b + 3}) \cup {b + 2} /\ b + 2 \notin O \cup {b + 3}
    BY <1>3
  <1> HIDE DEF g1, S
  <1>10. Stands(g2, k, S, b + 2)
    BY <1>7, <1>8, StandsMoveTo
  <1> HIDE DEF g2
  <1>11. Stands(g3, k, S, b + 2)
    BY <1>8, <1>10, StandsAddIncoming
  <1> HIDE DEF g3
  <1>12. Stands(g4, k, S, b + 2)
    BY <1>8, <1>11, StandsAddIncoming
  <1> HIDE DEF g4
  <1>13. Stands(g5, k, S, b + 2)
    <2>1. g4.cur = b + 2
      BY <1>12 DEF Stands
    <2>. QED BY <1>8, <1>12, <2>1, StandsEmitAt, EndInstrs DEF Emit
  <1> HIDE DEF g5
  <1>14. FlowIs(g5, Append(Below, f))
    BY <1>5, <1>6, <1>9, <1>13, FlowPushes DEF O
  <1>. QED BY <1>1, <1>14, FlowCrashes DEF Flow, Finished

LEMMA WhileConditionFlow == ASSUME Typed, Flow, WhileCondition PROVE Flow'
  <1> DEFINE k  == Size(graph)
             c  == graph.cur
             O  == PendingIn(Below)
             b  == Top.base
             g1 == Emit(graph, To("cond", <<value>>, <<b + 1, b + 3>>))
             g2 == MoveTo(g1, b + 3)
  <1>1. /\ Has("while", "condition")
        /\ mode' = "crashed" \/ (open' = Below /\ mode' = "value" /\ graph' = g2)
    BY DEF WhileCondition, Crashes, Yields
  <1>2. Active /\ open # <<>> /\ ~Idle(Top) /\ HasBlocks(Top) /\ Pending(Top) = {b + 3}
    BY <1>1 DEF Has, Active, Idle, HasBlocks, Pending
  <1>3. /\ Stands(graph, k, (O \cup {b + 3}) \cup {c}, c) /\ c \notin O \cup {b + 3}
        /\ b \in Int /\ \A p \in O : p <= b
        /\ Nested(Below) /\ ~Idles(Below)
    BY <1>2, Before
  <1> HIDE DEF k, O, c, b
  <1>4. Stands(g1, k, O \cup {b + 3}, c)
    BY <1>3, StandsEnds, EndInstrs
  <1> HIDE DEF g1
  <1>5. Stands(g2, k, O \cup {b + 3}, b + 3) /\ b + 3 \notin O
    BY <1>3, <1>4, StandsMoveTo
  <1> HIDE DEF g2
  <1>6. FlowIs(g2, Below)
    BY <1>3, <1>5, FlowPops DEF O
  <1>. QED BY <1>1, <1>6, FlowCrashes DEF Flow, Finished

-----------------------------------------------------------------------------
(* codegenExceptionalBlock.                                                *)

LEMMA StandsJoins ==
  ASSUME NEW g, NEW k, NEW S, NEW c, Stands(g, k, S, c), NEW f, Ensure(f) \in 1 .. k, NEW v, NEW again, NEW from
  PROVE  Stands(Joins(g, f, v, again, from), k, S, c)
  <1> DEFINE g1 == AddIncoming(g, Ensure(f), <<f.stmt, "value">>, v, from)
  <1>1. Stands(g1, k, S, c)
    BY StandsAddIncoming
  <1> HIDE DEF g1
  <1>2. Stands(AddIncoming(g1, Ensure(f), <<f.stmt, "flag">>, again, from), k, S, c)
    BY <1>1, StandsAddIncoming
  <1>. QED BY <1>2 DEF Joins, g1

LEMMA StandsRecord ==
  ASSUME NEW g, NEW k, NEW S, NEW c, Stands(g, k, S, c), NEW r
  PROVE  Stands([g EXCEPT !.begins = @ \cup {r}], k, S, c)
  <1> DEFINE h == [g EXCEPT !.begins = @ \cup {r}]
  <1>1. PICK C, P, B : g \in [blocks : Seq([code : Seq(C), phi : SUBSET P]), cur : Int, begins : SUBSET B]
    BY DEF Stands, Shaped
  <1>2. h \in [blocks : Seq([code : Seq(C), phi : SUBSET P]), cur : Int, begins : SUBSET (B \cup {r})]
    BY <1>1
  <1>3. Shaped(h) /\ h.blocks = g.blocks /\ h.cur = g.cur
    BY <1>1, <1>2 DEF Shaped
  <1> HIDE DEF h
  <1>. QED BY <1>3 DEF Stands, Ongoing, Size, h

LEMMA LeadsPushes ==
  ASSUME NEW S, NEW s \in Seq(S), NEW f, Under(s, f), RescuesOK(f), ~Idle(f),
         NEW g, Leads(g, PendingIn(s) \cup Pending(f))
  PROVE  FlowIs(g, Append(s, f))
BY FlowPushes DEF Leads

LEMMA LeadsCatch ==
  ASSUME NEW g, NEW S, Leads(g, S), NEW rescue
  PROVE  Leads(Catch(g, rescue), S)
  <1> DEFINE slot == <<This, "slot">>
             args == <<slot, Top.args[1]>>
             g1   == Emit(g, Instr("alloca", slot, <<>>))
             g2   == Emit(g1, Instr("store", <<This, "stored">>, args))
             g3   == IF rescue.var = "none" THEN g ELSE g2
  <1>1. Leads(g1, S)
    BY LeadsEmit, EndInstrs
  <1> HIDE DEF g1, args
  <1>2. Leads(g2, S)
    BY <1>1, LeadsEmit, EndInstrs
  <1>3. Leads(g3, S)
    BY <1>2
  <1> HIDE DEF g3
  <1>4. Leads(LangCall(g3, <<This, "caught">>, <<>>), S)
    BY <1>3, LeadsLangCall
  <1>. QED BY <1>4 DEF Catch, g3, g1, args

LEMMA BeginStartsFlow ==
  ASSUME AnyComesLast, Typed, Flow, NEW rescues \in RescueLists, NEW ensured \in BOOLEAN, BeginStarts(rescues, ensured)
  PROVE  Flow'
  <1> DEFINE k  == Size(graph)
             c  == graph.cur
             O  == PendingIn(open)
             g1 == Create(graph, 3)
             r  == Running("begin", "main", This)
             f  == [r EXCEPT !.base = k, !.rescues = rescues, !.optional = ensured]
  <1>1. mode = "statement" /\ open' = Append(open, f) /\ mode' = "body" /\ graph' = g1
    BY DEF BeginStarts, Starts, Push, BeginsBody
  <1>2. Active /\ ~Idles(open)
    BY <1>1, NotIdle DEF Active
  <1>3. Stands(graph, k, O \cup {c}, c) /\ c \notin O /\ O \subseteq 1 .. k /\ k \in Nat /\ c \in 1 .. k /\ Nested(open)
    BY <1>2, Standing, TypedParts DEF GoesOnIn
  <1>4. f.op = "begin" /\ f.part = "main" /\ f.base = k /\ f.rescues = rescues
    <2>1. r \in [op : {"begin"}, part : {"main"}, stmt : {r.stmt}, left : {r.left}, optional : {r.optional}, base : {r.base},
                 from : {r.from}, args : {r.args}, rescues : {r.rescues}, handler : {r.handler}]
      BY DEF Running
    <2> HIDE DEF k, r
    <2>. QED BY <2>1
  <1>5. open \in Seq(FramesOf(Len(program)))
    BY DEF Typed
  <1> HIDE DEF f
  <1>6. RescuesOK(f) /\ ~Idle(f) /\ Pending(f) = {k + 1, k + 2, k + 3} /\ Under(open, f)
    <2>1. Under(open, f)
      BY <1>3, <1>4, NestedTop
    <2>2. AnyIsLast(f.rescues)
      BY <1>4 DEF AnyComesLast
    <2>. QED BY <1>4, <2>1, <2>2 DEF RescuesOK, Idle, Pending, Rescuing
  <1> HIDE DEF k, O, c
  <1>7. Stands(g1, k + 3, (O \cup {k + 1, k + 2, k + 3}) \cup {c}, c)
    BY <1>3, StandsCreates
  <1> HIDE DEF g1
  <1>8. c \notin O \cup {k + 1, k + 2, k + 3}
    BY <1>3
  <1>9. FlowIs(g1, Append(open, f))
    BY <1>5, <1>6, <1>7, <1>8, FlowPushes DEF O
  <1>. QED BY <1>1, <1>9 DEF Flow, Finished

LEMMA BeginMainFlow == ASSUME Typed, Flow, BeginMain PROVE Flow'
  <1> DEFINE k  == Size(graph)
             c  == graph.cur
             O  == PendingIn(Below)
             b  == Top.base
             t  == Top
             g1 == Emit(graph, To("br", <<>>, <<Ensure(Top)>>))
             g2 == Joins(g1, Top, value, False, c)
             g3 == MoveTo(g2, Ensure(Top))
             f  == [t EXCEPT !.part = "ensure"]
  <1>1. /\ Has("begin", "main") /\ open' = Append(Below, f) /\ mode' \in {"body", "value"}
        /\ graph' = g3
    BY DEF BeginMain, TopIs, BeginsBody, Yields
  <1>2. Active /\ open # <<>> /\ ~Idle(Top) /\ HasBlocks(Top) /\ t.op = "begin" /\ Pending(Top) = {b + 1, b + 2, b + 3}
    BY <1>1 DEF Has, Active, Idle, HasBlocks, Pending
  <1>3. /\ Stands(graph, k, (O \cup {b + 1, b + 2, b + 3}) \cup {c}, c) /\ c \notin O \cup {b + 1, b + 2, b + 3}
        /\ t \in FramesOf(Len(program)) /\ b \in Int /\ \A p \in O : p <= b
    BY <1>2, Before
  <1>4. b >= 1 /\ b + 3 <= k /\ k \in Nat /\ RescuesOK(Top) /\ Below \in Seq(FramesOf(Len(program)))
    BY <1>2, Before
  <1>5. f.op = "begin" /\ f.part = "ensure" /\ f.base = b /\ f.rescues = t.rescues
    <2>1. t.base = b
      OBVIOUS
    <2> HIDE DEF t, b
    <2>. QED BY <1>2, <1>3, <2>1 DEF FramesOf
  <1>6. AnyIsLast(t.rescues)
    BY <1>2, <1>4 DEF RescuesOK
  <1> HIDE DEF f
  <1>7. RescuesOK(f) /\ ~Idle(f) /\ Pending(f) = {b + 1, b + 3} /\ Under(Below, f)
    <2>1. Under(Below, f)
      BY <1>2, <1>5, NestedTop, Before
    <2>. QED BY <1>5, <1>6, <2>1 DEF RescuesOK, Idle, Pending, Rescuing
  <1>8. Ensure(Top) = b + 2
    BY DEF Ensure
  <1> HIDE DEF t, k, O, c, b
  <1> DEFINE S == O \cup {b + 1, b + 2, b + 3}
  <1>9. Stands(g1, k, S, c)
    BY <1>3, StandsEnds, EndInstrs
  <1>10. b + 2 \in 1 .. k /\ b + 2 \in Int /\ S = (O \cup {b + 1, b + 3}) \cup {b + 2} /\ b + 2 \notin O \cup {b + 1, b + 3}
    BY <1>3, <1>4
  <1> HIDE DEF g1, S
  <1>11. Stands(g2, k, S, c)
    BY <1>8, <1>9, <1>10, StandsJoins
  <1> HIDE DEF g2
  <1>12. Stands(g3, k, S, b + 2)
    BY <1>8, <1>10, <1>11, StandsMoveTo
  <1> HIDE DEF g3
  <1>13. FlowIs(g3, Append(Below, f))
    BY <1>4, <1>7, <1>10, <1>12, FlowPushes DEF O
  <1>. QED BY <1>1, <1>13 DEF Flow, Finished

LEMMA BeginEnsureFlow == ASSUME Typed, Flow, BeginEnsure PROVE Flow'
  <1> DEFINE k  == Size(graph)
             c  == graph.cur
             O  == PendingIn(Below)
             b  == Top.base
             t  == Top
             token     == <<Top.stmt, "token">>
             exception == <<Top.stmt, "exception">>
             flags     == <<<<Top.stmt, "flag">>>>
             r  == [pad |-> Pad(Top), ensure |-> Ensure(Top), rethrow |-> Rethrow(Top), finish |-> k + 1]
             g1 == Create(graph, 2)
             g2 == Emit(g1, To("cond", flags, <<Rethrow(Top), k + 1>>))
             g3 == EmitAt(g2, Pad(Top), Instr("landingpad", token, <<>>))
             g4 == EmitAt(g3, Pad(Top), To("cond", <<False>>, <<k + 2, Rethrow(Top)>>))
             g5 == EmitAt(g4, Rethrow(Top), To("resume", <<token>>, <<>>))
             g6 == [g5 EXCEPT !.begins = @ \cup {r}]
             g7 == MoveTo(g6, k + 2)
             g8 == IF Top.rescues = <<>> THEN g7 ELSE LangCall(g7, exception, <<token>>)
             y  == <<exception>>
             x1 == k + 1
             x2 == k + 2
             f  == [t EXCEPT !.part = "rescue", !.from = x1, !.handler = x2, !.args = y, !.optional = FALSE]
  <1>1. Has("begin", "ensure") /\ open' = Append(Below, f) /\ mode' = "value" /\ graph' = g8
    BY DEF BeginEnsure, TopIs, Yields
  <1>2. Active /\ open # <<>> /\ ~Idle(Top) /\ HasBlocks(Top) /\ t.op = "begin" /\ Pending(Top) = {b + 1, b + 3}
    BY <1>1 DEF Has, Active, Idle, HasBlocks, Pending
  <1>3. /\ Stands(graph, k, (O \cup {b + 1, b + 3}) \cup {c}, c) /\ c \notin O \cup {b + 1, b + 3}
        /\ t \in FramesOf(Len(program)) /\ b \in Int /\ \A p \in O : p <= b
    BY <1>2, Before
  <1>4. /\ b >= 1 /\ b + 3 <= k /\ k \in Nat /\ RescuesOK(Top) /\ Below \in Seq(FramesOf(Len(program)))
        /\ c \in 1 .. k /\ O \subseteq 1 .. k
    BY <1>2, Before
  <1>5. /\ f.op = "begin" /\ f.part = "rescue" /\ f.base = b /\ f.rescues = t.rescues
        /\ f.from = k + 1 /\ f.handler = k + 2 /\ f.optional = FALSE
    <2>1. t.base = b /\ x1 = k + 1 /\ x2 = k + 2
      OBVIOUS
    <2> HIDE DEF t, b, x1, x2, y, k
    <2>. QED BY <1>2, <1>3, <2>1 DEF FramesOf
  <1>6. AnyIsLast(t.rescues)
    BY <1>2, <1>4 DEF RescuesOK
  <1> HIDE DEF f
  <1>7. RescuesOK(f) /\ ~Idle(f) /\ Pending(f) = {k + 1} /\ Under(Below, f)
    <2>1. Under(Below, f)
      BY <1>2, <1>5, NestedTop, Before
    <2>2. k + 1 # k + 2
      BY <1>4
    <2>. QED BY <1>5, <1>6, <2>1, <2>2 DEF RescuesOK, Idle, Pending, Rescuing
  <1>8. Pad(Top) = b + 1 /\ Rethrow(Top) = b + 3
    BY DEF Pad, Rethrow
  <1> HIDE DEF t, k, O, c, b, r, token, exception, flags
  <1> DEFINE S0 == O \cup {b + 1, b + 3}
             S1 == S0 \cup {k + 1, k + 2}
             S2 == S1 \ {b + 1}
             S3 == S2 \ {b + 3}
  <1>9. /\ c \notin S1 /\ b + 1 \in S1 /\ b + 3 \in S2
        /\ S3 = (O \cup {k + 1}) \cup {k + 2} /\ k + 2 \notin O \cup {k + 1}
    BY <1>3, <1>4
  <1>10. Stands(g1, k + 2, S1 \cup {c}, c)
    <2> HIDE DEF S0
    <2>. QED BY <1>3, StandsCreates DEF S0
  <1> HIDE DEF g1, S0, S1
  <1>11. Stands(g2, k + 2, S1, c)
    BY <1>9, <1>10, StandsEnds, EndInstrs
  <1> HIDE DEF g2
  <1>12. Stands(g3, k + 2, S1, c)
    BY <1>8, <1>9, <1>11, StandsEmitAt, EndInstrs
  <1> HIDE DEF g3
  <1>13. Stands(g4, k + 2, S2, c)
    BY <1>8, <1>9, <1>12, StandsEmitAt, EndInstrs
  <1> HIDE DEF g4, S2
  <1>14. Stands(g5, k + 2, S3, c)
    BY <1>8, <1>9, <1>13, StandsEmitAt, EndInstrs
  <1> HIDE DEF g5, S3
  <1>15. Stands(g6, k + 2, S3, c)
    BY <1>14, StandsRecord
  <1> HIDE DEF g6
  <1>16. Stands(g7, k + 2, S3, k + 2)
    BY <1>4, <1>15, StandsMoveTo
  <1> HIDE DEF g7
  <1>17. Leads(g7, O \cup {k + 1})
    BY <1>9, <1>16 DEF Leads
  <1>18. Leads(g8, O \cup {k + 1})
    BY <1>17, LeadsLangCall
  <1> HIDE DEF g8
  <1>19. FlowIs(g8, Append(Below, f))
    BY <1>4, <1>7, <1>18, LeadsPushes DEF O
  <1>. QED BY <1>1, <1>19 DEF Flow, Finished

LEMMA RescueAnyFlow == ASSUME Typed, Flow, RescueAny PROVE Flow'
  <1> DEFINE O  == PendingIn(Below)
             t  == Top
             g1 == Catch(graph, Head(Top.rescues))
             f  == [t EXCEPT !.part = "clause", !.optional = TRUE]
  <1>1. /\ mode = "value" /\ open # <<>> /\ t.op = "begin" /\ t.part = "rescue"
        /\ t.rescues # <<>> /\ Head(t.rescues).class = "any"
        /\ open' = Append(Below, f) /\ mode' = "body" /\ graph' = g1
    BY DEF RescueAny, RescueIs, TopIs, BeginsBody, Catches
  <1>2. RescuesOK(t) /\ t \in FramesOf(Len(program)) /\ Below \in Seq(FramesOf(Len(program)))
    <2>1. Active
      BY <1>1 DEF Active
    <2>2. Nested(open)
      BY <2>1 DEF Flow, FlowIs
    <2>3. Below \in Seq(FramesOf(Len(program)))
      BY <1>1, StackChanges DEF Typed
    <2>. QED BY <1>1, <2>2, <2>3, NestedTop, TypedParts
  <1>3. ~Idle(t)
    BY <1>1, <1>2 DEF RescuesOK, Idle
  <1>4. Active /\ open # <<>> /\ ~Idle(Top) /\ HasBlocks(Top) /\ Pending(Top) = {t.from}
    BY <1>1, <1>3 DEF Active, HasBlocks, Pending
  <1>5. /\ f.op = "begin" /\ f.part = "clause" /\ f.base = t.base /\ f.rescues = t.rescues
        /\ f.from = t.from /\ f.handler = t.handler /\ f.optional = TRUE
    <2> HIDE DEF t
    <2>. QED BY <1>1, <1>2 DEF FramesOf
  <1>6. Leads(graph, O \cup {t.from})
    BY <1>4, Before DEF Leads
  <1> HIDE DEF f
  <1>7. Under(Below, f)
    BY <1>4, <1>5, NestedTop, Before
  <1> HIDE DEF t
  <1>8. t.rescues[1].class = "any"
    <2>1. t.rescues \in Seq(Rescues)
      BY <1>2 DEF FramesOf
    <2>. QED BY <1>1, <2>1
  <1>9. RescuesOK(f) /\ ~Idle(f) /\ Pending(f) = {t.from}
    BY <1>1, <1>2, <1>5, <1>8 DEF RescuesOK, Idle, Pending, Rescuing
  <1>10. Leads(g1, O \cup Pending(f))
    BY <1>6, <1>9, LeadsCatch
  <1> HIDE DEF g1
  <1>11. FlowIs(g1, Append(Below, f))
    BY <1>2, <1>7, <1>9, <1>10, LeadsPushes DEF O
  <1>. QED BY <1>1, <1>11 DEF Flow, Finished

LEMMA RescueTypedFlow == ASSUME Typed, Flow, RescueTyped PROVE Flow'
  <1> DEFINE O  == PendingIn(Below)
             t  == Top
             f  == [t EXCEPT !.part = "class"]
  <1>1. /\ mode = "value" /\ open # <<>> /\ t.op = "begin" /\ t.part = "rescue"
        /\ t.rescues # <<>> /\ open' = Append(Below, f) /\ mode' = "statement" /\ graph' = graph
    BY DEF RescueTyped, RescueIs, TopIs, Generate
  <1>2. RescuesOK(t) /\ t \in FramesOf(Len(program)) /\ Below \in Seq(FramesOf(Len(program)))
    <2>1. Active
      BY <1>1 DEF Active
    <2>2. Nested(open)
      BY <2>1 DEF Flow, FlowIs
    <2>3. Below \in Seq(FramesOf(Len(program)))
      BY <1>1, StackChanges DEF Typed
    <2>. QED BY <1>1, <2>2, <2>3, NestedTop, TypedParts
  <1>3. t.optional = FALSE
    <2>1. t.optional \in BOOLEAN
      BY <1>2 DEF FramesOf
    <2>. QED BY <1>1, <1>2, <2>1 DEF RescuesOK
  <1>4. Active /\ open # <<>> /\ ~Idle(Top) /\ HasBlocks(Top) /\ Pending(Top) = {t.from}
    BY <1>1, <1>3 DEF Active, HasBlocks, Pending, Idle
  <1>5. /\ f.op = "begin" /\ f.part = "class" /\ f.base = t.base /\ f.rescues = t.rescues
        /\ f.from = t.from /\ f.handler = t.handler /\ f.optional = FALSE
    <2> HIDE DEF t
    <2>. QED BY <1>1, <1>2, <1>3 DEF FramesOf
  <1>6. Leads(graph, O \cup {t.from})
    BY <1>4, Before DEF Leads
  <1> HIDE DEF f
  <1>7. Under(Below, f)
    BY <1>4, <1>5, NestedTop, Before
  <1> HIDE DEF t
  <1>9. RescuesOK(f) /\ ~Idle(f) /\ Pending(f) = {t.from}
    BY <1>1, <1>2, <1>5 DEF RescuesOK, Idle, Pending, Rescuing
  <1>11. FlowIs(graph, Append(Below, f))
    BY <1>2, <1>6, <1>7, <1>9, LeadsPushes DEF O
  <1>. QED BY <1>1, <1>11 DEF Flow, Finished

LEMMA RescueClassFlow == ASSUME Typed, Flow, RescueClass PROVE Flow'
  <1> DEFINE k  == Size(graph)
             c  == graph.cur
             O  == PendingIn(Below)
             t  == Top
             compare == <<This, "compared">>
             args == <<value, Top.args[1]>>
             g1 == Create(graph, 2)
             g2 == Emit(g1, To("cond", <<value>>, <<k + 1 + 1, k + 1>>))
             g3 == EmitAt(g2, k + 1, To("unreachable", <<>>, <<>>))
             g4 == MoveTo(g3, k + 1 + 1)
             g5 == LangCall(g4, compare, args)
             m  == Size(g5) + 1
             g6 == Create(g5, 2)
             g7 == Emit(g6, To("cond", <<compare>>, <<m, m + 1>>))
             g8 == MoveTo(g7, m)
             g9 == Catch(g8, Head(Top.rescues))
             x  == m + 1
             f  == [t EXCEPT !.part = "clause", !.handler = x]
  <1>1. /\ mode = "value" /\ open # <<>> /\ t.op = "begin" /\ t.part = "class"
        /\ t.rescues # <<>> /\ Head(t.rescues).class = "typed"
        /\ \/ mode' = "crashed"
           \/ open' = Append(Below, f) /\ mode' = "body" /\ graph' = g9
    BY DEF RescueClass, RescueIs, TopIs, BeginsBody, Catches
  <1>2. Active /\ open # <<>> /\ ~Idle(Top) /\ HasBlocks(Top) /\ Pending(Top) = {t.from}
    BY <1>1 DEF Active, HasBlocks, Pending, Idle
  <1>3. /\ Stands(graph, k, (O \cup {t.from}) \cup {c}, c) /\ c \notin O \cup {t.from}
        /\ t \in FramesOf(Len(program)) /\ RescuesOK(t) /\ Below \in Seq(FramesOf(Len(program)))
        /\ k \in Nat /\ c \in 1 .. k /\ O \cup {t.from} \subseteq 1 .. k
    BY <1>2, Before
  <1>4. t.optional = FALSE
    <2>1. t.optional \in BOOLEAN
      BY <1>3 DEF FramesOf
    <2>. QED BY <1>1, <1>3, <2>1 DEF RescuesOK
  <1>5. /\ f.op = "begin" /\ f.part = "clause" /\ f.base = t.base /\ f.rescues = t.rescues
        /\ f.from = t.from /\ f.handler = m + 1 /\ f.optional = FALSE
    <2>1. x = m + 1
      OBVIOUS
    <2> HIDE DEF t, x, m
    <2>. QED BY <1>1, <1>3, <1>4, <2>1 DEF FramesOf
  <1> HIDE DEF f
  <1>6. Under(Below, f)
    BY <1>2, <1>5, NestedTop, Before
  <1> HIDE DEF t, k, O, c, compare, args
  <1>7. t.rescues[1].class = "typed"
    <2>1. t.rescues \in Seq(Rescues)
      BY <1>3 DEF FramesOf
    <2>. QED BY <1>1, <2>1
  <1> DEFINE S == O \cup {t.from}
  <1>8. /\ Stands(graph, k, S \cup {c}, c) /\ c \notin S \cup {k + 1, k + 2} /\ k + 1 + 1 = k + 2
        /\ k + 1 \in S \cup {k + 1, k + 2} /\ (S \cup {k + 1, k + 2}) \ {k + 1} = S \cup {k + 2} /\ k + 2 \notin S
    BY <1>3
  <1> HIDE DEF S
  <1>9. Stands(g1, k + 2, (S \cup {k + 1, k + 2}) \cup {c}, c)
    BY <1>8, StandsCreates
  <1> HIDE DEF g1
  <1>10. Stands(g2, k + 2, S \cup {k + 1, k + 2}, c)
    BY <1>8, <1>9, StandsEnds, EndInstrs
  <1> HIDE DEF g2
  <1>11. Stands(g3, k + 2, S \cup {k + 2}, c)
    <2>1. Stands(g3, k + 2, (S \cup {k + 1, k + 2}) \ {k + 1}, c)
      BY <1>8, <1>10, StandsEmitAt, EndInstrs
    <2>. QED BY <1>8, <2>1
  <1> HIDE DEF g3
  <1>12. Stands(g4, k + 2, S \cup {k + 2}, k + 2)
    BY <1>3, <1>8, <1>11, StandsMoveTo
  <1>13. Leads(g4, S)
    BY <1>8, <1>12 DEF Leads
  <1> HIDE DEF g4
  <1>14. Leads(g5, S)
    BY <1>13, LeadsLangCall
  <1> HIDE DEF g5
  <1>15. PICK l, d : Stands(g5, l, S \cup {d}, d) /\ d \notin S
    BY <1>14 DEF Leads
  <1>16. l = Size(g5) /\ l \in Nat /\ S \cup {d} \subseteq 1 .. l /\ m = l + 1
    BY <1>15, ShapedParts DEF Stands, Ongoing
  <1>17. Stands(g6, l + 2, (S \cup {l + 1, l + 2}) \cup {d}, d)
    BY <1>15, StandsCreates
  <1> HIDE DEF g6, m
  <1>18. Stands(g7, l + 2, S \cup {l + 1, l + 2}, d)
    <2>1. d \notin S \cup {l + 1, l + 2}
      BY <1>15, <1>16
    <2>. QED BY <1>17, <2>1, StandsEnds, EndInstrs
  <1> HIDE DEF g7
  <1>19. Stands(g8, l + 2, S \cup {l + 1, l + 2}, l + 1)
    BY <1>16, <1>18, StandsMoveTo
  <1>20. S \cup {l + 1, l + 2} = (S \cup {l + 2}) \cup {l + 1} /\ l + 1 \notin S \cup {l + 2}
    BY <1>16
  <1>21. Leads(g8, S \cup {l + 2})
    BY <1>19, <1>20 DEF Leads
  <1> HIDE DEF g8
  <1>22. Leads(g9, S \cup {l + 2})
    BY <1>21, LeadsCatch
  <1> HIDE DEF g9
  <1>23. f.handler = l + 2 /\ t.from # l + 2 /\ S = O \cup {t.from}
    <2>1. S = O \cup {t.from} /\ t.from \in 1 .. l
      BY <1>16 DEF S
    <2>. QED BY <1>5, <1>16, <2>1
  <1>24. RescuesOK(f) /\ ~Idle(f) /\ Pending(f) = {t.from, l + 2}
    BY <1>1, <1>3, <1>5, <1>7, <1>23 DEF RescuesOK, Idle, Pending, Rescuing
  <1>25. Leads(g9, O \cup Pending(f))
    <2>1. S \cup {l + 2} = O \cup {t.from, l + 2}
      BY <1>23
    <2>. QED BY <1>22, <1>24, <2>1
  <1>26. FlowIs(g9, Append(Below, f))
    BY <1>3, <1>6, <1>24, <1>25, LeadsPushes DEF O
  <1>. QED BY <1>1, <1>26, FlowCrashes DEF Flow, Finished

\* What is left of a list when its first rescue is done.
LEMMA TailOfRescues ==
  ASSUME NEW rescues \in Seq(Rescues), rescues # <<>>, AnyIsLast(rescues)
  PROVE  /\ AnyIsLast(Tail(rescues))
         /\ rescues[1].class = "any" => Tail(rescues) = <<>>
  <1>1. PICK l \in Nat \ {0} : l = Len(rescues) /\ DOMAIN rescues = 1 .. l
    BY EmptySeq
  <1>2. /\ Tail(rescues) \in Seq(Rescues) /\ Len(Tail(rescues)) = l - 1 /\ DOMAIN Tail(rescues) = 1 .. l - 1
        /\ \A i \in 1 .. l - 1 : Tail(rescues)[i] = rescues[i + 1]
    BY <1>1, HeadTailProperties
  <1>3. \A i \in 1 .. l - 1 : i + 1 \in 1 .. l /\ (i + 1 = l => i = l - 1)
    BY <1>1
  <1>4. AnyIsLast(Tail(rescues))
    BY <1>1, <1>2, <1>3 DEF AnyIsLast
  <1>5. ASSUME rescues[1].class = "any" PROVE Tail(rescues) = <<>>
    <2>1. l = 1
      BY <1>1, <1>5 DEF AnyIsLast
    <2>. QED BY <1>2, <2>1, EmptySeq
  <1>. QED BY <1>4, <1>5

LEMMA RescueClauseFlow == ASSUME Typed, Flow, RescueClause PROVE Flow'
  <1> DEFINE k  == Size(graph)
             O  == PendingIn(Below)
             t  == Top
             h  == Top.handler
             g1 == EndCatch
             v  == EndCatch.cur
             g2 == Joins(g1, Top, value, False, v)
             g3 == Emit(g2, To("br", <<>>, <<Ensure(Top)>>))
             g4 == MoveTo(g3, h)
             x  == Tail(t.rescues)
             f  == [t EXCEPT !.part = "rescue", !.rescues = x]
  <1>1. /\ mode = "value" /\ open # <<>> /\ t.op = "begin" /\ t.part = "clause"
        /\ open' = Append(Below, f) /\ mode' = "value" /\ graph' = g4
    BY DEF RescueClause, Has, TopIs, Yields
  <1>2. Active /\ open # <<>> /\ ~Idle(Top) /\ HasBlocks(Top) /\ Rescuing(Top)
        /\ Pending(Top) = IF t.optional THEN {t.from} ELSE {t.from, h}
    BY <1>1 DEF Active, HasBlocks, Pending, Idle, Rescuing
  <1>3. /\ t \in FramesOf(Len(program)) /\ RescuesOK(t) /\ Below \in Seq(FramesOf(Len(program)))
        /\ k \in Nat /\ Top.base >= 1 /\ Top.base + 3 <= k /\ Top.base \in Int
        /\ \A b \in O : b <= Top.base
    BY <1>2, Before
  <1>4. Ensure(Top) \in 1 .. k /\ h \in Int /\ h \notin O /\ h # t.from /\ t.optional \in BOOLEAN
    <2>1. h \in Top.base + 4 .. k
      BY <1>2, TypedParts DEF FrameOK
    <2>2. h # t.from /\ t.optional \in BOOLEAN
      BY <1>1, <1>2, <1>3 DEF RescuesOK, FramesOf
    <2>. QED BY <1>3, <2>1, <2>2 DEF Ensure
  <1>5. /\ f.op = "begin" /\ f.part = "rescue" /\ f.base = t.base /\ f.rescues = Tail(t.rescues)
        /\ f.from = t.from /\ f.handler = t.handler /\ f.optional = t.optional
    <2>1. x = Tail(t.rescues)
      OBVIOUS
    <2> HIDE DEF t, x
    <2>. QED BY <1>1, <1>3, <2>1 DEF FramesOf
  <1> HIDE DEF f
  <1>6. Under(Below, f)
    BY <1>2, <1>5, NestedTop, Before
  <1>7. Leads(graph, O \cup Pending(Top))
    BY <1>2, Before DEF Leads
  <1> DEFINE S == O \cup Pending(Top)
  <1>8. Leads(g1, S)
    BY <1>7, LeadsLangCall DEF EndCatch
  <1>9. PICK l, d : Stands(g1, l, S \cup {d}, d) /\ d \notin S
    BY <1>8 DEF Leads
  <1>10. k <= l /\ l \in Nat
    <2>1. Size(g1) \in Nat /\ Size(g1) >= k
      <3>1. GraphOK(graph, Len(program)) /\ handlers \in Seq(1 .. Size(graph))
        BY DEF Typed
      <3>2. <<Top.stmt, "ended">> \in IdsUpTo(Len(program)) /\ <<>> \in Seq(IdsUpTo(Len(program)))
        BY <1>1, ValueParts DEF Tags
      <3>3. Len(program) \in Nat
        BY TypedParts
      <3>4. Size(LangCall(graph, <<Top.stmt, "ended">>, <<>>)) \in Size(graph) .. Size(graph) + 1
        BY <3>1, <3>2, <3>3, LangCallOK
      <3>. QED BY <1>3, <3>4 DEF EndCatch
    <2>. QED BY <1>9, <2>1 DEF Stands
  <1> HIDE DEF g1, v, S
  <1>11. Stands(g2, l, S \cup {d}, d)
    <2>1. Ensure(Top) \in 1 .. l
      BY <1>3, <1>4, <1>10
    <2>. QED BY <1>9, <2>1, StandsJoins
  <1> HIDE DEF g2
  <1>12. Stands(g3, l, S, d)
    BY <1>9, <1>11, StandsEnds, EndInstrs
  <1> HIDE DEF g3
  <1>13. Stands(g4, l, S, h)
    BY <1>4, <1>12, StandsMoveTo
  <1> HIDE DEF g4, k, O, h, t
  <1>14. /\ AnyIsLast(t.rescues) /\ t.rescues \in Seq(Rescues) /\ t.rescues # <<>>
         /\ t.optional <=> t.rescues[1].class = "any"
    BY <1>1, <1>3 DEF RescuesOK, FramesOf
  <1>15. RescuesOK(f) /\ Pending(f) = {t.from} /\ (Idle(f) <=> t.optional)
    <2>1. AnyIsLast(Tail(t.rescues)) /\ (t.optional => Tail(t.rescues) = <<>>)
      BY <1>14, TailOfRescues
    <2>2. Rescuing(t)
      BY <1>1 DEF Rescuing
    <2>3. t.from # t.handler
      BY <1>1, <1>3, <2>2 DEF RescuesOK
    <2>. QED BY <1>5, <2>1, <2>3 DEF RescuesOK, Pending, Idle
  <1>16. CASE t.optional
    <2>1. /\ Nested(Append(Below, f)) /\ PendingIn(Append(Below, f)) = O \cup Pending(f)
          /\ Idles(Append(Below, f))
      BY <1>3, <1>6, <1>15, <1>16, NestedAppend DEF O
    <2>2. S = O \cup Pending(f)
      BY <1>2, <1>15, <1>16 DEF S
    <2>3. FlowIs(g4, Append(Below, f))
      <3>1. Size(g4) = l /\ g4.cur = h
        BY <1>13 DEF Stands
      <3>. QED BY <1>13, <2>1, <2>2, <3>1 DEF FlowIs
    <2>. QED BY <1>1, <2>3 DEF Flow, Finished
  <1>17. CASE ~t.optional
    <2>1. S = (O \cup Pending(f)) \cup {h} /\ h \notin O \cup Pending(f)
      BY <1>2, <1>4, <1>15, <1>17 DEF S
    <2>2. FlowIs(g4, Append(Below, f))
      BY <1>3, <1>6, <1>13, <1>15, <1>17, <2>1, FlowPushes DEF O
    <2>. QED BY <1>1, <2>2 DEF Flow, Finished
  <1>. QED BY <1>16, <1>17

LEMMA BeginFinishFlow == ASSUME Typed, Flow, BeginFinish PROVE Flow'
  <1> DEFINE k  == Size(graph)
             c  == graph.cur
             O  == PendingIn(Below)
             t  == Top
             g1 == Joins(graph, Top, NullPtr, True, Top.handler)
             g2 == Emit(g1, To("br", <<>>, <<Ensure(Top)>>))
             g3 == IF Top.optional THEN graph ELSE g2
             g4 == MoveTo(g3, Top.from)
  <1>1. /\ mode = "value" /\ open # <<>> /\ t.op = "begin" /\ t.part = "rescue"
        /\ open' = Below /\ mode' = "value" /\ graph' = g4
    BY DEF BeginFinish, Has, Yields
  <1>2. Active /\ HasBlocks(Top) /\ Rescuing(Top) /\ Pending(Top) = {t.from} /\ (Idle(Top) <=> t.optional)
    BY <1>1 DEF Active, HasBlocks, Pending, Rescuing, Idle
  <1>3. /\ PendingIn(open) = O \cup {t.from} /\ Nested(Below) /\ ~Idles(Below)
        /\ \A b \in O : b <= Top.base
    <2>1. Nested(open)
      BY <1>2 DEF Flow, FlowIs
    <2>. QED BY <1>1, <1>2, <2>1, NestedTop
  <1>4. Ensure(Top) \in 1 .. k /\ t.from \in Int /\ t.from \notin O
    <2>1. Top.from \in Top.base + 4 .. k /\ Top.base >= 1 /\ Top.base + 3 <= k /\ k \in Nat /\ Top.base \in Int
      BY <1>1, <1>2, TypedParts DEF FrameOK
    <2>. QED BY <1>3, <2>1 DEF Ensure
  <1>5. Stands(g3, k, O \cup {t.from}, c)
    <2>1. CASE t.optional
      BY <1>1, <1>2, <1>3, <2>1, NotIdle DEF Flow, FlowIs
    <2>2. CASE ~t.optional
      <3>1. Stands(graph, k, (O \cup {t.from}) \cup {c}, c) /\ c \notin O \cup {t.from}
        BY <1>1, <1>2, <2>2, Before
      <3> HIDE DEF k, O, c
      <3>2. Stands(g1, k, (O \cup {t.from}) \cup {c}, c)
        BY <1>4, <3>1, StandsJoins
      <3> HIDE DEF g1
      <3>3. Stands(g2, k, O \cup {t.from}, c)
        BY <3>1, <3>2, StandsEnds, EndInstrs
      <3>. QED BY <2>2, <3>3
    <2>. QED BY <2>1, <2>2
  <1> HIDE DEF g3, k, O, c
  <1>6. Stands(g4, k, O \cup {t.from}, t.from)
    BY <1>4, <1>5, StandsMoveTo
  <1> HIDE DEF g4, t
  <1>7. FlowIs(g4, Below)
    BY <1>3, <1>4, <1>6, FlowPops DEF O
  <1>. QED BY <1>1, <1>7 DEF Flow, Finished

-----------------------------------------------------------------------------
(* The whole of generation.                                                *)

LEMMA FinishFlow == ASSUME Typed, Flow, Finish PROVE Flow'
  <1> DEFINE k == Size(graph)
             c == graph.cur
             g == Emit(graph, To("ret", <<value>>, <<>>))
  <1>1. mode = "value" /\ open = <<>> /\ mode' = "finished" /\ graph' = g
    BY DEF Finish
  <1>2. PendingIn(open) = {}
    BY <1>1 DEF PendingIn
  <1>3. Stands(graph, k, {} \cup {c}, c)
    BY <1>1, <1>2, NotIdle, Standing DEF Active, GoesOnIn
  <1> HIDE DEF k, c
  <1>4. Stands(g, k, {}, c)
    BY <1>3, StandsEnds, EndInstrs
  <1> HIDE DEF g
  <1>5. Size(g) = k /\ g.cur = c
    BY <1>4 DEF Stands
  <1>. QED BY <1>1, <1>4, <1>5 DEF Flow, Active

LEMMA InitFlow == Init => Flow
  <1> SUFFICES ASSUME Init PROVE Flow
    OBVIOUS
  <1> DEFINE f == Running("block", "list", 1)
             block == [code |-> <<>>, phi |-> {}]
             g == [blocks |-> <<block>>, cur |-> 1, begins |-> {}]
  <1>1. graph = g /\ open = <<f>> /\ mode = "value"
    BY DEF Init
  <1>2. f.op = "block"
    BY DEF Running
  <1>3. Shaped(g) /\ Size(g) = 1 /\ g.cur = 1 /\ g.blocks[1] = block
    <2>1. g \in [blocks : Seq([code : Seq({}), phi : SUBSET {}]), cur : Int, begins : SUBSET {}]
      OBVIOUS
    <2>. QED BY <2>1 DEF Shaped, Size
  <1>4. EndsAt(g.blocks[1].code) = {}
    BY <1>3 DEF EndsAt
  <1> HIDE DEF f, g
  <1>5. Ongoing(g) = {1}
    BY <1>3, <1>4 DEF Ongoing
  <1>6. Stands(g, 1, {1}, 1)
    <2>1. (1 .. 1) \ {1} = {}
      OBVIOUS
    <2>. QED BY <1>3, <1>5, <2>1 DEF Stands
  <1>7. ~HasBlocks(f) /\ RescuesOK(f) /\ ~Idle(f) /\ Pending(f) = {}
    BY <1>2, PendingParts DEF HasBlocks, RescuesOK, Idle
  <1>8. Nested(open) /\ PendingIn(open) = {} /\ ~Idles(open)
    <2>1. DOMAIN open = {1} /\ open[1] = f /\ Len(open) = 1
      BY <1>1
    <2>. QED BY <1>7, <2>1 DEF Nested, PendingIn, Idles, Last
  <1>9. FlowIs(graph, open)
    BY <1>1, <1>3, <1>6, <1>8 DEF FlowIs
  <1>. QED BY <1>1, <1>9 DEF Flow, Finished

LEMMA NextFlow == AnyComesLast /\ Typed /\ Flow /\ [Next]_vars => Flow'
  <1> SUFFICES ASSUME AnyComesLast, Typed, Flow, [Next]_vars PROVE Flow'
    OBVIOUS
  <1>1. CASE \/ Literal \/ Absent \/ HolderStarts \/ BlockStarts \/ BlockGoesOn \/ BlockEnds
             \/ AssignOperand \/ IndexStarts \/ IndexRight \/ CallOperand \/ ReturnOperand
             \/ IndexOperand
    BY <1>1, SimpleSteps, QuietFlow
  <1>2. CASE \/ \E n \in 0 .. MaxOperands : CallStarts(n) \/ ReturnStarts(n)
             \/ \E name \in Names : ReadStarts(name) \/ AssignStarts(name)
             \/ \E else \in BOOLEAN : IfStarts(else)
             \/ \E whens \in 1 .. 2 : CaseStarts(whens)
    <2>1. 0 .. MaxOperands \subseteq Nat
      BY CodegenAssumption
    <2>. QED BY <1>2, <2>1, StartSteps, QuietFlow
  <1>3. CASE IfCondition \/ TrueBranch \/ FalseBranch \/ WhileStarts \/ WhileBody \/ WhileCondition
    BY <1>3, IfConditionFlow, TrueBranchFlow, FalseBranchFlow, WhileStartsFlow, WhileBodyFlow, WhileConditionFlow
  <1>4. CASE \E rescues \in RescueLists, ensured \in BOOLEAN : BeginStarts(rescues, ensured)
    BY <1>4, BeginStartsFlow
  <1>5. CASE BeginMain \/ BeginEnsure \/ RescueAny \/ RescueTyped \/ RescueClass \/ RescueClause \/ BeginFinish
    BY <1>5, BeginMainFlow, BeginEnsureFlow, RescueAnyFlow, RescueTypedFlow, RescueClassFlow, RescueClauseFlow, BeginFinishFlow
  <1>6. CASE Finish
    BY <1>6, FinishFlow
  <1>7. CASE UNCHANGED vars
    BY <1>7 DEF vars, Flow, FlowIs, Stands, Active, Finished
  <1>. QED BY <1>1, <1>2, <1>3, <1>4, <1>5, <1>6, <1>7 DEF Next

\* When all is generated no block is left without an end, and none has two.
LEMMA FlowImplies == Flow => BlocksEndOnce
  <1> SUFFICES ASSUME Flow, Finished PROVE BlocksEndOnce
    BY DEF BlocksEndOnce
  <1>1. \A b \in 1 .. Size(graph) : EndsAt(graph.blocks[b].code) = {Len(graph.blocks[b].code)}
    BY DEF Flow, Stands
  <1>. QED BY <1>1 DEF BlocksEndOnce, Blocks, EndsAt

\* Whatever program is generated, of whatever depth, each of its blocks is ended once and by
\* its last instruction (returns aside): however the parts of a construct split blocks and
\* move the insertion point, every block that a function has opened is come back to, and
\* none that has ended is.  Only a rescue for any exception has to be the last of its begin.
THEOREM EachBlockEndsOnce == AnyComesLast => (Spec => []BlocksEndOnce)
  <1> SUFFICES ASSUME AnyComesLast PROVE Spec => []BlocksEndOnce
    OBVIOUS
  <1>1. Init => Typed /\ Flow
    BY InitTyped, InitFlow
  <1>2. (Typed /\ Flow) /\ [Next]_vars => (Typed /\ Flow)'
    BY NextTyped, NextFlow
  <1>3. Typed /\ Flow => BlocksEndOnce
    BY FlowImplies
  <1>. QED BY <1>1, <1>2, <1>3, PTL DEF Spec
=============================================================================
