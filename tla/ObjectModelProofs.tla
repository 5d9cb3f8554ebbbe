-------------------------- MODULE ObjectModelProofs --------------------------
(***************************************************************************)
(* Proofs about ObjectModel, for every heap size, every set of names and   *)
(* every bound: an object has the fields of its type, chains of parents    *)
(* and holders end, the tags that findMethod and defineClass cast by are   *)
(* truthful, a class or module has one name, constants and identities are  *)
(* final, the nearest entry is the one a lookup finds, and a method is     *)
(* never lost.                                                             *)
(***************************************************************************)
EXTENDS ObjectModel, SequenceTheorems, WellFoundedInduction, TLAPS

\* Addresses are handed out in order.
LiveIsPrefix ==
  \A o, q \in Objs : kind[o] # "free" /\ q < o => kind[q] # "free"

\* Every object has a class, and that class is an object.
LiveHaveClass ==
  \A o \in Objs : kind[o] # "free" => objectClass[o] \in Objs /\ kind[objectClass[o]] # "free"

\* What a constant is bound to has been allocated.
ConstsAreLive ==
  \A o \in Objs, n \in ConstNames : consts[o][n] # NULL => kind[consts[o][n]] # "free"

\* self_new is the singleton method new of BasicObject, a class, and no other entry
\* of any table.
OnlyNewIsNew ==
  /\ kind[BasicObjectClass] = "class"
  /\ \A o \in Objs, m \in MethodNames : methods[o][m] # SelfNew
  /\ \A o \in Objs, m \in MethodNames : singleton[o][m] = SelfNew => o = BasicObjectClass

IInv ==
  /\ TypeOK
  /\ LiveIsPrefix
  /\ LiveHaveClass
  /\ ConstsAreLive
  /\ ChainsEnd
  /\ TagMatchesType
  /\ OnlyNewIsNew
  /\ OneNameEach
  /\ BodyIsBound

\* The entry of new is an entry.
LEMMA SelfNewIsMeta == SelfNew \in Metas
BY ObjectModelAssumption DEF SelfNew, Meta, Metas, Native

-----------------------------------------------------------------------------
(* The initial state.                                                      *)

\* BasicClasses::init, PrimaryConstants::init and loadImpl leave a state in which
\* everything the invariant asks for holds.
LEMMA BootState == Init => IInv
<1> SUFFICES ASSUME Init PROVE IInv
  OBVIOUS
<1> USE ObjectModelAssumption DEF Init, Objs, RootModule, BasicObjectClass, ObjectClass,
      ClassClass, ModuleClass, KernelModule, GlobalScope, BuiltinCount, Builtins
<1>1. TypeOK
  <2>1. kind \in [Objs -> Kinds]
    BY DEF Kinds
  <2>2. objectClass \in [Objs -> Objs \cup {NULL}] /\ parent \in [Objs -> Objs \cup {NULL}]
        /\ holder \in [Objs -> Objs \cup {NULL}]
    OBVIOUS
  <2>3. consts \in [Objs -> [ConstNames -> Objs \cup {NULL}]]
    BY DEF BootConsts, NoConsts
  <2>4. Meta(Native, 0, FALSE, FALSE) \in Metas /\ SelfNew \in Metas /\ Stub \in Metas
    BY DEF SelfNew, Stub, Meta, Metas
  <2>5. NoMethods \in [MethodNames -> Metas \cup {NULL}]
    BY DEF NoMethods
  <2>6. methods \in [Objs -> [MethodNames -> Metas \cup {NULL}]]
    BY <2>4, <2>5
  <2>7. singleton \in [Objs -> [MethodNames -> Metas \cup {NULL}]]
    BY <2>4, <2>5
  <2>8. bodies \in Seq(Bodies)
    OBVIOUS
  <2>9. last \in Outcomes
    BY DEF Outcomes, Ops
  <2>10. FieldsOfKind
    <3> SUFFICES ASSUME NEW o \in Objs
                 PROVE  /\ kind[o] # "class" => parent[o] = NULL
                        /\ kind[o] \notin {"module", "class"} =>
                             holder[o] = NULL /\ consts[o] = NoConsts /\ methods[o] = NoMethods
                        /\ kind[o] = "plain" =>
                             objectClass[o] \in Objs /\ kind[objectClass[o]] = "class"
                        /\ kind[o] = "free" => objectClass[o] = NULL /\ singleton[o] = NoMethods
      BY DEF FieldsOfKind
    <3>1. CASE o \in Builtins
      <4>1. kind[o] # "free" /\ holder[o] = NULL
        BY <3>1
      <4>2. kind[o] # "class" => parent[o] = NULL
        BY <3>1
      <4>3. kind[o] \notin {"module", "class"} => consts[o] = NoConsts /\ methods[o] = NoMethods
        <5>1. kind[o] \notin {"module", "class"} => o # RootModule /\ o # BasicObjectClass
          OBVIOUS
        <5>2. o # RootModule => consts[o] = NoConsts
          OBVIOUS
        <5>3. o # BasicObjectClass => methods[o] = NoMethods
          OBVIOUS
        <5> QED
          BY <5>1, <5>2, <5>3
      <4>4. kind[o] = "plain" => objectClass[o] = ObjectClass
        BY <3>1
      <4>5. ObjectClass \in Objs /\ kind[ObjectClass] = "class"
        OBVIOUS
      <4> QED
        BY <4>1, <4>2, <4>3, <4>4, <4>5
    <3>2. CASE o \notin Builtins
      <4>1. kind[o] = "free" /\ objectClass[o] = NULL /\ parent[o] = NULL /\ holder[o] = NULL
        BY <3>2
      <4>2. consts[o] = NoConsts
        BY <3>2
      <4>3. methods[o] = NoMethods
        <5>1. o # BasicObjectClass
          BY <3>2
        <5>2. o # BasicObjectClass => methods[o] = NoMethods
          OBVIOUS
        <5> QED
          BY <5>1, <5>2
      <4>4. singleton[o] = NoMethods
        BY <3>2
      <4> QED
        BY <4>1, <4>2, <4>3, <4>4
    <3> QED
      BY <3>1, <3>2
  <2> QED
    BY <2>1, <2>2, <2>3, <2>6, <2>7, <2>8, <2>9, <2>10 DEF TypeOK
<1>2. LiveIsPrefix /\ LiveHaveClass /\ ChainsEnd
  <2>1. LiveIsPrefix
    BY DEF LiveIsPrefix
  <2>2. LiveHaveClass
    BY DEF LiveHaveClass
  <2>3. ChainsEnd
    BY DEF ChainsEnd, Live
  <2> QED
    BY <2>1, <2>2, <2>3
<1>3. ConstsAreLive
  BY DEF ConstsAreLive, BootConsts, NoConsts
<1>4. TagMatchesType
  BY DEF TagMatchesType, Live, TaggedModule, Running, Fatal
<1>5. OnlyNewIsNew
  <2>1. NULL # SelfNew
    BY SelfNewIsMeta
  <2>2. Meta(Native, 0, FALSE, FALSE) # SelfNew /\ Stub # SelfNew
    BY DEF SelfNew, Stub, Meta
  <2>3. kind[BasicObjectClass] = "class"
    OBVIOUS
  <2>4. ASSUME NEW o \in Objs, NEW m \in MethodNames PROVE methods[o][m] # SelfNew
    <3>1. methods[o][m] \in {NULL, Meta(Native, 0, FALSE, FALSE)}
      BY DEF NoMethods
    <3> QED
      BY <2>1, <2>2, <3>1
  <2>5. ASSUME NEW o \in Objs, NEW m \in MethodNames, singleton[o][m] = SelfNew
        PROVE  o = BasicObjectClass
    <3>1. o # BasicObjectClass => singleton[o][m] \in {NULL, Stub}
      BY DEF NoMethods
    <3> QED
      BY <2>1, <2>2, <2>5, <3>1
  <2> QED
    BY <2>3, <2>4, <2>5 DEF OnlyNewIsNew
<1>6. BodyIsBound /\ OneNameEach
  BY DEF BodyIsBound, OneNameEach, Live
<1> QED
  BY <1>1, <1>2, <1>3, <1>4, <1>5, <1>6 DEF IInv

-----------------------------------------------------------------------------
(* Walks up the chains.                                                    *)

\* A set of numbers that is not empty has a smallest one.
LEMMA SmallestExists ==
  ASSUME NEW T \in SUBSET Nat, T # {}
  PROVE  \E x \in T : \A y \in T : x <= y
<1> DEFINE Less == {ss \in Nat \X Nat : ss[1] < ss[2]}
<1>1. IsWellFoundedOn(Less, Nat)
  BY NatLessThanWellFounded DEF OpToRel
<1> HIDE DEF Less
<1>2. PICK x \in T : \A y \in T : <<y, x>> \notin Less
  BY <1>1, WFMin
<1>3. \A y \in T : ~ (y < x)
  BY <1>2 DEF Less
<1> QED
  BY <1>2, <1>3

\* A function on the objects may be defined by what it is at an object where the walk
\* stops, and elsewhere by a step from what it is at an older one.
Walk(Stop, base, V, up, step) ==
  /\ step \in [Objs \X V -> V]
  /\ \A o \in Objs : o \in Stop => base[o] \in V
  /\ \A o \in Objs : o \notin Stop => up[o] \in Objs /\ up[o] < o

LEMMA WalkExists ==
  ASSUME NEW Stop, NEW base, NEW V, NEW up, NEW step, Walk(Stop, base, V, up, step)
  PROVE  \E f \in [Objs -> V] :
           f = [o \in Objs |-> IF o \in Stop THEN base[o] ELSE step[<<o, f[up[o]]>>]]
<1> DEFINE Below(n) == {o \in Objs : o < n}
           Walks(n, f) ==
             f = [o \in Below(n) |-> IF o \in Stop THEN base[o] ELSE step[<<o, f[up[o]]>>]]
           Failing == {n \in Nat : ~ \E f \in [Below(n) -> V] : Walks(n, f)}
<1> USE DEF Walk
<1>1. ASSUME NEW n \in Nat, NEW f \in [Below(n) -> V], Walks(n, f)
      PROVE  \E g \in [Below(n + 1) -> V] : Walks(n + 1, g)
  <2> DEFINE at(o) == IF o \in Stop THEN base[o] ELSE step[<<o, f[up[o]]>>]
             g == [o \in Below(n + 1) |-> at(o)]
  <2>1. ASSUME NEW o \in Below(n + 1), o \notin Stop PROVE up[o] \in Below(n)
    BY <2>1 DEF Objs
  <2>2. g \in [Below(n + 1) -> V]
    <3>1. ASSUME NEW o \in Below(n + 1) PROVE at(o) \in V
      <4>1. CASE o \in Stop
        BY <4>1
      <4>2. CASE o \notin Stop
        BY <2>1, <4>2
      <4> QED
        BY <4>1, <4>2
    <3> HIDE DEF at
    <3> QED
      BY <3>1
  <2>3. ASSUME NEW o \in Below(n) PROVE o \in Below(n + 1) /\ f[o] = at(o)
    BY <1>1 DEF Objs
  <2>4. ASSUME NEW o \in Below(n + 1), o \notin Stop PROVE g[up[o]] = f[up[o]]
    <3>1. up[o] \in Below(n)
      BY <2>1, <2>4
    <3> HIDE DEF at
    <3> QED
      BY <2>3, <3>1
  <2>5. \A o \in Below(n + 1) : at(o) = IF o \in Stop THEN base[o] ELSE step[<<o, g[up[o]]>>]
    BY <2>4
  <2>6. Walks(n + 1, g)
    <3> HIDE DEF at
    <3> QED
      BY <2>5
  <2> QED
    BY <2>2, <2>6
<1>2. 0 \notin Failing
  <2>1. Below(0) = {}
    BY DEF Objs
  <2> DEFINE e == [o \in Below(0) |-> 0]
  <2>2. e \in [Below(0) -> V] /\ Walks(0, e)
    BY <2>1
  <2> QED
    BY <2>2
<1>3. Failing = {}
  <2> SUFFICES ASSUME Failing # {} PROVE FALSE
    OBVIOUS
  <2>1. PICK n \in Failing : \A m \in Failing : n <= m
    <3> HIDE DEF Failing
    <3>1. Failing \in SUBSET Nat
      BY DEF Failing
    <3> QED
      BY <3>1, SmallestExists
  <2>2. n \in Nat /\ n # 0
    BY <1>2
  <2>3. n - 1 \in Nat /\ n - 1 \notin Failing
    <3> HIDE DEF Failing
    <3> QED
      BY <2>1, <2>2
  <2>4. PICK f \in [Below(n - 1) -> V] : Walks(n - 1, f)
    BY <2>3
  <2>5. \E g \in [Below(n - 1 + 1) -> V] : Walks(n - 1 + 1, g)
    <3> HIDE DEF Below, Walks
    <3> QED
      BY <1>1, <2>3, <2>4
  <2>6. n - 1 + 1 = n
    BY <2>2
  <2>7. \E g \in [Below(n) -> V] : Walks(n, g)
    <3> HIDE DEF Below, Walks
    <3> QED
      BY <2>5, <2>6
  <2> QED
    BY <2>1, <2>7
<1>4. HeapSize \in Nat /\ Below(HeapSize) = Objs
  BY ObjectModelAssumption DEF Objs
<1>5. \E f \in [Below(HeapSize) -> V] : Walks(HeapSize, f)
  BY <1>3, <1>4
<1> QED
  BY <1>4, <1>5

\* What the lookups can end in.
Found == Metas \cup {NULL, NullDeref, WildRead}

\* What FindInstance says of itself: a walk up the parents, to the first entry.
InstanceLookupWalks(m) ==
  \A o \in Objs :
    FindInstance(m)[o] =
      IF kind[o] \notin {"module", "class"} THEN WildRead
      ELSE IF methods[o][m] # NULL THEN methods[o][m]
      ELSE IF kind[o] = "module" THEN WildRead
      ELSE IF parent[o] = NULL THEN NullDeref
      ELSE FindInstance(m)[parent[o]]

LEMMA FindInstanceWalks == IInv => \A m \in MethodNames : InstanceLookupWalks(m)
<1> SUFFICES ASSUME IInv, NEW m \in MethodNames PROVE InstanceLookupWalks(m)
  OBVIOUS
<1> DEFINE Stop == {o \in Objs : \/ kind[o] # "class"
                                 \/ methods[o][m] # NULL
                                 \/ parent[o] = NULL}
           base == [o \in Objs |-> IF kind[o] \notin {"module", "class"} THEN WildRead
                                   ELSE IF methods[o][m] # NULL THEN methods[o][m]
                                   ELSE IF kind[o] = "module" THEN WildRead ELSE NullDeref]
           step == [x \in Objs \X Found |-> x[2]]
<1>1. \A o \in Objs : methods[o][m] \in Metas \cup {NULL}
  BY DEF IInv, TypeOK
<1>2. \A o \in Objs : o \in Stop => base[o] \in Found
  BY <1>1 DEF Found
<1>3. \A o \in Objs : o \notin Stop => parent[o] \in Objs /\ parent[o] < o
  BY DEF IInv, TypeOK, ChainsEnd, Live
<1>4. step \in [Objs \X Found -> Found]
  OBVIOUS
<1>5. PICK f \in [Objs -> Found] :
        f = [o \in Objs |-> IF o \in Stop THEN base[o] ELSE step[<<o, f[parent[o]]>>]]
  <2>1. Walk(Stop, base, Found, parent, step)
    <3> HIDE DEF Stop, base, step
    <3> QED
      BY <1>2, <1>3, <1>4 DEF Walk
  <2> HIDE DEF Stop, base, step
  <2> QED
    BY <2>1, WalkExists
<1> DEFINE value(g, o) ==
             IF kind[o] \notin {"module", "class"} THEN WildRead
             ELSE IF methods[o][m] # NULL THEN methods[o][m]
             ELSE IF kind[o] = "module" THEN WildRead
             ELSE IF parent[o] = NULL THEN NullDeref
             ELSE g[parent[o]]
<1>6. ASSUME NEW o \in Objs PROVE f[o] = value(f, o)
  <2>1. CASE o \in Stop
    <3>1. f[o] = base[o]
      BY <1>5, <2>1
    <3> QED
      BY <2>1, <3>1
  <2>2. CASE o \notin Stop
    <3>1. parent[o] \in Objs /\ f[parent[o]] \in Found
      BY <1>3, <2>2
    <3>2. f[o] = step[<<o, f[parent[o]]>>]
      BY <1>5, <2>2
    <3>3. f[o] = f[parent[o]]
      BY <3>1, <3>2
    <3> QED
      BY <2>2, <3>3
  <2> QED
    BY <2>1, <2>2
<1>7. f = [o \in Objs |-> value(f, o)]
  <2> HIDE DEF value
  <2> QED
    BY <1>6
<1>8. FindInstance(m) = [o \in Objs |-> value(FindInstance(m), o)]
  BY <1>7 DEF FindInstance
<1> QED
  BY <1>8 DEF InstanceLookupWalks

LEMMA FindInstanceWalksNext == (IInv => \A m \in MethodNames : InstanceLookupWalks(m))'
BY FindInstanceWalks, PTL

\* What FindSingleton says of itself.
SingletonLookupWalks(m) ==
  \A o \in Objs :
    FindSingleton(m)[o] =
      IF singleton[o][m] # NULL THEN singleton[o][m]
      ELSE IF kind[o] # "class" THEN WildRead
      ELSE IF parent[o] = NULL THEN NullDeref
      ELSE FindSingleton(m)[parent[o]]

LEMMA FindSingletonWalks == IInv => \A m \in MethodNames : SingletonLookupWalks(m)
<1> SUFFICES ASSUME IInv, NEW m \in MethodNames PROVE SingletonLookupWalks(m)
  OBVIOUS
<1> DEFINE Stop == {o \in Objs : \/ kind[o] # "class"
                                 \/ singleton[o][m] # NULL
                                 \/ parent[o] = NULL}
           base == [o \in Objs |-> IF singleton[o][m] # NULL THEN singleton[o][m]
                                   ELSE IF kind[o] # "class" THEN WildRead ELSE NullDeref]
           step == [x \in Objs \X Found |-> x[2]]
           value(g, o) ==
             IF singleton[o][m] # NULL THEN singleton[o][m]
             ELSE IF kind[o] # "class" THEN WildRead
             ELSE IF parent[o] = NULL THEN NullDeref
             ELSE g[parent[o]]
<1>1. \A o \in Objs : singleton[o][m] \in Metas \cup {NULL}
  BY DEF IInv, TypeOK
<1>2. \A o \in Objs : o \in Stop => base[o] \in Found
  BY <1>1 DEF Found
<1>3. \A o \in Objs : o \notin Stop => parent[o] \in Objs /\ parent[o] < o
  BY DEF IInv, TypeOK, ChainsEnd, Live
<1>4. step \in [Objs \X Found -> Found]
  OBVIOUS
<1>5. PICK f \in [Objs -> Found] :
        f = [o \in Objs |-> IF o \in Stop THEN base[o] ELSE step[<<o, f[parent[o]]>>]]
  <2>1. Walk(Stop, base, Found, parent, step)
    <3> HIDE DEF Stop, base, step
    <3> QED
      BY <1>2, <1>3, <1>4 DEF Walk
  <2> HIDE DEF Stop, base, step
  <2> QED
    BY <2>1, WalkExists
<1>6. ASSUME NEW o \in Objs PROVE f[o] = value(f, o)
  <2>1. CASE o \in Stop
    <3>1. f[o] = base[o]
      BY <1>5, <2>1
    <3> QED
      BY <2>1, <3>1
  <2>2. CASE o \notin Stop
    <3>1. parent[o] \in Objs /\ f[parent[o]] \in Found
      BY <1>3, <2>2
    <3>2. f[o] = step[<<o, f[parent[o]]>>]
      BY <1>5, <2>2
    <3>3. f[o] = f[parent[o]]
      BY <3>1, <3>2
    <3> QED
      BY <2>2, <3>3
  <2> QED
    BY <2>1, <2>2
<1>7. f = [o \in Objs |-> value(f, o)]
  <2> HIDE DEF value
  <2> QED
    BY <1>6
<1>8. FindSingleton(m) = [o \in Objs |-> value(FindSingleton(m), o)]
  BY <1>7 DEF FindSingleton
<1> QED
  BY <1>8 DEF SingletonLookupWalks

LEMMA FindSingletonWalksNext == (IInv => \A m \in MethodNames : SingletonLookupWalks(m))'
BY FindSingletonWalks, PTL

\* So is the set of the ancestors of a class.
LEMMA AncestorsWalk ==
  ASSUME IInv
  PROVE  \A o \in Objs :
           Ancestors(o) = {o} \cup IF kind[o] = "class" /\ parent[o] # NULL
                                   THEN Ancestors(parent[o]) ELSE {}
<1> DEFINE Stop == {o \in Objs : kind[o] # "class" \/ parent[o] = NULL}
           base == [o \in Objs |-> {o}]
           step == [x \in Objs \X SUBSET Objs |-> {x[1]} \cup x[2]]
           value(g, o) == {o} \cup IF kind[o] = "class" /\ parent[o] # NULL
                                   THEN g[parent[o]] ELSE {}
<1>1. \A o \in Objs : o \in Stop => base[o] \in SUBSET Objs
  OBVIOUS
<1>2. \A o \in Objs : o \notin Stop => parent[o] \in Objs /\ parent[o] < o
  BY DEF IInv, TypeOK, ChainsEnd, Live
<1>3. step \in [Objs \X SUBSET Objs -> SUBSET Objs]
  OBVIOUS
<1>4. PICK f \in [Objs -> SUBSET Objs] :
        f = [o \in Objs |-> IF o \in Stop THEN base[o] ELSE step[<<o, f[parent[o]]>>]]
  <2>1. Walk(Stop, base, SUBSET Objs, parent, step)
    <3> HIDE DEF Stop, base, step
    <3> QED
      BY <1>1, <1>2, <1>3 DEF Walk
  <2> HIDE DEF Stop, base, step
  <2> QED
    BY <2>1, WalkExists
<1>5. ASSUME NEW o \in Objs PROVE f[o] = value(f, o)
  <2>1. CASE o \in Stop
    <3>1. f[o] = base[o]
      BY <1>4, <2>1
    <3> QED
      BY <2>1, <3>1
  <2>2. CASE o \notin Stop
    <3>1. parent[o] \in Objs /\ f[parent[o]] \in SUBSET Objs
      BY <1>2, <2>2
    <3>2. f[o] = step[<<o, f[parent[o]]>>]
      BY <1>4, <2>2
    <3>3. f[o] = {o} \cup f[parent[o]]
      BY <3>1, <3>2
    <3> QED
      BY <2>2, <3>3
  <2> QED
    BY <2>1, <2>2
<1>6. f = [o \in Objs |-> value(f, o)]
  <2> HIDE DEF value
  <2> QED
    BY <1>5
<1> DEFINE up == CHOOSE g : g = [o \in Objs |-> value(g, o)]
<1>7. up = [o \in Objs |-> value(up, o)]
  BY <1>6
<1>8. \A o : Ancestors(o) = up[o]
  BY DEF Ancestors
<1> QED
  BY <1>2, <1>7, <1>8

-----------------------------------------------------------------------------
(* What the lookups find.                                                  *)

\* An ancestor is no younger than its descendant.
LEMMA AncestorsAreOlder ==
  ASSUME IInv, NEW c \in Objs, NEW a \in Ancestors(c)
  PROVE  a \in Objs /\ a <= c
<1> DEFINE Bad == {o \in Objs : ~ \A x \in Ancestors(o) : x \in Objs /\ x <= o}
<1>1. Bad = {}
  <2> SUFFICES ASSUME Bad # {} PROVE FALSE
    OBVIOUS
  <2>1. Bad \in SUBSET Nat
    BY DEF Objs
  <2>2. PICK o \in Bad : \A q \in Bad : o <= q
    <3> HIDE DEF Bad
    <3> QED
      BY <2>1, SmallestExists
  <2>3. PICK x \in Ancestors(o) : ~(x \in Objs /\ x <= o)
    BY <2>2
  <2>4. x \in Ancestors(parent[o]) /\ parent[o] # NULL
    BY <2>3, AncestorsWalk DEF Objs
  <2>5. parent[o] \in Objs /\ parent[o] < o
    BY <2>4 DEF IInv, TypeOK, FieldsOfKind, ChainsEnd, Live
  <2>6. parent[o] \notin Bad
    <3> HIDE DEF Bad
    <3>1. o \in Int /\ parent[o] \in Int
      BY <2>5 DEF Bad, Objs
    <3> QED
      BY <2>2, <2>5, <3>1
  <2>7. x \in Objs /\ x <= parent[o]
    BY <2>4, <2>5, <2>6
  <2> QED
    BY <2>3, <2>5, <2>7 DEF Objs
<1> QED
  BY <1>1

\* An instance lookup that ends in an entry ends in that of the nearest ancestor.
LEMMA NearestFound ==
  ASSUME IInv, NEW m \in MethodNames, NEW c \in Objs, FindInstance(m)[c] \in Metas
  PROVE  \E a \in Ancestors(c) :
           /\ methods[a][m] # NULL /\ FindInstance(m)[c] = methods[a][m]
           /\ \A b \in Ancestors(c) : methods[b][m] # NULL => b <= a
<1> DEFINE nearest(o) ==
             \E a \in Ancestors(o) :
               /\ methods[a][m] # NULL /\ FindInstance(m)[o] = methods[a][m]
               /\ \A b \in Ancestors(o) : methods[b][m] # NULL => b <= a
           Bad == {o \in Objs : FindInstance(m)[o] \in Metas /\ ~nearest(o)}
<1>1. Bad = {}
  <2> SUFFICES ASSUME Bad # {} PROVE FALSE
    OBVIOUS
  <2>1. Bad \in SUBSET Nat
    BY DEF Objs
  <2>2. PICK o \in Bad : \A q \in Bad : o <= q
    <3> HIDE DEF Bad
    <3> QED
      BY <2>1, SmallestExists
  <2>3. o \in Objs /\ FindInstance(m)[o] \in Metas /\ ~nearest(o)
    OBVIOUS
  <2> HIDE DEF nearest
  <2>4. NULL \notin Metas /\ NullDeref \notin Metas /\ WildRead \notin Metas
    BY ObjectModelAssumption
  <2>5. CASE methods[o][m] # NULL
    <3>1. FindInstance(m)[o] = methods[o][m]
      BY <2>3, <2>4, <2>5, FindInstanceWalks DEF InstanceLookupWalks
    <3>2. o \in Ancestors(o)
      BY <2>3, AncestorsWalk
    <3>3. \A b \in Ancestors(o) : b <= o
      BY <2>3, AncestorsAreOlder
    <3> QED
      BY <2>3, <2>5, <3>1, <3>2, <3>3 DEF nearest
  <2>6. CASE methods[o][m] = NULL
    <3>1. kind[o] = "class" /\ parent[o] # NULL
          /\ FindInstance(m)[o] = FindInstance(m)[parent[o]]
      BY <2>3, <2>4, <2>6, FindInstanceWalks DEF InstanceLookupWalks
    <3>2. parent[o] \in Objs /\ parent[o] < o
      BY <2>3, <3>1 DEF IInv, TypeOK, ChainsEnd, Live
    <3>3. parent[o] \notin Bad
      <4> HIDE DEF Bad
      <4>1. o \in Int /\ parent[o] \in Int
        BY <2>3, <3>2 DEF Objs
      <4> QED
        BY <2>2, <3>2, <4>1
    <3>4. nearest(parent[o])
      BY <2>3, <3>1, <3>2, <3>3
    <3>5. Ancestors(o) = {o} \cup Ancestors(parent[o])
      BY <2>3, <3>1, AncestorsWalk
    <3> QED
      BY <2>3, <2>6, <3>1, <3>4, <3>5 DEF nearest
  <2> QED
    BY <2>5, <2>6
<1> QED
  BY <1>1

\* self_new is called on classes only: a lookup of new that ends in it passed no
\* method table, and the tables of singletons are walked from class to class.
LEMMA OnlyClassesAllocate ==
  ASSUME IInv, NEW c \in Live, FindMethod(c, New) = SelfNew
  PROVE  kind[c] = "class"
<1>1. /\ c \in Objs /\ New \in MethodNames /\ BasicObjectClass \in Objs
      /\ SelfNew \notin {NULL, NullDeref, WildRead}
  BY ObjectModelAssumption, SelfNewIsMeta DEF Live, Objs, BasicObjectClass, BuiltinCount
<1>2. CASE singleton[c][New] # NULL
  BY <1>1, <1>2 DEF FindMethod, IInv, OnlyNewIsNew
<1>3. CASE singleton[c][New] = NULL /\ objectClass[c] = ClassClass
  <2>1. FindSingleton(New)[c] = SelfNew
    BY <1>3 DEF FindMethod
  <2> QED
    BY <1>1, <1>3, <2>1, FindSingletonWalks DEF SingletonLookupWalks
<1>4. CASE singleton[c][New] = NULL /\ objectClass[c] # ClassClass
  <2>1. objectClass[c] # ModuleClass
    BY <1>1, <1>4 DEF FindMethod
  <2>2. FindInstance(New)[objectClass[c]] = SelfNew
    BY <1>4, <2>1 DEF FindMethod
  <2>3. objectClass[c] \in Objs
    BY <1>1 DEF IInv, LiveHaveClass, Live
  <2>4. PICK a \in Ancestors(objectClass[c]) : methods[a][New] = SelfNew
    BY <1>1, <2>2, <2>3, NearestFound, SelfNewIsMeta
  <2>5. a \in Objs
    BY <2>3, AncestorsAreOlder
  <2> QED
    BY <1>1, <2>4, <2>5 DEF IInv, OnlyNewIsNew
<1> QED
  BY <1>2, <1>3, <1>4

-----------------------------------------------------------------------------
(* The steps.                                                              *)

\* An operation that completes, and one that does not, record an outcome of the
\* right type.
LEMMA DoneType == Done => last' \in Outcomes
BY ObjectModelAssumption DEF Done, Ended, Outcomes, Ops, GlobalScope, Objs, BuiltinCount

LEMMA EndedType ==
  ASSUME NEW o \in Objs,
         NEW op \in Ops,
         NEW res \in Fatal \cup {"ok", "reopened"},
         Ended(op, o, res)
  PROVE  last' \in Outcomes
BY DEF Ended, Outcomes

\* Whatever a lookup returns, dispatching to it ends in one of four ways.
LEMMA DispatchOutcome ==
  ASSUME NEW found, NEW n
  PROVE  Dispatch(found, n) \in {"ok", "raise", "nullDeref", "wildRead"}
BY DEF Dispatch

\* A step that leaves the object graph alone, and keeps or clears the running
\* bodies, keeps the part of the invariant that is about them.
LEMMA GraphUnchanged ==
  ASSUME IInv, Running,
         UNCHANGED <<kind, objectClass, parent, holder, consts>>,
         bodies' = bodies \/ bodies' = <<>>
  PROVE  /\ LiveIsPrefix' /\ LiveHaveClass' /\ ConstsAreLive' /\ OneNameEach'
         /\ ChainsEnd' /\ TagMatchesType' /\ BodyIsBound'
<1>1. LiveIsPrefix' /\ LiveHaveClass' /\ ConstsAreLive' /\ OneNameEach' /\ ChainsEnd'
  BY DEF IInv, LiveIsPrefix, LiveHaveClass, ConstsAreLive, OneNameEach, ChainsEnd, Live
<1>2. TagMatchesType'
  BY DEF IInv, TagMatchesType, TaggedModule, Live
<1>3. BodyIsBound'
  BY DEF IInv, BodyIsBound, TaggedModule
<1> QED
  BY <1>1, <1>2, <1>3

\* The same for a step that also leaves the method tables alone.
LEMMA TablesUnchanged ==
  ASSUME IInv, Running,
         UNCHANGED <<kind, objectClass, parent, holder, consts, methods, singleton>>,
         bodies' = bodies \/ bodies' = <<>>,
         last' \in Outcomes
  PROVE  IInv'
<1>1. OnlyNewIsNew' /\ FieldsOfKind'
  BY DEF IInv, OnlyNewIsNew, TypeOK, FieldsOfKind
<1>2. bodies' \in Seq(Bodies)
  <2>1. <<>> \in Seq(Bodies)
    OBVIOUS
  <2> QED
    BY <2>1 DEF IInv, TypeOK
<1>3. TypeOK'
  BY <1>1, <1>2 DEF IInv, TypeOK
<1> QED
  BY <1>1, <1>3, GraphUnchanged DEF IInv

\* The entry that a define*Method call stores is of the program, not one of the run
\* time's own.
LEMMA NewEntry ==
  ASSUME NEW f \in Objs, NEW argc \in Arities, NEW b \in BOOLEAN, NEW n \in BOOLEAN
  PROVE  Meta(f, argc, b, n) \in Metas /\ Meta(f, argc, b, n) # SelfNew
<1>1. Meta(f, argc, b, n) \in Metas
  BY DEF Meta, Metas
<1>2. Meta(f, argc, b, n).function # SelfNew.function
  BY ObjectModelAssumption DEF Meta, SelfNew, Objs, Native
<1> QED
  BY <1>1, <1>2

\* The method of an object goes to a module or to a class.
LEMMA OwnerHasTable ==
  ASSUME IInv, Running, NEW self \in Live
  PROVE  MethodOwner(self) \in Objs /\ kind[MethodOwner(self)] \in {"module", "class"}
<1>1. CASE TaggedModule(self)
  BY <1>1 DEF MethodOwner, IInv, TagMatchesType, Live
<1>2. CASE ~TaggedModule(self)
  <2>1. self \in Objs /\ kind[self] \in Kinds /\ kind[self] # "free"
    BY DEF Live, IInv, TypeOK
  <2>2. kind[self] = "plain"
    BY <1>2, <2>1 DEF IInv, TagMatchesType, Kinds
  <2> QED
    BY <1>2, <2>1, <2>2 DEF MethodOwner, IInv, TypeOK, FieldsOfKind
<1> QED
  BY <1>1, <1>2

\* Storing one entry in a table changes no other entry of it.
LEMMA TableUpdate ==
  ASSUME NEW table \in [Objs -> [MethodNames -> Metas \cup {NULL}]],
         NEW owner \in Objs, NEW name \in MethodNames, NEW e \in Metas,
         NEW table2, table2 = [table EXCEPT ![owner][name] = e]
  PROVE  /\ table2 \in [Objs -> [MethodNames -> Metas \cup {NULL}]]
         /\ \A o \in Objs, m \in MethodNames : table2[o][m] \in {table[o][m], e}
         /\ \A o \in Objs \ {owner} : table2[o] = table[o]
OBVIOUS

\* `def name`: the entry goes to the module that self is, or to its class.
LEMMA DefineInstanceMethodStep ==
  ASSUME IInv, NEW self \in Objs, NEW name \in MethodNames, NEW argc \in Arities,
         NEW b \in BOOLEAN, NEW n \in BOOLEAN, DefineInstanceMethod(self, name, argc, b, n)
  PROVE  IInv'
<1>1. CASE BadFormat(argc, b, n)
  <2>1. Ended("def", self, "raise") /\ bodies' = <<>>
    BY <1>1 DEF DefineInstanceMethod, Raised
  <2>2. last' \in Outcomes
    BY <2>1, EndedType DEF Fatal, Ops
  <2>3. Running /\ UNCHANGED <<kind, objectClass, parent, holder, consts, methods, singleton>>
    BY <1>1 DEF DefineInstanceMethod
  <2> QED
    BY <2>1, <2>2, <2>3, TablesUnchanged
<1>2. CASE ~BadFormat(argc, b, n)
  <2>1. PICK owner \in Objs :
          /\ kind[owner] \in {"module", "class"}
          /\ methods' = [methods EXCEPT ![owner][name] = Meta(owner, argc, b, n)]
    BY <1>2, OwnerHasTable DEF DefineInstanceMethod, Store
  <2>2. /\ Running /\ Done /\ bodies' = bodies
        /\ UNCHANGED <<kind, objectClass, parent, holder, consts, singleton>>
    BY <1>2 DEF DefineInstanceMethod
  <2>3. /\ methods' \in [Objs -> [MethodNames -> Metas \cup {NULL}]]
        /\ \A o \in Objs, m \in MethodNames :
             methods'[o][m] \in {methods[o][m], Meta(owner, argc, b, n)}
        /\ \A o \in Objs \ {owner} : methods'[o] = methods[o]
    BY <2>1, NewEntry, TableUpdate DEF IInv, TypeOK
  <2>4. OnlyNewIsNew'
    BY <2>2, <2>3, NewEntry DEF IInv, OnlyNewIsNew
  <2>5. TypeOK'
    <3>1. FieldsOfKind'
      BY <2>1, <2>2, <2>3 DEF IInv, TypeOK, FieldsOfKind
    <3> QED
      BY <2>2, <2>3, <3>1, DoneType DEF IInv, TypeOK
  <2> QED
    BY <2>2, <2>4, <2>5, GraphUnchanged DEF IInv
<1> QED
  BY <1>1, <1>2

\* `def self.name`: the entry goes to self.
LEMMA DefineSingletonMethodStep ==
  ASSUME IInv, NEW self \in Objs, NEW name \in MethodNames, NEW argc \in Arities,
         NEW b \in BOOLEAN, NEW n \in BOOLEAN, DefineSingletonMethod(self, name, argc, b, n)
  PROVE  IInv'
<1>1. CASE BadFormat(argc, b, n)
  <2>1. Ended("def", self, "raise") /\ bodies' = <<>>
    BY <1>1 DEF DefineSingletonMethod, Raised
  <2>2. last' \in Outcomes
    BY <2>1, EndedType DEF Fatal, Ops
  <2>3. Running /\ UNCHANGED <<kind, objectClass, parent, holder, consts, methods, singleton>>
    BY <1>1 DEF DefineSingletonMethod
  <2> QED
    BY <2>1, <2>2, <2>3, TablesUnchanged
<1>2. CASE ~BadFormat(argc, b, n)
  <2>1. singleton' = [singleton EXCEPT ![self][name] = Meta(self, argc, b, n)]
    BY <1>2 DEF DefineSingletonMethod, Store
  <2>2. /\ Running /\ Done /\ bodies' = bodies
        /\ UNCHANGED <<kind, objectClass, parent, holder, consts, methods>>
    BY <1>2 DEF DefineSingletonMethod
  <2>3. /\ singleton' \in [Objs -> [MethodNames -> Metas \cup {NULL}]]
        /\ \A o \in Objs, m \in MethodNames :
             singleton'[o][m] \in {singleton[o][m], Meta(self, argc, b, n)}
        /\ \A o \in Objs \ {self} : singleton'[o] = singleton[o]
    BY <2>1, NewEntry, TableUpdate DEF IInv, TypeOK
  <2>4. OnlyNewIsNew'
    BY <2>2, <2>3, NewEntry DEF IInv, OnlyNewIsNew
  <2>5. TypeOK'
    <3>1. self \in Live
      BY DEF DefineSingletonMethod
    <3>2. FieldsOfKind'
      BY <2>2, <2>3, <3>1 DEF IInv, TypeOK, FieldsOfKind, Live
    <3> QED
      BY <2>2, <2>3, <3>2, DoneType DEF IInv, TypeOK
  <2> QED
    BY <2>2, <2>4, <2>5, GraphUnchanged DEF IInv
<1> QED
  BY <1>1, <1>2

\* `class << self` throws.
LEMMA DefineClassInstanceStep ==
  ASSUME IInv, NEW self \in Objs, DefineClassInstance(self)
  PROVE  IInv'
<1>1. last' \in Outcomes
  BY EndedType DEF DefineClassInstance, Raised, Fatal, Ops
<1> QED
  BY <1>1, TablesUnchanged DEF DefineClassInstance, Raised

\* Reading a constant finds it or throws.
LEMMA ReadConstStep ==
  ASSUME IInv, NEW m \in Objs, NEW name, ReadConst(m, name)
  PROVE  IInv'
<1>1. last' \in Outcomes
  BY EndedType, DoneType DEF ReadConst, Raised, Fatal, Ops
<1> QED
  BY <1>1, TablesUnchanged DEF ReadConst, Raised

\* A call changes nothing by itself.
LEMMA CallStep ==
  ASSUME IInv, NEW o \in Objs, NEW name, NEW n, Call(o, name, n)
  PROVE  IInv'
<1>1. PICK res \in {"ok", "raise", "nullDeref", "wildRead"} :
        /\ IF res = "ok" THEN Done ELSE Ended("call", o, res)
        /\ bodies' = IF res = "ok" THEN bodies ELSE <<>>
  BY DispatchOutcome DEF Call
<1>2. last' \in Outcomes
  <2>1. CASE res = "ok"
    BY <1>1, <2>1, DoneType
  <2>2. CASE res # "ok"
    BY <1>1, <2>2, EndedType DEF Fatal, Ops
  <2> QED
    BY <2>1, <2>2
<1>3. Running /\ UNCHANGED <<kind, objectClass, parent, holder, consts, methods, singleton>>
  BY DEF Call
<1> QED
  BY <1>1, <1>2, <1>3, TablesUnchanged

\* The innermost body returns.
LEMMA EndBodyStep == IInv /\ EndBody => IInv'
<1> SUFFICES ASSUME IInv, EndBody PROVE IInv'
  OBVIOUS
<1>1. /\ Running /\ Done
      /\ bodies' = SubSeq(bodies, 1, Len(bodies) - 1)
      /\ UNCHANGED <<kind, objectClass, parent, holder, consts, methods, singleton>>
  BY DEF EndBody
<1>2. bodies \in Seq(Bodies)
  BY DEF IInv, TypeOK
<1>3. /\ bodies' \in Seq(Bodies)
      /\ \A i \in DOMAIN bodies' : i \in DOMAIN bodies /\ bodies'[i] = bodies[i]
  BY <1>1, <1>2
<1>4. TypeOK'
  <2>1. FieldsOfKind'
    BY <1>1 DEF IInv, TypeOK, FieldsOfKind
  <2> QED
    BY <1>1, <1>3, <2>1, DoneType DEF IInv, TypeOK
<1>5. BodyIsBound'
  BY <1>1, <1>3 DEF IInv, BodyIsBound, TaggedModule
<1>6. LiveIsPrefix' /\ LiveHaveClass' /\ ConstsAreLive' /\ OneNameEach' /\ ChainsEnd'
  BY <1>1 DEF IInv, LiveIsPrefix, LiveHaveClass, ConstsAreLive, OneNameEach, ChainsEnd, Live
<1>7. TagMatchesType' /\ OnlyNewIsNew'
  BY <1>1 DEF IInv, TagMatchesType, TaggedModule, Live, OnlyNewIsNew
<1> QED
  BY <1>4, <1>5, <1>6, <1>7 DEF IInv

\* Allocation hands out the oldest free address, so what was live is older.
LEMMA NextIsYoungest ==
  ASSUME IInv, NEW new \in Objs, IsNext(new)
  PROVE  /\ kind[new] = "free" /\ parent[new] = NULL /\ holder[new] = NULL
         /\ consts[new] = NoConsts /\ methods[new] = NoMethods
         /\ \A o \in Live : o < new
         /\ \A o \in Objs, n \in ConstNames : consts[o][n] # new
         /\ \A i \in DOMAIN bodies :
              bodies[i] \in Bodies /\ bodies[i].self # new
<1>1. /\ kind[new] = "free" /\ parent[new] = NULL /\ holder[new] = NULL
      /\ consts[new] = NoConsts /\ methods[new] = NoMethods
  BY DEF IsNext, IInv, TypeOK, FieldsOfKind
<1>2. ASSUME NEW o \in Live PROVE o < new
  <2>1. o \in Objs /\ kind[o] # "free"
    BY DEF Live
  <2>2. o # new /\ ~(new < o)
    BY <1>1, <2>1 DEF IInv, LiveIsPrefix
  <2> QED
    BY <2>1, <2>2, ObjectModelAssumption DEF Objs
<1>3. \A o \in Objs, n \in ConstNames : consts[o][n] # new
  BY <1>1, ObjectModelAssumption DEF IInv, ConstsAreLive
<1>4. ASSUME NEW i \in DOMAIN bodies
      PROVE  bodies[i] \in Bodies /\ bodies[i].self # new
  <2>1. bodies[i] \in Bodies
    BY DEF IInv, TypeOK
  <2>2. consts[bodies[i].outer][bodies[i].name] = bodies[i].self
    BY DEF IInv, BodyIsBound
  <2> QED
    BY <1>3, <2>1, <2>2 DEF Bodies
<1> QED
  BY <1>1, <1>2, <1>3, <1>4

\* What self_new does to memory and to the record of the outcome.
LEMMA NewObjectStep ==
  ASSUME IInv, NEW c \in Objs, NEW n, NewObject(c, n)
  PROVE  IInv'
<1> DEFINE outcome == Initialized(c, n)
<1>1. PICK new \in Objs :
        /\ IsNext(new)
        /\ kind' = [kind EXCEPT ![new] = "plain"]
        /\ objectClass' = [objectClass EXCEPT ![new] = c]
        /\ IF outcome = "ok" THEN Done ELSE Ended("new", new, outcome)
  BY DEF NewObject
<1>2. /\ Running /\ c \in Live
      /\ bodies' = IF outcome = "ok" THEN bodies ELSE <<>>
      /\ UNCHANGED <<parent, holder, consts, methods, singleton>>
  BY DEF NewObject
<1>3. /\ outcome \in {"ok", "raise", "nullDeref", "wildRead"}
      /\ outcome = "ok" => c \notin {ClassClass, ModuleClass}
  BY DispatchOutcome DEF Initialized
<1> HIDE DEF outcome
<1>4. kind \in [Objs -> Kinds] /\ objectClass \in [Objs -> Objs \cup {NULL}]
  BY DEF IInv, TypeOK
<1>5. /\ kind'[new] = "plain" /\ objectClass'[new] = c
      /\ \A o \in Objs : o # new => kind'[o] = kind[o] /\ objectClass'[o] = objectClass[o]
  BY <1>1, <1>4
<1>6. /\ kind[new] = "free" /\ parent[new] = NULL /\ holder[new] = NULL
      /\ consts[new] = NoConsts /\ methods[new] = NoMethods
  BY <1>1, NextIsYoungest
<1>7. TypeOK'
  <2>1. last' \in Outcomes
    <3>1. CASE outcome = "ok"
      BY <1>1, <3>1, DoneType
    <3>2. CASE outcome # "ok"
      BY <1>1, <1>3, <3>2, EndedType DEF Fatal, Ops
    <3> QED
      BY <3>1, <3>2
  <2>2. bodies' \in Seq(Bodies)
    <3>1. bodies \in Seq(Bodies)
      BY DEF IInv, TypeOK
    <3>2. <<>> \in Seq(Bodies)
      OBVIOUS
    <3> QED
      BY <1>2, <3>1, <3>2
  <2>3. kind' \in [Objs -> Kinds] /\ objectClass' \in [Objs -> Objs \cup {NULL}]
    BY <1>1, <1>4 DEF Kinds
  <2>4. FieldsOfKind'
    <3>1. kind[c] = "class" /\ c # new
      BY <1>2, <1>6, OnlyClassesAllocate DEF NewObject
    <3>2. \A o \in Objs : objectClass[o] = new => kind[o] = "free"
      BY <1>6 DEF IInv, LiveHaveClass
    <3> QED
      BY <1>2, <1>5, <1>6, <3>1, <3>2 DEF IInv, TypeOK, FieldsOfKind
  <2> QED
    BY <1>2, <2>1, <2>2, <2>3, <2>4 DEF IInv, TypeOK
<1>8. LiveIsPrefix'
  BY <1>1, <1>5, ObjectModelAssumption DEF IInv, LiveIsPrefix, IsNext, Objs
<1>9. OneNameEach'
  BY <1>2, <1>5 DEF IInv, OneNameEach, Live
<1>10. LiveHaveClass'
  <2>1. c # new /\ kind[c] # "free"
    BY <1>2, <1>6 DEF Live
  <2> QED
    BY <1>5, <1>6, <2>1 DEF IInv, LiveHaveClass
<1>11. ConstsAreLive'
  BY <1>2, <1>4, <1>5 DEF IInv, ConstsAreLive, TypeOK
<1>12. ChainsEnd'
  BY <1>2, <1>5, <1>6 DEF IInv, ChainsEnd, Live
<1>13. TagMatchesType'
  <2>1. CASE outcome = "ok"
    <3>1. ~TaggedModule(new)' /\ kind'[new] \notin {"module", "class"}
      BY <1>3, <1>5, <2>1 DEF TaggedModule
    <3>2. \A o \in Objs : o # new => (TaggedModule(o)' <=> TaggedModule(o))
      BY <1>5 DEF TaggedModule
    <3> QED
      BY <1>2, <1>5, <3>1, <3>2 DEF IInv, TagMatchesType, Live
  <2>2. CASE outcome # "ok"
    BY <1>1, <1>3, <2>2 DEF TagMatchesType, Running, Ended, Fatal
  <2> QED
    BY <2>1, <2>2
<1>14. OnlyNewIsNew'
  BY <1>2, <1>5, <1>6, ObjectModelAssumption DEF IInv, OnlyNewIsNew, Objs, BasicObjectClass,
     BuiltinCount
<1>15. BodyIsBound'
  <2>1. ASSUME NEW i \in DOMAIN bodies
        PROVE  /\ consts[bodies[i].outer][bodies[i].name] = bodies[i].self
               /\ objectClass'[bodies[i].self] \in {ClassClass, ModuleClass}
    <3>1. bodies[i] \in Bodies /\ bodies[i].self # new
      BY <1>1, NextIsYoungest
    <3> QED
      BY <1>5, <3>1 DEF IInv, BodyIsBound, TaggedModule, Bodies
  <2>2. CASE bodies' = bodies
    BY <1>2, <2>1, <2>2 DEF BodyIsBound, TaggedModule
  <2>3. CASE bodies' = <<>>
    BY <2>3 DEF BodyIsBound
  <2> QED
    BY <1>2, <2>2, <2>3
<1> QED
  BY <1>7, <1>8, <1>9, <1>10, <1>11, <1>12, <1>13, <1>14, <1>15 DEF IInv

\* A scope that passes the assert of defineClass and defineModule is a live module,
\* and ClassClass is older than anything allocated later.
LEMMA ScopeIsLive ==
  ASSUME IInv, Running, NEW self \in Live, TaggedModule(Scope(self))
  PROVE  /\ Scope(self) \in Live /\ kind[Scope(self)] \in {"module", "class"}
         /\ ClassClass \in Live
<1> USE ObjectModelAssumption DEF Objs, BuiltinCount
<1>1. RootModule \in Live
  BY DEF Live, IInv, LiveIsPrefix, RootModule
<1>2. Scope(self) \in Live
  BY <1>1 DEF Scope
<1>3. PICK c \in {ClassClass, ModuleClass} : c \in Live
  BY <1>2 DEF TaggedModule, IInv, LiveHaveClass, Live
<1>4. ClassClass \in Live
  BY <1>3 DEF IInv, LiveIsPrefix, Live, ClassClass, ModuleClass
<1> QED
  BY <1>2, <1>4 DEF IInv, TagMatchesType

\* A new class or module: it is linked only to older objects, its tag says what it
\* is, and its constant is bound when its body opens.
LEMMA DefineNew ==
  ASSUME IInv, Running,
         NEW k \in {"class", "module"}, NEW super \in Live \cup {NULL},
         k = "module" => super = NULL,
         NEW outer \in Live, kind[outer] \in {"module", "class"}, ClassClass \in Live,
         NEW name \in ConstNames, consts[outer][name] = NULL,
         NEW new \in Objs, IsNext(new),
         kind' = [kind EXCEPT ![new] = k],
         objectClass' = [objectClass EXCEPT ![new] = ClassClass],
         parent' = [parent EXCEPT ![new] = super],
         holder' = [holder EXCEPT ![new] = outer],
         consts' = [consts EXCEPT ![outer][name] = new],
         Done,
         bodies' = Append(bodies, Body(new, outer, name)),
         UNCHANGED <<methods, singleton>>
  PROVE  IInv'
<1>1. /\ kind \in [Objs -> Kinds] /\ objectClass \in [Objs -> Objs \cup {NULL}]
      /\ parent \in [Objs -> Objs \cup {NULL}] /\ holder \in [Objs -> Objs \cup {NULL}]
      /\ consts \in [Objs -> [ConstNames -> Objs \cup {NULL}]] /\ bodies \in Seq(Bodies)
  BY DEF IInv, TypeOK
<1>2. outer \in Objs /\ ClassClass \in Objs /\ super \in Objs \cup {NULL}
      /\ kind[outer] # "free" /\ kind[ClassClass] # "free"
  BY DEF Live
<1>3. /\ kind[new] = "free" /\ outer < new /\ ClassClass < new /\ (super # NULL => super < new)
      /\ consts[new] = NoConsts /\ methods[new] = NoMethods
      /\ \A o \in Objs, n \in ConstNames : consts[o][n] # new
  BY NextIsYoungest
<1>4. /\ kind'[new] = k /\ objectClass'[new] = ClassClass
      /\ parent'[new] = super /\ holder'[new] = outer
      /\ \A o \in Objs : o # new => /\ kind'[o] = kind[o]
                                    /\ objectClass'[o] = objectClass[o]
                                    /\ parent'[o] = parent[o]
                                    /\ holder'[o] = holder[o]
  BY <1>1
<1>5. /\ consts'[outer][name] = new
      /\ \A o \in Objs, n \in ConstNames :
           o # outer \/ n # name => consts'[o][n] = consts[o][n]
      /\ \A o \in Objs \ {outer} : consts'[o] = consts[o]
  BY <1>1, <1>2
<1>6. TypeOK'
  <2>1. /\ kind' \in [Objs -> Kinds] /\ objectClass' \in [Objs -> Objs \cup {NULL}]
        /\ parent' \in [Objs -> Objs \cup {NULL}] /\ holder' \in [Objs -> Objs \cup {NULL}]
    BY <1>1, <1>2 DEF Kinds
  <2>2. consts' \in [Objs -> [ConstNames -> Objs \cup {NULL}]]
    BY <1>1, <1>2
  <2>3. Body(new, outer, name) \in Bodies
    BY <1>2 DEF Body, Bodies
  <2>4. bodies' \in Seq(Bodies)
    BY <1>1, <2>3
  <2>5. FieldsOfKind'
    <3>1. \A o \in Objs : objectClass[o] = new => kind[o] = "free"
      BY <1>3 DEF IInv, LiveHaveClass
    <3> QED
      BY <1>2, <1>3, <1>4, <1>5, <3>1 DEF IInv, TypeOK, FieldsOfKind
  <2> QED
    BY <2>1, <2>2, <2>4, <2>5, DoneType DEF IInv, TypeOK
<1>7. LiveIsPrefix'
  BY <1>3, <1>4, ObjectModelAssumption DEF IInv, LiveIsPrefix, IsNext, Objs
<1>8. OneNameEach'
  <2> SUFFICES ASSUME NEW o \in Live' \ Builtins, kind'[o] # "plain"
               PROVE  \E n \in ConstNames : \A s \in Objs, m \in ConstNames :
                        consts'[s][m] = o <=> s = holder'[o] /\ m = n
    BY DEF OneNameEach
  <2>1. CASE o = new
    BY <1>2, <1>3, <1>4, <1>5, <2>1
  <2>2. CASE o # new
    <3>1. o \in Live \ Builtins /\ kind[o] # "plain" /\ holder'[o] = holder[o] /\ o # NULL
      BY <1>4, <2>2, ObjectModelAssumption DEF Live
    <3>2. PICK n \in ConstNames : \A s \in Objs, m \in ConstNames :
                 consts[s][m] = o <=> s = holder[o] /\ m = n
      BY <3>1 DEF IInv, OneNameEach
    <3>3. \A s \in Objs, m \in ConstNames : consts'[s][m] = o <=> consts[s][m] = o
      BY <1>5, <2>2, <3>1
    <3> QED
      BY <3>1, <3>2, <3>3
  <2> QED
    BY <2>1, <2>2
<1>9. LiveHaveClass'
  BY <1>2, <1>3, <1>4 DEF IInv, LiveHaveClass
<1>10. ConstsAreLive'
  BY <1>1, <1>2, <1>4, <1>5 DEF IInv, ConstsAreLive
<1>11. ChainsEnd'
  BY <1>2, <1>3, <1>4 DEF IInv, ChainsEnd, Live
<1>12. TagMatchesType'
  <2>1. TaggedModule(new)' /\ kind'[new] \in {"module", "class"}
    BY <1>4 DEF TaggedModule
  <2>2. \A o \in Objs : o # new => (TaggedModule(o)' <=> TaggedModule(o))
    BY <1>4 DEF TaggedModule
  <2> QED
    BY <1>4, <2>1, <2>2 DEF IInv, TagMatchesType, Live
<1>13. OnlyNewIsNew'
  BY <1>3, <1>4, ObjectModelAssumption DEF IInv, OnlyNewIsNew, Objs, BasicObjectClass,
     BuiltinCount
<1>14. BodyIsBound'
  <2> SUFFICES ASSUME NEW i \in DOMAIN bodies'
               PROVE  /\ consts'[bodies'[i].outer][bodies'[i].name] = bodies'[i].self
                      /\ objectClass'[bodies'[i].self] \in {ClassClass, ModuleClass}
    BY DEF BodyIsBound, TaggedModule
  <2>1. CASE i \in DOMAIN bodies
    <3>1. bodies'[i] = bodies[i]
      BY <1>1, <2>1
    <3>2. bodies[i] \in Bodies /\ bodies[i].self # new
      BY <2>1, NextIsYoungest
    <3>3. /\ consts[bodies[i].outer][bodies[i].name] = bodies[i].self
          /\ TaggedModule(bodies[i].self)
      BY <2>1 DEF IInv, BodyIsBound
    <3>4. bodies[i].self # NULL
      BY <3>2, ObjectModelAssumption DEF Bodies
    <3>5. consts'[bodies[i].outer][bodies[i].name] = bodies[i].self
      BY <1>5, <3>2, <3>3, <3>4 DEF Bodies
    <3>6. objectClass'[bodies[i].self] \in {ClassClass, ModuleClass}
      BY <1>4, <3>2, <3>3 DEF Bodies, TaggedModule
    <3> QED
      BY <3>1, <3>5, <3>6
  <2>2. CASE i \notin DOMAIN bodies
    <3>1. bodies'[i] = Body(new, outer, name)
      BY <1>1, <2>2
    <3> QED
      BY <1>4, <1>5, <3>1 DEF Body
  <2> QED
    BY <2>1, <2>2
<1> QED
  BY <1>6, <1>7, <1>8, <1>9, <1>10, <1>11, <1>12, <1>13, <1>14 DEF IInv

\* The four ways defineClass and defineModule end.
LEMMA DefineStep ==
  ASSUME IInv, NEW op \in Ops, NEW k \in {"class", "module"},
         NEW tag \in {ClassClass, ModuleClass}, NEW self \in Objs, NEW name \in ConstNames,
         NEW super \in Live \cup {NULL}, k = "module" => super = NULL,
         Define(op, k, tag, self, name, super)
  PROVE  IInv'
<1> DEFINE outer == Scope(self)
           found == consts[outer][name]
<1>1. Running /\ self \in Live /\ UNCHANGED <<methods, singleton>>
  BY DEF Define
<1>2. outer \in Objs
  BY ObjectModelAssumption DEF Scope, Objs, RootModule, BuiltinCount
<1>3. found \in Objs \cup {NULL}
  BY <1>2 DEF IInv, TypeOK
<1>4. CASE /\ ~TaggedModule(outer)
           /\ Ended(op, outer, "assert") /\ bodies' = <<>>
           /\ UNCHANGED <<kind, objectClass, parent, holder, consts>>
  <2>1. last' \in Outcomes
    BY <1>2, <1>4, EndedType DEF Fatal
  <2> QED
    BY <1>1, <1>4, <2>1, TablesUnchanged
<1>5. CASE /\ TaggedModule(outer) /\ found # NULL /\ objectClass[found] # tag
           /\ Raised(op, found)
           /\ UNCHANGED <<kind, objectClass, parent, holder, consts>>
  <2>1. last' \in Outcomes
    BY <1>3, <1>5, EndedType DEF Fatal, Raised
  <2> QED
    BY <1>1, <1>5, <2>1, TablesUnchanged DEF Raised
<1>6. CASE /\ TaggedModule(outer) /\ found # NULL /\ objectClass[found] = tag
           /\ Ended(op, found, "reopened")
           /\ bodies' = Append(bodies, Body(found, outer, name))
           /\ UNCHANGED <<kind, objectClass, parent, holder, consts>>
  <2>1. last' \in Outcomes
    BY <1>3, <1>6, EndedType
  <2>2. bodies \in Seq(Bodies) /\ Body(found, outer, name) \in Bodies
    BY <1>2, <1>3, <1>6 DEF IInv, TypeOK, Body, Bodies
  <2>3. bodies' \in Seq(Bodies)
    BY <1>6, <2>2
  <2>4. TypeOK'
    <3>1. FieldsOfKind'
      BY <1>1, <1>6 DEF IInv, TypeOK, FieldsOfKind
    <3> QED
      BY <1>1, <1>6, <2>1, <2>3, <3>1 DEF IInv, TypeOK
  <2>5. BodyIsBound'
    <3> SUFFICES ASSUME NEW i \in DOMAIN bodies'
                 PROVE  /\ consts[bodies'[i].outer][bodies'[i].name] = bodies'[i].self
                        /\ TaggedModule(bodies'[i].self)
      BY <1>6 DEF BodyIsBound, TaggedModule
    <3>1. CASE i \in DOMAIN bodies
      BY <1>6, <2>2, <3>1 DEF IInv, BodyIsBound
    <3>2. CASE i \notin DOMAIN bodies
      BY <1>6, <2>2, <3>2 DEF Body, TaggedModule
    <3> QED
      BY <3>1, <3>2
  <2>6. LiveIsPrefix' /\ LiveHaveClass' /\ ConstsAreLive' /\ OneNameEach' /\ ChainsEnd'
    BY <1>6 DEF IInv, LiveIsPrefix, LiveHaveClass, ConstsAreLive, OneNameEach, ChainsEnd, Live
  <2>7. TagMatchesType' /\ OnlyNewIsNew'
    BY <1>1, <1>6 DEF IInv, TagMatchesType, TaggedModule, Live, OnlyNewIsNew
  <2> QED
    BY <2>4, <2>5, <2>6, <2>7 DEF IInv
<1>7. CASE /\ TaggedModule(outer) /\ found = NULL
           /\ \E new \in Objs :
                /\ IsNext(new)
                /\ kind' = [kind EXCEPT ![new] = k]
                /\ objectClass' = [objectClass EXCEPT ![new] = ClassClass]
                /\ parent' = [parent EXCEPT ![new] = super]
                /\ holder' = [holder EXCEPT ![new] = outer]
                /\ consts' = [consts EXCEPT ![outer][name] = new]
                /\ Done
                /\ bodies' = Append(bodies, Body(new, outer, name))
  <2>1. outer \in Live /\ kind[outer] \in {"module", "class"} /\ ClassClass \in Live
    BY <1>1, <1>7, ScopeIsLive
  <2> QED
    BY <1>1, <1>7, <2>1, DefineNew
<1> QED
  BY <1>4, <1>5, <1>6, <1>7 DEF Define, Bound, Reopen, Create, SetConst

\* The program throws.
LEMMA RaiseStep == IInv /\ Raise => IInv'
<1> SUFFICES ASSUME IInv, Raise PROVE IInv'
  OBVIOUS
<1>1. GlobalScope \in Objs
  BY ObjectModelAssumption DEF GlobalScope, Objs, BuiltinCount
<1>2. last' \in Outcomes
  BY <1>1, EndedType DEF Raise, Raised, Fatal, Ops
<1> QED
  BY <1>2, TablesUnchanged DEF Raise, Raised

\* A stuttering step.
LEMMA Stutter == IInv /\ UNCHANGED vars => IInv'
BY DEF IInv, TypeOK, FieldsOfKind, LiveIsPrefix, LiveHaveClass, ConstsAreLive, ChainsEnd,
       TagMatchesType, OnlyNewIsNew, OneNameEach, BodyIsBound, TaggedModule, Live, Running, vars

\* Every step of the program keeps the invariant.
LEMMA NextStep == IInv /\ Next => IInv'
<1> SUFFICES ASSUME IInv, Next PROVE IInv'
  OBVIOUS
<1> USE ObjectModelAssumption
<1>1. ASSUME NEW self \in Named, NEW name \in MethodNames, NEW argc \in Arities, NEW f \in Flags,
             \/ DefineInstanceMethod(self, name, argc, f[1], f[2])
             \/ DefineSingletonMethod(self, name, argc, f[1], f[2])
      PROVE  IInv'
  <2>1. self \in Objs /\ f[1] \in BOOLEAN /\ f[2] \in BOOLEAN
    OBVIOUS
  <2> QED
    BY <1>1, <2>1, DefineInstanceMethodStep, DefineSingletonMethodStep
<1>2. ASSUME NEW self \in Named, DefineClassInstance(self) PROVE IInv'
  BY <1>2, DefineClassInstanceStep
<1>3. ASSUME NEW self \in Named, NEW super \in Supers, NEW name \in ConstNames,
             DefineClass(self, name, super)
      PROVE  IInv'
  BY <1>3, DefineStep DEF DefineClass, Ops
<1>4. ASSUME NEW self \in Named, NEW name \in ConstNames, DefineModule(self, name) PROVE IInv'
  BY <1>4, DefineStep DEF DefineModule, Ops
<1>5. CASE EndBody
  BY <1>5, EndBodyStep
<1>6. ASSUME NEW o \in Receivers, NEW name, NEW n, Call(o, name, n) PROVE IInv'
  BY <1>6, CallStep
<1>7. ASSUME NEW c \in Named, NEW n, NewObject(c, n) PROVE IInv'
  BY <1>7, NewObjectStep
<1>8. ASSUME NEW m \in Named, NEW name, ReadConst(m, name) PROVE IInv'
  BY <1>8, ReadConstStep
<1>9. CASE Raise
  BY <1>9, RaiseStep
<1> QED
  BY <1>1, <1>2, <1>3, <1>4, <1>5, <1>6, <1>7, <1>8, <1>9 DEF Next

-----------------------------------------------------------------------------
(* What later steps leave found.                                           *)

\* An entry, once made, is never taken away, and a live object stays what it is.
GrowsOnly ==
  /\ \A o \in Objs, m \in MethodNames :
       /\ methods[o][m] # NULL => methods'[o][m] # NULL
       /\ singleton[o][m] # NULL => singleton'[o][m] # NULL
  /\ \A o \in Live : /\ kind'[o] = kind[o]
                     /\ objectClass'[o] = objectClass[o]
                     /\ parent'[o] = parent[o]

LEMMA FoundInstanceStays ==
  ASSUME IInv, IInv', GrowsOnly, NEW m \in MethodNames, NEW c \in Objs,
         FindInstance(m)[c] \in Metas
  PROVE  FindInstance(m)'[c] \in Metas
<1> DEFINE Bad == {o \in Objs : FindInstance(m)[o] \in Metas /\ FindInstance(m)'[o] \notin Metas}
<1>1. Bad = {}
  <2> SUFFICES ASSUME Bad # {} PROVE FALSE
    OBVIOUS
  <2>1. Bad \in SUBSET Nat
    BY DEF Objs
  <2>2. PICK o \in Bad : \A q \in Bad : o <= q
    <3> HIDE DEF Bad
    <3> QED
      BY <2>1, SmallestExists
  <2>3. o \in Objs /\ FindInstance(m)[o] \in Metas /\ FindInstance(m)'[o] \notin Metas
    OBVIOUS
  <2>4. NULL \notin Metas /\ NullDeref \notin Metas /\ WildRead \notin Metas
    BY ObjectModelAssumption
  <2>5. kind[o] \in {"module", "class"}
    BY <2>3, <2>4, FindInstanceWalks DEF InstanceLookupWalks
  <2>6. kind'[o] = kind[o] /\ parent'[o] = parent[o]
    BY <2>3, <2>5 DEF GrowsOnly, Live
  <2>7. FindInstance(m)'[o] =
          IF kind'[o] \notin {"module", "class"} THEN WildRead
          ELSE IF methods'[o][m] # NULL THEN methods'[o][m]
          ELSE IF kind'[o] = "module" THEN WildRead
          ELSE IF parent'[o] = NULL THEN NullDeref
          ELSE FindInstance(m)'[parent'[o]]
    BY <2>3, FindInstanceWalksNext DEF InstanceLookupWalks
  <2>8. methods'[o][m] \in Metas \cup {NULL}
    BY <2>3 DEF IInv, TypeOK
  <2>9. methods'[o][m] = NULL
    BY <2>3, <2>5, <2>6, <2>7, <2>8
  <2>10. methods[o][m] = NULL
    BY <2>3, <2>9 DEF GrowsOnly
  <2>11. /\ kind[o] = "class" /\ parent[o] # NULL
         /\ FindInstance(m)[o] = FindInstance(m)[parent[o]]
    BY <2>3, <2>4, <2>10, FindInstanceWalks DEF InstanceLookupWalks
  <2>12. FindInstance(m)'[o] = FindInstance(m)'[parent[o]]
    BY <2>6, <2>7, <2>9, <2>11
  <2>13. parent[o] \in Objs /\ parent[o] < o
    BY <2>3, <2>11 DEF IInv, TypeOK, ChainsEnd, Live
  <2>14. parent[o] \notin Bad
    <3> HIDE DEF Bad
    <3>1. o \in Int /\ parent[o] \in Int
      BY <2>3, <2>13 DEF Objs
    <3> QED
      BY <2>2, <2>13, <3>1
  <2> QED
    BY <2>3, <2>11, <2>12, <2>13, <2>14
<1> QED
  BY <1>1

LEMMA FoundSingletonStays ==
  ASSUME IInv, IInv', GrowsOnly, NEW m \in MethodNames, NEW c \in Live,
         FindSingleton(m)[c] \in Metas
  PROVE  FindSingleton(m)'[c] \in Metas
<1> DEFINE Bad == {o \in Live : FindSingleton(m)[o] \in Metas /\ FindSingleton(m)'[o] \notin Metas}
<1>1. Bad = {}
  <2> SUFFICES ASSUME Bad # {} PROVE FALSE
    OBVIOUS
  <2>1. Bad \in SUBSET Nat
    BY DEF Live, Objs
  <2>2. PICK o \in Bad : \A q \in Bad : o <= q
    <3> HIDE DEF Bad
    <3> QED
      BY <2>1, SmallestExists
  <2>3. o \in Live /\ o \in Objs
        /\ FindSingleton(m)[o] \in Metas /\ FindSingleton(m)'[o] \notin Metas
    BY DEF Live
  <2>4. NULL \notin Metas /\ NullDeref \notin Metas /\ WildRead \notin Metas
    BY ObjectModelAssumption
  <2>5. kind'[o] = kind[o] /\ parent'[o] = parent[o]
    BY <2>3 DEF GrowsOnly
  <2>6. FindSingleton(m)'[o] =
          IF singleton'[o][m] # NULL THEN singleton'[o][m]
          ELSE IF kind'[o] # "class" THEN WildRead
          ELSE IF parent'[o] = NULL THEN NullDeref
          ELSE FindSingleton(m)'[parent'[o]]
    BY <2>3, FindSingletonWalksNext DEF SingletonLookupWalks
  <2>7. singleton'[o][m] \in Metas \cup {NULL}
    BY <2>3 DEF IInv, TypeOK
  <2>8. singleton'[o][m] = NULL
    BY <2>3, <2>6, <2>7
  <2>9. singleton[o][m] = NULL
    BY <2>3, <2>8 DEF GrowsOnly
  <2>10. /\ kind[o] = "class" /\ parent[o] # NULL
         /\ FindSingleton(m)[o] = FindSingleton(m)[parent[o]]
    BY <2>3, <2>4, <2>9, FindSingletonWalks DEF SingletonLookupWalks
  <2>11. FindSingleton(m)'[o] = FindSingleton(m)'[parent[o]]
    BY <2>5, <2>6, <2>8, <2>10
  <2>12. parent[o] \in Live /\ parent[o] < o
    BY <2>3, <2>10 DEF IInv, TypeOK, ChainsEnd, Live, LiveIsPrefix
  <2>13. parent[o] \notin Bad
    <3> HIDE DEF Bad
    <3>1. o \in Int /\ parent[o] \in Int
      BY <2>3, <2>12 DEF Live, Objs
    <3> QED
      BY <2>2, <2>12, <3>1
  <2> QED
    BY <2>3, <2>10, <2>11, <2>12, <2>13
<1> QED
  BY <1>1

\* Object::findMethod goes on finding something where it found something.
LEMMA FoundMethodStays ==
  ASSUME IInv, IInv', GrowsOnly, NEW m \in MethodNames, NEW o \in Live,
         FindMethod(o, m) \in Metas
  PROVE  FindMethod(o, m)' \in Metas
<1>1. NULL \notin Metas /\ NullDeref \notin Metas /\ WildRead \notin Metas
  BY ObjectModelAssumption
<1>2. o \in Objs /\ kind'[o] = kind[o] /\ objectClass'[o] = objectClass[o]
  BY DEF GrowsOnly, Live
<1>3. singleton'[o][m] \in Metas \cup {NULL}
  BY <1>2 DEF IInv, TypeOK
<1>4. CASE singleton'[o][m] # NULL
  BY <1>3, <1>4 DEF FindMethod
<1>5. CASE singleton'[o][m] = NULL
  <2>1. singleton[o][m] = NULL
    BY <1>2, <1>5 DEF GrowsOnly
  <2>2. CASE objectClass[o] = ClassClass
    BY <1>2, <1>5, <2>1, <2>2, FoundSingletonStays DEF FindMethod
  <2>3. CASE objectClass[o] # ClassClass
    <3>1. objectClass[o] # ModuleClass
      BY <1>1, <2>1, <2>3 DEF FindMethod
    <3>2. objectClass[o] \in Objs
      BY <1>2 DEF IInv, LiveHaveClass, Live
    <3> QED
      BY <1>2, <1>5, <2>1, <2>3, <3>1, <3>2, FoundInstanceStays DEF FindMethod
  <2> QED
    BY <2>2, <2>3
<1> QED
  BY <1>4, <1>5

\* No step takes an entry away or changes what a live object is.
LEMMA StepsGrow ==
  ASSUME IInv, Next
  PROVE  GrowsOnly
<1>1. /\ kind \in [Objs -> Kinds] /\ objectClass \in [Objs -> Objs \cup {NULL}]
      /\ parent \in [Objs -> Objs \cup {NULL}]
      /\ methods \in [Objs -> [MethodNames -> Metas \cup {NULL}]]
      /\ singleton \in [Objs -> [MethodNames -> Metas \cup {NULL}]]
  BY DEF IInv, TypeOK
<1>2. Named \subseteq Objs /\ Arities \subseteq Int /\ Flags \subseteq BOOLEAN \X BOOLEAN
  BY ObjectModelAssumption
<1>3. NULL \notin Metas
  BY ObjectModelAssumption
<1>4. ASSUME NEW self \in Objs, NEW name \in MethodNames, NEW argc \in Arities,
             NEW b \in BOOLEAN, NEW n \in BOOLEAN, DefineInstanceMethod(self, name, argc, b, n)
      PROVE  GrowsOnly
  <2>1. UNCHANGED <<kind, objectClass, parent, singleton>>
    BY <1>4 DEF DefineInstanceMethod
  <2>2. CASE BadFormat(argc, b, n)
    BY <1>4, <2>1, <2>2 DEF DefineInstanceMethod, GrowsOnly
  <2>3. CASE ~BadFormat(argc, b, n)
    <3>1. MethodOwner(self) \in Objs
      BY <1>4, OwnerHasTable DEF DefineInstanceMethod
    <3> DEFINE e == Meta(MethodOwner(self), argc, b, n)
    <3>2. e \in Metas
      BY <2>3, <3>1, NewEntry
    <3>3. methods' = [methods EXCEPT ![MethodOwner(self)][name] = e]
      BY <1>4, <2>3 DEF DefineInstanceMethod, Store
    <3> HIDE DEF e
    <3>4. \A o \in Objs, m \in MethodNames : methods'[o][m] \in {methods[o][m], e}
      BY <1>1, <3>1, <3>2, <3>3, TableUpdate
    <3> QED
      BY <1>3, <2>1, <3>2, <3>4 DEF GrowsOnly
  <2> QED
    BY <2>2, <2>3
<1>5. ASSUME NEW self \in Objs, NEW name \in MethodNames, NEW argc \in Arities,
             NEW b \in BOOLEAN, NEW n \in BOOLEAN, DefineSingletonMethod(self, name, argc, b, n)
      PROVE  GrowsOnly
  <2>1. UNCHANGED <<kind, objectClass, parent, methods>>
    BY <1>5 DEF DefineSingletonMethod
  <2>2. CASE BadFormat(argc, b, n)
    BY <1>5, <2>1, <2>2 DEF DefineSingletonMethod, GrowsOnly
  <2>3. CASE ~BadFormat(argc, b, n)
    <3> DEFINE e == Meta(self, argc, b, n)
    <3>1. e \in Metas
      BY <2>3, NewEntry
    <3>2. singleton' = [singleton EXCEPT ![self][name] = e]
      BY <1>5, <2>3 DEF DefineSingletonMethod, Store
    <3> HIDE DEF e
    <3>3. \A o \in Objs, m \in MethodNames : singleton'[o][m] \in {singleton[o][m], e}
      BY <1>1, <3>1, <3>2, TableUpdate
    <3> QED
      BY <1>3, <2>1, <3>1, <3>3 DEF GrowsOnly
  <2> QED
    BY <2>2, <2>3
<1>6. ASSUME NEW op, NEW k, NEW tag, NEW self, NEW name, NEW super,
             Define(op, k, tag, self, name, super)
      PROVE  GrowsOnly
  BY <1>1, <1>6 DEF Define, Reopen, Create, IsNext, Live, GrowsOnly
<1>7. ASSUME NEW c, NEW n, NewObject(c, n) PROVE GrowsOnly
  BY <1>1, <1>7 DEF NewObject, IsNext, Live, GrowsOnly
<1>8. ASSUME UNCHANGED <<kind, objectClass, parent, methods, singleton>> PROVE GrowsOnly
  BY <1>8 DEF GrowsOnly
<1>9. ASSUME NEW self \in Named, NEW name \in MethodNames, NEW argc \in Arities, NEW f \in Flags,
             \/ DefineInstanceMethod(self, name, argc, f[1], f[2])
             \/ DefineSingletonMethod(self, name, argc, f[1], f[2])
      PROVE  GrowsOnly
  <2>1. f[1] \in BOOLEAN /\ f[2] \in BOOLEAN
    BY <1>2
  <2> QED
    BY <1>2, <1>4, <1>5, <1>9, <2>1
<1> QED
  BY <1>6, <1>7, <1>8, <1>9 DEF Next, DefineClassInstance, DefineClass, DefineModule, EndBody,
       Raise, Call, ReadConst

-----------------------------------------------------------------------------
(* The theorems.                                                           *)

\* IInv is an inductive invariant of the object model.
THEOREM Invariance == Spec => []IInv
<1>1. IInv /\ [Next]_vars => IInv'
  BY NextStep, Stutter
<1> QED
  BY BootState, <1>1, PTL DEF Spec

\* Every table, every chain and every outcome is well formed.
THEOREM TypeCorrect == Spec => []TypeOK
<1>1. IInv => TypeOK
  BY DEF IInv
<1> QED
  BY Invariance, <1>1, PTL

\* The casts of findMethod, defineClass and defineInstanceMethod are sound.
THEOREM TagsAreTruthful == Spec => []TagMatchesType
<1>1. IInv => TagMatchesType
  BY DEF IInv
<1> QED
  BY Invariance, <1>1, PTL

\* Method and constant lookup end.
THEOREM LookupTerminates == Spec => []ChainsEnd
<1>1. IInv => ChainsEnd
  BY DEF IInv
<1> QED
  BY Invariance, <1>1, PTL

\* A class or module that the program made has one name, in its holder.
THEOREM EachHasOneName == Spec => []OneNameEach
<1>1. IInv => OneNameEach
  BY DEF IInv
<1> QED
  BY Invariance, <1>1, PTL

\* A running body is what its scope calls it.
THEOREM RunningBodyIsBound == Spec => []BodyIsBound
<1>1. IInv => BodyIsBound
  BY DEF IInv
<1> QED
  BY Invariance, <1>1, PTL

\* Constants are never rebound.
THEOREM ConstantFinality == Spec => ConstantsAreFinal
<1>1. IInv /\ [Next]_vars =>
        [\A o \in Objs, n \in ConstNames : consts[o][n] # NULL => consts'[o][n] = consts[o][n]]_vars
  <2> SUFFICES ASSUME IInv, [Next]_vars, NEW o \in Objs, NEW n \in ConstNames,
                      consts[o][n] # NULL
               PROVE  consts'[o][n] = consts[o][n]
    OBVIOUS
  <2>1. consts \in [Objs -> [ConstNames -> Objs \cup {NULL}]]
    BY DEF IInv, TypeOK
  <2>2. \/ UNCHANGED consts
        \/ \E outer \in Objs, name \in ConstNames, new \in Objs :
             consts[outer][name] = NULL /\ consts' = [consts EXCEPT ![outer][name] = new]
    <3>1. \A self \in Objs : Scope(self) \in Objs
      BY ObjectModelAssumption DEF Scope, Objs, RootModule, BuiltinCount
    <3>2. ASSUME NEW op, NEW k, NEW tag, NEW self \in Objs, NEW name \in ConstNames, NEW super,
                 Define(op, k, tag, self, name, super)
          PROVE  \/ UNCHANGED consts
                 \/ \E outer \in Objs, m \in ConstNames, new \in Objs :
                      consts[outer][m] = NULL /\ consts' = [consts EXCEPT ![outer][m] = new]
      BY <3>1, <3>2 DEF Define, Bound, Reopen, Create, SetConst
    <3> QED
      BY <3>2, ObjectModelAssumption DEF Next, vars, DefineInstanceMethod,
           DefineSingletonMethod, DefineClassInstance, DefineClass, DefineModule, EndBody,
           Raise, Call, NewObject, ReadConst
  <2> QED
    BY <2>1, <2>2
<1> QED
  BY Invariance, <1>1, PTL DEF Spec, ConstantsAreFinal

\* What an object is never changes.
THEOREM IdentityFinality == Spec => IdentityIsFinal
<1>1. IInv /\ [Next]_vars =>
        [\A o \in Live : /\ kind'[o] = kind[o]
                         /\ objectClass'[o] = objectClass[o]
                         /\ parent'[o] = parent[o]
                         /\ holder'[o] = holder[o]]_vars
  <2> SUFFICES ASSUME IInv, [Next]_vars, NEW o \in Live
               PROVE  kind'[o] = kind[o] /\ objectClass'[o] = objectClass[o]
                      /\ parent'[o] = parent[o] /\ holder'[o] = holder[o]
    OBVIOUS
  <2>1. /\ kind \in [Objs -> Kinds] /\ objectClass \in [Objs -> Objs \cup {NULL}]
        /\ parent \in [Objs -> Objs \cup {NULL}] /\ holder \in [Objs -> Objs \cup {NULL}]
    BY DEF IInv, TypeOK
  <2>2. ASSUME NEW op, NEW k, NEW tag, NEW self, NEW name, NEW super,
               Define(op, k, tag, self, name, super)
        PROVE  kind'[o] = kind[o] /\ objectClass'[o] = objectClass[o]
               /\ parent'[o] = parent[o] /\ holder'[o] = holder[o]
    BY <2>1, <2>2 DEF Define, Reopen, Create, IsNext, Live
  <2>3. ASSUME NEW c, NEW n, NewObject(c, n)
        PROVE  kind'[o] = kind[o] /\ objectClass'[o] = objectClass[o]
               /\ parent'[o] = parent[o] /\ holder'[o] = holder[o]
    BY <2>1, <2>3 DEF NewObject, IsNext, Live
  <2> QED
    BY <2>2, <2>3 DEF Next, vars, DefineInstanceMethod,
         DefineSingletonMethod, DefineClassInstance, DefineClass, DefineModule, EndBody,
         Raise, Call, ReadConst
<1> QED
  BY Invariance, <1>1, PTL DEF Spec, IdentityIsFinal

\* Overriding: an instance lookup that ends in an entry ends in that of the nearest
\* ancestor that has one, whatever was defined, reopened or created before.
THEOREM NearestEntryWins == Spec => []NearestWins
<1>1. IInv => NearestWins
  BY NearestFound DEF NearestWins, Live
<1> QED
  BY <1>1, Invariance, PTL

\* A method an object responds to is never lost.
THEOREM MethodsStay == Spec => MethodsAreNeverLost
<1>1. IInv /\ [Next]_vars => IInv'
  BY NextStep, Stutter
<1>2. IInv /\ IInv' /\ [Next]_vars =>
        [\A o \in Live, m \in MethodNames :
           FindMethod(o, m) \in Metas => FindMethod(o, m)' \in Metas]_vars
  BY StepsGrow, FoundMethodStays
<1> QED
  BY <1>1, <1>2, Invariance, PTL DEF Spec, MethodsAreNeverLost
==============================================================================
