----------------------------- MODULE ObjectModel -----------------------------
(***************************************************************************)
(* The run-time object model of src/src/lang: objects, classes, modules,   *)
(* their constant and method tables, and the operations that change or     *)
(* search them (Object.cpp, Module.cpp, Class.cpp, HashInternal.cpp), from *)
(* the state BasicClasses::init, PrimaryConstants::init and                *)
(* NativeImplLoader::loadImpl leave behind.                                *)
(*                                                                         *)
(* An object is the number of its allocation: nothing is ever freed, so    *)
(* the address of an object is never reused.  A HashInternal is a total    *)
(* function to a value or NULL: get() inserts a null entry for a missing   *)
(* key, and no caller of the run time tells such an entry from a missing   *)
(* one.  The vectors included, extended and prepended of a module stay     *)
(* empty (no code adds to them), so lookup never enters them.              *)
(***************************************************************************)
EXTENDS Integers, Sequences, FiniteSets, Folds

CONSTANTS
  ConstNames,   \* symbols used as names of constants
  MethodNames,  \* symbols used as names of methods
  Initialize,   \* the symbol "initialize"
  New,          \* the symbol "new"
  Arities,      \* the argc values passed to define*Method
  Named,        \* the objects the expressions of the program evaluate to
  Supers,       \* those that it names as superclasses
  Receivers,    \* those that it calls methods on
  HeapSize,     \* bound: number of objects that can be allocated
  Flags,        \* the <<hasBlock, hasNamedArgs>> passed to define*Method
  MaxDefs,      \* bound: method entries beyond those of the boot state
  MaxDepth,     \* bound: nesting of class and module bodies
  NULL,         \* the null pointer
  NullDeref,    \* a lookup that followed the null parent of BasicObjectClass
  WildRead      \* a lookup that read memory not holding what it was taken for

MaxDirectArgsLen == 5

Objs == 0 .. HeapSize - 1

\* The objects of BasicClasses::init and PrimaryConstants::init that matter to
\* the operations, in the order they are constructed.
RootModule       == 0
BasicObjectClass == 1
ObjectClass      == 2
ClassClass       == 3
ModuleClass      == 4
KernelModule     == 5
GlobalScope      == 6
BuiltinCount     == 7
Builtins         == 0 .. BuiltinCount - 1

\* FunctionDefMeta.  The code pointer is abstracted to where the function was
\* defined: the object whose table received it, or Native for the run time's own.
Native == -1
Metas  == [function : Objs \cup {Native}, argc : Arities \cup {-1, 0},
           hasBlock : BOOLEAN, hasNamedArgs : BOOLEAN]

Kinds == {"free", "plain", "module", "class"}

\* What ends a program: an exception nobody handles, a read through a null
\* pointer, a read of memory that is not the object it is taken for, a failed
\* assert.
Fatal == {"raise", "nullDeref", "wildRead", "assert"}

ASSUME ObjectModelAssumption ==
  /\ HeapSize \in Nat /\ HeapSize >= BuiltinCount
  /\ MaxDepth \in Nat /\ MaxDefs \in Nat
  /\ Flags \subseteq BOOLEAN \X BOOLEAN
  /\ Arities \subseteq Int /\ Named \subseteq Objs
  /\ Supers \subseteq Objs /\ Receivers \subseteq Objs
  /\ Initialize \in MethodNames /\ New \in MethodNames /\ Initialize # New
  /\ NULL \notin Objs
  /\ {NULL, NullDeref, WildRead} \cap Metas = {}
  /\ NULL # NullDeref /\ NULL # WildRead /\ NullDeref # WildRead

VARIABLES
  kind,        \* the C++ type an address was constructed as
  objectClass, \* Object::objectClass
  parent,      \* Class::parent
  holder,      \* Module::holder
  consts,      \* Module::consts
  methods,     \* Module::methods
  singleton,   \* Object::singletonMethods (a null table holds nothing)
  bodies,      \* the class and module bodies being executed, outermost first
  last         \* the last operation that opened a body or failed, its object, its result

vars == <<kind, objectClass, parent, holder, consts, methods, singleton, bodies, last>>

NoConsts  == [n \in ConstNames |-> NULL]
NoMethods == [m \in MethodNames |-> NULL]

Meta(f, argc, b, n) ==
  [function |-> f, argc |-> argc, hasBlock |-> b, hasNamedArgs |-> n]

\* BasicObjectImpl::ClassImpl::self_new, and ModuleImpl::ClassImpl::new_impl, which
\* does nothing and returns a null pointer.
SelfNew == Meta(Native, -1, TRUE, TRUE)
Stub    == Meta(Native, -1, TRUE, FALSE)

\* The constants of RootModule after boot; ConstNames are the names of the
\* builtin classes the model keeps, and names free for the program.
BootConsts ==
  [n \in ConstNames |-> CASE n = "Object" -> ObjectClass
                          [] n = "Class"  -> ClassClass
                          [] n = "Kernel" -> KernelModule
                          [] OTHER        -> NULL]

Init ==
  /\ kind = [o \in Objs |->
       CASE o \in {RootModule, KernelModule} -> "module"
         [] o \in {BasicObjectClass, ObjectClass, ClassClass, ModuleClass} -> "class"
         [] o = GlobalScope -> "plain"
         [] OTHER -> "free"]
  /\ objectClass = [o \in Objs |->
       CASE o = GlobalScope -> ObjectClass
         [] o \in Builtins \ {GlobalScope} -> ClassClass
         [] OTHER -> NULL]
  /\ parent = [o \in Objs |->
       CASE o = ObjectClass -> BasicObjectClass
         [] o \in {ClassClass, ModuleClass} -> ObjectClass
         [] OTHER -> NULL]
  /\ holder = [o \in Objs |-> NULL]
  /\ consts = [o \in Objs |-> IF o = RootModule THEN BootConsts ELSE NoConsts]
  /\ methods = [o \in Objs |->
       IF o = BasicObjectClass
       THEN [NoMethods EXCEPT ![Initialize] = Meta(Native, 0, FALSE, FALSE)]
       ELSE NoMethods]
  /\ singleton = [o \in Objs |->
       CASE o = BasicObjectClass -> [NoMethods EXCEPT ![New] = SelfNew]
         [] o = ModuleClass      -> [NoMethods EXCEPT ![New] = Stub]
         [] OTHER                -> NoMethods]
  /\ bodies = <<>>
  /\ last = [op |-> "none", on |-> GlobalScope, res |-> "ok"]

-----------------------------------------------------------------------------
(* Helpers.                                                                *)

Live     == {o \in Objs : kind[o] # "free"}
Running  == last.res \notin Fatal

\* The address the next allocation gets.
IsNext(o) == kind[o] = "free" /\ \A q \in Objs : q < o => kind[q] # "free"

\* The test the code makes before it takes an object for a module.
TaggedModule(o) == objectClass[o] \in {ClassClass, ModuleClass}

Ended(op, o, res) == last' = [op |-> op, on |-> o, res |-> res]
Done == Ended("none", GlobalScope, "ok")

\* An exception leaves every body that is being executed: no handler of the
\* generated code or of the run time catches it before main.
Raised(op, o) == Ended(op, o, "raise") /\ bodies' = <<>>

\* Class::findClassInstanceMethod over Module::findModuleInstanceMethod: the
\* table of the class, else that of its parent, with no test for a null parent.
\* An address not constructed as a module has no table to read, one not
\* constructed as a class no parent.
FindInstanceAncestorsFirst(name) ==  \* mutant: the parent is asked first
  LET find[o \in Objs] ==
        IF kind[o] = "class" /\ parent[o] # NULL /\ find[parent[o]] \in Metas
        THEN find[parent[o]]
        ELSE IF kind[o] \notin {"module", "class"} THEN WildRead
        ELSE IF methods[o][name] # NULL THEN methods[o][name] ELSE NullDeref
  IN  find
FindInstance(name) ==
  LET find[o \in Objs] ==
        IF kind[o] \notin {"module", "class"} THEN WildRead
        ELSE IF methods[o][name] # NULL THEN methods[o][name]
        ELSE IF kind[o] = "module" THEN WildRead
        ELSE IF parent[o] = NULL THEN NullDeref
        ELSE find[parent[o]]
  IN  find

\* Class::findClassSingletonMethod over Module::findModuleSingletonMethod: every
\* object has the field singletonMethods, the rest as above.
FindSingleton(name) ==
  LET find[o \in Objs] ==
        IF singleton[o][name] # NULL THEN singleton[o][name]
        ELSE IF kind[o] # "class" THEN WildRead
        ELSE IF parent[o] = NULL THEN NullDeref
        ELSE find[parent[o]]
  IN  find

\* Object::findMethod.
FindMethod(o, name) ==
  IF singleton[o][name] # NULL THEN singleton[o][name]
  ELSE IF objectClass[o] = ClassClass THEN FindSingleton(name)[o]
  ELSE IF objectClass[o] = ModuleClass
       THEN IF kind[o] = "plain" THEN WildRead ELSE NULL
  ELSE FindInstance(name)[objectClass[o]]

\* The dispatch of call, callV, ..., callForward: a code pointer is called with
\* the arguments as an array (argc = -1) or directly, when their number is right.
\* The null pointer that Stub returns is no object a later operation is given.
Accepts(meta, n) == meta.argc \in {-1, n}
Dispatch(found, n) ==
  IF found = NullDeref THEN "nullDeref"
  ELSE IF found = WildRead THEN "wildRead"
  ELSE IF found = NULL THEN "raise"
  ELSE IF Accepts(found, n) THEN "ok" ELSE "raise"

-----------------------------------------------------------------------------
(* Definitions.                                                            *)

\* The check at the head of defineInstanceMethod and defineSingletonMethod.
BadFormat(argc, b, n) == argc > MaxDirectArgsLen \/ ((b \/ n) /\ argc # -1)

\* The bound MaxDefs: the entry o[m] is there already, or there is room for it.
Entries(table) == {p \in Objs \X MethodNames : table[p[1]][p[2]] # NULL}
BootEntries == 3
RoomFor(table, o, m) ==
  \/ table[o][m] # NULL
  \/ Cardinality(Entries(methods)) + Cardinality(Entries(singleton)) < BootEntries + MaxDefs

\* HashInternal::set on the method table of o, made when it is first needed.
StoreFresh(table, o, m, e) == [table EXCEPT ![o] = [NoMethods EXCEPT ![m] = e]]  \* mutant: made anew
Store(table, o, m, e)      == [table EXCEPT ![o][m] = e]

MethodOwnerSelf(self) == self  \* mutant: no test whether self is a module
MethodOwner(self)     == IF TaggedModule(self) THEN self ELSE objectClass[self]

\* Object::defineInstanceMethod: `def name` where self is `self`.
DefineInstanceMethod(self, name, argc, b, n) ==
  /\ Running /\ self \in Live
  /\ IF BadFormat(argc, b, n)
     THEN Raised("def", self) /\ UNCHANGED methods
     ELSE /\ RoomFor(methods, MethodOwner(self), name)
          /\ methods' = Store(methods, MethodOwner(self), name,
                              Meta(MethodOwner(self), argc, b, n))
          /\ Done /\ UNCHANGED bodies
  /\ UNCHANGED <<kind, objectClass, parent, holder, consts, singleton>>

\* Object::defineSingletonMethod: `def self.name`.
DefineSingletonMethod(self, name, argc, b, n) ==
  /\ Running /\ self \in Live
  /\ IF BadFormat(argc, b, n)
     THEN Raised("def", self) /\ UNCHANGED singleton
     ELSE /\ RoomFor(singleton, self, name)
          /\ singleton' = Store(singleton, self, name, Meta(self, argc, b, n))
          /\ Done /\ UNCHANGED bodies
  /\ UNCHANGED <<kind, objectClass, parent, holder, consts, methods>>

\* Object::defineClassInstance: `class << self` always throws.
DefineClassInstance(self) ==
  /\ Running /\ self \in Live
  /\ Raised("singletonClass", self)
  /\ UNCHANGED <<kind, objectClass, parent, holder, consts, methods, singleton>>

\* defineClass and defineModule on the top-level self define in RootModule.
Scope(self) == IF self = GlobalScope THEN RootModule ELSE self

Body(c, outer, name) == [self |-> c, outer |-> outer, name |-> name]

\* HashInternal::get of the constants of the scope.
BoundNowhere(outer, name) == NULL                  \* mutant: the lookup misses
Bound(outer, name)        == consts[outer][name]

\* A class or module that is there runs another body; its superclass is ignored.
ReopenReparented(op, found, outer, name, super) == \* mutant: the superclass is set again
  /\ Ended(op, found, "reopened")
  /\ bodies' = Append(bodies, Body(found, outer, name))
  /\ parent' = [parent EXCEPT ![found] = super]
  /\ UNCHANGED <<kind, objectClass, holder, consts>>
Reopen(op, found, outer, name, super) ==
  /\ Ended(op, found, "reopened")
  /\ bodies' = Append(bodies, Body(found, outer, name))
  /\ UNCHANGED <<kind, objectClass, parent, holder, consts>>

\* Module::setConst.  The mutant takes the scope of the name for the root.
SetConstInRoot(outer, name, o) == consts' = [consts EXCEPT ![RootModule][name] = o]
SetConst(outer, name, o)       == consts' = [consts EXCEPT ![outer][name] = o]

\* A new class or module is linked, then bound, then its body runs.
Create(k, outer, name, super) ==
  \E new \in Objs :
    /\ IsNext(new)
    /\ kind' = [kind EXCEPT ![new] = k]
    /\ objectClass' = [objectClass EXCEPT ![new] = ClassClass]
    /\ parent' = [parent EXCEPT ![new] = super]
    /\ holder' = [holder EXCEPT ![new] = outer]
    /\ SetConst(outer, name, new)
    /\ Done
    /\ bodies' = Append(bodies, Body(new, outer, name))

\* The part defineClass and defineModule share: the assert on the scope, then the
\* constant found there, which must carry `tag`, or a new object of type k.
Define(op, k, tag, self, name, super) ==
  LET outer == Scope(self)
      found == Bound(outer, name)
  IN
  /\ Running /\ self \in Live /\ Len(bodies) < MaxDepth
  /\ \/ /\ ~TaggedModule(outer)
        /\ Ended(op, outer, "assert") /\ bodies' = <<>>
        /\ UNCHANGED <<kind, objectClass, parent, holder, consts>>
     \/ /\ TaggedModule(outer) /\ found # NULL /\ objectClass[found] # tag
        /\ Raised(op, found)
        /\ UNCHANGED <<kind, objectClass, parent, holder, consts>>
     \/ /\ TaggedModule(outer) /\ found # NULL /\ objectClass[found] = tag
        /\ Reopen(op, found, outer, name, super)
     \/ /\ TaggedModule(outer) /\ found = NULL
        /\ Create(k, outer, name, super)
  /\ UNCHANGED <<methods, singleton>>

\* Object::defineClass.  The superclass is whatever object its expression gave.
DefineClass(self, name, super) ==
  super \in Live /\ Define("class", "class", ClassClass, self, name, super)

\* Object::defineModule.  The constructor of Module sets objectClass to ClassClass.
DefineModule(self, name) ==
  Define("module", "module", ModuleClass, self, name, NULL)

\* The definition function of the innermost body returns.
EndBody ==
  /\ Running /\ bodies # <<>>
  /\ Done
  /\ bodies' = SubSeq(bodies, 1, Len(bodies) - 1)
  /\ UNCHANGED <<kind, objectClass, parent, holder, consts, methods, singleton>>

-----------------------------------------------------------------------------
(* Uses.                                                                   *)

\* A method call with n arguments; what the method's own code does is other steps.
Call(o, name, n) ==
  LET found == FindMethod(o, name)
      res   == Dispatch(found, n)
  IN  /\ Running /\ o \in Live /\ found # SelfNew
      /\ IF res = "ok" THEN Done ELSE Ended("call", o, res)
      /\ bodies' = IF res = "ok" THEN bodies ELSE <<>>
      /\ UNCHANGED <<kind, objectClass, parent, holder, consts, methods, singleton>>

\* ClassImpl::self_new: memory of the class's instance size is constructed as an
\* Object, whatever the class, and initialize is called on it.  The object of
\* Class.new or Module.new is tagged as a module whose fields nothing initialised.
InitializedAlways(c, n) == Dispatch(FindInstance(Initialize)[c], n)  \* mutant: any class will do
Initialized(c, n) ==
  IF c \in {ClassClass, ModuleClass} THEN "wildRead"
  ELSE Dispatch(FindInstance(Initialize)[c], n)

NewObject(c, n) ==
  LET res == Initialized(c, n)
  IN  /\ Running /\ c \in Live /\ FindMethod(c, New) = SelfNew
      /\ \E new \in Objs :
           /\ IsNext(new)
           /\ kind' = [kind EXCEPT ![new] = "plain"]
           /\ objectClass' = [objectClass EXCEPT ![new] = c]
           /\ IF res = "ok" THEN Done ELSE Ended("new", new, res)
      /\ bodies' = IF res = "ok" THEN bodies ELSE <<>>
      /\ UNCHANGED <<parent, holder, consts, methods, singleton>>

\* Module::getConst: the module's own constants, then those of its holders.
GetConst(m, name) ==
  LET find[o \in Objs] ==
        IF consts[o][name] # NULL \/ holder[o] = NULL THEN consts[o][name]
        ELSE find[holder[o]]
  IN  find[m]

ReadConst(m, name) ==
  /\ Running /\ m \in Live /\ kind[m] \in {"module", "class"}
  /\ \/ GetConst(m, name) # NULL /\ Done /\ UNCHANGED bodies
     \/ GetConst(m, name) = NULL /\ Raised("const", m)
  /\ UNCHANGED <<kind, objectClass, parent, holder, consts, methods, singleton>>

\* Uraise, the method raise that main gives every object.
Raise == /\ Running /\ Raised("raise", GlobalScope)
         /\ UNCHANGED <<kind, objectClass, parent, holder, consts, methods, singleton>>

Next ==
  \/ \E self \in Named, name \in MethodNames, argc \in Arities, f \in Flags :
       \/ DefineInstanceMethod(self, name, argc, f[1], f[2])
       \/ DefineSingletonMethod(self, name, argc, f[1], f[2])
  \/ \E self \in Named : DefineClassInstance(self)
  \/ \E self \in Named, super \in Supers, name \in ConstNames : DefineClass(self, name, super)
  \/ \E self \in Named, name \in ConstNames : DefineModule(self, name)
  \/ EndBody
  \/ Raise
  \/ \E o \in Receivers, name \in MethodNames, n \in {a \in Arities : a >= 0} : Call(o, name, n)
  \/ \E c \in Named, n \in {a \in Arities : a >= 0} : NewObject(c, n)
  \/ \E m \in Named, name \in ConstNames : ReadConst(m, name)

Spec == Init /\ [][Next]_vars

-----------------------------------------------------------------------------
(* Properties.                                                             *)

Ops      == {"none", "def", "singletonClass", "class", "module", "call", "new", "const", "raise"}
Outcomes == [op : Ops, on : Objs, res : Fatal \cup {"ok", "reopened"}]
Bodies   == [self : Objs, outer : Objs, name : ConstNames]

\* An object has the fields of its C++ type and no others: only a module has
\* constants, methods and a holder, only a class a parent, and memory that was not
\* handed out has nothing.  The class of a plain object is a class, so that where
\* defineInstanceMethod puts the method of an object there is a table for it.
FieldsOfKind ==
  \A o \in Objs :
    /\ kind[o] # "class" => parent[o] = NULL
    /\ kind[o] \notin {"module", "class"} =>
         holder[o] = NULL /\ consts[o] = NoConsts /\ methods[o] = NoMethods
    /\ kind[o] = "plain" => objectClass[o] \in Objs /\ kind[objectClass[o]] = "class"
    /\ kind[o] = "free" => objectClass[o] = NULL /\ singleton[o] = NoMethods

TypeOK ==
  /\ kind \in [Objs -> Kinds]
  /\ objectClass \in [Objs -> Objs \cup {NULL}]
  /\ parent \in [Objs -> Objs \cup {NULL}]
  /\ holder \in [Objs -> Objs \cup {NULL}]
  /\ consts \in [Objs -> [ConstNames -> Objs \cup {NULL}]]
  /\ methods \in [Objs -> [MethodNames -> Metas \cup {NULL}]]
  /\ singleton \in [Objs -> [MethodNames -> Metas \cup {NULL}]]
  /\ bodies \in Seq(Bodies)
  /\ last \in Outcomes
  /\ FieldsOfKind

\* The casts of findMethod, defineClass and defineInstanceMethod are sound: while
\* the program runs, what objectClass tags as a module was constructed as one.
TagMatchesType ==
  Running => \A o \in Live : TaggedModule(o) <=> kind[o] \in {"module", "class"}

\* No chain of parents or holders loops, so the loops of getConst and the
\* recursion of the lookups end: both fields point to older objects.
ChainsEnd ==
  \A o \in Live : /\ parent[o] # NULL => parent[o] < o
                  /\ holder[o] # NULL => holder[o] < o

\* What the program makes has one name: a class or module is the value of exactly
\* one constant of all tables, and that one is in the table of its holder.  A name
\* looked up in one scope and bound in another, or a class made where there was one,
\* would give it two names or none.
OneNameEach ==
  \A o \in Live \ Builtins :
    kind[o] # "plain" =>
      \E n \in ConstNames :
        \A s \in Objs, k \in ConstNames : consts[s][k] = o <=> s = holder[o] /\ k = n

\* While a class or module body runs, the scope it was opened in resolves its name
\* to it: the constant is bound before the body starts and nothing rebinds it.
BodyIsBound ==
  \A i \in DOMAIN bodies :
    /\ consts[bodies[i].outer][bodies[i].name] = bodies[i].self
    /\ TaggedModule(bodies[i].self)

Ancestors(c) ==
  LET up[o \in Objs] == {o} \cup IF kind[o] = "class" /\ parent[o] # NULL
                                 THEN up[parent[o]] ELSE {}
  IN  up[c]

\* Overriding: when an instance lookup succeeds, the entry is the one of the
\* nearest ancestor that has any (the youngest: parents are older).
NearestWins ==
  \A c \in Live, m \in MethodNames :
    LET owners == {a \in Ancestors(c) : methods[a][m] # NULL}
    IN  FindInstance(m)[c] \in Metas =>
          \E a \in owners : /\ \A b \in owners : b <= a
                            /\ FindInstance(m)[c] = methods[a][m]

\* A constant, once bound, is bound to the same object for ever: reopening a class
\* or module never makes a second one.
ConstantsAreFinal ==
  [][\A o \in Objs, n \in ConstNames :
       consts[o][n] # NULL => consts'[o][n] = consts[o][n]]_vars

\* The identity of an object is fixed when it is made: no later definition, and no
\* reopening with another superclass, changes its type, class, parent or holder.
IdentityIsFinal ==
  [][\A o \in Live : /\ kind'[o] = kind[o]
                     /\ objectClass'[o] = objectClass[o]
                     /\ parent'[o] = parent[o]
                     /\ holder'[o] = holder[o]]_vars

\* A method that an object responds to is never lost: whatever is defined, reopened
\* or allocated later, the lookup still ends in an entry.
MethodsAreNeverLost ==
  [][\A o \in Live, m \in MethodNames :
       FindMethod(o, m) \in Metas => FindMethod(o, m)' \in Metas]_vars

\* Object.cpp:426 says of the throw in defineModule that the name "is not a module
\* (TypeError)": it should never be thrown for a constant that is a module.
TypeErrorMeansNotAModule ==
  last.op = "module" /\ last.res = "raise" => kind[last.on] # "module"

\* Object.cpp:31-33: a method that is not found makes the caller throw.
MissingMethodRaises ==
  last.op = "call" => last.res # "nullDeref"
==============================================================================
