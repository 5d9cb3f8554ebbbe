---------------------------- MODULE MCObjectModel ----------------------------
(***************************************************************************)
(* ObjectModel for TLC, with two objects beside the builtin ones.  A run   *)
(* with Small takes two kinds of program together: those that define       *)
(* hardly any method, with bodies within bodies, and those that define     *)
(* methods on a short chain of classes.                                    *)
(***************************************************************************)
EXTENDS ObjectModel

CONSTANTS ProgramNames, ProgramMethods, BuiltinsNamed

MCConstNames  == {"Object"} \cup ProgramNames
MCMethodNames == {"initialize", "new"} \cup ProgramMethods
MCArities     == {-1, 0, 6}
MCNamed       == {GlobalScope} \cup BuiltinsNamed \cup BuiltinCount .. HeapSize - 1
MCSupers      == {ObjectClass} \cup MCNamed
MCReceivers   == {ModuleClass} \cup MCNamed
MCFlags       == {<<FALSE, TRUE>>}

DefinesMethods == Cardinality(Entries(methods)) + Cardinality(Entries(singleton)) > BootEntries

\* A program with methods of its own leaves the builtin objects of the run alone.
LeavesAlone(o) ==
  /\ consts[o] = NoConsts /\ methods[o] = NoMethods /\ singleton[o] = NoMethods
  /\ \A i \in DOMAIN bodies : bodies[i].self # o
  /\ \A new \in Live \ Builtins :
       parent[new] # o /\ holder[new] # o /\ (kind[new] = "plain" => objectClass[new] # o)
Small == DefinesMethods => Len(bodies) <= 1 /\ \A o \in BuiltinsNamed : LeavesAlone(o)
==============================================================================
