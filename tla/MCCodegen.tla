------------------------------ MODULE MCCodegen ------------------------------
(* Codegen and Execution for TLC: every program of a few statements.                  *)
EXTENDS Execution

\* A rescue for any exception comes last, and after another, or alone.
Rescue(class, var) == [class |-> class, var |-> var]
MCRescueLists == {<<>>, <<Rescue("typed", "none")>>, <<Rescue("any", "x")>>,
                  <<Rescue("typed", "x"), Rescue("any", "none")>>}
==============================================================================
