------------------------------- MODULE MCCalls -------------------------------
(* The methods TLC calls: one for each way an argument, a block or a hash can travel.   *)
EXTENDS Calls

MCMethods == {"top_required", "none", "one", "rest", "block", "named", "both", "send", "new"}

Signature(n, b, h, code) == [argc |-> n, hasBlock |-> b, hasNamedArgs |-> h, body |-> code]

MCMeta == [m \in MCMethods |->
  CASE m = "top_required" -> Signature(0, FALSE, FALSE, "ruby")
    [] m = "none"         -> Signature(0, FALSE, FALSE, "native")
    [] m = "one"          -> Signature(1, FALSE, FALSE, "ruby")
    [] m = "rest"         -> Signature(-1, FALSE, FALSE, "ruby")
    [] m = "block"        -> Signature(-1, TRUE, FALSE, "native")
    [] m = "named"        -> Signature(-1, FALSE, TRUE, "ruby")
    [] m = "both"         -> Signature(-1, TRUE, TRUE, "native")
    [] m = "send"         -> Signature(-1, TRUE, TRUE, "send")
    [] m = "new"          -> Signature(-1, TRUE, TRUE, "new")]
==============================================================================
