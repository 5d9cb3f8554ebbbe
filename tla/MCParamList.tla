----------------------------- MODULE MCParamList -----------------------------
(* Parameter lists for TLC: all the short ones, and the one that has more required   *)
(* parameters than a direct call can pass.                                           *)
EXTENDS ParamList

CONSTANT MaxLength

ShortTexts == UNION {[1 .. n -> Kinds] : n \in 0 .. MaxLength}
ManyPlain  == [i \in 1 .. MaxDirectArgsLen + 1 |-> "plain"]

MCTexts == ShortTexts \cup {ManyPlain}
==============================================================================
