---------------------------- MODULE MCTokenStream ----------------------------
(***************************************************************************)
(* TokenStream for TLC: every text over an alphabet, up to a length, and   *)
(* every shorter one over a larger alphabet.                               *)
(***************************************************************************)
EXTENDS TokenStream

CONSTANTS Alphabet, MaxLength,  \* few classes of characters, in long texts
          Wide, WideLength      \* many, in short ones

Texts(S, length) == UNION {[1 .. n -> S] : n \in 0 .. length}
MCInputs == Texts(Alphabet, MaxLength) \cup Texts(Wide, WideLength)
==============================================================================
