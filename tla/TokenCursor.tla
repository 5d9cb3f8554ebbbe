----------------------------- MODULE TokenCursor -----------------------------
(***************************************************************************)
(* What the token queue promises the parser: the source text is one fixed  *)
(* list of tokens, as if it had been lexed in advance, and the parser      *)
(* moves a cursor over it, forward by one or two tokens, back only to a    *)
(* place it has marked.  Past its last token, an EOF, the list goes on     *)
(* with EOF; a list that ends in anything else cannot be read to its end.  *)
(***************************************************************************)
EXTENDS Integers, Sequences

VARIABLES
  script,  \* the types of the tokens, in order
  at,      \* the cursor, an index from 0
  seen,    \* the token the parser holds
  marks,   \* the places it can go back to, oldest first
  reading  \* whether it is still reading

cursorVars == <<script, at, seen, marks, reading>>

Readable(k)  == k < Len(script) \/ (script # <<>> /\ script[Len(script)] = "EOF")
ScriptAt(k)  == IF k < Len(script) THEN script[k + 1] ELSE "EOF"

CursorInit ==
  /\ at = -1 /\ seen = "none" /\ marks = <<>> /\ ~reading

\* The parser is constructed, with the first token in hand.
Open ==
  /\ ~reading /\ at = -1
  /\ Readable(0) /\ at' = 0 /\ seen' = ScriptAt(0) /\ reading'
  /\ UNCHANGED <<script, marks>>

Forward(n) ==
  /\ reading /\ Readable(at + n)
  /\ at' = at + n /\ seen' = ScriptAt(at + n)
  /\ UNCHANGED <<script, marks, reading>>

Mark ==
  /\ reading
  /\ marks' = Append(marks, at)
  /\ UNCHANGED <<script, at, seen, reading>>

Unmark ==
  /\ reading /\ marks # <<>>
  /\ marks' = SubSeq(marks, 1, Len(marks) - 1)
  /\ UNCHANGED <<script, at, seen, reading>>

\* Back to mark i; it and the marks made since are gone.
Back(i) ==
  /\ reading
  /\ at' = marks[i] /\ seen' = ScriptAt(marks[i])
  /\ marks' = SubSeq(marks, 1, i - 1)
  /\ UNCHANGED <<script, reading>>

Close ==
  /\ reading' = FALSE /\ at' = -2 /\ seen' = "none" /\ marks' = <<>>
  /\ UNCHANGED script

CursorNext ==
  \/ Open \/ Mark \/ Unmark \/ Close
  \/ \E n \in {1, 2} : Forward(n)
  \/ \E i \in DOMAIN marks : Back(i)

CursorSpec == CursorInit /\ [][CursorNext]_cursorVars
==============================================================================
