----------------------------- MODULE BolunText -----------------------------
(***************************************************************************)
(* Texts and the fixed buffers they are copied into.  A text is kept as its *)
(* head, the characters a buffer has room for, and its rest: 0 when nothing *)
(* is left, and otherwise a number that tells apart texts with one head.    *)
(***************************************************************************)
EXTENDS Naturals

Text(heads, rests) == [head : heads, rest : rests]

Fits(text) == text.rest = 0

\* copy_text (snprintf into a buffer): what does not fit is cut off, silently.
Kept(text) == [text EXCEPT !.rest = 0]
=============================================================================
