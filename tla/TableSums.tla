------------------------------ MODULE TableSums ------------------------------
(***************************************************************************)
(* The loop that adds up one field over a table, as the memory managers of  *)
(* both systems do over their block tables.                                 *)
(***************************************************************************)
EXTENDS Integers, Sequences

TableSum(table) ==
  LET upTo[i \in 0..Len(table)] == IF i = 0 THEN 0 ELSE upTo[i - 1] + table[i]
  IN  upTo[Len(table)]

\* The bytes of some of the blocks of a block table, as an unbounded sum.
BytesIn(table, blocks) ==
  TableSum([b \in DOMAIN table |-> IF b \in blocks THEN table[b].bytes ELSE 0])
=============================================================================
