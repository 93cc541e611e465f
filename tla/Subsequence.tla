----------------------------- MODULE Subsequence -----------------------------
(***************************************************************************)
(* What remains of a sequence when elements are left out, as the list      *)
(* comprehensions and substitutions of src/core/correspondents/matcher.py  *)
(* and src/core/paperless/title_template.py leave them out.                *)
(***************************************************************************)
EXTENDS Integers, Sequences, FiniteSets

\* The elements of a sequence at the given positions, in their order.
Kept(seq, positions) ==
  LET rank == [i \in positions |-> Cardinality({j \in positions : j <= i})]
  IN [k \in 1..Cardinality(positions) |-> seq[CHOOSE i \in positions : rank[i] = k]]

=============================================================================
