------------------------------- MODULE Totals -------------------------------
(***************************************************************************)
(* Sums of natural-number functions over finite sets.                      *)
(*                                                                         *)
(* The contract keeps running counters (an order's reserved grams, the     *)
(* USDC it still holds) next to the per-lot amounts they summarise.  Every *)
(* accounting invariant relates such a counter to a sum.  The sum is       *)
(* written as the size of a set of units, so that what one update does to  *)
(* it follows from the cardinality of a union and needs no induction.      *)
(***************************************************************************)
EXTENDS Integers, FiniteSets

\* The units f contributes over S: one pair <<x, i>> per unit of f[x].
Units(f, S) == UNION {{x} \X (1 .. f[x]) : x \in S}

\* The sum of f[x] over x in S.
Total(f, S) == Cardinality(Units(f, S))

=============================================================================
