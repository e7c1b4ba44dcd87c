--------------------------- MODULE MCOrderBudget ---------------------------
(***************************************************************************)
(* Small scales for the arithmetic of an order's budget.  Ten grams make a *)
(* kilo and a USDC has 400 units, so that a centavo is worth between nine  *)
(* and eleven units and a cent four: every division has a remainder to     *)
(* lose.                                                                   *)
(***************************************************************************)
EXTENDS OrderBudget, TLC

Policy(bonus, rate) ==
  [price |-> [FINE |-> 27, DEAR |-> 33],
   bonus |-> [FINE |-> bonus, DEAR |-> bonus],
   associationBps |-> 7, platformBps |-> 5, rate |-> rate, tolerance |-> 15]

\* With and without a bonus; a rate of 0 is the one that has to default.
MCPolicies == {Policy(4, 17), Policy(0, 0)}

\* 6 is read off a scale with 6 or with 7 grams on it, within the tolerance; 11
\* is read for 13 grams, beyond it by less than a basis point.
MCReadings  == [seen : {TRUE}, grams : {6, 11}] \cup {[seen |-> FALSE]}
MCDocuments == [seen : {TRUE}, category : {"FINE"}] \cup {[seen |-> FALSE]}
MCSymmetry  == Permutations(Lots)
=============================================================================
