--------------------------- MODULE MCLotLifecycle ---------------------------
(***************************************************************************)
(* Symmetry of the lot's lifecycle for model checking.                     *)
(***************************************************************************)
EXTENDS LotLifecycle

\* Requests being worked on are interchangeable, and so are audit runs.
Interchangeable == Permutations(Handlers) \cup Permutations(Runs)
=============================================================================
