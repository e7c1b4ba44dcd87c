----------------------------- MODULE MCFunding -----------------------------
(***************************************************************************)
(* Symmetry of the funding pipeline for model checking.                    *)
(***************************************************************************)
EXTENDS Funding, TLC

\* Checkout sessions are interchangeable, and so are concurrent deliveries.
Interchangeable == Permutations(Sessions) \cup Permutations(Handlers)
=============================================================================
