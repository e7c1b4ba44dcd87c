------------------------- MODULE MCProducerAccounts -------------------------
(***************************************************************************)
(* Symmetry of tabs and wallets for model checking.                        *)
(***************************************************************************)
EXTENDS ProducerAccounts, TLC

Interchangeable == Permutations(Tabs) \cup Permutations(Wallets)
=============================================================================
