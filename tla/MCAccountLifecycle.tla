------------------------- MODULE MCAccountLifecycle -------------------------
(***************************************************************************)
(* Small instances of AccountLifecycle for TLC.                            *)
(***************************************************************************)
EXTENDS AccountLifecycle, TLC

\* Requests are interchangeable, and so are the accounts of the operator.
Symmetry == Permutations(Call) \cup Permutations(Account)
=============================================================================
