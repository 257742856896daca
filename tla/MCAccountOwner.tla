--------------------------- MODULE MCAccountOwner ---------------------------
(***************************************************************************)
(* Small instances of AccountOwner for TLC.                                *)
(***************************************************************************)
EXTENDS AccountOwner, TLC

\* Callers, accounts and entries of the pool are interchangeable.
Symmetry == Permutations(Caller) \cup Permutations(Entry) \cup Permutations(Account)
=============================================================================
