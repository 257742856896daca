------------------------ MODULE MCDeliveryPipeline ------------------------
(***************************************************************************)
(* Small instances of DeliveryPipeline for TLC.                            *)
(***************************************************************************)
EXTENDS OperationalChecks, TLC

\* Executions and recipients are interchangeable.
Symmetry == Permutations(Token) \cup Permutations(Recipient)
=============================================================================
