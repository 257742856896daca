---------------------------- MODULE MCDialogSync ----------------------------
(***************************************************************************)
(* Small instances of DialogSync for TLC.                                  *)
(***************************************************************************)
EXTENDS DialogSync
=============================================================================
