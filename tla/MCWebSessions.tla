--------------------------- MODULE MCWebSessions ---------------------------
(***************************************************************************)
(* Small instances of WebSessions for TLC.                                 *)
(***************************************************************************)
EXTENDS WebSessions, TLC

\* Requests are interchangeable, and so are browsers.
Symmetry == Permutations(Request) \cup Permutations(Browser)
=============================================================================
