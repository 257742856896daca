------------------------- MODULE MCMailingConsole -------------------------
(***************************************************************************)
(* A small instance of MailingConsole for TLC.                             *)
(***************************************************************************)
EXTENDS MailingConsole, TLC

CONSTANTS o1, a1, d1, d2, p1

MCOwner == a1 :> o1

Item(d, canSend, hash) == [dialog |-> d, canSend |-> canSend, hash |-> hash]

\* The same dialogs in two orders; in the second a hash and a right to send are
\* missing, and a user follows.
MCAnswers ==
    { <<Item(d1, TRUE, TRUE), Item(d2, TRUE, TRUE)>>,
      <<Item(d2, TRUE, FALSE), Item(d1, FALSE, TRUE), Item(p1, FALSE, TRUE)>> }
=============================================================================
