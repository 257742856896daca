-------------------------- MODULE MailingDelivery --------------------------
(***************************************************************************)
(* What a mailing promises its operator, without leases, attempts, workers *)
(* or background passes.  A run gives every eligible recipient a delivery; *)
(* a delivery is tried only while its run is active; it settles as sent,   *)
(* failed or unknown, and a settled one changes only if the message turns  *)
(* out to have been sent.  Cancelling a run skips what was never tried and *)
(* leaves the outcome of what was tried in doubt.  A new run starts only   *)
(* when no outcome of the mailing is open, and with repeat mode 'once'     *)
(* never for a recipient known to have the message.                        *)
(***************************************************************************)
EXTENDS Naturals

CONSTANTS Mailing, Once, Recipient, MaxRuns

VARIABLES
    run,      \* status of each run <<mailing, number>>
    outcome   \* of each delivery <<run, recipient>>

vars == <<run, outcome>>

Run == Mailing \X (1 .. MaxRuns)
Delivery == Run \X Recipient

Active(n) == run[n] \in {"queued", "running"}
Siblings(n) == {d \in Delivery : d[1][1] = n[1]}
Settled == {"none", "sent", "failed", "skipped", "unknown"}

Init ==
    /\ run = [n \in Run |-> "none"]
    /\ outcome = [d \in Delivery |-> "none"]

\* A run starts, for a non-empty set of recipients.
Start(n) ==
    /\ run[n] = "none"
    /\ \A k \in Run : k[1] = n[1] => ~Active(k)
    /\ \A d \in Siblings(n) : outcome[d] \in {"none", "sent", "failed", "skipped"}
    /\ run' = [run EXCEPT ![n] = "queued"]
    /\ \E R \in SUBSET Recipient :
        /\ R # {}
        /\ n[1] \in Once => \A d \in Siblings(n) : outcome[d] = "sent" => d[2] \notin R
        /\ outcome' = [d \in Delivery |->
               IF d[1] = n /\ d[2] \in R THEN "untried" ELSE outcome[d]]

\* The first attempt to send, or a later one.
Try(d) ==
    /\ outcome[d] \in {"untried", "tried"}
    /\ Active(d[1])
    /\ outcome' = [outcome EXCEPT ![d] = "tried"]
    /\ UNCHANGED run

Settle(d) ==
    /\ outcome[d] = "tried"
    /\ outcome' \in {[outcome EXCEPT ![d] = "failed"], [outcome EXCEPT ![d] = "unknown"]}
    /\ UNCHANGED run

\* Telegram's answer proves the message sent, however late.
Prove(d) ==
    /\ outcome[d] \in {"tried", "failed", "unknown"}
    /\ outcome' = [outcome EXCEPT ![d] = "sent"]
    /\ UNCHANGED run

\* The operator stops the mailing.
Cancel(n) ==
    /\ Active(n)
    /\ run' = [run EXCEPT ![n] = "cancelled"]
    /\ \E doubtful \in SUBSET {d \in Delivery : d[1] = n /\ outcome[d] = "tried"} :
        outcome' = [d \in Delivery |->
            IF d[1] = n /\ outcome[d] = "untried" THEN "skipped"
            ELSE IF d \in doubtful THEN "unknown"
            ELSE outcome[d]]

\* Everything is settled: completed means that every message was sent.
Finish(n) ==
    /\ Active(n)
    /\ \A d \in Delivery : d[1] = n => outcome[d] \in Settled
    /\ run' = [run EXCEPT ![n] =
           IF \E d \in Delivery : d[1] = n /\ outcome[d] \in {"failed", "unknown"}
           THEN "failed" ELSE "completed"]
    /\ UNCHANGED outcome

Next ==
    \/ \E n \in Run : Start(n) \/ Cancel(n) \/ Finish(n)
    \/ \E d \in Delivery : Try(d) \/ Settle(d) \/ Prove(d)

Spec == Init /\ [][Next]_vars
=============================================================================
