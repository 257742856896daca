------------------------- MODULE OperationalChecks -------------------------
(***************************************************************************)
(* The checks of cmd/invariantcheck over the rows of DeliveryPipeline: what *)
(* each of them selects, in one read-only snapshot.  The check of the run  *)
(* timestamps is left out, as the timestamps are.                          *)
(***************************************************************************)
EXTENDS DeliveryPipeline

\* mailing.status and run.status of a delivery.
MailingStatusOf(d) == mailing[MailingOf(RunOf(d))]
RunStatusOf(d) == run[RunOf(d)].status

StoppedMailingWithClaimableDelivery ==
    {d \in Delivery : MailingStatusOf(d) = "stopped" /\ Claimable(d)}

CancelledRunWithClaimableDelivery ==
    {d \in Delivery : RunStatusOf(d) = "cancelled" /\ Claimable(d)}

SendingDeliveryWithoutLease ==
    {d \in Delivery : delivery[d].status = "sending" /\
        (delivery[d].token = NoToken \/ delivery[d].lease = "none" \/ delivery[d].generation = 0)}

\* The grace period of this check is that of the reaper, one minute.
ExpiredSendingLease ==
    {d \in Delivery : delivery[d].status = "sending" /\ delivery[d].lease = "lapsed"}

\* The latest run of a mailing against the status of the mailing.
MailingRunStatusContradiction ==
    {n \in Run : LatestRun(n) /\
        LET status == mailing[MailingOf(n)] IN
        \/ status = "draft"
        \/ status \in {"queued", "running", "completed", "failed"} /\ run[n].status # status
        \/ status = "stopped" /\ ActiveRun(n)
        \/ status = "paused" /\ ~ActiveRun(n)}

SendingDeliveryWithStaleExecutionGeneration ==
    {d \in Delivery :
        delivery[d].status = "sending" /\ delivery[d].generation # run[RunOf(d)].generation}

SendingDeliveryWithInactiveParent ==
    {d \in ExpiredSendingLease : ~ActivePair(RunOf(d))}

\* What one invocation reports, check by check.
Report ==
    [stopped_mailing_with_claimable_delivery |-> StoppedMailingWithClaimableDelivery,
     cancelled_run_with_claimable_delivery |-> CancelledRunWithClaimableDelivery,
     sending_delivery_without_lease |-> SendingDeliveryWithoutLease,
     expired_sending_lease |-> ExpiredSendingLease,
     mailing_run_status_contradiction |-> MailingRunStatusContradiction,
     sending_delivery_with_stale_execution_generation |-> SendingDeliveryWithStaleExecutionGeneration,
     sending_delivery_with_inactive_parent |-> SendingDeliveryWithInactiveParent]

\* The command's exit status: any row of any check, warnings included.
HasViolations == \E check \in DOMAIN Report : Report[check] # {}

-----------------------------------------------------------------------------
(* Properties                                                              *)

\* When nothing is in flight and no time has run out, the command reports at
\* most the claimable deliveries that a reaper left under a stopped mailing:
\* every other alarm comes from an open send.
AlarmsComeFromSends ==
    HasViolations =>
        \/ \E d \in Delivery : delivery[d].status = "sending"
        \/ \E d \in CancelledRunWithClaimableDelivery : delivery[d].attempts > 0

\* The check stopped_mailing_with_claimable_delivery: Stop leaves nothing claimable.
NothingClaimableAfterStop == StoppedMailingWithClaimableDelivery = {}
=============================================================================
