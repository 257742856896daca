-------------------------- MODULE DeliveryPipeline --------------------------
(***************************************************************************)
(* The delivery pipeline of Cresora: the rows of mailings, mailing_runs    *)
(* and mailing_deliveries, the executions that a delivery worker has in    *)
(* flight, and the background passes and operator commands that change     *)
(* the same rows concurrently.  PostgreSQL runs at READ COMMITTED, so one  *)
(* SQL statement or one fully locked transaction is one action.  Two       *)
(* things are not atomic and take two steps each: the admission UPDATE of  *)
(* Dispatch, which reads the mailing and the run from its statement        *)
(* snapshot without locking them, and the Stop transaction, whose effects  *)
(* become visible to unlocked readers only when it commits.                *)
(*                                                                         *)
(* Telegram itself is external: it accepts a random_id at most once.  The  *)
(* random_id is persisted with the delivery row, unique and immutable, so  *)
(* the identity of the row stands for it.                                  *)
(***************************************************************************)
EXTENDS Naturals, FiniteSets

CONSTANTS
    Mailing,            \* mailings of one operator, all routed to one account
    Once,               \* the mailings whose repeat_mode is 'once'
    Recipient,          \* recipients of every mailing
    Token,              \* lease tokens; a token also names the execution holding it
    NoToken,            \* lease_token IS NULL
    NoDelivery,         \* an execution without a task
    MaxRuns,            \* bound: runs of one mailing
    MaxAttempts,        \* mailing_deliveries.max_attempts
    MaxAccountVersion   \* bound: lifecycle changes of the account

ASSUME PipelineAssumption ==
    /\ Once \subseteq Mailing
    /\ NoToken \notin Token
    /\ MaxRuns \in Nat \ {0}
    /\ MaxAttempts \in Nat \ {0}
    /\ MaxAccountVersion \in Nat \ {0}

RunNumber == 1 .. MaxRuns
Run == Mailing \X RunNumber
Delivery == Run \X Recipient

\* The primary keys: a run is <<mailing, number>>, a delivery <<run, recipient>>.
ASSUME KeyAssumption == NoDelivery \notin Delivery

MailingOf(n) == n[1]
RunOf(d) == d[1]

MailingStatus == {"draft", "queued", "running", "paused", "stopped", "completed", "failed"}
RunStatus == {"none", "queued", "running", "completed", "cancelled", "failed"}
DeliveryStatus == {"none", "pending", "sending", "sent", "skipped", "failed", "unknown"}

\* lease_until against the database clock: NULL, in the future, in the past,
\* and in the past by more than the grace period of the reaper.
Lease == {"none", "live", "expired", "lapsed"}

Stage == {"idle", "claimed", "resolved", "renewed", "admitting", "sending",
          "accepted", "succeeded", "permanent", "retryable", "unknown", "releasing"}

VARIABLES
    mailing,     \* mailings.status
    run,         \* mailing_runs: status and execution_generation
    delivery,    \* mailing_deliveries
    account,     \* operator_accounts: status = 'active', status_version
    exec,        \* the executions of the delivery worker, by lease token
    stopping,    \* mailings whose row and active run an open Stop transaction locks
    captured,    \* delivery rows an open Stop transaction has updated and locks
    candidates,  \* runs found by the unlocked scan of a reconciliation pass
    accepted     \* deliveries whose random_id Telegram has accepted (external)

vars == <<mailing, run, delivery, account, exec, stopping, captured, candidates, accepted>>

-----------------------------------------------------------------------------
(* Helpers                                                                 *)

NoRow == [status |-> "none", attempts |-> 0, ready |-> FALSE,
          lease |-> "none", token |-> NoToken, generation |-> 0]

NewRow == [NoRow EXCEPT !.status = "pending", !.ready = TRUE]

Idle == [stage |-> "idle", task |-> NoDelivery, attempt |-> 0, generation |-> 0, version |-> 0]

\* mailing.status and run.status are both 'queued' or both 'running'.
ActivePair(n) ==
    \/ mailing[MailingOf(n)] = "queued" /\ run[n].status = "queued"
    \/ mailing[MailingOf(n)] = "running" /\ run[n].status = "running"

ActiveRun(n) == run[n].status \in {"queued", "running"}

DeliveriesOf(n) == {d \in Delivery : RunOf(d) = n /\ delivery[d].status # "none"}

\* Bug: the token stays behind when the lease is cleared.
BugUnleased(row, status) == [row EXCEPT !.status = status, !.lease = "none", !.generation = 0]

\* The row after status, with the three lease columns set to NULL.
Unleased(row, status) ==
    [row EXCEPT !.status = status, !.lease = "none", !.token = NoToken, !.generation = 0]

\* Bug: a requeued delivery gets its attempts back.
BugDeferred(row) == [Unleased(row, "pending") EXCEPT !.ready = FALSE, !.attempts = 0]

\* The row returned to the queue, its ready_at in the future.
Deferred(row) == [Unleased(row, "pending") EXCEPT !.ready = FALSE]

\* A uuid that nothing in the system remembers.
Fresh(t) == exec[t].stage = "idle" /\ \A d \in Delivery : delivery[d].token # t

\* Bug: an outcome in doubt keeps its run open.
BugTerminal == {"sent", "skipped", "failed"}

\* Delivery states that TerminalRunStatus accepts.
Terminal == {"sent", "skipped", "failed", "unknown"}

\* Bug: a send in flight counts as done.
BugAllTerminal(n) ==
    /\ DeliveriesOf(n) # {}
    /\ \A d \in DeliveriesOf(n) : delivery[d].status # "pending"

AllTerminal(n) ==
    /\ DeliveriesOf(n) # {}
    /\ \A d \in DeliveriesOf(n) : delivery[d].status \in Terminal

TerminalRunStatus(n) ==
    IF \E d \in DeliveriesOf(n) : delivery[d].status \in {"failed", "unknown"}
    THEN "failed" ELSE "completed"

-----------------------------------------------------------------------------
Init ==
    /\ mailing = [m \in Mailing |-> "draft"]
    /\ run = [n \in Run |-> [status |-> "none", generation |-> 0]]
    /\ delivery = [d \in Delivery |-> NoRow]
    /\ account = [active |-> TRUE, version |-> 1]
    /\ exec = [t \in Token |-> Idle]
    /\ stopping = {}
    /\ captured = {}
    /\ candidates = {}
    /\ accepted = {}

-----------------------------------------------------------------------------
(* Operator commands                                                       *)

\* Bug: an outcome in doubt does not hold the next run back.
BugUnresolved(d) == delivery[d].status = "sending"

Unresolved(d) ==
    \/ delivery[d].status \in {"sending", "unknown"}
    \/ delivery[d].status = "pending" /\ delivery[d].attempts > 0

\* Bug: repeat_mode 'once' is ignored.
BugEligible(m) == Recipient

\* Recipients for whom Queue inserts a delivery: under repeat_mode 'once' not
\* those who already have a sent delivery of this mailing.
Eligible(m) ==
    {r \in Recipient :
        m \in Once => \A d \in Delivery :
            d[2] = r /\ MailingOf(RunOf(d)) = m => delivery[d].status # "sent"}

\* COALESCE(MAX(number), 0) + 1
IsNextRun(n) ==
    /\ run[n].status = "none"
    /\ \A k \in RunNumber : k < n[2] => run[<<MailingOf(n), k>>].status # "none"

Queue(m) ==
    /\ m \notin stopping
    /\ mailing[m] \in {"draft", "stopped"}
    /\ \A d \in Delivery : MailingOf(RunOf(d)) = m => ~Unresolved(d)
    /\ Eligible(m) # {}
    /\ \E n \in Run :
        /\ MailingOf(n) = m
        /\ IsNextRun(n)
        /\ run' = [run EXCEPT ![n] = [status |-> "queued", generation |-> 1]]
        /\ delivery' = [d \in Delivery |->
               IF RunOf(d) = n /\ d[2] \in Eligible(m) THEN NewRow ELSE delivery[d]]
    /\ mailing' = [mailing EXCEPT ![m] = "queued"]
    /\ UNCHANGED <<account, exec, stopping, captured, candidates, accepted>>

\* Stop up to its last statement: the mailing and the active run are locked, the
\* pending deliveries of the run are updated and locked; nothing is visible yet.
StopBegin(m) ==
    /\ m \notin stopping
    /\ mailing[m] \in {"queued", "running", "paused"}
    /\ \E n \in Run :
        /\ MailingOf(n) = m
        /\ ActiveRun(n)
        /\ captured' = captured \cup {d \in DeliveriesOf(n) : delivery[d].status = "pending"}
    /\ stopping' = stopping \cup {m}
    /\ UNCHANGED <<mailing, run, delivery, account, exec, candidates, accepted>>

Captured(m) == {d \in captured : MailingOf(RunOf(d)) = m}

\* Bug: Stop skips a delivery that was already tried.
BugStopped(row) == Unleased(row, "skipped")

\* Bug: a claimed delivery is left to its execution, which rechecks the generation.
BugStopUnclaimed(row) ==
    IF row.token # NoToken THEN row
    ELSE Unleased(row, IF row.attempts = 0 THEN "skipped" ELSE "unknown")

\* The status Stop gives a pending delivery.
Stopped(row) == Unleased(row, IF row.attempts = 0 THEN "skipped" ELSE "unknown")

StopCommit(m) ==
    /\ m \in stopping
    /\ run' = [n \in Run |->
           IF MailingOf(n) = m /\ ActiveRun(n)
           THEN [status |-> "cancelled", generation |-> run[n].generation + 1]
           ELSE run[n]]
    /\ delivery' = [d \in Delivery |->
           IF d \in Captured(m) THEN Stopped(delivery[d]) ELSE delivery[d]]
    /\ mailing' = [mailing EXCEPT ![m] = "stopped"]
    /\ stopping' = stopping \ {m}
    /\ captured' = captured \ Captured(m)
    /\ UNCHANGED <<account, exec, candidates, accepted>>

\* The transaction fails or its connection is lost: it rolls back.
StopAbort(m) ==
    /\ m \in stopping
    /\ stopping' = stopping \ {m}
    /\ captured' = captured \ Captured(m)
    /\ UNCHANGED <<mailing, run, delivery, account, exec, candidates, accepted>>

\* Any lifecycle change of the operator account advances status_version; there
\* are several inactive states, and one that is active leaves it.
AccountChange ==
    /\ account.version < MaxAccountVersion
    /\ \E active \in BOOLEAN :
        /\ account.active => ~active
        /\ account' = [active |-> active, version |-> account.version + 1]
    /\ UNCHANGED <<mailing, run, delivery, exec, stopping, captured, candidates, accepted>>

-----------------------------------------------------------------------------
(* The delivery worker: one execution from claim to finalization           *)

MoveTo(t, stage) == exec' = [exec EXCEPT ![t].stage = stage]

\* Bug: a claimed delivery can be claimed again.
BugClaimable(d) ==
    delivery[d].status = "pending" /\ delivery[d].ready /\ delivery[d].attempts < MaxAttempts

\* A due delivery that nobody holds.
Claimable(d) ==
    LET row == delivery[d] IN
    /\ row.status = "pending" /\ row.ready /\ row.attempts < MaxAttempts
    /\ row.lease \in {"none", "expired", "lapsed"}

\* Claim skips rows that an open transaction has locked.
Claim(t, d) ==
    LET row == delivery[d]  n == RunOf(d) IN
    /\ Fresh(t)
    /\ Claimable(d)
    /\ MailingOf(n) \notin stopping /\ d \notin captured
    /\ ActivePair(n)
    /\ account.active
    /\ delivery' = [delivery EXCEPT ![d] =
           [row EXCEPT !.lease = "live", !.token = t, !.generation = run[n].generation]]
    /\ exec' = [exec EXCEPT ![t] = [stage |-> "claimed", task |-> d, attempt |-> 0,
                                    generation |-> 0, version |-> account.version]]
    /\ UNCHANGED <<mailing, run, account, stopping, captured, candidates, accepted>>

\* Revalidate finds the account active at exactly the admitted version, or the
\* task is released.
Resolve(t) ==
    /\ exec[t].stage = "claimed"
    /\ MoveTo(t, IF account.active /\ account.version = exec[t].version
                 THEN "resolved" ELSE "releasing")
    /\ UNCHANGED <<mailing, run, delivery, account, stopping, captured, candidates, accepted>>

\* Renew waits for the locks of the mailing and the run, then renews the lease
\* that is still held under an active run, or reports it lost.
Renew(t) ==
    LET d == exec[t].task  row == delivery[d]  n == RunOf(d)
        held == /\ ActivePair(n)
                /\ row.status = "pending" /\ row.token = t /\ row.lease = "live"
                /\ row.generation = run[n].generation IN
    /\ exec[t].stage = "resolved"
    /\ MailingOf(n) \notin stopping /\ d \notin captured
    /\ MoveTo(t, IF held THEN "renewed" ELSE "releasing")
    /\ UNCHANGED <<mailing, run, delivery, account, stopping, captured, candidates, accepted>>

\* The admission UPDATE takes its snapshot of the mailing and the run.
AdmitSnapshot(t) ==
    LET n == RunOf(exec[t].task) IN
    /\ exec[t].stage = "renewed"
    /\ exec' = [exec EXCEPT ![t].stage = IF ActivePair(n) THEN "admitting" ELSE "releasing",
                            ![t].generation = run[n].generation]
    /\ UNCHANGED <<mailing, run, delivery, account, stopping, captured, candidates, accepted>>

\* It waits for the row lock and rechecks the delivery columns on the latest
\* version of the row, but the mailing and the run on the snapshot.
Admissible(t) ==
    LET row == delivery[exec[t].task] IN
    /\ row.status = "pending" /\ row.token = t /\ row.lease = "live"
    /\ row.generation = exec[t].generation
    /\ row.attempts < MaxAttempts

AdmitApply(t) ==
    LET d == exec[t].task  row == delivery[d] IN
    /\ exec[t].stage = "admitting"
    /\ d \notin captured
    /\ Admissible(t)
    /\ delivery' = [delivery EXCEPT ![d] =
           [row EXCEPT !.status = "sending", !.attempts = row.attempts + 1]]
    /\ exec' = [exec EXCEPT ![t].stage = "sending", ![t].attempt = row.attempts + 1]
    /\ UNCHANGED <<mailing, run, account, stopping, captured, candidates, accepted>>

\* No row matched: errStale, the task is released.
AdmitRefused(t) ==
    /\ exec[t].stage = "admitting"
    /\ exec[t].task \notin captured
    /\ ~Admissible(t)
    /\ MoveTo(t, "releasing")
    /\ UNCHANGED <<mailing, run, delivery, account, stopping, captured, candidates, accepted>>

\* A statement fails, or the worker is stopping: the task is released.
Interrupted(t) ==
    /\ exec[t].stage \in {"claimed", "resolved", "renewed", "admitting"}
    /\ MoveTo(t, "releasing")
    /\ UNCHANGED <<mailing, run, delivery, account, stopping, captured, candidates, accepted>>

\* Telegram accepts the message; the answer has not reached the worker.
TelegramAccepts(t) ==
    /\ exec[t].stage = "sending"
    /\ exec[t].task \notin accepted
    /\ accepted' = accepted \cup {exec[t].task}
    /\ MoveTo(t, "accepted")
    /\ UNCHANGED <<mailing, run, delivery, account, stopping, captured, candidates>>

\* What Send returns and Classify makes of it.  A message not accepted in this
\* call can be refused for any reason, a repeated random_id as unknown; one that
\* was accepted can still be answered by a server error or a broken connection.
SendReturns(t, result) ==
    /\ \/ exec[t].stage = "sending" /\ result \in {"permanent", "retryable", "unknown"}
       \/ exec[t].stage = "accepted" /\ result \in {"succeeded", "retryable", "unknown"}
    /\ MoveTo(t, result)
    /\ UNCHANGED <<mailing, run, delivery, account, stopping, captured, candidates, accepted>>

\* The execution context ends while Send runs: quarantine writes only the error
\* message and the row stays in sending.  The request may have been accepted.
SendCancelled(t) ==
    /\ exec[t].stage \in {"sending", "accepted"}
    /\ exec' = [exec EXCEPT ![t] = Idle]
    /\ accepted' \in {accepted, accepted \cup {exec[t].task}}
    /\ UNCHANGED <<mailing, run, delivery, account, stopping, captured, candidates>>

\* Bug: only the attempt number is compared.
BugOwnsAttempt(t) == delivery[exec[t].task].attempts = exec[t].attempt

\* finalizeNegative: under the locks of the mailing and the run, and only while
\* this attempt still owns the row.
OwnsAttempt(t) ==
    LET row == delivery[exec[t].task] IN
    row.status = "sending" /\ row.token = t /\ row.attempts = exec[t].attempt

NegativeOutcome(t) ==
    LET row == delivery[exec[t].task]  n == RunOf(exec[t].task) IN
    CASE row.generation # run[n].generation \/ ~ActivePair(n) -> Unleased(row, "unknown")
      [] exec[t].stage = "unknown" -> Unleased(row, "unknown")
      [] exec[t].stage = "permanent" -> Unleased(row, "failed")
      [] row.attempts >= MaxAttempts -> Unleased(row, "failed")
      [] OTHER -> Deferred(row)

FinalizeNegative(t) ==
    LET d == exec[t].task IN
    /\ exec[t].stage \in {"permanent", "retryable", "unknown"}
    /\ MailingOf(RunOf(d)) \notin stopping /\ d \notin captured
    /\ delivery' = IF OwnsAttempt(t)
                   THEN [delivery EXCEPT ![d] = NegativeOutcome(t)]
                   ELSE delivery
    /\ exec' = [exec EXCEPT ![t] = Idle]
    /\ UNCHANGED <<mailing, run, account, stopping, captured, candidates, accepted>>

\* Bug: a delivery that was returned to the queue takes no late success.
BugProvable(t) ==
    /\ delivery[exec[t].task].status \in {"sending", "unknown", "failed", "skipped"}
    /\ delivery[exec[t].task].attempts >= exec[t].attempt

\* The success UPDATE needs no lease: it may come after the reaper, a later
\* attempt or Stop has changed the row.
Provable(t) ==
    LET row == delivery[exec[t].task] IN
    /\ row.status \in {"pending", "sending", "unknown", "failed", "skipped"}
    /\ row.attempts >= exec[t].attempt

FinalizeSuccess(t) ==
    LET d == exec[t].task IN
    /\ exec[t].stage = "succeeded"
    /\ d \notin captured
    /\ delivery' = IF Provable(t)
                   THEN [delivery EXCEPT ![d] = Unleased(delivery[d], "sent")]
                   ELSE delivery
    /\ exec' = [exec EXCEPT ![t] = Idle]
    /\ UNCHANGED <<mailing, run, account, stopping, captured, candidates, accepted>>

\* Release by lease token, effective only on a pending row.
Release(t) ==
    LET d == exec[t].task  row == delivery[d] IN
    /\ exec[t].stage = "releasing"
    /\ d \notin captured
    /\ delivery' = IF row.status = "pending" /\ row.token = t
                   THEN [delivery EXCEPT ![d] = Deferred(row)]
                   ELSE delivery
    /\ exec' = [exec EXCEPT ![t] = Idle]
    /\ UNCHANGED <<mailing, run, account, stopping, captured, candidates, accepted>>

\* The worker process dies, or a statement fails and the release that follows it
\* fails or does not match: the execution is gone, the row stays as it is.
Crash(t) ==
    /\ exec[t].stage # "idle"
    /\ exec' = [exec EXCEPT ![t] = Idle]
    /\ accepted' \in IF exec[t].stage = "sending"
                     THEN {accepted, accepted \cup {exec[t].task}} ELSE {accepted}
    /\ UNCHANGED <<mailing, run, delivery, account, stopping, captured, candidates>>

-----------------------------------------------------------------------------
(* Background passes                                                       *)

\* Bug: only the sends of active runs are reaped.
BugOverdue(d) ==
    delivery[d].status = "sending" /\ delivery[d].lease = "lapsed" /\ ActiveRun(RunOf(d))

\* A send whose lease has run out by more than the grace period.
Overdue(d) == delivery[d].status = "sending" /\ delivery[d].lease = "lapsed"

\* One row of a reaper pass.  The row is locked, the mailing and the run are not.
Reap(d) ==
    LET row == delivery[d]  n == RunOf(d)
        retryable == /\ ActivePair(n)
                     /\ row.generation = run[n].generation
                     /\ row.attempts < MaxAttempts IN
    /\ Overdue(d)
    /\ d \notin captured
    /\ delivery' = [delivery EXCEPT ![d] =
           IF retryable THEN Deferred(row) ELSE Unleased(row, "unknown")]
    /\ UNCHANGED <<mailing, run, account, exec, stopping, captured, candidates, accepted>>

\* The unlocked discovery of a reconciliation pass.
ReconcileScan ==
    /\ candidates = {}
    /\ candidates' = {<<n, run[n].generation>> : n \in {k \in Run : ActivePair(k) /\ AllTerminal(k)}}
    /\ candidates' # {}
    /\ UNCHANGED <<mailing, run, delivery, account, exec, stopping, captured, accepted>>

\* Bug: the candidate is not rechecked against Stop and Queue.
BugStillFinished(c) == AllTerminal(c[1])

StillFinished(c) == run[c[1]].generation = c[2] /\ ActivePair(c[1]) /\ AllTerminal(c[1])

\* One candidate, rechecked under the locks of the mailing, the run and its deliveries.
ReconcileCandidate(c) ==
    LET n == c[1]  m == MailingOf(n) IN
    /\ c \in candidates
    /\ m \notin stopping
    /\ candidates' = candidates \ {c}
    /\ IF StillFinished(c)
       THEN /\ run' = [run EXCEPT ![n].status = TerminalRunStatus(n)]
            /\ mailing' = [mailing EXCEPT ![m] = TerminalRunStatus(n)]
       ELSE UNCHANGED <<run, mailing>>
    /\ UNCHANGED <<delivery, account, exec, stopping, captured, accepted>>

\* A failed pass leaves its remaining candidates to a later scan.
ReconcileAbandon ==
    /\ candidates # {}
    /\ candidates' = {}
    /\ UNCHANGED <<mailing, run, delivery, account, exec, stopping, captured, accepted>>

-----------------------------------------------------------------------------
(* Database time                                                           *)

\* lease_until passes, then the grace period of the reaper.
LeaseElapses(d) ==
    /\ delivery[d].lease \in {"live", "expired"}
    /\ delivery' = [delivery EXCEPT ![d].lease =
           IF delivery[d].lease = "live" THEN "expired" ELSE "lapsed"]
    /\ UNCHANGED <<mailing, run, account, exec, stopping, captured, candidates, accepted>>

BecomeReady(d) ==
    /\ delivery[d].status = "pending" /\ ~delivery[d].ready
    /\ delivery' = [delivery EXCEPT ![d].ready = TRUE]
    /\ UNCHANGED <<mailing, run, account, exec, stopping, captured, candidates, accepted>>

-----------------------------------------------------------------------------
Execution(t) ==
    \/ \E d \in Delivery : Claim(t, d)
    \/ Resolve(t)
    \/ Renew(t)
    \/ AdmitSnapshot(t)
    \/ AdmitApply(t)
    \/ AdmitRefused(t)
    \/ Interrupted(t)
    \/ TelegramAccepts(t)
    \/ \E result \in {"succeeded", "permanent", "retryable", "unknown"} : SendReturns(t, result)
    \/ SendCancelled(t)
    \/ FinalizeNegative(t)
    \/ FinalizeSuccess(t)
    \/ Release(t)
    \/ Crash(t)

Command(m) == Queue(m) \/ StopBegin(m) \/ StopCommit(m) \/ StopAbort(m)

Background ==
    \/ \E d \in Delivery : Reap(d) \/ LeaseElapses(d) \/ BecomeReady(d)
    \/ ReconcileScan
    \/ \E c \in candidates : ReconcileCandidate(c)
    \/ ReconcileAbandon

Next ==
    \/ \E t \in Token : Execution(t)
    \/ \E m \in Mailing : Command(m)
    \/ Background
    \/ AccountChange

Spec == Init /\ [][Next]_vars

\* An execution that works for delivery d takes the step A in time.
For(d, A(_)) ==
    \E t \in Token : exec[t].task = d /\ delivery[d].token = t /\ delivery[d].lease = "live" /\ A(t)

\* What the running program guarantees.  The database clock advances and both
\* background loops run forever.  Every execution moves on or is interrupted: its
\* statements and its send have timeouts.  Stop transactions do not all fail, nor
\* do all passes of the reconciler; the executions that claim a delivery are not
\* all interrupted before the same step, nor all slower than their lease.
Fairness ==
    /\ \A d \in Delivery :
        /\ WF_vars(LeaseElapses(d))
        /\ WF_vars(BecomeReady(d))
        /\ WF_vars(Reap(d))
        /\ SF_vars(\E t \in Token : Claim(t, d))
        /\ SF_vars(For(d, Resolve))
        /\ SF_vars(For(d, Renew))
        /\ SF_vars(For(d, AdmitSnapshot))
        /\ SF_vars(For(d, AdmitApply))
    /\ \A t \in Token : WF_vars(Execution(t) /\ exec[t].stage # "idle")
    /\ \A m \in Mailing : SF_vars(StopCommit(m))
    /\ WF_vars(ReconcileScan)
    /\ SF_vars(\E c \in candidates : ReconcileCandidate(c))

FairSpec == Spec /\ Fairness

-----------------------------------------------------------------------------
(* Properties                                                              *)

DeliveryRow == [status : DeliveryStatus, attempts : 0 .. MaxAttempts, ready : BOOLEAN,
                lease : Lease, token : Token \cup {NoToken}, generation : Nat]

ExecRecord == [stage : Stage, task : Delivery \cup {NoDelivery}, attempt : 0 .. MaxAttempts,
               generation : Nat, version : 0 .. MaxAccountVersion]

\* Every variable has its type; attempt_count never exceeds max_attempts, and an
\* execution that runs has a task.
TypeOK ==
    /\ mailing \in [Mailing -> MailingStatus]
    /\ run \in [Run -> [status : RunStatus, generation : Nat]]
    /\ delivery \in [Delivery -> DeliveryRow]
    /\ account \in [active : BOOLEAN, version : 1 .. MaxAccountVersion]
    /\ exec \in [Token -> ExecRecord]
    /\ \A t \in Token : exec[t].stage = "idle" <=> exec[t].task = NoDelivery
    /\ stopping \subseteq Mailing
    /\ captured \subseteq Delivery
    /\ candidates \subseteq (Run \X Nat)
    /\ accepted \subseteq Delivery

\* The CHECK constraints of mailing_deliveries on the lease columns and attempts.
Storable(row) ==
    /\ row.token = NoToken <=> row.lease = "none"
    /\ row.token = NoToken <=> row.generation = 0
    /\ row.status = "sending" => row.token # NoToken /\ row.attempts >= 1
    /\ row.status \in Terminal => row.token = NoToken
    /\ row.status = "unknown" => row.attempts >= 1

\* No statement of the program is ever refused by the CHECK constraints of
\* mailing_deliveries: the lease columns are set together, a sending row has a
\* lease and an attempt, a settled row has no lease, an unknown one an attempt.
SchemaConstraintsHold == \A d \in Delivery : Storable(delivery[d])

InSend == {"sending", "accepted", "succeeded", "permanent", "retryable", "unknown"}

\* Two executions never work on the same attempt of a delivery, whatever was
\* reaped, released, reclaimed or stopped in between; so a negative outcome,
\* which is matched on the attempt, can only be the row's current attempt.
AttemptsAreExclusive ==
    \A t, u \in Token :
        t # u /\ exec[t].stage \in InSend /\ exec[u].stage \in InSend
        /\ exec[t].task = exec[u].task => exec[t].attempt # exec[u].attempt

\* A success reported by Telegram can always be recorded, however late: the
\* UPDATE matches, or the row is already sent and the verification that follows
\* finds its proof; the worker is never stopped by an unprovable success.
SuccessAlwaysRecordable ==
    \A t \in Token : exec[t].stage \in {"accepted", "succeeded"} =>
        \/ Provable(t)
        \/ delivery[exec[t].task].status = "sent" /\ delivery[exec[t].task].attempts >= exec[t].attempt

\* A message that Telegram accepted is never shown as skipped or as untried,
\* and a row is marked sent only for an accepted message.
RowAgreesWithTelegram ==
    \A d \in Delivery :
        /\ d \in accepted => delivery[d].attempts >= 1 /\ delivery[d].status # "skipped"
        /\ delivery[d].status = "sent" => d \in accepted

LatestRun(n) ==
    /\ run[n].status # "none"
    /\ \A k \in RunNumber : k > n[2] => run[<<MailingOf(n), k>>].status = "none"

\* The partial unique index uq_mailing_runs_active and the operational check
\* mailing_run_status_contradiction: at most one active run per mailing, and the
\* mailing agrees with its latest run.
MailingAgreesWithRuns ==
    /\ \A n, k \in Run : ActiveRun(n) /\ ActiveRun(k) /\ MailingOf(n) = MailingOf(k) => n = k
    /\ \A n \in Run : LatestRun(n) =>
        LET status == mailing[MailingOf(n)] IN
        /\ status # "draft"
        /\ status \in {"queued", "running", "completed", "failed"} => run[n].status = status
        /\ status = "stopped" => run[n].status = "cancelled"
        /\ status = "paused" => ActiveRun(n)

\* While a run is active, every delivery of the earlier runs of its mailing is
\* sent, failed or skipped: Queue never starts a run over an open outcome, and
\* no late step of an older run reopens one.
EarlierRunsAreSettled ==
    \A n \in Run : ActiveRun(n) =>
        \A d \in Delivery :
            MailingOf(RunOf(d)) = MailingOf(n) /\ RunOf(d)[2] < n[2]
                => delivery[d].status \in {"none", "sent", "failed", "skipped"}

\* A run is completed or failed only when nothing of it is open, and stays so:
\* a completed run has sent every delivery.
FinishedRunsAreSettled ==
    \A d \in Delivery :
        /\ run[RunOf(d)].status = "completed" => delivery[d].status \in {"none", "sent"}
        /\ run[RunOf(d)].status = "failed" => delivery[d].status \in {"none"} \cup Terminal

\* A settled outcome changes only by proof of success.
OutcomeIsFinal ==
    [][\A d \in Delivery : delivery[d].status \in Terminal =>
        \/ delivery'[d] = delivery[d]
        \/ delivery[d].status \in {"failed", "unknown"} /\ delivery'[d].status = "sent"]_vars

\* A reconciliation that raced with Stop never changes a finished run.
RunOutcomeIsFinal ==
    [][\A n \in Run : run[n].status \in {"completed", "cancelled", "failed"}
        => run'[n] = run[n]]_vars

\* No send is admitted once Stop has committed, although the admission decides
\* on a snapshot of the mailing and the run that may be older than the commit.
NoAdmissionAfterStop ==
    [][\A d \in Delivery :
        delivery[d].status = "pending" /\ delivery'[d].status = "sending" => ActivePair(RunOf(d))]_vars

\* While its lease is in the future a claimed row is taken from its execution
\* only by that execution, by Stop before admission, or by a proof of success:
\* never by another claim, the reaper or the leftovers of an older execution.
LiveLeaseIsExclusive ==
    [][\A d \in Delivery : LET t == delivery[d].token IN
        t # NoToken /\ delivery[d].lease = "live" /\ delivery'[d].token # t =>
            \/ exec[t].task = d /\ exec'[t] = Idle
            \/ delivery[d].status = "pending" /\ d \in captured
            \/ delivery'[d].status = "sent"]_vars

\* An admitted send whose worker never reports is settled or retried by the reaper.
SendingIsSettled ==
    \A d \in Delivery : delivery[d].status = "sending" ~> delivery[d].status # "sending"

\* An active run ends, as long as its account stays usable.
RunsFinish ==
    \A n \in Run : ActiveRun(n) ~> (~ActiveRun(n) \/ ~account.active)

\* What the pipeline promises its user, hidden behind leases, attempts and passes:
\* every step of the pipeline is a step of MailingDelivery or changes nothing there.
Outcome(row) ==
    IF row.status \in {"pending", "sending"}
    THEN IF row.attempts = 0 THEN "untried" ELSE "tried"
    ELSE row.status

Promise == INSTANCE MailingDelivery WITH
    run <- [n \in Run |-> run[n].status],
    outcome <- [d \in Delivery |-> Outcome(delivery[d])]

KeepsPromise == Promise!Spec

-----------------------------------------------------------------------------
(* What the program states about itself and does not keep                  *)

\* ErrUnresolvedDeliveryOutcomes: a mailing is not queued again while a delivery
\* of an earlier run can still produce a late outcome.
NoLateOutcomeAfterQueue ==
    \A n \in Run, t \in Token :
        ActiveRun(n) /\ exec[t].stage \in {"accepted", "succeeded"} =>
            LET k == RunOf(exec[t].task) IN
            MailingOf(k) = MailingOf(n) => k = n

-----------------------------------------------------------------------------
(* What holds instead                                                      *)

\* A success that comes after its mailing was queued again finds a row that a
\* later attempt has failed for good.
LateOutcomesAreOutrun ==
    \A n \in Run, t \in Token : LET d == exec[t].task IN
        /\ ActiveRun(n) /\ exec[t].stage \in {"accepted", "succeeded"}
        /\ MailingOf(RunOf(d)) = MailingOf(n) /\ RunOf(d) # n
        => delivery[d].status = "failed" /\ exec[t].attempt < delivery[d].attempts

\* Pending under a run that Stop has cancelled.
LeftPending(d) == delivery[d].status = "pending" /\ run[RunOf(d)].status = "cancelled"

\* What a Stop has left pending was tried before and nobody holds it; the mailing
\* has no active run as long as it is there.
LeftoversBlockTheirMailing ==
    \A d \in Delivery : LeftPending(d) =>
        /\ delivery[d].attempts >= 1 /\ delivery[d].token = NoToken
        /\ \A n \in Run : MailingOf(n) = MailingOf(RunOf(d)) => ~ActiveRun(n)

\* And it stays so until a message that Telegram had accepted is recorded.
LeftoversWaitForProof ==
    [][\A d \in Delivery : LeftPending(d) =>
        \/ LeftPending(d)' /\ delivery'[d].attempts = delivery[d].attempts
        \/ delivery'[d].status = "sent" /\ d \in accepted]_vars
=============================================================================
