----------------------- MODULE DeliveryPipelineProofs -----------------------
(***************************************************************************)
(* Theorems about DeliveryPipeline for every value of its constants.       *)
(***************************************************************************)
EXTENDS DeliveryPipeline, TLAPS

\* The row operators keep the type of a row.
LEMMA RowTypes ==
    ASSUME NEW row \in DeliveryRow, NEW status \in DeliveryStatus
    PROVE  /\ Unleased(row, status) \in DeliveryRow
           /\ Deferred(row) \in DeliveryRow
  BY PipelineAssumption DEF Unleased, Deferred, DeliveryRow, DeliveryStatus, Lease

\* An absent and a new row are rows.
LEMMA NewRowTypes == NoRow \in DeliveryRow /\ NewRow \in DeliveryRow
<1>1. NoRow \in DeliveryRow
  <2>1. 0 \in 0 .. MaxAttempts /\ FALSE \in BOOLEAN
    BY PipelineAssumption
  <2>2. QED
    BY <2>1, Zenon DEF NoRow, DeliveryRow, DeliveryStatus, Lease
<1>2. NewRow = [NoRow EXCEPT !.status = "pending", !.ready = TRUE]
  BY DEF NewRow
<1>3. NewRow \in DeliveryRow
  BY <1>1, <1>2 DEF DeliveryRow, DeliveryStatus
<1>4. QED
  BY <1>1, <1>3

\* A key names its mailing and its run.
LEMMA Keys ==
    /\ \A n \in Run : MailingOf(n) \in Mailing /\ n[2] \in RunNumber /\ n = <<MailingOf(n), n[2]>>
    /\ \A d \in Delivery : RunOf(d) \in Run /\ MailingOf(RunOf(d)) \in Mailing /\ d[2] \in Recipient
  BY DEF Run, Delivery, MailingOf, RunOf

\* Initially every variable has its type.
LEMMA InitTypeOK == Init => TypeOK
  BY NewRowTypes, PipelineAssumption
  DEF Init, TypeOK, MailingStatus, RunStatus, Idle, Stage, ExecRecord

\* Commands of the operator keep the types.
LEMMA CommandTypeOK ==
    ASSUME TypeOK, NEW m \in Mailing, Command(m)
    PROVE  TypeOK'
<1>1. CASE Queue(m)
  BY <1>1, NewRowTypes DEF Queue, TypeOK, MailingStatus, RunStatus
<1>2. CASE StopBegin(m)
  BY <1>2 DEF StopBegin, TypeOK, DeliveriesOf
<1>3. CASE StopCommit(m)
  <2>1. \A d \in Delivery : Stopped(delivery[d]) \in DeliveryRow
    BY RowTypes DEF TypeOK, Stopped, DeliveryStatus
  <2>2. QED
    BY <1>3, <2>1 DEF StopCommit, TypeOK, MailingStatus, RunStatus, Captured
<1>4. CASE StopAbort(m)
  BY <1>4 DEF StopAbort, TypeOK, Captured
<1>5. QED
  BY <1>1, <1>2, <1>3, <1>4 DEF Command

\* What an execution record can become.
LEMMA ExecTypes ==
    ASSUME NEW e \in ExecRecord, NEW stage \in Stage
    PROVE  /\ [e EXCEPT !.stage = stage] \in ExecRecord
           /\ Idle \in ExecRecord
  BY PipelineAssumption DEF ExecRecord, Idle, Stage

\* A step that replaces the record of a busy execution keeps the types.
LEMMA PutTypeOK ==
    ASSUME TypeOK, NEW t \in Token, exec[t].stage # "idle",
           NEW e \in ExecRecord, e.stage # "idle", e.task = exec[t].task,
           exec' = [exec EXCEPT ![t] = e], delivery' \in [Delivery -> DeliveryRow],
           UNCHANGED <<mailing, run, account, stopping, captured, candidates, accepted>>
    PROVE  TypeOK'
<1>1. /\ exec' \in [Token -> ExecRecord]
      /\ \A u \in Token : exec'[u].stage = "idle" <=> exec'[u].task = NoDelivery
  BY DEF TypeOK
<1>2. QED
  BY <1>1 DEF TypeOK

\* A step that only moves one execution on keeps the types.
LEMMA MoveTypeOK ==
    ASSUME TypeOK, NEW t \in Token, NEW stage \in Stage, exec[t].stage # "idle", stage # "idle",
           MoveTo(t, stage), UNCHANGED <<mailing, run, delivery, account, stopping, captured, candidates>>,
           accepted' \subseteq Delivery
    PROVE  TypeOK'
  BY ExecTypes DEF TypeOK, MoveTo, ExecRecord

\* Neither does a step that ends one execution and writes at most its row.
LEMMA EndTypeOK ==
    ASSUME TypeOK, NEW t \in Token, exec' = [exec EXCEPT ![t] = Idle],
           NEW row \in DeliveryRow,
           delivery' \in {delivery, [delivery EXCEPT ![exec[t].task] = row]},
           UNCHANGED <<mailing, run, account, stopping, captured, candidates>>,
           accepted' \subseteq Delivery
    PROVE  TypeOK'
<1>1. /\ Idle \in ExecRecord
      /\ Idle.stage = "idle" /\ Idle.task = NoDelivery
  BY PipelineAssumption DEF Idle, ExecRecord, Stage
<1>2. /\ exec' \in [Token -> ExecRecord]
      /\ \A u \in Token : exec'[u].stage = "idle" <=> exec'[u].task = NoDelivery
  BY <1>1 DEF TypeOK
<1>3. delivery' \in [Delivery -> DeliveryRow]
  BY DEF TypeOK
<1>4. QED
  BY <1>2, <1>3 DEF TypeOK

\* So do the steps of an execution.
LEMMA ExecutionTypeOK ==
    ASSUME TypeOK, NEW t \in Token, Execution(t)
    PROVE  TypeOK'
<1> DEFINE d == exec[t].task
<1>0. /\ exec[t].stage # "idle" => d \in Delivery /\ delivery[d] \in DeliveryRow
                                   /\ RunOf(d) \in Run /\ run[RunOf(d)].generation \in Nat
      /\ NoRow \in DeliveryRow
  BY Keys, NewRowTypes DEF TypeOK, ExecRecord
<1>1. ASSUME NEW e \in Delivery, Claim(t, e)
      PROVE  TypeOK'
  <2>1. run[RunOf(e)].generation \in Nat
    BY Keys DEF TypeOK
  <2>2. delivery' \in [Delivery -> DeliveryRow]
    <3> DEFINE claimed == [delivery[e] EXCEPT !.lease = "live", !.token = t,
                                              !.generation = run[RunOf(e)].generation]
    <3>1. delivery[e] \in DeliveryRow
      BY DEF TypeOK
    <3>2. claimed \in DeliveryRow
      BY <2>1, <3>1 DEF DeliveryRow, Lease
    <3>3. delivery' = [delivery EXCEPT ![e] = claimed]
      BY <1>1 DEF Claim
    <3> HIDE DEF claimed
    <3> QED
      BY <3>2, <3>3 DEF TypeOK
  <2>3. /\ exec' \in [Token -> ExecRecord]
        /\ \A u \in Token : exec'[u].stage = "idle" <=> exec'[u].task = NoDelivery
    BY <1>1, PipelineAssumption, KeyAssumption DEF Claim, TypeOK, ExecRecord, Stage
  <2>4. QED
    BY <1>1, <2>2, <2>3 DEF Claim, TypeOK
<1>2. CASE Resolve(t)
  BY <1>2, MoveTypeOK DEF Resolve, Stage, TypeOK
<1>3. CASE Renew(t)
  BY <1>3, MoveTypeOK DEF Renew, Stage, TypeOK
<1>4. CASE AdmitSnapshot(t)
  <2>1. PICK stage \in {"admitting", "releasing"}, g \in Nat :
            exec' = [exec EXCEPT ![t].stage = stage, ![t].generation = g]
    BY <1>0, <1>4 DEF AdmitSnapshot
  <2> DEFINE new == [exec[t] EXCEPT !.stage = stage, !.generation = g]
  <2>2. exec' = [exec EXCEPT ![t] = new]
    BY <2>1
  <2>3. exec[t] \in ExecRecord /\ exec[t].stage = "renewed" /\ stage \in Stage
    BY <1>4 DEF AdmitSnapshot, TypeOK, Stage
  <2>4. /\ new \in ExecRecord /\ new.stage = stage /\ new.task = exec[t].task
    BY <2>3 DEF ExecRecord
  <2>5. UNCHANGED <<mailing, run, delivery, account, stopping, captured, candidates, accepted>>
    BY <1>4 DEF AdmitSnapshot
  <2> HIDE DEF new
  <2>6. QED
    BY <2>2, <2>3, <2>4, <2>5, PutTypeOK DEF TypeOK
<1>5. CASE AdmitApply(t)
  <2>1. delivery[d].attempts + 1 \in 0 .. MaxAttempts
    BY <1>0, <1>5, PipelineAssumption DEF AdmitApply, Admissible, DeliveryRow
  <2> DEFINE sent == [delivery[d] EXCEPT !.status = "sending", !.attempts = delivery[d].attempts + 1]
  <2>2. sent \in DeliveryRow
    BY <1>0, <1>5, <2>1 DEF AdmitApply, DeliveryRow, DeliveryStatus
  <2>3. delivery' \in [Delivery -> DeliveryRow]
    BY <1>5, <2>2 DEF AdmitApply, TypeOK
  <2>4. exec' = [exec EXCEPT ![t] = [exec[t] EXCEPT !.stage = "sending",
                                                    !.attempt = delivery[d].attempts + 1]]
    BY <1>5 DEF AdmitApply
  <2> DEFINE new == [exec[t] EXCEPT !.stage = "sending", !.attempt = delivery[d].attempts + 1]
  <2>5. exec[t] \in ExecRecord /\ exec[t].stage = "admitting" /\ "sending" \in Stage
    BY <1>5 DEF AdmitApply, TypeOK, Stage
  <2>6. new \in ExecRecord /\ new.stage = "sending" /\ new.task = exec[t].task
    BY <2>1, <2>5 DEF ExecRecord
  <2>7. exec' = [exec EXCEPT ![t] = new]
        /\ UNCHANGED <<mailing, run, account, stopping, captured, candidates, accepted>>
    BY <1>5, <2>4 DEF AdmitApply
  <2> HIDE DEF new
  <2>8. QED
    BY <2>3, <2>5, <2>6, <2>7, PutTypeOK DEF TypeOK
<1>6. CASE AdmitRefused(t)
  BY <1>6, MoveTypeOK DEF AdmitRefused, Stage, TypeOK
<1>14. CASE Interrupted(t)
  BY <1>14, MoveTypeOK DEF Interrupted, Stage, TypeOK
<1>7. CASE TelegramAccepts(t)
  BY <1>0, <1>7, MoveTypeOK DEF TelegramAccepts, Stage, TypeOK
<1>8. ASSUME NEW result \in {"succeeded", "permanent", "retryable", "unknown"}, SendReturns(t, result)
      PROVE  TypeOK'
  BY <1>8, MoveTypeOK DEF SendReturns, Stage, TypeOK
<1>9. CASE SendCancelled(t)
  BY <1>0, <1>9, EndTypeOK DEF SendCancelled, TypeOK
<1>10. CASE FinalizeNegative(t)
  <2>1. NegativeOutcome(t) \in DeliveryRow
    BY <1>0, <1>10, RowTypes DEF FinalizeNegative, NegativeOutcome, DeliveryStatus
  <2>2. QED
    BY <1>0, <1>10, <2>1, EndTypeOK DEF FinalizeNegative, TypeOK
<1>11. CASE FinalizeSuccess(t)
  <2>1. Unleased(delivery[d], "sent") \in DeliveryRow
    BY <1>0, <1>11, RowTypes DEF FinalizeSuccess, DeliveryStatus
  <2>2. QED
    BY <1>0, <1>11, <2>1, EndTypeOK DEF FinalizeSuccess, TypeOK
<1>12. CASE Release(t)
  <2>1. Deferred(delivery[d]) \in DeliveryRow
    BY <1>0, <1>12, RowTypes DEF Release, DeliveryStatus
  <2>2. QED
    BY <1>0, <1>12, <2>1, EndTypeOK DEF Release, TypeOK
<1>13. CASE Crash(t)
  BY <1>0, <1>13, EndTypeOK DEF Crash, TypeOK
<1>15. QED
  BY <1>1, <1>2, <1>3, <1>4, <1>5, <1>6, <1>7, <1>8, <1>9, <1>10, <1>11, <1>12, <1>13, <1>14 DEF Execution

\* So do the background passes and the passing of time.
LEMMA BackgroundTypeOK ==
    ASSUME TypeOK, Background
    PROVE  TypeOK'
<1>1. ASSUME NEW d \in Delivery, Reap(d)
      PROVE  TypeOK'
  <2>1. Deferred(delivery[d]) \in DeliveryRow /\ Unleased(delivery[d], "unknown") \in DeliveryRow
    BY RowTypes DEF TypeOK, DeliveryStatus
  <2>2. QED
    BY <1>1, <2>1 DEF Reap, TypeOK
<1>2. ASSUME NEW d \in Delivery, LeaseElapses(d) \/ BecomeReady(d)
      PROVE  TypeOK'
  <2>1. delivery' \in [Delivery -> DeliveryRow]
    <3>1. CASE LeaseElapses(d)
      BY <3>1 DEF LeaseElapses, TypeOK, DeliveryRow, Lease
    <3>2. CASE BecomeReady(d)
      BY <3>2 DEF BecomeReady, TypeOK, DeliveryRow
    <3>3. QED
      BY <1>2, <3>1, <3>2
  <2>2. QED
    BY <1>2, <2>1 DEF LeaseElapses, BecomeReady, TypeOK
<1>3. CASE ReconcileScan
  BY <1>3 DEF ReconcileScan, TypeOK
<1>4. ASSUME NEW c \in candidates, ReconcileCandidate(c)
      PROVE  TypeOK'
  <2>1. c[1] \in Run /\ MailingOf(c[1]) \in Mailing
    BY Keys DEF TypeOK
  <2>2. QED
    BY <1>4, <2>1 DEF ReconcileCandidate, TypeOK, TerminalRunStatus, RunStatus, MailingStatus
<1>5. CASE ReconcileAbandon
  BY <1>5 DEF ReconcileAbandon, TypeOK
<1>6. QED
  BY <1>1, <1>2, <1>3, <1>4, <1>5 DEF Background

\* So does every step of the system.
LEMMA NextTypeOK == TypeOK /\ [Next]_vars => TypeOK'
<1> SUFFICES ASSUME TypeOK, [Next]_vars
             PROVE  TypeOK'
  OBVIOUS
<1>1. CASE AccountChange
  BY <1>1, PipelineAssumption DEF AccountChange, TypeOK
<1>2. CASE UNCHANGED vars
  BY <1>2 DEF vars, TypeOK
<1>3. QED
  BY <1>1, <1>2, CommandTypeOK, ExecutionTypeOK, BackgroundTypeOK DEF Next

\* TypeOK is an invariant: every variable keeps its type, no delivery is ever
\* attempted more than max_attempts times.
THEOREM TypeCorrect == Spec => []TypeOK
  BY InitTypeOK, NextTypeOK, PTL DEF Spec

-----------------------------------------------------------------------------
(* The rows and the attempts that executions own                           *)

\* What every row says of the attempts made and of what Telegram accepted.
RowInv ==
    \A d \in Delivery :
        /\ Storable(delivery[d])
        /\ delivery[d].status \in {"none", "skipped"} => delivery[d].attempts = 0
        /\ delivery[d].status = "none" => delivery[d].lease = "none"
        /\ delivery[d].status = "sent" => d \in accepted
        /\ d \in accepted => delivery[d].attempts >= 1
        /\ run[RunOf(d)].status = "none" => delivery[d].status = "none"

\* Existing runs have a generation, and the rows that Stop has locked are pending.
ParentInv ==
    /\ \A n \in Run : run[n].status # "none" => run[n].generation >= 1
    /\ \A d \in captured : delivery[d].status = "pending"

\* An execution that sends owns one of the attempts counted in its row.
ExecInv ==
    \A t \in Token :
        /\ exec[t].stage \in InSend =>
              1 <= exec[t].attempt /\ exec[t].attempt <= delivery[exec[t].task].attempts
        /\ exec[t].stage \in {"accepted", "succeeded"} => exec[t].task \in accepted

Inv == TypeOK /\ RowInv /\ ParentInv /\ ExecInv /\ AttemptsAreExclusive

\* A new database satisfies the invariant.
LEMMA InitInv == Init => Inv
<1>1. Init => RowInv /\ ParentInv
  BY DEF Init, RowInv, ParentInv, Storable, NoRow, Terminal
<1>2. Init => ExecInv /\ AttemptsAreExclusive
  BY DEF Init, ExecInv, AttemptsAreExclusive, Idle, InSend
<1>3. QED
  BY <1>1, <1>2, InitTypeOK DEF Inv

\* A step that writes one existing row and counts no attempt off.
LEMMA RowStep ==
    ASSUME Inv, NEW d \in Delivery, NEW row \in DeliveryRow,
           delivery' = [delivery EXCEPT ![d] = row],
           delivery[d].status # "none", row.attempts >= delivery[d].attempts,
           Storable(row), row.status # "none", row.status = "skipped" => row.attempts = 0,
           row.status = "sent" => d \in accepted,
           d \in captured => row.status = "pending",
           UNCHANGED <<run, captured, accepted>>
    PROVE  RowInv' /\ ParentInv'
<1>1. d \in accepted => row.attempts >= 1
  BY DEF Inv, RowInv, TypeOK, DeliveryRow
<1>2. RowInv'
  BY <1>1 DEF Inv, RowInv, TypeOK, Storable
<1>3. ParentInv'
  BY DEF Inv, ParentInv, TypeOK
<1>4. QED
  BY <1>2, <1>3

\* A step that writes no row; a message may turn out to be accepted.
LEMMA AcceptStep ==
    ASSUME Inv, NEW t \in Token, exec[t].stage \in InSend,
           accepted' \in {accepted, accepted \cup {exec[t].task}},
           UNCHANGED <<run, delivery, captured>>
    PROVE  RowInv' /\ ParentInv'
<1>1. exec[t].task \in Delivery => delivery[exec[t].task].attempts >= 1
  BY DEF Inv, ExecInv, TypeOK, ExecRecord, DeliveryRow
<1>2. QED
  BY <1>1 DEF Inv, RowInv, ParentInv, Storable

\* A step that moves one execution on, without giving it an attempt.
LEMMA ExecStep ==
    ASSUME Inv, NEW t \in Token, NEW e \in ExecRecord, exec' = [exec EXCEPT ![t] = e],
           e.stage \in InSend => /\ exec[t].stage \in InSend
                                 /\ e.task = exec[t].task /\ e.attempt = exec[t].attempt,
           e.stage \in {"accepted", "succeeded"} => e.task \in accepted',
           delivery' \in [Delivery -> DeliveryRow],
           \A d \in Delivery : delivery'[d].attempts >= delivery[d].attempts,
           accepted \subseteq accepted'
    PROVE  ExecInv' /\ AttemptsAreExclusive'
<1>1. \A u \in Token : exec'[u] = IF u = t THEN e ELSE exec[u]
  BY DEF Inv, TypeOK
<1>2. \A u \in Token : exec'[u].stage \in InSend =>
          /\ exec[u].stage \in InSend /\ exec[u].task \in Delivery
          /\ exec'[u].task = exec[u].task /\ exec'[u].attempt = exec[u].attempt
  BY <1>1 DEF Inv, TypeOK, ExecRecord, InSend
<1>3. \A u \in Token : exec'[u].stage \in {"accepted", "succeeded"} => exec'[u].task \in accepted'
  BY <1>1 DEF Inv, ExecInv
<1>4. \A u \in Token : exec'[u].stage \in InSend =>
          1 <= exec'[u].attempt /\ exec'[u].attempt <= delivery'[exec'[u].task].attempts
  BY <1>2 DEF Inv, ExecInv, TypeOK, ExecRecord, DeliveryRow
<1>5. ExecInv'
  BY <1>3, <1>4 DEF ExecInv
<1>6. AttemptsAreExclusive'
  BY <1>2 DEF Inv, AttemptsAreExclusive
<1>7. QED
  BY <1>5, <1>6

\* A step that leaves the executions alone.
LEMMA SameExec ==
    ASSUME Inv, UNCHANGED <<exec, accepted>>, delivery' \in [Delivery -> DeliveryRow],
           \A d \in Delivery : delivery[d].attempts >= 1 =>
               delivery'[d].attempts >= delivery[d].attempts
    PROVE  ExecInv' /\ AttemptsAreExclusive'
<1>1. \A u \in Token : exec[u].stage \in InSend => exec[u].task \in Delivery
  BY DEF Inv, TypeOK, ExecRecord, InSend
<1>2. ExecInv'
  BY <1>1 DEF Inv, ExecInv, TypeOK, ExecRecord, DeliveryRow
<1>3. AttemptsAreExclusive'
  BY DEF Inv, AttemptsAreExclusive
<1>4. QED
  BY <1>2, <1>3

\* Commands of the operator: Queue inserts rows only where there were none, and
\* Stop calls a delivery skipped only if it was never attempted.
LEMMA CommandInv ==
    ASSUME Inv, NEW m \in Mailing, Command(m)
    PROVE  (RowInv /\ ParentInv /\ ExecInv /\ AttemptsAreExclusive)'
<1>0. delivery \in [Delivery -> DeliveryRow] /\ TypeOK'
  BY CommandTypeOK DEF Inv, TypeOK
<1>1. CASE Queue(m)
  <2>1. PICK n \in Run :
          /\ run[n].status = "none"
          /\ run' = [run EXCEPT ![n] = [status |-> "queued", generation |-> 1]]
          /\ delivery' = [d \in Delivery |->
                IF RunOf(d) = n /\ d[2] \in Eligible(m) THEN NewRow ELSE delivery[d]]
    BY <1>1 DEF Queue, IsNextRun
  <2>2. \A d \in Delivery : RunOf(d) = n =>
          delivery[d].status = "none" /\ delivery[d].attempts = 0 /\ d \notin captured
    BY <2>1 DEF Inv, RowInv, ParentInv
  <2>3. Storable(NewRow) /\ NewRow.status = "pending" /\ NewRow.attempts = 0
    BY DEF NewRow, NoRow, Storable, Terminal
  <2>4. RowInv'
    <3> SUFFICES ASSUME NEW d \in Delivery
                 PROVE  /\ Storable(delivery'[d])
                        /\ delivery'[d].status \in {"none", "skipped"} => delivery'[d].attempts = 0
                        /\ delivery'[d].status = "none" => delivery'[d].lease = "none"
                        /\ delivery'[d].status = "sent" => d \in accepted
                        /\ d \in accepted => delivery'[d].attempts >= 1
                        /\ run'[RunOf(d)].status = "none" => delivery'[d].status = "none"
      BY <1>1 DEF RowInv, Queue, Storable
    <3>1. CASE RunOf(d) = n /\ d[2] \in Eligible(m)
      BY <2>1, <2>2, <2>3, <3>1, Keys DEF Inv, RowInv, TypeOK
    <3>2. CASE ~(RunOf(d) = n /\ d[2] \in Eligible(m))
      BY <2>1, <2>2, <3>2, Keys DEF Inv, RowInv, TypeOK
    <3>3. QED
      BY <3>1, <3>2
  <2>5. ParentInv'
    BY <1>1, <2>1, <2>2 DEF Inv, ParentInv, TypeOK, Queue
  <2>6. \A d \in Delivery : delivery[d].attempts >= 1 => delivery'[d].attempts >= delivery[d].attempts
    BY <1>0, <2>1, <2>2 DEF DeliveryRow
  <2>7. QED
    BY <1>0, <1>1, <2>4, <2>5, <2>6, SameExec DEF Queue, TypeOK
<1>2. CASE StopBegin(m)
  <2>1. RowInv' /\ ParentInv'
    BY <1>2 DEF StopBegin, DeliveriesOf, Inv, RowInv, ParentInv, Storable
  <2>2. QED
    BY <1>0, <1>2, <2>1, SameExec DEF StopBegin, TypeOK, DeliveryRow
<1>3. CASE StopCommit(m)
  <2>1. \A d \in Delivery : delivery'[d].attempts = delivery[d].attempts
    BY <1>0, <1>3 DEF StopCommit, Stopped, Unleased, DeliveryRow
  <2>2. \A n \in Run : /\ run'[n].status = "none" => run[n].status = "none"
                       /\ run'[n].generation >= run[n].generation
    BY <1>3 DEF StopCommit, Inv, TypeOK
  <2>3. RowInv'
    <3> SUFFICES ASSUME NEW d \in Delivery
                 PROVE  /\ Storable(delivery'[d])
                        /\ delivery'[d].status \in {"none", "skipped"} => delivery'[d].attempts = 0
                        /\ delivery'[d].status = "none" => delivery'[d].lease = "none"
                        /\ delivery'[d].status = "sent" => d \in accepted
                        /\ d \in accepted => delivery'[d].attempts >= 1
                        /\ run'[RunOf(d)].status = "none" => delivery'[d].status = "none"
      BY <1>3 DEF RowInv, StopCommit, Storable
    <3>1. CASE d \in Captured(m)
      <4>1. delivery'[d] = Stopped(delivery[d]) /\ delivery[d].status = "pending"
        BY <1>3, <3>1 DEF StopCommit, Captured, Inv, ParentInv
      <4>2. run[RunOf(d)].status # "none"
        BY <4>1 DEF Inv, RowInv
      <4>3. /\ delivery'[d].status \in {"skipped", "unknown"}
            /\ delivery'[d].token = NoToken /\ delivery'[d].lease = "none"
            /\ delivery'[d].generation = 0
            /\ delivery'[d].status = "skipped" <=> delivery[d].attempts = 0
        BY <1>0, <4>1 DEF Stopped, Unleased, DeliveryRow
      <4>4. delivery[d].attempts \in Nat /\ (d \in accepted => delivery[d].attempts >= 1)
        BY <1>0 DEF DeliveryRow, Inv, RowInv
      <4>5. QED
        BY <2>1, <2>2, <4>2, <4>3, <4>4, Keys DEF Storable, Terminal
    <3>2. CASE d \notin Captured(m)
      BY <1>3, <2>2, <3>2, Keys DEF StopCommit, Inv, RowInv
    <3>3. QED
      BY <3>1, <3>2
  <2>4. ParentInv'
    <3>1. \A n \in Run : run'[n].status # "none" => run'[n].generation >= 1
      BY <1>3 DEF StopCommit, Inv, ParentInv, TypeOK
    <3>2. \A d \in captured' : delivery'[d].status = "pending"
      BY <1>3 DEF StopCommit, Inv, ParentInv, TypeOK
    <3>3. QED
      BY <3>1, <3>2 DEF ParentInv
  <2>5. QED
    BY <1>0, <1>3, <2>1, <2>3, <2>4, SameExec DEF StopCommit, TypeOK, DeliveryRow
<1>4. CASE StopAbort(m)
  <2>1. RowInv' /\ ParentInv'
    BY <1>4 DEF StopAbort, Inv, RowInv, ParentInv, Storable
  <2>2. QED
    BY <1>0, <1>4, <2>1, SameExec DEF StopAbort, TypeOK, DeliveryRow
<1>5. QED
  BY <1>1, <1>2, <1>3, <1>4 DEF Command

\* The row that a release and a reaped send return to the queue.
LEMMA ReleasedRow ==
    ASSUME NEW row \in DeliveryRow
    PROVE  /\ Deferred(row) \in DeliveryRow /\ Storable(Deferred(row))
           /\ Deferred(row).status = "pending" /\ Deferred(row).attempts = row.attempts
<1>1. Deferred(row) \in DeliveryRow
  BY RowTypes DEF DeliveryStatus
<1>2. LET new == Deferred(row) IN
      /\ new.status = "pending" /\ new.attempts = row.attempts
      /\ new.token = NoToken /\ new.lease = "none" /\ new.generation = 0
  BY DEF Deferred, Unleased, DeliveryRow
<1>3. QED
  BY <1>1, <1>2 DEF Storable, Terminal

\* The rows that releasing, requeueing and settling write.
LEMMA RowsWritten ==
    ASSUME NEW row \in DeliveryRow, row.attempts >= 1
    PROVE  /\ Deferred(row) \in DeliveryRow /\ Storable(Deferred(row))
           /\ Deferred(row).status = "pending" /\ Deferred(row).attempts = row.attempts
           /\ \A status \in {"sent", "failed", "unknown"} :
                 /\ Unleased(row, status) \in DeliveryRow /\ Storable(Unleased(row, status))
                 /\ Unleased(row, status).status = status
                 /\ Unleased(row, status).attempts = row.attempts
<1>1. row.attempts \in Nat
  BY DEF DeliveryRow
<1>2. ASSUME NEW status \in {"pending", "sent", "failed", "unknown"}
      PROVE  LET new == Unleased(row, status) IN
             /\ new \in DeliveryRow /\ Storable(new)
             /\ new.status = status /\ new.attempts = row.attempts
  <2>1. Unleased(row, status) \in DeliveryRow
    BY RowTypes DEF DeliveryStatus
  <2>2. LET new == Unleased(row, status) IN
        /\ new.status = status /\ new.attempts = row.attempts
        /\ new.token = NoToken /\ new.lease = "none" /\ new.generation = 0
    BY DEF Unleased, DeliveryRow
  <2>3. QED
    BY <1>1, <2>1, <2>2 DEF Storable
<1>3. /\ Deferred(row) \in DeliveryRow /\ Storable(Deferred(row))
      /\ Deferred(row).status = "pending" /\ Deferred(row).attempts = row.attempts
  BY ReleasedRow
<1>4. QED
  BY <1>2, <1>3

\* A step that only ends an execution.
LEMMA EndStep ==
    ASSUME Inv, NEW t \in Token, exec' = [exec EXCEPT ![t] = Idle],
           delivery' \in [Delivery -> DeliveryRow],
           \A d \in Delivery : delivery'[d].attempts >= delivery[d].attempts,
           accepted \subseteq accepted'
    PROVE  ExecInv' /\ AttemptsAreExclusive'
<1>1. Idle \in ExecRecord /\ Idle.stage \notin InSend
  BY PipelineAssumption DEF Idle, ExecRecord, Stage, InSend
<1>2. Idle.stage \notin {"accepted", "succeeded"}
  BY DEF Idle
<1>3. QED
  BY <1>1, <1>2, ExecStep

\* A step that moves an execution on and writes no row.
LEMMA MoveStep ==
    ASSUME Inv, NEW t \in Token, NEW e \in ExecRecord, exec' = [exec EXCEPT ![t] = e],
           e.stage \in InSend => /\ exec[t].stage \in InSend
                                 /\ e.task = exec[t].task /\ e.attempt = exec[t].attempt,
           e.stage \in {"accepted", "succeeded"} => e.task \in accepted,
           UNCHANGED <<run, delivery, captured, accepted>>
    PROVE  (RowInv /\ ParentInv /\ ExecInv /\ AttemptsAreExclusive)'
<1>1. RowInv' /\ ParentInv'
  BY DEF Inv, RowInv, ParentInv, Storable
<1>2. delivery' \in [Delivery -> DeliveryRow]
      /\ \A d \in Delivery : delivery'[d].attempts >= delivery[d].attempts
  BY DEF Inv, TypeOK, DeliveryRow
<1>3. QED
  BY <1>1, <1>2, ExecStep

\* The steps of an execution before it is admitted.
LEMMA ClaimInv ==
    ASSUME Inv, NEW t \in Token, NEW d \in Delivery, Claim(t, d)
    PROVE  (RowInv /\ ParentInv /\ ExecInv /\ AttemptsAreExclusive)'
<1> DEFINE row == [delivery[d] EXCEPT !.lease = "live", !.token = t,
                                      !.generation = run[RunOf(d)].generation]
           e == [stage |-> "claimed", task |-> d, attempt |-> 0,
                 generation |-> 0, version |-> account.version]
<1>1. delivery[d] \in DeliveryRow /\ delivery[d].status = "pending"
  BY DEF Claim, Claimable, Inv, TypeOK
<1>2. run[RunOf(d)].generation \in Nat /\ run[RunOf(d)].generation >= 1
  BY Keys DEF Claim, ActivePair, Inv, ParentInv, TypeOK
<1>3. /\ row \in DeliveryRow /\ row.status = "pending"
      /\ row.attempts = delivery[d].attempts /\ row.attempts >= delivery[d].attempts
  <2>1. /\ row \in DeliveryRow /\ row.status = "pending"
        /\ row.attempts = delivery[d].attempts
    BY <1>1, <1>2 DEF DeliveryRow, Lease
  <2>2. delivery[d].attempts \in Nat
    BY <1>1 DEF DeliveryRow
  <2>3. QED
    BY <2>1, <2>2
<1>4. Storable(row)
  BY <1>1, <1>2, PipelineAssumption DEF Storable, Terminal, DeliveryRow
<1>5. delivery' = [delivery EXCEPT ![d] = row] /\ d \notin captured
  BY DEF Claim
<1>6. RowInv' /\ ParentInv'
  <2>1. UNCHANGED <<run, captured, accepted>>
    BY DEF Claim
  <2> HIDE DEF row
  <2>2. QED
    BY <1>1, <1>3, <1>4, <1>5, <2>1, RowStep
<1>7. e \in ExecRecord /\ e.stage \notin InSend
  BY PipelineAssumption DEF ExecRecord, Stage, InSend, Inv, TypeOK
<1>8. delivery' \in [Delivery -> DeliveryRow]
      /\ \A c \in Delivery : delivery'[c].attempts >= delivery[c].attempts
  BY <1>3, <1>5 DEF Inv, TypeOK, DeliveryRow
<1>9. exec' = [exec EXCEPT ![t] = e] /\ accepted' = accepted
  BY DEF Claim
<1>10. e.stage \notin {"accepted", "succeeded"}
  OBVIOUS
<1>11. ExecInv' /\ AttemptsAreExclusive'
  BY <1>7, <1>8, <1>9, <1>10, ExecStep
<1>12. QED
  BY <1>6, <1>11

\* Admission counts a new attempt, larger than those of all other executions.
LEMMA AdmitInv ==
    ASSUME Inv, NEW t \in Token, AdmitApply(t)
    PROVE  (RowInv /\ ParentInv /\ ExecInv /\ AttemptsAreExclusive)'
<1> DEFINE d == exec[t].task
           row == [delivery[d] EXCEPT !.status = "sending", !.attempts = delivery[d].attempts + 1]
<1>1. d \in Delivery /\ delivery[d] \in DeliveryRow
  BY DEF AdmitApply, Inv, TypeOK, ExecRecord
<1>2. /\ delivery[d].status = "pending" /\ delivery[d].token = t
      /\ delivery[d].attempts < MaxAttempts /\ d \notin captured
      /\ delivery' = [delivery EXCEPT ![d] = row]
  BY DEF AdmitApply, Admissible
<1>3. /\ row \in DeliveryRow
      /\ row.attempts = delivery[d].attempts + 1 /\ row.attempts >= 1
      /\ row.attempts >= delivery[d].attempts /\ row.status = "sending"
  <2>1. delivery[d].attempts \in Nat /\ delivery[d].attempts + 1 \in 0 .. MaxAttempts
    BY <1>1, <1>2, PipelineAssumption DEF DeliveryRow
  <2>2. row \in DeliveryRow /\ row.attempts = delivery[d].attempts + 1 /\ row.status = "sending"
    BY <1>1, <2>1 DEF DeliveryRow, DeliveryStatus
  <2>3. QED
    BY <2>1, <2>2
<1>4. Storable(row)
  BY <1>1, <1>2, <1>3, PipelineAssumption DEF Storable, Terminal, DeliveryRow, Inv, RowInv
<1> HIDE DEF row
<1>5. RowInv' /\ ParentInv'
  <2>1. UNCHANGED <<run, captured, accepted>>
    BY DEF AdmitApply
  <2>2. QED
    BY <1>1, <1>2, <1>3, <1>4, <2>1, RowStep
<1>6. \A u \in Token : /\ exec'[u].task = exec[u].task
                       /\ u # t => exec'[u] = exec[u]
                       /\ exec'[t].stage = "sending" /\ exec'[t].attempt = row.attempts
  BY <1>3 DEF AdmitApply, Inv, TypeOK, ExecRecord
<1>7. \A u \in Token : u # t /\ exec[u].stage \in InSend =>
          /\ exec[u].task \in Delivery
          /\ exec[u].attempt \in Nat
          /\ 1 <= exec[u].attempt /\ exec[u].attempt <= delivery[exec[u].task].attempts
  BY DEF Inv, TypeOK, ExecInv, ExecRecord, InSend
<1>8. /\ \A c \in Delivery : c # d => delivery'[c] = delivery[c]
      /\ delivery'[d] = row
      /\ \A c \in Delivery : delivery[c].attempts \in Nat
  BY <1>1, <1>2 DEF Inv, TypeOK, DeliveryRow
<1>9. ExecInv'
  <2> SUFFICES ASSUME NEW u \in Token
               PROVE  /\ exec'[u].stage \in InSend => 1 <= exec'[u].attempt
                            /\ exec'[u].attempt <= delivery'[exec'[u].task].attempts
                      /\ exec'[u].stage \in {"accepted", "succeeded"} => exec'[u].task \in accepted'
    BY DEF ExecInv
  <2>1. CASE u = t
    BY <1>1, <1>3, <1>6, <1>8, <2>1
  <2>2. CASE u # t
    <3>1. \A c \in Delivery : delivery'[c].attempts \in Nat
                             /\ delivery'[c].attempts >= delivery[c].attempts
      BY <1>1, <1>3, <1>8
    <3>2. exec'[u] = exec[u] /\ accepted' = accepted
      BY <1>6, <2>2 DEF AdmitApply
    <3>3. exec[u].stage \in InSend => exec[u].attempt <= delivery'[exec[u].task].attempts
      BY <1>7, <1>8, <2>2, <3>1
    <3>4. QED
      BY <1>7, <2>2, <3>2, <3>3 DEF Inv, ExecInv
  <2>3. QED
    BY <2>1, <2>2
<1>10. AttemptsAreExclusive'
  <2>1. \A u \in Token : u # t /\ exec[u].stage \in InSend /\ exec[u].task = d
            => exec[u].attempt # row.attempts
    BY <1>1, <1>3, <1>7, <1>8
  <2>2. QED
    BY <1>6, <2>1 DEF Inv, AttemptsAreExclusive
<1>11. QED
  BY <1>5, <1>9, <1>10

\* A step that ends an execution and writes at most its row.
LEMMA FinishStep ==
    ASSUME Inv, NEW t \in Token, NEW row \in DeliveryRow, exec[t].stage # "idle",
           exec' = [exec EXCEPT ![t] = Idle],
           \/ delivery' = delivery
           \/ /\ delivery' = [delivery EXCEPT ![exec[t].task] = row]
              /\ delivery[exec[t].task].status # "none"
              /\ row.attempts = delivery[exec[t].task].attempts
              /\ Storable(row) /\ row.status \notin {"none", "skipped"}
              /\ row.status = "sent" => exec[t].task \in accepted
              /\ exec[t].task \notin captured,
           UNCHANGED <<run, captured, accepted>>
    PROVE  (RowInv /\ ParentInv /\ ExecInv /\ AttemptsAreExclusive)'
<1>1. exec[t].task \in Delivery
  BY DEF Inv, TypeOK, ExecRecord
<1>2. \A c \in Delivery : delivery[c].attempts \in Nat
  BY DEF Inv, TypeOK, DeliveryRow
<1>3. RowInv' /\ ParentInv'
  <2>1. CASE delivery' = delivery
    BY <2>1 DEF Inv, RowInv, ParentInv, Storable
  <2>2. CASE delivery' # delivery
    BY <1>1, <1>2, <2>2, RowStep
  <2>3. QED
    BY <2>1, <2>2
<1>4. delivery' \in [Delivery -> DeliveryRow]
      /\ \A c \in Delivery : delivery'[c].attempts >= delivery[c].attempts
  BY <1>1, <1>2 DEF Inv, TypeOK
<1>5. QED
  BY <1>3, <1>4, EndStep

\* The steps of an execution.
LEMMA ExecutionInv ==
    ASSUME Inv, NEW t \in Token, Execution(t)
    PROVE  (RowInv /\ ParentInv /\ ExecInv /\ AttemptsAreExclusive)'
<1> DEFINE d == exec[t].task  row == delivery[d]
<1>0. /\ exec[t].stage # "idle" => d \in Delivery /\ row \in DeliveryRow
      /\ exec[t].stage \in InSend => row.attempts >= 1 /\ row.status \notin {"none", "skipped"}
      /\ exec[t].stage \in {"accepted", "succeeded"} => d \in accepted
      /\ row.status = "pending" /\ row.attempts = 0 => exec[t].stage \notin InSend
  <2>1. exec[t].stage # "idle" => d \in Delivery /\ row \in DeliveryRow
    BY DEF Inv, TypeOK, ExecRecord
  <2>2. exec[t].stage \in InSend => exec[t].stage # "idle" /\ exec[t].attempt \in Nat
    BY DEF Inv, TypeOK, ExecRecord, InSend
  <2>3. QED
    BY <2>1, <2>2 DEF Inv, RowInv, ExecInv, DeliveryRow
<1>1. ASSUME NEW c \in Delivery, Claim(t, c)
      PROVE  (RowInv /\ ParentInv /\ ExecInv /\ AttemptsAreExclusive)'
  BY <1>1, ClaimInv
<1>2. ASSUME NEW stage \in Stage, MoveTo(t, stage), exec[t].stage # "idle",
             UNCHANGED <<run, delivery, captured, accepted>>,
             stage \in InSend => exec[t].stage \in InSend,
             stage \in {"accepted", "succeeded"} => d \in accepted
      PROVE  (RowInv /\ ParentInv /\ ExecInv /\ AttemptsAreExclusive)'
  <2> DEFINE e == [exec[t] EXCEPT !.stage = stage]
  <2>1. /\ e \in ExecRecord /\ e.stage = stage
        /\ e.task = exec[t].task /\ e.attempt = exec[t].attempt
    BY DEF Inv, TypeOK, ExecRecord
  <2>2. exec' = [exec EXCEPT ![t] = e]
    BY <1>2 DEF MoveTo
  <2>3. QED
    BY <1>2, <2>1, <2>2, MoveStep
<1>3. CASE Resolve(t)
  BY <1>2, <1>3 DEF Resolve, Stage, InSend
<1>4. CASE Renew(t)
  BY <1>2, <1>4 DEF Renew, Stage, InSend
<1>5. CASE AdmitSnapshot(t)
  <2>1. PICK stage \in {"admitting", "releasing"}, g \in Nat :
            exec' = [exec EXCEPT ![t] = [exec[t] EXCEPT !.stage = stage, !.generation = g]]
    BY <1>0, <1>5, Keys DEF AdmitSnapshot, Inv, TypeOK
  <2> DEFINE e == [exec[t] EXCEPT !.stage = stage, !.generation = g]
  <2>2. e \in ExecRecord /\ e.stage = stage
    BY DEF Inv, TypeOK, ExecRecord, Stage
  <2>3. stage \notin InSend /\ stage \notin {"accepted", "succeeded"}
    BY DEF InSend
  <2>4. exec' = [exec EXCEPT ![t] = e] /\ UNCHANGED <<run, delivery, captured, accepted>>
    BY <1>5, <2>1 DEF AdmitSnapshot
  <2>5. QED
    BY <2>2, <2>3, <2>4, MoveStep
<1>6. CASE AdmitApply(t)
  BY <1>6, AdmitInv
<1>7. CASE AdmitRefused(t) \/ Interrupted(t)
  BY <1>2, <1>7 DEF AdmitRefused, Interrupted, Stage, InSend
<1>8. CASE TelegramAccepts(t)
  <2> DEFINE e == [exec[t] EXCEPT !.stage = "accepted"]
  <2>1. /\ e \in ExecRecord /\ e.stage = "accepted"
        /\ e.task = exec[t].task /\ e.attempt = exec[t].attempt
    BY DEF Inv, TypeOK, ExecRecord, Stage
  <2>2. exec' = [exec EXCEPT ![t] = e] /\ exec[t].stage \in InSend
    BY <1>8 DEF TelegramAccepts, MoveTo, InSend
  <2>3. accepted' = accepted \cup {exec[t].task} /\ UNCHANGED <<run, delivery, captured>>
    BY <1>8 DEF TelegramAccepts
  <2>4. RowInv' /\ ParentInv'
    BY <2>2, <2>3, AcceptStep
  <2>5. delivery' \in [Delivery -> DeliveryRow]
        /\ \A c \in Delivery : delivery'[c].attempts >= delivery[c].attempts
    BY <2>3 DEF Inv, TypeOK, DeliveryRow
  <2>6. e.task \in accepted' /\ accepted \subseteq accepted'
    BY <2>1, <2>3
  <2> HIDE DEF e
  <2>7. ExecInv' /\ AttemptsAreExclusive'
    BY <2>1, <2>2, <2>5, <2>6, ExecStep
  <2>8. QED
    BY <2>4, <2>7
<1>9. ASSUME NEW result \in {"succeeded", "permanent", "retryable", "unknown"}, SendReturns(t, result)
      PROVE  (RowInv /\ ParentInv /\ ExecInv /\ AttemptsAreExclusive)'
  BY <1>0, <1>2, <1>9 DEF SendReturns, Stage, InSend
<1>10. CASE SendCancelled(t) \/ Crash(t)
  <2>1. /\ exec' = [exec EXCEPT ![t] = Idle] /\ UNCHANGED <<run, delivery, captured>>
        /\ accepted' \in {accepted, accepted \cup {exec[t].task}}
        /\ accepted' # accepted => exec[t].stage \in InSend
    BY <1>10 DEF SendCancelled, Crash, InSend
  <2>2. RowInv' /\ ParentInv'
    <3>1. CASE accepted' = accepted
      BY <2>1, <3>1 DEF Inv, RowInv, ParentInv, Storable
    <3>2. CASE accepted' # accepted
      BY <2>1, <3>2, AcceptStep
    <3>3. QED
      BY <3>1, <3>2
  <2>3. delivery' \in [Delivery -> DeliveryRow]
        /\ \A c \in Delivery : delivery'[c].attempts >= delivery[c].attempts
    BY <2>1 DEF Inv, TypeOK, DeliveryRow
  <2>4. QED
    BY <2>1, <2>2, <2>3, EndStep
<1>11. CASE FinalizeNegative(t)
  <2>1. exec[t].stage \in InSend /\ exec[t].stage # "idle"
    BY <1>11 DEF FinalizeNegative, InSend
  <2>2. NegativeOutcome(t) \in {Deferred(row), Unleased(row, "failed"), Unleased(row, "unknown")}
    BY <1>11 DEF FinalizeNegative, NegativeOutcome
  <2>3. /\ NegativeOutcome(t) \in DeliveryRow /\ Storable(NegativeOutcome(t))
        /\ NegativeOutcome(t).attempts = row.attempts
        /\ NegativeOutcome(t).status \notin {"none", "skipped", "sent"}
    BY <1>0, <2>1, <2>2, RowsWritten
  <2>4. QED
    BY <1>0, <1>11, <2>1, <2>3, FinishStep DEF FinalizeNegative
<1>12. CASE FinalizeSuccess(t)
  <2>1. exec[t].stage \in InSend /\ exec[t].stage # "idle" /\ d \in accepted
    BY <1>0, <1>12 DEF FinalizeSuccess, InSend
  <2>2. LET new == Unleased(row, "sent") IN
        /\ new \in DeliveryRow /\ Storable(new)
        /\ new.attempts = row.attempts /\ new.status = "sent"
    BY <1>0, <2>1, RowsWritten
  <2>3. QED
    BY <1>0, <1>12, <2>1, <2>2, FinishStep DEF FinalizeSuccess
<1>13. CASE Release(t)
  <2>1. exec[t].stage # "idle"
    BY <1>13 DEF Release
  <2>2. LET new == Deferred(row) IN
        /\ new \in DeliveryRow /\ Storable(new)
        /\ new.attempts = row.attempts /\ new.status = "pending"
    BY <1>0, <2>1, ReleasedRow
  <2>3. QED
    BY <1>0, <1>13, <2>1, <2>2, FinishStep DEF Release
<1>14. QED
  BY <1>1, <1>3, <1>4, <1>5, <1>6, <1>7, <1>8, <1>9, <1>10, <1>11, <1>12, <1>13 DEF Execution

\* The background passes and the passing of time.
LEMMA BackgroundInv ==
    ASSUME Inv, Background
    PROVE  (RowInv /\ ParentInv /\ ExecInv /\ AttemptsAreExclusive)'
<1>1. ASSUME NEW d \in Delivery, NEW row \in DeliveryRow,
             delivery' = [delivery EXCEPT ![d] = row], delivery[d].status # "none",
             row.attempts = delivery[d].attempts, Storable(row),
             row.status = delivery[d].status
                 \/ (d \notin captured /\ row.status \in {"pending", "unknown"}),
             UNCHANGED <<run, exec, captured, accepted>>
      PROVE  (RowInv /\ ParentInv /\ ExecInv /\ AttemptsAreExclusive)'
  <2>1. \A c \in Delivery : delivery[c].attempts \in Nat
    BY DEF Inv, TypeOK, DeliveryRow
  <2>2. RowInv' /\ ParentInv'
    BY <1>1, <2>1, RowStep DEF Inv, RowInv, ParentInv
  <2>3. delivery' \in [Delivery -> DeliveryRow]
        /\ \A c \in Delivery : delivery'[c].attempts >= delivery[c].attempts
    BY <1>1, <2>1 DEF Inv, TypeOK
  <2>4. QED
    BY <1>1, <2>2, <2>3, SameExec
<1>2. ASSUME NEW d \in Delivery, Reap(d)
      PROVE  (RowInv /\ ParentInv /\ ExecInv /\ AttemptsAreExclusive)'
  <2> DEFINE row == delivery[d]
  <2>1. row \in DeliveryRow /\ row.attempts >= 1 /\ row.status # "none"
    BY <1>2 DEF Reap, Overdue, Inv, TypeOK, RowInv, Storable
  <2>2. PICK new \in {Deferred(row), Unleased(row, "unknown")} :
            delivery' = [delivery EXCEPT ![d] = new]
    BY <1>2 DEF Reap
  <2>3. /\ new \in DeliveryRow /\ Storable(new) /\ new.attempts = row.attempts
        /\ new.status \in {"pending", "unknown"}
    BY <2>1, <2>2, RowsWritten
  <2>4. QED
    BY <1>1, <1>2, <2>1, <2>2, <2>3 DEF Reap
<1>3. ASSUME NEW d \in Delivery, LeaseElapses(d) \/ BecomeReady(d)
      PROVE  (RowInv /\ ParentInv /\ ExecInv /\ AttemptsAreExclusive)'
  <2> DEFINE row == delivery[d]
  <2>1. row \in DeliveryRow /\ Storable(row) /\ row.status # "none"
    BY <1>3 DEF LeaseElapses, BecomeReady, Inv, TypeOK, RowInv, Storable, Terminal
  <2>2. PICK lease \in Lease, ready \in BOOLEAN :
            /\ delivery' = [delivery EXCEPT ![d] = [row EXCEPT !.lease = lease, !.ready = ready]]
            /\ lease = "none" <=> row.lease = "none"
    <3>1. CASE LeaseElapses(d)
      <4>1. PICK lease \in {"expired", "lapsed"} :
                delivery' = [delivery EXCEPT ![d] = [row EXCEPT !.lease = lease]]
        BY <3>1 DEF LeaseElapses
      <4>2. [row EXCEPT !.lease = lease] = [row EXCEPT !.lease = lease, !.ready = row.ready]
        BY <2>1 DEF DeliveryRow
      <4>3. row.lease # "none" /\ row.ready \in BOOLEAN /\ lease \in Lease
        BY <2>1, <3>1 DEF LeaseElapses, DeliveryRow, Lease
      <4>4. QED
        BY <4>1, <4>2, <4>3
    <3>2. CASE BecomeReady(d)
      <4>1. delivery' = [delivery EXCEPT ![d] = [row EXCEPT !.ready = TRUE]]
        BY <3>2 DEF BecomeReady
      <4>2. [row EXCEPT !.ready = TRUE] = [row EXCEPT !.lease = row.lease, !.ready = TRUE]
        BY <2>1 DEF DeliveryRow
      <4>3. QED
        BY <2>1, <4>1, <4>2 DEF DeliveryRow
    <3>3. QED
      BY <1>3, <3>1, <3>2
  <2> DEFINE new == [row EXCEPT !.lease = lease, !.ready = ready]
  <2>3. /\ new \in DeliveryRow /\ new.attempts = row.attempts /\ new.status = row.status
        /\ Storable(new)
    BY <2>1, <2>2 DEF DeliveryRow, Storable
  <2>4. QED
    BY <1>1, <1>3, <2>1, <2>2, <2>3 DEF LeaseElapses, BecomeReady
<1>4. CASE ReconcileScan \/ ReconcileAbandon
  <2>1. UNCHANGED <<run, delivery, exec, captured, accepted>>
    BY <1>4 DEF ReconcileScan, ReconcileAbandon
  <2>2. RowInv' /\ ParentInv'
    BY <2>1 DEF Inv, RowInv, ParentInv, Storable
  <2>3. QED
    BY <2>1, <2>2, SameExec DEF Inv, TypeOK, DeliveryRow
<1>5. ASSUME NEW c \in candidates, ReconcileCandidate(c)
      PROVE  (RowInv /\ ParentInv /\ ExecInv /\ AttemptsAreExclusive)'
  <2>1. UNCHANGED <<delivery, exec, captured, accepted>>
    BY <1>5 DEF ReconcileCandidate
  <2>2. \A n \in Run : /\ run'[n].generation = run[n].generation
                       /\ run'[n].status = "none" <=> run[n].status = "none"
    BY <1>5 DEF ReconcileCandidate, StillFinished, ActivePair, TerminalRunStatus, Inv, TypeOK
  <2>3. RowInv' /\ ParentInv'
    BY <2>1, <2>2, Keys DEF Inv, RowInv, ParentInv, Storable
  <2>4. QED
    BY <2>1, <2>3, SameExec DEF Inv, TypeOK, DeliveryRow
<1>6. QED
  BY <1>2, <1>3, <1>4, <1>5 DEF Background

\* Every step keeps the invariant.
LEMMA NextInv == Inv /\ [Next]_vars => Inv'
<1> SUFFICES ASSUME Inv, [Next]_vars
             PROVE  Inv'
  OBVIOUS
<1>1. TypeOK'
  BY NextTypeOK DEF Inv
<1>2. (RowInv /\ ParentInv /\ ExecInv /\ AttemptsAreExclusive)'
  <2>1. CASE AccountChange \/ UNCHANGED vars
    <3>1. UNCHANGED <<run, delivery, exec, captured, accepted>>
      BY <2>1 DEF AccountChange, vars
    <3>2. RowInv' /\ ParentInv'
      BY <3>1 DEF Inv, RowInv, ParentInv, Storable
    <3>3. QED
      BY <3>1, <3>2, SameExec DEF Inv, TypeOK, DeliveryRow
  <2>2. QED
    BY <2>1, CommandInv, ExecutionInv, BackgroundInv DEF Next
<1>3. QED
  BY <1>1, <1>2 DEF Inv

\* The inductive invariant holds in every reachable state.
THEOREM InvCorrect == Spec => []Inv
  BY InitInv, NextInv, PTL DEF Spec

\* No statement of the program is refused by a CHECK constraint of
\* mailing_deliveries, whatever the executions, commands and passes do.
THEOREM SchemaConstraintsCorrect == Spec => []SchemaConstraintsHold
<1>1. Inv => SchemaConstraintsHold
  BY DEF Inv, RowInv, SchemaConstraintsHold
<1>2. QED
  BY <1>1, InvCorrect, PTL

\* No two executions ever own the same attempt of a delivery: the attempt number
\* fences negative outcomes although leases expire and rows are reclaimed.
THEOREM AttemptsExclusive == Spec => []AttemptsAreExclusive
<1>1. Inv => AttemptsAreExclusive
  BY DEF Inv
<1>2. QED
  BY <1>1, InvCorrect, PTL

\* A success that Telegram reported is never lost: when the worker records it the
\* row matches, or it already carries the proof.
THEOREM SuccessRecordable == Spec => []SuccessAlwaysRecordable
<1>1. Inv => SuccessAlwaysRecordable
  <2> SUFFICES ASSUME Inv, NEW t \in Token, exec[t].stage \in {"accepted", "succeeded"}
               PROVE  \/ Provable(t)
                      \/ /\ delivery[exec[t].task].status = "sent"
                         /\ delivery[exec[t].task].attempts >= exec[t].attempt
    BY DEF SuccessAlwaysRecordable
  <2> DEFINE row == delivery[exec[t].task]
  <2>1. exec[t].stage \in InSend /\ exec[t].task \in Delivery /\ exec[t].attempt \in Nat
    BY DEF InSend, Inv, TypeOK, ExecRecord
  <2>2. row.attempts \in Nat /\ 1 <= exec[t].attempt /\ row.attempts >= exec[t].attempt
    BY <2>1 DEF Inv, ExecInv, TypeOK, DeliveryRow
  <2>3. row.status \in {"pending", "sending", "sent", "failed", "unknown"}
    <3>1. row \in DeliveryRow
      BY <2>1 DEF Inv, TypeOK
    <3>2. row.status \in DeliveryStatus
      BY <3>1 DEF DeliveryRow
    <3>3. row.attempts # 0
      BY <2>1, <2>2
    <3>4. row.status \in {"none", "skipped"} => row.attempts = 0
      BY <2>1 DEF Inv, RowInv
    <3> HIDE DEF row
    <3> QED
      BY <3>2, <3>3, <3>4 DEF DeliveryStatus
  <2>4. QED
    BY <2>2, <2>3 DEF Provable
<1>2. QED
  BY <1>1, InvCorrect, PTL

\* An accepted message is never shown as skipped or untried, and only an accepted
\* one is shown as sent.
THEOREM RowsAgreeWithTelegram == Spec => []RowAgreesWithTelegram
<1>1. Inv => RowAgreesWithTelegram
  BY DEF Inv, RowInv, RowAgreesWithTelegram, TypeOK, DeliveryRow
<1>2. QED
  BY <1>1, InvCorrect, PTL

\* Stop cancels only active runs, reconciliation finishes only active ones, and
\* Queue starts only runs that do not exist.
LEMMA FinishedRunStep ==
    ASSUME TypeOK, Next, NEW n \in Run, run[n].status \in {"completed", "cancelled", "failed"}
    PROVE  run'[n] = run[n]
<1>1. ASSUME NEW m \in Mailing, Command(m)
      PROVE  run'[n] = run[n]
  <2>1. CASE Queue(m)
    BY <2>1 DEF Queue, IsNextRun, TypeOK
  <2>2. CASE StopCommit(m)
    BY <2>2 DEF StopCommit, ActiveRun
  <2>3. CASE StopBegin(m) \/ StopAbort(m)
    BY <2>3 DEF StopBegin, StopAbort
  <2> QED
    BY <1>1, <2>1, <2>2, <2>3 DEF Command
<1>2. ASSUME NEW t \in Token, Execution(t)
      PROVE  run'[n] = run[n]
  BY <1>2 DEF Execution, Claim, Resolve, Renew, AdmitSnapshot, AdmitApply, AdmitRefused,
      Interrupted, TelegramAccepts, SendReturns, SendCancelled, FinalizeNegative, FinalizeSuccess, Release, Crash
<1>3. ASSUME Background
      PROVE  run'[n] = run[n]
  <2>1. ASSUME NEW c \in candidates, ReconcileCandidate(c)
        PROVE  run'[n] = run[n]
    BY <2>1 DEF ReconcileCandidate, StillFinished, ActivePair, TypeOK
  <2> QED
    BY <1>3, <2>1 DEF Background, Reap, LeaseElapses, BecomeReady, ReconcileScan, ReconcileAbandon
<1> QED
  BY <1>1, <1>2, <1>3 DEF Next, AccountChange

\* A finished run stays as it is.
THEOREM RunsStayFinished == Spec => RunOutcomeIsFinal
<1>1. TypeOK /\ [Next]_vars =>
        [\A n \in Run : run[n].status \in {"completed", "cancelled", "failed"} => run'[n] = run[n]]_vars
  BY FinishedRunStep
<1>2. QED
  BY TypeCorrect, <1>1, PTL DEF Spec, RunOutcomeIsFinal

\* A settled row changes only when its success is proved: what the reaper, a stale
\* execution, a release or a new run does never reopens it.
LEMMA SettledRowStep ==
    ASSUME Inv, Next, NEW d \in Delivery, delivery[d].status \in Terminal
    PROVE  \/ delivery'[d] = delivery[d]
           \/ delivery[d].status \in {"failed", "unknown"} /\ delivery'[d].status = "sent"
<1> DEFINE Kept == \/ delivery'[d] = delivery[d]
                   \/ delivery[d].status \in {"failed", "unknown"} /\ delivery'[d].status = "sent"
<1>1. /\ delivery \in [Delivery -> DeliveryRow] /\ d \notin captured
      /\ delivery[d].lease = "none" /\ delivery[d].status \notin {"none", "pending", "sending"}
      /\ run[RunOf(d)].status # "none"
      /\ delivery[d].status = "skipped" => delivery[d].attempts = 0
  BY DEF Inv, TypeOK, RowInv, ParentInv, Storable, Terminal
<1>2. ASSUME NEW m \in Mailing, Command(m)
      PROVE  Kept
  <2>1. CASE Queue(m)
    BY <1>1, <2>1 DEF Queue, IsNextRun
  <2>2. CASE StopCommit(m)
    BY <1>1, <2>2 DEF StopCommit, Captured
  <2>3. CASE StopBegin(m) \/ StopAbort(m)
    BY <2>3 DEF StopBegin, StopAbort
  <2>4. QED
    BY <1>2, <2>1, <2>2, <2>3 DEF Command
<1>3. ASSUME NEW t \in Token, Execution(t)
      PROVE  Kept
  <2>1. CASE FinalizeSuccess(t)
    <3>1. exec[t].task \in Delivery /\ exec[t].attempt \in Nat /\ exec[t].attempt >= 1
      BY <2>1 DEF FinalizeSuccess, Inv, TypeOK, ExecInv, ExecRecord, InSend
    <3>2. CASE d = exec[t].task /\ Provable(t)
      <4>1. delivery'[d] = Unleased(delivery[d], "sent")
        BY <1>1, <2>1, <3>2 DEF FinalizeSuccess
      <4>2. delivery[d].status \in {"failed", "unknown"}
        BY <1>1, <3>1, <3>2 DEF Provable, Terminal
      <4>3. QED
        BY <1>1, <4>1, <4>2 DEF Unleased, DeliveryRow
    <3>3. CASE ~(d = exec[t].task /\ Provable(t))
      BY <1>1, <2>1, <3>3 DEF FinalizeSuccess
    <3>4. QED
      BY <3>2, <3>3
  <2>2. CASE FinalizeNegative(t)
    BY <1>1, <2>2 DEF FinalizeNegative, OwnsAttempt
  <2>3. CASE Release(t)
    BY <1>1, <2>3 DEF Release
  <2>4. CASE \E c \in Delivery : Claim(t, c)
    BY <1>1, <2>4 DEF Claim, Claimable
  <2>5. CASE AdmitApply(t)
    BY <1>1, <2>5 DEF AdmitApply, Admissible
  <2>6. QED
    BY <1>3, <2>1, <2>2, <2>3, <2>4, <2>5 DEF Execution, Resolve, Renew, AdmitSnapshot,
        AdmitRefused, Interrupted, TelegramAccepts, SendReturns, SendCancelled, Crash
<1>4. ASSUME Background
      PROVE  Kept
  BY <1>1, <1>4 DEF Background, Reap, Overdue, LeaseElapses, BecomeReady, ReconcileScan,
      ReconcileCandidate, ReconcileAbandon
<1>5. QED
  BY <1>2, <1>3, <1>4 DEF Next, AccountChange

\* A settled outcome is final, but for a proof of success.
THEOREM OutcomesStayFinal == Spec => OutcomeIsFinal
<1>1. Inv /\ [Next]_vars =>
        [\A d \in Delivery : delivery[d].status \in Terminal =>
            \/ delivery'[d] = delivery[d]
            \/ delivery[d].status \in {"failed", "unknown"} /\ delivery'[d].status = "sent"]_vars
  BY SettledRowStep
<1>2. QED
  BY InvCorrect, <1>1, PTL DEF Spec, OutcomeIsFinal
=============================================================================
