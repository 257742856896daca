------------------------ MODULE MailingDeliveryProofs ------------------------
(***************************************************************************)
(* The pipeline keeps what MailingDelivery promises, for any number of     *)
(* mailings, runs, recipients, executions and attempts: every step of      *)
(* DeliveryPipeline is a step of MailingDelivery or changes nothing there. *)
(* On the way: a mailing agrees with its runs, a finished run and the      *)
(* earlier runs of an active one have nothing open, nothing is admitted    *)
(* after Stop, and the operational checks report nothing of their own.     *)
(*                                                                         *)
(* The argument is about what Stop leaves behind.  It locks what is        *)
(* pending; what becomes pending meanwhile was being sent before, so it    *)
(* was tried, and nobody can claim it any more.                            *)
(***************************************************************************)
EXTENDS OperationalChecks, DeliveryPipelineProofs

\* A mailing agrees with its latest run, and only the latest run can be active.
RunsInv ==
    /\ \A n \in Run, k \in RunNumber :
          run[n].status # "none" /\ k < n[2] => run[<<MailingOf(n), k>>].status # "none"
    /\ \A n \in Run : ActiveRun(n) => LatestRun(n)
    /\ \A n \in Run : LatestRun(n) =>
          mailing[MailingOf(n)] = IF run[n].status = "cancelled" THEN "stopped" ELSE run[n].status
    /\ \A n \in Run : mailing[MailingOf(n)] = "draft" => run[n].status = "none"

\* What an open Stop has not captured, and what a Stop has left pending, was
\* tried before and is held by nobody: it was being sent and the reaper put it back.
Leftover(d) == delivery[d].attempts >= 1 /\ delivery[d].token = NoToken

StopInv ==
    /\ \A m \in stopping : \E n \in Run : MailingOf(n) = m /\ ActiveRun(n)
    /\ \A d \in captured : MailingOf(RunOf(d)) \in stopping /\ ActiveRun(RunOf(d))
    /\ \A d \in Delivery : delivery[d].status = "pending" =>
          /\ run[RunOf(d)].status = "cancelled" => Leftover(d)
          /\ MailingOf(RunOf(d)) \in stopping /\ d \notin captured => Leftover(d)

\* Only Stop skips, and nothing is open under a run that was finished.
SettledInv ==
    /\ \A d \in Delivery : delivery[d].status = "skipped" => run[RunOf(d)].status = "cancelled"
    /\ FinishedRunsAreSettled
    /\ EarlierRunsAreSettled

MailingInv == Inv /\ RunsInv /\ StopInv /\ SettledInv

-----------------------------------------------------------------------------
(* Initially, and what an active run says of its mailing.                  *)

\* Init establishes the invariant.
LEMMA InitMailingInv == Init => MailingInv
<1> SUFFICES ASSUME Init PROVE MailingInv
  OBVIOUS
<1>1. Inv
  BY InitInv
<1>2. /\ \A n \in Run : run[n].status = "none" /\ mailing[MailingOf(n)] = "draft"
      /\ \A d \in Delivery : run[RunOf(d)].status = "none"
      /\ \A d \in Delivery : delivery[d].status = "none"
      /\ stopping = {} /\ captured = {}
  BY Keys DEF Init, NoRow
<1>3. RunsInv
  BY <1>2 DEF RunsInv, ActiveRun, LatestRun
<1>4. StopInv
  BY <1>2 DEF StopInv
<1>5. SettledInv
  BY <1>2 DEF SettledInv, FinishedRunsAreSettled, EarlierRunsAreSettled, ActiveRun
<1> QED
  BY <1>1, <1>3, <1>4, <1>5 DEF MailingInv

\* An active run is the latest of its mailing, which has its status.
LEMMA ActiveIsLatest ==
    ASSUME RunsInv, NEW n \in Run, ActiveRun(n)
    PROVE  /\ mailing[MailingOf(n)] = run[n].status /\ ActivePair(n)
           /\ \A k \in Run : ActiveRun(k) /\ MailingOf(k) = MailingOf(n) => k = n
<1>1. /\ mailing[MailingOf(n)] = run[n].status /\ ActivePair(n)
  BY DEF RunsInv, ActiveRun, ActivePair
<1>2. ASSUME NEW k \in Run, ActiveRun(k), MailingOf(k) = MailingOf(n)
      PROVE  k = n
  <2>1. /\ n[2] \in Nat /\ k[2] \in Nat /\ n[2] \in RunNumber /\ k[2] \in RunNumber
        /\ n = <<MailingOf(n), n[2]>> /\ k = <<MailingOf(n), k[2]>>
    BY <1>2, Keys DEF RunNumber
  <2>2. LatestRun(n) /\ LatestRun(k)
    BY <1>2 DEF RunsInv
  <2>3. ~(k[2] > n[2]) /\ ~(n[2] > k[2])
    BY <1>2, <2>1, <2>2 DEF LatestRun, ActiveRun
  <2> QED
    BY <2>1, <2>3
<1> QED
  BY <1>1, <1>2

-----------------------------------------------------------------------------
(* What executions, the reaper and time do to rows.                        *)

\* A row as one step may leave it.  It is claimed or admitted only under an
\* active run; what comes back from a send is pending without a holder.
RowMove(d) ==
    \/ /\ delivery'[d].status = delivery[d].status
       /\ delivery'[d].attempts = delivery[d].attempts
       /\ delivery[d].status = "pending" =>
             \/ delivery'[d].token \in {delivery[d].token, NoToken}
             \/ ActiveRun(RunOf(d)) /\ MailingOf(RunOf(d)) \notin stopping
    \/ /\ delivery[d].status = "pending" /\ delivery'[d].status = "sending"
       /\ delivery'[d].attempts >= 1
       /\ ActiveRun(RunOf(d))
    \/ /\ delivery[d].status = "sending" /\ delivery[d].attempts >= 1
       /\ \/ delivery'[d].status \in {"failed", "unknown"}
          \/ /\ delivery'[d].status = "pending"
             /\ delivery'[d].attempts >= 1 /\ delivery'[d].token = NoToken
    \/ /\ delivery[d].status \in {"pending", "sending", "failed", "unknown"}
       /\ delivery[d].status = "pending" => delivery[d].attempts >= 1
       /\ delivery[d].status = "sending" => delivery[d].attempts >= 1
       /\ delivery'[d].status = "sent"

Moves == \E d \in Delivery :
            RowMove(d) /\ \A c \in Delivery \ {d} : delivery'[c] = delivery[c]

\* The statements of an execution write at most its own row, and move it.
LEMMA ExecutionMoves ==
    ASSUME MailingInv, NEW t \in Token, Execution(t)
    PROVE  /\ UNCHANGED <<mailing, run, stopping, captured>>
           /\ UNCHANGED delivery \/ Moves
<1> DEFINE task == exec[t].task  row == delivery[task]
<1>0. delivery \in [Delivery -> DeliveryRow]
  BY DEF MailingInv, Inv, TypeOK
<1>1. UNCHANGED <<mailing, run, stopping, captured>>
  BY DEF Execution, Claim, Resolve, Renew, AdmitSnapshot, AdmitApply, AdmitRefused, Interrupted,
         TelegramAccepts, SendReturns, SendCancelled, FinalizeNegative, FinalizeSuccess,
         Release, Crash
<1>2. exec[t].stage # "idle" => task \in Delivery /\ row \in DeliveryRow
  BY DEF MailingInv, Inv, TypeOK, ExecRecord
<1>3. exec[t].stage \in InSend =>
        /\ exec[t].stage # "idle"
        /\ row.attempts >= 1 /\ row.attempts \in Nat /\ exec[t].attempt \in Nat
  <2>1. exec[t].stage \in InSend => exec[t].stage # "idle" /\ exec[t].attempt \in Nat
    BY DEF MailingInv, Inv, TypeOK, ExecRecord, InSend
  <2> QED
    BY <1>2, <2>1 DEF MailingInv, Inv, ExecInv, DeliveryRow
<1>4. ASSUME NEW c \in Delivery, Claim(t, c)
      PROVE  Moves
  <2>1. /\ delivery'[c].status = delivery[c].status /\ delivery'[c].attempts = delivery[c].attempts
        /\ \A b \in Delivery \ {c} : delivery'[b] = delivery[b]
    BY <1>0, <1>4 DEF Claim, DeliveryRow
  <2>2. ActiveRun(RunOf(c)) /\ MailingOf(RunOf(c)) \notin stopping
    BY <1>4 DEF Claim, ActivePair, ActiveRun
  <2> QED
    BY <2>1, <2>2 DEF Moves, RowMove
<1>5. CASE AdmitApply(t)
  <2>0. PICK d \in Delivery : d = task
    BY <1>2, <1>5 DEF AdmitApply
  <2>1. /\ delivery[d] \in DeliveryRow /\ d \notin captured
        /\ delivery[d].status = "pending" /\ delivery[d].token = t /\ delivery[d].token # NoToken
        /\ delivery' = [delivery EXCEPT ![d] =
               [delivery[d] EXCEPT !.status = "sending", !.attempts = delivery[d].attempts + 1]]
    BY <1>0, <1>5, <2>0, PipelineAssumption DEF AdmitApply, Admissible
  <2>2. RunOf(d) \in Run /\ run[RunOf(d)].status \in RunStatus
    BY <2>1, Keys DEF MailingInv, Inv, TypeOK
  <2>3. run[RunOf(d)].status \notin {"none", "completed", "cancelled", "failed"}
    BY <2>1, <2>2 DEF MailingInv, Inv, RowInv, StopInv, Leftover, SettledInv,
                      FinishedRunsAreSettled, Terminal
  <2>4. /\ delivery'[d].status = "sending" /\ delivery'[d].attempts >= 1
        /\ \A c \in Delivery \ {d} : delivery'[c] = delivery[c]
    BY <1>0, <2>1 DEF DeliveryRow
  <2>5. ActiveRun(RunOf(d))
    BY <2>2, <2>3 DEF ActiveRun, RunStatus
  <2>6. RowMove(d)
    BY <2>1, <2>4, <2>5 DEF RowMove
  <2> QED
    BY <1>1, <2>4, <2>6 DEF Moves
<1>6. CASE FinalizeNegative(t)
  <2>1. exec[t].stage \in InSend /\ exec[t].stage # "idle"
    BY <1>6 DEF FinalizeNegative, InSend
  <2>2. CASE ~OwnsAttempt(t)
    BY <1>6, <2>2 DEF FinalizeNegative
  <2>3. CASE OwnsAttempt(t)
    <3>0. PICK d \in Delivery : d = task
      BY <1>2, <2>1
    <3> DEFINE new == NegativeOutcome(t)
    <3>1. new \in {Deferred(row), Unleased(row, "failed"), Unleased(row, "unknown")}
      BY <1>6 DEF FinalizeNegative, NegativeOutcome
    <3>2. /\ new.attempts = row.attempts /\ new.token = NoToken
          /\ new.status \in {"pending", "failed", "unknown"}
      BY <1>2, <2>1, <3>1 DEF Deferred, Unleased, DeliveryRow
    <3>3. delivery'[d] = new /\ \A c \in Delivery \ {d} : delivery'[c] = delivery[c]
      BY <1>0, <1>6, <2>3, <3>0 DEF FinalizeNegative
    <3> HIDE DEF new
    <3>4. delivery[d].status = "sending" /\ delivery[d].attempts >= 1
      BY <1>3, <2>1, <2>3, <3>0 DEF OwnsAttempt
    <3>5. RowMove(d)
      <4>1. delivery'[d].status \in {"pending", "failed", "unknown"}
        BY <3>2, <3>3
      <4>2. delivery'[d].attempts >= 1 /\ delivery'[d].token = NoToken
        BY <3>0, <3>2, <3>3, <3>4
      <4> QED
        BY <3>4, <4>1, <4>2 DEF RowMove
    <3> QED
      BY <1>1, <3>3, <3>5 DEF Moves
  <2> QED
    BY <2>2, <2>3
<1>7. CASE FinalizeSuccess(t)
  <2>1. exec[t].stage \in InSend /\ exec[t].stage # "idle"
    BY <1>7 DEF FinalizeSuccess, InSend
  <2>2. CASE ~Provable(t)
    BY <1>7, <2>2 DEF FinalizeSuccess
  <2>3. CASE Provable(t)
    <3>0. PICK d \in Delivery : d = task
      BY <1>2, <2>1
    <3>1. delivery'[d].status = "sent" /\ \A c \in Delivery \ {d} : delivery'[c] = delivery[c]
      BY <1>0, <1>7, <2>3, <3>0 DEF FinalizeSuccess, Unleased, DeliveryRow
    <3>2. delivery[d].status \in {"pending", "sending", "failed", "unknown"} /\ delivery[d].attempts >= 1
      BY <1>3, <2>1, <2>3, <3>0 DEF Provable, MailingInv, Inv, RowInv
    <3>3. RowMove(d)
      BY <3>1, <3>2 DEF RowMove
    <3> QED
      BY <1>1, <3>1, <3>3 DEF Moves
  <2> QED
    BY <2>2, <2>3
<1>8. CASE Release(t)
  <2>1. exec[t].stage # "idle"
    BY <1>8 DEF Release
  <2>2. CASE ~(row.status = "pending" /\ row.token = t)
    BY <1>8, <2>2 DEF Release
  <2>3. CASE row.status = "pending" /\ row.token = t
    <3>0. PICK d \in Delivery : d = task
      BY <1>2, <2>1
    <3>1. /\ delivery'[d] = Deferred(row)
          /\ \A c \in Delivery \ {d} : delivery'[c] = delivery[c]
      BY <1>0, <1>8, <2>3, <3>0 DEF Release
    <3>2. /\ Deferred(row).status = "pending" /\ Deferred(row).attempts = row.attempts
          /\ Deferred(row).token = NoToken
      BY <1>2, <2>1 DEF Deferred, Unleased, DeliveryRow
    <3>3. RowMove(d)
      BY <2>3, <3>0, <3>1, <3>2 DEF RowMove
    <3> QED
      BY <1>1, <3>1, <3>3 DEF Moves
  <2> QED
    BY <2>2, <2>3
<1> QED
  BY <1>1, <1>4, <1>5, <1>6, <1>7, <1>8
  DEF Execution, Resolve, Renew, AdmitSnapshot, AdmitRefused, Interrupted, TelegramAccepts,
      SendReturns, SendCancelled, Crash

\* So does the reaper, and time moves no status.
LEMMA TimeMoves ==
    ASSUME MailingInv, NEW d \in Delivery, Reap(d) \/ LeaseElapses(d) \/ BecomeReady(d)
    PROVE  UNCHANGED <<mailing, run, stopping, captured>> /\ Moves
<1> DEFINE row == delivery[d]
<1>1. UNCHANGED <<mailing, run, stopping, captured>>
  BY DEF Reap, LeaseElapses, BecomeReady
<1>2. delivery \in [Delivery -> DeliveryRow] /\ row \in DeliveryRow
  BY DEF MailingInv, Inv, TypeOK
<1>3. CASE Reap(d)
  <2>1. row.status = "sending" /\ row.attempts >= 1
    BY <1>3 DEF Reap, Overdue, MailingInv, Inv, RowInv, Storable
  <2>2. PICK new \in {Deferred(row), Unleased(row, "unknown")} :
            delivery' = [delivery EXCEPT ![d] = new]
    BY <1>3 DEF Reap
  <2>3. /\ new.attempts = row.attempts /\ new.token = NoToken
        /\ new.status \in {"pending", "unknown"}
    BY <1>2 DEF Deferred, Unleased, DeliveryRow
  <2>4. delivery'[d] = new /\ \A c \in Delivery \ {d} : delivery'[c] = delivery[c]
    BY <1>2, <2>2
  <2> QED
    BY <1>1, <2>1, <2>3, <2>4 DEF Moves, RowMove
<1>4. CASE LeaseElapses(d) \/ BecomeReady(d)
  <2>1. /\ delivery'[d].status = row.status /\ delivery'[d].attempts = row.attempts
        /\ delivery'[d].token = row.token
        /\ \A c \in Delivery \ {d} : delivery'[c] = delivery[c]
    BY <1>2, <1>4 DEF LeaseElapses, BecomeReady, DeliveryRow
  <2> QED
    BY <1>1, <2>1 DEF Moves, RowMove
<1> QED
  BY <1>3, <1>4

\* No such step disturbs the invariant: nothing becomes pending without an
\* attempt, and nothing that is settled opens again.
LEMMA QuietStep ==
    ASSUME MailingInv, Inv', UNCHANGED <<mailing, run, stopping, captured>>,
           UNCHANGED delivery \/ Moves
    PROVE  MailingInv'
<1>1. \A d \in Delivery : delivery'[d] = delivery[d] \/ RowMove(d)
  BY DEF Moves
<1>2. RunsInv'
  BY DEF MailingInv, RunsInv, ActiveRun, LatestRun
<1>3. ASSUME NEW d \in Delivery, delivery'[d].status = "pending"
      PROVE  /\ run[RunOf(d)].status = "cancelled" => Leftover(d)'
             /\ MailingOf(RunOf(d)) \in stopping /\ d \notin captured => Leftover(d)'
  <2>1. CASE delivery'[d] = delivery[d]
    BY <1>3, <2>1 DEF MailingInv, StopInv, Leftover
  <2>2. CASE RowMove(d)
    BY <1>3, <2>2 DEF MailingInv, StopInv, Leftover, RowMove, ActiveRun
  <2> QED
    BY <1>1, <2>1, <2>2
<1>4. StopInv'
  BY <1>3 DEF MailingInv, StopInv, ActiveRun
<1>5. ASSUME NEW d \in Delivery, RowMove(d)
      PROVE  /\ delivery'[d].status = "skipped" => delivery[d].status = "skipped"
             /\ run[RunOf(d)].status = "completed" => delivery'[d].status \in {"none", "sent"}
             /\ run[RunOf(d)].status = "failed" => delivery'[d].status \in {"none"} \cup Terminal
  BY <1>5 DEF MailingInv, SettledInv, FinishedRunsAreSettled, RowMove, ActiveRun, Terminal
<1>6. ASSUME NEW n \in Run, ActiveRun(n), NEW d \in Delivery, RowMove(d),
             MailingOf(RunOf(d)) = MailingOf(n), RunOf(d)[2] < n[2]
      PROVE  delivery'[d].status \in {"none", "sent", "failed", "skipped"}
  <2>1. delivery[d].status \in {"none", "sent", "failed", "skipped"}
    BY <1>6 DEF MailingInv, SettledInv, EarlierRunsAreSettled
  <2>2. n[2] \in Nat
    BY Keys DEF RunNumber
  <2>3. ~ActiveRun(RunOf(d))
    BY <1>6, <2>2, ActiveIsLatest, Keys DEF MailingInv
  <2> QED
    BY <1>6, <2>1, <2>3 DEF RowMove
<1>7. SettledInv'
  <2>1. /\ \A d \in Delivery : delivery'[d].status = "skipped" => run[RunOf(d)].status = "cancelled"
        /\ FinishedRunsAreSettled'
    BY <1>1, <1>5 DEF MailingInv, SettledInv, FinishedRunsAreSettled
  <2>2. EarlierRunsAreSettled'
    BY <1>1, <1>6 DEF MailingInv, SettledInv, EarlierRunsAreSettled, ActiveRun
  <2> QED
    BY <2>1, <2>2 DEF SettledInv
<1> QED
  BY <1>2, <1>4, <1>7 DEF MailingInv

-----------------------------------------------------------------------------
(* What the commands of the operator and the reconciler do to runs.        *)

\* A mailing has one latest run.
LEMMA LatestIsUnique ==
    ASSUME NEW n \in Run, NEW k \in Run, LatestRun(n), LatestRun(k), MailingOf(k) = MailingOf(n)
    PROVE  k = n
<1>1. /\ n[2] \in Nat /\ k[2] \in Nat /\ n[2] \in RunNumber /\ k[2] \in RunNumber
      /\ n = <<MailingOf(n), n[2]>> /\ k = <<MailingOf(n), k[2]>>
  BY Keys DEF RunNumber
<1>2. ~(k[2] > n[2]) /\ ~(n[2] > k[2])
  BY <1>1 DEF LatestRun
<1> QED
  BY <1>1, <1>2

\* Queue starts the run after the last one of a mailing that has none active and
\* no outcome open; the deliveries that are pending under a stopped run were tried.
LEMMA QueueFacts ==
    ASSUME MailingInv, NEW m \in Mailing, Queue(m)
    PROVE  \E n \in Run :
              /\ MailingOf(n) = m /\ run[n].status = "none"
              /\ \A k \in RunNumber : k < n[2] => run[<<m, k>>].status # "none"
              /\ \A k \in Run : MailingOf(k) = m /\ run[k].status # "none" =>
                    k[2] < n[2] /\ ~ActiveRun(k)
              /\ \A d \in Delivery : MailingOf(RunOf(d)) = m =>
                    delivery[d].status \in {"none", "sent", "failed", "skipped"}
              /\ \A d \in Delivery : RunOf(d) = n => delivery[d].status = "none"
              /\ run' = [run EXCEPT ![n] = [status |-> "queued", generation |-> 1]]
              /\ delivery' = [d \in Delivery |->
                    IF RunOf(d) = n /\ d[2] \in Eligible(m) THEN NewRow ELSE delivery[d]]
<1>1. PICK n \in Run :
          /\ MailingOf(n) = m /\ IsNextRun(n)
          /\ run' = [run EXCEPT ![n] = [status |-> "queued", generation |-> 1]]
          /\ delivery' = [d \in Delivery |->
                IF RunOf(d) = n /\ d[2] \in Eligible(m) THEN NewRow ELSE delivery[d]]
  BY DEF Queue
<1>2. /\ run[n].status = "none"
      /\ \A k \in RunNumber : k < n[2] => run[<<m, k>>].status # "none"
  BY <1>1 DEF IsNextRun
<1>3. ASSUME NEW k \in Run, MailingOf(k) = m, run[k].status # "none"
      PROVE  k[2] < n[2] /\ ~ActiveRun(k)
  <2>1. /\ n[2] \in Nat /\ k[2] \in Nat /\ n[2] \in RunNumber
        /\ n = <<m, n[2]>> /\ k = <<m, k[2]>>
    BY <1>1, <1>3, Keys DEF RunNumber
  <2>2. n[2] < k[2] => run[n].status # "none"
    BY <1>1, <1>3, <2>1 DEF MailingInv, RunsInv
  <2>3. k # n
    BY <1>2, <1>3
  <2>4. k[2] < n[2]
    BY <1>2, <2>1, <2>2, <2>3
  <2>5. ~ActiveRun(k)
    BY <1>3, ActiveIsLatest DEF MailingInv, Queue, ActiveRun
  <2> QED
    BY <2>4, <2>5
<1>4. \A d \in Delivery : RunOf(d) = n => delivery[d].status = "none"
  BY <1>2 DEF MailingInv, Inv, RowInv
<1>5. ASSUME NEW d \in Delivery, MailingOf(RunOf(d)) = m
      PROVE  delivery[d].status \in {"none", "sent", "failed", "skipped"}
  <2>1. delivery[d].status \in DeliveryStatus /\ delivery[d].attempts \in Nat
        /\ run[RunOf(d)].status \in RunStatus
    BY Keys DEF MailingInv, Inv, TypeOK, DeliveryRow
  <2>2. ~Unresolved(d)
    BY <1>5 DEF Queue
  <2>3. delivery[d].status # "pending"
    <3> SUFFICES ASSUME delivery[d].status = "pending" PROVE FALSE
      OBVIOUS
    <3>1. run[RunOf(d)].status # "none"
      BY DEF MailingInv, Inv, RowInv
    <3>2. run[RunOf(d)].status \in {"completed", "cancelled", "failed"}
      BY <1>3, <1>5, <2>1, <3>1, Keys DEF ActiveRun, RunStatus
    <3>3. delivery[d].attempts = 0
      BY <2>1, <2>2 DEF Unresolved
    <3> QED
      BY <3>2, <3>3 DEF MailingInv, StopInv, Leftover, SettledInv, FinishedRunsAreSettled, Terminal
  <2> QED
    BY <2>1, <2>2, <2>3 DEF Unresolved, DeliveryStatus
<1> QED
  BY <1>1, <1>2, <1>3, <1>4, <1>5

\* A run that ends takes the status of its mailing with it; every other run and
\* every other mailing is as before.
LEMMA EndRun ==
    ASSUME MailingInv, NEW n \in Run, ActiveRun(n),
           \A k \in Run : run'[k].status # run[k].status => k = n,
           run'[n].status \in {"completed", "cancelled", "failed"},
           mailing' = [mailing EXCEPT ![MailingOf(n)] =
               IF run'[n].status = "cancelled" THEN "stopped" ELSE run'[n].status]
    PROVE  /\ RunsInv'
           /\ \A k \in Run : ActiveRun(k)' => ActiveRun(k) /\ MailingOf(k) # MailingOf(n)
           /\ \A k \in Run : MailingOf(k) # MailingOf(n) /\ ActiveRun(k) => ActiveRun(k)'
<1>1. \A k \in Run : run'[k].status = "none" <=> run[k].status = "none"
  BY DEF ActiveRun
<1>2. \A k \in Run, j \in RunNumber : <<MailingOf(k), j>> \in Run
  BY Keys DEF Run
<1>3. \A k \in Run : LatestRun(k)' <=> LatestRun(k)
  BY <1>1, <1>2 DEF LatestRun
<1>4. \A k \in Run : ActiveRun(k)' => ActiveRun(k) /\ MailingOf(k) # MailingOf(n)
  <2> SUFFICES ASSUME NEW k \in Run, ActiveRun(k)' PROVE ActiveRun(k) /\ MailingOf(k) # MailingOf(n)
    OBVIOUS
  <2>1. k # n /\ ActiveRun(k)
    BY DEF ActiveRun
  <2> QED
    BY <2>1, ActiveIsLatest DEF MailingInv
<1>5. \A k \in Run : LatestRun(k) /\ MailingOf(k) = MailingOf(n) => k = n
  BY LatestIsUnique DEF MailingInv, RunsInv
<1>6. mailing \in [Mailing -> MailingStatus] /\ \A k \in Run : MailingOf(k) \in Mailing
  BY Keys DEF MailingInv, Inv, TypeOK
<1>7. \A k \in Run : LatestRun(k)' =>
          mailing'[MailingOf(k)] = IF run'[k].status = "cancelled" THEN "stopped" ELSE run'[k].status
  <2> SUFFICES ASSUME NEW k \in Run, LatestRun(k)
               PROVE  mailing'[MailingOf(k)] =
                          IF run'[k].status = "cancelled" THEN "stopped" ELSE run'[k].status
    BY <1>3
  <2>1. CASE k = n
    BY <1>6, <2>1
  <2>2. CASE k # n
    BY <1>5, <1>6, <2>2 DEF MailingInv, RunsInv
  <2> QED
    BY <2>1, <2>2
<1>8. \A k \in Run : mailing'[MailingOf(k)] = "draft" => run'[k].status = "none"
  BY <1>1, <1>6 DEF MailingInv, RunsInv
<1>9. RunsInv'
  <2>1. \A k \in Run, j \in RunNumber :
            run'[k].status # "none" /\ j < k[2] => run'[<<MailingOf(k), j>>].status # "none"
    BY <1>1, <1>2 DEF MailingInv, RunsInv
  <2>2. \A k \in Run : ActiveRun(k)' => LatestRun(k)'
    BY <1>3, <1>4 DEF MailingInv, RunsInv
  <2> QED
    BY <1>7, <1>8, <2>1, <2>2 DEF RunsInv
<1>10. \A k \in Run : MailingOf(k) # MailingOf(n) /\ ActiveRun(k) => ActiveRun(k)'
  BY DEF ActiveRun
<1> QED
  BY <1>4, <1>9, <1>10

\* Queue keeps the invariant: the new run is the latest, over settled outcomes.
LEMMA QueueMailingInv ==
    ASSUME MailingInv, Inv', NEW m \in Mailing, Queue(m)
    PROVE  MailingInv'
<1>1. PICK n \in Run :
          /\ MailingOf(n) = m /\ run[n].status = "none"
          /\ \A k \in RunNumber : k < n[2] => run[<<m, k>>].status # "none"
          /\ \A k \in Run : MailingOf(k) = m /\ run[k].status # "none" =>
                k[2] < n[2] /\ ~ActiveRun(k)
          /\ \A d \in Delivery : MailingOf(RunOf(d)) = m =>
                delivery[d].status \in {"none", "sent", "failed", "skipped"}
          /\ \A d \in Delivery : RunOf(d) = n => delivery[d].status = "none"
          /\ run' = [run EXCEPT ![n] = [status |-> "queued", generation |-> 1]]
          /\ delivery' = [d \in Delivery |->
                IF RunOf(d) = n /\ d[2] \in Eligible(m) THEN NewRow ELSE delivery[d]]
  BY QueueFacts
<1>2. /\ UNCHANGED <<stopping, captured>> /\ m \notin stopping
      /\ mailing' = [mailing EXCEPT ![m] = "queued"]
      /\ mailing \in [Mailing -> MailingStatus]
  BY DEF Queue, MailingInv, Inv, TypeOK
<1>3. /\ run'[n].status = "queued" /\ \A k \in Run : k # n => run'[k] = run[k]
      /\ \A k \in Run : MailingOf(k) = m /\ ActiveRun(k)' => k = n
  BY <1>1 DEF MailingInv, Inv, TypeOK, ActiveRun
<1>4. /\ NewRow.status = "pending"
      /\ \A d \in Delivery : RunOf(d) # n => delivery'[d] = delivery[d]
      /\ \A d \in Delivery : delivery'[d] \in {delivery[d], NewRow}
  BY <1>1 DEF NewRow, NoRow
<1>5. \A k \in Run, j \in RunNumber : <<MailingOf(k), j>> \in Run /\ MailingOf(k) \in Mailing
  BY Keys DEF Run
<1>6. \A k \in Run : /\ MailingOf(<<MailingOf(k), k[2]>>) = MailingOf(k) /\ <<MailingOf(k), k[2]>> = k
                     /\ k[2] \in RunNumber /\ k[2] \in Nat
  BY Keys DEF RunNumber
<1>7. RunsInv'
  <2>1. ASSUME NEW k \in Run, NEW j \in RunNumber, run'[k].status # "none", j < k[2]
        PROVE  run'[<<MailingOf(k), j>>].status # "none"
    <3>1. run[<<MailingOf(k), j>>].status # "none"
      BY <1>1, <1>3, <2>1 DEF MailingInv, RunsInv
    <3> QED
      BY <1>3, <1>5, <3>1
  <2>2. LatestRun(n)'
    <3> SUFFICES ASSUME NEW j \in RunNumber, j > n[2]
                 PROVE  run'[<<m, j>>].status = "none"
      BY <1>1, <1>3 DEF LatestRun
    <3>1. <<m, j>> \in Run /\ MailingOf(<<m, j>>) = m /\ <<m, j>>[2] = j /\ j \in Nat /\ n[2] \in Nat
      BY <1>6 DEF Run, RunNumber, MailingOf
    <3>2. ~(j < n[2])
      BY <3>1
    <3>3. run[<<m, j>>].status = "none" /\ <<m, j>> # n
      BY <1>1, <3>1, <3>2
    <3> QED
      BY <1>3, <3>1, <3>3
  <2>3. \A k \in Run : MailingOf(k) # m => (LatestRun(k)' <=> LatestRun(k))
    <3> SUFFICES ASSUME NEW k \in Run, MailingOf(k) # m
                 PROVE  LatestRun(k)' <=> LatestRun(k)
      OBVIOUS
    <3>1. k # n /\ \A j \in RunNumber : <<MailingOf(k), j>> \in Run /\ <<MailingOf(k), j>> # n
      BY <1>1, <1>5 DEF MailingOf
    <3> QED
      BY <1>3, <3>1 DEF LatestRun
  <2>4. ASSUME NEW k \in Run, LatestRun(k)', MailingOf(k) = m
        PROVE  k = n
    <3> SUFFICES ASSUME k # n PROVE FALSE
      OBVIOUS
    <3>1. run[k].status # "none" /\ k[2] < n[2]
      BY <1>1, <1>3, <2>4 DEF LatestRun
    <3>2. n = <<m, n[2]>> /\ n[2] \in RunNumber /\ n[2] > k[2]
      BY <1>1, <1>6, <3>1
    <3> QED
      BY <1>3, <2>4, <3>2 DEF LatestRun
  <2>5. \A k \in Run : ActiveRun(k)' => LatestRun(k)'
    <3> SUFFICES ASSUME NEW k \in Run, ActiveRun(k)' PROVE LatestRun(k)'
      OBVIOUS
    <3>1. CASE MailingOf(k) = m
      BY <1>3, <2>2, <3>1
    <3>2. CASE MailingOf(k) # m
      BY <1>1, <1>3, <2>3, <3>2 DEF MailingInv, RunsInv, ActiveRun
    <3> QED
      BY <3>1, <3>2
  <2>6. \A k \in Run : LatestRun(k)' =>
          mailing'[MailingOf(k)] = IF run'[k].status = "cancelled" THEN "stopped" ELSE run'[k].status
    <3> SUFFICES ASSUME NEW k \in Run, LatestRun(k)'
                 PROVE  mailing'[MailingOf(k)] =
                          IF run'[k].status = "cancelled" THEN "stopped" ELSE run'[k].status
      OBVIOUS
    <3>1. CASE MailingOf(k) = m
      BY <1>2, <1>3, <2>4, <3>1
    <3>2. CASE MailingOf(k) # m
      BY <1>1, <1>2, <1>3, <1>5, <2>3, <3>2 DEF MailingInv, RunsInv
    <3> QED
      BY <3>1, <3>2
  <2>7. \A k \in Run : mailing'[MailingOf(k)] = "draft" => run'[k].status = "none"
    BY <1>1, <1>2, <1>3, <1>5 DEF MailingInv, RunsInv
  <2> QED
    BY <2>1, <2>5, <2>6, <2>7 DEF RunsInv
<1>8. StopInv'
  <2>1. \A k \in stopping' : \E j \in Run : MailingOf(j) = k /\ ActiveRun(j)'
    BY <1>1, <1>2, <1>3 DEF MailingInv, StopInv, ActiveRun
  <2>2. \A d \in captured' : MailingOf(RunOf(d)) \in stopping' /\ ActiveRun(RunOf(d))'
    BY <1>1, <1>2, <1>3, Keys DEF MailingInv, Inv, TypeOK, StopInv, ActiveRun
  <2>3. ASSUME NEW d \in Delivery, delivery'[d].status = "pending"
        PROVE  /\ run'[RunOf(d)].status = "cancelled" => Leftover(d)'
               /\ MailingOf(RunOf(d)) \in stopping' /\ d \notin captured' => Leftover(d)'
    <3>1. CASE RunOf(d) = n
      BY <1>1, <1>2, <1>3, <3>1
    <3>2. CASE RunOf(d) # n
      BY <1>2, <1>3, <1>4, <2>3, <3>2, Keys DEF MailingInv, StopInv, Leftover
    <3> QED
      BY <3>1, <3>2
  <2> QED
    BY <2>1, <2>2, <2>3 DEF StopInv
<1>9. SettledInv'
  <2>1. ASSUME NEW d \in Delivery
        PROVE  /\ delivery'[d].status = "skipped" => run'[RunOf(d)].status = "cancelled"
               /\ run'[RunOf(d)].status = "completed" => delivery'[d].status \in {"none", "sent"}
               /\ run'[RunOf(d)].status = "failed" => delivery'[d].status \in {"none"} \cup Terminal
    <3>1. CASE RunOf(d) = n
      BY <1>1, <1>3, <1>4, <3>1
    <3>2. CASE RunOf(d) # n
      BY <1>3, <1>4, <3>2, Keys DEF MailingInv, SettledInv, FinishedRunsAreSettled
    <3> QED
      BY <3>1, <3>2
  <2>2. ASSUME NEW k \in Run, ActiveRun(k)', NEW d \in Delivery,
               MailingOf(RunOf(d)) = MailingOf(k), RunOf(d)[2] < k[2]
        PROVE  delivery'[d].status \in {"none", "sent", "failed", "skipped"}
    <3>1. CASE k = n
      <4>1. n[2] \in Nat /\ RunOf(d)[2] < n[2]
        BY <1>6, <2>2, <3>1
      <4>2. RunOf(d) # n
        BY <4>1
      <4> QED
        BY <1>1, <1>4, <2>2, <3>1, <4>2
    <3>2. CASE k # n
      <4>1. MailingOf(k) # m /\ ActiveRun(k)
        BY <1>3, <2>2, <3>2 DEF ActiveRun
      <4>2. RunOf(d) # n
        BY <1>1, <2>2, <4>1
      <4> QED
        BY <1>4, <2>2, <4>1, <4>2 DEF MailingInv, SettledInv, EarlierRunsAreSettled
    <3> QED
      BY <3>1, <3>2
  <2> QED
    BY <2>1, <2>2 DEF SettledInv, FinishedRunsAreSettled, EarlierRunsAreSettled
<1> QED
  BY <1>7, <1>8, <1>9 DEF MailingInv

\* Stop captures what is pending under the active run, the only one that is active.
LEMMA StopBeginMailingInv ==
    ASSUME MailingInv, Inv', NEW m \in Mailing, StopBegin(m)
    PROVE  MailingInv'
<1>1. PICK n \in Run :
          /\ MailingOf(n) = m /\ ActiveRun(n)
          /\ captured' = captured \cup {d \in DeliveriesOf(n) : delivery[d].status = "pending"}
  BY DEF StopBegin
<1>2. UNCHANGED <<mailing, run, delivery>> /\ stopping' = stopping \cup {m}
  BY DEF StopBegin
<1>3. RunsInv'
  BY <1>2 DEF MailingInv, RunsInv, ActiveRun, LatestRun
<1>4. SettledInv'
  BY <1>2 DEF MailingInv, SettledInv, FinishedRunsAreSettled, EarlierRunsAreSettled, ActiveRun
<1>5. StopInv'
  <2>1. \A k \in stopping' : \E j \in Run : MailingOf(j) = k /\ ActiveRun(j)'
    BY <1>1, <1>2 DEF MailingInv, StopInv, ActiveRun
  <2>2. \A d \in captured' : MailingOf(RunOf(d)) \in stopping' /\ ActiveRun(RunOf(d))'
    BY <1>1, <1>2 DEF MailingInv, StopInv, ActiveRun, DeliveriesOf
  <2>3. ASSUME NEW d \in Delivery, delivery[d].status = "pending", MailingOf(RunOf(d)) = m,
               d \notin captured'
        PROVE  Leftover(d)
    <3>1. RunOf(d) # n
      BY <1>1, <2>3 DEF DeliveriesOf
    <3>2. ~ActiveRun(RunOf(d))
      BY <1>1, <2>3, <3>1, ActiveIsLatest, Keys DEF MailingInv
    <3>3. run[RunOf(d)].status \in RunStatus /\ run[RunOf(d)].status # "none"
      BY <2>3, Keys DEF MailingInv, Inv, TypeOK, RowInv
    <3>4. run[RunOf(d)].status = "cancelled"
      BY <2>3, <3>2, <3>3 DEF MailingInv, SettledInv, FinishedRunsAreSettled, ActiveRun,
                              RunStatus, Terminal
    <3> QED
      BY <2>3, <3>4 DEF MailingInv, StopInv
  <2>4. ASSUME NEW d \in Delivery, delivery'[d].status = "pending"
        PROVE  /\ run'[RunOf(d)].status = "cancelled" => Leftover(d)'
               /\ MailingOf(RunOf(d)) \in stopping' /\ d \notin captured' => Leftover(d)'
    BY <1>1, <1>2, <2>3, <2>4 DEF MailingInv, StopInv, Leftover
  <2> QED
    BY <2>1, <2>2, <2>4 DEF StopInv
<1> QED
  BY <1>3, <1>4, <1>5 DEF MailingInv

\* A Stop that rolls back releases what it captured.
LEMMA StopAbortMailingInv ==
    ASSUME MailingInv, Inv', NEW m \in Mailing, StopAbort(m)
    PROVE  MailingInv'
<1>1. /\ UNCHANGED <<mailing, run, delivery>> /\ stopping' = stopping \ {m}
      /\ captured' = captured \ Captured(m)
  BY DEF StopAbort
<1>2. RunsInv'
  BY <1>1 DEF MailingInv, RunsInv, ActiveRun, LatestRun
<1>3. SettledInv'
  BY <1>1 DEF MailingInv, SettledInv, FinishedRunsAreSettled, EarlierRunsAreSettled, ActiveRun
<1>4. StopInv'
  BY <1>1 DEF MailingInv, StopInv, ActiveRun, Captured, Leftover
<1> QED
  BY <1>2, <1>3, <1>4 DEF MailingInv

\* A Stop that commits cancels the active run; what it leaves pending was tried.
LEMMA StopCommitMailingInv ==
    ASSUME MailingInv, Inv', NEW m \in Mailing, StopCommit(m)
    PROVE  MailingInv'
<1>1. PICK n \in Run : MailingOf(n) = m /\ ActiveRun(n)
  BY DEF StopCommit, MailingInv, StopInv
<1>2. \A k \in Run : MailingOf(k) = m /\ ActiveRun(k) => k = n
  BY <1>1, ActiveIsLatest DEF MailingInv
<1>3. /\ run'[n].status = "cancelled" /\ \A k \in Run : k # n => run'[k] = run[k]
      /\ mailing' = [mailing EXCEPT ![m] = "stopped"]
      /\ stopping' = stopping \ {m} /\ captured' = captured \ Captured(m)
      /\ \A d \in Delivery : d \notin Captured(m) => delivery'[d] = delivery[d]
      /\ \A d \in Delivery : d \in Captured(m) => delivery'[d].status \in {"skipped", "unknown"}
  <2>1. \A k \in Run : MailingOf(k) = m /\ ActiveRun(k) <=> k = n
    BY <1>1, <1>2
  <2>2. \A d \in Delivery : Stopped(delivery[d]).status \in {"skipped", "unknown"}
    BY DEF MailingInv, Inv, TypeOK, DeliveryRow, Stopped, Unleased
  <2> QED
    BY <2>1, <2>2 DEF StopCommit
<1>4. /\ RunsInv'
      /\ \A k \in Run : ActiveRun(k)' => ActiveRun(k) /\ MailingOf(k) # m
      /\ \A k \in Run : MailingOf(k) # m /\ ActiveRun(k) => ActiveRun(k)'
  BY <1>1, <1>3, EndRun
<1>5. \A d \in Captured(m) : d \in captured /\ d \in Delivery /\ MailingOf(RunOf(d)) = m /\ RunOf(d) = n
  BY <1>2, Keys DEF Captured, MailingInv, StopInv, Inv, TypeOK
<1>6. StopInv'
  <2>1. \A k \in stopping' : \E j \in Run : MailingOf(j) = k /\ ActiveRun(j)'
    BY <1>3, <1>4 DEF MailingInv, StopInv
  <2>2. \A d \in captured' : MailingOf(RunOf(d)) \in stopping' /\ ActiveRun(RunOf(d))'
    BY <1>3, <1>4, Keys DEF MailingInv, StopInv, Captured, Inv, TypeOK
  <2>3. ASSUME NEW d \in Delivery, delivery'[d].status = "pending"
        PROVE  /\ run'[RunOf(d)].status = "cancelled" => Leftover(d)'
               /\ MailingOf(RunOf(d)) \in stopping' /\ d \notin captured' => Leftover(d)'
    <3>1. d \notin Captured(m) /\ delivery'[d] = delivery[d] /\ delivery[d].status = "pending"
      BY <1>3, <2>3
    <3>2. RunOf(d) = n => Leftover(d)
      BY <1>1, <3>1 DEF MailingInv, StopInv, Captured, StopCommit
    <3>3. run'[RunOf(d)].status = "cancelled" => Leftover(d)
      BY <1>3, <3>1, <3>2, Keys DEF MailingInv, StopInv
    <3>4. MailingOf(RunOf(d)) \in stopping' /\ d \notin captured' => Leftover(d)
      BY <1>3, <3>1 DEF MailingInv, StopInv
    <3> QED
      BY <3>1, <3>3, <3>4 DEF Leftover
  <2> QED
    BY <2>1, <2>2, <2>3 DEF StopInv
<1>7. SettledInv'
  <2>1. ASSUME NEW d \in Delivery
        PROVE  /\ delivery'[d].status = "skipped" => run'[RunOf(d)].status = "cancelled"
               /\ run'[RunOf(d)].status = "completed" => delivery'[d].status \in {"none", "sent"}
               /\ run'[RunOf(d)].status = "failed" => delivery'[d].status \in {"none"} \cup Terminal
    BY <1>3, <1>5, Keys DEF MailingInv, SettledInv, FinishedRunsAreSettled
  <2>2. ASSUME NEW k \in Run, ActiveRun(k)', NEW d \in Delivery,
               MailingOf(RunOf(d)) = MailingOf(k), RunOf(d)[2] < k[2]
        PROVE  delivery'[d].status \in {"none", "sent", "failed", "skipped"}
    <3>1. ActiveRun(k) /\ MailingOf(k) # m
      BY <1>4, <2>2
    <3>2. delivery'[d] = delivery[d]
      BY <1>3, <1>5, <2>2, <3>1
    <3> QED
      BY <2>2, <3>1, <3>2 DEF MailingInv, SettledInv, EarlierRunsAreSettled
  <2> QED
    BY <2>1, <2>2 DEF SettledInv, FinishedRunsAreSettled, EarlierRunsAreSettled
<1> QED
  BY <1>4, <1>6, <1>7 DEF MailingInv

\* The status that a finished run takes.
LEMMA FinishedStatus ==
    ASSUME MailingInv, NEW n \in Run, ActiveRun(n), AllTerminal(n)
    PROVE  /\ TerminalRunStatus(n) \in {"completed", "failed"}
           /\ \A d \in Delivery : RunOf(d) = n =>
                 /\ delivery[d].status \in {"none"} \cup Terminal
                 /\ TerminalRunStatus(n) = "completed" => delivery[d].status \in {"none", "sent"}
<1>1. \A d \in Delivery : RunOf(d) = n => delivery[d].status \in {"none"} \cup Terminal
  BY DEF AllTerminal, DeliveriesOf
<1>2. \A d \in Delivery : RunOf(d) = n => delivery[d].status # "skipped"
  BY DEF MailingInv, SettledInv, ActiveRun
<1>3. TerminalRunStatus(n) = "completed" =>
          \A d \in Delivery : RunOf(d) = n => delivery[d].status \notin {"failed", "unknown"}
  BY DEF TerminalRunStatus, DeliveriesOf
<1> QED
  BY <1>1, <1>2, <1>3 DEF TerminalRunStatus, Terminal

\* Reconciliation finishes an active run over settled outcomes only.
LEMMA ReconcileMailingInv ==
    ASSUME MailingInv, Inv', NEW c \in candidates, ReconcileCandidate(c), StillFinished(c)
    PROVE  MailingInv'
<1> DEFINE n == c[1]  m == MailingOf(n)
<1>1. /\ n \in Run /\ ActiveRun(n) /\ AllTerminal(n) /\ m \notin stopping
      /\ run' = [run EXCEPT ![n].status = TerminalRunStatus(n)]
      /\ mailing' = [mailing EXCEPT ![m] = TerminalRunStatus(n)]
      /\ UNCHANGED <<delivery, stopping, captured>>
  BY DEF ReconcileCandidate, StillFinished, ActivePair, ActiveRun, MailingInv, Inv, TypeOK
<1>2. /\ TerminalRunStatus(n) \in {"completed", "failed"}
      /\ \A d \in Delivery : RunOf(d) = n =>
            /\ delivery[d].status \in {"none"} \cup Terminal
            /\ TerminalRunStatus(n) = "completed" => delivery[d].status \in {"none", "sent"}
  BY <1>1, FinishedStatus
<1>3. /\ run'[n].status = TerminalRunStatus(n)
      /\ \A k \in Run : k # n => run'[k] = run[k]
  BY <1>1 DEF MailingInv, Inv, TypeOK
<1> HIDE DEF n, m
<1>4. /\ RunsInv'
      /\ \A k \in Run : ActiveRun(k)' => ActiveRun(k) /\ MailingOf(k) # MailingOf(n)
      /\ \A k \in Run : MailingOf(k) # MailingOf(n) /\ ActiveRun(k) => ActiveRun(k)'
  <2>1. /\ \A k \in Run : run'[k].status # run[k].status => k = n
        /\ run'[n].status \in {"completed", "cancelled", "failed"}
        /\ mailing' = [mailing EXCEPT ![MailingOf(n)] =
               IF run'[n].status = "cancelled" THEN "stopped" ELSE run'[n].status]
    BY <1>1, <1>2, <1>3 DEF m
  <2> QED
    BY <1>1, <2>1, EndRun
<1>5. StopInv'
  <2>1. \A k \in stopping' : \E j \in Run : MailingOf(j) = k /\ ActiveRun(j)'
    BY <1>1, <1>4 DEF MailingInv, StopInv, m
  <2>2. \A d \in captured' : MailingOf(RunOf(d)) \in stopping' /\ ActiveRun(RunOf(d))'
    BY <1>1, <1>4, Keys DEF MailingInv, StopInv, Inv, TypeOK, m
  <2>3. \A d \in Delivery : run'[RunOf(d)].status = "cancelled" => run[RunOf(d)].status = "cancelled"
    BY <1>2, <1>3, Keys
  <2> QED
    BY <1>1, <2>1, <2>2, <2>3 DEF MailingInv, StopInv, Leftover
<1>6. SettledInv'
  <2>1. ASSUME NEW d \in Delivery
        PROVE  /\ delivery'[d].status = "skipped" => run'[RunOf(d)].status = "cancelled"
               /\ run'[RunOf(d)].status = "completed" => delivery'[d].status \in {"none", "sent"}
               /\ run'[RunOf(d)].status = "failed" => delivery'[d].status \in {"none"} \cup Terminal
    <3>1. CASE RunOf(d) = n
      BY <1>1, <1>2, <1>3, <3>1 DEF MailingInv, SettledInv, ActiveRun
    <3>2. CASE RunOf(d) # n
      BY <1>1, <1>3, <3>2, Keys DEF MailingInv, SettledInv, FinishedRunsAreSettled
    <3> QED
      BY <3>1, <3>2
  <2>2. EarlierRunsAreSettled'
    BY <1>1, <1>4 DEF MailingInv, SettledInv, EarlierRunsAreSettled
  <2> QED
    BY <2>1, <2>2 DEF SettledInv, FinishedRunsAreSettled
<1> QED
  BY <1>4, <1>5, <1>6 DEF MailingInv

-----------------------------------------------------------------------------
(* Every step keeps the invariant.                                         *)

\* Every step keeps the invariant of the mailings and their runs.
LEMMA NextMailingInv == MailingInv /\ [Next]_vars => MailingInv'
<1> SUFFICES ASSUME MailingInv, [Next]_vars
             PROVE  MailingInv'
  OBVIOUS
<1>1. Inv'
  BY NextInv DEF MailingInv
<1>2. ASSUME NEW t \in Token, Execution(t)
      PROVE  MailingInv'
  BY <1>1, <1>2, ExecutionMoves, QuietStep
<1>3. ASSUME NEW m \in Mailing, Command(m)
      PROVE  MailingInv'
  BY <1>1, <1>3, QueueMailingInv, StopBeginMailingInv, StopCommitMailingInv, StopAbortMailingInv
  DEF Command
<1>4. ASSUME NEW d \in Delivery, Reap(d) \/ LeaseElapses(d) \/ BecomeReady(d)
      PROVE  MailingInv'
  BY <1>1, <1>4, TimeMoves, QuietStep
<1>5. CASE ReconcileScan \/ ReconcileAbandon \/ AccountChange \/ UNCHANGED vars
  <2>1. UNCHANGED <<mailing, run, delivery, stopping, captured>>
    BY <1>5 DEF ReconcileScan, ReconcileAbandon, AccountChange, vars
  <2> QED
    BY <1>1, <2>1, QuietStep
<1>6. ASSUME NEW c \in candidates, ReconcileCandidate(c)
      PROVE  MailingInv'
  <2>1. CASE StillFinished(c)
    BY <1>1, <1>6, <2>1, ReconcileMailingInv
  <2>2. CASE ~StillFinished(c)
    <3>1. UNCHANGED <<mailing, run, delivery, stopping, captured>>
      BY <1>6, <2>2 DEF ReconcileCandidate
    <3> QED
      BY <1>1, <3>1, QuietStep
  <2> QED
    BY <2>1, <2>2
<1> QED
  BY <1>2, <1>3, <1>4, <1>5, <1>6 DEF Next, Background

\* The inductive invariant holds in every reachable state.
THEOREM MailingInvCorrect == Spec => []MailingInv
  BY InitMailingInv, NextMailingInv, PTL DEF Spec

\* A mailing has at most one active run, the latest, and shows its status: what
\* uq_mailing_runs_active and mailing_run_status_contradiction look for.
THEOREM MailingsAgreeWithRuns == Spec => []MailingAgreesWithRuns
<1>1. MailingInv => MailingAgreesWithRuns
  <2> SUFFICES ASSUME MailingInv PROVE MailingAgreesWithRuns
    OBVIOUS
  <2>1. \A n, k \in Run : ActiveRun(n) /\ ActiveRun(k) /\ MailingOf(n) = MailingOf(k) => n = k
    BY ActiveIsLatest DEF MailingInv
  <2>2. ASSUME NEW n \in Run, LatestRun(n)
        PROVE  LET status == mailing[MailingOf(n)] IN
               /\ status # "draft"
               /\ status \in {"queued", "running", "completed", "failed"} => run[n].status = status
               /\ status = "stopped" => run[n].status = "cancelled"
               /\ status = "paused" => ActiveRun(n)
    <3>1. run[n].status \in RunStatus /\ run[n].status # "none"
      BY <2>2 DEF MailingInv, Inv, TypeOK, LatestRun
    <3>2. mailing[MailingOf(n)] = IF run[n].status = "cancelled" THEN "stopped" ELSE run[n].status
      BY <2>2 DEF MailingInv, RunsInv
    <3> QED
      BY <3>1, <3>2 DEF RunStatus
  <2> QED
    BY <2>1, <2>2 DEF MailingAgreesWithRuns
<1> QED
  BY <1>1, MailingInvCorrect, PTL

\* While a run is active nothing of the earlier runs of its mailing is open: Queue
\* starts it over settled outcomes and no late step reopens one.
THEOREM EarlierRunsStaySettled == Spec => []EarlierRunsAreSettled
<1>1. MailingInv => EarlierRunsAreSettled
  BY DEF MailingInv, SettledInv
<1> QED
  BY <1>1, MailingInvCorrect, PTL

\* A completed run has sent everything, and a failed one has nothing open.
THEOREM FinishedRunsStaySettled == Spec => []FinishedRunsAreSettled
<1>1. MailingInv => FinishedRunsAreSettled
  BY DEF MailingInv, SettledInv
<1> QED
  BY <1>1, MailingInvCorrect, PTL

\* The operational checks report an open send or what a reaper put back under a
\* stopped run, and nothing that the program wrote by itself.
THEOREM AlarmsExplained == Spec => []AlarmsComeFromSends
<1>1. MailingInv /\ MailingAgreesWithRuns => AlarmsComeFromSends
  <2> SUFFICES ASSUME MailingInv, MailingAgreesWithRuns,
                      \A d \in Delivery : delivery[d].status # "sending",
                      \A d \in CancelledRunWithClaimableDelivery : ~(delivery[d].attempts > 0)
               PROVE  ~HasViolations
    BY DEF AlarmsComeFromSends
  <2>1. \A d \in Delivery : delivery[d].attempts \in Nat
    BY DEF MailingInv, Inv, TypeOK, DeliveryRow
  <2>2. ASSUME NEW d \in Delivery, Claimable(d)
        PROVE  run[RunOf(d)].status # "cancelled"
    BY <2>1, <2>2 DEF MailingInv, StopInv, Leftover, Claimable, CancelledRunWithClaimableDelivery,
                      RunStatusOf
  <2>3. ASSUME NEW d \in Delivery, Claimable(d)
        PROVE  mailing[MailingOf(RunOf(d))] # "stopped"
    <3>1. run[RunOf(d)].status \in RunStatus /\ run[RunOf(d)].status # "none"
      BY <2>3, Keys DEF MailingInv, Inv, TypeOK, RowInv, Claimable
    <3>2. ActiveRun(RunOf(d))
      BY <2>2, <2>3, <3>1 DEF MailingInv, SettledInv, FinishedRunsAreSettled, Claimable, ActiveRun,
                              RunStatus, Terminal
    <3> QED
      BY <3>2, ActiveIsLatest, Keys DEF MailingInv, ActiveRun
  <2>4. MailingRunStatusContradiction = {}
    <3>1. \A n \in Run : mailing[MailingOf(n)] # "paused" \/ ~LatestRun(n)
      BY DEF MailingInv, RunsInv, Inv, TypeOK, RunStatus
    <3> QED
      BY <3>1 DEF MailingRunStatusContradiction, MailingAgreesWithRuns, ActiveRun
  <2>5. StoppedMailingWithClaimableDelivery = {} /\ CancelledRunWithClaimableDelivery = {}
    BY <2>2, <2>3 DEF StoppedMailingWithClaimableDelivery, CancelledRunWithClaimableDelivery,
                      MailingStatusOf, RunStatusOf
  <2>6. /\ SendingDeliveryWithoutLease = {} /\ ExpiredSendingLease = {}
        /\ SendingDeliveryWithStaleExecutionGeneration = {}
        /\ SendingDeliveryWithInactiveParent = {}
    BY DEF SendingDeliveryWithoutLease, ExpiredSendingLease,
           SendingDeliveryWithStaleExecutionGeneration, SendingDeliveryWithInactiveParent
  <2> QED
    BY <2>4, <2>5, <2>6 DEF HasViolations, Report
<1> QED
  BY <1>1, MailingInvCorrect, MailingsAgreeWithRuns, PTL

\* The admission UPDATE decides on a snapshot that may be older than a Stop, and
\* still no send is admitted once the Stop has committed.
THEOREM NothingAdmittedAfterStop == Spec => NoAdmissionAfterStop
<1>1. MailingInv /\ [Next]_vars =>
        [\A d \in Delivery :
            delivery[d].status = "pending" /\ delivery'[d].status = "sending" => ActivePair(RunOf(d))]_vars
  <2> SUFFICES ASSUME MailingInv, Next, NEW d \in Delivery,
                      delivery[d].status = "pending", delivery'[d].status = "sending"
               PROVE  ActivePair(RunOf(d))
    OBVIOUS
  <2>1. ASSUME Moves
        PROVE  ActivePair(RunOf(d))
    <3>1. RowMove(d)
      BY <2>1 DEF Moves
    <3>2. ActiveRun(RunOf(d))
      BY <3>1 DEF RowMove
    <3> QED
      BY <3>2, ActiveIsLatest, Keys DEF MailingInv
  <2>2. ASSUME NEW m \in Mailing, Command(m)
        PROVE  FALSE
    <3>1. \A c \in Delivery : NewRow.status # "sending" /\ Stopped(delivery[c]).status # "sending"
      BY DEF MailingInv, Inv, TypeOK, DeliveryRow, NewRow, NoRow, Stopped, Unleased
    <3> QED
      BY <2>2, <3>1 DEF Command, Queue, StopBegin, StopCommit, StopAbort
  <2> QED
    BY <2>1, <2>2, ExecutionMoves, TimeMoves
    DEF Next, Background, ReconcileScan, ReconcileCandidate, ReconcileAbandon, AccountChange
<1> QED
  BY <1>1, MailingInvCorrect, PTL DEF Spec, NoAdmissionAfterStop

\* A claim whose lease is in the future is taken from its execution only by that
\* execution, by a Stop that has captured it, or by a proof of success.
THEOREM LiveLeasesAreExclusive == Spec => LiveLeaseIsExclusive
<1> DEFINE Excused(d) ==
      \/ exec[delivery[d].token].task = d /\ exec'[delivery[d].token] = Idle
      \/ delivery[d].status = "pending" /\ d \in captured
      \/ delivery'[d].status = "sent"
<1>1. Inv /\ [Next]_vars =>
        [\A d \in Delivery : delivery[d].token # NoToken /\ delivery[d].lease = "live"
                             /\ delivery'[d].token # delivery[d].token => Excused(d)]_vars
  <2> SUFFICES ASSUME Inv, Next, NEW d \in Delivery, delivery[d].token # NoToken,
                      delivery[d].lease = "live", delivery'[d].token # delivery[d].token
               PROVE  Excused(d)
    OBVIOUS
  <2>1. /\ delivery \in [Delivery -> DeliveryRow] /\ exec \in [Token -> ExecRecord]
        /\ delivery[d].status # "none"
        /\ \A c \in captured : delivery[c].status = "pending"
    BY DEF Inv, TypeOK, RowInv, ParentInv
  <2>2. ASSUME NEW m \in Mailing, Command(m)
        PROVE  Excused(d)
    <3>1. CASE Queue(m)
      BY <2>1, <3>1 DEF Queue, IsNextRun, Inv, RowInv
    <3>2. CASE StopCommit(m)
      BY <2>1, <3>2 DEF StopCommit, Captured
    <3>3. CASE StopBegin(m) \/ StopAbort(m)
      BY <3>3 DEF StopBegin, StopAbort
    <3> QED
      BY <2>2, <3>1, <3>2, <3>3 DEF Command
  <2>3. ASSUME NEW t \in Token, Execution(t)
        PROVE  Excused(d)
    <3>1. CASE FinalizeNegative(t)
      <4>1. d = exec[t].task /\ delivery[d].token = t
        BY <2>1, <3>1 DEF FinalizeNegative, OwnsAttempt
      <4> QED
        BY <2>1, <3>1, <4>1 DEF FinalizeNegative
    <3>2. CASE FinalizeSuccess(t)
      <4>1. d = exec[t].task /\ delivery'[d] = Unleased(delivery[d], "sent")
        BY <2>1, <3>2 DEF FinalizeSuccess
      <4> QED
        BY <2>1, <4>1 DEF Unleased, DeliveryRow
    <3>3. CASE Release(t)
      <4>1. d = exec[t].task /\ delivery[d].token = t
        BY <2>1, <3>3 DEF Release
      <4> QED
        BY <2>1, <3>3, <4>1 DEF Release
    <3>4. CASE \E c \in Delivery : Claim(t, c)
      BY <2>1, <3>4 DEF Claim, Claimable
    <3>5. CASE AdmitApply(t)
      BY <2>1, <3>5 DEF AdmitApply, DeliveryRow
    <3> QED
      BY <2>3, <3>1, <3>2, <3>3, <3>4, <3>5 DEF Execution, Resolve, Renew, AdmitSnapshot,
          AdmitRefused, Interrupted, TelegramAccepts, SendReturns, SendCancelled, Crash
  <2>4. ASSUME Background
        PROVE  Excused(d)
    <3>1. ASSUME NEW c \in Delivery, Reap(c)
          PROVE  Excused(d)
      BY <2>1, <3>1 DEF Reap, Overdue
    <3>2. ASSUME NEW c \in Delivery, LeaseElapses(c) \/ BecomeReady(c)
          PROVE  delivery'[d].token = delivery[d].token
      BY <2>1, <3>2 DEF LeaseElapses, BecomeReady, DeliveryRow
    <3> QED
      BY <2>4, <3>1, <3>2 DEF Background, ReconcileScan, ReconcileCandidate, ReconcileAbandon
  <2> QED
    BY <2>2, <2>3, <2>4 DEF Next, AccountChange
<1> QED
  BY <1>1, InvCorrect, PTL DEF Spec, LiveLeaseIsExclusive

-----------------------------------------------------------------------------
(* What a Stop leaves pending, and what holds of successes that come late. *)

\* A run that exists and is not the active one of its mailing is an earlier one.
LEMMA ActiveIsLast ==
    ASSUME RunsInv, NEW n \in Run, ActiveRun(n), NEW k \in Run, MailingOf(k) = MailingOf(n),
           k # n, run[k].status # "none"
    PROVE  k[2] < n[2]
<1>1. /\ n[2] \in Nat /\ k[2] \in Nat /\ k[2] \in RunNumber
      /\ n = <<MailingOf(n), n[2]>> /\ k = <<MailingOf(n), k[2]>>
  BY Keys DEF RunNumber
<1>2. LatestRun(n)
  BY DEF RunsInv
<1>3. ~(k[2] > n[2])
  BY <1>1, <1>2 DEF LatestRun
<1> QED
  BY <1>1, <1>3

\* What a Stop has left pending was tried and is held by nobody, and its mailing
\* has no active run while it is there: Queue does not pass it by.
THEOREM LeftoversBlock == Spec => []LeftoversBlockTheirMailing
<1>1. MailingInv => LeftoversBlockTheirMailing
  <2> SUFFICES ASSUME MailingInv, NEW d \in Delivery, LeftPending(d)
               PROVE  /\ delivery[d].attempts >= 1 /\ delivery[d].token = NoToken
                      /\ \A n \in Run : MailingOf(n) = MailingOf(RunOf(d)) => ~ActiveRun(n)
    BY DEF LeftoversBlockTheirMailing
  <2>1. Leftover(d)
    BY DEF MailingInv, StopInv, LeftPending
  <2>2. ASSUME NEW n \in Run, MailingOf(n) = MailingOf(RunOf(d)), ActiveRun(n)
        PROVE  FALSE
    <3>1. RunOf(d) \in Run /\ RunOf(d) # n /\ run[RunOf(d)].status # "none"
      BY <2>2, Keys DEF LeftPending, ActiveRun
    <3>2. RunOf(d)[2] < n[2]
      BY <2>2, <3>1, ActiveIsLast DEF MailingInv
    <3> QED
      BY <2>2, <3>2 DEF MailingInv, SettledInv, EarlierRunsAreSettled, LeftPending
  <2> QED
    BY <2>1, <2>2 DEF Leftover
<1> QED
  BY <1>1, MailingInvCorrect, PTL

\* What a Stop has left pending stays as it is, attempts included, until the success
\* of a message that Telegram had accepted is recorded.
THEOREM LeftoversWait == Spec => LeftoversWaitForProof
<1> DEFINE Waits(d) ==
      \/ LeftPending(d)' /\ delivery'[d].attempts = delivery[d].attempts
      \/ delivery'[d].status = "sent" /\ d \in accepted
<1>1. MailingInv /\ [Next]_vars => [\A d \in Delivery : LeftPending(d) => Waits(d)]_vars
  <2> SUFFICES ASSUME MailingInv, Next, NEW d \in Delivery, LeftPending(d)
               PROVE  Waits(d)
    OBVIOUS
  <2>1. run'[RunOf(d)].status = "cancelled" /\ ~ActiveRun(RunOf(d))
    BY FinishedRunStep, Keys DEF MailingInv, Inv, LeftPending, ActiveRun
  <2>2. delivery'[d] = delivery[d] => Waits(d)
    BY <2>1 DEF LeftPending
  <2>3. CASE Moves
    <3>1. ASSUME RowMove(d), delivery'[d].status # "sent"
          PROVE  Waits(d)
      BY <2>1, <3>1 DEF RowMove, LeftPending
    <3>2. ASSUME delivery'[d].status = "sent"
          PROVE  Waits(d)
      <4>1. d \in accepted'
        BY <3>2, NextInv DEF MailingInv, Inv, RowInv
      <4>2. delivery' # delivery
        BY <3>2 DEF LeftPending
      <4>3. accepted' = accepted
        BY <4>2, Zenon DEF Next, Command, Queue, StopBegin, StopCommit, StopAbort, Execution, Claim,
            Resolve, Renew, AdmitSnapshot, AdmitApply, AdmitRefused, Interrupted, TelegramAccepts,
            SendReturns, SendCancelled, FinalizeNegative, FinalizeSuccess, Release, Crash,
            Background, Reap, LeaseElapses, BecomeReady, ReconcileScan, ReconcileCandidate,
            ReconcileAbandon, AccountChange
      <4> QED
        BY <3>2, <4>1, <4>3
    <3> QED
      BY <2>2, <2>3, <3>1, <3>2 DEF Moves
  <2>4. ASSUME NEW m \in Mailing, Command(m)
        PROVE  delivery'[d] = delivery[d]
    <3>1. CASE Queue(m)
      BY <3>1 DEF Queue, IsNextRun, LeftPending
    <3>2. CASE StopCommit(m)
      BY <2>1, <3>2 DEF StopCommit, Captured, MailingInv, StopInv
    <3> QED
      BY <2>4, <3>1, <3>2 DEF Command, StopBegin, StopAbort
  <2>5. ASSUME NEW t \in Token, Execution(t)
        PROVE  delivery' = delivery \/ Moves
    BY <2>5, ExecutionMoves
  <2>6. ASSUME Background
        PROVE  delivery' = delivery \/ Moves
    BY <2>6, TimeMoves DEF Background, ReconcileScan, ReconcileCandidate, ReconcileAbandon
  <2> QED
    BY <2>2, <2>3, <2>4, <2>5, <2>6 DEF Next, AccountChange
<1> QED
  BY <1>1, MailingInvCorrect, PTL DEF Spec, LeftoversWaitForProof

Successful == {"accepted", "succeeded"}

\* A delivery has one execution with a success to record, until it is recorded; and
\* it is failed by its last attempt, which an execution that still sends is not.
LateInv ==
    /\ \A t, u \in Token : exec[t].stage \in Successful /\ exec[u].stage \in Successful
                           /\ exec[t].task = exec[u].task => t = u
    /\ \A t \in Token : exec[t].stage \in Successful => delivery[exec[t].task].status # "sent"
    /\ \A t \in Token : exec[t].stage \in InSend /\ delivery[exec[t].task].status = "failed" =>
          exec[t].attempt < delivery[exec[t].task].attempts

\* An execution in a send came from one, with the same attempt, or is the one that
\* is admitted; a success is that of a message not accepted before.
LEMMA SendsMove ==
    ASSUME Inv, Next, NEW u \in Token, exec'[u].stage \in InSend
    PROVE  \/ /\ exec[u].stage \in InSend
              /\ exec'[u].task = exec[u].task /\ exec'[u].attempt = exec[u].attempt
              /\ exec'[u].stage \in Successful =>
                    \/ exec[u].stage \in Successful
                    \/ /\ exec[u].task \notin accepted /\ delivery' = delivery
                       /\ \A v \in Token \ {u} : exec'[v] = exec[v]
           \/ /\ exec'[u].stage = "sending" /\ exec'[u].task \in Delivery
              /\ delivery'[exec'[u].task].status = "sending"
<1>0. exec \in [Token -> ExecRecord] /\ delivery \in [Delivery -> DeliveryRow]
  BY DEF Inv, TypeOK
<1>1. CASE exec'[u] = exec[u]
  BY <1>1
<1>2. ASSUME NEW t \in Token, Execution(t), exec'[u] # exec[u]
      PROVE  t = u
  BY <1>0, <1>2 DEF Execution, Claim, Resolve, Renew, AdmitSnapshot, AdmitApply, AdmitRefused,
      Interrupted, TelegramAccepts, SendReturns, SendCancelled, FinalizeNegative, FinalizeSuccess,
      Release, Crash, MoveTo
<1>3. ASSUME Execution(u)
      PROVE  \/ AdmitApply(u) \/ TelegramAccepts(u)
             \/ \E result \in {"succeeded", "permanent", "retryable", "unknown"} : SendReturns(u, result)
  <2>1. ASSUME NEW d \in Delivery, Claim(u, d)
        PROVE  FALSE
    BY <1>0, <2>1 DEF Claim, InSend
  <2>2. ASSUME NEW stage, MoveTo(u, stage)
        PROVE  exec'[u].stage = stage
    BY <1>0, <2>2 DEF MoveTo, ExecRecord
  <2>3. ~Resolve(u) /\ ~Renew(u) /\ ~AdmitRefused(u) /\ ~Interrupted(u)
    BY <2>2 DEF Resolve, Renew, AdmitRefused, Interrupted, InSend
  <2>4. ~AdmitSnapshot(u)
    BY <1>0 DEF AdmitSnapshot, InSend, ExecRecord
  <2>5. exec' # [exec EXCEPT ![u] = Idle]
    BY <1>0 DEF Idle, InSend
  <2> QED
    BY <1>3, <2>1, <2>3, <2>4, <2>5
    DEF Execution, SendCancelled, FinalizeNegative, FinalizeSuccess, Release, Crash
<1>4. CASE AdmitApply(u)
  <2>1. PICK d \in Delivery : d = exec[u].task
    BY <1>4 DEF AdmitApply, Inv, TypeOK, ExecRecord
  <2>2. delivery'[d].status = "sending"
    BY <1>0, <1>4, <2>1 DEF AdmitApply, DeliveryRow
  <2>3. exec'[u].stage = "sending" /\ exec'[u].task = d
    BY <1>0, <1>4, <2>1 DEF AdmitApply, ExecRecord
  <2> QED
    BY <2>2, <2>3
<1>5. ASSUME NEW stage, MoveTo(u, stage)
      PROVE  /\ exec'[u].stage = stage
             /\ exec'[u].task = exec[u].task /\ exec'[u].attempt = exec[u].attempt
             /\ \A v \in Token \ {u} : exec'[v] = exec[v]
  BY <1>0, <1>5 DEF MoveTo, ExecRecord
<1>6. CASE TelegramAccepts(u)
  BY <1>5, <1>6 DEF TelegramAccepts, InSend, Successful
<1>7. ASSUME NEW result \in {"succeeded", "permanent", "retryable", "unknown"}, SendReturns(u, result)
      PROVE  /\ exec[u].stage \in InSend
             /\ exec'[u].task = exec[u].task /\ exec'[u].attempt = exec[u].attempt
             /\ exec'[u].stage \in Successful => exec[u].stage \in Successful
  BY <1>5, <1>7 DEF SendReturns, InSend, Successful
<1>8. CASE exec' = exec
  BY <1>1, <1>8
<1> QED
  <2>1. ASSUME NEW m \in Mailing, Command(m)
        PROVE  exec' = exec
    BY <2>1 DEF Command, Queue, StopBegin, StopCommit, StopAbort
  <2>2. Background \/ AccountChange => exec' = exec
    BY DEF Background, Reap, LeaseElapses, BecomeReady, ReconcileScan, ReconcileCandidate,
           ReconcileAbandon, AccountChange
  <2> QED
    BY <1>1, <1>2, <1>3, <1>4, <1>6, <1>7, <1>8, <2>1, <2>2 DEF Next

\* A row is failed by the execution that owns its attempt, and sent by one with a
\* success to record; either of them ends with it.
LEMMA OutcomesAreWritten ==
    ASSUME Inv, Next, NEW d \in Delivery, delivery'[d].status # delivery[d].status
    PROVE  /\ delivery'[d].status = "failed" =>
                 /\ delivery'[d].attempts = delivery[d].attempts
                 /\ \E t \in Token :
                       /\ exec[t].stage \in InSend /\ exec[t].task = d
                       /\ exec[t].attempt = delivery[d].attempts /\ exec'[t].stage \notin InSend
           /\ delivery'[d].status = "sent" =>
                 \E t \in Token : /\ exec[t].stage \in Successful /\ exec[t].task = d
                                  /\ exec'[t].stage \notin InSend
<1> DEFINE Failed == /\ delivery'[d].attempts = delivery[d].attempts
                     /\ \E t \in Token :
                           /\ exec[t].stage \in InSend /\ exec[t].task = d
                           /\ exec[t].attempt = delivery[d].attempts /\ exec'[t].stage \notin InSend
           Sent == \E t \in Token : /\ exec[t].stage \in Successful /\ exec[t].task = d
                                    /\ exec'[t].stage \notin InSend
<1>0. /\ exec \in [Token -> ExecRecord] /\ delivery \in [Delivery -> DeliveryRow]
      /\ Idle.stage \notin InSend
  BY DEF Inv, TypeOK, Idle, InSend
<1>1. ASSUME NEW t \in Token, FinalizeNegative(t)
      PROVE  Failed /\ delivery'[d].status # "sent"
  <2> DEFINE new == NegativeOutcome(t)
  <2>1. d = exec[t].task /\ OwnsAttempt(t) /\ delivery'[d] = new
    BY <1>0, <1>1 DEF FinalizeNegative
  <2>2. new \in {Deferred(delivery[d]), Unleased(delivery[d], "failed"), Unleased(delivery[d], "unknown")}
    BY <1>1, <2>1 DEF FinalizeNegative, NegativeOutcome
  <2> HIDE DEF new
  <2>3. new.attempts = delivery[d].attempts /\ new.status # "sent"
    BY <1>0, <2>2 DEF Deferred, Unleased, DeliveryRow
  <2>4. exec[t].stage \in InSend /\ exec'[t].stage \notin InSend
    BY <1>0, <1>1 DEF FinalizeNegative, InSend
  <2> QED
    BY <2>1, <2>3, <2>4 DEF OwnsAttempt
<1>2. ASSUME NEW t \in Token, FinalizeSuccess(t)
      PROVE  Sent /\ delivery'[d].status # "failed"
  <2>1. d = exec[t].task /\ delivery'[d] = Unleased(delivery[d], "sent")
    BY <1>0, <1>2 DEF FinalizeSuccess
  <2>2. Unleased(delivery[d], "sent").status # "failed"
    BY <1>0 DEF Unleased, DeliveryRow
  <2>3. exec[t].stage \in Successful /\ exec'[t].stage \notin InSend
    BY <1>0, <1>2 DEF FinalizeSuccess, Successful
  <2> QED
    BY <2>1, <2>2, <2>3
<1>3. ASSUME NEW t \in Token, Execution(t), ~FinalizeNegative(t), ~FinalizeSuccess(t)
      PROVE  delivery'[d].status \notin {"failed", "sent"}
  <2>1. ASSUME NEW c \in Delivery, Claim(t, c)
        PROVE  FALSE
    BY <1>0, <2>1 DEF Claim, DeliveryRow
  <2>2. CASE AdmitApply(t)
    BY <1>0, <2>2 DEF AdmitApply, DeliveryRow
  <2>3. CASE Release(t)
    BY <1>0, <2>3 DEF Release, Deferred, Unleased, DeliveryRow
  <2> QED
    BY <1>3, <2>1, <2>2, <2>3 DEF Execution, Resolve, Renew, AdmitSnapshot, AdmitRefused,
        Interrupted, TelegramAccepts, SendReturns, SendCancelled, Crash
<1>4. ASSUME NEW m \in Mailing, Command(m)
      PROVE  delivery'[d].status \notin {"failed", "sent"}
  <2>1. NewRow.status = "pending" /\ Stopped(delivery[d]).status \in {"skipped", "unknown"}
    BY <1>0 DEF NewRow, NoRow, Stopped, Unleased, DeliveryRow
  <2> QED
    BY <1>4, <2>1 DEF Command, Queue, StopBegin, StopCommit, StopAbort
<1>5. ASSUME NEW c \in Delivery, Reap(c) \/ LeaseElapses(c) \/ BecomeReady(c)
      PROVE  delivery'[d].status \notin {"failed", "sent"}
  <2>1. CASE Reap(c)
    <3>1. delivery'[d] \in {Deferred(delivery[d]), Unleased(delivery[d], "unknown")}
      BY <1>0, <2>1 DEF Reap
    <3> QED
      BY <1>0, <3>1 DEF Deferred, Unleased, DeliveryRow
  <2>2. CASE LeaseElapses(c) \/ BecomeReady(c)
    BY <1>0, <2>2 DEF LeaseElapses, BecomeReady, DeliveryRow
  <2> QED
    BY <1>5, <2>1, <2>2
<1>6. CASE delivery' = delivery
  BY <1>6
<1> QED
  <2>1. ReconcileScan \/ ReconcileAbandon \/ (\E c \in candidates : ReconcileCandidate(c))
            \/ AccountChange => delivery' = delivery
    BY DEF ReconcileScan, ReconcileAbandon, ReconcileCandidate, AccountChange
  <2> QED
    BY <1>1, <1>2, <1>3, <1>4, <1>5, <1>6, <2>1 DEF Next, Background

\* Every step keeps it.
LEMMA NextLateInv == Inv /\ Inv' /\ LateInv /\ [Next]_vars => LateInv'
<1> SUFFICES ASSUME Inv, Inv', LateInv, Next
             PROVE  LateInv'
  BY DEF LateInv, vars
<1>1. \A u \in Token : exec'[u].stage \in Successful => exec'[u].stage \in InSend
  BY DEF Successful, InSend
<1>2. ASSUME NEW t \in Token, NEW u \in Token, exec'[t].stage \in Successful,
             exec'[u].stage \in Successful, exec'[t].task = exec'[u].task
      PROVE  t = u
  <2>1. exec'[t].stage # "sending" /\ exec'[u].stage # "sending"
    BY <1>2 DEF Successful
  <2>2. exec'[t].task = exec[t].task /\ exec'[u].task = exec[u].task
    BY <1>1, <1>2, <2>1, SendsMove
  <2>3. CASE exec[t].stage \in Successful /\ exec[u].stage \in Successful
    BY <1>2, <2>2, <2>3 DEF LateInv
  <2>4. CASE exec[t].stage \notin Successful
    <3>1. exec[t].task \notin accepted /\ \A v \in Token \ {t} : exec'[v] = exec[v]
      BY <1>1, <1>2, <2>1, <2>4, SendsMove
    <3> QED
      BY <1>2, <2>2, <3>1 DEF Inv, ExecInv, Successful
  <2>5. CASE exec[u].stage \notin Successful
    <3>1. exec[u].task \notin accepted /\ \A v \in Token \ {u} : exec'[v] = exec[v]
      BY <1>1, <1>2, <2>1, <2>5, SendsMove
    <3> QED
      BY <1>2, <2>2, <3>1 DEF Inv, ExecInv, Successful
  <2> QED
    BY <2>3, <2>4, <2>5
<1>3. ASSUME NEW t \in Token, exec'[t].stage \in Successful
      PROVE  delivery'[exec'[t].task].status # "sent"
  <2>1. exec'[t].stage # "sending" /\ exec'[t].stage \in InSend
    BY <1>1, <1>3 DEF Successful
  <2>2. exec[t].stage \in InSend /\ exec'[t].task = exec[t].task
    BY <2>1, SendsMove
  <2>3. PICK d \in Delivery : d = exec[t].task
    BY <2>2 DEF Inv, TypeOK, ExecRecord, InSend
  <2>4. CASE exec[t].stage \in Successful
    <3>1. delivery[d].status # "sent"
      BY <2>3, <2>4 DEF LateInv
    <3>2. delivery'[d].status # "sent"
      <4> SUFFICES ASSUME delivery'[d].status = "sent" PROVE FALSE
        OBVIOUS
      <4>1. PICK u \in Token : exec[u].stage \in Successful /\ exec[u].task = d /\ exec'[u].stage \notin InSend
        BY <3>1, OutcomesAreWritten
      <4>2. u = t
        BY <2>3, <2>4, <4>1 DEF LateInv
      <4> QED
        BY <2>1, <4>1, <4>2
    <3> QED
      BY <2>2, <2>3, <3>2
  <2>5. CASE exec[t].stage \notin Successful
    <3>1. d \notin accepted /\ delivery' = delivery
      BY <1>3, <2>1, <2>3, <2>5, SendsMove
    <3>2. delivery[d].status # "sent"
      BY <3>1 DEF Inv, RowInv
    <3> QED
      BY <2>2, <2>3, <3>1, <3>2
  <2> QED
    BY <2>4, <2>5
<1>4. ASSUME NEW t \in Token, exec'[t].stage \in InSend, delivery'[exec'[t].task].status = "failed"
      PROVE  exec'[t].attempt < delivery'[exec'[t].task].attempts
  <2>1. exec[t].stage \in InSend /\ exec'[t].task = exec[t].task /\ exec'[t].attempt = exec[t].attempt
    BY <1>4, SendsMove
  <2>2. PICK d \in Delivery : d = exec[t].task
    BY <2>1 DEF Inv, TypeOK, ExecRecord, InSend
  <2>3. /\ exec[t].attempt \in Nat /\ delivery[d].attempts \in Nat
        /\ exec[t].attempt <= delivery[d].attempts
    BY <2>1, <2>2 DEF Inv, TypeOK, ExecRecord, DeliveryRow, ExecInv
  <2>4. CASE delivery[d].status = "failed"
    <3>1. exec[t].attempt < delivery[d].attempts
      BY <2>1, <2>2, <2>4 DEF LateInv
    <3>2. delivery[d].status \in Terminal /\ delivery'[d].status # "sent"
      BY <1>4, <2>1, <2>2, <2>4 DEF Terminal
    <3>3. delivery'[d].attempts = delivery[d].attempts
      BY <3>2, SettledRowStep
    <3> QED
      BY <2>1, <2>2, <3>1, <3>3
  <2>5. CASE delivery[d].status # "failed"
    <3>1. delivery'[d].attempts = delivery[d].attempts
      BY <1>4, <2>1, <2>2, <2>5, OutcomesAreWritten
    <3>2. PICK u \in Token : /\ exec[u].stage \in InSend /\ exec[u].task = d
                             /\ exec[u].attempt = delivery[d].attempts /\ exec'[u].stage \notin InSend
      BY <1>4, <2>1, <2>2, <2>5, OutcomesAreWritten
    <3>3. exec[t].attempt # exec[u].attempt
      BY <1>4, <2>1, <2>2, <3>2 DEF Inv, AttemptsAreExclusive
    <3> QED
      BY <2>1, <2>2, <2>3, <3>1, <3>2, <3>3
  <2> QED
    BY <2>4, <2>5
<1> QED
  BY <1>2, <1>3, <1>4 DEF LateInv

\* ErrUnresolvedDeliveryOutcomes is not kept: a success can come after its mailing
\* was queued again.  But it is outrun, its row was failed for good by a later
\* attempt, and it is the only one of the row.
THEOREM LateOutcomes == Spec => []LateOutcomesAreOutrun
<1>1. Init => LateInv
  BY DEF Init, LateInv, Idle, Successful, InSend
<1>2. Spec => []LateInv
  BY <1>1, NextLateInv, InvCorrect, PTL DEF Spec
<1>3. MailingInv /\ LateInv => LateOutcomesAreOutrun
  <2> SUFFICES ASSUME MailingInv, LateInv, NEW n \in Run, NEW t \in Token, ActiveRun(n),
                      exec[t].stage \in {"accepted", "succeeded"},
                      MailingOf(RunOf(exec[t].task)) = MailingOf(n), RunOf(exec[t].task) # n
               PROVE  /\ delivery[exec[t].task].status = "failed"
                      /\ exec[t].attempt < delivery[exec[t].task].attempts
    BY DEF LateOutcomesAreOutrun
  <2>1. exec[t].stage \in InSend /\ exec[t].stage \in Successful
    BY DEF InSend, Successful
  <2>2. PICK d \in Delivery : d = exec[t].task
    BY <2>1 DEF MailingInv, Inv, TypeOK, ExecRecord, InSend
  <2>3. delivery[d].attempts # 0
    BY <2>1, <2>2 DEF MailingInv, Inv, ExecInv, TypeOK, ExecRecord, DeliveryRow
  <2>4. delivery[d].status \notin {"none", "skipped"} /\ run[RunOf(d)].status # "none"
    BY <2>3 DEF MailingInv, Inv, RowInv
  <2>5. RunOf(d)[2] < n[2]
    BY <2>2, <2>4, ActiveIsLast, Keys DEF MailingInv
  <2>6. delivery[d].status \in {"none", "sent", "failed", "skipped"}
    BY <2>2, <2>5 DEF MailingInv, SettledInv, EarlierRunsAreSettled
  <2>7. delivery[d].status = "failed"
    BY <2>1, <2>2, <2>4, <2>6 DEF LateInv
  <2> QED
    BY <2>1, <2>2, <2>7 DEF LateInv
<1> QED
  BY <1>2, <1>3, MailingInvCorrect, PTL

-----------------------------------------------------------------------------
(* The refinement: what each step of the pipeline is for MailingDelivery.  *)

\* The refinement mapping of Promise.
RunBar == [n \in Run |-> run[n].status]
OutcomeBar == [d \in Delivery |-> Outcome(delivery[d])]

\* The operators of MailingDelivery under the mapping.
LEMMA PromiseSets ==
    /\ Promise!Run = Run /\ Promise!Delivery = Delivery
    /\ \A n \in Run : Promise!Active(n) <=> ActiveRun(n)
    /\ UNCHANGED <<RunBar, OutcomeBar>> => UNCHANGED Promise!vars
  BY DEF Promise!Run, Promise!Delivery, Run, Delivery, RunNumber, Promise!Active, ActiveRun,
         Promise!vars, RunBar, OutcomeBar

\* Initially no run exists and no delivery has an outcome.
LEMMA PromiseInit == Init => Promise!Init
<1> SUFFICES ASSUME Init PROVE Promise!Init
  OBVIOUS
<1>1. \A n \in Run : run[n].status = "none"
  BY DEF Init
<1>2. \A d \in Delivery : Outcome(delivery[d]) = "none"
  BY DEF Init, Outcome, NoRow
<1> QED
  BY <1>1, <1>2 DEF Promise!Init, Promise!Run, Promise!Delivery, Run, Delivery, RunNumber

\* A move of one row tries, settles or proves a delivery, or is not seen.
LEMMA MovePromise ==
    ASSUME MailingInv, MailingInv', UNCHANGED run, Moves
    PROVE  [Promise!Next]_(Promise!vars)
<1>1. PICK d \in Delivery :
          RowMove(d) /\ \A c \in Delivery \ {d} : delivery'[c] = delivery[c]
  BY DEF Moves
<1>2. /\ OutcomeBar' = [OutcomeBar EXCEPT ![d] = Outcome(delivery[d])']
      /\ OutcomeBar[d] = Outcome(delivery[d])
      /\ RunBar' = RunBar
  <2>1. OutcomeBar' = [c \in Delivery |-> Outcome(delivery[c])']
    BY DEF OutcomeBar
  <2>2. \A c \in Delivery \ {d} : Outcome(delivery[c])' = Outcome(delivery[c])
    BY <1>1 DEF Outcome
  <2> QED
    BY <2>1, <2>2 DEF OutcomeBar, RunBar
<1>3. delivery[d].attempts \in Nat /\ delivery'[d].attempts \in Nat
  BY DEF MailingInv, Inv, TypeOK, DeliveryRow
<1>4. RunOf(d) = d[1] /\ RunOf(d) \in Run
  BY Keys DEF RunOf
<1>5. CASE Outcome(delivery[d])' = Outcome(delivery[d])
  <2>1. UNCHANGED <<RunBar, OutcomeBar>>
    BY <1>2, <1>5 DEF OutcomeBar
  <2> QED
    BY <2>1, PromiseSets
<1>6. CASE /\ delivery[d].status = "pending" /\ delivery'[d].status = "sending"
           /\ delivery'[d].attempts >= 1 /\ ActiveRun(RunOf(d))
  <2>1. Outcome(delivery[d]) \in {"untried", "tried"} /\ Outcome(delivery[d])' = "tried"
    BY <1>3, <1>6 DEF Outcome
  <2>2. Promise!Try(d)
    BY <1>2, <1>4, <1>6, <2>1, PromiseSets DEF Promise!Try, RunBar, OutcomeBar
  <2> QED
    BY <2>2, PromiseSets DEF Promise!Next
<1>7. CASE delivery[d].status = "sending" /\ delivery[d].attempts >= 1
           /\ delivery'[d].status \in {"failed", "unknown"}
  <2>1. Outcome(delivery[d]) = "tried" /\ Outcome(delivery[d])' \in {"failed", "unknown"}
    BY <1>3, <1>7 DEF Outcome
  <2>2. Promise!Settle(d)
    BY <1>2, <2>1, PromiseSets DEF Promise!Settle, RunBar, OutcomeBar
  <2> QED
    BY <2>2, PromiseSets DEF Promise!Next
<1>8. CASE /\ delivery[d].status \in {"pending", "sending", "failed", "unknown"}
           /\ delivery[d].status \in {"pending", "sending"} => delivery[d].attempts >= 1
           /\ delivery'[d].status = "sent"
  <2>1. Outcome(delivery[d]) \in {"tried", "failed", "unknown"} /\ Outcome(delivery[d])' = "sent"
    BY <1>3, <1>8 DEF Outcome
  <2>2. Promise!Prove(d)
    BY <1>2, <2>1, PromiseSets DEF Promise!Prove, RunBar, OutcomeBar
  <2> QED
    BY <2>2, PromiseSets DEF Promise!Next
<1>9. CASE \/ /\ delivery'[d].status = delivery[d].status
              /\ delivery'[d].attempts = delivery[d].attempts
           \/ /\ delivery[d].status = "sending" /\ delivery[d].attempts >= 1
              /\ delivery'[d].status = "pending" /\ delivery'[d].attempts >= 1
  <2>1. Outcome(delivery[d])' = Outcome(delivery[d])
    BY <1>3, <1>9 DEF Outcome
  <2> QED
    BY <1>5, <2>1
<1> QED
  BY <1>1, <1>6, <1>7, <1>8, <1>9 DEF RowMove

\* Queue starts a run for the eligible recipients.
LEMMA QueuePromise ==
    ASSUME MailingInv, NEW m \in Mailing, Queue(m)
    PROVE  Promise!Next
<1>1. PICK n \in Run :
          /\ MailingOf(n) = m /\ run[n].status = "none"
          /\ \A k \in RunNumber : k < n[2] => run[<<m, k>>].status # "none"
          /\ \A k \in Run : MailingOf(k) = m /\ run[k].status # "none" =>
                k[2] < n[2] /\ ~ActiveRun(k)
          /\ \A d \in Delivery : MailingOf(RunOf(d)) = m =>
                delivery[d].status \in {"none", "sent", "failed", "skipped"}
          /\ \A d \in Delivery : RunOf(d) = n => delivery[d].status = "none"
          /\ run' = [run EXCEPT ![n] = [status |-> "queued", generation |-> 1]]
          /\ delivery' = [d \in Delivery |->
                IF RunOf(d) = n /\ d[2] \in Eligible(m) THEN NewRow ELSE delivery[d]]
  BY QueueFacts
<1>2. RunBar[n] = "none" /\ RunBar' = [RunBar EXCEPT ![n] = "queued"]
  BY <1>1 DEF RunBar, MailingInv, Inv, TypeOK
<1>3. \A k \in Run : k[1] = n[1] => ~ActiveRun(k)
  BY <1>1 DEF MailingOf, ActiveRun
<1>4. \A d \in Delivery : d[1][1] = n[1] => OutcomeBar[d] \in {"none", "sent", "failed", "skipped"}
  BY <1>1 DEF MailingOf, RunOf, OutcomeBar, Outcome
<1>5. OutcomeBar' = [d \in Delivery |->
          IF d[1] = n /\ d[2] \in Eligible(m) THEN "untried" ELSE OutcomeBar[d]]
  <2>1. OutcomeBar' = [d \in Delivery |-> Outcome(delivery'[d])]
    BY DEF OutcomeBar, Outcome
  <2>2. Outcome(NewRow) = "untried"
    BY DEF NewRow, NoRow, Outcome
  <2>3. \A d \in Delivery : Outcome(delivery'[d]) =
            IF d[1] = n /\ d[2] \in Eligible(m) THEN "untried" ELSE OutcomeBar[d]
    BY <1>1, <2>2 DEF RunOf, OutcomeBar
  <2> QED
    BY <2>1, <2>3
<1>6. /\ Eligible(m) \in SUBSET Recipient /\ Eligible(m) # {}
      /\ n[1] \in Once => \A d \in Delivery :
            d[1][1] = n[1] => (OutcomeBar[d] = "sent" => d[2] \notin Eligible(m))
  <2>1. Eligible(m) \in SUBSET Recipient /\ Eligible(m) # {}
    BY DEF Eligible, Queue
  <2>2. \A d \in Delivery : OutcomeBar[d] = "sent" => delivery[d].status = "sent"
    BY DEF OutcomeBar, Outcome
  <2> QED
    BY <1>1, <2>1, <2>2 DEF Eligible, MailingOf, RunOf
<1> HIDE DEF RunBar, OutcomeBar
<1>7. Promise!Start(n)
  BY <1>1, <1>2, <1>3, <1>4, <1>5, <1>6, PromiseSets
  DEF Promise!Start, Promise!Siblings, RunBar, OutcomeBar
<1> QED
  BY <1>7, PromiseSets DEF Promise!Next

\* Stop cancels the active run: it skips what was never tried and has locked what
\* it leaves in doubt.
LEMMA StopPromise ==
    ASSUME MailingInv, NEW m \in Mailing, StopCommit(m)
    PROVE  Promise!Next
<1>1. PICK n \in Run : MailingOf(n) = m /\ ActiveRun(n)
  BY DEF StopCommit, MailingInv, StopInv
<1>2. \A k \in Run : MailingOf(k) = m /\ ActiveRun(k) <=> k = n
  BY <1>1, ActiveIsLatest DEF MailingInv
<1>3. RunBar' = [RunBar EXCEPT ![n] = "cancelled"]
  <2>1. \A k \in Run : run'[k].status = IF k = n THEN "cancelled" ELSE run[k].status
    BY <1>2 DEF StopCommit
  <2> QED
    BY <2>1 DEF RunBar
<1>4. \A d \in Captured(m) : /\ d \in Delivery /\ d[1] = n /\ delivery[d].status = "pending"
                             /\ delivery[d] \in DeliveryRow
  BY <1>2, Keys DEF Captured, RunOf, MailingInv, StopInv, Inv, TypeOK, ParentInv
<1>5. \A d \in Delivery : d[1] = n /\ OutcomeBar[d] = "untried" => d \in Captured(m)
  <2> SUFFICES ASSUME NEW d \in Delivery, d[1] = n, OutcomeBar[d] = "untried", d \notin Captured(m)
               PROVE  FALSE
    OBVIOUS
  <2>1. delivery[d].status \in {"pending", "sending"} /\ delivery[d].attempts = 0
    BY DEF OutcomeBar, Outcome, MailingInv, Inv, TypeOK, DeliveryRow, DeliveryStatus
  <2>2. delivery[d].status = "pending"
    BY <2>1 DEF MailingInv, Inv, RowInv, Storable
  <2>3. d \notin captured /\ MailingOf(RunOf(d)) \in stopping
    BY <1>1 DEF Captured, RunOf, StopCommit
  <2> QED
    BY <2>1, <2>2, <2>3 DEF MailingInv, StopInv, Leftover
<1> DEFINE doubtful == {d \in Captured(m) : delivery[d].attempts # 0}
<1>6. doubtful \in SUBSET {d \in Delivery : d[1] = n /\ OutcomeBar[d] = "tried"}
  BY <1>4 DEF OutcomeBar, Outcome
<1>7. OutcomeBar' = [d \in Delivery |->
          IF d[1] = n /\ OutcomeBar[d] = "untried" THEN "skipped"
          ELSE IF d \in doubtful THEN "unknown"
          ELSE OutcomeBar[d]]
  <2>1. OutcomeBar' = [d \in Delivery |-> Outcome(delivery'[d])]
    BY DEF OutcomeBar, Outcome
  <2>2. ASSUME NEW d \in Delivery
        PROVE  Outcome(delivery'[d]) =
                 IF d[1] = n /\ OutcomeBar[d] = "untried" THEN "skipped"
                 ELSE IF d \in doubtful THEN "unknown"
                 ELSE OutcomeBar[d]
    <3>1. CASE d \in Captured(m)
      <4>1. delivery'[d] = Stopped(delivery[d])
        BY <3>1 DEF StopCommit
      <4>2. Outcome(delivery'[d]) = IF delivery[d].attempts = 0 THEN "skipped" ELSE "unknown"
        BY <1>4, <3>1, <4>1 DEF Stopped, Unleased, Outcome, DeliveryRow
      <4>3. OutcomeBar[d] = IF delivery[d].attempts = 0 THEN "untried" ELSE "tried"
        BY <1>4, <3>1 DEF OutcomeBar, Outcome
      <4> QED
        BY <1>4, <3>1, <4>2, <4>3
    <3>2. CASE d \notin Captured(m)
      <4>1. delivery'[d] = delivery[d]
        BY <3>2 DEF StopCommit
      <4> QED
        BY <1>5, <3>2, <4>1 DEF OutcomeBar
    <3> QED
      BY <3>1, <3>2
  <2> QED
    BY <2>1, <2>2
<1> HIDE DEF doubtful
<1>8. Promise!Cancel(n)
  BY <1>1, <1>3, <1>6, <1>7, PromiseSets DEF Promise!Cancel, RunBar, OutcomeBar
<1> QED
  BY <1>8, PromiseSets DEF Promise!Next

\* Reconciliation finishes a run whose deliveries are settled.
LEMMA ReconcilePromise ==
    ASSUME MailingInv, NEW c \in candidates, ReconcileCandidate(c), StillFinished(c)
    PROVE  Promise!Next
<1>1. PICK n \in Run :
          /\ ActiveRun(n) /\ AllTerminal(n) /\ UNCHANGED delivery
          /\ run' = [run EXCEPT ![n].status = TerminalRunStatus(n)]
  BY DEF ReconcileCandidate, StillFinished, ActivePair, ActiveRun, MailingInv, Inv, TypeOK
<1>2. RunBar' = [RunBar EXCEPT ![n] = TerminalRunStatus(n)] /\ OutcomeBar' = OutcomeBar
  BY <1>1 DEF RunBar, OutcomeBar, MailingInv, Inv, TypeOK
<1>3. \A d \in Delivery : d[1] = n => OutcomeBar[d] \in {"none", "sent", "failed", "skipped", "unknown"}
  BY <1>1, FinishedStatus DEF OutcomeBar, Outcome, RunOf, Terminal
<1>4. TerminalRunStatus(n) =
          IF \E d \in Delivery : d[1] = n /\ OutcomeBar[d] \in {"failed", "unknown"}
          THEN "failed" ELSE "completed"
  BY DEF TerminalRunStatus, DeliveriesOf, RunOf, OutcomeBar, Outcome
<1>5. Promise!Finish(n)
  BY <1>1, <1>2, <1>3, <1>4, PromiseSets DEF Promise!Finish, Promise!Settled, RunBar, OutcomeBar
<1> QED
  BY <1>5, PromiseSets DEF Promise!Next

\* Every step of the pipeline is a step of MailingDelivery or is not seen there.
LEMMA NextPromise == MailingInv /\ MailingInv' /\ [Next]_vars => [Promise!Next]_(Promise!vars)
<1> SUFFICES ASSUME MailingInv, MailingInv', [Next]_vars
             PROVE  [Promise!Next]_(Promise!vars)
  OBVIOUS
<1>1. ASSUME UNCHANGED <<run, delivery>>
      PROVE  UNCHANGED Promise!vars
  BY <1>1, PromiseSets DEF RunBar, OutcomeBar
<1>2. ASSUME NEW t \in Token, Execution(t)
      PROVE  [Promise!Next]_(Promise!vars)
  BY <1>1, <1>2, ExecutionMoves, MovePromise
<1>3. ASSUME NEW m \in Mailing, Command(m)
      PROVE  [Promise!Next]_(Promise!vars)
  BY <1>1, <1>3, QueuePromise, StopPromise DEF Command, StopBegin, StopAbort
<1>4. ASSUME NEW d \in Delivery, Reap(d) \/ LeaseElapses(d) \/ BecomeReady(d)
      PROVE  [Promise!Next]_(Promise!vars)
  BY <1>4, TimeMoves, MovePromise
<1>5. ASSUME NEW c \in candidates, ReconcileCandidate(c)
      PROVE  [Promise!Next]_(Promise!vars)
  BY <1>1, <1>5, ReconcilePromise DEF ReconcileCandidate
<1>6. CASE ReconcileScan \/ ReconcileAbandon \/ AccountChange \/ UNCHANGED vars
  BY <1>1, <1>6 DEF ReconcileScan, ReconcileAbandon, AccountChange, vars
<1> QED
  BY <1>2, <1>3, <1>4, <1>5, <1>6 DEF Next, Background

\* The delivery pipeline implements MailingDelivery: leases, attempts, workers and
\* background passes never show in what a mailing promises its operator.
THEOREM PipelineKeepsPromise == Spec => KeepsPromise
<1>1. MailingInv /\ [Next]_vars => [Promise!Next]_(Promise!vars)
  BY NextMailingInv, NextPromise
<1> QED
  BY <1>1, PromiseInit, MailingInvCorrect, PTL DEF Spec, KeepsPromise, Promise!Spec
=============================================================================
