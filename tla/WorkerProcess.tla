--------------------------- MODULE WorkerProcess ---------------------------
(***************************************************************************)
(* The life of the process: the delivery worker and the other background   *)
(* jobs, the runner that supervises them, the HTTP server, and the monitor *)
(* that turns the end of any of them into the end of all.                  *)
(*                                                                         *)
(* The delivery worker is modelled in detail (its coordinator, execution   *)
(* slots, drain and releases); what an execution does to a delivery is     *)
(* DeliveryPipeline's matter, here it is settled (done or given back) or   *)
(* lost.  The other jobs loop until their context is cancelled or they     *)
(* fail, and may ignore the cancellation.  Every wait with a timer may     *)
(* time out as long as what it waits for has not happened.                 *)
(***************************************************************************)
EXTENDS Naturals, Sequences, FiniteSets

CONSTANTS
    Loop,       \* the jobs beside the delivery worker
    Capacity,   \* executionCapacity
    MaxClaims   \* bound: deliveries ever claimed

ASSUME ProcessAssumption ==
    /\ Capacity \in Nat \ {0}
    /\ MaxClaims \in Nat

Token == 1 .. MaxClaims

VARIABLES
    task,       \* what became of each claimed delivery
    claims,     \* claims so far
    coordinator,\* where coordinate is
    slots,      \* tokens in the semaphore of execution slots
    tracker,    \* activeTracker
    run,        \* where Worker.Run is
    claiming,   \* cancelClaims was not called
    failures,   \* failureState: "fatal" once there is a first, "noted" before
    timedOut,   \* Run returned ErrShutdownTimeout
    loop,       \* the other jobs: "running", "cancelled", "failed"
    runner,     \* Runner.Run, joined jobs and primaryFailure
    root,       \* "live", "signalled", "cancelled" (by the monitor)
    jobsDone,   \* jobContext is cancelled
    server,     \* "serving", "broken", "closed"
    monitor,    \* monitorRuntime and the failures it collected
    database,   \* the pool is open
    exit        \* what runApplication returned

tasks == <<task, claims>>
worker == <<coordinator, slots, tracker, run, claiming, failures, timedOut>>
jobs == <<loop, runner, jobsDone>>
top == <<root, server, monitor, database, exit>>
vars == <<task, claims, coordinator, slots, tracker, run, claiming, failures,
          timedOut, loop, runner, jobsDone, root, server, monitor, database, exit>>

-----------------------------------------------------------------------------
(* The delivery worker: its coordinator.                                   *)

AtWork == {k \in Token : task[k] \in {"execute", "release"}}

\* claimContext, which descends from the context of the job and so of root.
ClaimsOver == jobsDone \/ ~claiming

Note == failures' = IF failures = "fatal" THEN failures ELSE "noted"
Fatal == failures' = "fatal"

\* reportFatal also stops the claims.
Reports == Fatal /\ claiming' = FALSE

TakeSlot ==
    /\ coordinator.at = "slot"
    /\ \/ /\ slots < Capacity
          /\ slots' = slots + 1
          /\ coordinator' = [coordinator EXCEPT !.at = "claim"]
       \/ /\ ClaimsOver
          /\ coordinator' = [coordinator EXCEPT !.at = "ended"]
          /\ UNCHANGED slots
    /\ UNCHANGED <<tasks, tracker, run, claiming, failures, timedOut, jobs, top>>

Claim ==
    /\ coordinator.at = "claim"
    /\ database
    /\ claims < MaxClaims
    /\ claims' = claims + 1
    /\ task' = [task EXCEPT ![claims + 1] = "hand"]
    /\ coordinator' = [at |-> IF ClaimsOver THEN "release" ELSE "resolve", why |-> "late"]
    /\ UNCHANGED <<slots, tracker, run, claiming, failures, timedOut, jobs, top>>

\* Nothing ready is polled again; another failure is fatal unless the claims
\* were stopped.  A commit whose reply is lost is left to the reaper.
ClaimFails ==
    /\ coordinator.at = "claim"
    /\ slots' = slots - 1
    /\ \/ /\ coordinator' = [coordinator EXCEPT !.at = IF ClaimsOver THEN "ended" ELSE "slot"]
          /\ UNCHANGED <<claiming, failures>>
       \/ /\ coordinator' = [coordinator EXCEPT !.at = "ended"]
          /\ IF ClaimsOver THEN UNCHANGED <<claiming, failures>> ELSE Reports
    /\ UNCHANGED <<tasks, tracker, run, timedOut, jobs, top>>

\* Revalidates the admission of the account and looks at the claims again.
Resolve ==
    /\ coordinator.at = "resolve"
    /\ coordinator' \in
          (IF ClaimsOver THEN {[at |-> "release", why |-> "late"]}
           ELSE {[at |-> "renew", why |-> "late"]})
          \cup [at : {"release"}, why : {"rejected", "broken"}]
    /\ UNCHANGED <<tasks, slots, tracker, run, claiming, failures, timedOut, jobs, top>>

\* A lease that was not renewed but is not given back either.
RenewSkips ==
    /\ coordinator.at = "renew"
    /\ \/ /\ coordinator' = [at |-> "add", why |-> "late"]
          /\ UNCHANGED slots
       \/ /\ coordinator' = [coordinator EXCEPT !.at = "slot"]
          /\ slots' = slots - 1
    /\ UNCHANGED <<tasks, tracker, run, claiming, failures, timedOut, jobs, top>>

Renew ==
    /\ coordinator.at = "renew"
    /\ coordinator' \in {[at |-> "add", why |-> "late"], [at |-> "release", why |-> "renewal"]}
    /\ UNCHANGED <<tasks, slots, tracker, run, claiming, failures, timedOut, jobs, top>>

Add ==
    /\ coordinator.at = "add"
    /\ \/ /\ ~tracker.stopped
          /\ tracker' = [tracker EXCEPT !.count = @ + 1]
          /\ task' = [task EXCEPT ![claims] = "execute"]
          /\ coordinator' = [coordinator EXCEPT !.at = "slot"]
       \/ /\ tracker.stopped
          /\ coordinator' = [at |-> "release", why |-> "late"]
          /\ UNCHANGED <<tracker, task>>
    /\ UNCHANGED <<claims, slots, run, claiming, failures, timedOut, jobs, top>>

\* What the coordinator does after the release of a task it did not start: a
\* rejected admission and a lease that was not renewed go on with the next one,
\* a broken resolver ends the worker, a task that came late ends the claims.
AfterRelease(why, released) ==
    /\ LET goesOn == why = "renewal" \/ (why = "rejected" /\ ~ClaimsOver /\ released)
       IN  coordinator' = [at |-> IF goesOn THEN "slot" ELSE "ended", why |-> "late"]
    /\ \/ /\ released
          /\ IF why = "broken" /\ ~ClaimsOver THEN Reports ELSE UNCHANGED <<claiming, failures>>
       \/ /\ ~released
          /\ IF why # "renewal" /\ ClaimsOver THEN Note /\ UNCHANGED claiming ELSE Reports

HandBack ==
    /\ coordinator.at = "release"
    /\ slots' = slots - 1
    /\ \/ /\ database
          /\ task' = [task EXCEPT ![claims] = "settled"]
          /\ AfterRelease(coordinator.why, TRUE)
       \/ /\ task' = [task EXCEPT ![claims] = "lost"]
          /\ AfterRelease(coordinator.why, FALSE)
    /\ UNCHANGED <<claims, tracker, run, timedOut, jobs, top>>

-----------------------------------------------------------------------------
(* Executions.                                                             *)

\* The slot stays taken.
EndsKeepsSlot(k, how) ==
    /\ task' = [task EXCEPT ![k] = how]
    /\ tracker' = [tracker EXCEPT !.count = @ - 1]
    /\ UNCHANGED slots

Ends(k, how) ==
    /\ task' = [task EXCEPT ![k] = how]
    /\ slots' = slots - 1
    /\ tracker' = [tracker EXCEPT !.count = @ - 1]

\* The outcome was recorded, or the error is passed to release.
Execute(k) ==
    /\ task[k] = "execute"
    /\ \/ database /\ Ends(k, "settled")
       \/ /\ task' = [task EXCEPT ![k] = "release"]
          /\ UNCHANGED <<slots, tracker>>
    /\ UNCHANGED <<claims, coordinator, run, claiming, failures, timedOut, jobs, top>>

\* A panic and an outcome that could not be recorded are fatal in any case.
Release(k) ==
    /\ task[k] = "release"
    /\ \/ /\ database
          /\ Ends(k, "settled")
          /\ UNCHANGED <<claiming, failures>> \/ Reports
       \/ /\ Ends(k, "lost")
          /\ Reports
    /\ UNCHANGED <<claims, coordinator, run, timedOut, jobs, top>>

-----------------------------------------------------------------------------
(* Worker.Run.                                                             *)

StopClaims ==
    /\ run = "running"
    /\ jobsDone \/ failures = "fatal" \/ coordinator.at = "ended"
    /\ run' = "stopping"
    /\ claiming' = FALSE
    /\ failures' = IF jobsDone THEN failures ELSE "fatal"
    /\ UNCHANGED <<tasks, coordinator, slots, tracker, timedOut, jobs, top>>

StopAdding ==
    /\ run = "stopping"
    /\ run' = "draining"
    /\ tracker' = [tracker EXCEPT !.stopped = TRUE]
    /\ UNCHANGED <<tasks, coordinator, slots, claiming, failures, timedOut, jobs, top>>

\* activeDone and coordinatorDone.
Finished == tracker.count = 0 /\ coordinator.at = "ended"

\* After the drain the executions are cancelled, after the cleanup they are
\* waited for no longer; an execution may be cut short at any time as it is.
Return ==
    /\ run = "draining"
    /\ run' = "returned"
    /\ timedOut' = ~Finished
    /\ UNCHANGED <<tasks, coordinator, slots, tracker, claiming, failures, jobs, top>>

-----------------------------------------------------------------------------
(* The other jobs and the runner.                                          *)

LoopEnds(l) ==
    /\ loop[l] = "running"
    /\ \/ jobsDone /\ loop' = [loop EXCEPT ![l] = "cancelled"]
       \/ loop' = [loop EXCEPT ![l] = "failed"]
    /\ UNCHANGED <<tasks, worker, runner, jobsDone, top>>

WorkerJob == "delivery worker"
Job == Loop \cup {WorkerJob}

Returned(j) == IF j = WorkerJob THEN run = "returned" ELSE loop[j] # "running"

\* isCancellation of what a job returned.  Worker.Run joins what stopped it with
\* all it has to report: a context error among its fatal failures, be it that of
\* a release that ran out of time, makes the whole a cancellation.
Cancellations(j) ==
    IF j = WorkerJob THEN {TRUE, failures # "fatal"} ELSE {loop[j] = "cancelled"}

\* The end of a job is noted and nothing else.
JoinQuietly(j) ==
    /\ runner.at \in {"running", "stopping"}
    /\ j \notin runner.joined
    /\ Returned(j)
    /\ \E cancelled \in Cancellations(j) :
          runner' = [runner EXCEPT !.joined = @ \cup {j}, !.primary = @ \/ ~cancelled]
    /\ UNCHANGED <<tasks, worker, loop, jobsDone, top>>

\* beginShutdown cancels the jobs; a failure becomes the primary one if it is
\* the first, and while stopping only if it is no cancellation.
Join(j) ==
    /\ runner.at \in {"running", "stopping"}
    /\ j \notin runner.joined
    /\ Returned(j)
    /\ \E cancelled \in Cancellations(j) :
          runner' = [runner EXCEPT
                        !.at = "stopping",
                        !.joined = @ \cup {j},
                        !.primary = @ \/ ~cancelled
                                      \/ (runner.at = "running" /\ root = "live")]
    /\ jobsDone' = TRUE
    /\ UNCHANGED <<tasks, worker, loop, top>>

RunnerStops ==
    /\ runner.at = "running"
    /\ root # "live"
    /\ runner' = [runner EXCEPT !.at = "stopping"]
    /\ UNCHANGED <<tasks, worker, loop, jobsDone, top>>

\* All jobs joined, or the shutdown timer.
RunnerReturns ==
    /\ runner.at = "stopping"
    /\ runner' \in
          (IF runner.joined = Job
           THEN {[runner EXCEPT !.at = IF runner.primary THEN "failure" ELSE "cancelled"]}
           ELSE {[runner EXCEPT !.at = "timeout"]})
    /\ UNCHANGED <<tasks, worker, loop, jobsDone, top>>

RunnerReturned == runner.at \in {"failure", "cancelled", "timeout"}

-----------------------------------------------------------------------------
(* The monitor.                                                            *)

\* The contexts of the jobs descend from root.
Signal ==
    /\ root = "live"
    /\ root' = "signalled"
    /\ jobsDone' = TRUE
    /\ UNCHANGED <<tasks, worker, loop, runner, server, monitor, database, exit>>

ServerBreaks ==
    /\ server = "serving"
    /\ server' = "broken"
    /\ UNCHANGED <<tasks, worker, jobs, root, monitor, database, exit>>

\* The jobs are left to themselves.
WaitsForNoJobs(cause) == IF cause = "reaper" THEN <<"server", "worker">> ELSE <<"server">>

\* What the monitor waits for, in the order of its case.
Waits(cause) ==
    CASE cause = "server" -> <<"worker", "reaper">>
      [] cause = "reaper" -> <<"server", "worker">>
      [] cause = "root"   -> <<"server", "worker", "reaper">>

\* One arm of the select: cancel(), then shutdownServer, which closes the server
\* in any case; its failure counts as one of the wait for the server.
Notices(cause) ==
    /\ monitor.at = "select"
    /\ \/ cause = "server" /\ server = "broken"
       \/ cause = "reaper" /\ RunnerReturned
       \/ cause = "root" /\ root # "live"
    /\ root' = IF root = "live" THEN "cancelled" ELSE root
    /\ server' = IF server = "serving" THEN "closed" ELSE server
    /\ jobsDone' = TRUE
    /\ monitor' = [at |-> "wait", cause |-> cause, todo |-> Waits(cause), failed |-> {}]
    /\ UNCHANGED <<tasks, worker, loop, runner, database, exit>>

\* workerErrors is a channel that nobody sends to: the delivery worker runs as
\* a job of the runner, and waitWorker ends with its timer.  Beside that and a
\* runner that did not return in time, the failures are told apart no further.
Outcomes(what) ==
    CASE what = "worker" -> {"worker"}
      [] what = "server" -> IF server = "broken" THEN {"other"} ELSE {"nothing", "other"}
      [] what = "reaper" -> IF RunnerReturned
                            THEN {IF runner.at = "cancelled" THEN "nothing" ELSE "other"}
                            ELSE {"reaper timeout"}

\* waitServer, waitWorker, waitReaper, in turn.
Wait ==
    /\ monitor.at = "wait"
    /\ IF monitor.todo = <<>>
       THEN monitor' = [monitor EXCEPT !.at = "resources"]
       ELSE \E o \in Outcomes(monitor.todo[1]) :
              monitor' = [monitor EXCEPT
                !.todo = Tail(@),
                !.failed = @ \cup ({o} \ {"nothing"})]
    /\ UNCHANGED <<tasks, worker, jobs, root, server, database, exit>>

\* shutdownApplicationResources: the services, the runtime, then the pool.
CloseResources ==
    /\ monitor.at = "resources"
    /\ database' = FALSE
    /\ \E failed \in BOOLEAN :
          monitor' = [monitor EXCEPT !.at = "exit",
                        !.failed = IF failed THEN @ \cup {"other"} ELSE @]
    /\ UNCHANGED <<tasks, worker, jobs, root, server, exit>>

\* The first failure in the order of the case, or the end of what must not end.
Exits ==
    /\ monitor.at = "exit"
    /\ exit = "none"
    /\ exit' = IF \/ monitor.failed # {}
                  \/ monitor.cause = "server"
                  \/ monitor.cause = "reaper" /\ ~(runner.at = "cancelled" /\ root = "signalled")
               THEN "failure" ELSE "ok"
    /\ UNCHANGED <<tasks, worker, jobs, root, server, monitor, database>>

-----------------------------------------------------------------------------
Init ==
    /\ task = [k \in Token |-> "none"]
    /\ claims = 0
    /\ coordinator = [at |-> "slot", why |-> "late"]
    /\ slots = 0
    /\ tracker = [count |-> 0, stopped |-> FALSE]
    /\ run = "running"
    /\ claiming = TRUE
    /\ failures = "none"
    /\ timedOut = FALSE
    /\ loop = [l \in Loop |-> "running"]
    /\ runner = [at |-> "running", joined |-> {}, primary |-> FALSE]
    /\ root = "live"
    /\ jobsDone = FALSE
    /\ server = "serving"
    /\ monitor = [at |-> "select", cause |-> "none", todo |-> <<>>, failed |-> {}]
    /\ database = TRUE
    /\ exit = "none"

Coordinate == TakeSlot \/ Claim \/ ClaimFails \/ Resolve \/ Renew \/ Add \/ HandBack

Stop == StopClaims \/ StopAdding \/ Return

Supervise == (\E j \in Job : Join(j)) \/ RunnerStops \/ RunnerReturns

Monitor == (\E c \in {"server", "reaper", "root"} : Notices(c)) \/ Wait \/ CloseResources \/ Exits

Next ==
    /\ exit = "none"
    /\ \/ Coordinate
       \/ \E k \in Token : Execute(k) \/ Release(k)
       \/ Stop
       \/ \E l \in Loop : LoopEnds(l)
       \/ Supervise
       \/ Monitor
       \/ Signal \/ ServerBreaks

Spec == Init /\ [][Next]_vars

\* The goroutines run: every call of the worker has a deadline, and so has every
\* wait of a shutdown.  Nothing is assumed of the other jobs, which may ignore
\* the cancellation, of the server or of signals.
FairSpec ==
    /\ Spec
    /\ WF_vars(exit = "none" /\ Coordinate)
    /\ \A k \in Token : WF_vars(exit = "none" /\ (Execute(k) \/ Release(k)))
    /\ WF_vars(exit = "none" /\ Stop)
    /\ WF_vars(exit = "none" /\ RunnerStops)
    /\ WF_vars(exit = "none" /\ RunnerReturns)
    /\ \A j \in Job : WF_vars(exit = "none" /\ Join(j))
    /\ WF_vars(exit = "none" /\ Monitor)

-----------------------------------------------------------------------------
(* Properties.                                                             *)

\* The types of the variables, and the accounts of the worker: a slot is taken
\* by an execution or by the task the coordinator is busy with, on every path
\* through coordinate and execute, and the tracker counts the executions.
TypeOK ==
    /\ task \in [Token -> {"none", "hand", "execute", "release", "settled", "lost"}]
    /\ claims \in 0 .. MaxClaims
    /\ tracker.count = Cardinality(AtWork)
    /\ slots = tracker.count + (IF coordinator.at \in {"slot", "ended"} THEN 0 ELSE 1)
    /\ slots <= Capacity
    /\ run \in {"running", "stopping", "draining", "returned"}
    /\ failures \in {"none", "noted", "fatal"}
    /\ runner.joined \subseteq Job
    /\ root \in {"live", "signalled", "cancelled"}

\* When Worker.Run reports no timeout it leaves nothing behind: no execution is
\* at work, no claimed delivery is in the coordinator's hands, and a delivery
\* whose release failed is among the failures it returns.
CleanReturn ==
    run = "returned" /\ ~timedOut =>
        /\ \A k \in Token : task[k] \in {"none", "settled", "lost"}
        /\ (\E k \in Token : task[k] = "lost") => failures # "none"

\* A return without a timeout is clean, and the pool is closed under an
\* execution only after some wait has timed out: the worker's, the runner's or
\* the monitor's.
DatabaseOutlivesWork ==
    /\ CleanReturn
    /\ ~database /\ (AtWork # {} \/ coordinator.at # "ended") =>
        timedOut \/ runner.at = "timeout" \/ "reaper timeout" \in monitor.failed

\* A signal, a broken server, a fatal failure of the worker and the failure of
\* any other job all end the process, even if jobs ignore their cancellation.
FailuresEndTheProcess ==
    (root # "live" \/ server = "broken" \/ failures = "fatal" \/ \E l \in Loop : loop[l] = "failed")
        ~> exit # "none"

\* A claimed delivery is executed or given back, or the process has ended: no
\* path of the coordinator drops a lease it holds.
ClaimsAreSettled ==
    \A k \in Token :
        task[k] \in {"hand", "execute", "release"} ~>
            task[k] \in {"settled", "lost"} \/ exit # "none"

\* A process that was told to stop and in which nothing went wrong succeeds
\* (TestMonitorRuntimeReaperCleanCancellation expects no failure).
CleanShutdownSucceeds ==
    exit = "failure" =>
        \/ root # "signalled" \/ server = "broken"
        \/ runner.at # "cancelled"
        \/ monitor.failed \ {"worker"} # {}

\* What holds instead: no process succeeds, however it ends.
EveryEndIsAFailure == exit # "none" => exit = "failure" /\ "worker" \in monitor.failed
=============================================================================
