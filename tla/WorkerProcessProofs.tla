------------------------- MODULE WorkerProcessProofs -------------------------
(***************************************************************************)
(* The accounts of the delivery worker are right on every path through its *)
(* coordinator and its executions, a return without a timeout leaves       *)
(* nothing behind, and the pool outlives the work unless a wait has timed  *)
(* out: for any number of execution slots, claims and other jobs.          *)
(*                                                                         *)
(* The pool is closed after the monitor has waited for the runner; the     *)
(* runner returns when it has joined every job; the worker is joined after *)
(* Worker.Run has returned; and Worker.Run returns when nothing is at work *)
(* or its own wait has timed out.                                          *)
(***************************************************************************)
EXTENDS WorkerProcess, TLAPS, FiniteSetTheorems

Working == {"execute", "release"}
Fate == {"none", "hand", "settled", "lost"} \cup Working

\* The coordinator holds a claimed task that it has not started.
Holding == {"resolve", "renew", "add", "release"}

WorkTypes ==
    /\ task \in [Token -> Fate]
    /\ claims \in 0 .. MaxClaims
    /\ coordinator \in [at : {"slot", "claim", "ended"} \cup Holding,
                        why : {"late", "rejected", "broken", "renewal"}]
    /\ slots \in Int
    /\ tracker \in [count : Int, stopped : BOOLEAN]
    /\ run \in {"running", "stopping", "draining", "returned"}
    /\ failures \in {"none", "noted", "fatal"}

\* The coordinator has the latest task in its hands, or none.
Hands ==
    /\ coordinator.at \in Holding => claims \in Token /\ task[claims] = "hand"
    /\ \A k \in Token : task[k] = "hand" => coordinator.at \in Holding /\ k = claims
    /\ \A k \in Token : k > claims => task[k] = "none"

\* The second to the fourth conjunct of TypeOK.
Counts ==
    /\ tracker.count = Cardinality(AtWork)
    /\ slots = tracker.count + (IF coordinator.at \in {"slot", "ended"} THEN 0 ELSE 1)
    /\ slots <= Capacity

\* A lost delivery was reported.
Losses == (\E k \in Token : task[k] = "lost") => failures # "none"

\* Worker.Run has returned over nothing, and nothing starts again.
Returns == run = "returned" /\ ~timedOut => Finished

WorkInv == WorkTypes /\ Hands /\ Counts /\ Losses /\ Returns

\* What the runner has joined.
RunnerInv ==
    /\ runner \in [at : {"running", "stopping", "failure", "cancelled", "timeout"},
                   joined : SUBSET Job, primary : BOOLEAN]
    /\ root \in {"live", "signalled", "cancelled"}
    /\ WorkerJob \in runner.joined => run = "returned"
    /\ runner.at \in {"failure", "cancelled"} => runner.joined = Job

\* What the monitor has waited for.
Waited == RunnerReturned \/ "reaper timeout" \in monitor.failed

Peer == {"server", "worker", "reaper"}

MonitorState ==
    [at : {"select", "wait", "resources", "exit"}, cause : {"none", "server", "reaper", "root"},
     todo : Seq(Peer), failed : SUBSET {"worker", "other", "reaper timeout"}]

MonitorInv ==
    /\ monitor \in MonitorState
    /\ monitor.at = "wait" => Waited \/ \E i \in 1 .. Len(monitor.todo) : monitor.todo[i] = "reaper"
    /\ monitor.at \in {"resources", "exit"} => Waited
    /\ database \/ monitor.at = "exit"

Inv == WorkInv /\ RunnerInv /\ MonitorInv

-----------------------------------------------------------------------------
(* Helpers, and the initial states.                                        *)

\* The executions at work are finitely many.
LEMMA AtWorkFinite == IsFiniteSet(AtWork) /\ Cardinality(AtWork) \in Nat
<1>1. IsFiniteSet(Token)
  BY FS_Interval, ProcessAssumption DEF Token
<1>2. AtWork \subseteq Token
  BY DEF AtWork
<1> QED
  BY <1>1, <1>2, FS_Subset, FS_CardinalityType

\* A task that starts or ends is counted.
LEMMA CountTask ==
    ASSUME WorkTypes, NEW k \in Token, NEW how, task' = [task EXCEPT ![k] = how]
    PROVE  Cardinality(AtWork)' = CASE how \in Working /\ task[k] \notin Working -> Cardinality(AtWork) + 1
                                    [] how \notin Working /\ task[k] \in Working -> Cardinality(AtWork) - 1
                                    [] OTHER -> Cardinality(AtWork)
<1>1. /\ task'[k] = how /\ \A j \in Token : j # k => task'[j] = task[j]
  BY DEF WorkTypes
<1>2. CASE how \in Working
  <2>1. AtWork' = AtWork \cup {k}
    BY <1>1, <1>2 DEF AtWork, Working
  <2>2. k \in AtWork <=> task[k] \in Working
    BY DEF AtWork, Working
  <2> QED
    BY <1>2, <2>1, <2>2, AtWorkFinite, FS_AddElement
<1>3. CASE how \notin Working
  <2>1. AtWork' = AtWork \ {k}
    BY <1>1, <1>3 DEF AtWork, Working
  <2>2. k \in AtWork <=> task[k] \in Working
    BY DEF AtWork, Working
  <2> QED
    BY <1>3, <2>1, <2>2, AtWorkFinite, FS_RemoveElement
<1> QED
  BY <1>2, <1>3

\* Init establishes the invariant.
LEMMA InvInit == Init => Inv
<1> SUFFICES ASSUME Init PROVE Inv
  OBVIOUS
<1>1. WorkTypes /\ Hands /\ Losses /\ Returns
  BY ProcessAssumption DEF Init, WorkTypes, Hands, Losses, Returns, Holding, Fate
<1>2. Counts
  <2>1. AtWork = {}
    BY DEF Init, AtWork
  <2> QED
    BY <2>1, FS_EmptySet, ProcessAssumption DEF Init, Counts
<1>3. RunnerInv /\ MonitorInv
  <2>1. <<>> \in Seq(Peer)
    OBVIOUS
  <2> QED
    BY <2>1 DEF Init, RunnerInv, MonitorInv, MonitorState
<1> QED
  BY <1>1, <1>2, <1>3 DEF Inv, WorkInv

-----------------------------------------------------------------------------
(* The steps of the worker.                                                *)

\* A step of the coordinator that writes no task.
LEMMA CoordinatorStep ==
    ASSUME WorkInv, coordinator.at # "ended",
           coordinator' \in [at : {"slot", "claim", "ended"} \cup Holding,
                             why : {"late", "rejected", "broken", "renewal"}],
           coordinator'.at \in Holding <=> coordinator.at \in Holding,
           slots' = slots + (IF coordinator'.at \in {"slot", "ended"} THEN 0 ELSE 1)
                          - (IF coordinator.at \in {"slot", "ended"} THEN 0 ELSE 1),
           slots' <= Capacity,
           failures' \in {failures, "fatal"},
           UNCHANGED <<task, claims, tracker, run, timedOut>>
    PROVE  WorkInv'
<1>1. WorkTypes'
  BY DEF WorkInv, WorkTypes
<1>2. Hands' /\ Losses' /\ Returns'
  BY DEF WorkInv, Hands, Losses, Returns, Finished
<1>3. AtWork' = AtWork
  BY DEF AtWork
<1>4. Counts'
  BY <1>3 DEF WorkInv, WorkTypes, Counts
<1> QED
  BY <1>1, <1>2, <1>4 DEF WorkInv

\* The coordinator starts the task in its hands, gives it back or loses it.
LEMMA HandStep ==
    ASSUME WorkInv, coordinator.at \in {"add", "release"},
           NEW how \in {"execute", "settled", "lost"}, task' = [task EXCEPT ![claims] = how],
           coordinator' \in [at : {"slot", "ended"}, why : {"late", "rejected", "broken", "renewal"}],
           slots' = slots - (IF how = "execute" THEN 0 ELSE 1),
           tracker' = [tracker EXCEPT !.count = @ + (IF how = "execute" THEN 1 ELSE 0)],
           failures' \in {failures, "noted", "fatal"}, how = "lost" => failures' # "none",
           failures # "none" => failures' # "none",
           UNCHANGED <<claims, run, timedOut>>
    PROVE  WorkInv'
<1>1. claims \in Token /\ task[claims] = "hand"
  BY DEF WorkInv, Hands, Holding
<1>2. /\ task'[claims] = how /\ \A k \in Token : k # claims => task'[k] = task[k]
      /\ \A k \in Token : task'[k] # "hand" /\ (k > claims => task'[k] = "none")
  BY <1>1 DEF WorkInv, WorkTypes, Hands, Token
<1>3. WorkTypes'
  <2>1. tracker' \in [count : Int, stopped : BOOLEAN] /\ slots' \in Int
    BY DEF WorkInv, WorkTypes
  <2>2. task' \in [Token -> Fate]
    BY DEF WorkInv, WorkTypes, Fate, Working
  <2> QED
    BY <2>1, <2>2 DEF WorkInv, WorkTypes
<1>4. Hands'
  BY <1>2 DEF Hands, Holding
<1>5. Losses'
  BY <1>2 DEF WorkInv, Losses
<1>6. Returns'
  BY DEF WorkInv, Returns, Finished
<1>7. /\ task[claims] \notin Working /\ (how \in Working <=> how = "execute")
      /\ tracker.count \in Int /\ slots \in Int
      /\ slots = tracker.count + 1 /\ slots <= Capacity /\ Capacity \in Int
      /\ tracker.count = Cardinality(AtWork)
  BY <1>1, ProcessAssumption DEF Working, WorkInv, WorkTypes, Counts
<1>8. Counts'
  <2>1. CASE how = "execute"
    <3>1. Cardinality(AtWork)' = Cardinality(AtWork) + 1
      BY <1>1, <1>7, <2>1, CountTask DEF WorkInv
    <3>2. tracker'.count = tracker.count + 1 /\ slots' = slots
      BY <1>7, <2>1 DEF WorkInv, WorkTypes
    <3> QED
      BY <1>7, <3>1, <3>2 DEF Counts
  <2>2. CASE how # "execute"
    <3>1. Cardinality(AtWork)' = Cardinality(AtWork)
      <4>1. how \notin Working /\ task[claims] \notin Working
        BY <1>7, <2>2
      <4> HIDE DEF Working
      <4> QED
        BY <1>1, <4>1, CountTask DEF WorkInv
    <3>2. tracker'.count = tracker.count /\ slots' = slots - 1
      BY <1>7, <2>2 DEF WorkInv, WorkTypes
    <3> QED
      BY <1>7, <3>1, <3>2 DEF Counts
  <2> QED
    BY <2>1, <2>2
<1> QED
  BY <1>3, <1>4, <1>5, <1>6, <1>8 DEF WorkInv

\* The steps of the coordinator keep the accounts.
LEMMA CoordinateInv ==
    ASSUME WorkInv, Coordinate
    PROVE  WorkInv' /\ UNCHANGED <<run, runner, root, monitor, database>>
<1> USE ProcessAssumption
<1>0. /\ UNCHANGED <<run, runner, root, monitor, database>>
  BY DEF Coordinate, TakeSlot, Claim, ClaimFails, Resolve, Renew, Add, HandBack, jobs, top
<1>1. /\ coordinator \in [at : {"slot", "claim", "ended"} \cup Holding,
                          why : {"late", "rejected", "broken", "renewal"}]
      /\ slots \in Int /\ slots <= Capacity
  BY DEF WorkInv, WorkTypes, Counts
<1>2. CASE TakeSlot
  <2>1. /\ coordinator.at = "slot"
        /\ coordinator' \in [at : {"claim", "ended"}, why : {"late", "rejected", "broken", "renewal"}]
        /\ slots' = slots + (IF coordinator'.at = "ended" THEN 0 ELSE 1) /\ slots' <= Capacity
    BY <1>1, <1>2 DEF TakeSlot
  <2> QED
    BY <1>0, <1>2, <2>1, CoordinatorStep DEF TakeSlot, Holding, tasks
<1>3. CASE Claim
  <2>1. claims + 1 \in Token /\ claims' = claims + 1 /\ claims \in Nat
    BY <1>3 DEF Claim, WorkInv, WorkTypes, Token
  <2>2. task' = [task EXCEPT ![claims + 1] = "hand"] /\ task[claims + 1] = "none"
    BY <1>3, <2>1 DEF Claim, WorkInv, Hands
  <2>3. /\ coordinator' \in [at : {"resolve", "release"}, why : {"late"}]
        /\ coordinator.at = "claim" /\ UNCHANGED <<slots, tracker, run, timedOut, failures>>
    BY <1>3 DEF Claim
  <2>4. Cardinality(AtWork)' = Cardinality(AtWork)
    <3>1. task[claims + 1] \notin Working /\ "hand" \notin Working
      BY <2>2 DEF Working
    <3> QED
      BY <2>1, <2>2, <3>1, CountTask DEF WorkInv
  <2>5. WorkTypes'
    BY <2>1, <2>2, <2>3 DEF WorkInv, WorkTypes, Fate, Holding, Token
  <2>6. Hands'
    BY <2>1, <2>2, <2>3 DEF WorkInv, WorkTypes, Hands, Holding, Token
  <2>7. Counts'
    BY <2>3, <2>4 DEF WorkInv, Counts
  <2>8. Losses' /\ Returns'
    BY <2>1, <2>2, <2>3 DEF WorkInv, WorkTypes, Losses, Returns, Finished
  <2> QED
    BY <1>0, <2>5, <2>6, <2>7, <2>8 DEF WorkInv
<1>4. CASE ClaimFails
  <2>1. /\ coordinator.at = "claim"
        /\ coordinator' \in [at : {"slot", "ended"}, why : {"late", "rejected", "broken", "renewal"}]
        /\ slots' = slots - 1 /\ slots' <= Capacity
        /\ failures' \in {failures, "fatal"}
    BY <1>1, <1>4 DEF ClaimFails, Reports, Fatal
  <2>2. UNCHANGED <<task, claims, tracker, run, timedOut>>
    BY <1>4 DEF ClaimFails, tasks
  <2>3. WorkInv'
    <3>1. /\ coordinator' \in [at : {"slot", "claim", "ended"} \cup Holding,
                               why : {"late", "rejected", "broken", "renewal"}]
          /\ coordinator'.at \notin Holding /\ coordinator.at \notin Holding
          /\ coordinator'.at \in {"slot", "ended"}
      BY <2>1 DEF Holding
    <3> QED
      BY <1>1, <2>1, <2>2, <3>1, CoordinatorStep
  <2> QED
    BY <1>0, <2>3
<1>5. CASE Resolve \/ Renew
  <2>1. /\ coordinator.at \in {"resolve", "renew"}
        /\ coordinator' \in [at : {"renew", "add", "release"},
                              why : {"late", "rejected", "broken", "renewal"}]
    BY <1>5 DEF Resolve, Renew
  <2>2. UNCHANGED <<task, claims, slots, tracker, run, claiming, failures, timedOut>>
    BY <1>5 DEF Resolve, Renew, tasks
  <2> QED
    BY <1>0, <1>1, <2>1, <2>2, CoordinatorStep DEF Holding
<1>6. CASE Add
  <2>1. CASE tracker.stopped
    <3>1. /\ coordinator.at = "add" /\ coordinator' = [at |-> "release", why |-> "late"]
          /\ UNCHANGED <<task, claims, slots, tracker, run, failures, timedOut>>
      BY <1>6, <2>1 DEF Add
    <3> QED
      BY <1>0, <1>1, <3>1, CoordinatorStep DEF Holding
  <2>2. CASE ~tracker.stopped
    <3>1. /\ task' = [task EXCEPT ![claims] = "execute"]
          /\ tracker' = [tracker EXCEPT !.count = @ + 1]
          /\ coordinator' = [coordinator EXCEPT !.at = "slot"] /\ coordinator.at = "add"
          /\ UNCHANGED <<claims, slots, run, failures, timedOut>>
      BY <1>6, <2>2 DEF Add
    <3>2. coordinator' \in [at : {"slot", "ended"}, why : {"late", "rejected", "broken", "renewal"}]
      BY <1>1, <3>1
    <3> QED
      BY <1>0, <1>1, <3>1, <3>2, HandStep
  <2> QED
    BY <2>1, <2>2
<1>7. CASE HandBack
  <2>1. PICK released \in BOOLEAN :
            /\ task' = [task EXCEPT ![claims] = IF released THEN "settled" ELSE "lost"]
            /\ AfterRelease(coordinator.why, released)
    BY <1>7 DEF HandBack
  <2>2. /\ coordinator.at = "release" /\ slots' = slots - 1
        /\ UNCHANGED <<claims, tracker, run, timedOut>>
    BY <1>7 DEF HandBack
  <2>3. coordinator' \in [at : {"slot", "ended"}, why : {"late", "rejected", "broken", "renewal"}]
    BY <2>1 DEF AfterRelease
  <2>4. /\ failures' \in {failures, "noted", "fatal"}
        /\ failures # "none" => failures' # "none"
        /\ ~released => failures' # "none"
    BY <2>1 DEF AfterRelease, Reports, Fatal, Note
  <2> DEFINE how == IF released THEN "settled" ELSE "lost"
  <2>5. /\ how \in {"execute", "settled", "lost"} /\ how # "execute"
        /\ how = "lost" => failures' # "none"
    BY <2>4
  <2>6. tracker' = [tracker EXCEPT !.count = @ + (IF how = "execute" THEN 1 ELSE 0)]
    BY <2>2, <2>5 DEF WorkInv, WorkTypes
  <2>7. task' = [task EXCEPT ![claims] = how] /\ slots' = slots - (IF how = "execute" THEN 0 ELSE 1)
    BY <2>1, <2>2, <2>5
  <2> HIDE DEF how
  <2>8. WorkInv'
    BY <2>2, <2>3, <2>4, <2>5, <2>6, <2>7, HandStep
  <2> QED
    BY <1>0, <2>8
<1> QED
  BY <1>0, <1>2, <1>3, <1>4, <1>5, <1>6, <1>7 DEF Coordinate

\* An execution that goes on or ends.
LEMMA ExecutionStep ==
    ASSUME WorkInv, NEW k \in Token, task[k] \in Working,
           NEW how \in {"release", "settled", "lost"}, task' = [task EXCEPT ![k] = how],
           how = "release" => UNCHANGED <<slots, tracker>>,
           how # "release" => /\ slots' = slots - 1
                              /\ tracker' = [tracker EXCEPT !.count = @ - 1],
           failures' \in {failures, "fatal"}, how = "lost" => failures' = "fatal",
           UNCHANGED <<claims, coordinator, run, timedOut>>
    PROVE  WorkInv'
<1>1. /\ task'[k] = how /\ \A j \in Token : j # k => task'[j] = task[j]
      /\ k <= claims
      /\ k = claims => coordinator.at \notin Holding
  BY DEF WorkInv, WorkTypes, Hands, Working, Token
<1>2. /\ tracker.count \in Int /\ slots \in Int /\ slots <= Capacity /\ Capacity \in Int
      /\ tracker.count = Cardinality(AtWork) /\ Cardinality(AtWork) \in Nat
      /\ slots = tracker.count + (IF coordinator.at \in {"slot", "ended"} THEN 0 ELSE 1)
  BY AtWorkFinite, ProcessAssumption DEF WorkInv, WorkTypes, Counts
<1>3. CASE how = "release"
  <2>1. Cardinality(AtWork)' = Cardinality(AtWork)
    <3>1. how \in Working
      BY <1>3 DEF Working
    <3> QED
      BY <3>1, CountTask DEF WorkInv
  <2>2. Counts'
    BY <1>2, <1>3, <2>1 DEF Counts
  <2>3. WorkTypes'
    BY <1>3 DEF WorkInv, WorkTypes, Fate, Working
  <2>4. Hands' /\ Losses' /\ Returns'
    BY <1>1, <1>3 DEF WorkInv, WorkTypes, Hands, Losses, Returns, Finished, Token
  <2> QED
    BY <2>2, <2>3, <2>4 DEF WorkInv
<1>4. CASE how # "release"
  <2>1. Cardinality(AtWork)' = Cardinality(AtWork) - 1
    <3>1. how \notin Working
      BY <1>4 DEF Working
    <3> QED
      BY <3>1, CountTask DEF WorkInv
  <2>2. tracker'.count = tracker.count - 1 /\ slots' = slots - 1
    BY <1>4 DEF WorkInv, WorkTypes
  <2>3. Counts'
    BY <1>2, <2>1, <2>2 DEF Counts
  <2>4. WorkTypes'
    <3>1. tracker' \in [count : Int, stopped : BOOLEAN] /\ slots' \in Int
      BY <1>2, <1>4, <2>2 DEF WorkInv, WorkTypes
    <3>2. task' \in [Token -> Fate]
      BY DEF WorkInv, WorkTypes, Fate, Working
    <3> QED
      BY <3>1, <3>2 DEF WorkInv, WorkTypes
  <2>5. Hands' /\ Losses'
    BY <1>1 DEF WorkInv, WorkTypes, Hands, Losses, Token
  <2>6. Returns'
    <3>1. tracker.count >= 1
      <4>1. AtWork # {}
        BY DEF AtWork, Working
      <4> QED
        BY <1>2, <4>1, AtWorkFinite, FS_EmptySet
    <3> QED
      BY <3>1 DEF WorkInv, Returns, Finished
  <2> QED
    BY <2>3, <2>4, <2>5, <2>6 DEF WorkInv
<1> QED
  BY <1>3, <1>4

\* The executions keep the accounts.
LEMMA ExecutionInv ==
    ASSUME WorkInv, NEW k \in Token, Execute(k) \/ Release(k)
    PROVE  WorkInv' /\ UNCHANGED <<run, runner, root, monitor, database>>
<1>1. /\ UNCHANGED <<run, runner, root, monitor, database>>
      /\ UNCHANGED <<claims, coordinator, timedOut>> /\ task[k] \in Working
  BY DEF Execute, Release, jobs, top, Working
<1>2. PICK how \in {"release", "settled", "lost"} :
          /\ task' = [task EXCEPT ![k] = how]
          /\ how = "release" => UNCHANGED <<slots, tracker>>
          /\ how # "release" => /\ slots' = slots - 1
                                /\ tracker' = [tracker EXCEPT !.count = @ - 1]
          /\ failures' \in {failures, "fatal"} /\ (how = "lost" => failures' = "fatal")
  BY DEF Execute, Release, Ends, Reports, Fatal
<1> QED
  BY <1>1, <1>2, ExecutionStep

\* Worker.Run stops the claims and the executions, and returns.
LEMMA StopInv ==
    ASSUME WorkInv, Stop
    PROVE  /\ WorkInv' /\ UNCHANGED <<runner, root, monitor, database>>
           /\ run = "returned" => run' = "returned"
<1>1. /\ UNCHANGED <<runner, root, monitor, database>>
      /\ UNCHANGED <<task, claims, coordinator, slots>> /\ run # "returned"
  BY DEF Stop, StopClaims, StopAdding, Return, tasks, jobs, top
<1>2. /\ tracker'.count = tracker.count /\ failures' \in {failures, "fatal"}
      /\ run' \in {"stopping", "draining", "returned"}
      /\ run' = "returned" => timedOut' = ~Finished /\ UNCHANGED tracker
      /\ tracker' \in [count : Int, stopped : BOOLEAN]
  BY DEF Stop, StopClaims, StopAdding, Return, WorkInv, WorkTypes
<1>3. WorkTypes'
  BY <1>1, <1>2 DEF WorkInv, WorkTypes
<1>4. Hands' /\ Losses'
  BY <1>1, <1>2 DEF WorkInv, Hands, Losses
<1>5. Counts'
  BY <1>1, <1>2 DEF WorkInv, Counts, AtWork
<1>6. Returns'
  BY <1>1, <1>2 DEF Returns, Finished
<1> QED
  BY <1>1, <1>3, <1>4, <1>5, <1>6 DEF WorkInv

\* A step of the others leaves the worker as it is.
LEMMA SameWork ==
    ASSUME WorkInv, UNCHANGED <<task, claims, coordinator, slots, tracker, run, failures, timedOut>>
    PROVE  WorkInv'
  BY DEF WorkInv, WorkTypes, Hands, Counts, AtWork, Losses, Returns, Finished

-----------------------------------------------------------------------------
(* The runner and the monitor.                                             *)

\* What the runner has joined stays returned, and what the monitor has waited
\* for, over.
LEMMA SameTop ==
    ASSUME RunnerInv, MonitorInv, UNCHANGED <<runner, root, monitor, database>>,
           run = "returned" => run' = "returned"
    PROVE  RunnerInv' /\ MonitorInv'
  BY DEF RunnerInv, MonitorInv, Waited, RunnerReturned

\* The runner joins what has returned, and returns with all or with its timer.
LEMMA SuperviseInv ==
    ASSUME RunnerInv, MonitorInv, Supervise
    PROVE  /\ RunnerInv' /\ MonitorInv'
           /\ UNCHANGED <<task, claims, coordinator, slots, tracker, run, failures, timedOut>>
<1>1. /\ UNCHANGED <<task, claims, coordinator, slots, tracker, run, failures, timedOut>>
      /\ UNCHANGED <<root, monitor, database>>
  BY DEF Supervise, Join, RunnerStops, RunnerReturns, tasks, worker, top
<1>2. RunnerReturned => RunnerReturned'
  BY DEF RunnerReturned, Supervise, Join, RunnerStops, RunnerReturns
<1>3. MonitorInv'
  BY <1>1, <1>2 DEF MonitorInv, Waited
<1>4. ASSUME NEW j \in Job, Join(j)
      PROVE  RunnerInv'
  <2>1. runner'.joined = runner.joined \cup {j} /\ Returned(j) /\ runner'.at = "stopping"
    BY <1>4 DEF Join, RunnerInv
  <2>2. runner' \in [at : {"running", "stopping", "failure", "cancelled", "timeout"},
                     joined : SUBSET Job, primary : BOOLEAN]
    <3>1. PICK cancelled \in Cancellations(j) :
              runner' = [runner EXCEPT
                            !.at = "stopping",
                            !.joined = @ \cup {j},
                            !.primary = @ \/ ~cancelled
                                          \/ (runner.at = "running" /\ root = "live")]
      BY <1>4 DEF Join
    <3> DEFINE p == runner.primary \/ ~cancelled \/ (runner.at = "running" /\ root = "live")
    <3>2. p \in BOOLEAN
      OBVIOUS
    <3>3. runner' = [runner EXCEPT !.at = "stopping", !.joined = @ \cup {j}, !.primary = p]
      BY <3>1
    <3> HIDE DEF p
    <3> QED
      BY <3>2, <3>3 DEF RunnerInv
  <2> QED
    BY <1>1, <2>1, <2>2 DEF RunnerInv, Returned
<1>5. ASSUME RunnerStops \/ RunnerReturns
      PROVE  RunnerInv'
  BY <1>1, <1>5 DEF RunnerInv, RunnerStops, RunnerReturns
<1> QED
  BY <1>1, <1>3, <1>4, <1>5 DEF Supervise

\* The monitor closes the pool after it has waited for the runner.
LEMMA MonitorStep ==
    ASSUME RunnerInv, MonitorInv, Monitor
    PROVE  /\ RunnerInv' /\ MonitorInv'
           /\ UNCHANGED <<task, claims, coordinator, slots, tracker, run, failures, timedOut>>
<1>1. UNCHANGED <<task, claims, coordinator, slots, tracker, run, failures, timedOut, runner>>
  BY DEF Monitor, Notices, Wait, CloseResources, Exits, tasks, worker, jobs
<1>2. RunnerInv'
  BY <1>1 DEF RunnerInv, Monitor, Notices, Wait, CloseResources, Exits
<1>3. ASSUME NEW c \in {"server", "reaper", "root"}, Notices(c)
      PROVE  MonitorInv'
  <2>1. /\ monitor' = [at |-> "wait", cause |-> c, todo |-> Waits(c), failed |-> {}]
        /\ UNCHANGED database /\ monitor.at = "select"
        /\ c = "reaper" => RunnerReturned
    BY <1>3 DEF Notices
  <2>2. /\ Waits("server") = <<"worker", "reaper">> /\ Waits("reaper") = <<"server", "worker">>
        /\ Waits("root") = <<"server", "worker", "reaper">>
    BY DEF Waits
  <2>3. Waits(c) \in Seq(Peer)
    <3>1. /\ <<"worker", "reaper">> \in Seq(Peer) /\ <<"server", "worker">> \in Seq(Peer)
          /\ <<"server", "worker", "reaper">> \in Seq(Peer)
      BY DEF Peer
    <3> QED
      BY <2>2, <3>1
  <2>4. c # "reaper" => \E i \in 1 .. Len(Waits(c)) : Waits(c)[i] = "reaper"
    <3>1. CASE c = "server"
      <4>1. Len(Waits(c)) = 2 /\ Waits(c)[2] = "reaper"
        BY <2>2, <3>1
      <4> QED
        BY <4>1
    <3>2. CASE c = "root"
      <4>1. Len(Waits(c)) = 3 /\ Waits(c)[3] = "reaper"
        BY <2>2, <3>2
      <4> QED
        BY <4>1
    <3> QED
      BY <3>1, <3>2
  <2>5. monitor' \in MonitorState
    BY <2>1, <2>3 DEF MonitorState
  <2>6. c = "reaper" => Waited'
    BY <1>1, <2>1 DEF Waited, RunnerReturned
  <2> QED
    BY <2>1, <2>4, <2>5, <2>6 DEF MonitorInv
<1>4. CASE Wait
  <2>1. CASE monitor.todo = <<>>
    <3>1. monitor' = [monitor EXCEPT !.at = "resources"] /\ monitor.at = "wait" /\ UNCHANGED database
      BY <1>4, <2>1 DEF Wait
    <3>2. ~\E i \in 1 .. Len(monitor.todo) : monitor.todo[i] = "reaper"
      <4>1. Len(monitor.todo) = 0
        BY <2>1
      <4> QED
        BY <4>1
    <3>3. /\ monitor' \in MonitorState /\ monitor'.at = "resources" /\ monitor'.failed = monitor.failed
      BY <3>1 DEF MonitorInv, MonitorState
    <3>4. Waited'
      BY <1>1, <3>1, <3>2, <3>3 DEF MonitorInv, Waited, RunnerReturned
    <3>5. database' \/ monitor'.at = "exit"
      BY <3>1, Zenon DEF MonitorInv
    <3> QED
      BY <1>1, <1>2, <3>3, <3>4, <3>5 DEF MonitorInv
  <2>2. CASE monitor.todo # <<>>
    <3>1. PICK o \in Outcomes(monitor.todo[1]) :
              monitor' = [monitor EXCEPT !.todo = Tail(@), !.failed = @ \cup ({o} \ {"nothing"})]
      BY <1>4, <2>2 DEF Wait
    <3>2. /\ monitor \in MonitorState /\ monitor.todo \in Seq(Peer)
          /\ monitor.at = "wait" /\ UNCHANGED database
      BY <1>4 DEF Wait, MonitorInv, MonitorState
    <3>3. /\ monitor.todo[1] \in Peer /\ Tail(monitor.todo) \in Seq(Peer)
          /\ Len(monitor.todo) \in Nat /\ Len(monitor.todo) >= 1
          /\ Len(Tail(monitor.todo)) = Len(monitor.todo) - 1
          /\ \A i \in 1 .. Len(monitor.todo) - 1 : Tail(monitor.todo)[i] = monitor.todo[i + 1]
      BY <2>2, <3>2
    <3>4. /\ o \in {"worker", "other", "nothing", "reaper timeout"}
          /\ monitor.todo[1] = "reaper" => RunnerReturned \/ o = "reaper timeout"
      BY <3>1, <3>3 DEF Outcomes, Peer
    <3>6. /\ monitor'.at = "wait" /\ monitor'.todo = Tail(monitor.todo)
          /\ monitor'.failed = monitor.failed \cup ({o} \ {"nothing"})
          /\ monitor' \in MonitorState
      BY <3>1, <3>2, <3>3, <3>4 DEF MonitorState
    <3>5. Waited' \/ \E i \in 1 .. Len(monitor'.todo) : monitor'.todo[i] = "reaper"
      <4>1. CASE Waited
        BY <1>1, <3>6, <4>1 DEF Waited, RunnerReturned
      <4>2. CASE ~Waited
        <5>1. PICK i \in 1 .. Len(monitor.todo) : monitor.todo[i] = "reaper"
          BY <3>2, <4>2 DEF MonitorInv
        <5>2. CASE i = 1
          BY <1>1, <3>4, <3>6, <5>1, <5>2 DEF Waited, RunnerReturned
        <5>3. CASE i # 1
          <6>1. /\ i - 1 \in 1 .. Len(monitor.todo) - 1 /\ (i - 1) + 1 = i
            BY <3>3, <5>1, <5>3
          <6>2. /\ i - 1 \in 1 .. Len(monitor'.todo) /\ monitor'.todo[i - 1] = monitor.todo[i]
            BY <3>3, <3>6, <6>1
          <6> QED
            BY <5>1, <6>2
        <5> QED
          BY <5>2, <5>3
      <4> QED
        BY <4>1, <4>2
    <3> QED
      <4>1. database' \/ monitor'.at = "exit"
        BY <3>2, Zenon DEF MonitorInv
      <4> QED
        BY <1>1, <1>2, <3>5, <3>6, <4>1 DEF MonitorInv
  <2> QED
    BY <2>1, <2>2
<1>5. CASE CloseResources \/ Exits
  <2>1. /\ monitor.at \in {"resources", "exit"} /\ monitor'.at = "exit"
        /\ monitor.failed \subseteq monitor'.failed
        /\ monitor' \in MonitorState
    <3>1. CASE CloseResources
      <4>1. PICK failed \in BOOLEAN :
                monitor' = [monitor EXCEPT !.at = "exit",
                               !.failed = IF failed THEN @ \cup {"other"} ELSE @]
        BY <3>1 DEF CloseResources
      <4> QED
        BY <3>1, <4>1 DEF CloseResources, MonitorInv, MonitorState
    <3>2. CASE Exits
      BY <3>2 DEF Exits, MonitorInv
    <3> QED
      BY <1>5, <3>1, <3>2
  <2> QED
    <3>1. Waited'
      BY <1>1, <2>1 DEF MonitorInv, Waited, RunnerReturned
    <3> QED
      BY <1>1, <1>2, <2>1, <3>1 DEF MonitorInv
<1> QED
  BY <1>1, <1>2, <1>3, <1>4, <1>5 DEF Monitor

-----------------------------------------------------------------------------
(* The theorems.                                                           *)

\* Every step keeps the invariant.
LEMMA InvNext == Inv /\ [Next]_vars => Inv'
<1> SUFFICES ASSUME Inv, [Next]_vars
             PROVE  Inv'
  OBVIOUS
<1> USE DEF Inv
<1>1. CASE Coordinate
  BY <1>1, CoordinateInv, SameTop
<1>2. ASSUME NEW k \in Token, Execute(k) \/ Release(k)
      PROVE  Inv'
  BY <1>2, ExecutionInv, SameTop
<1>3. CASE Stop
  BY <1>3, StopInv, SameTop
<1>4. CASE Supervise
  BY <1>4, SuperviseInv, SameWork
<1>5. CASE Monitor
  BY <1>5, MonitorStep, SameWork
<1>6. CASE (\E l \in Loop : LoopEnds(l)) \/ ServerBreaks \/ UNCHANGED vars
  <2>1. /\ UNCHANGED <<task, claims, coordinator, slots, tracker, run, failures, timedOut>>
        /\ UNCHANGED <<runner, root, monitor, database>>
    BY <1>6 DEF LoopEnds, ServerBreaks, vars, tasks, worker, jobs, top
  <2> QED
    BY <2>1, SameWork, SameTop
<1>7. CASE Signal
  <2>1. /\ UNCHANGED <<task, claims, coordinator, slots, tracker, run, failures, timedOut>>
        /\ UNCHANGED <<runner, monitor, database>> /\ root' = "signalled"
    BY <1>7 DEF Signal, tasks, worker
  <2>2. RunnerInv' /\ MonitorInv'
    BY <2>1 DEF RunnerInv, MonitorInv, Waited, RunnerReturned
  <2> QED
    BY <2>1, <2>2, SameWork
<1> QED
  BY <1>1, <1>2, <1>3, <1>4, <1>5, <1>6, <1>7 DEF Next

\* The inductive invariant holds in every reachable state.
THEOREM InvCorrect == Spec => []Inv
  BY InvInit, InvNext, PTL DEF Spec

\* Every slot is that of an execution or of the task the coordinator is busy with,
\* on every path through coordinate and execute, and there are never more than
\* executionCapacity of them.
THEOREM TypeCorrect == Spec => []TypeOK
<1>1. Inv => TypeOK
  BY DEF Inv, WorkInv, WorkTypes, Counts, RunnerInv, TypeOK, Fate, Working
<1> QED
  BY <1>1, InvCorrect, PTL

\* A return of Worker.Run without a timeout leaves nothing behind, and the pool is
\* closed under an execution only after a wait has timed out.
THEOREM PoolOutlivesWork == Spec => []DatabaseOutlivesWork
<1>1. Inv => DatabaseOutlivesWork
  <2> SUFFICES ASSUME Inv PROVE DatabaseOutlivesWork
    OBVIOUS
  <2>1. tracker.count = 0 => AtWork = {}
    BY AtWorkFinite, FS_EmptySet DEF Inv, WorkInv, Counts
  <2>2. CleanReturn
    <3> SUFFICES ASSUME run = "returned", ~timedOut PROVE
                     /\ \A k \in Token : task[k] \in {"none", "settled", "lost"}
                     /\ (\E k \in Token : task[k] = "lost") => failures # "none"
      BY DEF CleanReturn
    <3>1. AtWork = {} /\ coordinator.at = "ended"
      BY <2>1 DEF Inv, WorkInv, Returns, Finished
    <3> QED
      BY <3>1 DEF Inv, WorkInv, WorkTypes, Hands, Losses, AtWork, Fate, Working, Holding
  <2>3. ASSUME ~database, AtWork # {} \/ coordinator.at # "ended"
        PROVE  timedOut \/ runner.at = "timeout" \/ "reaper timeout" \in monitor.failed
    <3>1. Waited
      BY <2>3 DEF Inv, MonitorInv
    <3>2. runner.at \in {"failure", "cancelled"} => run = "returned"
      BY DEF Inv, RunnerInv, Job
    <3>3. run = "returned" => timedOut
      BY <2>1, <2>3 DEF Inv, WorkInv, Returns, Finished
    <3> QED
      BY <3>1, <3>2, <3>3 DEF Waited, RunnerReturned
  <2> QED
    BY <2>2, <2>3 DEF DatabaseOutlivesWork
<1> QED
  BY <1>1, InvCorrect, PTL

\* The monitor waits for the worker before it exits, in vain.
WorkerMissed ==
    /\ monitor.at = "wait" =>
          "worker" \in monitor.failed \/ \E i \in 1 .. Len(monitor.todo) : monitor.todo[i] = "worker"
    /\ monitor.at \in {"resources", "exit"} => "worker" \in monitor.failed
    /\ exit # "none" => exit = "failure" /\ monitor.at = "exit"

\* Every case of the select has the worker among its waits, and no wait for it
\* ends well.
LEMMA WorkerMissedNext ==
    ASSUME Inv, WorkerMissed, [Next]_vars
    PROVE  WorkerMissed'
<1>0. monitor \in MonitorState
  BY DEF Inv, MonitorInv
<1>1. ASSUME UNCHANGED <<monitor, exit>> PROVE WorkerMissed'
  BY <1>1 DEF WorkerMissed
<1>2. ASSUME NEW c \in {"server", "reaper", "root"}, Notices(c) PROVE WorkerMissed'
  <2>1. /\ monitor' = [at |-> "wait", cause |-> c, todo |-> Waits(c), failed |-> {}]
        /\ monitor.at = "select" /\ UNCHANGED exit
    BY <1>2 DEF Notices
  <2>2. /\ Waits("server") = <<"worker", "reaper">> /\ Waits("reaper") = <<"server", "worker">>
        /\ Waits("root") = <<"server", "worker", "reaper">>
    BY DEF Waits
  <2>3. CASE c = "server"
    <3>1. Len(Waits(c)) = 2 /\ Waits(c)[1] = "worker"
      BY <2>2, <2>3
    <3>2. 1 \in 1 .. Len(Waits(c))
      BY <3>1
    <3> QED
      BY <2>1, <3>1, <3>2 DEF WorkerMissed
  <2>4. CASE c # "server"
    <3>1. Len(Waits(c)) \in {2, 3} /\ Waits(c)[2] = "worker"
      BY <2>2, <2>4
    <3>2. 2 \in 1 .. Len(Waits(c))
      BY <3>1
    <3> QED
      BY <2>1, <3>1, <3>2 DEF WorkerMissed
  <2> QED
    BY <2>3, <2>4
<1>3. CASE Wait
  <2>1. CASE monitor.todo = <<>>
    <3>1. monitor' = [monitor EXCEPT !.at = "resources"] /\ monitor.at = "wait" /\ UNCHANGED exit
      BY <1>3, <2>1 DEF Wait
    <3>2. Len(monitor.todo) = 0
      BY <2>1
    <3>3. ~\E i \in 1 .. Len(monitor.todo) : monitor.todo[i] = "worker"
      BY <3>2
    <3>4. monitor'.at = "resources" /\ monitor'.failed = monitor.failed
      BY <1>0, <3>1 DEF MonitorState
    <3> QED
      BY <3>1, <3>3, <3>4 DEF WorkerMissed
  <2>2. CASE monitor.todo # <<>>
    <3>1. PICK o \in Outcomes(monitor.todo[1]) :
              monitor' = [monitor EXCEPT !.todo = Tail(@), !.failed = @ \cup ({o} \ {"nothing"})]
      BY <1>3, <2>2 DEF Wait
    <3>2. monitor.at = "wait" /\ UNCHANGED exit
      BY <1>3 DEF Wait
    <3>3. /\ monitor'.at = "wait" /\ monitor'.todo = Tail(monitor.todo)
          /\ monitor'.failed = monitor.failed \cup ({o} \ {"nothing"})
      BY <1>0, <3>1, <3>2 DEF MonitorState
    <3>4. monitor.todo[1] = "worker" => o = "worker"
      BY <3>1 DEF Outcomes
    <3>5. monitor.todo \in Seq(Peer)
      BY <1>0 DEF MonitorState
    <3>6. /\ Len(monitor.todo) \in Nat /\ Len(Tail(monitor.todo)) = Len(monitor.todo) - 1
          /\ \A i \in 1 .. Len(monitor.todo) - 1 : Tail(monitor.todo)[i] = monitor.todo[i + 1]
      BY <2>2, <3>5
    <3>7. "worker" \in monitor'.failed \/ \E i \in 1 .. Len(monitor'.todo) : monitor'.todo[i] = "worker"
      <4>1. CASE "worker" \in monitor.failed
        BY <3>3, <4>1
      <4>2. CASE "worker" \notin monitor.failed
        <5>1. PICK i \in 1 .. Len(monitor.todo) : monitor.todo[i] = "worker"
          BY <3>2, <4>2 DEF WorkerMissed
        <5>2. CASE i = 1
          BY <3>3, <3>4, <5>1, <5>2
        <5>3. CASE i # 1
          <6>1. i - 1 \in 1 .. Len(monitor.todo) - 1 /\ (i - 1) + 1 = i
            BY <3>6, <5>1, <5>3
          <6>2. i - 1 \in 1 .. Len(monitor'.todo) /\ monitor'.todo[i - 1] = monitor.todo[i]
            BY <3>3, <3>6, <6>1
          <6> QED
            BY <5>1, <6>2
        <5> QED
          BY <5>2, <5>3
      <4> QED
        BY <4>1, <4>2
    <3> QED
      BY <3>2, <3>3, <3>7 DEF WorkerMissed
  <2> QED
    BY <2>1, <2>2
<1>4. CASE CloseResources
  <2>1. PICK failed \in BOOLEAN :
            monitor' = [monitor EXCEPT !.at = "exit",
                           !.failed = IF failed THEN @ \cup {"other"} ELSE @]
    BY <1>4 DEF CloseResources
  <2>2. monitor.at = "resources" /\ UNCHANGED exit
    BY <1>4 DEF CloseResources
  <2>3. monitor'.at = "exit" /\ monitor.failed \subseteq monitor'.failed
    BY <1>0, <2>1 DEF MonitorState
  <2> QED
    BY <2>2, <2>3 DEF WorkerMissed
<1>5. CASE Exits
  <2>1. monitor.at = "exit" /\ UNCHANGED monitor
    BY <1>5 DEF Exits
  <2>2. monitor.failed # {} => exit' = "failure"
    BY <1>5 DEF Exits
  <2> QED
    BY <2>1, <2>2 DEF WorkerMissed
<1>6. CASE ~Monitor
  <2>1. UNCHANGED <<monitor, exit>>
    BY <1>6, Zenon DEF Next, Coordinate, TakeSlot, Claim, ClaimFails, Resolve, Renew, Add, HandBack,
       Execute, Release, Stop, StopClaims, StopAdding, Return, LoopEnds, Supervise, Join,
       RunnerStops, RunnerReturns, Signal, ServerBreaks, vars, top, tasks, worker, jobs
  <2> QED
    BY <1>1, <2>1
<1> QED
  BY <1>2, <1>3, <1>4, <1>5, <1>6 DEF Monitor

\* A process that has ended has failed, whatever it was that ended it: every
\* shutdown waits for the worker on a channel that nobody sends to, a signalled
\* one in which nothing went wrong included.
THEOREM NoEndSucceeds == Spec => []EveryEndIsAFailure
<1>1. Init => WorkerMissed
  BY DEF Init, WorkerMissed
<1>2. Inv /\ WorkerMissed /\ [Next]_vars => WorkerMissed'
  BY WorkerMissedNext
<1>3. WorkerMissed => EveryEndIsAFailure
  BY DEF WorkerMissed, EveryEndIsAFailure
<1> QED
  BY <1>1, <1>2, <1>3, InvCorrect, PTL DEF Spec
=============================================================================
