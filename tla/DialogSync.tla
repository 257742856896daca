----------------------------- MODULE DialogSync -----------------------------
(***************************************************************************)
(* Synchronization of an account's dialogs: the queue account_dialog_syncs *)
(* in PostgreSQL, the background worker that claims from it, and the       *)
(* projection of dialogs it writes.                                        *)
(*                                                                         *)
(* One process runs one worker: a coordinator that claims, a goroutine per *)
(* claimed task, and Run, which stops them.  A claim writes a fresh token  *)
(* into the row, and every later write of the task is conditional on it.   *)
(* lease_until is left out: Claim looks at it in pending rows only, where  *)
(* it is NULL, so that it decides nothing but whether Renew prolongs it.   *)
(*                                                                         *)
(* A statement may fail, or commit and lose its reply; an execution may be *)
(* interrupted by its deadline or by the shutdown; the process may die.    *)
(***************************************************************************)
EXTENDS Naturals, FiniteSets

CONSTANTS
    Account,
    None,
    Capacity,       \* executionCapacity
    MaxAttempts,    \* max_attempts
    MaxClaims,      \* bound: claims, and so tokens
    MaxLogins,      \* bound: authentications of an account
    MaxFloods,      \* bound: flood waits
    MaxStarts       \* bound: starts of the process

ASSUME SyncAssumption ==
    /\ {Capacity, MaxAttempts, MaxLogins} \subseteq Nat \ {0}
    /\ {MaxClaims, MaxFloods, MaxStarts} \subseteq Nat
    /\ None \notin Account

Token == 1 .. MaxClaims

VARIABLES
    active,     \* accounts whose row in operator_accounts is active
    login,      \* how often an account was authenticated
    sync,       \* account_dialog_syncs
    dialogs,    \* the projection: of which logins it has seen the dialogs
    task,       \* what became of each claim
    claims,     \* claims so far
    coordinator,\* where coordinate is
    slots,      \* tokens in the semaphore of execution slots
    tracker,    \* activeTracker
    run,        \* where Worker.Run is; "off" without a process
    claiming,   \* claimContext is not cancelled
    fatal,      \* failureState.firstFatal
    timedOut,   \* Run returned ErrShutdownTimeout
    floods,     \* bound: flood waits so far
    starts      \* bound: starts so far

world == <<active, login, floods, starts>>
table == <<sync, dialogs>>
worker == <<slots, tracker, run, claiming, timedOut>>
vars == <<active, login, sync, dialogs, task, claims, coordinator, slots,
          tracker, run, claiming, fatal, timedOut, floods, starts>>

-----------------------------------------------------------------------------
(* Rows and tasks.                                                         *)

NoRow == [status |-> "none", attempts |-> 0, token |-> 0, waits |-> FALSE]
Pending == [NoRow EXCEPT !.status = "pending"]

NoTask == [at |-> "none", acct |-> None, login |-> 0, cause |-> "none"]

\* An ended task is forgotten.  One whose last write failed is lost: nobody
\* knows its token any more.
Gone(how) == [NoTask EXCEPT !.at = how]

AtWork == {k \in Token : task[k].at \in {"revalidate", "fetch", "complete", "settle", "release"}}

\* A broken guard: the row is found by its account alone.
HoldsAny(k) == sync[task[k].acct].status = "running"

\* WHERE account_id AND lease_token AND lease_generation AND status = 'running'
Holds(k) ==
    LET a == task[k].acct
    IN  sync[a].status = "running" /\ sync[a].token = k

Steps(k, at) == task' = [task EXCEPT ![k].at = at]
Fails(k, cause, at) == task' = [task EXCEPT ![k].at = at, ![k].cause = cause]

\* execute returns: its slot and its place among the active tasks are given up.
Ends(k, how) ==
    /\ task' = [task EXCEPT ![k] = Gone(how)]
    /\ slots' = slots - 1
    /\ tracker' = [tracker EXCEPT !.count = @ - 1]

-----------------------------------------------------------------------------
(* The coordinator.                                                        *)

TakeSlot ==
    /\ coordinator = "slot"
    /\ \/ /\ slots < Capacity
          /\ slots' = slots + 1
          /\ coordinator' = "claim"
       \/ /\ ~claiming
          /\ coordinator' = "ended"
          /\ UNCHANGED slots
    /\ UNCHANGED <<world, table, task, claims, tracker, run, claiming, fatal, timedOut>>

Claimable(a) ==
    /\ sync[a].status = "pending"
    /\ ~sync[a].waits
    /\ sync[a].attempts < MaxAttempts
    /\ a \in active

\* Claim takes a claimable row, in an order that is not modelled.  When its
\* reply is lost the row keeps a token that no task has.
Claim ==
    /\ coordinator = "claim"
    /\ claims < MaxClaims
    /\ \E a \in Account :
          /\ Claimable(a)
          /\ sync' = [sync EXCEPT ![a] = [status |-> "running",
                          attempts |-> @.attempts + 1, token |-> claims + 1,
                          waits |-> FALSE]]
          /\ claims' = claims + 1
          /\ \/ /\ task' = [task EXCEPT ![claims + 1] = [NoTask EXCEPT
                                !.at = "hand", !.acct = a]]
                /\ coordinator' = "hand"
                /\ UNCHANGED <<slots, fatal>>
             \/ /\ task' = [task EXCEPT ![claims + 1] = Gone("lost")]
                /\ coordinator' = "ended"
                /\ slots' = slots - 1
                /\ fatal' = (fatal \/ claiming)
    /\ UNCHANGED <<world, dialogs, tracker, run, claiming, timedOut>>

\* A broken coordinator: the slot is kept when nothing was claimed.
ClaimFailsKeepsSlot ==
    /\ coordinator = "claim"
    /\ ~ \E a \in Account : Claimable(a)
    /\ coordinator' = "slot"
    /\ UNCHANGED <<world, table, task, claims, worker, fatal>>

\* ErrEmpty polls again; any other failure is fatal unless claims were stopped.
ClaimFails ==
    /\ coordinator = "claim"
    /\ slots' = slots - 1
    /\ \/ /\ ~ \E a \in Account : Claimable(a)
          /\ coordinator' = IF claiming THEN "slot" ELSE "ended"
          /\ UNCHANGED fatal
       \/ /\ coordinator' = "ended"
          /\ fatal' = (fatal \/ claiming)
    /\ UNCHANGED <<world, table, task, claims, tracker, run, claiming, timedOut>>

\* A task in hand is dispatched, unless claims were stopped ...
Hand ==
    /\ coordinator = "hand"
    /\ coordinator' = IF claiming THEN "add" ELSE "release"
    /\ UNCHANGED <<world, table, task, claims, worker, fatal>>

\* ... or active.add refuses it because the worker drains.
Add ==
    /\ coordinator = "add"
    /\ \/ /\ ~tracker.stopped
          /\ tracker' = [tracker EXCEPT !.count = @ + 1]
          /\ Steps(claims, "revalidate")
          /\ coordinator' = "slot"
       \/ /\ tracker.stopped
          /\ coordinator' = "release"
          /\ UNCHANGED <<tracker, task>>
    /\ UNCHANGED <<world, table, claims, slots, run, claiming, fatal, timedOut>>

\* Release: back to pending after a pause, with the attempts it has.
Freed(a) == [sync EXCEPT ![a] = [@ EXCEPT !.status = "pending", !.token = 0, !.waits = TRUE]]

\* A failure of releaseQuiet is dropped.
HandBack ==
    /\ coordinator = "release"
    /\ coordinator' = "ended"
    /\ slots' = slots - 1
    /\ \/ /\ Holds(claims)
          /\ sync' = Freed(task[claims].acct)
          /\ task' = [task EXCEPT ![claims] = Gone("ended")]
       \/ /\ task' = [task EXCEPT ![claims] = Gone(IF Holds(claims) THEN "lost" ELSE "ended")]
          /\ UNCHANGED sync
    /\ UNCHANGED <<world, dialogs, claims, tracker, run, claiming, fatal, timedOut>>

-----------------------------------------------------------------------------
(* The execution of a task.                                                *)

\* The execution's own deadline, and executionRoot once Run has cancelled it.
Interrupted(k) ==
    /\ task[k].at \in {"revalidate", "fetch"}
    /\ Fails(k, "interrupted", "release")
    /\ UNCHANGED <<world, table, claims, coordinator, worker, fatal>>

\* A broken Sync: a task that is not found is left to its lease.
RevalidateEnds(k) ==
    /\ task[k].at = "revalidate"
    /\ IF Holds(k) /\ task[k].acct \in active
       THEN /\ task' = [task EXCEPT ![k].at = "fetch", ![k].login = login[task[k].acct]]
            /\ UNCHANGED <<slots, tracker>>
       ELSE Ends(k, "ended")
    /\ UNCHANGED <<world, table, claims, coordinator, run, claiming, fatal, timedOut>>

\* Revalidate finds the row it claimed and an active account, whatever version
\* the account has by now.  Sync releases a task that is not found.
Revalidate(k) ==
    /\ task[k].at = "revalidate"
    /\ LET found == Holds(k) /\ task[k].acct \in active
       IN  \/ /\ found
              /\ task' = [task EXCEPT ![k].at = "fetch", ![k].login = login[task[k].acct]]
           \/ /\ ~found
              /\ Fails(k, "rejected", "release")
           \/ Fails(k, "transient", "settle")
    /\ UNCHANGED <<world, table, claims, coordinator, worker, fatal>>

\* The runtime admits the target of the login it was read for; a client that is
\* being drained may still answer.
Fetch(k) ==
    /\ task[k].at = "fetch"
    /\ login[task[k].acct] = task[k].login
    /\ Steps(k, "complete")
    /\ UNCHANGED <<world, table, claims, coordinator, worker, fatal>>

\* classifyDialogFailure, and the refusals of the runtime.
FetchFails(k) ==
    /\ task[k].at = "fetch"
    /\ \/ /\ floods < MaxFloods
          /\ floods' = floods + 1
          /\ Fails(k, "flood", "settle")
       \/ /\ \E cause \in {"transient", "permanent"} : Fails(k, cause, "settle")
          /\ UNCHANGED floods
    /\ UNCHANGED <<active, login, starts, table, claims, coordinator, worker, fatal>>

\* Complete writes what was fetched, and marks the row if it still has its
\* token; the projection is written either way.
Written(k) ==
    /\ dialogs' = [dialogs EXCEPT ![task[k].acct] = @ \cup {task[k].login}]
    /\ sync' = IF Holds(k)
               THEN [sync EXCEPT ![task[k].acct] =
                        [@ EXCEPT !.status = "done", !.token = 0, !.waits = FALSE]]
               ELSE sync

Complete(k) ==
    /\ task[k].at = "complete"
    /\ \/ Written(k) /\ Ends(k, "ended")
       \/ /\ \/ Written(k)
             \/ UNCHANGED table
          /\ \/ Fails(k, "transient", "settle")
             \/ Fails(k, "interrupted", "release")
          /\ UNCHANGED <<slots, tracker>>
    /\ UNCHANGED <<world, claims, coordinator, run, claiming, fatal, timedOut>>

\* retryOrFail: a flood wait never uses up the attempts; Fail is final.
Settled(k) ==
    LET a == task[k].acct
        again == [sync EXCEPT ![a] = [@ EXCEPT !.status = "pending", !.token = 0,
                                               !.waits = TRUE]]
    IN  CASE task[k].cause = "flood" -> [again EXCEPT ![a].attempts = 0]
          [] task[k].cause = "transient" /\ sync[a].attempts < MaxAttempts -> again
          [] OTHER -> [sync EXCEPT ![a] = [@ EXCEPT !.status = "failed", !.token = 0]]

\* Retry or Fail.  A failure other than ErrLeaseLost ends the worker.
Settle(k) ==
    /\ task[k].at = "settle"
    /\ \/ /\ Holds(k)
          /\ sync' = Settled(k)
          /\ Ends(k, "ended")
          /\ fatal' \in {fatal, TRUE}
       \/ /\ Holds(k)
          /\ Ends(k, "lost")
          /\ fatal' = TRUE
          /\ UNCHANGED sync
       \/ /\ ~Holds(k)
          /\ Ends(k, "ended")
          /\ UNCHANGED <<sync, fatal>>
    /\ UNCHANGED <<world, dialogs, claims, coordinator, run, claiming, timedOut>>

\* Release, by Sync or by execute, whose failure is dropped.
Release(k) ==
    /\ task[k].at = "release"
    /\ \/ Holds(k) /\ sync' = Freed(task[k].acct) /\ Ends(k, "ended")
       \/ Holds(k) /\ Ends(k, "lost") /\ UNCHANGED sync
       \/ ~Holds(k) /\ Ends(k, "ended") /\ UNCHANGED sync
    /\ UNCHANGED <<world, dialogs, claims, coordinator, run, claiming, fatal, timedOut>>

-----------------------------------------------------------------------------
(* Worker.Run and the process around it.                                   *)

\* Backfill adds a row for every active account without one, before the worker
\* starts; a failure of it ends the process.
Backfilled(a) == IF a \in active /\ sync[a].status = "none" THEN Pending ELSE sync[a]

Start ==
    /\ run = "off"
    /\ starts < MaxStarts
    /\ starts' = starts + 1
    /\ sync' = [a \in Account |-> Backfilled(a)]
    /\ run' = "running"
    /\ claiming' = TRUE
    /\ coordinator' = "slot"
    /\ UNCHANGED <<active, login, floods, dialogs, task, claims, slots, tracker, fatal, timedOut>>

\* The root context, a fatal failure or the end of the coordinator.
StopClaims ==
    /\ run = "running"
    /\ run' = "stopping"
    /\ claiming' = FALSE
    /\ fatal' \in {fatal, fatal \/ coordinator = "ended"}
    /\ UNCHANGED <<world, table, task, claims, coordinator, slots, tracker, timedOut>>

StopAdding ==
    /\ run = "stopping"
    /\ run' = "draining"
    /\ tracker' = [tracker EXCEPT !.stopped = TRUE]
    /\ UNCHANGED <<world, table, task, claims, coordinator, slots, claiming, fatal, timedOut>>

\* The drain ends when no task is active or at its deadline; executionRoot is
\* cancelled in either case.
CancelExecution ==
    /\ run = "draining"
    /\ run' = "closing"
    /\ UNCHANGED <<world, table, task, claims, coordinator, slots, tracker, claiming, fatal, timedOut>>

\* active.done() and coordinatorDone.
Finished == tracker.count = 0 /\ coordinator = "ended"

Return ==
    /\ run = "closing"
    /\ run' = "returned"
    /\ timedOut' \in {~Finished, TRUE}
    /\ UNCHANGED <<world, table, task, claims, coordinator, slots, tracker, claiming, fatal>>

\* The end of the process: what it still held stays in the table.
Dies ==
    /\ run # "off"
    /\ run' = "off"
    /\ task' = [k \in Token |->
                  IF task[k].at \in {"none", "ended", "lost"} THEN task[k]
                  ELSE Gone(IF Holds(k) THEN "lost" ELSE "ended")]
    /\ coordinator' = "ended"
    /\ slots' = 0
    /\ tracker' = [count |-> 0, stopped |-> FALSE]
    /\ claiming' = FALSE
    /\ fatal' = FALSE
    /\ timedOut' = FALSE
    /\ UNCHANGED <<world, table, claims>>

-----------------------------------------------------------------------------
(* Accounts, and time.                                                     *)

\* Finalize of an authentication, with the upsert of the same transaction.
Login(a) ==
    /\ a \notin active
    /\ login[a] < MaxLogins
    /\ active' = active \cup {a}
    /\ login' = [login EXCEPT ![a] = @ + 1]
    /\ sync' = [sync EXCEPT ![a] = Pending]
    /\ UNCHANGED <<floods, starts, dialogs, task, claims, coordinator, worker, fatal>>

Disconnect(a) ==
    /\ a \in active
    /\ active' = active \ {a}
    /\ UNCHANGED <<login, floods, starts, table, task, claims, coordinator, worker, fatal>>

\* next_retry_at passes.
RetryDue(a) ==
    /\ sync[a].waits
    /\ sync' = [sync EXCEPT ![a].waits = FALSE]
    /\ UNCHANGED <<world, dialogs, task, claims, coordinator, worker, fatal>>

-----------------------------------------------------------------------------
Init ==
    /\ active \in SUBSET Account
    /\ login = [a \in Account |-> IF a \in active THEN 1 ELSE 0]
    /\ sync = [a \in Account |-> NoRow]
    /\ dialogs = [a \in Account |-> {}]
    /\ task = [k \in Token |-> NoTask]
    /\ claims = 0
    /\ coordinator = "ended"
    /\ slots = 0
    /\ tracker = [count |-> 0, stopped |-> FALSE]
    /\ run = "off"
    /\ claiming = FALSE
    /\ fatal = FALSE
    /\ timedOut = FALSE
    /\ floods = 0
    /\ starts = 0

Coordinate == TakeSlot \/ Claim \/ ClaimFails \/ Hand \/ Add \/ HandBack

Execute(k) ==
    \/ Interrupted(k) \/ Revalidate(k) \/ Fetch(k) \/ FetchFails(k)
    \/ Complete(k) \/ Settle(k) \/ Release(k)

Stop == StopAdding \/ CancelExecution \/ Return

Next ==
    \/ Coordinate
    \/ \E k \in Token : Execute(k)
    \/ StopClaims \/ Stop
    \/ Start \/ Dies
    \/ \E a \in Account : Login(a) \/ Disconnect(a) \/ RetryDue(a)

Spec == Init /\ [][Next]_vars

\* The goroutines run, every wait of theirs has a deadline, a worker that met a
\* fatal failure stops, and retries become due.  Whether Telegram ever answers,
\* whether the process lives and what operators do is left open.
FairSpec ==
    /\ Spec
    /\ WF_vars(Coordinate)
    /\ \A k \in Token : WF_vars(Execute(k))
    /\ WF_vars(Stop)
    /\ WF_vars((fatal \/ coordinator = "ended") /\ StopClaims)
    /\ \A a \in Account : WF_vars(RetryDue(a))

-----------------------------------------------------------------------------
(* Properties.                                                             *)

\* The types of the variables, the constraints ck_account_dialog_syncs_* of the
\* migration, and the bookkeeping of slots and active tasks.
TypeOK ==
    /\ active \subseteq Account
    /\ login \in [Account -> 0 .. MaxLogins]
    /\ sync \in [Account -> [status : {"none", "pending", "running", "done", "failed"},
                             attempts : 0 .. MaxAttempts, token : {0} \cup Token,
                             waits : BOOLEAN]]
    /\ \A a \in Account : sync[a].status = "running" <=> sync[a].token # 0
    /\ dialogs \in [Account -> SUBSET (1 .. MaxLogins)]
    /\ claims \in 0 .. MaxClaims
    /\ slots \in 0 .. Capacity
    /\ tracker.count = Cardinality(AtWork)
    /\ run \in {"off", "running", "stopping", "draining", "closing", "returned"}

\* A sync that is done has seen the dialogs of the authentication that asked
\* for it: a task left over from an earlier one never settles the later one.
DoneIsCurrent ==
    \A a \in Account : sync[a].status = "done" => login[a] \in dialogs[a]

\* When Run reports no timeout, nothing of the worker is left: no execution
\* writes after the pool is closed, no claim is in hand, every slot is free.
CleanReturn ==
    run = "returned" /\ ~timedOut =>
        /\ AtWork = {} /\ slots = 0
        /\ coordinator = "ended"

\* Every task that ended let go of its row: a row is running only for a task
\* that is still at work on it, or for one whose last write to PostgreSQL was
\* lost.  Neither the shutdown, nor a deadline, nor an account that was
\* disconnected meanwhile leaves a row behind.
EndedTasksLetGo ==
    /\ CleanReturn
    /\ \A a \in Account :
          sync[a].status = "running" =>
            LET k == sync[a].token
            IN  /\ task[k].at \notin {"none", "ended"}
                /\ task[k].at # "lost" => task[k].acct = a

\* A row that no claim will ever take again although it is not settled.
Exhausted(a) == sync[a].status = "pending" /\ sync[a].attempts >= MaxAttempts

Stranded(a) ==
    \/ Exhausted(a)
    \/ sync[a].status = "running" /\ task[sync[a].token].at = "lost"

\* A sync of an active account is settled while the worker runs, flood waits
\* included, unless it is stranded.
SyncsAreSettled ==
    \A a \in Account :
        sync[a].status \in {"pending", "running"} ~>
            \/ sync[a].status \in {"done", "failed"}
            \/ a \notin active \/ Stranded(a)
            \/ run # "running" \/ claims = MaxClaims

\* A released row can be claimed again ("Release returns an interrupted or
\* inconclusive attempt to a retryable pending state without consuming the
\* attempt budget").
ReleasedIsRetryable ==
    \A a \in Account : sync[a].status = "pending" => sync[a].attempts < MaxAttempts

\* What holds instead: only a release uses up the budget, by the holder of the
\* row; a failure that is settled leaves a row that can be claimed, or is final.
OnlyReleasesExhaust ==
    [][\A a \in Account : ~Exhausted(a) /\ Exhausted(a)' =>
          \E k \in Token : /\ task[k].acct = a /\ Holds(k)
                           /\ \/ task[k].at = "release"
                              \/ task[k].at = "hand" /\ coordinator = "release"]_vars

\* And whatever strands a row, only an authentication of the account asks for
\* the sync again: neither time, nor the worker, nor a restart.
StrandedUntilLogin ==
    [][\A a \in Account : Stranded(a) /\ login'[a] = login[a] => Stranded(a)']_vars
=============================================================================
