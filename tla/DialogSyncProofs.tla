-------------------------- MODULE DialogSyncProofs --------------------------
(***************************************************************************)
(* A task of the dialog synchronization lets go of its row however it      *)
(* ends, a row that is done has seen the dialogs of the latest login, and  *)
(* a shutdown without timeout leaves nothing, for any number of accounts,  *)
(* slots, attempts and claims.                                             *)
(*                                                                         *)
(* A token is written into one row once, by the claim that creates it.  A  *)
(* row that is running therefore names the one task that may write it; an  *)
(* authentication takes the row from that task, so that a task which still *)
(* holds its row has fetched with the login that is current.               *)
(***************************************************************************)
EXTENDS DialogSync, TLAPS, FiniteSetTheorems

Working == {"revalidate", "fetch", "complete", "settle", "release"}

Row == [status : {"none", "pending", "running", "done", "failed"},
        attempts : Nat, token : {0} \cup Token, waits : BOOLEAN]

TaskState == [at : Working \cup {"none", "hand", "ended", "lost"},
              acct : Account \cup {None}, login : Nat,
              cause : {"none", "interrupted", "rejected", "transient", "permanent", "flood"}]

Types ==
    /\ login \in [Account -> Nat]
    /\ sync \in [Account -> Row]
    /\ dialogs \in [Account -> SUBSET Nat]
    /\ task \in [Token -> TaskState]
    /\ claims \in 0 .. MaxClaims
    /\ coordinator \in {"slot", "claim", "hand", "add", "release", "ended"}
    /\ slots \in Int
    /\ tracker \in [count : Int, stopped : BOOLEAN]
    /\ run \in {"off", "running", "stopping", "draining", "closing", "returned"}

\* A task that is not over has an account, and a token that is not given yet no
\* task.
Tasks ==
    \A k \in Token :
        /\ task[k].at \in Working \cup {"hand"} => task[k].acct \in Account
        /\ k > claims => task[k].at = "none"

InHand == coordinator \in {"hand", "add", "release"}

\* The coordinator has the latest task in its hands, or none.
Hands ==
    /\ InHand => claims \in Token /\ task[claims].at = "hand"
    /\ \A k \in Token : task[k].at = "hand" => InHand /\ k = claims
    /\ run = "off" => coordinator = "ended"

\* The second conjunct of EndedTasksLetGo.
RowsHeld ==
    \A a \in Account :
        sync[a].status = "running" =>
            LET k == sync[a].token
            IN  /\ k \in Token
                /\ task[k].at \notin {"none", "ended"}
                /\ task[k].at # "lost" => task[k].acct = a

\* Who still holds the row when the answer has come has fetched with the login
\* that is current.
FetchedCurrent ==
    \A k \in Token :
        task[k].at = "complete" /\ Holds(k) => task[k].login = login[task[k].acct]

\* A slot is taken by an execution, or by the coordinator with what it is about
\* to claim or has claimed.
Counts ==
    /\ tracker.count = Cardinality(AtWork)
    /\ slots = tracker.count + (IF coordinator \in {"slot", "ended"} THEN 0 ELSE 1)

Inv ==
    /\ Types /\ Tasks /\ Hands /\ RowsHeld /\ FetchedCurrent /\ DoneIsCurrent
    /\ Counts /\ CleanReturn

-----------------------------------------------------------------------------
(* Helpers, and the initial states.                                        *)

\* The tasks at work are finitely many.
LEMMA AtWorkFinite == IsFiniteSet(AtWork) /\ Cardinality(AtWork) \in Nat
<1>1. IsFiniteSet(Token)
  BY FS_Interval, SyncAssumption DEF Token
<1>2. AtWork \subseteq Token
  BY DEF AtWork
<1> QED
  BY <1>1, <1>2, FS_Subset, FS_CardinalityType

\* Init establishes the invariant.
LEMMA InvInit == Init => Inv
<1> SUFFICES ASSUME Init PROVE Inv
  OBVIOUS
<1> USE SyncAssumption
<1>1. NoRow \in Row /\ NoTask \in TaskState
  BY DEF NoRow, NoTask, Row, TaskState
<1>2. Types
  BY <1>1 DEF Init, Types
<1>3. \A k \in Token : task[k].at = "none"
  BY DEF Init, NoTask
<1>4. \A a \in Account : sync[a].status = "none"
  BY DEF Init, NoRow
<1>5. Tasks /\ Hands /\ RowsHeld /\ FetchedCurrent /\ DoneIsCurrent
  BY <1>3, <1>4 DEF Init, Tasks, Hands, InHand, RowsHeld, FetchedCurrent, DoneIsCurrent, Working
<1>6. Counts /\ CleanReturn
  <2>1. AtWork = {}
    BY <1>3 DEF AtWork
  <2> QED
    BY <2>1, FS_EmptySet DEF Init, Counts, CleanReturn
<1> QED
  BY <1>2, <1>5, <1>6 DEF Inv

-----------------------------------------------------------------------------
(* The steps of an execution.                                              *)

\* A task at work goes on or ends.  It may write its row, and give it back or
\* settle it, only while it holds it.
LEMMA TaskStep ==
    ASSUME Inv, NEW k \in Token, task[k].at \in Working,
           NEW q \in TaskState, task' = [task EXCEPT ![k] = q],
           q.at \in Working \cup {"ended", "lost"},
           q.at \in Working => q.acct = task[k].acct /\ UNCHANGED <<slots, tracker>>,
           q.at \notin Working => /\ slots' = slots - 1
                                  /\ tracker' = [tracker EXCEPT !.count = @ - 1],
           q.at = "complete" /\ Holds(k) => q.login = login[task[k].acct],
           NEW row \in Row, row.status # "running",
           row.status = "done" => login[task[k].acct] \in dialogs'[task[k].acct],
           \/ UNCHANGED sync /\ (q.at = "ended" => ~Holds(k))
           \/ Holds(k) /\ sync' = [sync EXCEPT ![task[k].acct] = row],
           dialogs' \in [Account -> SUBSET Nat],
           \A a \in Account : dialogs[a] \subseteq dialogs'[a],
           UNCHANGED <<login, claims, coordinator, run, timedOut>>
    PROVE  Inv'
<1> USE SyncAssumption
<1> DEFINE a0 == task[k].acct
<1>1. /\ a0 \in Account /\ task'[k] = q /\ task' \in [Token -> TaskState]
      /\ \A j \in Token : j # k => task'[j] = task[j]
      /\ task[k].at \notin {"none", "hand", "ended", "lost"}
      /\ k <= claims
  BY DEF Inv, Types, Tasks, Working, Token
<1>2. /\ sync' \in [Account -> Row]
      /\ \A a \in Account : a # a0 => sync'[a] = sync[a]
      /\ sync'[a0] = sync[a0] \/ (Holds(k) /\ sync'[a0] = row)
  BY <1>1 DEF Inv, Types
<1>3. Types'
  BY <1>1, <1>2 DEF Inv, Types
<1>4. Tasks'
  BY <1>1 DEF Inv, Tasks, Working
<1>5. Hands'
  BY <1>1 DEF Inv, Hands, InHand, Working
<1>6. RowsHeld'
  <2> SUFFICES ASSUME NEW a \in Account, sync'[a].status = "running"
               PROVE  /\ sync'[a].token \in Token
                      /\ task'[sync'[a].token].at \notin {"none", "ended"}
                      /\ task'[sync'[a].token].at # "lost" => task'[sync'[a].token].acct = a
    BY DEF RowsHeld
  <2>1. sync'[a] = sync[a]
    BY <1>2
  <2> DEFINE j == sync[a].token
  <2>2. /\ j \in Token /\ task[j].at \notin {"none", "ended"}
        /\ task[j].at # "lost" => task[j].acct = a
    BY <2>1 DEF Inv, RowsHeld
  <2>3. CASE j # k
    BY <1>1, <2>1, <2>2, <2>3
  <2>4. CASE j = k
    <3>1. a = a0 /\ Holds(k)
      BY <1>1, <2>1, <2>2, <2>4 DEF Holds
    <3>2. q.at # "ended"
      BY <1>1, <2>1, <3>1 DEF Inv, Types
    <3> QED
      BY <1>1, <2>1, <2>2, <2>4, <3>1, <3>2 DEF Working
  <2> QED
    BY <2>3, <2>4
<1>7. FetchedCurrent'
  <2> SUFFICES ASSUME NEW j \in Token, task'[j].at = "complete", Holds(j)'
               PROVE  task'[j].login = login[task'[j].acct]
    BY DEF FetchedCurrent
  <2>1. task'[j].acct = task[j].acct /\ task[j].acct \in Account
    BY <1>1 DEF Inv, Tasks, Working
  <2>2. Holds(j)
    BY <1>2, <2>1 DEF Holds
  <2> QED
    BY <1>1, <2>1, <2>2 DEF Inv, FetchedCurrent, Working
<1>8. DoneIsCurrent'
  BY <1>1, <1>2 DEF Inv, DoneIsCurrent
<1>9. Counts'
  <2>1. k \in AtWork
    BY DEF AtWork, Working
  <2>2. CASE q.at \in Working
    <3>1. AtWork' = AtWork
      BY <1>1, <2>2 DEF AtWork, Working
    <3> QED
      BY <2>2, <3>1 DEF Inv, Counts
  <2>3. CASE q.at \notin Working
    <3>1. AtWork' = AtWork \ {k}
      BY <1>1, <2>3 DEF AtWork, Working
    <3>2. Cardinality(AtWork') = Cardinality(AtWork) - 1
      BY <2>1, <3>1, AtWorkFinite, FS_RemoveElement
    <3>3. tracker'.count = tracker.count - 1 /\ tracker.count \in Int
      BY <2>3 DEF Inv, Types
    <3> QED
      BY <2>3, <3>2, <3>3 DEF Inv, Counts, Types
  <2> QED
    BY <2>2, <2>3
<1>10. CleanReturn'
  BY DEF Inv, CleanReturn, AtWork, Working
<1> QED
  <2>1. tracker' \in [count : Int, stopped : BOOLEAN]
    BY DEF Inv, Types
  <2> QED
    BY <1>3, <1>4, <1>5, <1>6, <1>7, <1>8, <1>9, <1>10 DEF Inv

\* A task at work goes on without a write to PostgreSQL.
LEMMA QuietStep ==
    ASSUME Inv, NEW k \in Token, task[k].at \in Working,
           NEW at \in Working, NEW cause \in {"none", "interrupted", "rejected", "transient",
                                             "permanent", "flood"},
           NEW l \in Nat,
           task' = [task EXCEPT ![k] = [task[k] EXCEPT !.at = at, !.cause = cause, !.login = l]],
           at = "complete" /\ Holds(k) => l = login[task[k].acct],
           UNCHANGED <<login, sync, dialogs, claims, coordinator, slots, tracker, run, timedOut>>
    PROVE  Inv'
<1> DEFINE q == [task[k] EXCEPT !.at = at, !.cause = cause, !.login = l]
<1>1. q \in TaskState /\ q.at = at /\ q.acct = task[k].acct /\ q.login = l
  BY DEF Inv, Types, TaskState
<1>2. task' = [task EXCEPT ![k] = q]
  OBVIOUS
<1>3. NoRow \in Row /\ NoRow.status = "none"
  BY DEF NoRow, Row
<1>4. dialogs' \in [Account -> SUBSET Nat] /\ \A a \in Account : dialogs[a] \subseteq dialogs'[a]
  BY DEF Inv, Types
<1>5. q.at # "ended" /\ q.at \in Working
  BY <1>1 DEF Working
<1> HIDE DEF q
<1> QED
  BY <1>1, <1>2, <1>3, <1>4, <1>5, TaskStep

\* A task at work ends, and may have written its row as the last thing.
LEMMA EndStep ==
    ASSUME Inv, NEW k \in Token, task[k].at \in Working,
           NEW how \in {"ended", "lost"}, Ends(k, how),
           NEW row \in Row, row.status # "running",
           row.status = "done" => login[task[k].acct] \in dialogs'[task[k].acct],
           \/ UNCHANGED sync /\ (how = "ended" => ~Holds(k))
           \/ Holds(k) /\ sync' = [sync EXCEPT ![task[k].acct] = row],
           dialogs' \in [Account -> SUBSET Nat],
           \A a \in Account : dialogs[a] \subseteq dialogs'[a],
           UNCHANGED <<login, claims, coordinator, run, timedOut>>
    PROVE  Inv'
<1>1. Gone(how) \in TaskState /\ Gone(how).at = how
  BY DEF Gone, NoTask, TaskState
<1>2. how \notin Working
  BY DEF Working
<1>3. /\ task' = [task EXCEPT ![k] = Gone(how)]
      /\ slots' = slots - 1
      /\ tracker' = [tracker EXCEPT !.count = @ - 1]
  BY DEF Ends
<1>4. PICK q \in TaskState : q = Gone(how)
  BY <1>1
<1>5. q.at = how /\ q.at # "complete"
  BY <1>1, <1>2, <1>4 DEF Working
<1> QED
  BY <1>2, <1>3, <1>4, <1>5, TaskStep

\* Deadlines, the revalidation and the fetch.
LEMMA FetchesHold ==
    ASSUME Inv, NEW k \in Token,
           Interrupted(k) \/ Revalidate(k) \/ Fetch(k) \/ FetchFails(k)
    PROVE  Inv'
<1>1. task[k].at \in Working /\ task[k] \in TaskState /\ task[k].acct \in Account
  BY DEF Inv, Types, Tasks, Interrupted, Revalidate, Fetch, FetchFails, Working
<1>2. UNCHANGED <<login, sync, dialogs, claims, coordinator, slots, tracker, run, timedOut>>
  BY DEF Interrupted, Revalidate, Fetch, FetchFails, world, table, worker
<1>3. \E at \in Working, l \in Nat,
         cause \in {"none", "interrupted", "rejected", "transient", "permanent", "flood"} :
         /\ task' = [task EXCEPT ![k] = [task[k] EXCEPT !.at = at, !.cause = cause, !.login = l]]
         /\ at = "complete" => l = login[task[k].acct]
  <2>1. task[k].login \in Nat /\ login[task[k].acct] \in Nat
    BY <1>1 DEF Inv, Types, TaskState
  <2>2. CASE \E at \in {"release", "settle"},
                cause \in {"interrupted", "rejected", "transient", "permanent", "flood"} :
                Fails(k, cause, at)
    <3>1. PICK at \in {"release", "settle"},
               cause \in {"interrupted", "rejected", "transient", "permanent", "flood"} :
               Fails(k, cause, at)
      BY <2>2
    <3>2. task' = [task EXCEPT ![k] = [task[k] EXCEPT !.at = at, !.cause = cause,
                                                      !.login = task[k].login]]
      BY <1>1, <3>1 DEF Fails, Inv, Types, TaskState
    <3> QED
      BY <2>1, <3>2 DEF Working
  <2>3. CASE Revalidate(k) /\ ~ \E at \in {"release", "settle"},
                cause \in {"interrupted", "rejected", "transient", "permanent", "flood"} :
                Fails(k, cause, at)
    <3>1. task' = [task EXCEPT ![k].at = "fetch", ![k].login = login[task[k].acct]]
      BY <2>3 DEF Revalidate
    <3>2. task' = [task EXCEPT ![k] = [task[k] EXCEPT !.at = "fetch", !.cause = task[k].cause,
                                                      !.login = login[task[k].acct]]]
      BY <1>1, <3>1 DEF Inv, Types, TaskState
    <3> QED
      BY <1>1, <2>1, <3>2 DEF Working, TaskState
  <2>4. CASE Fetch(k)
    <3>1. task' = [task EXCEPT ![k] = [task[k] EXCEPT !.at = "complete", !.cause = task[k].cause,
                                                      !.login = task[k].login]]
      BY <1>1, <2>4 DEF Fetch, Steps, Inv, Types, TaskState
    <3> QED
      BY <1>1, <2>1, <2>4, <3>1 DEF Fetch, Working, TaskState
  <2> QED
    BY <2>2, <2>3, <2>4 DEF Interrupted, FetchFails
<1> QED
  <2>1. PICK at \in Working, l \in Nat,
             cause \in {"none", "interrupted", "rejected", "transient", "permanent", "flood"} :
             /\ task' = [task EXCEPT ![k] = [task[k] EXCEPT !.at = at, !.cause = cause, !.login = l]]
             /\ at = "complete" => l = login[task[k].acct]
    BY <1>3
  <2> QED
    BY <1>1, <1>2, <2>1, QuietStep

\* Complete marks the row as done only if it still names the task, and has
\* written the dialogs of the login with the same commit.
LEMMA CompleteHolds == ASSUME Inv, NEW k \in Token, Complete(k) PROVE Inv'
<1> DEFINE a == task[k].acct
           done == [sync[a] EXCEPT !.status = "done", !.token = 0, !.waits = FALSE]
           row == IF Holds(k) THEN done ELSE NoRow
<1>1. /\ task[k].at = "complete" /\ task[k].at \in Working /\ task[k] \in TaskState
      /\ a \in Account /\ task[k].login \in Nat
      /\ UNCHANGED <<login, claims, coordinator, run, timedOut>>
  BY DEF Inv, Types, Tasks, Complete, Working, TaskState, world
<1>2. done \in Row /\ done.status = "done" /\ NoRow \in Row /\ NoRow.status = "none"
  BY <1>1 DEF Inv, Types, Row, NoRow
<1>3. row \in Row /\ row.status # "running"
  BY <1>2
<1>4. ASSUME Written(k)
      PROVE  /\ dialogs' \in [Account -> SUBSET Nat]
             /\ \A b \in Account : dialogs[b] \subseteq dialogs'[b]
             /\ row.status = "done" => login[a] \in dialogs'[a]
             /\ \/ UNCHANGED sync /\ ~Holds(k)
                \/ Holds(k) /\ sync' = [sync EXCEPT ![a] = row]
  <2>1. dialogs' = [dialogs EXCEPT ![a] = @ \cup {task[k].login}]
    BY <1>4 DEF Written
  <2>2. Holds(k) => task[k].login = login[a]
    BY <1>1 DEF Inv, FetchedCurrent
  <2>3. Holds(k) => sync' = [sync EXCEPT ![a] = row]
    BY <1>4 DEF Written
  <2>4. ~Holds(k) => UNCHANGED sync
    BY <1>4 DEF Written
  <2> QED
    BY <1>1, <1>2, <2>1, <2>2, <2>3, <2>4 DEF Inv, Types
<1>5. CASE Written(k) /\ Ends(k, "ended")
  <2> HIDE DEF row
  <2> QED
    BY <1>1, <1>3, <1>4, <1>5, EndStep
<1>6. CASE /\ Written(k) \/ UNCHANGED table
           /\ Fails(k, "transient", "settle") \/ Fails(k, "interrupted", "release")
           /\ UNCHANGED <<slots, tracker>>
  <2>1. PICK at \in {"settle", "release"}, cause \in {"transient", "interrupted"} :
             task' = [task EXCEPT ![k].at = at, ![k].cause = cause]
    BY <1>6 DEF Fails
  <2> DEFINE q == [task[k] EXCEPT !.at = at, !.cause = cause]
  <2>2. /\ q \in TaskState /\ q.acct = a /\ q.at \in Working
        /\ q.at # "ended" /\ q.at # "complete"
    BY <1>1 DEF TaskState, Working
  <2>3. task' = [task EXCEPT ![k] = q]
    BY <1>1, <2>1 DEF Inv, Types, TaskState
  <2>4. CASE Written(k)
    <3> HIDE DEF row, q
    <3> QED
      BY <1>1, <1>3, <1>4, <1>6, <2>2, <2>3, <2>4, TaskStep
  <2>5. CASE UNCHANGED table
    <3>1. /\ UNCHANGED sync /\ dialogs' \in [Account -> SUBSET Nat]
          /\ \A b \in Account : dialogs[b] \subseteq dialogs'[b]
      BY <2>5 DEF table, Inv, Types
    <3> HIDE DEF q
    <3> QED
      BY <1>1, <1>2, <1>6, <2>2, <2>3, <3>1, TaskStep
  <2> QED
    BY <1>6, <2>4, <2>5
<1> QED
  BY <1>5, <1>6 DEF Complete

\* Retry, Fail and Release end the task and put the row back, or lose it.
LEMMA SettlesHold == ASSUME Inv, NEW k \in Token, Settle(k) \/ Release(k) PROVE Inv'
<1> USE SyncAssumption
<1> DEFINE a == task[k].acct
<1>1. /\ task[k].at \in Working /\ a \in Account /\ sync[a] \in Row
      /\ UNCHANGED <<login, dialogs, claims, coordinator, run, timedOut>>
  BY DEF Inv, Types, Tasks, Settle, Release, Working, world
<1>2. /\ dialogs' \in [Account -> SUBSET Nat]
      /\ \A b \in Account : dialogs[b] \subseteq dialogs'[b]
  BY <1>1 DEF Inv, Types
<1>3. NoRow \in Row /\ NoRow.status = "none"
  BY DEF NoRow, Row
<1>4. CASE \E how \in {"ended", "lost"} :
              Ends(k, how) /\ UNCHANGED sync /\ (how = "ended" => ~Holds(k))
  BY <1>1, <1>2, <1>3, <1>4, EndStep
<1>5. ASSUME Holds(k), Ends(k, "ended"),
             \E row \in Row : row.status \in {"pending", "failed"} /\ sync' = [sync EXCEPT ![a] = row]
      PROVE  Inv'
  <2>1. PICK row \in Row :
             row.status \in {"pending", "failed"} /\ sync' = [sync EXCEPT ![a] = row]
    BY <1>5
  <2> QED
    BY <1>1, <1>2, <1>5, <2>1, EndStep
<1>6. CASE Settle(k) /\ Holds(k) /\ sync' = Settled(k) /\ Ends(k, "ended")
  <2> DEFINE again == [sync[a] EXCEPT !.status = "pending", !.token = 0, !.waits = TRUE]
             flood == [again EXCEPT !.attempts = 0]
             failed == [sync[a] EXCEPT !.status = "failed", !.token = 0]
  <2>1. /\ again \in Row /\ again.status = "pending"
        /\ flood \in Row /\ flood.status = "pending"
        /\ failed \in Row /\ failed.status = "failed"
    BY <1>1 DEF Row
  <2>2. \/ Settled(k) = [sync EXCEPT ![a] = flood]
        \/ Settled(k) = [sync EXCEPT ![a] = again]
        \/ Settled(k) = [sync EXCEPT ![a] = failed]
    BY <1>1 DEF Settled, Inv, Types
  <2> HIDE DEF again, flood, failed, a
  <2> QED
    BY <1>5, <1>6, <2>1, <2>2
<1>7. CASE Release(k) /\ Holds(k) /\ sync' = Freed(a) /\ Ends(k, "ended")
  <2> DEFINE row == [sync[a] EXCEPT !.status = "pending", !.token = 0, !.waits = TRUE]
  <2>1. row \in Row /\ row.status = "pending"
    BY <1>1 DEF Row
  <2>2. sync' = [sync EXCEPT ![a] = row]
    BY <1>7 DEF Freed
  <2> HIDE DEF row, a
  <2> QED
    BY <1>5, <1>7, <2>1, <2>2
<1> QED
  BY <1>4, <1>6, <1>7 DEF Settle, Release

-----------------------------------------------------------------------------
(* The steps of the coordinator.                                           *)

\* Slots and polls: no task and no row changes.
LEMMA PollsHold == ASSUME Inv, TakeSlot \/ ClaimFails \/ Hand PROVE Inv'
<1>1. /\ UNCHANGED <<login, sync, dialogs, task, claims, tracker, run, timedOut>>
      /\ coordinator \in {"slot", "claim", "hand"}
  BY DEF TakeSlot, ClaimFails, Hand, world, table, worker
<1>2. /\ coordinator' \in {"slot", "claim", "add", "release", "ended"}
      /\ coordinator = "hand" <=> InHand'
      /\ slots' = tracker.count + (IF coordinator' \in {"slot", "ended"} THEN 0 ELSE 1)
  BY DEF Inv, Types, Counts, TakeSlot, ClaimFails, Hand, InHand, worker
<1>3. Types'
  BY <1>1, <1>2 DEF Inv, Types
<1>4. Tasks' /\ RowsHeld' /\ FetchedCurrent' /\ DoneIsCurrent'
  BY <1>1 DEF Inv, Tasks, RowsHeld, FetchedCurrent, DoneIsCurrent, Holds
<1>5. Hands'
  BY <1>1, <1>2 DEF Inv, Hands, InHand
<1>6. Counts' /\ CleanReturn'
  BY <1>1, <1>2 DEF Inv, Counts, CleanReturn, AtWork
<1> QED
  BY <1>3, <1>4, <1>5, <1>6 DEF Inv

\* A claim gives a row a token that no task and no other row ever had.
LEMMA ClaimHolds == ASSUME Inv, Claim PROVE Inv'
<1> USE SyncAssumption
<1> DEFINE k == claims + 1
<1>1. /\ k \in Token /\ task[k].at = "none" /\ claims' = k
      /\ coordinator = "claim"
      /\ UNCHANGED <<login, dialogs, tracker, run, timedOut>>
  <2>1. claims \in 0 .. MaxClaims /\ claims < MaxClaims /\ MaxClaims \in Nat
    BY DEF Claim, Inv, Types
  <2>2. k \in Token /\ k > claims
    BY <2>1 DEF Token
  <2>3. task[k].at = "none"
    BY <2>2 DEF Inv, Tasks
  <2>4. claims' = k
    BY DEF Claim
  <2> QED
    BY <2>2, <2>3, <2>4 DEF Claim, world
<1>2. PICK a \in Account :
         /\ Claimable(a)
         /\ sync' = [sync EXCEPT ![a] = [status |-> "running", attempts |-> @.attempts + 1,
                                         token |-> k, waits |-> FALSE]]
         /\ \/ /\ task' = [task EXCEPT ![k] = [NoTask EXCEPT !.at = "hand", !.acct = a]]
               /\ coordinator' = "hand"
               /\ UNCHANGED <<slots, fatal>>
            \/ /\ task' = [task EXCEPT ![k] = Gone("lost")]
               /\ coordinator' = "ended"
               /\ slots' = slots - 1
  BY DEF Claim
<1> DEFINE row == [status |-> "running", attempts |-> sync[a].attempts + 1,
                   token |-> k, waits |-> FALSE]
           handed == [NoTask EXCEPT !.at = "hand", !.acct = a]
           q == IF coordinator' = "hand" THEN handed ELSE Gone("lost")
<1>3. row \in Row /\ row.status = "running" /\ row.token = k
  BY <1>1, <1>2 DEF Inv, Types, Row
<1>4. /\ handed \in TaskState /\ handed.at = "hand" /\ handed.acct = a
      /\ Gone("lost") \in TaskState /\ Gone("lost").at = "lost"
  BY DEF NoTask, Gone, TaskState
<1>5. /\ q \in TaskState /\ q.at \in {"hand", "lost"} /\ (q.at = "hand" => q.acct = a)
      /\ q.at = "hand" <=> coordinator' = "hand"
      /\ coordinator' \in {"hand", "ended"}
      /\ slots' = IF coordinator' = "hand" THEN slots ELSE slots - 1
      /\ task' = [task EXCEPT ![k] = q]
      /\ sync' = [sync EXCEPT ![a] = row]
  BY <1>2, <1>4
<1> HIDE DEF row, handed, q, k
<1>6. /\ task' \in [Token -> TaskState] /\ task'[k] = q
      /\ \A j \in Token : j # k => task'[j] = task[j]
      /\ sync' \in [Account -> Row] /\ sync'[a] = row
      /\ \A b \in Account : b # a => sync'[b] = sync[b]
  BY <1>1, <1>3, <1>5 DEF Inv, Types
<1>7. Types'
  BY <1>1, <1>5, <1>6 DEF Inv, Types, Token
<1>8. Tasks'
  BY <1>1, <1>2, <1>5, <1>6 DEF Inv, Types, Tasks, Working, Token, k
<1>9. Hands'
  BY <1>1, <1>5, <1>6 DEF Inv, Hands, InHand
<1>10. \A b \in Account : sync[b].status = "running" => sync[b].token # k
  BY <1>1 DEF Inv, RowsHeld
<1>11. RowsHeld'
  BY <1>1, <1>3, <1>5, <1>6, <1>10 DEF Inv, RowsHeld
<1>12. FetchedCurrent'
  <2> SUFFICES ASSUME NEW j \in Token, task'[j].at = "complete", Holds(j)'
               PROVE  task'[j].login = login[task'[j].acct]
    BY <1>1 DEF FetchedCurrent
  <2>1. j # k /\ task'[j] = task[j] /\ task[j].acct \in Account
    BY <1>5, <1>6 DEF Inv, Tasks, Working
  <2>2. Holds(j)
    BY <1>3, <1>6, <2>1 DEF Holds
  <2> QED
    BY <2>1, <2>2 DEF Inv, FetchedCurrent
<1>13. DoneIsCurrent'
  BY <1>1, <1>3, <1>6 DEF Inv, DoneIsCurrent
<1>14. Counts' /\ CleanReturn'
  <2>1. AtWork' = AtWork
    BY <1>1, <1>5, <1>6 DEF AtWork
  <2> QED
    BY <1>1, <1>5, <2>1 DEF Inv, Types, Counts, CleanReturn
<1> QED
  BY <1>7, <1>8, <1>9, <1>11, <1>12, <1>13, <1>14 DEF Inv

\* The task in hand becomes an execution, or is refused while the worker drains.
LEMMA AddHolds == ASSUME Inv, Add PROVE Inv'
<1> USE SyncAssumption
<1>1. /\ coordinator = "add" /\ claims \in Token /\ task[claims].at = "hand"
      /\ task[claims] \in TaskState /\ task[claims].acct \in Account
      /\ UNCHANGED <<login, sync, dialogs, claims, slots, run, timedOut>>
  BY DEF Add, Inv, Types, Tasks, Hands, InHand, world, table
<1>2. CASE tracker.stopped /\ coordinator' = "release" /\ UNCHANGED <<tracker, task>>
  <2>1. Types' /\ Tasks' /\ RowsHeld' /\ FetchedCurrent' /\ DoneIsCurrent'
    BY <1>1, <1>2 DEF Inv, Types, Tasks, RowsHeld, FetchedCurrent, DoneIsCurrent, Holds
  <2>2. Hands' /\ Counts' /\ CleanReturn'
    BY <1>1, <1>2 DEF Inv, Hands, InHand, Counts, CleanReturn, AtWork
  <2> QED
    BY <2>1, <2>2 DEF Inv
<1>3. CASE /\ tracker' = [tracker EXCEPT !.count = @ + 1]
           /\ Steps(claims, "revalidate")
           /\ coordinator' = "slot"
  <2> DEFINE q == [task[claims] EXCEPT !.at = "revalidate"]
  <2>1. q \in TaskState /\ q.at = "revalidate" /\ q.acct = task[claims].acct
    BY <1>1 DEF TaskState, Working
  <2>2. task' = [task EXCEPT ![claims] = q]
    BY <1>3 DEF Steps
  <2> HIDE DEF q
  <2>3. /\ task' \in [Token -> TaskState] /\ task'[claims] = q
        /\ \A j \in Token : j # claims => task'[j] = task[j]
    BY <1>1, <2>1, <2>2 DEF Inv, Types
  <2>4. Types'
    BY <1>1, <1>3, <2>3 DEF Inv, Types
  <2>5. Tasks' /\ Hands'
    BY <1>1, <1>3, <2>1, <2>3 DEF Inv, Types, Tasks, Hands, InHand, Working, Token
  <2>6. RowsHeld'
    BY <1>1, <2>1, <2>3 DEF Inv, RowsHeld
  <2>7. FetchedCurrent' /\ DoneIsCurrent'
    BY <1>1, <2>1, <2>3 DEF Inv, FetchedCurrent, DoneIsCurrent, Holds
  <2>8. Counts' /\ CleanReturn'
    <3>1. AtWork' = AtWork \cup {claims} /\ claims \notin AtWork
      BY <1>1, <2>1, <2>3 DEF AtWork
    <3>2. Cardinality(AtWork') = Cardinality(AtWork) + 1
      BY <3>1, AtWorkFinite, FS_AddElement
    <3>3. tracker'.count = tracker.count + 1
      BY <1>3 DEF Inv, Types
    <3> QED
      BY <1>1, <1>3, <3>2, <3>3 DEF Inv, Types, Counts, CleanReturn
  <2> QED
    BY <2>4, <2>5, <2>6, <2>7, <2>8 DEF Inv
<1> QED
  BY <1>2, <1>3 DEF Add

\* What is handed back is no longer in hand; when the write fails, its row is
\* left with the token of a lost task.
LEMMA HandBackHolds == ASSUME Inv, HandBack PROVE Inv'
<1> USE SyncAssumption
<1> DEFINE k == claims
           a == task[k].acct
           row == [sync[a] EXCEPT !.status = "pending", !.token = 0, !.waits = TRUE]
<1>1. /\ coordinator = "release" /\ k \in Token /\ task[k].at = "hand"
      /\ a \in Account /\ coordinator' = "ended" /\ slots' = slots - 1
      /\ UNCHANGED <<login, dialogs, claims, tracker, run, timedOut>>
  BY DEF HandBack, Inv, Types, Tasks, Hands, InHand, world
<1>2. row \in Row /\ row.status = "pending"
  <2>1. sync[a] \in Row
    BY <1>1 DEF Inv, Types
  <2> QED
    BY <2>1 DEF Row
<1>3. PICK q \in {Gone("ended"), Gone("lost")} :
        /\ task' = [task EXCEPT ![k] = q]
        /\ \/ Holds(k) /\ sync' = [sync EXCEPT ![a] = row]
           \/ UNCHANGED sync /\ (q = Gone("ended") => ~Holds(k))
  <2>1. Gone("ended") # Gone("lost")
    BY DEF Gone, NoTask
  <2> QED
    BY <2>1 DEF HandBack, Freed
<1>4. q \in TaskState /\ q.at \in {"ended", "lost"} /\ (q.at = "ended" => q = Gone("ended"))
  <2>1. \A h \in {"ended", "lost"} : Gone(h) \in TaskState /\ Gone(h).at = h
    BY DEF Gone, NoTask, TaskState
  <2> QED
    BY <2>1
<1> HIDE DEF row, k, a
<1>5. /\ task' \in [Token -> TaskState] /\ task'[k] = q
      /\ \A j \in Token : j # k => task'[j] = task[j]
      /\ sync' \in [Account -> Row]
      /\ \A b \in Account : b # a => sync'[b] = sync[b]
      /\ \/ Holds(k) /\ sync'[a] = row
         \/ UNCHANGED sync /\ (q.at = "ended" => ~Holds(k))
  BY <1>1, <1>2, <1>3, <1>4 DEF Inv, Types
<1>6. Types'
  BY <1>1, <1>5 DEF Inv, Types
<1>7. Tasks' /\ Hands'
  BY <1>1, <1>4, <1>5 DEF Inv, Tasks, Hands, InHand, Working, k
<1>8. RowsHeld'
  <2> SUFFICES ASSUME NEW b \in Account, sync'[b].status = "running"
               PROVE  /\ sync'[b].token \in Token
                      /\ task'[sync'[b].token].at \notin {"none", "ended"}
                      /\ task'[sync'[b].token].at # "lost" => task'[sync'[b].token].acct = b
    BY DEF RowsHeld
  <2>1. sync'[b] = sync[b]
    BY <1>2, <1>5
  <2> DEFINE j == sync[b].token
  <2>2. /\ j \in Token /\ task[j].at \notin {"none", "ended"}
        /\ task[j].at # "lost" => task[j].acct = b
    BY <2>1 DEF Inv, RowsHeld
  <2>3. CASE j # k
    BY <1>5, <2>1, <2>2, <2>3
  <2>4. CASE j = k
    <3>1. b = a /\ Holds(k)
      BY <1>1, <2>1, <2>2, <2>4 DEF Holds, a
    <3>2. q.at # "ended"
      BY <1>2, <1>5, <2>1, <3>1
    <3> QED
      BY <1>4, <1>5, <2>1, <2>2, <2>4, <3>2
  <2> QED
    BY <2>3, <2>4
<1>9. FetchedCurrent'
  <2> SUFFICES ASSUME NEW j \in Token, task'[j].at = "complete", Holds(j)'
               PROVE  task'[j].login = login[task'[j].acct]
    BY <1>1 DEF FetchedCurrent
  <2>1. j # k /\ task'[j] = task[j] /\ task[j].acct \in Account
    BY <1>4, <1>5 DEF Inv, Tasks, Working
  <2>2. Holds(j)
    BY <1>2, <1>5, <2>1 DEF Holds
  <2> QED
    BY <2>1, <2>2 DEF Inv, FetchedCurrent
<1>10. DoneIsCurrent'
  BY <1>1, <1>2, <1>5 DEF Inv, DoneIsCurrent
<1>11. Counts' /\ CleanReturn'
  <2>1. AtWork' = AtWork
    BY <1>1, <1>4, <1>5 DEF AtWork
  <2> QED
    BY <1>1, <2>1 DEF Inv, Types, Counts, CleanReturn
<1> QED
  BY <1>6, <1>7, <1>8, <1>9, <1>10, <1>11 DEF Inv

-----------------------------------------------------------------------------
(* Run, the process, and the world around it.                              *)

\* Run reports no timeout only when it saw the count of executions at zero and
\* the coordinator gone, and neither comes back.
LEMMA StopsHold == ASSUME Inv, StopClaims \/ Stop PROVE Inv'
<1>1. /\ UNCHANGED <<login, sync, dialogs, task, claims, coordinator, slots>>
      /\ run # "off" /\ run' # "off" /\ run # "returned"
      /\ run' \in {"stopping", "draining", "closing", "returned"}
      /\ tracker' \in [count : Int, stopped : BOOLEAN]
      /\ tracker'.count = tracker.count
  BY DEF StopClaims, Stop, StopAdding, CancelExecution, Return, world, table, Inv, Types
<1>2. Types' /\ Tasks' /\ Hands' /\ RowsHeld' /\ FetchedCurrent' /\ DoneIsCurrent'
  BY <1>1 DEF Inv, Types, Tasks, Hands, InHand, RowsHeld, FetchedCurrent, DoneIsCurrent, Holds
<1>3. Counts'
  BY <1>1 DEF Inv, Counts, AtWork
<1>4. CleanReturn'
  <2> SUFFICES ASSUME run' = "returned", ~timedOut'
               PROVE  AtWork' = {} /\ slots' = 0 /\ coordinator' = "ended"
    BY DEF CleanReturn
  <2>1. Finished
    BY <1>1 DEF StopClaims, Stop, StopAdding, CancelExecution, Return
  <2>2. Cardinality(AtWork) = 0 /\ slots = 0
    BY <2>1 DEF Finished, Inv, Counts
  <2>3. AtWork = {}
    BY <2>2, AtWorkFinite, FS_EmptySet
  <2> QED
    BY <1>1, <2>1, <2>2, <2>3 DEF AtWork, Finished
<1> QED
  BY <1>2, <1>3, <1>4 DEF Inv

\* A start adds rows for accounts that have none.
LEMMA StartHolds == ASSUME Inv, Start PROVE Inv'
<1>1. /\ run = "off" /\ run' = "running" /\ coordinator = "ended" /\ coordinator' = "slot"
      /\ sync' = [a \in Account |-> Backfilled(a)]
      /\ UNCHANGED <<login, dialogs, task, claims, slots, tracker, timedOut>>
  BY DEF Start, Inv, Hands
<1>2. /\ sync' \in [Account -> Row]
      /\ \A a \in Account : sync'[a] = sync[a] \/ sync'[a].status = "pending"
  <2>1. Pending \in Row /\ Pending.status = "pending"
    BY DEF Pending, NoRow, Row
  <2> QED
    BY <1>1, <2>1 DEF Backfilled, Inv, Types
<1>3. Types' /\ Tasks' /\ DoneIsCurrent'
  BY <1>1, <1>2 DEF Inv, Types, Tasks, DoneIsCurrent
<1>4. Hands' /\ RowsHeld'
  BY <1>1, <1>2 DEF Inv, Hands, InHand, RowsHeld
<1>5. FetchedCurrent'
  <2> SUFFICES ASSUME NEW j \in Token, task[j].at = "complete", Holds(j)'
               PROVE  task[j].login = login[task[j].acct]
    BY <1>1 DEF FetchedCurrent
  <2>1. Holds(j)
    BY <1>1, <1>2 DEF Holds, Inv, Tasks, Working
  <2> QED
    BY <2>1 DEF Inv, FetchedCurrent
<1>6. Counts' /\ CleanReturn'
  BY <1>1 DEF Inv, Counts, CleanReturn, AtWork
<1> QED
  BY <1>3, <1>4, <1>5, <1>6 DEF Inv

\* The process dies: a row of one of its tasks is left with the token of a lost
\* one.
LEMMA DiesHolds == ASSUME Inv, Dies PROVE Inv'
<1>1. /\ UNCHANGED <<login, sync, dialogs, claims>>
      /\ run' = "off" /\ coordinator' = "ended" /\ slots' = 0
      /\ tracker' = [count |-> 0, stopped |-> FALSE]
      /\ task' = [k \in Token |->
                     IF task[k].at \in {"none", "ended", "lost"} THEN task[k]
                     ELSE Gone(IF Holds(k) THEN "lost" ELSE "ended")]
  BY DEF Dies, world, table
<1>2. \A h \in {"ended", "lost"} : Gone(h) \in TaskState /\ Gone(h).at = h
  BY DEF Gone, NoTask, TaskState
<1>3. \A k \in Token :
        /\ task'[k] \in TaskState /\ task'[k].at \in {"none", "ended", "lost"}
        /\ task[k].at = "none" => task'[k].at = "none"
        /\ task[k].at \notin {"none", "ended"} /\ Holds(k) => task'[k].at = "lost"
        /\ task[k].at = "lost" => task'[k].at = "lost"
  <2> TAKE k \in Token
  <2>1. CASE task[k].at \in {"none", "ended", "lost"}
    BY <1>1, <2>1 DEF Inv, Types
  <2>2. CASE task[k].at \notin {"none", "ended", "lost"} /\ Holds(k)
    <3>1. task'[k] = Gone("lost")
      BY <1>1, <2>2
    <3> QED
      BY <1>2, <2>2, <3>1
  <2>3. CASE task[k].at \notin {"none", "ended", "lost"} /\ ~Holds(k)
    <3>1. task'[k] = Gone("ended")
      BY <1>1, <2>3
    <3> QED
      BY <1>2, <2>3, <3>1
  <2> QED
    BY <2>1, <2>2, <2>3
<1>4. Types'
  <2>1. task' \in [Token -> TaskState]
    BY <1>1, <1>3
  <2> QED
    BY <1>1, <2>1 DEF Inv, Types
<1>5. Tasks' /\ Hands' /\ FetchedCurrent' /\ DoneIsCurrent'
  BY <1>1, <1>3 DEF Inv, Tasks, Hands, InHand, Working, FetchedCurrent, DoneIsCurrent
<1>6. RowsHeld'
  <2> SUFFICES ASSUME NEW a \in Account, sync[a].status = "running"
               PROVE  sync[a].token \in Token /\ task'[sync[a].token].at = "lost"
    BY <1>1 DEF RowsHeld
  <2> DEFINE k == sync[a].token
  <2>1. /\ k \in Token /\ task[k].at \notin {"none", "ended"}
        /\ task[k].at # "lost" => task[k].acct = a
    BY DEF Inv, RowsHeld
  <2>2. CASE task[k].at = "lost"
    BY <1>3, <2>1, <2>2
  <2>3. CASE task[k].at # "lost"
    <3>1. Holds(k)
      BY <2>1, <2>3 DEF Holds
    <3> QED
      BY <1>3, <2>1, <3>1
  <2> QED
    BY <2>1, <2>2, <2>3
<1>7. Counts' /\ CleanReturn'
  <2>1. AtWork' = {}
    BY <1>3 DEF AtWork
  <2> QED
    BY <1>1, <2>1, FS_EmptySet DEF Counts, CleanReturn
<1> QED
  BY <1>4, <1>5, <1>6, <1>7 DEF Inv

\* An authentication takes the row from whoever holds it; a disconnection and
\* the end of a pause change no holder.
LEMMA WorldHolds ==
    ASSUME Inv, NEW a \in Account, Login(a) \/ Disconnect(a) \/ RetryDue(a)
    PROVE  Inv'
<1>1. UNCHANGED <<dialogs, task, claims, coordinator, slots, tracker, run, timedOut>>
  BY DEF Login, Disconnect, RetryDue, world, table, worker
<1>2. /\ login' \in [Account -> Nat] /\ sync' \in [Account -> Row]
      /\ \A b \in Account :
            \/ sync'[b].status = "pending"
            \/ /\ login'[b] = login[b]
               /\ sync'[b].status = sync[b].status
               /\ sync'[b].token = sync[b].token
  <2>1. CASE Login(a)
    <3>1. Pending \in Row /\ Pending.status = "pending"
      BY DEF Pending, NoRow, Row
    <3> QED
      BY <2>1, <3>1 DEF Login, Inv, Types
  <2>2. CASE Disconnect(a)
    BY <2>2 DEF Disconnect, table, Inv, Types
  <2>3. CASE RetryDue(a)
    <3>1. UNCHANGED login /\ sync' = [sync EXCEPT ![a].waits = FALSE]
      BY <2>3 DEF RetryDue, world
    <3> QED
      BY <3>1 DEF Inv, Types, Row
  <2> QED
    BY <2>1, <2>2, <2>3
<1>3. Types' /\ Tasks' /\ Hands'
  BY <1>1, <1>2 DEF Inv, Types, Tasks, Hands, InHand
<1>4. RowsHeld' /\ DoneIsCurrent'
  BY <1>1, <1>2 DEF Inv, RowsHeld, DoneIsCurrent
<1>5. FetchedCurrent'
  <2> SUFFICES ASSUME NEW j \in Token, task[j].at = "complete", Holds(j)'
               PROVE  task[j].login = login'[task[j].acct]
    BY <1>1 DEF FetchedCurrent
  <2>1. task[j].acct \in Account
    BY DEF Inv, Tasks, Working
  <2>2. Holds(j) /\ login'[task[j].acct] = login[task[j].acct]
    BY <1>1, <1>2, <2>1 DEF Holds
  <2> QED
    BY <2>2 DEF Inv, FetchedCurrent
<1>6. Counts' /\ CleanReturn'
  BY <1>1 DEF Inv, Counts, CleanReturn, AtWork
<1> QED
  BY <1>3, <1>4, <1>5, <1>6 DEF Inv

-----------------------------------------------------------------------------
(* The theorems.                                                           *)

\* The invariant is inductive.
LEMMA InvNext == Inv /\ [Next]_vars => Inv'
<1> SUFFICES ASSUME Inv, [Next]_vars PROVE Inv'
  OBVIOUS
<1>1. CASE Coordinate
  BY <1>1, PollsHold, ClaimHolds, AddHolds, HandBackHolds DEF Coordinate
<1>2. CASE \E k \in Token : Execute(k)
  BY <1>2, FetchesHold, CompleteHolds, SettlesHold DEF Execute
<1>3. CASE StopClaims \/ Stop
  BY <1>3, StopsHold
<1>4. CASE Start \/ Dies
  BY <1>4, StartHolds, DiesHolds
<1>5. CASE \E a \in Account : Login(a) \/ Disconnect(a) \/ RetryDue(a)
  BY <1>5, WorldHolds
<1>6. CASE UNCHANGED vars
  BY <1>6 DEF vars, Inv, Types, Tasks, Hands, InHand, RowsHeld, FetchedCurrent, DoneIsCurrent,
              Counts, CleanReturn, Holds, AtWork
<1> QED
  BY <1>1, <1>2, <1>3, <1>4, <1>5, <1>6 DEF Next

\* Every reachable state of the worker and its queue satisfies the invariant.
THEOREM SyncInvariant == Spec => []Inv
<1> QED
  BY InvInit, InvNext, PTL DEF Spec

\* A sync that is done has seen the dialogs of the authentication that asked
\* for it: Complete is conditional on the token of the claim, and the upsert of
\* an authentication takes the token away.
THEOREM DoneSyncsAreCurrent == Spec => []DoneIsCurrent
<1>1. Inv => DoneIsCurrent
  BY DEF Inv
<1> QED
  BY <1>1, SyncInvariant, PTL

\* Every task that ended let go of its row, and a shutdown that reports no
\* timeout leaves no execution, no claim and no slot behind.
THEOREM TasksLetGo == Spec => []EndedTasksLetGo
<1>1. Inv => EndedTasksLetGo
  BY DEF Inv, EndedTasksLetGo, RowsHeld
<1> QED
  BY <1>1, SyncInvariant, PTL

-----------------------------------------------------------------------------
(* The constraints of the table, and the bounds of what is counted.        *)

\* ck_account_dialog_syncs_*: no attempt beyond the last, and a token exactly
\* while the row is running.
Sound(row) ==
    /\ row.attempts <= MaxAttempts
    /\ row.status = "running" <=> row.token # 0

\* An active account was authenticated, and a task fetches with a login there was.
Logins ==
    /\ login \in [Account -> 0 .. MaxLogins]
    /\ active \subseteq Account
    /\ \A a \in active : login[a] # 0
    /\ \A k \in Token : task[k].at \in {"fetch", "complete"} => task[k].login \in 1 .. MaxLogins
    /\ dialogs \in [Account -> SUBSET (1 .. MaxLogins)]

BoundsInv ==
    /\ \A a \in Account : Sound(sync[a])
    /\ Logins
    /\ slots <= Capacity

\* Whatever writes a row keeps the constraints of the table.
LEMMA SoundNext ==
    ASSUME Inv, \A a \in Account : Sound(sync[a]), [Next]_vars, NEW b \in Account
    PROVE  Sound(sync'[b])
<1> USE SyncAssumption
<1>0. /\ sync \in [Account -> Row] /\ sync[b] \in Row /\ Sound(sync[b])
      /\ task \in [Token -> TaskState] /\ claims \in 0 .. MaxClaims
  BY DEF Inv, Types
<1>1. ASSUME UNCHANGED sync PROVE Sound(sync'[b])
  BY <1>0, <1>1
<1>2. ASSUME NEW a, sync' = Freed(a) PROVE Sound(sync'[b])
  BY <1>0, <1>2 DEF Freed, Sound, Row
<1>3. ASSUME Claim PROVE Sound(sync'[b])
  <2>1. PICK a \in Account :
          /\ Claimable(a)
          /\ sync' = [sync EXCEPT ![a] = [status |-> "running", attempts |-> @.attempts + 1,
                                          token |-> claims + 1, waits |-> FALSE]]
    BY <1>3 DEF Claim
  <2>2. CASE a = b
    <3>1. sync'[b] = [status |-> "running", attempts |-> sync[b].attempts + 1,
                      token |-> claims + 1, waits |-> FALSE]
      BY <1>0, <2>1, <2>2
    <3>2. sync[b].attempts < MaxAttempts /\ sync[b].attempts \in Nat /\ claims \in Nat
      BY <1>0, <2>1, <2>2 DEF Claimable, Row
    <3> QED
      BY <3>1, <3>2 DEF Sound
  <2>3. CASE a # b
    BY <1>0, <2>1, <2>3
  <2> QED
    BY <2>2, <2>3
<1>4. ASSUME NEW k \in Token, Complete(k) PROVE Sound(sync'[b])
  <2>1. CASE UNCHANGED sync
    BY <1>1, <2>1
  <2>2. CASE ~UNCHANGED sync
    <3>1. Written(k) /\ sync' # sync
      BY <1>4, <2>2 DEF Complete, table
    <3>2. sync' = [sync EXCEPT ![task[k].acct] =
                      [@ EXCEPT !.status = "done", !.token = 0, !.waits = FALSE]]
      BY <3>1 DEF Written
    <3> QED
      BY <1>0, <3>2 DEF Sound, Row
  <2> QED
    BY <2>1, <2>2
<1>5. ASSUME NEW k \in Token, Settle(k) PROVE Sound(sync'[b])
  <2>1. CASE UNCHANGED sync
    BY <1>1, <2>1
  <2>2. CASE sync' = Settled(k)
    <3> DEFINE a == task[k].acct
               again == [sync[a] EXCEPT !.status = "pending", !.token = 0, !.waits = TRUE]
               fresh == [again EXCEPT !.attempts = 0]
               failed == [sync[a] EXCEPT !.status = "failed", !.token = 0]
    <3>1. \/ sync' = [[sync EXCEPT ![a] = again] EXCEPT ![a].attempts = 0]
          \/ sync' = [sync EXCEPT ![a] = again]
          \/ sync' = [sync EXCEPT ![a] = failed]
      BY <2>2 DEF Settled
    <3>2. CASE a # b
      <4> HIDE DEF again, failed, a
      <4> QED
        BY <1>0, <3>1, <3>2
    <3>3. CASE a = b
      <4>1. /\ again.attempts = sync[b].attempts /\ again.status = "pending" /\ again.token = 0
            /\ failed.attempts = sync[b].attempts /\ failed.status = "failed" /\ failed.token = 0
            /\ fresh.attempts = 0 /\ fresh.status = "pending" /\ fresh.token = 0
        BY <1>0, <3>3 DEF Row
      <4>2. MaxAttempts \in Nat /\ sync[b].attempts <= MaxAttempts
        BY <1>0 DEF Sound
      <4>3. Sound(again) /\ Sound(failed) /\ Sound(fresh)
        <5> HIDE DEF again, failed, fresh
        <5> QED
          BY <4>1, <4>2 DEF Sound
      <4>4. sync'[b] \in {again, failed, fresh}
        <5> HIDE DEF again, failed
        <5> QED
          BY <1>0, <3>1, <3>3
      <4> HIDE DEF again, failed, fresh
      <4> QED
        BY <4>3, <4>4
    <3> QED
      BY <3>2, <3>3
  <2> QED
    BY <1>5, <2>1, <2>2 DEF Settle
<1>6. ASSUME Start PROVE Sound(sync'[b])
  <2>1. sync'[b] = sync[b] \/ sync'[b] = Pending
    BY <1>6 DEF Start, Backfilled
  <2> QED
    BY <1>0, <2>1 DEF Sound, Pending, NoRow
<1>7. ASSUME NEW a \in Account, Login(a) PROVE Sound(sync'[b])
  <2>1. sync'[b] = sync[b] \/ sync'[b] = Pending
    BY <1>0, <1>7 DEF Login
  <2> QED
    BY <1>0, <2>1 DEF Sound, Pending, NoRow
<1>8. ASSUME NEW a \in Account, RetryDue(a) PROVE Sound(sync'[b])
  BY <1>0, <1>8 DEF RetryDue, Sound, Row
<1>9. ASSUME NEW k \in Token, Release(k) \/ HandBack PROVE Sound(sync'[b])
  BY <1>1, <1>2, <1>9 DEF Release, HandBack
<1>10. ASSUME HandBack PROVE Sound(sync'[b])
  BY <1>1, <1>2, <1>10 DEF HandBack
<1>11. CASE Coordinate
  <2>1. Claim \/ HandBack \/ UNCHANGED sync
    BY <1>11 DEF Coordinate, TakeSlot, ClaimFails, Hand, Add, table
  <2> QED
    BY <1>1, <1>3, <1>10, <2>1
<1>12. CASE \E k \in Token : Execute(k)
  <2>1. PICK k \in Token : Execute(k)
    BY <1>12
  <2>2. Complete(k) \/ Settle(k) \/ Release(k) \/ UNCHANGED sync
    BY <2>1 DEF Execute, Interrupted, Revalidate, Fetch, FetchFails, table
  <2> QED
    BY <1>1, <1>4, <1>5, <1>9, <2>2
<1>13. CASE StopClaims \/ Stop \/ Dies \/ (\E a \in Account : Disconnect(a)) \/ UNCHANGED vars
  <2>1. UNCHANGED sync
    BY <1>13 DEF StopClaims, Stop, StopAdding, CancelExecution, Return, Dies, Disconnect, table, vars
  <2> QED
    BY <1>1, <2>1
<1> QED
  BY <1>6, <1>7, <1>8, <1>11, <1>12, <1>13 DEF Next

\* A task that fetches has read the login when its account was active.
LEMMA LoginsNext ==
    ASSUME Inv, Logins, [Next]_vars
    PROVE  Logins'
<1> USE SyncAssumption
<1>0. /\ task \in [Token -> TaskState] /\ claims \in 0 .. MaxClaims
      /\ \A k \in Token : task[k].at \in Working => task[k].acct \in Account
      /\ Gone("ended").at = "ended" /\ Gone("lost").at = "lost"
  BY DEF Inv, Types, Tasks, Gone, NoTask
<1>1. ASSUME UNCHANGED <<login, active, dialogs>>,
             \A k \in Token : task'[k].at \in {"fetch", "complete"} =>
                 task'[k].login \in 1 .. MaxLogins
      PROVE  Logins'
  BY <1>1 DEF Logins
<1>2. ASSUME UNCHANGED <<login, active, dialogs, task>> PROVE Logins'
  BY <1>1, <1>2 DEF Logins
<1>3. ASSUME NEW k \in Token, NEW q, task' = [task EXCEPT ![k] = q],
             q.at \in {"fetch", "complete"} => q.login \in 1 .. MaxLogins
      PROVE  \A j \in Token : task'[j].at \in {"fetch", "complete"} =>
                 task'[j].login \in 1 .. MaxLogins
  BY <1>0, <1>3 DEF Logins
<1>4. ASSUME NEW k \in Token, NEW at, NEW cause, at \notin {"fetch", "complete"},
             Fails(k, cause, at) \/ Steps(k, at)
      PROVE  \A j \in Token : task'[j].at \in {"fetch", "complete"} =>
                 task'[j].login \in 1 .. MaxLogins
  <2>1. CASE Fails(k, cause, at)
    <3> DEFINE q == [task[k] EXCEPT !.at = at, !.cause = cause]
    <3>1. task' = [task EXCEPT ![k] = q] /\ q.at = at
      BY <1>0, <2>1 DEF Fails, TaskState
    <3> HIDE DEF q
    <3> QED
      BY <1>3, <1>4, <3>1
  <2>2. CASE Steps(k, at)
    <3> DEFINE q == [task[k] EXCEPT !.at = at]
    <3>1. task' = [task EXCEPT ![k] = q] /\ q.at = at
      BY <1>0, <2>2 DEF Steps, TaskState
    <3> HIDE DEF q
    <3> QED
      BY <1>3, <1>4, <3>1
  <2> QED
    BY <1>4, <2>1, <2>2
<1>5. ASSUME NEW k \in Token, NEW how \in {"ended", "lost"}, Ends(k, how)
      PROVE  \A j \in Token : task'[j].at \in {"fetch", "complete"} =>
                 task'[j].login \in 1 .. MaxLogins
  <2>1. task' = [task EXCEPT ![k] = Gone(how)] /\ Gone(how).at \notin {"fetch", "complete"}
    BY <1>0, <1>5 DEF Ends
  <2> QED
    BY <1>3, <2>1
<1>6. ASSUME NEW k \in Token, Interrupted(k) \/ Revalidate(k) \/ FetchFails(k) PROVE Logins'
  <2>1. UNCHANGED <<login, active, dialogs>>
    BY <1>6 DEF Interrupted, Revalidate, FetchFails, world, table
  <2>2. CASE \E at \in {"release", "settle"},
                cause \in {"interrupted", "rejected", "transient", "permanent", "flood"} :
                Fails(k, cause, at)
    BY <1>1, <1>4, <2>1, <2>2
  <2>3. CASE ~ \E at \in {"release", "settle"},
                cause \in {"interrupted", "rejected", "transient", "permanent", "flood"} :
                Fails(k, cause, at)
    <3> DEFINE q == [task[k] EXCEPT !.at = "fetch", !.login = login[task[k].acct]]
    <3>1. /\ task' = [task EXCEPT ![k] = q] /\ task[k].acct \in active
      BY <1>6, <2>3 DEF Interrupted, Revalidate, FetchFails
    <3>2. q.login = login[task[k].acct] /\ login[task[k].acct] \in 1 .. MaxLogins
      BY <1>0, <3>1 DEF Logins, TaskState
    <3> HIDE DEF q
    <3> QED
      BY <1>1, <1>3, <2>1, <3>1, <3>2
  <2> QED
    BY <2>2, <2>3
<1>7. ASSUME NEW k \in Token, Fetch(k) PROVE Logins'
  <2> DEFINE q == [task[k] EXCEPT !.at = "complete"]
  <2>1. /\ UNCHANGED <<login, active, dialogs>> /\ task' = [task EXCEPT ![k] = q]
        /\ task[k].at = "fetch"
    BY <1>7 DEF Fetch, Steps, world, table
  <2>2. q.login = task[k].login /\ task[k].login \in 1 .. MaxLogins
    BY <1>0, <2>1 DEF Logins, TaskState
  <2> HIDE DEF q
  <2> QED
    BY <1>1, <1>3, <2>1, <2>2
<1>8. ASSUME NEW k \in Token, Complete(k) PROVE Logins'
  <2>1. /\ UNCHANGED <<login, active>> /\ task[k].login \in 1 .. MaxLogins
        /\ task[k].acct \in Account
    BY <1>0, <1>8 DEF Complete, world, Logins, Working
  <2>2. dialogs' \in [Account -> SUBSET (1 .. MaxLogins)]
    <3>1. \/ dialogs' = dialogs
          \/ dialogs' = [dialogs EXCEPT ![task[k].acct] = @ \cup {task[k].login}]
      BY <1>8 DEF Complete, Written, table
    <3>2. dialogs[task[k].acct] \cup {task[k].login} \in SUBSET (1 .. MaxLogins)
      BY <2>1 DEF Logins
    <3> QED
      BY <2>1, <3>1, <3>2 DEF Logins
  <2>3. \A j \in Token : task'[j].at \in {"fetch", "complete"} => task'[j].login \in 1 .. MaxLogins
    BY <1>4, <1>5, <1>8 DEF Complete
  <2> QED
    BY <2>1, <2>2, <2>3 DEF Logins
<1>9. ASSUME NEW k \in Token, Settle(k) \/ Release(k) PROVE Logins'
  <2>1. UNCHANGED <<login, active, dialogs>>
    BY <1>9 DEF Settle, Release, world
  <2>2. \E how \in {"ended", "lost"} : Ends(k, how)
    BY <1>9 DEF Settle, Release
  <2> QED
    BY <1>1, <1>5, <2>1, <2>2
<1>10. CASE TakeSlot \/ ClaimFails \/ Hand \/ StopClaims \/ Stop \/ Start
  BY <1>2, <1>10 DEF TakeSlot, ClaimFails, Hand, StopClaims, Stop, StopAdding, CancelExecution, Return,
                     Start, world, table
<1>11. CASE Claim
  <2>1. UNCHANGED <<login, active, dialogs>> /\ claims + 1 \in Token
    BY <1>0, <1>11 DEF Claim, world, Token
  <2>2. \E a \in Account : \/ task' = [task EXCEPT ![claims + 1] = [NoTask EXCEPT !.at = "hand", !.acct = a]]
                           \/ task' = [task EXCEPT ![claims + 1] = Gone("lost")]
    BY <1>11 DEF Claim
  <2>3. \A a \in Account : [NoTask EXCEPT !.at = "hand", !.acct = a].at = "hand"
    BY DEF NoTask
  <2> QED
    BY <1>0, <1>1, <1>3, <2>1, <2>2, <2>3
<1>12. CASE Add
  <2>1. UNCHANGED <<login, active, dialogs>> /\ claims \in Token
    BY <1>12 DEF Add, world, table, Inv, Hands, InHand
  <2>2. CASE UNCHANGED task
    BY <1>2, <2>1, <2>2
  <2>3. CASE Steps(claims, "revalidate")
    <3>1. \A j \in Token : task'[j].at \in {"fetch", "complete"} =>
             task'[j].login \in 1 .. MaxLogins
      <4>1. "revalidate" \notin {"fetch", "complete"}
        OBVIOUS
      <4> QED
        BY <1>4, <2>1, <2>3, <4>1
    <3> QED
      BY <1>1, <2>1, <3>1
  <2> QED
    BY <1>12, <2>2, <2>3 DEF Add
<1>13. CASE HandBack
  <2>1. UNCHANGED <<login, active, dialogs>> /\ claims \in Token
    BY <1>13 DEF HandBack, world, Inv, Hands, InHand
  <2>2. \E how \in {"ended", "lost"} : task' = [task EXCEPT ![claims] = Gone(how)]
    BY <1>13 DEF HandBack
  <2> QED
    BY <1>0, <1>1, <1>3, <2>1, <2>2
<1>14. CASE Dies
  <2>1. UNCHANGED <<login, active, dialogs>>
    BY <1>14 DEF Dies, world, table
  <2>2. \A k \in Token : task'[k].at \notin {"fetch", "complete"}
    BY <1>0, <1>14 DEF Dies
  <2> QED
    BY <1>1, <2>1, <2>2
<1>15. ASSUME NEW a \in Account, Login(a) PROVE Logins'
  <2>1. /\ login' = [login EXCEPT ![a] = login[a] + 1] /\ active' = active \cup {a}
        /\ login[a] < MaxLogins /\ UNCHANGED <<dialogs, task>>
    BY <1>15 DEF Login
  <2>2. login[a] + 1 \in 1 .. MaxLogins
    BY <2>1 DEF Logins
  <2> QED
    BY <2>1, <2>2 DEF Logins
<1>16. ASSUME NEW a \in Account, Disconnect(a) PROVE Logins'
  BY <1>16 DEF Disconnect, Logins, table
<1>17. ASSUME NEW a \in Account, RetryDue(a) PROVE Logins'
  BY <1>2, <1>17 DEF RetryDue, world
<1>18. CASE UNCHANGED vars
  BY <1>2, <1>18 DEF vars
<1> QED
  BY <1>6, <1>7, <1>8, <1>9, <1>10, <1>11, <1>12, <1>13, <1>14, <1>15, <1>16, <1>17, <1>18
  DEF Next, Coordinate, Execute

\* Only TakeSlot takes a slot.
LEMMA SlotsNext ==
    ASSUME Inv, slots <= Capacity, [Next]_vars
    PROVE  slots' <= Capacity
<1>1. slots \in Int /\ Capacity \in Nat
  BY SyncAssumption DEF Inv, Types
<1>2. CASE Coordinate
  <2>1. CASE TakeSlot
    BY <1>1, <2>1 DEF TakeSlot
  <2>2. CASE HandBack
    <3>1. slots' = slots - 1
      BY <2>2 DEF HandBack
    <3> QED
      BY <1>1, <3>1
  <2>3. CASE Claim \/ ClaimFails \/ Hand \/ Add
    <3>1. slots' \in {slots, slots - 1}
      BY <2>3 DEF Claim, ClaimFails, Hand, Add, worker
    <3> QED
      BY <1>1, <3>1
  <2> QED
    BY <1>2, <2>1, <2>2, <2>3 DEF Coordinate
<1>3. ASSUME NEW k \in Token, Execute(k) PROVE slots' <= Capacity
  <2>1. slots' = slots \/ slots' = slots - 1
    BY <1>3 DEF Execute, Interrupted, Revalidate, Fetch, FetchFails, Complete, Settle, Release,
                Ends, worker
  <2> QED
    BY <1>1, <2>1
<1>4. CASE Dies
  BY <1>1, <1>4 DEF Dies
<1>5. CASE StopClaims \/ Stop \/ Start \/ UNCHANGED vars
           \/ \E a \in Account : Login(a) \/ Disconnect(a) \/ RetryDue(a)
  BY <1>5 DEF StopClaims, Stop, StopAdding, CancelExecution, Return, Start, vars, Login,
              Disconnect, RetryDue, worker
<1> QED
  BY <1>2, <1>3, <1>4, <1>5 DEF Next

\* The types; the rows satisfy the constraints of the table; slots and tracker
\* count what is at work.
THEOREM SyncTypes == Spec => []TypeOK
<1>1. Init => BoundsInv
  <2> SUFFICES ASSUME Init PROVE BoundsInv
    OBVIOUS
  <2>1. \A a \in Account : Sound(sync[a])
    BY SyncAssumption DEF Init, Sound, NoRow
  <2>2. Logins
    BY SyncAssumption DEF Init, Logins, NoTask
  <2>3. slots <= Capacity
    BY SyncAssumption DEF Init
  <2> QED
    BY <2>1, <2>2, <2>3 DEF BoundsInv
<1>2. Inv /\ BoundsInv /\ [Next]_vars => BoundsInv'
  <2> SUFFICES ASSUME Inv, BoundsInv, [Next]_vars PROVE BoundsInv'
    OBVIOUS
  <2> QED
    BY SoundNext, LoginsNext, SlotsNext DEF BoundsInv
<1>3. Spec => []BoundsInv
  BY <1>1, <1>2, SyncInvariant, PTL DEF Spec
<1>4. Inv /\ BoundsInv => TypeOK
  <2> SUFFICES ASSUME Inv, BoundsInv PROVE TypeOK
    OBVIOUS
  <2>1. /\ active \subseteq Account
        /\ login \in [Account -> 0 .. MaxLogins]
        /\ dialogs \in [Account -> SUBSET (1 .. MaxLogins)]
    BY DEF BoundsInv, Logins
  <2>2. sync \in [Account -> [status : {"none", "pending", "running", "done", "failed"},
                              attempts : 0 .. MaxAttempts, token : {0} \cup Token,
                              waits : BOOLEAN]]
    <3>1. \A a \in Account : sync[a] \in Row /\ sync[a].attempts \in 0 .. MaxAttempts
      BY SyncAssumption DEF Inv, Types, BoundsInv, Sound, Row
    <3> QED
      BY <3>1 DEF Inv, Types, Row
  <2>3. \A a \in Account : sync[a].status = "running" <=> sync[a].token # 0
    BY DEF BoundsInv, Sound
  <2>4. slots \in 0 .. Capacity /\ tracker.count = Cardinality(AtWork)
    BY AtWorkFinite, SyncAssumption DEF Inv, Counts, Types, BoundsInv
  <2> QED
    BY <2>1, <2>2, <2>3, <2>4 DEF TypeOK, Inv, Types
<1> QED
  BY <1>3, <1>4, SyncInvariant, PTL

-----------------------------------------------------------------------------
(* What strands a row, and for how long.                                   *)

\* A failure that Settle writes leaves attempts to be made, or is final.
LEMMA SettledLeavesAttempts ==
    ASSUME Inv, NEW k \in Token, task[k].acct \in Account, sync' = Settled(k)
    PROVE  \/ sync'[task[k].acct].status = "failed"
           \/ sync'[task[k].acct].attempts < MaxAttempts
<1> DEFINE a == task[k].acct
           again == [sync[a] EXCEPT !.status = "pending", !.token = 0, !.waits = TRUE]
           fresh == [again EXCEPT !.attempts = 0]
           failed == [sync[a] EXCEPT !.status = "failed", !.token = 0]
<1>1. sync \in [Account -> Row] /\ a \in Account
  BY DEF Inv, Types
<1>2. /\ again.attempts = sync[a].attempts /\ fresh.attempts = 0 /\ failed.status = "failed"
  BY <1>1 DEF Row
<1>3. \/ sync' = [[sync EXCEPT ![a] = again] EXCEPT ![a].attempts = 0]
      \/ sync' = [sync EXCEPT ![a] = again] /\ sync[a].attempts < MaxAttempts
      \/ sync' = [sync EXCEPT ![a] = failed]
  BY DEF Settled
<1>4. 0 < MaxAttempts
  BY SyncAssumption
<1>5. \/ sync'[a] = fresh
      \/ sync'[a] = again /\ sync[a].attempts < MaxAttempts
      \/ sync'[a] = failed
  <2> HIDE DEF a, again, failed
  <2> QED
    BY <1>1, <1>3
<1> HIDE DEF again, fresh, failed
<1> QED
  BY <1>2, <1>4, <1>5

\* The task that writes its own row: it is at work, or in hand and handed back.
Writes(k) ==
    /\ Holds(k)
    /\ task[k].at = "hand" => coordinator = "release"
    /\ task[k].at \in Working \cup {"hand"}

\* What one step may do to a row.  It is written by the task that holds it, claimed
\* while it has attempts left, made anew for a row that is not there or for an
\* authentication, or becomes due.
RowMoves(a) ==
    \/ sync'[a] = sync[a]
    \/ /\ sync[a].status = "pending" /\ sync[a].attempts < MaxAttempts
       /\ sync'[a].status = "running"
    \/ \E k \in Token :
          /\ task[k].acct = a /\ Writes(k)
          /\ \/ task[k].at \in {"release", "hand"}
             \/ sync'[a].status \in {"done", "failed"}
             \/ sync'[a].attempts < MaxAttempts
    \/ /\ sync[a].status = "none" \/ login'[a] # login[a]
       /\ sync'[a].attempts < MaxAttempts
    \/ /\ sync'[a].status = sync[a].status /\ sync'[a].attempts = sync[a].attempts
       /\ sync'[a].token = sync[a].token

\* A task writes its own row.
LEMMA WrittenRow ==
    ASSUME NEW k \in Token, Holds(k), task[k].at \in Working \cup {"hand"},
           task[k].at = "hand" => coordinator = "release",
           \/ task[k].at \in {"release", "hand"}
           \/ sync'[task[k].acct].status \in {"done", "failed"}
           \/ sync'[task[k].acct].attempts < MaxAttempts
    PROVE  RowMoves(task[k].acct)
  BY DEF RowMoves, Writes

\* No step does anything else to a row.
LEMMA RowsMove ==
    ASSUME Inv, Next, NEW b \in Account
    PROVE  RowMoves(b)
<1>0. /\ sync \in [Account -> Row] /\ sync[b] \in Row /\ login \in [Account -> Nat]
      /\ claims \in 0 .. MaxClaims /\ Pending.attempts < MaxAttempts
      /\ \A k \in Token : task[k].at \in Working \cup {"hand"} => task[k].acct \in Account
  BY SyncAssumption DEF Inv, Types, Tasks, Pending, NoRow
<1>1. ASSUME UNCHANGED sync PROVE RowMoves(b)
  BY <1>1 DEF RowMoves
<1>2. ASSUME Claim PROVE RowMoves(b)
  <2>1. PICK a \in Account :
          /\ Claimable(a)
          /\ sync' = [sync EXCEPT ![a] = [status |-> "running", attempts |-> @.attempts + 1,
                                          token |-> claims + 1, waits |-> FALSE]]
    BY <1>2 DEF Claim
  <2>2. CASE a = b
    <3>1. sync'[b].status = "running"
      BY <1>0, <2>1, <2>2
    <3> QED
      BY <2>1, <2>2, <3>1 DEF Claimable, RowMoves
  <2>3. CASE a # b
    BY <1>0, <2>1, <2>3 DEF RowMoves
  <2> QED
    BY <2>2, <2>3
<1>3. ASSUME NEW k \in Token, Complete(k) PROVE RowMoves(b)
  <2>1. CASE UNCHANGED sync
    BY <1>1, <2>1
  <2>2. CASE ~UNCHANGED sync
    <3>1. Written(k) /\ sync' # sync /\ task[k].at = "complete"
      BY <1>3, <2>2 DEF Complete, table
    <3>2. /\ Holds(k)
          /\ sync' = [sync EXCEPT ![task[k].acct] =
                         [@ EXCEPT !.status = "done", !.token = 0, !.waits = FALSE]]
      BY <3>1 DEF Written
    <3>3. CASE task[k].acct = b
      <4>1. sync'[b].status = "done"
        BY <1>0, <3>2, <3>3 DEF Row
      <4> QED
        BY <3>1, <3>2, <3>3, <4>1, WrittenRow DEF Working
    <3>4. CASE task[k].acct # b
      BY <1>0, <3>2, <3>4 DEF RowMoves
    <3> QED
      BY <3>3, <3>4
  <2> QED
    BY <2>1, <2>2
<1>4. ASSUME NEW k \in Token, Settle(k) PROVE RowMoves(b)
  <2>1. CASE UNCHANGED sync
    BY <1>1, <2>1
  <2>2. CASE ~UNCHANGED sync
    <3>1. Holds(k) /\ sync' = Settled(k) /\ task[k].at = "settle" /\ task[k].acct \in Account
      BY <1>0, <1>4, <2>2 DEF Settle, Working
    <3>2. CASE task[k].acct = b
      <4>1. sync'[b].status = "failed" \/ sync'[b].attempts < MaxAttempts
        BY <3>1, <3>2, SettledLeavesAttempts
      <4> QED
        BY <3>1, <3>2, <4>1, WrittenRow DEF Working
    <3>3. CASE task[k].acct # b
      BY <1>0, <3>1, <3>3 DEF RowMoves, Settled
    <3> QED
      BY <3>2, <3>3
  <2> QED
    BY <2>1, <2>2
<1>5. ASSUME NEW k \in Token, Holds(k), sync' = Freed(task[k].acct),
             task[k].at \in {"release", "hand"}, task[k].at = "hand" => coordinator = "release"
      PROVE  RowMoves(b)
  <2>1. CASE task[k].acct = b
    BY <1>5, <2>1, WrittenRow DEF Working
  <2>2. CASE task[k].acct # b
    BY <1>0, <1>5, <2>2 DEF RowMoves, Freed
  <2> QED
    BY <2>1, <2>2
<1>6. ASSUME NEW k \in Token, Release(k) PROVE RowMoves(b)
  <2>1. CASE UNCHANGED sync
    BY <1>1, <2>1
  <2>2. CASE ~UNCHANGED sync
    BY <1>5, <1>6, <2>2 DEF Release
  <2> QED
    BY <2>1, <2>2
<1>7. ASSUME HandBack PROVE RowMoves(b)
  <2>1. claims \in Token /\ task[claims].at = "hand" /\ coordinator = "release"
    BY <1>7 DEF HandBack, Inv, Hands, InHand
  <2> QED
    BY <1>1, <1>5, <1>7, <2>1 DEF HandBack
<1>8. ASSUME Start PROVE RowMoves(b)
  <2>1. sync'[b] = sync[b] \/ (sync[b].status = "none" /\ sync'[b] = Pending)
    BY <1>8 DEF Start, Backfilled
  <2> QED
    BY <1>0, <2>1 DEF RowMoves
<1>9. ASSUME NEW a \in Account, Login(a) PROVE RowMoves(b)
  <2>1. CASE a = b
    <3>1. sync'[b] = Pending /\ login'[b] = login[b] + 1 /\ login[b] \in Nat
      BY <1>0, <1>9, <2>1 DEF Login
    <3>2. login'[b] # login[b]
      BY <3>1
    <3> QED
      BY <1>0, <3>1, <3>2 DEF RowMoves
  <2>2. CASE a # b
    BY <1>0, <1>9, <2>2 DEF Login, RowMoves
  <2> QED
    BY <2>1, <2>2
<1>10. ASSUME NEW a \in Account, RetryDue(a) PROVE RowMoves(b)
  <2>1. /\ sync'[b].status = sync[b].status /\ sync'[b].attempts = sync[b].attempts
        /\ sync'[b].token = sync[b].token
    BY <1>0, <1>10 DEF RetryDue, Row
  <2> QED
    BY <2>1 DEF RowMoves
<1>11. CASE Coordinate
  <2>1. Claim \/ HandBack \/ UNCHANGED sync
    BY <1>11 DEF Coordinate, TakeSlot, ClaimFails, Hand, Add, table
  <2> QED
    BY <1>1, <1>2, <1>7, <2>1
<1>12. ASSUME NEW k \in Token, Execute(k) PROVE RowMoves(b)
  <2>1. Complete(k) \/ Settle(k) \/ Release(k) \/ UNCHANGED sync
    BY <1>12 DEF Execute, Interrupted, Revalidate, Fetch, FetchFails, table
  <2> QED
    BY <1>1, <1>3, <1>4, <1>6, <2>1
<1>13. CASE StopClaims \/ Stop \/ Dies \/ (\E a \in Account : Disconnect(a))
  BY <1>1, <1>13 DEF StopClaims, Stop, StopAdding, CancelExecution, Return, Dies, Disconnect, table
<1> QED
  BY <1>8, <1>9, <1>10, <1>11, <1>12, <1>13 DEF Next

\* Nobody finds a lost task again.
LEMMA LostStaysLost ==
    ASSUME Inv, Next, NEW k \in Token, task[k].at = "lost"
    PROVE  task'[k].at = "lost"
<1>0. /\ task \in [Token -> TaskState] /\ claims \in 0 .. MaxClaims
      /\ k <= claims /\ claims \in Nat
  BY SyncAssumption DEF Inv, Types, Tasks, Token
<1>1. ASSUME NEW j, j # k, NEW q, task' = [task EXCEPT ![j] = q]
      PROVE  task'[k].at = "lost"
  BY <1>0, <1>1
<1>2. ASSUME NEW j \in Token, Execute(j)
      PROVE  task'[k].at = "lost"
  <2>1. task[j].at \in Working /\ j # k
    BY <1>2 DEF Execute, Interrupted, Revalidate, Fetch, FetchFails, Complete, Settle, Release,
                Working
  <2>2. \E q : task' = [task EXCEPT ![j] = q]
    BY <1>2 DEF Execute, Interrupted, Revalidate, Fetch, FetchFails, Complete, Settle, Release,
                Ends, Fails, Steps
  <2> QED
    BY <1>1, <2>1, <2>2
<1>3. CASE Claim
  <2>1. claims + 1 # k /\ \E q : task' = [task EXCEPT ![claims + 1] = q]
    BY <1>0, <1>3 DEF Claim, Token
  <2> QED
    BY <1>1, <2>1
<1>4. CASE Add \/ HandBack
  <2>1. claims # k
    BY <1>4 DEF Add, HandBack, Inv, Hands, InHand
  <2>2. task' = task \/ \E q : task' = [task EXCEPT ![claims] = q]
    BY <1>4 DEF Add, HandBack, Steps
  <2> QED
    BY <1>1, <2>1, <2>2
<1>5. CASE Dies
  BY <1>0, <1>5 DEF Dies
<1>6. CASE TakeSlot \/ ClaimFails \/ Hand \/ StopClaims \/ Stop \/ Start
           \/ \E a \in Account : Login(a) \/ Disconnect(a) \/ RetryDue(a)
  BY <1>6 DEF TakeSlot, ClaimFails, Hand, StopClaims, Stop, StopAdding, CancelExecution, Return,
              Start, Login, Disconnect, RetryDue
<1> QED
  BY <1>2, <1>3, <1>4, <1>5, <1>6 DEF Next, Coordinate

\* ReleasedIsRetryable is not kept, but only by a release: neither a failure that is
\* settled, nor a crash, nor a restart leaves a pending row without attempts.
THEOREM OnlyReleases == Spec => OnlyReleasesExhaust
<1>1. Inv /\ [Next]_vars =>
        [\A a \in Account : ~Exhausted(a) /\ Exhausted(a)' =>
            \E k \in Token : /\ task[k].acct = a /\ Holds(k)
                             /\ \/ task[k].at = "release"
                                \/ task[k].at = "hand" /\ coordinator = "release"]_vars
  <2> SUFFICES ASSUME Inv, Next, NEW a \in Account, ~Exhausted(a), Exhausted(a)'
               PROVE  \E k \in Token : /\ task[k].acct = a /\ Holds(k)
                                       /\ \/ task[k].at = "release"
                                          \/ task[k].at = "hand" /\ coordinator = "release"
    OBVIOUS
  <2>1. /\ sync'[a].status = "pending" /\ ~(sync'[a].attempts < MaxAttempts)
        /\ ~(sync'[a].status = sync[a].status /\ sync'[a].attempts = sync[a].attempts)
    <3>1. sync'[a].attempts \in Nat /\ MaxAttempts \in Nat
      BY InvNext, SyncAssumption DEF Inv, Types, Row
    <3> QED
      BY <3>1 DEF Exhausted
  <2>2. PICK k \in Token : /\ task[k].acct = a /\ Writes(k) /\ task[k].at \in {"release", "hand"}
    BY <2>1, RowsMove DEF RowMoves
  <2> QED
    BY <2>2 DEF Writes, Working
<1> QED
  BY <1>1, SyncInvariant, PTL DEF Spec, OnlyReleasesExhaust

\* A stranded row stays stranded until its account is authenticated again.
THEOREM StrandedRowsWait == Spec => StrandedUntilLogin
<1>1. Inv /\ [Next]_vars =>
        [\A a \in Account : Stranded(a) /\ login'[a] = login[a] => Stranded(a)']_vars
  <2> SUFFICES ASSUME Inv, Next, NEW a \in Account, Stranded(a), login'[a] = login[a]
               PROVE  Stranded(a)'
    OBVIOUS
  <2>1. RowMoves(a)
    BY RowsMove
  <2>2. CASE Exhausted(a)
    <3>1. sync[a].status = "pending" /\ ~(sync[a].attempts < MaxAttempts)
      BY <2>2, SyncAssumption DEF Exhausted, Inv, Types, Row
    <3>2. sync'[a].status = sync[a].status /\ sync'[a].attempts = sync[a].attempts
      BY <2>1, <3>1 DEF RowMoves, Writes, Holds
    <3> QED
      BY <2>2, <3>2 DEF Exhausted, Stranded
  <2>3. CASE sync[a].status = "running" /\ task[sync[a].token].at = "lost"
    <3>1. PICK k \in Token : k = sync[a].token
      BY <2>3 DEF Inv, RowsHeld
    <3>2. task[k].at = "lost" /\ task'[k].at = "lost"
      BY <2>3, <3>1, LostStaysLost
    <3>3. \A j \in Token : ~(task[j].acct = a /\ Writes(j))
      BY <3>1, <3>2 DEF Writes, Holds, Working
    <3>4. sync'[a].status = "running" /\ sync'[a].token = k
      BY <2>1, <2>3, <3>1, <3>3 DEF RowMoves
    <3> QED
      BY <3>2, <3>4 DEF Stranded
  <2> QED
    BY <2>2, <2>3 DEF Stranded
<1> QED
  BY <1>1, SyncInvariant, PTL DEF Spec, StrandedUntilLogin
=============================================================================
