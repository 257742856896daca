-------------------------- MODULE AccountLifecycle --------------------------
(***************************************************************************)
(* One operator's Telegram accounts, from the first phone code to the      *)
(* remote logout.                                                          *)
(*                                                                         *)
(* Four owners of state meet here, and no lock spans two of them:          *)
(*   - the rows operator_accounts and sessions in PostgreSQL (row, session), *)
(*     every write of which is guarded by the status and the version;      *)
(*   - the process-local challenges (challenge, lock, gate, closed);       *)
(*   - the account owner registry (client, fence, runtimeStopped), which   *)
(*     AccountOwner models in full and which is one atomic step here;      *)
(*   - Telegram, which knows whether the stored session is authorized.     *)
(*                                                                         *)
(* The requests of the operator are the processes of Call.  Sys is the     *)
(* goroutine of main: recovery at startup, then shutdown.  A write to      *)
(* PostgreSQL may fail, or commit and lose its reply; a call to Telegram   *)
(* may fail, or take effect and lose its reply; the process may die        *)
(* between any two steps.                                                  *)
(***************************************************************************)
EXTENDS Naturals, FiniteSets

CONSTANTS
    Account,        \* phones of the operator, one row each
    Call,           \* request goroutines
    Sys,            \* the goroutine of main
    None,
    MaxChallenges,  \* bound: challenges ever created
    MaxAttempts,    \* maxCodeAttempts, maxPasswordAttempts
    Capacity,       \* maxLiveChallenges: challenges and tombstones
    LastStart,      \* bound: version above which no authentication begins
    MaxCrashes      \* bound: deaths of the process

ASSUME LifecycleAssumption ==
    /\ Sys \notin Call
    /\ None \notin Account \cup Call \cup {Sys}
    /\ {MaxChallenges, MaxAttempts, Capacity, LastStart, MaxCrashes} \subseteq Nat

Request == 1 .. MaxChallenges
Proc == Call \cup {Sys}

VARIABLES
    row,            \* operator_accounts
    session,        \* accounts with a row in sessions
    authorized,     \* accounts whose stored session Telegram has signed in
    challenge,      \* challengeRegistry: records and tombstones
    lock,           \* challengeRecord.mu
    gate,           \* who holds the admission gate
    closed,         \* the admission gate and the registry are closed
    client,         \* version of the live client of an account, 0 without
    fence,          \* fenceSet.records: greatest stopped version
    runtimeStopped, \* Registry.stopped
    held,           \* RuntimeTarget version a background job works with
    call,           \* what each goroutine is doing
    todo,           \* accounts Sys has yet to look at
    up,             \* "starting", "serving", "unrouted", "stopping", "down"
    crashes         \* bound: deaths so far

rows == <<row, session>>
memory == <<challenge, lock, gate, closed>>
runtime == <<client, fence, runtimeStopped, held>>
process == <<todo, up, crashes>>
vars == <<row, session, authorized, challenge, lock, gate, closed, client,
          fence, runtimeStopped, held, call, todo, up, crashes>>

-----------------------------------------------------------------------------
(* The domain's account (internal/domain/operatoraccount).                 *)

Status == {"none", "authenticating", "active", "disconnecting", "disconnected"}

\* The version and the requirement of a remote logout decide every guarded
\* write; due stands for auth_expires_at <= clock_timestamp().  A phone without
\* a row counts as the initial version: its row is inserted at the next one.
NoRow == [status |-> "none", version |-> 1, logout |-> FALSE, due |-> FALSE]

Moved(a, status, logout) ==
    [row EXCEPT ![a] = [status |-> status, version |-> @.version + 1,
                        logout |-> logout, due |-> FALSE]]

IsAt(a, status, version) ==
    /\ row[a].status = status
    /\ row[a].version = version

-----------------------------------------------------------------------------
(* Goroutines.                                                             *)

\* at: the next step.  acct, ver: the AuthTarget or RuntimeTarget in use.
\* then: what follows an abort.  own: the target a Start still has to abort.
IdleCall == [at |-> "idle", acct |-> None, ver |-> 0, req |-> 0,
             then |-> "none", own |-> <<>>, failed |-> FALSE]

Steps(p, at) == call' = [call EXCEPT ![p].at = at]

\* Works on a target from step at on; then says what follows an abort of it.
Takes(p, at, a, v, q, then, own) ==
    call' = [call EXCEPT ![p] = [@ EXCEPT !.at = at, !.acct = a, !.ver = v,
                                          !.req = q, !.then = then, !.own = own]]

\* A call returns: deferred unlocks of the record and of the admission.
Returns(p) ==
    /\ call' = [call EXCEPT ![p] = IdleCall]
    /\ lock' = [q \in Request |-> IF lock[q] = p THEN None ELSE lock[q]]
    /\ gate' = IF gate = p THEN None ELSE gate

\* HTTP accepts a request; the ones in flight may outlive the server.
Asks(p) == up = "serving" /\ p \in Call /\ call[p].at = "idle"

-----------------------------------------------------------------------------
(* Challenges.                                                             *)

NoChallenge == [state |-> "free", acct |-> None, ver |-> 0, stage |-> "code",
                ready |-> FALSE, pending |-> FALSE, due |-> FALSE,
                codes |-> 0, passwords |-> 0]

Live == {q \in Request : challenge[q].state = "live"}
Stones == {q \in Request : challenge[q].state \in {"completed", "aborted"}}

\* removeLocked, and the secrets cleared by its callers.  A tombstone keeps
\* outcome for a retry of the client; "gone" leaves nothing to find.
Ended(q, outcome) ==
    IF q \notin Live THEN challenge
    ELSE [challenge EXCEPT ![q] = [NoChallenge EXCEPT
            !.state = outcome, !.acct = challenge[q].acct,
            !.ver = challenge[q].ver, !.due = challenge[q].due]]

\* What Operation checks once it holds the record.
Opens(p, q) ==
    /\ Asks(p)
    /\ ~closed
    /\ q \in Live
    /\ lock[q] = None

\* ... and before it runs the action of Code, Password or Cancel.
Usable(q) == ~challenge[q].due /\ (challenge[q].ready \/ challenge[q].pending)

-----------------------------------------------------------------------------
(* The runtime, as far as versions go: AccountOwner has the rest.          *)

\* Execute finds or builds the client of this version.
Admits(a, v) ==
    /\ ~runtimeStopped
    /\ v > fence[a]
    /\ client[a] <= v

\* A broken Stop: the stopped version is not remembered.
Forgotten(a, v) == [fence EXCEPT ![a] = 0]

Raised(a, v) == [fence EXCEPT ![a] = v]
WithClient(a, v) == [client EXCEPT ![a] = v]

-----------------------------------------------------------------------------
(* Start.                                                                  *)

\* Acquire and BeginOrResume.  An account that is authenticating is returned
\* as it is, with its old expiry; an active or disconnecting one ends the call.
StartBegin(p, a) ==
    /\ Asks(p)
    /\ gate = None
    /\ ~closed
    /\ \E q \in Request : challenge[q].state = "free"
    /\ \/ /\ row[a].status \in {"none", "disconnected"}
          /\ row[a].version <= LastStart
          /\ row' = Moved(a, "authenticating", FALSE)
          /\ \/ /\ gate' = p
                /\ Takes(p, "prepare", a, row[a].version + 1, 0, "none", <<>>)
             \/ UNCHANGED <<gate, call>>
       \/ /\ row[a].status = "authenticating"
          /\ gate' = p
          /\ Takes(p, "prepare", a, row[a].version, 0, "none", <<>>)
          /\ UNCHANGED row
    /\ UNCHANGED <<session, authorized, challenge, lock, closed, runtime, process>>

\* Prepare resumes the challenge of the target, reserves a new one, or fails:
\* handlePrepareFailure then expires what is in the way and aborts the target.
Prepare(p) ==
    /\ call[p].at = "prepare"
    /\ LET a == call[p].acct
           v == call[p].ver
           same(q) == challenge[q].acct = a /\ challenge[q].ver = v
           free == {q \in Request : challenge[q].state = "free"}
           new == CHOOSE q \in free : TRUE
       IN  \/ /\ \E q \in Live : same(q) /\ ~challenge[q].due
              /\ Returns(p)
              /\ UNCHANGED challenge
           \/ /\ \E q \in Live :
                    /\ challenge[q].due
                    /\ Takes(p, "abort", challenge[q].acct, challenge[q].ver,
                             q, "remove", <<a, v>>)
              /\ UNCHANGED <<challenge, lock, gate>>
           \/ /\ \/ \E q \in Live : ~same(q) /\ ~challenge[q].due
                 \/ Live = {} /\ Cardinality(Stones) >= Capacity
              /\ Takes(p, "abort", a, v, 0, "none", <<>>)
              /\ UNCHANGED <<challenge, lock, gate>>
           \/ /\ Live = {}
              /\ Cardinality(Stones) < Capacity
              /\ challenge' = [challenge EXCEPT ![new] = [NoChallenge EXCEPT
                                  !.state = "live", !.acct = a, !.ver = v,
                                  !.due = row[a].due]]
              /\ Takes(p, "send", a, v, new, "none", <<>>)
              /\ gate' = None
              /\ UNCHANGED lock
    /\ UNCHANGED <<rows, authorized, closed, runtime, process>>

\* SendCode in the runtime, outside every lock.
SendCode(p) ==
    /\ call[p].at = "send"
    /\ Admits(call[p].acct, call[p].ver)
    /\ client' = WithClient(call[p].acct, call[p].ver)
    /\ Steps(p, "commit")
    /\ UNCHANGED <<rows, authorized, memory, fence, runtimeStopped, held, process>>

\* handleSendCodeFailure: an expired challenge is aborted, any other
\* reservation is rolled back, and only some failures abort the account.
SendCodeFails(p) ==
    /\ call[p].at = "send"
    /\ LET a == call[p].acct
           v == call[p].ver
           q == call[p].req
       IN  /\ \/ UNCHANGED client
              \/ Admits(a, v) /\ client' = WithClient(a, v)
           /\ \/ /\ challenge[q].due
                 /\ Takes(p, "abort", a, v, q, "remove", <<>>)
                 /\ UNCHANGED <<challenge, lock, gate>>
              \/ /\ ~challenge[q].due
                 /\ challenge' = Ended(q, "gone")
                 /\ \/ Admits(a, v) /\ Returns(p)
                    \/ /\ Takes(p, "abort", a, v, 0, "none", <<>>)
                       /\ UNCHANGED <<lock, gate>>
    /\ UNCHANGED <<rows, authorized, closed, fence, runtimeStopped, held, process>>

\* commit, and handleAttachFailure: a registry that closed meanwhile keeps the
\* record for the shutdown and aborts the account.
Commit(p) ==
    /\ call[p].at = "commit"
    /\ LET q == call[p].req
       IN  /\ lock[q] = None
           /\ \/ /\ closed
                 /\ Takes(p, "abort", call[p].acct, call[p].ver, 0, "none", <<>>)
                 /\ UNCHANGED <<challenge, lock, gate>>
              \/ /\ ~closed /\ q \notin Live
                 /\ Returns(p)
                 /\ UNCHANGED challenge
              \/ /\ ~closed /\ q \in Live /\ challenge[q].due
                 /\ Takes(p, "abort", call[p].acct, call[p].ver, q, "remove", <<>>)
                 /\ UNCHANGED <<challenge, lock, gate>>
              \/ /\ ~closed /\ q \in Live /\ ~challenge[q].due
                 /\ challenge' = [challenge EXCEPT ![q].ready = TRUE]
                 /\ Returns(p)
    /\ UNCHANGED <<rows, authorized, closed, runtime, process>>

-----------------------------------------------------------------------------
(* Code, Password, Cancel and Status of a challenge.                       *)

\* Whichever of them meets a challenge that is due expires it, and lets go of
\* the record before it aborts.
Expire(p, q) ==
    /\ Opens(p, q)
    /\ challenge[q].due
    /\ Takes(p, "abort", challenge[q].acct, challenge[q].ver, q, "remove", <<>>)
    /\ UNCHANGED <<rows, authorized, memory, runtime, process>>

\* codeAttempts and passwordAttempts are counted before the call is made.
AttemptLeft(used) == used < MaxAttempts

\* A code or password is sent to Telegram while an attempt is left.  A profile
\* that Telegram has already confirmed goes straight to Finalize.
Submit(p, q, kind) ==
    /\ Opens(p, q)
    /\ Usable(q)
    /\ lock' = [lock EXCEPT ![q] = p]
    /\ \/ /\ challenge[q].pending
          /\ Takes(p, "finalize", challenge[q].acct, challenge[q].ver, q, "tombstone", <<>>)
          /\ UNCHANGED challenge
       \/ /\ ~challenge[q].pending
          /\ challenge[q].stage = "code" /\ kind = "code"
          /\ AttemptLeft(challenge[q].codes)
          /\ challenge' = [challenge EXCEPT ![q].codes = @ + 1]
          /\ Takes(p, "signin", challenge[q].acct, challenge[q].ver, q, "tombstone", <<>>)
       \/ /\ ~challenge[q].pending
          /\ challenge[q].stage = "password" /\ kind = "password"
          /\ AttemptLeft(challenge[q].passwords)
          /\ challenge' = [challenge EXCEPT ![q].passwords = @ + 1]
          /\ Takes(p, "signin", challenge[q].acct, challenge[q].ver, q, "tombstone", <<>>)
    /\ UNCHANGED <<rows, authorized, gate, closed, runtime, process>>

\* Telegram confirms the user.  The profile is kept until it is finalized.
SignedIn(p) ==
    /\ call[p].at = "signin"
    /\ Admits(call[p].acct, call[p].ver)
    /\ client' = WithClient(call[p].acct, call[p].ver)
    /\ authorized' = authorized \cup {call[p].acct}
    /\ challenge' = [challenge EXCEPT ![call[p].req].pending = TRUE,
                                      ![call[p].req].ready = FALSE]
    /\ Steps(p, "finalize")
    /\ UNCHANGED <<rows, lock, gate, closed, fence, runtimeStopped, held, process>>

\* Telegram asks for the password, refuses, or does not answer in time: the
\* challenge stays.  Without an answer it may have signed in.
NotSignedIn(p) ==
    /\ call[p].at = "signin"
    /\ Admits(call[p].acct, call[p].ver)
    /\ client' = WithClient(call[p].acct, call[p].ver)
    /\ \/ /\ challenge[call[p].req].stage = "code"
          /\ challenge' = [challenge EXCEPT ![call[p].req].stage = "password"]
          /\ UNCHANGED authorized
       \/ /\ authorized' \in {authorized, authorized \cup {call[p].acct}}
          /\ UNCHANGED challenge
    /\ Returns(p)
    /\ UNCHANGED <<rows, closed, fence, runtimeStopped, held, process>>

\* handleProviderFailure: no session, no authorization or no runtime.
SignInAborts(p) ==
    /\ call[p].at = "signin"
    /\ Steps(p, "abort")
    /\ UNCHANGED <<rows, authorized, memory, runtime, process>>

\* Cancel aborts under the record's mutex.
Cancel(p, q) ==
    /\ Opens(p, q)
    /\ Usable(q)
    /\ lock' = [lock EXCEPT ![q] = p]
    /\ Takes(p, "abort", challenge[q].acct, challenge[q].ver, q, "tombstone", <<>>)
    /\ UNCHANGED <<rows, authorized, challenge, gate, closed, runtime, process>>

\* A broken Finalize: the session is not looked for.
ActivatesBlindly(a, v) ==
    /\ IsAt(a, "authenticating", v)
    /\ ~row[a].due

\* Store.Finalize accepts the target, or recognises its own earlier commit.
Activates(a, v) ==
    /\ IsAt(a, "authenticating", v)
    /\ a \in session
    /\ ~row[a].due

Finalized(a, v) == IsAt(a, "active", v + 1)

\* finalize: the profile stays pending when the row was not, or not knowingly,
\* activated.
Finalize(p) ==
    /\ call[p].at = "finalize"
    /\ LET a == call[p].acct
           v == call[p].ver
           q == call[p].req
       IN  \/ /\ ~challenge[q].due
              /\ \/ Activates(a, v) /\ row' = Moved(a, "active", FALSE)
                 \/ Finalized(a, v) /\ UNCHANGED row
              /\ challenge' \in {Ended(q, "completed"), challenge}
           \/ UNCHANGED <<row, challenge>>
    /\ Returns(p)
    /\ UNCHANGED <<session, authorized, closed, runtime, process>>

-----------------------------------------------------------------------------
(* Abort: BeginAbort, StopAccount, CompleteAbort.                          *)

\* A broken Cancel: the tombstone is left whether or not the abort succeeded.
TombstoneAnyway(p, ok) ==
    /\ challenge' = IF call[p].then = "tombstone"
                    THEN Ended(call[p].req, "aborted") ELSE challenge
    /\ IF p = Sys
       THEN Steps(p, "orphans") /\ UNCHANGED <<lock, gate>>
       ELSE Returns(p)

\* What the caller of an abort does when it returns.
AbortEnds(p, ok) ==
    LET c == call[p]
    IN  \/ /\ c.then = "tombstone"
           /\ challenge' = IF ok THEN Ended(c.req, "aborted") ELSE challenge
           /\ Returns(p)
        \/ /\ c.then = "none"
           /\ Returns(p)
           /\ UNCHANGED challenge
        \/ /\ c.then \in {"remove", "swept"} /\ ok
           /\ Steps(p, "remove")
           /\ UNCHANGED <<challenge, lock, gate>>
        \/ /\ c.then = "remove" /\ ~ok /\ c.own # <<>>
           /\ Takes(p, "abort", c.own[1], c.own[2], 0, "none", <<>>)
           /\ UNCHANGED <<challenge, lock, gate>>
        \/ /\ c.then = "remove" /\ ~ok /\ c.own = <<>>
           /\ Returns(p)
           /\ UNCHANGED challenge
        \/ /\ c.then = "swept" /\ ~ok
           /\ Steps(p, "sweep")
           /\ UNCHANGED <<challenge, lock, gate>>
        \/ /\ c.then \in {"recovered", "completed"}
           /\ call' = [call EXCEPT ![p] = [IdleCall EXCEPT
                          !.at = "orphans", !.failed = c.failed \/ ~ok]]
           /\ UNCHANGED <<challenge, lock, gate>>

\* A duplicate of an abort that began, or even completed, is let through.
BeginAbort(p) ==
    /\ call[p].at = "abort"
    /\ LET a == call[p].acct
           v == call[p].ver
       IN  \/ /\ IsAt(a, "authenticating", v)
              /\ row' = Moved(a, "disconnecting", FALSE)
              /\ \/ Steps(p, "stop") /\ UNCHANGED <<challenge, lock, gate>>
                 \/ AbortEnds(p, FALSE)
           \/ /\ IsAt(a, "disconnecting", v + 1) \/ IsAt(a, "disconnected", v + 2)
              /\ Steps(p, "stop")
              /\ UNCHANGED <<row, challenge, lock, gate>>
           \/ AbortEnds(p, FALSE) /\ UNCHANGED row
    /\ UNCHANGED <<session, authorized, closed, runtime, process>>

\* StopAccount of a version that is not the one running unlocks a mutex it does
\* not hold: the Go runtime ends the process (see Dies below).
StopKills(p) ==
    /\ call[p].at = "stop"
    /\ ~runtimeStopped
    /\ client[call[p].acct] \notin {0, call[p].ver}

StopAccount(p) ==
    /\ call[p].at = "stop"
    /\ ~StopKills(p)
    /\ LET a == call[p].acct
           v == call[p].ver
       IN  \/ /\ runtimeStopped
              /\ Steps(p, "complete")
              /\ UNCHANGED <<client, fence, challenge, lock, gate>>
           \/ /\ ~runtimeStopped /\ v >= fence[a]
              /\ fence' = Raised(a, v)
              /\ client' = WithClient(a, 0)
              /\ Steps(p, "complete")
              /\ UNCHANGED <<challenge, lock, gate>>
           \/ /\ ~runtimeStopped /\ v >= fence[a] /\ client[a] = v
              /\ fence' = Raised(a, v)
              /\ client' \in {client, WithClient(a, 0)}
              /\ AbortEnds(p, FALSE)
           \/ /\ ~runtimeStopped /\ v < fence[a]
              /\ AbortEnds(p, FALSE)
              /\ UNCHANGED <<client, fence>>
    /\ UNCHANGED <<rows, authorized, closed, runtimeStopped, held, process>>

\* The version BeginAbort returned, or the one a recovered row already has.
AbortVersion(c) == IF c.then = "completed" THEN c.ver ELSE c.ver + 1

CompleteAbort(p) ==
    /\ call[p].at = "complete"
    /\ LET a == call[p].acct
           w == AbortVersion(call[p])
       IN  \/ /\ IsAt(a, "disconnecting", w)
              /\ row' = Moved(a, "disconnected", FALSE)
              /\ session' = session \ {a}
              /\ authorized' = authorized \ {a}
              /\ \/ AbortEnds(p, TRUE)
                 \/ AbortEnds(p, FALSE)
           \/ /\ IsAt(a, "disconnected", w + 1)
              /\ a \notin session
              /\ AbortEnds(p, TRUE)
              /\ UNCHANGED <<rows, authorized>>
           \/ AbortEnds(p, FALSE) /\ UNCHANGED <<rows, authorized>>
    /\ UNCHANGED <<closed, runtime, process>>

\* The last step of expireChallenge and of the shutdown's sweep.  Start does
\* not abort its own target too when that is the challenge which expired.
Remove(p) ==
    /\ call[p].at = "remove"
    /\ LET c == call[p]
           found == c.req \in Live
       IN  /\ lock[c.req] = None
           /\ challenge' = Ended(c.req, "gone")
           /\ \/ /\ c.then = "remove"
                 /\ c.own = <<>> \/ (found /\ c.own = <<c.acct, c.ver>>)
                 /\ Returns(p)
              \/ /\ c.then = "remove"
                 /\ ~(c.own = <<>> \/ (found /\ c.own = <<c.acct, c.ver>>))
                 /\ Takes(p, "abort", c.own[1], c.own[2], 0, "none", <<>>)
                 /\ UNCHANGED <<lock, gate>>
              \/ /\ c.then = "swept"
                 /\ Steps(p, "sweep")
                 /\ UNCHANGED <<lock, gate>>
    /\ UNCHANGED <<rows, authorized, closed, runtime, process>>

-----------------------------------------------------------------------------
(* Disconnect.                                                             *)

Intents == {a \in Account : row[a].status = "disconnecting" /\ row[a].logout}

\* LoadAccount: an active account gets an intent, an intent is taken up again,
\* anything else ends the call.
Disconnect(p, a) ==
    /\ Asks(p)
    /\ \/ /\ row[a].status = "active"
          /\ Takes(p, "intent", a, row[a].version, 0, "none", <<>>)
       \/ /\ a \in Intents
          /\ Takes(p, "revoke", a, row[a].version, 0, "none", <<>>)
    /\ UNCHANGED <<rows, authorized, memory, runtime, process>>

\* PersistLifecycle of BeginDisconnect.
PersistIntent(p) ==
    /\ call[p].at = "intent"
    /\ LET a == call[p].acct
           v == call[p].ver
       IN  \/ /\ IsAt(a, "active", v)
              /\ row' = Moved(a, "disconnecting", TRUE)
              /\ \/ /\ Takes(p, "revoke", a, v + 1, 0, "none", <<>>)
                    /\ UNCHANGED <<lock, gate>>
                 \/ Returns(p)
           \/ Returns(p) /\ UNCHANGED row
    /\ UNCHANGED <<session, authorized, challenge, closed, runtime, process>>

\* A failed RevokeAndStop leaves the intent: Recover counts it and goes on.
RevokePending(p) ==
    IF p = Sys
    THEN Steps(p, "intents") /\ UNCHANGED <<lock, gate>>
    ELSE Returns(p)

\* prepareRevoke accepts no client, the one of the version before the intent,
\* or one left by an earlier revocation of the same intent.
Revocable(a, v) ==
    /\ ~runtimeStopped
    /\ client[a] \in {0, v - 1, v}
    /\ v >= fence[a]

\* Telegram logs the session out, or says that it is logged out already.
Revoke(p) ==
    /\ call[p].at = "revoke"
    /\ LET a == call[p].acct
           v == call[p].ver
       IN  /\ Revocable(a, v)
           /\ a \in session
           /\ fence' = Raised(a, v)
           /\ client' = WithClient(a, 0)
           /\ authorized' = authorized \ {a}
    /\ Steps(p, "mark")
    /\ UNCHANGED <<rows, memory, runtimeStopped, held, process>>

\* The request is refused, fails, or is lost after Telegram logged out; the
\* teardown may run out of time and leave the client behind.
RevokeFails(p) ==
    /\ call[p].at = "revoke"
    /\ LET a == call[p].acct
           v == call[p].ver
       IN  \/ /\ Revocable(a, v)
              /\ fence' = Raised(a, v)
              /\ client' \in {WithClient(a, 0),
                              IF client[a] = 0 THEN WithClient(a, v) ELSE client}
              /\ authorized' \in {authorized, authorized \ {a}}
           \/ /\ ~Revocable(a, v)
              /\ UNCHANGED <<authorized, client, fence>>
    /\ RevokePending(p)
    /\ UNCHANGED <<rows, challenge, closed, runtimeStopped, held, process>>

\* PersistLifecycle of MarkDisconnected deletes the session with the same
\* commit.  Recover takes a failure here for fatal.
MarkDisconnected(p) ==
    /\ call[p].at = "mark"
    /\ LET a == call[p].acct
       IN  \/ /\ IsAt(a, "disconnecting", call[p].ver)
              /\ row' = Moved(a, "disconnected", FALSE)
              /\ session' = session \ {a}
              /\ authorized' = authorized \ {a}
           \/ /\ p # Sys
              /\ UNCHANGED <<rows, authorized>>
    /\ RevokePending(p)
    /\ UNCHANGED <<challenge, closed, runtime, process>>

-----------------------------------------------------------------------------
(* Startup and shutdown, the goroutine of main.                            *)

\* Recover of the disconnects lists the intents and takes them one by one.
BootIntents ==
    /\ up = "starting"
    /\ call[Sys].at = "idle"
    /\ todo' = Intents
    /\ Steps(Sys, "intents")
    /\ UNCHANGED <<rows, authorized, memory, runtime, up, crashes>>

RecoverIntent ==
    /\ call[Sys].at = "intents"
    /\ \E a \in todo :
          /\ todo' = todo \ {a}
          /\ Takes(Sys, "revoke", a, row[a].version, 0, "none", <<>>)
    /\ UNCHANGED <<rows, authorized, memory, runtime, up, crashes>>

\* A broken recovery: accounts with an intent are completed as aborts.
OrphansAndIntents ==
    {a \in Account : row[a].status \in {"authenticating", "disconnecting"}}

\* ListOrphanAuthenticationLifecycles, without the intents just seen.
Orphans ==
    {a \in Account : row[a].status \in {"authenticating", "disconnecting"}} \ Intents

BootOrphans ==
    /\ call[Sys].at = "intents"
    /\ todo = {}
    /\ todo' = Orphans
    /\ Steps(Sys, "orphans")
    /\ UNCHANGED <<rows, authorized, memory, runtime, up, crashes>>

RecoverOrphan ==
    /\ call[Sys].at = "orphans"
    /\ \E a \in todo :
          /\ todo' = todo \ {a}
          /\ \/ /\ row[a].status = "authenticating"
                /\ Takes(Sys, "abort", a, row[a].version, 0, "recovered", <<>>)
             \/ /\ row[a].status = "disconnecting"
                /\ Takes(Sys, "stop", a, row[a].version, 0, "completed", <<>>)
    /\ UNCHANGED <<rows, authorized, memory, runtime, up, crashes>>

\* A broken startup: the failures of the recovery are only logged.
ServesAnyway ==
    /\ call[Sys].at = "orphans"
    /\ todo = {}
    /\ up' = "serving"
    /\ call' = [call EXCEPT ![Sys] = IdleCall]
    /\ UNCHANGED <<rows, authorized, memory, runtime, todo, crashes>>

\* The routes of the accounts are registered after a clean recovery only.
BootServes ==
    /\ call[Sys].at = "orphans"
    /\ todo = {}
    /\ ~call[Sys].failed
    /\ up' = "serving"
    /\ call' = [call EXCEPT ![Sys] = IdleCall]
    /\ UNCHANGED <<rows, authorized, memory, runtime, todo, crashes>>

\* After any other the service is shut down, but runApplication drops the
\* failure: the process goes on without those routes.
BootLeavesOut ==
    /\ call[Sys].at = "orphans"
    /\ todo = {}
    /\ call[Sys].failed
    /\ up' = "unrouted"
    /\ closed' = TRUE
    /\ call' = [call EXCEPT ![Sys] = IdleCall]
    /\ UNCHANGED <<rows, authorized, challenge, lock, gate, runtime, todo, crashes>>

\* The server stops accepting; requests in flight may outlive its timeout.  The
\* service is there to be shut down if its routes were.
ShutdownBegins ==
    /\ up \in {"serving", "unrouted"}
    /\ up' = "stopping"
    /\ Steps(Sys, IF up = "serving" THEN "gate" ELSE "sweep")
    /\ UNCHANGED <<rows, authorized, memory, runtime, todo, crashes>>

\* Close waits for the Starts inside the gate.
CloseAdmission ==
    /\ call[Sys].at = "gate"
    /\ gate = None
    /\ closed' = TRUE
    /\ Steps(Sys, "snapshot")
    /\ UNCHANGED <<rows, authorized, challenge, lock, gate, runtime, process>>

\* snapshot waits for the record's mutex, or for the deadline.
Snapshot ==
    /\ call[Sys].at = "snapshot"
    /\ \/ (\A q \in Live : lock[q] = None) /\ todo' = Live
       \/ (\E q \in Live : lock[q] # None) /\ todo' = {}
    /\ Steps(Sys, "sweep")
    /\ UNCHANGED <<rows, authorized, memory, runtime, up, crashes>>

\* clearShutdownState, then the abort of the challenge.
Sweep ==
    /\ call[Sys].at = "sweep"
    /\ \E q \in todo :
          /\ lock[q] = None
          /\ todo' = todo \ {q}
          /\ challenge' = IF q \notin Live THEN challenge
                          ELSE [challenge EXCEPT ![q].ready = FALSE,
                                   ![q].pending = FALSE, ![q].due = TRUE,
                                   ![q].codes = 0, ![q].passwords = 0]
          /\ Takes(Sys, "abort", challenge[q].acct, challenge[q].ver, q, "swept", <<>>)
    /\ UNCHANGED <<rows, authorized, lock, gate, closed, runtime, up, crashes>>

\* Shutdown returns, then the runtime is stopped and its clients are joined.
StopRuntime ==
    /\ call[Sys].at = "sweep"
    /\ todo = {}
    /\ challenge' = [q \in Request |->
          IF q \in Stones THEN [challenge[q] EXCEPT !.state = "gone"] ELSE challenge[q]]
    /\ runtimeStopped' = TRUE
    /\ client' = [a \in Account |-> 0]
    /\ Steps(Sys, "exit")
    /\ UNCHANGED <<rows, authorized, lock, gate, closed, fence, held, process>>

-----------------------------------------------------------------------------
(* The rest of the process, time, and deaths.                              *)

\* A delivery or a dialog synchronization reads the active account, and uses
\* the target it read some time later.
Resolve(a) ==
    /\ up \in {"serving", "unrouted", "stopping"}
    /\ row[a].status = "active"
    /\ held[a] # row[a].version
    /\ held' = [held EXCEPT ![a] = row[a].version]
    /\ UNCHANGED <<rows, authorized, memory, client, fence, runtimeStopped, call, process>>

Use(a) ==
    /\ held[a] # 0
    /\ held' = [held EXCEPT ![a] = 0]
    /\ client' = IF Admits(a, held[a]) THEN WithClient(a, held[a]) ELSE client
    /\ UNCHANGED <<rows, authorized, memory, fence, runtimeStopped, call, process>>

\* The client stores its session whenever gotd asks, if the status allows it.
StoreSession(a) ==
    /\ client[a] # 0
    /\ row[a].status \in {"authenticating", "active"}
    /\ a \notin session
    /\ session' = session \cup {a}
    /\ UNCHANGED <<row, authorized, memory, runtime, call, process>>

Evict(a) ==
    /\ client[a] # 0
    /\ client' = WithClient(a, 0)
    /\ UNCHANGED <<rows, authorized, memory, fence, runtimeStopped, held, call, process>>

\* The clocks of the process and of PostgreSQL reach an expiry.
ChallengeDue(q) ==
    /\ q \in Live
    /\ ~challenge[q].due
    /\ challenge' = [challenge EXCEPT ![q].due = TRUE]
    /\ UNCHANGED <<rows, authorized, lock, gate, closed, runtime, call, process>>

RowDue(a) ==
    /\ row[a].status = "authenticating"
    /\ ~row[a].due
    /\ row' = [row EXCEPT ![a].due = TRUE]
    /\ UNCHANGED <<session, authorized, memory, runtime, call, process>>

StoneDue(q) ==
    /\ q \in Stones
    /\ challenge' = [challenge EXCEPT ![q].state = "gone"]
    /\ UNCHANGED <<rows, authorized, lock, gate, closed, runtime, call, process>>

\* The process ends: killed, after a failed recovery, by StopKills, or because
\* the shutdown is over.  Only PostgreSQL and Telegram remember.
Dies ==
    /\ up # "down"
    /\ up' = "down"
    /\ challenge' = [q \in Request |-> IF challenge[q].state = "free" THEN challenge[q]
                                       ELSE [NoChallenge EXCEPT !.state = "gone"]]
    /\ lock' = [q \in Request |-> None]
    /\ gate' = None
    /\ closed' = FALSE
    /\ client' = [a \in Account |-> 0]
    /\ fence' = [a \in Account |-> 0]
    /\ runtimeStopped' = FALSE
    /\ held' = [a \in Account |-> 0]
    /\ call' = [p \in Proc |-> IdleCall]
    /\ todo' = {}
    /\ UNCHANGED <<rows, authorized, crashes>>

Restart ==
    /\ up = "down"
    /\ crashes < MaxCrashes
    /\ crashes' = crashes + 1
    /\ up' = "starting"
    /\ UNCHANGED <<rows, authorized, memory, runtime, call, todo>>

-----------------------------------------------------------------------------
Init ==
    /\ row = [a \in Account |-> NoRow]
    /\ session = {}
    /\ authorized = {}
    /\ challenge = [q \in Request |-> NoChallenge]
    /\ lock = [q \in Request |-> None]
    /\ gate = None
    /\ closed = FALSE
    /\ client = [a \in Account |-> 0]
    /\ fence = [a \in Account |-> 0]
    /\ runtimeStopped = FALSE
    /\ held = [a \in Account |-> 0]
    /\ call = [p \in Proc |-> IdleCall]
    /\ todo = {}
    /\ up = "starting"
    /\ crashes = 0

Requests(p) ==
    \/ \E a \in Account : StartBegin(p, a) \/ Disconnect(p, a)
    \/ \E q \in Request :
          \/ Expire(p, q)
          \/ Submit(p, q, "code")
          \/ Submit(p, q, "password")
          \/ Cancel(p, q)

Proceeds(p) ==
    \/ Prepare(p) \/ SendCode(p) \/ SendCodeFails(p) \/ Commit(p)
    \/ SignedIn(p) \/ NotSignedIn(p) \/ SignInAborts(p) \/ Finalize(p)
    \/ BeginAbort(p) \/ StopAccount(p) \/ CompleteAbort(p) \/ Remove(p)
    \/ PersistIntent(p) \/ Revoke(p) \/ RevokeFails(p) \/ MarkDisconnected(p)

Main ==
    \/ BootIntents \/ RecoverIntent \/ BootOrphans \/ RecoverOrphan \/ BootServes \/ BootLeavesOut
    \/ CloseAdmission \/ Snapshot \/ Sweep \/ StopRuntime

Environment ==
    \/ \E a \in Account : Resolve(a) \/ Use(a) \/ StoreSession(a) \/ Evict(a) \/ RowDue(a)
    \/ \E q \in Request : ChallengeDue(q) \/ StoneDue(q)
    \/ ShutdownBegins \/ Dies \/ Restart

Next ==
    \/ \E p \in Proc : Requests(p) \/ Proceeds(p)
    \/ Main
    \/ Environment

Spec == Init /\ [][Next]_vars

-----------------------------------------------------------------------------
(* Properties.                                                             *)

\* The types of the variables, and who may hold a mutex.
TypeOK ==
    /\ row \in [Account -> [status : Status, version : Nat \ {0},
                            logout : BOOLEAN, due : BOOLEAN]]
    /\ session \subseteq Account
    /\ authorized \subseteq Account
    /\ challenge \in [Request -> [state : {"free", "live", "completed", "aborted", "gone"},
                        acct : Account \cup {None}, ver : Nat,
                        stage : {"code", "password"}, ready : BOOLEAN,
                        pending : BOOLEAN, due : BOOLEAN,
                        codes : 0 .. MaxAttempts, passwords : 0 .. MaxAttempts]]
    /\ lock \in [Request -> Call \cup {None}]
    /\ gate \in Call \cup {None}
    /\ closed \in BOOLEAN
    /\ client \in [Account -> Nat]
    /\ fence \in [Account -> Nat]
    /\ runtimeStopped \in BOOLEAN
    /\ held \in [Account -> Nat]
    /\ todo \subseteq Account \/ todo \subseteq Request
    /\ up \in {"starting", "serving", "unrouted", "stopping", "down"}
    /\ crashes \in 0 .. MaxCrashes

\* An active account has a session, and a disconnected one neither a session
\* nor a remote logout that is still owed: CompleteAbort and PersistLifecycle
\* delete the session with the commit that changes the status, and no client
\* that lives longer may store it again.
SessionsFollowStatus ==
    \A a \in Account :
        /\ row[a].status = "active" => a \in session
        /\ row[a].status \in {"none", "disconnected"} => a \notin session
        /\ row[a].logout => row[a].status = "disconnecting"

\* The session of an active account is signed in.  A Disconnect that read an
\* intent and calls RevokeAndStop when the account has been disconnected and
\* authenticated again finds a fence of its own version, and logs the new
\* session out ("one version-fenced remote logout").
ActiveIsSignedIn ==
    \A a \in Account : row[a].status = "active" => a \in authorized

\* A disconnected account is left alone: a client that is still there was
\* stopped (a teardown that ran out of time), and the targets that background
\* jobs read while the account was active are refused by the fence.
DisconnectedIsQuiet ==
    \A a \in Account :
        row[a].status \in {"none", "disconnected"} =>
            /\ client[a] <= fence[a]
            /\ held[a] # 0 => ~Admits(a, held[a])

\* The answer a client gets for a challenge that ended is true: a completed
\* authentication activated the account, an aborted one never did.
TombstonesAreTrue ==
    \A q \in Stones :
        LET r == row[challenge[q].acct]
            v == challenge[q].ver
        IN  \/ /\ challenge[q].state = "completed"
               /\ r.version > v
               /\ r.version = v + 1 => r.status = "active"
               /\ r.version = v + 2 => r.logout
            \/ /\ challenge[q].state = "aborted"
               /\ r.version >= v + 2
               /\ r.version = v + 2 => r.status = "disconnected"

\* A revoke of an intent that is over: the account has moved on since.
Overdue(p, a) ==
    /\ call[p].at = "revoke"
    /\ call[p].acct = a
    /\ call[p].ver < row[a].version

\* An account that was once active gives up its session only after Telegram
\* has logged it out: neither an abort of the authentication that activated
\* it, nor a recovery at startup, nor a crash in between forgets the session.
\* And nobody logs it out but for an intent: one that it has, or an overdue one.
RevokedBeforeForgotten ==
    [][\A a \in Account :
          /\ row[a].status = "active" \/ row[a].logout =>
                /\ a \in session /\ a \notin session' => a \notin authorized
                /\ row'[a].status \in {row[a].status, "disconnecting", "disconnected"}
                /\ row'[a].status = "disconnecting" => row'[a].logout
          /\ a \in authorized /\ a \notin authorized' =>
                row[a].status = "disconnecting" \/ \E p \in Proc : Overdue(p, a)]_vars

\* When requests can reach the accounts after a restart, every account is
\* settled: nothing is left authenticating without a challenge, or disconnecting
\* without an intent that can be taken up again.
RecoveredBeforeServing ==
    [][up = "starting" /\ up' = "serving" =>
          \A a \in Account :
              row[a].status \in {"none", "active", "disconnected"} \/ a \in Intents]_vars

\* A challenge that is due can be removed: whoever meets it expires it, and the
\* abort that comes before the removal finds the account in a state it accepts
\* ("WithChallengeTTL bounds every in-memory challenge").
DueChallengesCanEnd ==
    \A q \in Live :
        LET a == challenge[q].acct
            v == challenge[q].ver
        IN  challenge[q].due =>
                \/ IsAt(a, "authenticating", v)
                \/ IsAt(a, "disconnecting", v + 1)
                \/ IsAt(a, "disconnected", v + 2)

\* An abort never meets a client of another version ("StopAccount closes
\* admission for the exact lifecycle target").
AbortsStopTheirOwn == \A p \in Proc : ~StopKills(p)

-----------------------------------------------------------------------------
(* What holds instead.                                                     *)

\* No revoke outlives its intent.
RevokesInTime == \A p \in Proc, a \in Account : ~Overdue(p, a)

\* A challenge that cannot end when it is due has done its work: the account was
\* activated with it, or has been through more since.
StuckChallengesExplained ==
    \A q \in Live :
        LET a == challenge[q].acct
            v == challenge[q].ver
        IN  challenge[q].due =>
                \/ IsAt(a, "authenticating", v)
                \/ IsAt(a, "disconnecting", v + 1)
                \/ IsAt(a, "disconnected", v + 2)
                \/ IsAt(a, "active", v + 1)
                \/ IsAt(a, "disconnecting", v + 2) /\ row[a].logout
                \/ row[a].version > v + 2

\* A stop that kills the process has met a client that an earlier stop or revoke
\* had to leave behind, or one of a later authentication of the account.
KillsExplained ==
    \A p \in Proc : StopKills(p) =>
        \/ client[call[p].acct] <= fence[call[p].acct]
        \/ row[call[p].acct].version > call[p].ver + 2
=============================================================================
