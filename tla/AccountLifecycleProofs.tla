----------------------- MODULE AccountLifecycleProofs -----------------------
(***************************************************************************)
(* A Telegram account keeps its promises over any number of requests,      *)
(* authentications, disconnects, restarts and deaths of the process.       *)
(*                                                                         *)
(* Nothing but its version ties a request to the account it has read.  So  *)
(* the invariant says of every version that anybody holds (a request, a    *)
(* challenge, a client, a background job) what the row has become since:   *)
(* an authentication that began at v can be authenticating at v, active or *)
(* aborting at v + 1, and only owing a logout or disconnected at v + 2.    *)
(***************************************************************************)
EXTENDS AccountLifecycle, TLAPS

-----------------------------------------------------------------------------
(* Versions that somebody holds.                                           *)

\* A version before the authentication that the row is in, or was last in.
Earlier(a, v) ==
    LET r == row[a]
    IN  \/ r.status \in {"none", "disconnected"}
        \/ r.status = "authenticating" /\ v < r.version
        \/ r.status = "active" /\ v + 1 < r.version
        \/ r.status = "disconnecting" /\ ~r.logout /\ v + 1 < r.version
        \/ r.status = "disconnecting" /\ r.logout /\ v + 2 < r.version

\* Once the account is disconnected the version is fenced, and stays so when the
\* account is authenticated again.
Passed(a, v) == Earlier(a, v) => v <= fence[a] \/ runtimeStopped

\* An authentication began at this version.
AuthTarget(a, v) ==
    /\ a \in Account /\ v \in Nat \ {0}
    /\ v <= row[a].version
    /\ row[a].version = v => row[a].status = "authenticating"
    /\ row[a].version = v + 1 =>
          row[a].status = "active" \/ (row[a].status = "disconnecting" /\ ~row[a].logout)
    /\ row[a].version = v + 2 =>
          (row[a].status = "disconnecting" /\ row[a].logout) \/ row[a].status = "disconnected"
    /\ Passed(a, v)

\* A client was, or may be, opened at this version.
ClientTarget(a, v) ==
    /\ v <= row[a].version
    /\ row[a].version = v => row[a].status # "disconnecting" \/ row[a].logout
    /\ Passed(a, v)

\* A remote logout was owed at this version.
IntentTarget(a, v) ==
    /\ a \in Account /\ v \in Nat \ {0}
    /\ v <= row[a].version
    /\ row[a].version = v => row[a].status = "disconnecting" /\ row[a].logout

\* An abort that recovery found half done at this version.
LocalTarget(a, v) ==
    /\ a \in Account /\ v \in Nat \ {0}
    /\ v <= row[a].version
    /\ row[a].version = v => row[a].status = "disconnecting" /\ ~row[a].logout
    /\ row[a].version = v + 1 => row[a].status = "disconnected"

-----------------------------------------------------------------------------
(* The inductive invariant.                                                *)

RequestStage ==
    {"idle", "prepare", "send", "commit", "signin", "finalize", "abort", "stop",
     "complete", "remove", "intent", "revoke", "mark"}

MainStage == {"intents", "orphans", "gate", "snapshot", "sweep", "exit"}

Then == {"none", "tombstone", "remove", "recovered", "completed", "swept"}

Own == {<<>>} \cup (Account \X Nat)

CallRecord ==
    [at : RequestStage \cup MainStage, acct : Account \cup {None}, ver : Nat,
     req : Request \cup {0}, then : Then, own : Own, failed : BOOLEAN]

CallTypes ==
    /\ call \in [Proc -> CallRecord]
    /\ \A p \in Proc :
          /\ call[p].at = "send" \/ call[p].then \in {"tombstone", "remove", "swept"} => call[p].req # 0
          /\ call[p].then = "completed" => call[p].at \in {"stop", "complete"}
    /\ \A p \in Call :
          /\ call[p].at \in RequestStage
          /\ call[p].then \in {"none", "tombstone", "remove"}
          /\ call[p].at = "remove" => call[p].then = "remove"

\* The challenge of a call has its target.
Matches(p) ==
    call[p].req # 0 =>
        /\ challenge[call[p].req].acct = call[p].acct
        /\ challenge[call[p].req].ver = call[p].ver
        /\ call[p].acct # None

\* What a call may rely on at its next step.
StageInv(p) ==
    LET c == call[p]
    IN  /\ c.at \in {"prepare", "send", "commit", "signin", "finalize", "abort"} =>
               AuthTarget(c.acct, c.ver)
        /\ c.at \in {"stop", "complete"} =>
               IF c.then = "completed" THEN LocalTarget(c.acct, c.ver)
               ELSE AuthTarget(c.acct, c.ver)
        /\ c.at = "complete" => c.ver <= fence[c.acct] \/ runtimeStopped
        /\ c.at = "intent" => c.acct \in Account
        /\ c.at \in {"revoke", "mark"} => IntentTarget(c.acct, c.ver)
        /\ c.at = "mark" =>
               /\ c.ver <= fence[c.acct]
               /\ row[c.acct].version = c.ver => c.acct \notin authorized
        /\ c.at = "prepare" =>
               gate = p /\ \E q \in Request : challenge[q].state = "free"

OwnInv(p) == call[p].own # <<>> => AuthTarget(call[p].own[1], call[p].own[2])

ProcInv(p) == StageInv(p) /\ OwnInv(p) /\ Matches(p)

\* Challenges and tombstones stand for authentications; the tombstones are true.
ChallengeOK(q) ==
    LET c == challenge[q]
        r == row[c.acct]
    IN  /\ c.state = "free" => c.acct = None
        /\ c.state \in {"live", "completed", "aborted"} => c.acct # None
        /\ c.acct # None => AuthTarget(c.acct, c.ver)
        /\ c.state = "completed" =>
              /\ r.version > c.ver
              /\ r.version = c.ver + 1 => r.status = "active"
              /\ r.version = c.ver + 2 => r.logout
        /\ c.state = "aborted" =>
              /\ r.version >= c.ver + 2
              /\ r.version = c.ver + 2 => r.status = "disconnected"

ClientOK(a) ==
    /\ client[a] # 0 => ClientTarget(a, client[a])
    /\ runtimeStopped => client[a] = 0
    /\ held[a] # 0 => ClientTarget(a, held[a])

Settled(a) == row[a].status \in {"none", "active", "disconnected"} \/ a \in Intents

\* The goroutine of main: what the recovery has settled, what the shutdown
\* has yet to abort.
MainInv ==
    LET c == call[Sys]
    IN  /\ up \in {"starting", "down"} => \A p \in Call : call[p].at = "idle"
        /\ up \in {"serving", "unrouted", "down"} => c.at = "idle" /\ todo = {}
        /\ up = "starting" =>
              /\ c.at \in {"idle", "intents", "revoke", "mark", "orphans", "abort", "stop", "complete"}
              /\ c.at \in {"abort", "stop", "complete"} => c.then \in {"recovered", "completed"}
              /\ todo \subseteq Account
              /\ c.at \in {"intents", "revoke", "mark"} => todo \subseteq Intents
              /\ c.at \in {"revoke", "mark"} => c.acct \notin todo
              /\ c.at \in {"orphans", "abort", "stop", "complete"} =>
                    /\ \A a \in todo : a \notin Intents
                    /\ ~c.failed =>
                          \A a \in Account :
                              a \in todo \/ Settled(a) \/ (c.at # "orphans" /\ a = c.acct)
        /\ up = "stopping" =>
              /\ c.at \in {"gate", "snapshot", "sweep", "abort", "stop", "complete", "remove", "exit"}
              /\ c.at \in {"abort", "stop", "complete", "remove"} => c.then = "swept"
              /\ todo \subseteq {q \in Request : challenge[q].acct # None}

LifecycleInv ==
    /\ TypeOK
    /\ CallTypes
    /\ \A p \in Proc : ProcInv(p)
    /\ \A q \in Request : ChallengeOK(q)
    /\ \A a \in Account : ClientOK(a)
    /\ MainInv
    /\ SessionsFollowStatus

-----------------------------------------------------------------------------
(* How an account moves in one step.                                       *)

Stays(a) ==
    /\ row'[a].status = row[a].status
    /\ row'[a].version = row[a].version
    /\ row'[a].logout = row[a].logout
    /\ a \in session => a \in session'
    /\ a \in session' => a \in session \/ row[a].status \in {"authenticating", "active"}

Opened(a) ==
    /\ row[a].status \in {"none", "disconnected"}
    /\ row'[a].status = "authenticating"

Activated(a) ==
    /\ row[a].status = "authenticating"
    /\ row'[a].status = "active"
    /\ a \in session

Aborted(a) ==
    /\ row[a].status = "authenticating"
    /\ row'[a].status = "disconnecting"

Intended(a) ==
    /\ row[a].status = "active"
    /\ row'[a].status = "disconnecting"

\* The version at which the account began to disconnect, or the one before it
\* when nothing was owed to Telegram, is fenced.
Disconnected(a) ==
    /\ row[a].status = "disconnecting"
    /\ row'[a].status = "disconnected"
    /\ a \notin session'
    /\ row[a].logout => a \notin authorized
    /\ \/ runtimeStopped
       \/ row[a].version <= fence[a]
       \/ row[a].version <= fence[a] + 1 /\ ~row[a].logout

Moves(a) ==
    \/ Stays(a)
    \/ /\ row'[a].version = row[a].version + 1
       /\ row'[a].logout <=> Intended(a)
       /\ \/ Disconnected(a)
          \/ /\ a \in session <=> a \in session'
             /\ Opened(a) \/ Activated(a) \/ Aborted(a) \/ Intended(a)

\* Fences grow, and a registry that stopped stays so, while the process lives.
FencesGrow ==
    /\ \A a \in Account : fence[a] <= fence'[a]
    /\ runtimeStopped => runtimeStopped'

-----------------------------------------------------------------------------
(* Targets outlive the steps of others.                                    *)

\* A version that is fenced stays fenced, and one that is not belongs to the
\* authentication that the row is in: the fence is raised before it disconnects.
LEMMA PassedStable ==
    ASSUME NEW a \in Account, NEW v \in Nat, TypeOK, TypeOK', Passed(a, v), Moves(a), FencesGrow,
           v <= row[a].version,
           row[a].version = v => row[a].status # "disconnecting" \/ row[a].logout
    PROVE  Passed(a, v)'
<1>1. /\ row[a].version \in Nat /\ row'[a].version \in Nat
      /\ fence[a] \in Nat /\ fence'[a] \in Nat /\ fence[a] <= fence'[a]
      /\ row[a].logout \in BOOLEAN /\ row'[a].logout \in BOOLEAN
      /\ runtimeStopped => runtimeStopped'
  BY DEF TypeOK, FencesGrow
<1>2. CASE v <= fence[a] \/ runtimeStopped
  BY <1>1, <1>2 DEF Passed
<1>3. CASE ~Earlier(a, v) /\ Stays(a)
  BY <1>3 DEF Stays, Passed, Earlier
<1>4. CASE ~Earlier(a, v) /\ ~Stays(a)
  <2>1. row'[a].version = row[a].version + 1 /\ (row'[a].logout <=> Intended(a))
    BY <1>4 DEF Moves
  <2>2. CASE Disconnected(a)
    <3>1. v <= fence[a] \/ runtimeStopped
      BY <1>1, <2>2 DEF Disconnected
    <3> QED
      BY <1>2, <3>1
  <2>3. CASE Opened(a)
    BY <1>4, <2>3 DEF Opened, Earlier
  <2>4. CASE Activated(a)
    BY <1>1, <1>4, <2>1, <2>4 DEF Passed, Earlier, Activated
  <2>5. CASE Aborted(a)
    <3>1. ~row'[a].logout
      BY <2>1, <2>5 DEF Intended, Aborted
    <3> QED
      BY <1>1, <1>4, <2>1, <2>5, <3>1 DEF Passed, Earlier, Aborted
  <2>6. CASE Intended(a)
    <3>1. row'[a].logout
      BY <2>1, <2>6
    <3> QED
      BY <1>1, <1>4, <2>1, <2>6, <3>1 DEF Passed, Earlier, Intended
  <2> QED
    BY <1>4, <2>2, <2>3, <2>4, <2>5, <2>6 DEF Moves
<1> QED
  BY <1>2, <1>3, <1>4 DEF Passed

\* What an authentication relies on does not change under it, ...
LEMMA AuthTargetStable ==
    ASSUME NEW a, NEW v, TypeOK, TypeOK', AuthTarget(a, v), Moves(a), FencesGrow
    PROVE  AuthTarget(a, v)'
<1>1. /\ a \in Account /\ row[a].version \in Nat /\ row'[a].version \in Nat /\ v \in Nat
      /\ row[a].status \in Status /\ row'[a].status \in Status
      /\ row[a].logout \in BOOLEAN /\ row'[a].logout \in BOOLEAN
  BY DEF TypeOK, AuthTarget
<1>2. Passed(a, v)'
  <2>1. /\ Passed(a, v) /\ v <= row[a].version
        /\ row[a].version = v => row[a].status # "disconnecting"
    BY DEF AuthTarget
  <2> QED
    BY <1>1, <2>1, PassedStable
<1>3. CASE Stays(a)
  BY <1>1, <1>2, <1>3 DEF Stays, AuthTarget
<1>4. CASE ~Stays(a)
  <2>1. row'[a].version = row[a].version + 1
    BY <1>4 DEF Moves
  <2>2. CASE Disconnected(a)
    <3>1. v < row[a].version
      BY <1>1, <2>2 DEF AuthTarget, Disconnected
    <3> QED
      BY <1>1, <1>2, <2>1, <2>2, <3>1 DEF AuthTarget, Disconnected
  <2>3. CASE Opened(a)
    BY <1>1, <1>2, <2>1, <2>3 DEF AuthTarget, Opened
  <2>4. CASE Activated(a)
    BY <1>1, <1>2, <2>1, <2>4 DEF AuthTarget, Activated
  <2>5. CASE Aborted(a)
    <3>1. row'[a].logout = FALSE
      BY <1>1, <1>4, <2>5 DEF Moves, Intended, Aborted
    <3> QED
      BY <1>1, <1>2, <2>1, <2>5, <3>1 DEF AuthTarget, Aborted
  <2>6. CASE Intended(a)
    <3>1. row'[a].logout = TRUE
      BY <1>1, <1>4, <2>6 DEF Moves
    <3> QED
      BY <1>1, <1>2, <2>1, <2>6, <3>1 DEF AuthTarget, Intended
  <2> QED
    BY <1>4, <2>2, <2>3, <2>4, <2>5, <2>6 DEF Moves
<1> QED
  BY <1>3, <1>4

\* ... nor what the client of a version, ...
LEMMA ClientTargetStable ==
    ASSUME NEW a \in Account, NEW v \in Nat, TypeOK, TypeOK', ClientTarget(a, v), Moves(a), FencesGrow
    PROVE  ClientTarget(a, v)'
<1>1. row[a].version \in Nat /\ row'[a].version \in Nat
  BY DEF TypeOK
<1>2. Passed(a, v)'
  <2>1. /\ Passed(a, v) /\ v <= row[a].version
        /\ row[a].version = v => row[a].status # "disconnecting" \/ row[a].logout
    BY DEF ClientTarget
  <2> QED
    BY <2>1, PassedStable
<1>3. CASE Stays(a)
  BY <1>1, <1>2, <1>3 DEF Stays, ClientTarget
<1>4. CASE ~Stays(a)
  <2>1. row'[a].version = row[a].version + 1
    BY <1>4 DEF Moves
  <2> QED
    BY <1>1, <1>2, <2>1 DEF ClientTarget
<1> QED
  BY <1>3, <1>4

\* ... the logout of an intent, ...
LEMMA IntentTargetStable ==
    ASSUME NEW a, NEW v, TypeOK, TypeOK', IntentTarget(a, v), Moves(a)
    PROVE  IntentTarget(a, v)'
<1>1. a \in Account /\ row[a].version \in Nat /\ row'[a].version \in Nat /\ v \in Nat
  BY DEF TypeOK, IntentTarget
<1> QED
  BY <1>1 DEF IntentTarget, Moves, Stays

\* ... or a local disconnection relies on.
LEMMA LocalTargetStable ==
    ASSUME NEW a, NEW v, TypeOK, TypeOK', LocalTarget(a, v), Moves(a)
    PROVE  LocalTarget(a, v)'
<1>1. /\ a \in Account /\ row[a].version \in Nat /\ row'[a].version \in Nat /\ v \in Nat
      /\ row[a].status \in Status /\ row'[a].status \in Status
  BY DEF TypeOK, LocalTarget
<1> QED
  BY <1>1 DEF LocalTarget, Moves, Stays, Disconnected, Opened, Activated, Aborted, Intended

\* An authentication is one that a client may be opened for.
LEMMA AuthIsClientTarget ==
    ASSUME NEW a, NEW v, AuthTarget(a, v)
    PROVE  ClientTarget(a, v)
  BY DEF AuthTarget, ClientTarget

-----------------------------------------------------------------------------
(* The records of the calls.                                               *)

Others(p) == \A q \in Proc \ {p} : call'[q] = call[q]

\* A call that goes on keeps what it holds.
LEMMA StepsCall ==
    ASSUME call \in [Proc -> CallRecord], NEW p \in Proc, NEW s, Steps(p, s),
           s \in RequestStage \cup MainStage
    PROVE  /\ call' \in [Proc -> CallRecord]
           /\ Others(p)
           /\ call'[p] = [call[p] EXCEPT !.at = s]
           /\ call'[p].at = s
           /\ call'[p].acct = call[p].acct
           /\ call'[p].ver = call[p].ver
           /\ call'[p].req = call[p].req
           /\ call'[p].then = call[p].then
           /\ call'[p].own = call[p].own
           /\ call'[p].failed = call[p].failed
<1>1. call' = [call EXCEPT ![p] = [call[p] EXCEPT !.at = s]]
  BY DEF Steps
<1>2. call'[p] = [call[p] EXCEPT !.at = s]
  BY <1>1
<1>3. call[p] \in CallRecord
  OBVIOUS
<1>4. call'[p] \in CallRecord
  BY <1>2, <1>3 DEF CallRecord
<1> QED
  BY <1>1, <1>2, <1>3, <1>4 DEF Others, CallRecord

\* A call that goes on with other things in hand.
LEMMA TakesCall ==
    ASSUME call \in [Proc -> CallRecord], NEW p \in Proc, NEW s, NEW a, NEW v, NEW q, NEW t, NEW o,
           Takes(p, s, a, v, q, t, o),
           s \in RequestStage \cup MainStage, a \in Account \cup {None}, v \in Nat,
           q \in Request \cup {0}, t \in Then, o \in Own
    PROVE  /\ call' \in [Proc -> CallRecord]
           /\ Others(p)
           /\ call'[p].at = s
           /\ call'[p].acct = a
           /\ call'[p].ver = v
           /\ call'[p].req = q
           /\ call'[p].then = t
           /\ call'[p].own = o
           /\ call'[p].failed = call[p].failed
<1>1. call' = [call EXCEPT ![p] = [call[p] EXCEPT !.at = s, !.acct = a, !.ver = v,
                                          !.req = q, !.then = t, !.own = o]]
  BY DEF Takes
<1>2. call'[p] = [call[p] EXCEPT !.at = s, !.acct = a, !.ver = v,
                                          !.req = q, !.then = t, !.own = o]
  BY <1>1
<1>3. call[p] \in CallRecord
  OBVIOUS
<1>4. call'[p] \in CallRecord
  BY <1>2, <1>3 DEF CallRecord
<1> QED
  BY <1>1, <1>2, <1>3, <1>4 DEF Others, CallRecord

\* The record of a call that is over.
Over(c) ==
    /\ c.at = "idle" /\ c.acct = None /\ c.ver = 0 /\ c.req = 0
    /\ c.then = "none" /\ c.own = <<>> /\ c.failed = FALSE

\* A call that is idle holds nothing.
LEMMA IdleIsOver == IdleCall \in CallRecord /\ Over(IdleCall)
  BY DEF IdleCall, CallRecord, Over, RequestStage, Then, Own

\* A call that returns holds nothing.
LEMMA ReturnsCall ==
    ASSUME call \in [Proc -> CallRecord], NEW p \in Proc, Returns(p)
    PROVE  /\ call' \in [Proc -> CallRecord]
           /\ Others(p)
           /\ Over(call'[p])
<1> DEFINE idle == IdleCall
<1>1. call' = [call EXCEPT ![p] = idle]
  BY DEF Returns
<1>2. idle \in CallRecord /\ Over(idle)
  BY IdleIsOver
<1> HIDE DEF idle
<1> QED
  BY <1>1, <1>2 DEF Others

-----------------------------------------------------------------------------
(* What a version's row becomes.                                           *)

\* A transition takes the account to the next version.
LEMMA MovedRow ==
    ASSUME TypeOK, NEW a \in Account, NEW s \in Status, NEW l \in BOOLEAN, row' = Moved(a, s, l)
    PROVE  /\ row' \in [Account -> [status : Status, version : Nat \ {0},
                                    logout : BOOLEAN, due : BOOLEAN]]
           /\ row'[a].status = s
           /\ row'[a].version = row[a].version + 1
           /\ row'[a].logout = l
           /\ row'[a].due = FALSE
           /\ \A b \in Account \ {a} : row'[b] = row[b]
<1> DEFINE R == [status : Status, version : Nat \ {0}, logout : BOOLEAN, due : BOOLEAN]
<1>1. row \in [Account -> R] /\ row[a] \in R
  BY DEF TypeOK
<1>2. row' = [row EXCEPT ![a] = [status |-> s, version |-> row[a].version + 1,
                                 logout |-> l, due |-> FALSE]]
  BY DEF Moved
<1>3. [status |-> s, version |-> row[a].version + 1, logout |-> l, due |-> FALSE] \in R
  BY <1>1
<1> QED
  BY <1>1, <1>2, <1>3

-----------------------------------------------------------------------------
(* Every step moves every account by the rules.                            *)

\* Accounts whose rows are untouched have not moved.
LEMMA RowsKept ==
    ASSUME TypeOK, row' = row, session \subseteq session',
           \A a \in session' : a \in session \/ row[a].status \in {"authenticating", "active"}
    PROVE  \A a \in Account : Moves(a)
  BY DEF Moves, Stays

\* One account moves, the others stay.
LEMMA RowMoves ==
    ASSUME TypeOK, NEW a \in Account, NEW s \in Status, NEW l \in BOOLEAN, row' = Moved(a, s, l),
           \A b \in Account \ {a} : b \in session <=> b \in session',
           \/ Disconnected(a) /\ ~l
           \/ /\ a \in session <=> a \in session'
              /\ \/ Opened(a) /\ ~l
                 \/ Activated(a) /\ ~l
                 \/ Aborted(a) /\ ~l
                 \/ Intended(a) /\ l
    PROVE  \A b \in Account : Moves(b)
<1>1. /\ row'[a].version = row[a].version + 1
      /\ row'[a].logout = l
      /\ \A b \in Account \ {a} : row'[b] = row[b]
  BY MovedRow
<1>2. Moves(a)
  <2>1. row'[a].logout <=> Intended(a)
    BY <1>1 DEF Intended, Disconnected, Opened, Activated, Aborted
  <2> QED
    BY <1>1, <2>1 DEF Moves
<1>3. ASSUME NEW b \in Account \ {a} PROVE Moves(b)
  BY <1>1 DEF Moves, Stays
<1> QED
  BY <1>2, <1>3

\* The statuses of an account.
LEMMA StatusNames ==
    Status = {"none", "authenticating", "active", "disconnecting", "disconnected"}
  BY DEF Status

\* How each operation moves the accounts: the start of an authentication, ...
LEMMA StartMoves ==
    ASSUME LifecycleInv, NEW p \in Proc, NEW a \in Account, StartBegin(p, a)
    PROVE  \A b \in Account : Moves(b)
<1>1. TypeOK
  BY DEF LifecycleInv
<1>2. CASE row' = row
  BY <1>1, <1>2, RowsKept DEF StartBegin
<1>3. CASE row' # row
  <2>1. /\ row[a].status \in {"none", "disconnected"}
        /\ row' = Moved(a, "authenticating", FALSE)
        /\ session' = session
    BY <1>3 DEF StartBegin
  <2>2. row'[a].status = "authenticating"
    BY <1>1, <2>1, MovedRow, StatusNames
  <2>3. Opened(a)
    BY <2>1, <2>2 DEF Opened
  <2> QED
    BY <1>1, <2>1, <2>3, RowMoves, StatusNames
<1> QED
  BY <1>2, <1>3

\* ... its success, ...
LEMMA FinalizeMoves ==
    ASSUME LifecycleInv, NEW p \in Proc, Finalize(p)
    PROVE  \A b \in Account : Moves(b)
<1>1. TypeOK
  BY DEF LifecycleInv
<1>2. CASE row' = row
  BY <1>1, <1>2, RowsKept DEF Finalize
<1>3. CASE row' # row
  <2> DEFINE a == call[p].acct
  <2>1. /\ Activates(a, call[p].ver)
        /\ row' = Moved(a, "active", FALSE)
        /\ session' = session
    BY <1>3 DEF Finalize
  <2>2. a \in Account
    BY DEF LifecycleInv, ProcInv, StageInv, AuthTarget, Finalize
  <2>3. row'[a].status = "active"
    BY <1>1, <2>1, <2>2, MovedRow, StatusNames
  <2>4. Activated(a)
    BY <2>1, <2>3 DEF Activated, Activates, IsAt
  <2> QED
    BY <1>1, <2>1, <2>2, <2>4, RowMoves, StatusNames
<1> QED
  BY <1>2, <1>3

\* ... the beginning of its abort, ...
LEMMA BeginAbortMoves ==
    ASSUME LifecycleInv, NEW p \in Proc, BeginAbort(p)
    PROVE  \A b \in Account : Moves(b)
<1>1. TypeOK
  BY DEF LifecycleInv
<1>2. CASE row' = row
  BY <1>1, <1>2, RowsKept DEF BeginAbort
<1>3. CASE row' # row
  <2> DEFINE a == call[p].acct
  <2>1. /\ IsAt(a, "authenticating", call[p].ver)
        /\ row' = Moved(a, "disconnecting", FALSE)
        /\ session' = session
    BY <1>3 DEF BeginAbort
  <2>2. a \in Account
    BY DEF LifecycleInv, ProcInv, StageInv, AuthTarget, BeginAbort
  <2>3. row'[a].status = "disconnecting"
    BY <1>1, <2>1, <2>2, MovedRow, StatusNames
  <2>4. Aborted(a)
    BY <2>1, <2>3 DEF Aborted, IsAt
  <2> QED
    BY <1>1, <2>1, <2>2, <2>4, RowMoves, StatusNames
<1> QED
  BY <1>2, <1>3

\* ... a disconnection that is persisted, ...
LEMMA PersistIntentMoves ==
    ASSUME LifecycleInv, NEW p \in Proc, PersistIntent(p)
    PROVE  \A b \in Account : Moves(b)
<1>1. TypeOK
  BY DEF LifecycleInv
<1>2. CASE row' = row
  BY <1>1, <1>2, RowsKept DEF PersistIntent
<1>3. CASE row' # row
  <2> DEFINE a == call[p].acct
  <2>1. /\ IsAt(a, "active", call[p].ver)
        /\ row' = Moved(a, "disconnecting", TRUE)
        /\ session' = session
    BY <1>3 DEF PersistIntent
  <2>2. a \in Account
    BY DEF LifecycleInv, ProcInv, StageInv, PersistIntent
  <2>3. row'[a].status = "disconnecting"
    BY <1>1, <2>1, <2>2, MovedRow, StatusNames
  <2>4. Intended(a)
    BY <2>1, <2>3 DEF Intended, IsAt
  <2> QED
    BY <1>1, <2>1, <2>2, <2>4, RowMoves, StatusNames
<1> QED
  BY <1>2, <1>3

\* ... the end of a disconnection, ...
LEMMA MarkMoves ==
    ASSUME LifecycleInv, NEW p \in Proc, MarkDisconnected(p)
    PROVE  \A b \in Account : Moves(b)
<1>1. TypeOK
  BY DEF LifecycleInv
<1>2. CASE row' = row /\ session' = session
  BY <1>1, <1>2, RowsKept
<1>3. CASE ~(row' = row /\ session' = session)
  <2> DEFINE a == call[p].acct
  <2>1. /\ IsAt(a, "disconnecting", call[p].ver)
        /\ row' = Moved(a, "disconnected", FALSE)
        /\ session' = session \ {a}
    BY <1>3 DEF MarkDisconnected, rows
  <2>2. /\ a \in Account
        /\ call[p].ver <= fence[a]
        /\ row[a].version = call[p].ver => a \notin authorized
    BY DEF LifecycleInv, ProcInv, StageInv, IntentTarget, MarkDisconnected
  <2>3. row'[a].status = "disconnected"
    BY <1>1, <2>1, <2>2, MovedRow, StatusNames
  <2>4. Disconnected(a)
    BY <2>1, <2>2, <2>3 DEF Disconnected, IsAt
  <2> QED
    BY <1>1, <2>1, <2>2, <2>4, RowMoves, StatusNames
<1> QED
  BY <1>2, <1>3

\* ... and that of an abort.
LEMMA CompleteAbortMoves ==
    ASSUME LifecycleInv, NEW p \in Proc, CompleteAbort(p)
    PROVE  \A b \in Account : Moves(b)
<1>1. TypeOK
  BY DEF LifecycleInv
<1>2. CASE row' = row /\ session' = session
  BY <1>1, <1>2, RowsKept
<1>3. CASE ~(row' = row /\ session' = session)
  <2> DEFINE a == call[p].acct
             w == AbortVersion(call[p])
  <2>1. /\ IsAt(a, "disconnecting", w)
        /\ row' = Moved(a, "disconnected", FALSE)
        /\ session' = session \ {a}
    BY <1>3 DEF CompleteAbort, rows
  <2>2. /\ IF call[p].then = "completed" THEN LocalTarget(a, call[p].ver)
           ELSE AuthTarget(a, call[p].ver)
        /\ call[p].ver <= fence[a] \/ runtimeStopped
    BY DEF LifecycleInv, ProcInv, StageInv, CompleteAbort
  <2>3. a \in Account /\ call[p].ver \in Nat /\ row[a].version \in Nat /\ fence[a] \in Nat
    <3>1. a \in Account /\ call[p].ver \in Nat
      BY <2>2 DEF LocalTarget, AuthTarget
    <3> QED
      BY <1>1, <3>1 DEF TypeOK
  <2>4. row'[a].status = "disconnected"
    BY <1>1, <2>1, <2>3, MovedRow, StatusNames
  <2>5. /\ ~row[a].logout
        /\ runtimeStopped \/ row[a].version <= fence[a] + 1
    <3>1. CASE call[p].then = "completed"
      BY <2>1, <2>2, <2>3, <3>1 DEF AbortVersion, LocalTarget, IsAt
    <3>2. CASE call[p].then # "completed"
      BY <2>1, <2>2, <2>3, <3>2 DEF AbortVersion, AuthTarget, IsAt
    <3> QED
      BY <3>1, <3>2
  <2>6. Disconnected(a)
    BY <2>1, <2>4, <2>5 DEF Disconnected, IsAt
  <2> QED
    BY <1>1, <2>1, <2>3, <2>6, RowMoves, StatusNames
<1> QED
  BY <1>2, <1>3

\* In every step each account stays or moves as one of these.
LEMMA EveryoneMoves ==
    ASSUME LifecycleInv, [Next]_vars
    PROVE  \A a \in Account : Moves(a)
<1>0. TypeOK
  BY DEF LifecycleInv
<1>1. ASSUME NEW p \in Proc, Requests(p) PROVE \A a \in Account : Moves(a)
  <2>1. ASSUME NEW a \in Account, StartBegin(p, a) PROVE \A b \in Account : Moves(b)
    BY <2>1, StartMoves
  <2>2. ASSUME NEW a \in Account, Disconnect(p, a) PROVE row' = row /\ session' = session
    BY <2>2 DEF Disconnect, rows
  <2>3. ASSUME NEW q \in Request,
               Expire(p, q) \/ Submit(p, q, "code") \/ Submit(p, q, "password") \/ Cancel(p, q)
        PROVE  row' = row /\ session' = session
    BY <2>3 DEF Expire, Submit, Cancel, rows
  <2> QED
    BY <1>0, <1>1, <2>1, <2>2, <2>3, RowsKept DEF Requests
<1>2. ASSUME NEW p \in Proc, Proceeds(p) PROVE \A a \in Account : Moves(a)
  <2>1. CASE \/ Prepare(p) \/ SendCode(p) \/ SendCodeFails(p) \/ Commit(p)
             \/ SignedIn(p) \/ NotSignedIn(p) \/ SignInAborts(p)
             \/ StopAccount(p) \/ Remove(p) \/ Revoke(p) \/ RevokeFails(p)
    <3>1. row' = row /\ session' = session
      BY <2>1 DEF Prepare, SendCode, SendCodeFails, Commit, SignedIn, NotSignedIn, SignInAborts,
         StopAccount, Remove, Revoke, RevokeFails, rows
    <3> QED
      BY <1>0, <3>1, RowsKept
  <2> QED
    BY <1>2, <2>1, FinalizeMoves, BeginAbortMoves, CompleteAbortMoves, PersistIntentMoves, MarkMoves
       DEF Proceeds
<1>3. ASSUME Main PROVE row' = row /\ session' = session
  BY <1>3 DEF Main, BootIntents, RecoverIntent, BootOrphans, RecoverOrphan, BootServes, BootLeavesOut,
     CloseAdmission, Snapshot, Sweep, StopRuntime, rows
<1>4. ASSUME Environment PROVE \A a \in Account : Moves(a)
  <2>1. ASSUME NEW a \in Account, StoreSession(a) PROVE \A b \in Account : Moves(b)
    BY <1>0, <2>1, RowsKept DEF StoreSession
  <2>2. ASSUME NEW a \in Account, RowDue(a) PROVE \A b \in Account : Moves(b)
    BY <1>0, <2>2 DEF RowDue, Moves, Stays, TypeOK
  <2>3. ASSUME NEW a \in Account, Resolve(a) \/ Use(a) \/ Evict(a) PROVE row' = row /\ session' = session
    BY <2>3 DEF Resolve, Use, Evict, rows
  <2>4. ASSUME NEW q \in Request, ChallengeDue(q) \/ StoneDue(q) PROVE row' = row /\ session' = session
    BY <2>4 DEF ChallengeDue, StoneDue, rows
  <2>5. ASSUME ShutdownBegins \/ Dies \/ Restart PROVE row' = row /\ session' = session
    BY <2>5 DEF ShutdownBegins, Dies, Restart, rows
  <2> QED
    BY <1>0, <1>4, <2>1, <2>2, <2>3, <2>4, <2>5, RowsKept DEF Environment
<1>5. CASE UNCHANGED vars
  BY <1>0, <1>5, RowsKept DEF vars
<1> QED
  BY <1>0, <1>1, <1>2, <1>3, <1>4, <1>5, RowsKept DEF Next

-----------------------------------------------------------------------------
(* Every step but a death keeps the fences, and moves every challenge by    *)
(* the rules.                                                              *)

\* Fences that are untouched have not fallen.
LEMMA FencesKept ==
    ASSUME TypeOK, fence' = fence, runtimeStopped => runtimeStopped'
    PROVE  FencesGrow
  BY DEF TypeOK, FencesGrow

\* A fence that is raised to a later version.
LEMMA FenceRaised ==
    ASSUME TypeOK, NEW a \in Account, NEW v \in Nat, fence' = Raised(a, v), fence[a] <= v,
           runtimeStopped' = runtimeStopped
    PROVE  /\ FencesGrow
           /\ fence' \in [Account -> Nat]
           /\ fence'[a] = v
  BY DEF TypeOK, FencesGrow, Raised

\* While the process lives no fence falls.
LEMMA FenceSteps ==
    ASSUME LifecycleInv, [Next]_vars, ~Dies
    PROVE  FencesGrow /\ fence' \in [Account -> Nat]
<1>0. TypeOK
  BY DEF LifecycleInv
<1>1. SUFFICES ASSUME ~(fence' = fence /\ (runtimeStopped => runtimeStopped'))
               PROVE  FencesGrow /\ fence' \in [Account -> Nat]
  BY <1>0, FencesKept DEF TypeOK
<1>2. ASSUME NEW p \in Proc, Requests(p) PROVE FALSE
  BY <1>1, <1>2 DEF Requests, StartBegin, Disconnect, Expire, Submit, Cancel, runtime
<1>3. ASSUME NEW p \in Proc, Proceeds(p) PROVE FencesGrow /\ fence' \in [Account -> Nat]
  <2>1. ASSUME \/ Prepare(p) \/ SendCode(p) \/ SendCodeFails(p) \/ Commit(p)
               \/ SignedIn(p) \/ NotSignedIn(p) \/ SignInAborts(p) \/ Finalize(p)
               \/ BeginAbort(p) \/ CompleteAbort(p) \/ Remove(p)
               \/ PersistIntent(p) \/ MarkDisconnected(p)
        PROVE  FALSE
    <3>1. fence' = fence /\ runtimeStopped' = runtimeStopped
      BY <2>1 DEF Prepare, SendCode, SendCodeFails, Commit, SignedIn, NotSignedIn, SignInAborts,
         Finalize, BeginAbort, CompleteAbort, Remove, PersistIntent, MarkDisconnected, runtime
    <3> QED
      BY <1>1, <3>1
  <2>2. CASE StopAccount(p)
    <3>1. call[p].acct \in Account /\ call[p].ver \in Nat
      BY <2>2 DEF LifecycleInv, ProcInv, StageInv, StopAccount, AuthTarget, LocalTarget
    <3>2. /\ fence' = Raised(call[p].acct, call[p].ver)
          /\ call[p].ver >= fence[call[p].acct]
          /\ runtimeStopped' = runtimeStopped
      BY <1>1, <2>2 DEF StopAccount
    <3> QED
      BY <1>0, <3>1, <3>2, FenceRaised DEF TypeOK
  <2>3. CASE Revoke(p) \/ RevokeFails(p)
    <3>1. call[p].acct \in Account /\ call[p].ver \in Nat
      BY <2>3 DEF LifecycleInv, ProcInv, StageInv, Revoke, RevokeFails, IntentTarget
    <3>2. /\ fence' = Raised(call[p].acct, call[p].ver)
          /\ call[p].ver >= fence[call[p].acct]
          /\ runtimeStopped' = runtimeStopped
      BY <1>1, <2>3 DEF Revoke, RevokeFails, Revocable
    <3> QED
      BY <1>0, <3>1, <3>2, FenceRaised DEF TypeOK
  <2> QED
    BY <1>3, <2>1, <2>2, <2>3 DEF Proceeds
<1>4. ASSUME Main PROVE FALSE
  <2>1. CASE StopRuntime
    <3>1. fence' = fence /\ runtimeStopped' = TRUE
      BY <2>1 DEF StopRuntime
    <3> QED
      BY <1>1, <3>1
  <2>2. CASE ~StopRuntime
    <3>1. fence' = fence /\ runtimeStopped' = runtimeStopped
      BY <1>4, <2>2, Zenon DEF Main, BootIntents, RecoverIntent, BootOrphans, RecoverOrphan, BootServes,
         BootLeavesOut, CloseAdmission, Snapshot, Sweep, runtime
    <3> QED
      BY <1>1, <3>1
  <2> QED
    BY <2>1, <2>2
<1>5. ASSUME Environment PROVE FALSE
  BY <1>1, <1>5 DEF Environment, Resolve, Use, StoreSession, Evict, RowDue, ChallengeDue, StoneDue,
     ShutdownBegins, Restart, runtime
<1>6. ~UNCHANGED vars
  BY <1>1 DEF vars
<1> QED
  BY <1>2, <1>3, <1>4, <1>5, <1>6 DEF Next

ChallengeRecord ==
    [state : {"free", "live", "completed", "aborted", "gone"}, acct : Account \cup {None}, ver : Nat,
     stage : {"code", "password"}, ready : BOOLEAN, pending : BOOLEAN, due : BOOLEAN,
     codes : 0 .. MaxAttempts, passwords : 0 .. MaxAttempts]

ChallengeStays(q) ==
    /\ challenge'[q].acct = challenge[q].acct
    /\ challenge'[q].ver = challenge[q].ver
    /\ challenge'[q].state # challenge[q].state =>
          challenge[q].state # "free" /\ challenge'[q].state = "gone"

\* A challenge that becomes a tombstone, true when it does.
ChallengeEnds(q) ==
    /\ challenge'[q].acct = challenge[q].acct
    /\ challenge'[q].ver = challenge[q].ver
    /\ challenge[q].state = "live"
    /\ LET r == row'[challenge[q].acct]
           v == challenge[q].ver
       IN  \/ challenge'[q].state = "completed" /\ r.version = v + 1 /\ r.status = "active"
           \/ challenge'[q].state = "aborted" /\ r.version = v + 2 /\ r.status = "disconnected"

\* The goroutine inside the gate reserves a challenge.
ChallengeBegins(q) ==
    /\ call'[gate] # call[gate]
    /\ challenge[q].state = "free"
    /\ challenge'[q].state = "live"
    /\ AuthTarget(challenge'[q].acct, challenge'[q].ver)

ChallengeMoves(q) == ChallengeStays(q) \/ ChallengeEnds(q) \/ ChallengeBegins(q)

\* What a step of the challenges leaves: their types and the rules.
ChallengesMove ==
    /\ challenge' \in [Request -> ChallengeRecord]
    /\ \A q \in Request : ChallengeMoves(q)

\* The type of the challenges.
LEMMA ChallengeTypes ==
    ASSUME TypeOK
    PROVE  challenge \in [Request -> ChallengeRecord]
  BY DEF TypeOK, ChallengeRecord

\* Challenges that are untouched have not moved.
LEMMA ChallengesKept ==
    ASSUME TypeOK, challenge' = challenge
    PROVE  ChallengesMove
  BY ChallengeTypes DEF ChallengesMove, ChallengeMoves, ChallengeStays

\* One challenge changes, the others stay.
LEMMA OneChallengeMoves ==
    ASSUME TypeOK, NEW q \in Request, NEW c \in ChallengeRecord,
           challenge' = [challenge EXCEPT ![q] = c],
           challenge'[q] = c => ChallengeMoves(q)
    PROVE  ChallengesMove
<1>1. challenge \in [Request -> ChallengeRecord]
  BY ChallengeTypes
<1>2. challenge'[q] = c
  BY <1>1
<1>3. \A r \in Request \ {q} : ChallengeStays(r)
  BY <1>1 DEF ChallengeStays
<1> QED
  BY <1>1, <1>2, <1>3 DEF ChallengesMove, ChallengeMoves

\* A challenge ends as the row of its account says.
LEMMA EndedMoves ==
    ASSUME TypeOK, NEW q \in Request \cup {0}, NEW o \in {"completed", "aborted", "gone"},
           challenge' = Ended(q, o),
           q \in Live /\ o = "completed" =>
               /\ row'[challenge[q].acct].version = challenge[q].ver + 1
               /\ row'[challenge[q].acct].status = "active",
           q \in Live /\ o = "aborted" =>
               /\ row'[challenge[q].acct].version = challenge[q].ver + 2
               /\ row'[challenge[q].acct].status = "disconnected"
    PROVE  ChallengesMove
<1>1. CASE q \notin Live
  BY <1>1, ChallengesKept DEF Ended
<1>2. CASE q \in Live
  <2> DEFINE c == [NoChallenge EXCEPT !.state = o, !.acct = challenge[q].acct,
                                      !.ver = challenge[q].ver, !.due = challenge[q].due]
  <2>1. q \in Request /\ challenge[q].state = "live"
    BY <1>2 DEF Live
  <2>2. challenge' = [challenge EXCEPT ![q] = c]
    BY <1>2 DEF Ended
  <2>3. challenge[q] \in ChallengeRecord
    BY <2>1, ChallengeTypes
  <2>4. c \in ChallengeRecord /\ c.state = o /\ c.acct = challenge[q].acct /\ c.ver = challenge[q].ver
    <3> DEFINE a == challenge[q].acct
               v == challenge[q].ver
               d == challenge[q].due
    <3>1. 0 \in 0 .. MaxAttempts
      BY LifecycleAssumption
    <3>2. a \in Account \cup {None} /\ v \in Nat
      BY <2>3 DEF ChallengeRecord
    <3>3. d \in BOOLEAN
      BY <2>3 DEF ChallengeRecord
    <3>4. FALSE \in BOOLEAN
      OBVIOUS
    <3>5. c = [state |-> o, acct |-> a, ver |-> v, stage |-> "code", ready |-> FALSE,
               pending |-> FALSE, due |-> d, codes |-> 0, passwords |-> 0]
      <4>1. c = [NoChallenge EXCEPT !.state = o, !.acct = a, !.ver = v, !.due = d]
        OBVIOUS
      <4> HIDE DEF c, a, v, d
      <4> QED
        BY <4>1 DEF NoChallenge
    <3> HIDE DEF c, a, v, d
    <3>6. c \in ChallengeRecord /\ c.state = o /\ c.acct = a /\ c.ver = v
      BY <3>1, <3>2, <3>3, <3>4, <3>5 DEF ChallengeRecord
    <3> QED
      BY <3>6 DEF a, v
  <2>5. ASSUME challenge'[q] = c PROVE ChallengeMoves(q)
    BY <1>2, <2>1, <2>4, <2>5 DEF ChallengeMoves, ChallengeStays, ChallengeEnds
  <2> HIDE DEF c
  <2> QED
    BY <2>1, <2>2, <2>4, <2>5, OneChallengeMoves
<1> QED
  BY <1>1, <1>2

\* The challenge that Prepare reserves.
Fresh(a, v) == [NoChallenge EXCEPT !.state = "live", !.acct = a, !.ver = v, !.due = row[a].due]

\* A challenge that is sent belongs to the account and version of its call.
LEMMA NewChallenge ==
    ASSUME TypeOK, NEW a \in Account, NEW v \in Nat
    PROVE  /\ Fresh(a, v) \in ChallengeRecord
           /\ Fresh(a, v).state = "live" /\ Fresh(a, v).acct = a /\ Fresh(a, v).ver = v
<1> DEFINE c == Fresh(a, v)
<1>1. 0 \in 0 .. MaxAttempts
  BY LifecycleAssumption
<1>2. row[a].due \in BOOLEAN
  BY DEF TypeOK
<1> DEFINE d == row[a].due
<1>3. c = [state |-> "live", acct |-> a, ver |-> v, stage |-> "code", ready |-> FALSE,
            pending |-> FALSE, due |-> d, codes |-> 0, passwords |-> 0]
  <2>1. c = [NoChallenge EXCEPT !.state = "live", !.acct = a, !.ver = v, !.due = d]
    BY DEF Fresh
  <2> HIDE DEF c, d
  <2> QED
    BY <2>1 DEF NoChallenge
<1>6. d \in BOOLEAN
  BY <1>2
<1> HIDE DEF c, d
<1>4. FALSE \in BOOLEAN
  OBVIOUS
<1>5. c \in ChallengeRecord /\ c.state = "live" /\ c.acct = a /\ c.ver = v
  BY <1>1, <1>3, <1>4, <1>6 DEF ChallengeRecord
<1> QED
  BY <1>5 DEF c

\* How each operation moves the challenges: it prepares one, ...
LEMMA PrepareChallenges ==
    ASSUME LifecycleInv, NEW p \in Proc, Prepare(p)
    PROVE  /\ ChallengesMove
           /\ \A q \in Request : challenge'[q] # challenge[q] =>
                 /\ challenge[q].state = "free"
                 /\ call'[p].at = "send" => challenge'[q].acct = call[p].acct /\ challenge'[q].ver = call[p].ver
<1>0. TypeOK
  BY DEF LifecycleInv
<1>1. CASE challenge' = challenge
  BY <1>0, <1>1, ChallengesKept
<1>2. CASE challenge' # challenge
  <2> DEFINE a == call[p].acct
             v == call[p].ver
             free == {q \in Request : challenge[q].state = "free"}
             new == CHOOSE q \in free : TRUE
             c == Fresh(a, v)
  <2>1. challenge' = [challenge EXCEPT ![new] = c]
    BY <1>2 DEF Prepare, Fresh
  <2>2. AuthTarget(a, v) /\ \E q \in Request : challenge[q].state = "free"
    BY DEF LifecycleInv, ProcInv, StageInv, Prepare
  <2>3. new \in free
    BY <2>2
  <2>4. a \in Account /\ v \in Nat /\ row[a].due \in BOOLEAN
    BY <1>0, <2>2 DEF AuthTarget, TypeOK
  <2>5. c \in ChallengeRecord /\ c.state = "live" /\ c.acct = a /\ c.ver = v
    BY <1>0, <2>4, NewChallenge
  <2>9. call'[gate] # call[gate]
    <3>1. gate = p /\ call[p].at = "prepare"
      BY DEF LifecycleInv, ProcInv, StageInv, Prepare
    <3>2. Takes(p, "send", a, v, new, "none", <<>>)
      BY <1>2 DEF Prepare
    <3>3. call'[p].at = "send"
      <4>1. call \in [Proc -> CallRecord] /\ call[p] \in CallRecord
        BY DEF LifecycleInv, CallTypes
      <4> HIDE DEF new, a, v
      <4> QED
        BY <3>2, <4>1 DEF Takes, CallRecord
    <3> QED
      BY <3>1, <3>3
  <2> HIDE DEF new, c, a, v
  <2>6. ASSUME challenge'[new] = c PROVE ChallengeMoves(new)
    BY <2>2, <2>3, <2>5, <2>6, <2>9 DEF ChallengeMoves, ChallengeBegins
  <2>7. ChallengesMove
    BY <1>0, <2>1, <2>3, <2>5, <2>6, OneChallengeMoves
  <2>8. \A q \in Request : challenge'[q] # challenge[q] =>
           challenge[q].state = "free" /\ challenge'[q].acct = a /\ challenge'[q].ver = v
    BY <1>0, <2>1, <2>3, <2>5, ChallengeTypes
  <2> QED
    BY <2>7, <2>8 DEF a, v
<1> QED
  BY <1>1, <1>2

\* The parts of a challenge that no rule is about.
LEMMA DetailMoves ==
    ASSUME TypeOK, NEW q \in Request, NEW c \in ChallengeRecord,
           challenge' = [challenge EXCEPT ![q] = c],
           c.acct = challenge[q].acct, c.ver = challenge[q].ver, c.state = challenge[q].state
    PROVE  ChallengesMove
  BY OneChallengeMoves DEF ChallengeMoves, ChallengeStays

\* ... completes one, ...
LEMMA FinalizeChallenges ==
    ASSUME LifecycleInv, NEW p \in Proc, Finalize(p)
    PROVE  ChallengesMove
<1>0. TypeOK /\ \A q \in Request : ChallengeOK(q)
  BY DEF LifecycleInv
<1>1. CASE challenge' = challenge
  BY <1>0, <1>1, ChallengesKept
<1>2. CASE challenge' # challenge
  <2> DEFINE a == call[p].acct
             v == call[p].ver
             q == call[p].req
  <2>1. /\ \/ Activates(a, v) /\ row' = Moved(a, "active", FALSE)
           \/ Finalized(a, v) /\ UNCHANGED row
        /\ challenge' = Ended(q, "completed")
    BY <1>2 DEF Finalize
  <2>2. a \in Account /\ v \in Nat
    BY DEF LifecycleInv, ProcInv, StageInv, AuthTarget, Finalize
  <2>3. row'[a].version = v + 1 /\ row'[a].status = "active"
    BY <1>0, <2>1, <2>2, MovedRow, StatusNames DEF Activates, Finalized, IsAt
  <2>4. q \in Request \cup {0}
    BY DEF LifecycleInv, CallTypes, CallRecord
  <2>5. q \in Live => challenge[q].acct = a /\ challenge[q].ver = v
    <3>1. 0 \notin Live
      BY DEF Live, Request
    <3> QED
      BY <2>4, <3>1 DEF LifecycleInv, ProcInv, Matches
  <2> QED
    BY <1>0, <2>1, <2>3, <2>4, <2>5, EndedMoves
<1> QED
  BY <1>1, <1>2

\* ... leaves all as they are when an abort failed, ...
LEMMA FailedAbortChallenges ==
    ASSUME NEW p, AbortEnds(p, FALSE)
    PROVE  challenge' = challenge
  BY DEF AbortEnds

\* ... aborts one, ...
LEMMA CompleteAbortChallenges ==
    ASSUME LifecycleInv, NEW p \in Proc, CompleteAbort(p)
    PROVE  ChallengesMove
<1>0. TypeOK /\ \A q \in Request : ChallengeOK(q)
  BY DEF LifecycleInv
<1>1. CASE challenge' = challenge
  BY <1>0, <1>1, ChallengesKept
<1>2. CASE challenge' # challenge
  <2> DEFINE a == call[p].acct
             v == call[p].ver
             w == AbortVersion(call[p])
             q == call[p].req
  <2>1. /\ \/ IsAt(a, "disconnecting", w) /\ row' = Moved(a, "disconnected", FALSE)
           \/ IsAt(a, "disconnected", w + 1) /\ UNCHANGED row
        /\ AbortEnds(p, TRUE)
    BY <1>2, FailedAbortChallenges DEF CompleteAbort, rows
  <2>2. call[p].then = "tombstone" /\ challenge' = Ended(q, "aborted")
    BY <1>2, <2>1 DEF AbortEnds
  <2>3. a \in Account /\ v \in Nat
    BY <2>2 DEF LifecycleInv, ProcInv, StageInv, AuthTarget, CompleteAbort
  <2>4. w = v + 1
    BY <2>2 DEF AbortVersion
  <2>5. row'[a].version = v + 2 /\ row'[a].status = "disconnected"
    <3>1. row'[a].version = w + 1 /\ row'[a].status = "disconnected"
      <4> HIDE DEF w, v
      <4>1. CASE IsAt(a, "disconnecting", w) /\ row' = Moved(a, "disconnected", FALSE)
        BY <1>0, <2>3, <4>1, MovedRow, StatusNames DEF IsAt
      <4>2. CASE IsAt(a, "disconnected", w + 1) /\ UNCHANGED row
        BY <4>2 DEF IsAt
      <4> QED
        BY <2>1, <4>1, <4>2
    <3> QED
      BY <2>3, <2>4, <3>1
  <2>6. q \in Request \cup {0}
    BY DEF LifecycleInv, CallTypes, CallRecord
  <2>7. q \in Live => challenge[q].acct = a /\ challenge[q].ver = v
    <3>1. 0 \notin Live
      BY DEF Live, Request
    <3> QED
      BY <2>6, <3>1 DEF LifecycleInv, ProcInv, Matches
  <2> QED
    BY <1>0, <2>2, <2>5, <2>6, <2>7, EndedMoves
<1> QED
  BY <1>1, <1>2

\* A count of attempts, a flag or the stage of one challenge changes.
LEMMA FlagMoves ==
    ASSUME TypeOK, NEW q, NEW c, q \in Request => c \in ChallengeRecord,
           challenge' = [challenge EXCEPT ![q] = c],
           q \in Request => /\ c.acct = challenge[q].acct
                            /\ c.ver = challenge[q].ver
                            /\ c.state = challenge[q].state
    PROVE  ChallengesMove
<1>1. CASE q \in Request
  BY <1>1, DetailMoves
<1>2. CASE q \notin Request
  <2>1. challenge' = challenge
    BY <1>2, ChallengeTypes
  <2> QED
    BY <2>1, ChallengesKept
<1> QED
  BY <1>1, <1>2

\* ... takes an answer to one, ...
LEMMA SubmitChallenges ==
    ASSUME LifecycleInv, NEW p \in Proc, NEW q \in Request, NEW k, Submit(p, q, k)
    PROVE  ChallengesMove
<1>0. TypeOK
  BY DEF LifecycleInv
<1>1. challenge[q] \in ChallengeRecord /\ MaxAttempts \in Nat
  BY <1>0, ChallengeTypes, LifecycleAssumption
<1>2. CASE challenge' = challenge
  BY <1>0, <1>2, ChallengesKept
<1>3. CASE /\ AttemptLeft(challenge[q].codes)
           /\ challenge' = [challenge EXCEPT ![q].codes = @ + 1]
  <2> DEFINE c == [challenge[q] EXCEPT !.codes = @ + 1]
  <2>1. c \in ChallengeRecord /\ c.acct = challenge[q].acct /\ c.ver = challenge[q].ver
        /\ c.state = challenge[q].state
    BY <1>1, <1>3 DEF ChallengeRecord, AttemptLeft
  <2>2. challenge' = [challenge EXCEPT ![q] = c]
    BY <1>3
  <2> HIDE DEF c
  <2> QED
    BY <1>0, <2>1, <2>2, DetailMoves
<1>4. CASE /\ AttemptLeft(challenge[q].passwords)
           /\ challenge' = [challenge EXCEPT ![q].passwords = @ + 1]
  <2> DEFINE c == [challenge[q] EXCEPT !.passwords = @ + 1]
  <2>1. c \in ChallengeRecord /\ c.acct = challenge[q].acct /\ c.ver = challenge[q].ver
        /\ c.state = challenge[q].state
    BY <1>1, <1>4 DEF ChallengeRecord, AttemptLeft
  <2>2. challenge' = [challenge EXCEPT ![q] = c]
    BY <1>4
  <2> HIDE DEF c
  <2> QED
    BY <1>0, <2>1, <2>2, DetailMoves
<1> QED
  BY <1>2, <1>3, <1>4 DEF Submit

\* ... spends an attempt on one, ...
LEMMA CommitChallenges ==
    ASSUME LifecycleInv, NEW p \in Proc, Commit(p)
    PROVE  ChallengesMove
<1>0. TypeOK
  BY DEF LifecycleInv
<1>1. CASE challenge' = challenge
  BY <1>0, <1>1, ChallengesKept
<1>2. CASE challenge' # challenge
  <2> DEFINE q == call[p].req
             c == [challenge[q] EXCEPT !.ready = TRUE]
  <2>1. challenge' = [challenge EXCEPT ![q].ready = TRUE] /\ q \in Request
    BY <1>2 DEF Commit, Live
  <2>2. challenge[q] \in ChallengeRecord
    BY <1>0, <2>1, ChallengeTypes
  <2>3. c \in ChallengeRecord /\ c.acct = challenge[q].acct /\ c.ver = challenge[q].ver
        /\ c.state = challenge[q].state
    BY <2>2 DEF ChallengeRecord
  <2>4. challenge' = [challenge EXCEPT ![q] = c]
    BY <2>1
  <2> HIDE DEF c
  <2> QED
    BY <1>0, <2>1, <2>3, <2>4, DetailMoves
<1> QED
  BY <1>1, <1>2

\* ... learns that one was answered right or wrong, ...
LEMMA SignInChallenges ==
    ASSUME LifecycleInv, NEW p \in Proc, SignedIn(p) \/ NotSignedIn(p)
    PROVE  ChallengesMove
<1>0. TypeOK
  BY DEF LifecycleInv
<1> DEFINE q == call[p].req
<1>1. CASE challenge' = challenge
  BY <1>0, <1>1, ChallengesKept
<1>2. CASE challenge' = [challenge EXCEPT ![q].pending = TRUE, ![q].ready = FALSE]
  <2> DEFINE c == [challenge[q] EXCEPT !.pending = TRUE, !.ready = FALSE]
  <2>1. ASSUME q \in Request
        PROVE  /\ c \in ChallengeRecord /\ c.acct = challenge[q].acct /\ c.ver = challenge[q].ver
               /\ c.state = challenge[q].state
    <3>1. challenge[q] \in ChallengeRecord
      BY <1>0, <2>1, ChallengeTypes
    <3> QED
      BY <3>1 DEF ChallengeRecord
  <2>2. challenge' = [challenge EXCEPT ![q] = c]
    <3>1. challenge \in [Request -> ChallengeRecord]
      BY <1>0, ChallengeTypes
    <3> HIDE DEF q
    <3> QED
      BY <1>2, <3>1
  <2> HIDE DEF c, q
  <2> QED
    BY <1>0, <2>1, <2>2, FlagMoves
<1>3. CASE challenge' = [challenge EXCEPT ![q].stage = "password"]
  <2> DEFINE c == [challenge[q] EXCEPT !.stage = "password"]
  <2>1. ASSUME q \in Request
        PROVE  /\ c \in ChallengeRecord /\ c.acct = challenge[q].acct /\ c.ver = challenge[q].ver
               /\ c.state = challenge[q].state
    <3>1. challenge[q] \in ChallengeRecord
      BY <1>0, <2>1, ChallengeTypes
    <3> QED
      BY <3>1 DEF ChallengeRecord
  <2>2. challenge' = [challenge EXCEPT ![q] = c]
    BY <1>3
  <2> HIDE DEF c, q
  <2> QED
    BY <1>0, <2>1, <2>2, FlagMoves
<1> QED
  BY <1>1, <1>2, <1>3 DEF SignedIn, NotSignedIn

\* ... or sweeps those that are overdue; ...
LEMMA SweepChallenges ==
    ASSUME LifecycleInv, Sweep
    PROVE  ChallengesMove
<1>0. TypeOK
  BY DEF LifecycleInv
<1>1. PICK q : /\ q \in todo
               /\ challenge' = IF q \notin Live THEN challenge
                               ELSE [challenge EXCEPT ![q].ready = FALSE,
                                        ![q].pending = FALSE, ![q].due = TRUE,
                                        ![q].codes = 0, ![q].passwords = 0]
  BY DEF Sweep
<1>2. CASE q \notin Live
  BY <1>0, <1>1, <1>2, ChallengesKept
<1>3. CASE q \in Live
  <2> DEFINE c == [challenge[q] EXCEPT !.ready = FALSE, !.pending = FALSE, !.due = TRUE,
                                       !.codes = 0, !.passwords = 0]
  <2>1. q \in Request
    BY <1>3 DEF Live
  <2>2. challenge[q] \in ChallengeRecord /\ challenge \in [Request -> ChallengeRecord]
    BY <1>0, <2>1, ChallengeTypes
  <2>3. 0 \in 0 .. MaxAttempts
    BY LifecycleAssumption
  <2>4. c \in ChallengeRecord /\ c.acct = challenge[q].acct /\ c.ver = challenge[q].ver
        /\ c.state = challenge[q].state
    BY <2>2, <2>3 DEF ChallengeRecord
  <2>5. challenge' = [challenge EXCEPT ![q] = c]
    BY <1>1, <1>3, <2>1, <2>2
  <2> HIDE DEF c
  <2> QED
    BY <1>0, <2>1, <2>4, <2>5, DetailMoves
<1> QED
  BY <1>2, <1>3

\* ... tombstones are forgotten ...
LEMMA StoneChallenges ==
    ASSUME LifecycleInv,
           \A q \in Request : \/ challenge'[q] = challenge[q]
                              \/ /\ challenge[q].state \in {"completed", "aborted"}
                                 /\ challenge'[q] = [challenge[q] EXCEPT !.state = "gone"],
           challenge' = [q \in Request |-> challenge'[q]]
    PROVE  ChallengesMove
<1>0. challenge \in [Request -> ChallengeRecord]
  BY ChallengeTypes DEF LifecycleInv
<1>1. ASSUME NEW q \in Request
      PROVE  challenge'[q] \in ChallengeRecord /\ ChallengeStays(q)
  <2>0. challenge[q] \in ChallengeRecord
    BY <1>0
  <2>1. CASE challenge'[q] = challenge[q]
    BY <2>0, <2>1 DEF ChallengeStays
  <2>2. CASE challenge'[q] = [challenge[q] EXCEPT !.state = "gone"]
             /\ challenge[q].state \in {"completed", "aborted"}
    BY <2>0, <2>2 DEF ChallengeStays, ChallengeRecord
  <2> QED
    BY <2>1, <2>2
<1> QED
  BY <1>1 DEF ChallengesMove, ChallengeMoves

\* ... and challenges become due.
LEMMA ChallengeDueMoves ==
    ASSUME LifecycleInv, NEW q \in Request, ChallengeDue(q)
    PROVE  ChallengesMove
<1>0. TypeOK
  BY DEF LifecycleInv
<1> DEFINE c == [challenge[q] EXCEPT !.due = TRUE]
<1>1. challenge[q] \in ChallengeRecord
  BY <1>0, ChallengeTypes
<1>2. c \in ChallengeRecord /\ c.acct = challenge[q].acct /\ c.ver = challenge[q].ver
      /\ c.state = challenge[q].state
  BY <1>1 DEF ChallengeRecord
<1>3. challenge' = [challenge EXCEPT ![q] = c]
  BY DEF ChallengeDue
<1> HIDE DEF c
<1> QED
  BY <1>0, <1>2, <1>3, DetailMoves

\* While the process lives challenges move in no other way.
LEMMA ChallengeSteps ==
    ASSUME LifecycleInv, [Next]_vars, ~Dies
    PROVE  ChallengesMove
<1>0. TypeOK
  BY DEF LifecycleInv
<1>1. SUFFICES ASSUME challenge' # challenge PROVE ChallengesMove
  BY <1>0, ChallengesKept
<1>2. ASSUME NEW p \in Proc, Requests(p) PROVE ChallengesMove
  <2>1. ~\E a \in Account : StartBegin(p, a) \/ Disconnect(p, a)
    BY <1>1 DEF StartBegin, Disconnect, memory
  <2>2. PICK q \in Request :
           Expire(p, q) \/ Submit(p, q, "code") \/ Submit(p, q, "password") \/ Cancel(p, q)
    BY <1>2, <2>1 DEF Requests
  <2>3. ~Expire(p, q) /\ ~Cancel(p, q)
    BY <1>1 DEF Expire, Cancel, memory
  <2> QED
    BY <2>2, <2>3, SubmitChallenges
<1>3. ASSUME NEW p \in Proc, Proceeds(p) PROVE ChallengesMove
  <2>1. ~(SendCode(p) \/ SignInAborts(p) \/ PersistIntent(p) \/ Revoke(p) \/ RevokeFails(p)
          \/ MarkDisconnected(p))
    BY <1>1 DEF SendCode, SignInAborts, PersistIntent, Revoke, RevokeFails, MarkDisconnected, memory
  <2>2. ~BeginAbort(p) /\ ~StopAccount(p)
    BY <1>1, FailedAbortChallenges DEF BeginAbort, StopAccount
  <2>3. CASE SendCodeFails(p) \/ Remove(p)
    <3>1. challenge' = Ended(call[p].req, "gone")
      BY <1>1, <2>3 DEF SendCodeFails, Remove
    <3>2. call[p].req \in Request \cup {0}
      BY DEF LifecycleInv, CallTypes, CallRecord
    <3> QED
      BY <1>0, <3>1, <3>2, EndedMoves
  <2> QED
    BY <1>3, <2>1, <2>2, <2>3, PrepareChallenges, CommitChallenges, SignInChallenges,
       FinalizeChallenges, CompleteAbortChallenges DEF Proceeds
<1>4. ASSUME Main PROVE ChallengesMove
  <2>1. CASE StopRuntime
    <3>1. /\ \A q \in Request : \/ challenge'[q] = challenge[q]
                                \/ /\ challenge[q].state \in {"completed", "aborted"}
                                   /\ challenge'[q] = [challenge[q] EXCEPT !.state = "gone"]
          /\ challenge' = [q \in Request |-> challenge'[q]]
      BY <2>1 DEF StopRuntime, Stones
    <3> QED
      BY <3>1, StoneChallenges
  <2>2. CASE Sweep
    BY <2>2, SweepChallenges
  <2>3. CASE ~StopRuntime /\ ~Sweep
    <3>1. challenge' = challenge
      BY <1>4, <2>3, Zenon DEF Main, BootIntents, RecoverIntent, BootOrphans, RecoverOrphan, BootServes,
         BootLeavesOut, CloseAdmission, Snapshot, memory
    <3> QED
      BY <1>1, <3>1
  <2> QED
    BY <2>1, <2>2, <2>3
<1>5. ASSUME Environment PROVE ChallengesMove
  <2>1. ASSUME NEW q \in Request, StoneDue(q) PROVE ChallengesMove
    <3>1. challenge \in [Request -> ChallengeRecord]
      BY <1>0, ChallengeTypes
    <3>2. challenge' = [challenge EXCEPT ![q] = [challenge[q] EXCEPT !.state = "gone"]]
          /\ challenge[q].state \in {"completed", "aborted"}
      BY <2>1 DEF StoneDue, Stones
    <3>3. /\ \A r \in Request : \/ challenge'[r] = challenge[r]
                                \/ /\ challenge[r].state \in {"completed", "aborted"}
                                   /\ challenge'[r] = [challenge[r] EXCEPT !.state = "gone"]
          /\ challenge' = [r \in Request |-> challenge'[r]]
      BY <3>1, <3>2
    <3> QED
      BY <3>3, StoneChallenges
  <2>2. \/ \E q \in Request : ChallengeDue(q) \/ StoneDue(q)
        \/ Dies
        \/ challenge' = challenge
    BY <1>5, Zenon DEF Environment, Resolve, Use, StoreSession, Evict, RowDue, ShutdownBegins, Restart, memory
  <2> QED
    BY <1>1, <2>1, <2>2, ChallengeDueMoves
<1>6. ~UNCHANGED vars
  BY <1>1 DEF vars
<1> QED
  BY <1>2, <1>3, <1>4, <1>5, <1>6 DEF Next

-----------------------------------------------------------------------------
(* Types.                                                                  *)

RowType == [Account -> [status : Status, version : Nat \ {0}, logout : BOOLEAN, due : BOOLEAN]]

\* The types of the variables after a step: rows and stored sessions, ...
LEMMA RowTypes ==
    ASSUME LifecycleInv, [Next]_vars
    PROVE  row' \in RowType /\ session' \subseteq Account
<1>0. TypeOK
  BY DEF LifecycleInv
<1>1. session' \subseteq Account
  <2>1. ASSUME NEW p \in Proc, Proceeds(p) PROVE session' \subseteq session
    BY <2>1 DEF Proceeds, Prepare, SendCode, SendCodeFails, Commit, SignedIn, NotSignedIn, SignInAborts,
       Finalize, BeginAbort, StopAccount, CompleteAbort, Remove, PersistIntent, Revoke, RevokeFails,
       MarkDisconnected, rows
  <2>2. ASSUME NEW p \in Proc, Requests(p) PROVE session' = session
    BY <2>2 DEF Requests, StartBegin, Disconnect, Expire, Submit, Cancel, rows
  <2>3. ASSUME Main PROVE session' = session
    BY <2>3 DEF Main, BootIntents, RecoverIntent, BootOrphans, RecoverOrphan, BootServes, BootLeavesOut,
       CloseAdmission, Snapshot, Sweep, StopRuntime, rows
  <2>4. ASSUME Environment PROVE \/ session' = session
                                 \/ \E a \in Account : session' = session \cup {a}
    BY <2>4, Zenon DEF Environment, Resolve, Use, StoreSession, Evict, RowDue, ChallengeDue, StoneDue,
       ShutdownBegins, Dies, Restart, rows
  <2> QED
    BY <1>0, <2>1, <2>2, <2>3, <2>4 DEF TypeOK, Next, vars
<1>2. ASSUME NEW a \in Account, NEW s \in Status, NEW l \in BOOLEAN, row' = Moved(a, s, l)
      PROVE  row' \in RowType
  BY <1>0, <1>2, MovedRow DEF RowType
<1>3. SUFFICES ASSUME row' # row PROVE row' \in RowType
  BY <1>0, <1>1 DEF TypeOK, RowType
<1>4. ASSUME NEW p \in Proc, Requests(p) PROVE row' \in RowType
  <2>1. ASSUME NEW q \in Request,
               Expire(p, q) \/ Submit(p, q, "code") \/ Submit(p, q, "password") \/ Cancel(p, q)
        PROVE  FALSE
    BY <1>3, <2>1 DEF Expire, Submit, Cancel, rows
  <2>2. PICK a \in Account : StartBegin(p, a) \/ Disconnect(p, a)
    BY <1>4, <2>1 DEF Requests
  <2>3. row' = Moved(a, "authenticating", FALSE)
    BY <1>3, <2>2 DEF StartBegin, Disconnect, rows
  <2> QED
    BY <1>0, <2>3, MovedRow, StatusNames DEF RowType
<1>5. ASSUME NEW p \in Proc, Proceeds(p) PROVE row' \in RowType
  <2>1. PICK s \in {"active", "disconnecting", "disconnected"}, l \in BOOLEAN : row' = Moved(call[p].acct, s, l)
    <3>1. ~(\/ Prepare(p) \/ SendCode(p) \/ SendCodeFails(p) \/ Commit(p)
            \/ SignedIn(p) \/ NotSignedIn(p) \/ SignInAborts(p)
            \/ StopAccount(p) \/ Remove(p) \/ Revoke(p) \/ RevokeFails(p))
      BY <1>3 DEF Prepare, SendCode, SendCodeFails, Commit, SignedIn, NotSignedIn, SignInAborts,
         StopAccount, Remove, Revoke, RevokeFails, rows
    <3>2. CASE Finalize(p)
      BY <1>3, <3>2 DEF Finalize
    <3>3. CASE BeginAbort(p)
      BY <1>3, <3>3 DEF BeginAbort
    <3>4. CASE CompleteAbort(p) \/ MarkDisconnected(p)
      BY <1>3, <3>4 DEF CompleteAbort, MarkDisconnected, rows
    <3>5. CASE PersistIntent(p)
      BY <1>3, <3>5 DEF PersistIntent
    <3> QED
      BY <1>5, <3>1, <3>2, <3>3, <3>4, <3>5 DEF Proceeds
  <2>2. call[p].acct \in Account
    <3>1. call[p].at \in {"finalize", "abort", "complete", "mark", "intent"}
      <4>1. ~(\/ Prepare(p) \/ SendCode(p) \/ SendCodeFails(p) \/ Commit(p)
              \/ SignedIn(p) \/ NotSignedIn(p) \/ SignInAborts(p)
              \/ StopAccount(p) \/ Remove(p) \/ Revoke(p) \/ RevokeFails(p))
        BY <1>3 DEF Prepare, SendCode, SendCodeFails, Commit, SignedIn, NotSignedIn, SignInAborts,
           StopAccount, Remove, Revoke, RevokeFails, rows
      <4> QED
        BY <1>5, <4>1 DEF Proceeds, Finalize, BeginAbort, CompleteAbort, MarkDisconnected, PersistIntent
    <3> QED
      BY <3>1 DEF LifecycleInv, ProcInv, StageInv, AuthTarget, LocalTarget, IntentTarget
  <2>3. s \in Status
    BY <2>1, StatusNames
  <2> QED
    BY <1>0, <2>1, <2>2, <2>3, MovedRow DEF RowType
<1>6. ASSUME Main PROVE FALSE
  BY <1>3, <1>6, Zenon DEF Main, BootIntents, RecoverIntent, BootOrphans, RecoverOrphan, BootServes, BootLeavesOut,
     CloseAdmission, Snapshot, Sweep, StopRuntime, rows
<1>7. ASSUME Environment PROVE row' \in RowType
  <2>1. PICK a \in Account : RowDue(a)
    BY <1>3, <1>7, Zenon DEF Environment, Resolve, Use, StoreSession, Evict, ChallengeDue, StoneDue,
       ShutdownBegins, Dies, Restart, rows
  <2>2. row' = [row EXCEPT ![a] = [row[a] EXCEPT !.due = TRUE]]
    BY <2>1 DEF RowDue
  <2>3. [row[a] EXCEPT !.due = TRUE] \in [status : Status, version : Nat \ {0}, logout : BOOLEAN, due : BOOLEAN]
    <3>1. row[a] \in [status : Status, version : Nat \ {0}, logout : BOOLEAN, due : BOOLEAN]
      BY <1>0 DEF TypeOK
    <3> QED
      BY <3>1
  <2> QED
    BY <1>0, <2>2, <2>3 DEF TypeOK, RowType
<1>8. ~UNCHANGED vars
  BY <1>3 DEF vars
<1> QED
  BY <1>4, <1>5, <1>6, <1>7, <1>8 DEF Next

\* ... the accounts that are signed in, which only an authentication of a
\* version above the fence adds to, ...
LEMMA AuthorizedSteps ==
    ASSUME LifecycleInv, [Next]_vars
    PROVE  /\ authorized' \subseteq Account
           /\ \A a \in authorized' \ authorized :
                 \E u \in Nat : AuthTarget(a, u) /\ u > fence[a]
<1>0. authorized \subseteq Account
  BY DEF LifecycleInv, TypeOK
<1>1. SUFFICES ASSUME ~(authorized' \subseteq authorized)
               PROVE  \E p \in Proc :
                         /\ call[p].at = "signin"
                         /\ Admits(call[p].acct, call[p].ver)
                         /\ authorized' = authorized \cup {call[p].acct}
  <2>1. ASSUME NEW p \in Proc,
               call[p].at = "signin", Admits(call[p].acct, call[p].ver),
               authorized' = authorized \cup {call[p].acct}
        PROVE  /\ authorized' \subseteq Account
               /\ \A a \in authorized' \ authorized :
                    \E u \in Nat : AuthTarget(a, u) /\ u > fence[a]
    <3>1. AuthTarget(call[p].acct, call[p].ver)
      BY <2>1 DEF LifecycleInv, ProcInv, StageInv
    <3>2. call[p].acct \in Account /\ call[p].ver \in Nat
      BY <3>1 DEF AuthTarget
    <3> QED
      BY <1>0, <2>1, <3>1, <3>2 DEF Admits
  <2> QED
    BY <1>0, <1>1, <2>1
<1>2. ASSUME NEW p \in Proc, Requests(p) PROVE FALSE
  BY <1>1, <1>2, Zenon DEF Requests, StartBegin, Disconnect, Expire, Submit, Cancel
<1>3. ASSUME NEW p \in Proc, Proceeds(p)
      PROVE  SignedIn(p) \/ NotSignedIn(p)
  <2>1. ~(\/ Prepare(p) \/ SendCode(p) \/ SendCodeFails(p) \/ Commit(p) \/ SignInAborts(p) \/ Finalize(p)
          \/ BeginAbort(p) \/ StopAccount(p) \/ CompleteAbort(p) \/ Remove(p)
          \/ PersistIntent(p) \/ Revoke(p) \/ RevokeFails(p) \/ MarkDisconnected(p))
    BY <1>1 DEF Prepare, SendCode, SendCodeFails, Commit, SignInAborts, Finalize, BeginAbort, StopAccount,
       CompleteAbort, Remove, PersistIntent, Revoke, RevokeFails, MarkDisconnected
  <2> QED
    BY <1>3, <2>1 DEF Proceeds
<1>4. ASSUME Main PROVE FALSE
  BY <1>1, <1>4, Zenon DEF Main, BootIntents, RecoverIntent, BootOrphans, RecoverOrphan, BootServes, BootLeavesOut,
     CloseAdmission, Snapshot, Sweep, StopRuntime
<1>5. ASSUME Environment PROVE FALSE
  BY <1>1, <1>5, Zenon DEF Environment, Resolve, Use, StoreSession, Evict, RowDue, ChallengeDue, StoneDue,
     ShutdownBegins, Dies, Restart
<1>6. ~UNCHANGED vars
  BY <1>1 DEF vars
<1>7. PICK p \in Proc : SignedIn(p) \/ NotSignedIn(p)
  BY <1>2, <1>3, <1>4, <1>5, <1>6 DEF Next
<1> QED
  BY <1>1, <1>7 DEF SignedIn, NotSignedIn

\* Mutexes: taken by a request, kept, or given back when it returns.
LEMMA ReturnsUnlocks ==
    ASSUME TypeOK, NEW p, Returns(p)
    PROVE  lock' \in [Request -> Call \cup {None}] /\ gate' \in Call \cup {None}
<1>1. lock \in [Request -> Call \cup {None}] /\ gate \in Call \cup {None}
  BY DEF TypeOK
<1> QED
  BY <1>1 DEF Returns

\* (An abort that ends returns, or keeps its locks.)
LEMMA AbortReturns ==
    ASSUME NEW p, NEW ok, AbortEnds(p, ok)
    PROVE  Returns(p) \/ (lock' = lock /\ gate' = gate)
  BY Zenon DEF AbortEnds

\* ... locks, ...
LEMMA LockTypes ==
    ASSUME LifecycleInv, [Next]_vars
    PROVE  lock' \in [Request -> Call \cup {None}] /\ gate' \in Call \cup {None}
<1>0. TypeOK
  BY DEF LifecycleInv
<1>1. CASE lock' = lock /\ gate' \in {gate, None} \cup Call
  BY <1>0, <1>1 DEF TypeOK
<1>2. ASSUME NEW p, Returns(p) PROVE lock' \in [Request -> Call \cup {None}] /\ gate' \in Call \cup {None}
  BY <1>0, <1>2, ReturnsUnlocks
<1>3. ASSUME NEW p \in Proc, Requests(p)
      PROVE  lock' \in [Request -> Call \cup {None}] /\ gate' \in Call \cup {None}
  <2>1. ASSUME NEW q \in Request, Submit(p, q, "code") \/ Submit(p, q, "password") \/ Cancel(p, q)
        PROVE  lock' \in [Request -> Call \cup {None}] /\ gate' \in Call \cup {None}
    <3>1. p \in Call /\ lock' = [lock EXCEPT ![q] = p] /\ gate' = gate
      BY <2>1 DEF Submit, Cancel, Opens, Asks
    <3> QED
      BY <1>0, <3>1 DEF TypeOK
  <2>2. ASSUME NEW q \in Request, Expire(p, q) PROVE lock' = lock /\ gate' = gate
    BY <2>2 DEF Expire, memory
  <2>3. ASSUME NEW a \in Account, StartBegin(p, a) \/ Disconnect(p, a)
        PROVE  lock' = lock /\ gate' \in {gate} \cup Call
    BY <2>3 DEF StartBegin, Disconnect, Asks, memory
  <2> QED
    BY <1>1, <1>3, <2>1, <2>2, <2>3 DEF Requests
<1>4. ASSUME NEW p \in Proc, Proceeds(p)
      PROVE  Returns(p) \/ (lock' = lock /\ gate' \in {gate, None})
  <2>1. CASE Prepare(p) \/ SendCode(p) \/ SendCodeFails(p) \/ Commit(p)
    BY <2>1 DEF Prepare, SendCode, SendCodeFails, Commit, memory
  <2>2. CASE SignedIn(p) \/ NotSignedIn(p) \/ SignInAborts(p) \/ Finalize(p)
    BY <2>2 DEF SignedIn, NotSignedIn, SignInAborts, Finalize, memory
  <2>3. CASE BeginAbort(p) \/ StopAccount(p) \/ CompleteAbort(p) \/ Remove(p)
    BY <2>3, AbortReturns DEF BeginAbort, StopAccount, CompleteAbort, Remove
  <2>4. CASE PersistIntent(p) \/ Revoke(p) \/ RevokeFails(p) \/ MarkDisconnected(p)
    BY <2>4 DEF PersistIntent, Revoke, RevokeFails, MarkDisconnected, RevokePending, memory
  <2> QED
    BY <1>4, <2>1, <2>2, <2>3, <2>4 DEF Proceeds
<1>5. ASSUME Main PROVE lock' = lock /\ gate' = gate
  BY <1>5, Zenon DEF Main, BootIntents, RecoverIntent, BootOrphans, RecoverOrphan, BootServes, BootLeavesOut,
     CloseAdmission, Snapshot, Sweep, StopRuntime, memory
<1>6. ASSUME Environment
      PROVE  (lock' = lock /\ gate' = gate) \/ (lock' = [q \in Request |-> None] /\ gate' = None)
  BY <1>6, Zenon DEF Environment, Resolve, Use, StoreSession, Evict, RowDue, ChallengeDue, StoneDue,
     ShutdownBegins, Dies, Restart, memory
<1>7. CASE UNCHANGED vars
  BY <1>1, <1>7 DEF vars
<1> QED
  BY <1>1, <1>2, <1>3, <1>4, <1>5, <1>6, <1>7 DEF Next

\* Somebody has a target that a client may be opened for.
Busy ==
    \/ \E p \in Proc : call[p].at \in {"send", "signin"}
    \/ \E a \in Account : held[a] # 0

\* A client opens at a version that may have one, unless the registry stopped.
LEMMA ClientSteps ==
    ASSUME LifecycleInv, [Next]_vars
    PROVE  /\ client' \in [Account -> Nat]
           /\ \A a \in Account :
                 \/ client'[a] \in {0, client[a]}
                 \/ /\ ~runtimeStopped
                    /\ runtimeStopped' = runtimeStopped
                    /\ \/ row' = row /\ fence' = fence /\ ClientTarget(a, client'[a]) /\ Busy
                       \/ row' = row /\ fence'[a] = client'[a] /\ IntentTarget(a, client'[a])
<1>0. TypeOK
  BY DEF LifecycleInv
<1>1. client \in [Account -> Nat]
  BY <1>0 DEF TypeOK
<1> DEFINE Goal ==
           /\ client' \in [Account -> Nat]
           /\ \A a \in Account :
                 \/ client'[a] \in {0, client[a]}
                 \/ /\ ~runtimeStopped
                    /\ runtimeStopped' = runtimeStopped
                    /\ \/ row' = row /\ fence' = fence /\ ClientTarget(a, client'[a]) /\ Busy
                       \/ row' = row /\ fence'[a] = client'[a] /\ IntentTarget(a, client'[a])
<1>2. CASE client' = client
  BY <1>1, <1>2
<1>3. ASSUME NEW a \in Account, client' = WithClient(a, 0) PROVE Goal
  BY <1>1, <1>3 DEF WithClient
<1>4. ASSUME NEW a \in Account, NEW v \in Nat, client' = WithClient(a, v), ClientTarget(a, v),
             ~runtimeStopped, runtimeStopped' = runtimeStopped, row' = row, fence' = fence, Busy
      PROVE  Goal
  <2>1. client'[a] = v /\ \A b \in Account \ {a} : client'[b] = client[b]
    BY <1>1, <1>4 DEF WithClient
  <2>2. client' \in [Account -> Nat]
    BY <1>1, <1>4 DEF WithClient
  <2> QED
    BY <1>4, <2>1, <2>2
<1>5. ASSUME NEW a \in Account, NEW v \in Nat, client' = WithClient(a, v), IntentTarget(a, v),
             ~runtimeStopped, runtimeStopped' = runtimeStopped, row' = row, fence' = Raised(a, v)
      PROVE  Goal
  <2>1. client'[a] = v /\ \A b \in Account \ {a} : client'[b] = client[b]
    BY <1>1, <1>5 DEF WithClient
  <2>2. client' \in [Account -> Nat] /\ fence'[a] = v
    BY <1>0, <1>1, <1>5 DEF WithClient, Raised, TypeOK
  <2> QED
    BY <1>5, <2>1, <2>2
<1>6. CASE client' = [a \in Account |-> 0]
  BY <1>6
<1> HIDE DEF Goal
<1>7. ASSUME NEW p \in Proc, Requests(p) PROVE client' = client
  BY <1>7, Zenon DEF Requests, StartBegin, Disconnect, Expire, Submit, Cancel, runtime
<1>8. ASSUME NEW p \in Proc, Proceeds(p) PROVE Goal
  <2> DEFINE a == call[p].acct
             v == call[p].ver
  <2>1. CASE \/ Prepare(p) \/ Commit(p) \/ SignInAborts(p) \/ Finalize(p) \/ BeginAbort(p) \/ CompleteAbort(p)
             \/ Remove(p) \/ PersistIntent(p) \/ MarkDisconnected(p)
    <3>1. client' = client
      BY <2>1, Zenon DEF Prepare, Commit, SignInAborts, Finalize, BeginAbort, CompleteAbort, Remove,
         PersistIntent, MarkDisconnected, runtime
    <3> QED
      BY <1>2, <3>1 DEF Goal
  <2>2. CASE SendCode(p) \/ SendCodeFails(p) \/ SignedIn(p) \/ NotSignedIn(p)
    <3>1. \/ client' = client
          \/ /\ Admits(a, v) /\ client' = WithClient(a, v)
             /\ runtimeStopped' = runtimeStopped /\ row' = row /\ fence' = fence
      BY <2>2 DEF SendCode, SendCodeFails, SignedIn, NotSignedIn, rows
    <3>2. AuthTarget(a, v)
      BY <2>2 DEF LifecycleInv, ProcInv, StageInv, SendCode, SendCodeFails, SignedIn, NotSignedIn
    <3>3. a \in Account /\ v \in Nat /\ ClientTarget(a, v)
      BY <3>2, AuthIsClientTarget DEF AuthTarget
    <3>4. Busy
      BY <1>8, <2>2 DEF Busy, SendCode, SendCodeFails, SignedIn, NotSignedIn
    <3> HIDE DEF a, v
    <3> QED
      BY <1>2, <1>4, <3>1, <3>3, <3>4 DEF Admits, Goal
  <2>3. CASE StopAccount(p)
    <3>1. client' = client \/ client' = WithClient(a, 0)
      BY <2>3 DEF StopAccount
    <3>2. a \in Account
      BY <2>3 DEF LifecycleInv, ProcInv, StageInv, StopAccount, AuthTarget, LocalTarget
    <3> QED
      BY <1>2, <1>3, <3>1, <3>2 DEF Goal
  <2>4. CASE Revoke(p) \/ RevokeFails(p)
    <3>1. \/ client' = client
          \/ client' = WithClient(a, 0)
          \/ /\ ~runtimeStopped /\ client' = WithClient(a, v)
             /\ runtimeStopped' = runtimeStopped /\ row' = row /\ fence' = Raised(a, v)
      BY <2>4 DEF Revoke, RevokeFails, Revocable, rows
    <3>2. IntentTarget(a, v)
      BY <2>4 DEF LifecycleInv, ProcInv, StageInv, Revoke, RevokeFails
    <3>3. a \in Account /\ v \in Nat
      BY <3>2 DEF IntentTarget
    <3> HIDE DEF a, v
    <3> QED
      BY <1>2, <1>3, <1>5, <3>1, <3>2, <3>3 DEF Goal
  <2> QED
    BY <1>8, <2>1, <2>2, <2>3, <2>4 DEF Proceeds
<1>9. ASSUME Main PROVE client' = client \/ client' = [a \in Account |-> 0]
  BY <1>9, Zenon DEF Main, BootIntents, RecoverIntent, BootOrphans, RecoverOrphan, BootServes, BootLeavesOut,
     CloseAdmission, Snapshot, Sweep, StopRuntime, runtime
<1>10. ASSUME Environment PROVE Goal
  <2>1. ASSUME NEW a \in Account, Use(a) PROVE Goal
    <3> DEFINE v == held[a]
    <3>1. \/ client' = client
          \/ /\ Admits(a, v) /\ client' = WithClient(a, v)
             /\ runtimeStopped' = runtimeStopped /\ row' = row /\ fence' = fence
      BY <2>1 DEF Use, rows
    <3>2. v \in Nat /\ ClientTarget(a, v)
      BY <1>0, <2>1 DEF LifecycleInv, ClientOK, Use, TypeOK
    <3>3. Busy
      BY <2>1 DEF Busy, Use
    <3> HIDE DEF v
    <3> QED
      BY <1>2, <1>4, <2>1, <3>1, <3>2, <3>3 DEF Admits, Goal
  <2>2. ASSUME NEW a \in Account, Evict(a) PROVE Goal
    BY <1>3, <2>2 DEF Evict
  <2>3. \/ \E a \in Account : Use(a) \/ Evict(a)
        \/ client' = client
        \/ client' = [a \in Account |-> 0]
    BY <1>10, Zenon DEF Environment, Resolve, StoreSession, RowDue, ChallengeDue, StoneDue,
       ShutdownBegins, Dies, Restart, runtime
  <2> QED
    BY <1>2, <1>6, <2>1, <2>2, <2>3 DEF Goal
<1>11. CASE UNCHANGED vars
  BY <1>2, <1>11 DEF vars, Goal
<1>12. Goal
  BY <1>2, <1>6, <1>7, <1>8, <1>9, <1>10, <1>11 DEF Next, Goal
<1> QED
  BY <1>12 DEF Goal

\* A background job reads its target from an active account.
LEMMA HeldSteps ==
    ASSUME LifecycleInv, [Next]_vars
    PROVE  /\ held' \in [Account -> Nat]
           /\ \A a \in Account :
                 \/ held'[a] \in {0, held[a]}
                 \/ /\ row' = row /\ held'[a] = row[a].version /\ row[a].status = "active"
                    /\ up \notin {"starting", "down"}
<1>0. held \in [Account -> Nat] /\ \A a \in Account : row[a].version \in Nat
  BY DEF LifecycleInv, TypeOK
<1>1. ASSUME NEW p \in Proc, Requests(p) PROVE held' = held
  BY <1>1, Zenon DEF Requests, StartBegin, Disconnect, Expire, Submit, Cancel, runtime
<1>2. ASSUME NEW p \in Proc, Proceeds(p) PROVE held' = held
  BY <1>2, Zenon DEF Proceeds, Prepare, SendCode, SendCodeFails, Commit, SignedIn, NotSignedIn, SignInAborts,
     Finalize, BeginAbort, StopAccount, CompleteAbort, Remove, PersistIntent, Revoke, RevokeFails,
     MarkDisconnected, runtime
<1>3. ASSUME Main PROVE held' = held
  BY <1>3, Zenon DEF Main, BootIntents, RecoverIntent, BootOrphans, RecoverOrphan, BootServes, BootLeavesOut,
     CloseAdmission, Snapshot, Sweep, StopRuntime, runtime
<1>4. ASSUME Environment
      PROVE  \/ held' = held
             \/ held' = [a \in Account |-> 0]
             \/ \E a \in Account :
                   \/ held' = [held EXCEPT ![a] = 0]
                   \/ /\ held' = [held EXCEPT ![a] = row[a].version]
                      /\ row' = row /\ row[a].status = "active"
                      /\ up \in {"serving", "unrouted", "stopping"}
  BY <1>4, Zenon DEF Environment, Resolve, Use, StoreSession, Evict, RowDue, ChallengeDue, StoneDue,
     ShutdownBegins, Dies, Restart, runtime, rows
<1>5. \/ held' = held
      \/ held' = [a \in Account |-> 0]
      \/ \E a \in Account :
            \/ held' = [held EXCEPT ![a] = 0]
            \/ /\ held' = [held EXCEPT ![a] = row[a].version]
               /\ row' = row /\ row[a].status = "active"
               /\ up \in {"serving", "unrouted", "stopping"}
  BY <1>1, <1>2, <1>3, <1>4 DEF Next, vars
<1>6. CASE held' = held \/ held' = [a \in Account |-> 0]
  BY <1>0, <1>6
<1>7. ASSUME NEW a \in Account, held' = [held EXCEPT ![a] = 0]
      PROVE  held' \in [Account -> Nat] /\ \A b \in Account : held'[b] \in {0, held[b]}
  BY <1>0, <1>7
<1>8. ASSUME NEW a \in Account, held' = [held EXCEPT ![a] = row[a].version]
      PROVE  /\ held' \in [Account -> Nat] /\ held'[a] = row[a].version
             /\ \A b \in Account \ {a} : held'[b] = held[b]
  BY <1>0, <1>8
<1> QED
  BY <1>5, <1>6, <1>7, <1>8

\* ... the runtime, which has no clients once it is stopped, ...
LEMMA StoppedSteps ==
    ASSUME LifecycleInv, [Next]_vars
    PROVE  /\ runtimeStopped' \in BOOLEAN
           /\ runtimeStopped' => runtimeStopped \/ client' = [a \in Account |-> 0]
<1>0. runtimeStopped \in BOOLEAN
  BY DEF LifecycleInv, TypeOK
<1>1. ASSUME NEW p \in Proc, Requests(p) PROVE runtimeStopped' = runtimeStopped
  BY <1>1, Zenon DEF Requests, StartBegin, Disconnect, Expire, Submit, Cancel, runtime
<1>2. ASSUME NEW p \in Proc, Proceeds(p) PROVE runtimeStopped' = runtimeStopped
  BY <1>2, Zenon DEF Proceeds, Prepare, SendCode, SendCodeFails, Commit, SignedIn, NotSignedIn, SignInAborts,
     Finalize, BeginAbort, StopAccount, CompleteAbort, Remove, PersistIntent, Revoke, RevokeFails,
     MarkDisconnected, runtime
<1>3. ASSUME Main
      PROVE  runtimeStopped' = runtimeStopped \/ (runtimeStopped' = TRUE /\ client' = [a \in Account |-> 0])
  BY <1>3, Zenon DEF Main, BootIntents, RecoverIntent, BootOrphans, RecoverOrphan, BootServes, BootLeavesOut,
     CloseAdmission, Snapshot, Sweep, StopRuntime, runtime
<1>4. ASSUME Environment PROVE runtimeStopped' = runtimeStopped \/ runtimeStopped' = FALSE
  BY <1>4, Zenon DEF Environment, Resolve, Use, StoreSession, Evict, RowDue, ChallengeDue, StoneDue,
     ShutdownBegins, Dies, Restart, runtime
<1>5. \/ runtimeStopped' = runtimeStopped
      \/ runtimeStopped' = TRUE /\ client' = [a \in Account |-> 0]
      \/ runtimeStopped' = FALSE
  BY <1>1, <1>2, <1>3, <1>4, Zenon DEF Next, vars
<1>6. CASE runtimeStopped' = runtimeStopped
  BY <1>0, <1>6
<1>7. CASE runtimeStopped' = TRUE /\ client' = [a \in Account |-> 0]
  BY <1>7
<1>8. CASE runtimeStopped' = FALSE
  BY <1>8
<1> QED
  BY <1>5, <1>6, <1>7, <1>8

\* ... admission, ...
LEMMA ClosedTypes ==
    ASSUME LifecycleInv, [Next]_vars
    PROVE  closed' \in BOOLEAN
<1>0. closed \in BOOLEAN
  BY DEF LifecycleInv, TypeOK
<1>1. ASSUME NEW p \in Proc, Requests(p) PROVE closed' = closed
  BY <1>1, Zenon DEF Requests, StartBegin, Disconnect, Expire, Submit, Cancel, memory
<1>2. ASSUME NEW p \in Proc, Proceeds(p) PROVE closed' = closed
  BY <1>2, Zenon DEF Proceeds, Prepare, SendCode, SendCodeFails, Commit, SignedIn, NotSignedIn, SignInAborts,
     Finalize, BeginAbort, StopAccount, CompleteAbort, Remove, PersistIntent, Revoke, RevokeFails,
     MarkDisconnected, memory
<1>3. ASSUME Main PROVE closed' = closed \/ closed' = TRUE
  BY <1>3, Zenon DEF Main, BootIntents, RecoverIntent, BootOrphans, RecoverOrphan, BootServes, BootLeavesOut,
     CloseAdmission, Snapshot, Sweep, StopRuntime, memory
<1>4. ASSUME Environment PROVE closed' = closed \/ closed' = FALSE
  BY <1>4, Zenon DEF Environment, Resolve, Use, StoreSession, Evict, RowDue, ChallengeDue, StoneDue,
     ShutdownBegins, Dies, Restart, memory
<1> QED
  BY <1>0, <1>1, <1>2, <1>3, <1>4 DEF Next, vars

\* ... the process itself, ...
LEMMA ProcessTypes ==
    ASSUME LifecycleInv, [Next]_vars
    PROVE  /\ todo' \subseteq Account \/ todo' \subseteq Request
           /\ up' \in {"starting", "serving", "unrouted", "stopping", "down"}
           /\ crashes' \in 0 .. MaxCrashes
<1>0. /\ todo \subseteq Account \/ todo \subseteq Request
      /\ up \in {"starting", "serving", "unrouted", "stopping", "down"}
      /\ crashes \in 0 .. MaxCrashes /\ MaxCrashes \in Nat
  BY LifecycleAssumption DEF LifecycleInv, TypeOK
<1>1. ASSUME NEW p \in Proc, Requests(p) PROVE todo' = todo /\ up' = up /\ crashes' = crashes
  BY <1>1, Zenon DEF Requests, StartBegin, Disconnect, Expire, Submit, Cancel, process
<1>2. ASSUME NEW p \in Proc, Proceeds(p) PROVE todo' = todo /\ up' = up /\ crashes' = crashes
  BY <1>2, Zenon DEF Proceeds, Prepare, SendCode, SendCodeFails, Commit, SignedIn, NotSignedIn, SignInAborts,
     Finalize, BeginAbort, StopAccount, CompleteAbort, Remove, PersistIntent, Revoke, RevokeFails,
     MarkDisconnected, process
<1>3. ASSUME Main
      PROVE  /\ \/ todo' = todo \/ todo' = Intents \/ todo' = Orphans \/ todo' = Live \/ todo' = {}
                \/ \E x \in todo : todo' = todo \ {x}
             /\ up' = up \/ up' = "serving" \/ up' = "unrouted"
             /\ crashes' = crashes
  BY <1>3, Zenon DEF Main, BootIntents, RecoverIntent, BootOrphans, RecoverOrphan, BootServes, BootLeavesOut,
     CloseAdmission, Snapshot, Sweep, StopRuntime, process
<1>4. ASSUME Environment
      PROVE  /\ todo' = todo \/ todo' = {}
             /\ up' = up \/ up' = "stopping" \/ up' = "down" \/ up' = "starting"
             /\ crashes' = crashes \/ (crashes < MaxCrashes /\ crashes' = crashes + 1)
  BY <1>4, Zenon DEF Environment, Resolve, Use, StoreSession, Evict, RowDue, ChallengeDue, StoneDue,
     ShutdownBegins, Dies, Restart, process
<1>5. CASE UNCHANGED vars
  BY <1>0, <1>5 DEF vars
<1>6. Intents \subseteq Account /\ Orphans \subseteq Account /\ Live \subseteq Request
  BY DEF Intents, Orphans, Live
<1>7. CASE Main
  BY <1>0, <1>3, <1>6, <1>7
<1>8. CASE Environment
  BY <1>0, <1>4, <1>8
<1> QED
  BY <1>0, <1>1, <1>2, <1>5, <1>7, <1>8 DEF Next

\* ... and what a death leaves.
LEMMA DeathTypes ==
    ASSUME LifecycleInv, Dies
    PROVE  challenge' \in [Request -> ChallengeRecord] /\ fence' \in [Account -> Nat]
<1>1. challenge \in [Request -> ChallengeRecord]
  BY ChallengeTypes DEF LifecycleInv
<1>2. [NoChallenge EXCEPT !.state = "gone"] \in ChallengeRecord
  <2> DEFINE c == [NoChallenge EXCEPT !.state = "gone"]
  <2>1. 0 \in 0 .. MaxAttempts /\ FALSE \in BOOLEAN
    BY LifecycleAssumption
  <2>2. c = [state |-> "gone", acct |-> None, ver |-> 0, stage |-> "code", ready |-> FALSE,
             pending |-> FALSE, due |-> FALSE, codes |-> 0, passwords |-> 0]
    <3>1. c = [NoChallenge EXCEPT !.state = "gone"]
      OBVIOUS
    <3> HIDE DEF c
    <3> QED
      BY <3>1 DEF NoChallenge
  <2> HIDE DEF c
  <2>3. c \in ChallengeRecord
    BY <2>1, <2>2 DEF ChallengeRecord
  <2> QED
    BY <2>3 DEF c
<1> DEFINE gone == [NoChallenge EXCEPT !.state = "gone"]
<1>3. challenge' = [q \in Request |-> IF challenge[q].state = "free" THEN challenge[q] ELSE gone]
      /\ fence' = [a \in Account |-> 0]
  BY DEF Dies
<1>4. gone \in ChallengeRecord
  BY <1>2
<1> HIDE DEF gone
<1> QED
  BY <1>1, <1>3, <1>4

\* Every step keeps the types.
LEMMA TypeSteps ==
    ASSUME LifecycleInv, [Next]_vars
    PROVE  TypeOK'
<1>1. challenge' \in [Request -> ChallengeRecord] /\ fence' \in [Account -> Nat]
  BY ChallengeSteps, FenceSteps, DeathTypes DEF ChallengesMove
<1> QED
  BY <1>1, RowTypes, AuthorizedSteps, LockTypes, ClosedTypes, ClientSteps, StoppedSteps, HeldSteps, ProcessTypes
     DEF TypeOK, RowType, ChallengeRecord

\* What a step does to the state that the goroutines share, while the process lives.
Living ==
    /\ LifecycleInv
    /\ TypeOK'
    /\ \A a \in Account : Moves(a)
    /\ FencesGrow
    /\ ChallengesMove
    /\ \A a \in authorized' \ authorized : \E u \in Nat : AuthTarget(a, u) /\ u > fence[a]

\* A step other than a death is a living one.
LEMMA LivingSteps ==
    ASSUME LifecycleInv, [Next]_vars, ~Dies
    PROVE  Living
  BY TypeSteps, EveryoneMoves, FenceSteps, ChallengeSteps, AuthorizedSteps DEF Living

-----------------------------------------------------------------------------
(* Challenges, clients and statuses keep their part of the invariant.      *)

\* A living step keeps what is said of the challenges, ...
LEMMA ChallengesKeep ==
    ASSUME Living, NEW q \in Request
    PROVE  ChallengeOK(q)'
<1>0. TypeOK /\ TypeOK' /\ ChallengeOK(q) /\ ChallengeMoves(q)
  BY DEF Living, LifecycleInv, ChallengesMove
<1>1. PICK a, v : a = challenge'[q].acct /\ v = challenge'[q].ver
  OBVIOUS
<1>2. CASE ChallengeBegins(q)
  <2>1. AuthTarget(a, v)
    BY <1>1, <1>2 DEF ChallengeBegins
  <2>2. Moves(a) /\ FencesGrow
    BY <2>1 DEF Living, AuthTarget
  <2>3. AuthTarget(a, v)'
    BY <1>0, <2>1, <2>2, AuthTargetStable
  <2>4. a # None
    BY <2>1, LifecycleAssumption DEF AuthTarget
  <2> QED
    BY <1>1, <1>2, <2>3, <2>4 DEF ChallengeOK, ChallengeBegins
<1>3. CASE ChallengeStays(q) \/ ChallengeEnds(q)
  <2>1. a = challenge[q].acct /\ v = challenge[q].ver
    BY <1>1, <1>3 DEF ChallengeStays, ChallengeEnds
  <2>2. CASE a = None
    BY <1>0, <1>1, <1>3, <2>1, <2>2 DEF ChallengeOK, ChallengeStays, ChallengeEnds
  <2>3. CASE a # None
    <3>1. AuthTarget(a, v)
      BY <1>0, <2>1, <2>3 DEF ChallengeOK
    <3>2. Moves(a) /\ FencesGrow
      BY <3>1 DEF Living, AuthTarget
    <3>3. AuthTarget(a, v)'
      BY <1>0, <3>1, <3>2, AuthTargetStable
    <3>4. /\ a \in Account /\ v \in Nat /\ row[a].version \in Nat /\ row'[a].version \in Nat
          /\ row[a].status \in Status /\ row'[a].status \in Status
          /\ row[a].logout \in BOOLEAN /\ row'[a].logout \in BOOLEAN
      BY <1>0, <3>1 DEF AuthTarget, TypeOK
    <3>5. /\ challenge'[q].state = "free" => challenge'[q].acct = None
          /\ challenge'[q].state \in {"live", "completed", "aborted"} => challenge'[q].acct # None
      BY <1>0, <1>1, <1>3, <2>1, <2>3 DEF ChallengeOK, ChallengeStays, ChallengeEnds
    <3>6. challenge'[q].state = "completed" =>
              /\ row'[a].version > v
              /\ row'[a].version = v + 1 => row'[a].status = "active"
              /\ row'[a].version = v + 2 => row'[a].logout
      <4>1. CASE ChallengeEnds(q)
        BY <2>1, <3>4, <4>1 DEF ChallengeEnds
      <4>2. CASE ChallengeStays(q)
        <5>1. SUFFICES ASSUME challenge[q].state = "completed"
                       PROVE  /\ row'[a].version > v
                              /\ row'[a].version = v + 1 => row'[a].status = "active"
                              /\ row'[a].version = v + 2 => row'[a].logout
          BY <4>2 DEF ChallengeStays
        <5>2. /\ row[a].version > v
              /\ row[a].version = v + 1 => row[a].status = "active"
              /\ row[a].version = v + 2 => row[a].logout
          BY <1>0, <2>1, <5>1 DEF ChallengeOK
        <5> QED
          BY <3>2, <3>4, <5>2 DEF Moves, Stays, Intended, Disconnected, Opened, Activated, Aborted
      <4> QED
        BY <1>3, <4>1, <4>2
    <3>7. challenge'[q].state = "aborted" =>
              /\ row'[a].version >= v + 2
              /\ row'[a].version = v + 2 => row'[a].status = "disconnected"
      <4>1. CASE ChallengeEnds(q)
        BY <2>1, <3>4, <4>1 DEF ChallengeEnds
      <4>2. CASE ChallengeStays(q)
        <5>1. SUFFICES ASSUME challenge[q].state = "aborted"
                       PROVE  /\ row'[a].version >= v + 2
                              /\ row'[a].version = v + 2 => row'[a].status = "disconnected"
          BY <4>2 DEF ChallengeStays
        <5>2. /\ row[a].version >= v + 2
              /\ row[a].version = v + 2 => row[a].status = "disconnected"
          BY <1>0, <2>1, <5>1 DEF ChallengeOK
        <5> QED
          BY <3>2, <3>4, <5>2 DEF Moves, Stays
      <4> QED
        BY <1>3, <4>1, <4>2
    <3> QED
      BY <1>1, <3>3, <3>5, <3>6, <3>7 DEF ChallengeOK
  <2> QED
    BY <2>2, <2>3
<1> QED
  BY <1>0, <1>2, <1>3 DEF ChallengeMoves

\* ... the clients, ...
LEMMA ClientsKeep ==
    ASSUME Living, [Next]_vars, NEW a \in Account
    PROVE  ClientOK(a)'
<1>0. TypeOK /\ TypeOK' /\ ClientOK(a) /\ Moves(a) /\ FencesGrow /\ LifecycleInv
  BY DEF Living, LifecycleInv
<1>1. PICK c, h : c = client'[a] /\ h = held'[a]
  OBVIOUS
<1>2. c \in Nat /\ h \in Nat /\ client[a] \in Nat /\ held[a] \in Nat
  BY <1>0, <1>1 DEF TypeOK
<1>3. ASSUME c # 0 PROVE ClientTarget(a, c)'
  <2>1. CASE c \in {0, client[a]}
    BY <1>0, <1>2, <1>3, <2>1, ClientTargetStable DEF ClientOK
  <2>2. CASE row' = row /\ fence' = fence /\ ClientTarget(a, c)
    BY <1>0, <1>2, <2>2, ClientTargetStable
  <2>3. CASE row' = row /\ fence'[a] = c /\ IntentTarget(a, c)
    BY <1>2, <2>3 DEF IntentTarget, ClientTarget, Passed, Earlier
  <2> QED
    BY <1>0, <1>1, <2>1, <2>2, <2>3, ClientSteps
<1>4. ASSUME runtimeStopped' PROVE c = 0
  BY <1>0, <1>1, <1>4, ClientSteps, StoppedSteps DEF ClientOK
<1>5. ASSUME h # 0 PROVE ClientTarget(a, h)'
  <2>1. CASE h \in {0, held[a]}
    BY <1>0, <1>2, <1>5, <2>1, ClientTargetStable DEF ClientOK
  <2>2. CASE row' = row /\ h = row[a].version /\ row[a].status = "active"
    <3>1. ClientTarget(a, h)
      BY <1>2, <2>2 DEF ClientTarget, Passed, Earlier
    <3> QED
      BY <1>0, <1>2, <3>1, ClientTargetStable
  <2> QED
    BY <1>0, <1>1, <2>1, <2>2, HeldSteps
<1> QED
  BY <1>1, <1>3, <1>4, <1>5 DEF ClientOK

\* ... and the stored sessions.
LEMMA StatusesKeep ==
    ASSUME LifecycleInv, TypeOK', \A a \in Account : Moves(a)
    PROVE  SessionsFollowStatus'
<1>1. SUFFICES ASSUME NEW a \in Account
               PROVE  /\ row'[a].status = "active" => a \in session'
                      /\ row'[a].status \in {"none", "disconnected"} => a \notin session'
                      /\ row'[a].logout => row'[a].status = "disconnecting"
  BY DEF SessionsFollowStatus
<1>2. /\ row[a].status = "active" => a \in session
      /\ row[a].status \in {"none", "disconnected"} => a \notin session
      /\ row[a].logout => row[a].status = "disconnecting"
      /\ row[a].logout \in BOOLEAN /\ row'[a].logout \in BOOLEAN
  BY DEF LifecycleInv, SessionsFollowStatus, TypeOK
<1>3. Moves(a)
  OBVIOUS
<1>4. CASE Stays(a)
  BY <1>2, <1>4 DEF Stays
<1>5. CASE ~Stays(a)
  BY <1>2, <1>3, <1>5 DEF Moves, Disconnected, Opened, Activated, Aborted, Intended
<1> QED
  BY <1>4, <1>5

-----------------------------------------------------------------------------
(* What a goroutine relies on survives the steps of the others.            *)

\* What the type of a call record does not say of it.
Typed(p) ==
    /\ call[p].at = "send" \/ call[p].then \in {"tombstone", "remove", "swept"} => call[p].req # 0
    /\ call[p].then = "completed" => call[p].at \in {"stop", "complete"}
    /\ p \in Call =>
          /\ call[p].at \in RequestStage
          /\ call[p].then \in {"none", "tombstone", "remove"}
          /\ call[p].at = "remove" => call[p].then = "remove"

\* It also keeps what calls rely on: an authentication, ...
LEMMA AuthKept ==
    ASSUME Living, NEW a, NEW v, AuthTarget(a, v)
    PROVE  AuthTarget(a, v)'
<1>1. a \in Account
  BY DEF AuthTarget
<1> QED
  BY <1>1, AuthTargetStable DEF Living, LifecycleInv

\* ... the logout of an intent, ...
LEMMA IntentKept ==
    ASSUME Living, NEW a, NEW v, IntentTarget(a, v)
    PROVE  IntentTarget(a, v)'
<1>1. a \in Account
  BY DEF IntentTarget
<1> QED
  BY <1>1, IntentTargetStable DEF Living, LifecycleInv

\* ... a local disconnection, ...
LEMMA LocalKept ==
    ASSUME Living, NEW a, NEW v, LocalTarget(a, v)
    PROVE  LocalTarget(a, v)'
<1>1. a \in Account
  BY DEF LocalTarget
<1> QED
  BY <1>1, LocalTargetStable DEF Living, LifecycleInv

\* A challenge that was reserved keeps its target.
LEMMA ReservedKept ==
    ASSUME Living, NEW q \in Request, challenge[q].acct # None
    PROVE  challenge'[q].acct = challenge[q].acct /\ challenge'[q].ver = challenge[q].ver
<1>1. ChallengeOK(q) /\ ChallengeMoves(q)
  BY DEF Living, LifecycleInv, ChallengesMove
<1>2. challenge[q].state # "free"
  BY <1>1 DEF ChallengeOK
<1> QED
  BY <1>1, <1>2 DEF ChallengeMoves, ChallengeStays, ChallengeEnds, ChallengeBegins

\* The stored session stays logged out while the account has the intent.
LEMMA LoggedOutKept ==
    ASSUME Living, NEW a \in Account, NEW v \in Nat, IntentTarget(a, v), v <= fence[a],
           row[a].version = v => a \notin authorized,
           row'[a].version = v
    PROVE  a \notin authorized'
<1>1. /\ row[a].version \in Nat /\ row'[a].version \in Nat /\ fence[a] \in Nat
      /\ Moves(a)
  BY DEF Living, LifecycleInv, TypeOK
<1>2. row[a].version = v
  BY <1>1 DEF Moves, Stays, IntentTarget
<1>3. ASSUME a \in authorized' PROVE FALSE
  <2>1. PICK u \in Nat : AuthTarget(a, u) /\ u > fence[a]
    BY <1>2, <1>3 DEF Living
  <2>2. u <= v
    BY <1>2, <2>1 DEF AuthTarget
  <2> QED
    BY <1>1, <2>1, <2>2
<1> QED
  BY <1>3

\* ... and a fence that was raised.
LEMMA FenceKept ==
    ASSUME Living, NEW a \in Account, NEW v \in Nat
    PROVE  /\ v <= fence[a] => v <= fence'[a]
           /\ runtimeStopped => runtimeStopped'
  BY DEF Living, LifecycleInv, TypeOK, FencesGrow

\* A call that does not act in a living step keeps its invariant.
LEMMA UntouchedKeeps ==
    ASSUME Living, NEW p \in Proc, call'[p] = call[p], gate = p => gate' = gate
    PROVE  ProcInv(p)'
<1> DEFINE c == call[p]
<1>0. ProcInv(p) /\ call[p] \in CallRecord
  BY DEF Living, LifecycleInv, CallTypes
<1>1. Matches(p)'
  <2>1. ASSUME c.req # 0
        PROVE  challenge'[c.req].acct = c.acct /\ challenge'[c.req].ver = c.ver /\ c.acct # None
    <3>1. c.req \in Request
      BY <1>0, <2>1 DEF CallRecord
    <3> QED
      BY <1>0, <2>1, <3>1, ReservedKept DEF ProcInv, Matches
  <2> QED
    BY <2>1 DEF Matches
<1>2. OwnInv(p)'
  <2>1. ASSUME c.own # <<>> PROVE AuthTarget(c.own[1], c.own[2])'
    BY <1>0, <2>1, AuthKept DEF ProcInv, OwnInv
  <2> QED
    BY <2>1 DEF OwnInv
<1>3. StageInv(p)'
  <2> DEFINE a == call[p].acct
             v == call[p].ver
  <2>0. StageInv(p)
    BY <1>0 DEF ProcInv
  <2>1. ASSUME c.at \in {"prepare", "send", "commit", "signin", "finalize", "abort"}
        PROVE  AuthTarget(a, v)'
    BY <2>0, <2>1, AuthKept DEF StageInv
  <2>2. ASSUME c.at \in {"stop", "complete"}
        PROVE  IF c.then = "completed" THEN LocalTarget(a, v)' ELSE AuthTarget(a, v)'
    BY <2>0, <2>2, AuthKept, LocalKept DEF StageInv
  <2>3. ASSUME c.at = "complete" PROVE v <= fence'[a] \/ runtimeStopped'
    <3>1. a \in Account /\ v \in Nat
      BY <2>0, <2>3 DEF StageInv, AuthTarget, LocalTarget
    <3> QED
      BY <2>0, <2>3, <3>1, FenceKept DEF StageInv
  <2>4. c.at = "intent" => a \in Account
    BY <2>0 DEF StageInv
  <2>5. ASSUME c.at \in {"revoke", "mark"} PROVE IntentTarget(a, v)'
    BY <2>0, <2>5, IntentKept DEF StageInv
  <2>6. ASSUME c.at = "mark"
        PROVE  v <= fence'[a] /\ (row'[a].version = v => a \notin authorized')
    <3>1. /\ IntentTarget(a, v) /\ a \in Account /\ v \in Nat
          /\ v <= fence[a] /\ (row[a].version = v => a \notin authorized)
      BY <2>0, <2>6 DEF StageInv, IntentTarget
    <3> QED
      BY <3>1, FenceKept, LoggedOutKept
  <2>7. ASSUME c.at = "prepare" PROVE gate' = p /\ \E q \in Request : challenge'[q].state = "free"
    <3>1. gate = p /\ gate' = p
      BY <2>0, <2>7 DEF StageInv
    <3>2. PICK q \in Request : challenge[q].state = "free"
      BY <2>0, <2>7 DEF StageInv
    <3>3. ChallengeMoves(q)
      BY DEF Living, ChallengesMove
    <3> QED
      BY <3>1, <3>2, <3>3 DEF ChallengeMoves, ChallengeStays, ChallengeEnds, ChallengeBegins
  <2> QED
    BY <2>1, <2>2, <2>3, <2>4, <2>5, <2>6, <2>7 DEF StageInv
<1> QED
  BY <1>1, <1>2, <1>3 DEF ProcInv

-----------------------------------------------------------------------------
(* What the goroutine that acts may rely on next.                          *)

Acted(p) ==
    /\ call' \in [Proc -> CallRecord]
    /\ Others(p)
    /\ Typed(p)'
    /\ ProcInv(p)'
    /\ gate \notin {None, p} => gate' = gate

\* If the call that acts keeps its own, all calls keep theirs.
LEMMA ActedKeeps ==
    ASSUME Living, NEW p \in Proc, Acted(p)
    PROVE  CallTypes' /\ \A q \in Proc : ProcInv(q)'
<1>1. \A q \in Proc : Typed(q)'
  <2>1. \A q \in Proc \ {p} : call'[q] = call[q]
    BY DEF Acted, Others
  <2>2. \A q \in Proc : Typed(q)
    BY DEF Living, LifecycleInv, CallTypes, Typed, Proc
  <2>3. \A q \in Proc \ {p} : Typed(q)'
    BY <2>1, <2>2 DEF Typed
  <2> QED
    BY <2>3 DEF Acted
<1>2. CallTypes'
  BY <1>1 DEF Acted, CallTypes, Typed, Proc
<1>3. ASSUME NEW q \in Proc \ {p} PROVE ProcInv(q)'
  <2>1. None \notin Proc
    BY LifecycleAssumption DEF Proc
  <2>2. call'[q] = call[q] /\ (gate = q => gate' = gate)
    BY <1>3, <2>1 DEF Acted, Others
  <2> QED
    BY <2>2, UntouchedKeeps
<1> QED
  BY <1>2, <1>3 DEF Acted

\* A step of none of the goroutines.
LEMMA NobodyKeeps ==
    ASSUME Living, call' = call, gate' = gate
    PROVE  CallTypes' /\ \A p \in Proc : ProcInv(p)'
<1>1. CallTypes'
  BY DEF Living, LifecycleInv, CallTypes
<1>2. ASSUME NEW p \in Proc PROVE ProcInv(p)'
  BY UntouchedKeeps
<1> QED
  BY <1>1, <1>2

\* What is known of the call that acts.
LEMMA CallFacts ==
    ASSUME Living, NEW p \in Proc
    PROVE  /\ call \in [Proc -> CallRecord]
           /\ call[p] \in CallRecord
           /\ Typed(p)
           /\ ProcInv(p)
  BY DEF Living, LifecycleInv, CallTypes, Typed, Proc

\* A call that is over relies on nothing.
LEMMA OverActs ==
    ASSUME Living, NEW p \in Proc, call' \in [Proc -> CallRecord], Others(p), Over(call'[p]),
           gate \notin {None, p} => gate' = gate
    PROVE  Acted(p)
<1>1. Typed(p)'
  BY DEF Typed, Over, RequestStage
<1>2. Matches(p)' /\ OwnInv(p)' /\ StageInv(p)'
  BY DEF Matches, OwnInv, StageInv, Over
<1> QED
  BY <1>1, <1>2 DEF Acted, ProcInv

\* The call that acts keeps its invariant: when it returns, ...
LEMMA ReturnsActs ==
    ASSUME Living, NEW p \in Proc, Returns(p)
    PROVE  Acted(p)
<1>1. gate \notin {None, p} => gate' = gate
  BY DEF Returns
<1> QED
  BY <1>1, CallFacts, ReturnsCall, OverActs

\* Work on a target that is an authentication.
LEMMA AuthActs ==
    ASSUME Living, NEW p \in Proc, NEW s \in {"send", "signin", "finalize", "abort"},
           NEW a, NEW v, NEW q \in Request \cup {0}, NEW t \in Then \ {"completed"}, NEW o \in Own,
           Takes(p, s, a, v, q, t, o),
           AuthTarget(a, v)',
           q # 0 => challenge'[q].acct = a /\ challenge'[q].ver = v,
           s = "send" \/ t \in {"tombstone", "remove", "swept"} => q # 0,
           p \in Call => t \in {"none", "tombstone", "remove"},
           o # <<>> => AuthTarget(o[1], o[2])',
           gate \notin {None, p} => gate' = gate
    PROVE  Acted(p)
<1>1. a \in Account /\ a # None /\ v \in Nat
  BY LifecycleAssumption DEF AuthTarget
<1>2. s \in RequestStage
  BY DEF RequestStage
<1>3. /\ call' \in [Proc -> CallRecord]
      /\ Others(p)
      /\ call'[p].at = s
      /\ call'[p].acct = a
      /\ call'[p].ver = v
      /\ call'[p].req = q
      /\ call'[p].then = t
      /\ call'[p].own = o
  BY <1>1, <1>2, CallFacts, TakesCall
<1>4. Typed(p)'
  BY <1>2, <1>3 DEF Typed
<1>5. Matches(p)' /\ OwnInv(p)'
  BY <1>1, <1>3 DEF Matches, OwnInv
<1>6. StageInv(p)'
  BY <1>3 DEF StageInv
<1> QED
  BY <1>3, <1>4, <1>5, <1>6 DEF Acted, ProcInv

\* Work on a target of no challenge.
LEMMA IntentActs ==
    ASSUME Living, NEW p \in Proc, NEW a, NEW v,
           Takes(p, "revoke", a, v, 0, "none", <<>>), IntentTarget(a, v)',
           gate \notin {None, p} => gate' = gate
    PROVE  Acted(p)
<1>1. a \in Account /\ v \in Nat
  BY DEF IntentTarget
<1>3. /\ call' \in [Proc -> CallRecord]
      /\ Others(p)
      /\ call'[p].at = "revoke"
      /\ call'[p].acct = a
      /\ call'[p].ver = v
      /\ call'[p].req = 0
      /\ call'[p].then = "none"
      /\ call'[p].own = <<>>
  BY <1>1, CallFacts, TakesCall DEF RequestStage, Then, Own
<1>4. Typed(p)'
  BY <1>3 DEF Typed, RequestStage
<1>5. Matches(p)' /\ OwnInv(p)'
  BY <1>3 DEF Matches, OwnInv
<1>6. StageInv(p)'
  BY <1>3 DEF StageInv
<1> QED
  BY <1>3, <1>4, <1>5, <1>6 DEF Acted, ProcInv

\* The next step on the same target.
LEMMA StepActs ==
    ASSUME Living, NEW p \in Proc, NEW s \in (RequestStage \cup MainStage) \ {"send"}, Steps(p, s),
           call[p].then = "completed" => s \in {"stop", "complete"},
           p \in Call => s \in RequestStage /\ (s = "remove" => call[p].then = "remove"),
           StageInv(p)',
           gate \notin {None, p} => gate' = gate
    PROVE  Acted(p)
<1> DEFINE c == call[p]
<1>0. c \in CallRecord /\ Typed(p) /\ ProcInv(p)
  BY CallFacts
<1>1. /\ call' \in [Proc -> CallRecord]
      /\ Others(p)
      /\ call'[p].at = s
      /\ call'[p].acct = c.acct
      /\ call'[p].ver = c.ver
      /\ call'[p].req = c.req
      /\ call'[p].then = c.then
      /\ call'[p].own = c.own
  BY CallFacts, StepsCall
<1>2. Typed(p)'
  BY <1>0, <1>1 DEF Typed
<1>3. Matches(p)'
  <2>1. ASSUME c.req # 0
        PROVE  challenge'[c.req].acct = c.acct /\ challenge'[c.req].ver = c.ver /\ c.acct # None
    <3>1. c.req \in Request
      BY <1>0, <2>1 DEF CallRecord
    <3> QED
      BY <1>0, <2>1, <3>1, ReservedKept DEF ProcInv, Matches
  <2> QED
    BY <1>1, <2>1 DEF Matches
<1>4. OwnInv(p)'
  <2>1. PICK x, y : x = c.own[1] /\ y = c.own[2]
    OBVIOUS
  <2>2. ASSUME c.own # <<>> PROVE AuthTarget(x, y)'
    BY <1>0, <2>1, <2>2, AuthKept DEF ProcInv, OwnInv
  <2> QED
    BY <1>1, <2>1, <2>2 DEF OwnInv
<1> QED
  BY <1>1, <1>2, <1>3, <1>4 DEF Acted, ProcInv

\* ... of one that relies on nothing yet.
LEMMA FreeStepActs ==
    ASSUME Living, NEW p \in Proc, NEW s \in {"remove"} \cup MainStage, Steps(p, s),
           call[p].then # "completed",
           p \in Call => s = "remove" /\ call[p].then = "remove",
           gate \notin {None, p} => gate' = gate
    PROVE  Acted(p)
<1>1. s \in (RequestStage \cup MainStage) \ {"send"}
  BY DEF RequestStage, MainStage
<1>2. call'[p].at = s
  BY <1>1, CallFacts, StepsCall
<1>3. StageInv(p)'
  BY <1>2 DEF StageInv, MainStage
<1> QED
  BY <1>1, <1>3, StepActs DEF RequestStage

\* The caller of an abort goes on.
LEMMA AbortEndsActs ==
    ASSUME Living, NEW p \in Proc, AbortEnds(p, TRUE) \/ AbortEnds(p, FALSE),
           call[p].at \in {"abort", "stop", "complete"}
    PROVE  Acted(p)
<1> DEFINE c == call[p]
<1>0. c \in CallRecord /\ Typed(p) /\ ProcInv(p)
  BY CallFacts
<1>1. CASE Returns(p)
  BY <1>1, ReturnsActs
<1>2. CASE c.then \in {"remove", "swept"} /\ Steps(p, "remove") /\ gate' = gate
  <2>1. p \in Call => c.then = "remove"
    BY <1>0, <1>2 DEF Typed
  <2> QED
    BY <1>2, <2>1, FreeStepActs
<1>3. CASE c.own # <<>> /\ Takes(p, "abort", c.own[1], c.own[2], 0, "none", <<>>) /\ gate' = gate
  <2>1. PICK x, y : x = c.own[1] /\ y = c.own[2]
    OBVIOUS
  <2>2. AuthTarget(x, y)'
    BY <1>0, <1>3, <2>1, AuthKept DEF ProcInv, OwnInv
  <2>3. Takes(p, "abort", x, y, 0, "none", <<>>) /\ gate' = gate
    BY <1>3, <2>1
  <2> QED
    BY <2>2, <2>3, AuthActs DEF Then, Own
<1>4. CASE c.then = "swept" /\ Steps(p, "sweep") /\ gate' = gate
  <2>1. p \notin Call
    BY <1>0, <1>4 DEF Typed
  <2> QED
    BY <1>4, <2>1, FreeStepActs DEF MainStage
<1>5. ASSUME NEW b \in BOOLEAN, c.then \in {"recovered", "completed"}, gate' = gate,
             call' = [call EXCEPT ![p] = [IdleCall EXCEPT !.at = "orphans", !.failed = b]]
      PROVE  Acted(p)
  <2> DEFINE d == [IdleCall EXCEPT !.at = "orphans", !.failed = b]
  <2>1. d = [at |-> "orphans", acct |-> None, ver |-> 0, req |-> 0, then |-> "none",
             own |-> <<>>, failed |-> b]
    <3>1. d = [IdleCall EXCEPT !.at = "orphans", !.failed = b]
      OBVIOUS
    <3> HIDE DEF d
    <3> QED
      BY <3>1 DEF IdleCall
  <2>2. call' = [call EXCEPT ![p] = d]
    BY <1>5
  <2> HIDE DEF d
  <2>3. d \in CallRecord
    BY <2>1 DEF CallRecord, MainStage, Then, Own
  <2>4. /\ call' \in [Proc -> CallRecord] /\ Others(p) /\ call'[p] = d
    BY <2>2, <2>3, CallFacts DEF Others
  <2>5. p \notin Call
    BY <1>0, <1>5 DEF Typed
  <2>6. Typed(p)' /\ Matches(p)' /\ OwnInv(p)' /\ StageInv(p)'
    BY <2>1, <2>4, <2>5 DEF Typed, Matches, OwnInv, StageInv
  <2> QED
    BY <1>5, <2>4, <2>6 DEF Acted, ProcInv
<1>6. c.failed \in BOOLEAN
  BY <1>0 DEF CallRecord
<1>7. \E b \in BOOLEAN :
         \/ Returns(p)
         \/ c.then \in {"remove", "swept"} /\ Steps(p, "remove") /\ gate' = gate
         \/ c.own # <<>> /\ Takes(p, "abort", c.own[1], c.own[2], 0, "none", <<>>) /\ gate' = gate
         \/ c.then = "swept" /\ Steps(p, "sweep") /\ gate' = gate
         \/ /\ c.then \in {"recovered", "completed"} /\ gate' = gate
            /\ call' = [call EXCEPT ![p] = [IdleCall EXCEPT !.at = "orphans", !.failed = b]]
  <2>1. CASE AbortEnds(p, TRUE)
    <3>1. (c.failed \/ ~TRUE) \in BOOLEAN
      OBVIOUS
    <3> QED
      BY <2>1, <3>1, Zenon DEF AbortEnds
  <2>2. CASE AbortEnds(p, FALSE)
    <3>1. (c.failed \/ ~FALSE) \in BOOLEAN
      OBVIOUS
    <3> QED
      BY <2>2, <3>1, Zenon DEF AbortEnds
  <2> QED
    BY <2>1, <2>2
<1> QED
  BY <1>1, <1>2, <1>3, <1>4, <1>5, <1>7

\* The next step of an authentication.
LEMMA AuthStepActs ==
    ASSUME Living, NEW p \in Proc, NEW s \in {"commit", "finalize", "abort"}, Steps(p, s),
           call[p].at \in {"prepare", "send", "commit", "signin", "finalize", "abort"},
           gate \notin {None, p} => gate' = gate
    PROVE  Acted(p)
<1>0. Typed(p) /\ ProcInv(p)
  BY CallFacts
<1>1. s \in RequestStage \ {"send"} /\ s \in (RequestStage \cup MainStage) \ {"send"}
  BY DEF RequestStage
<1>2. call'[p].at = s /\ call'[p].acct = call[p].acct /\ call'[p].ver = call[p].ver
  BY <1>1, CallFacts, StepsCall
<1>3. PICK a, v : a = call[p].acct /\ v = call[p].ver
  OBVIOUS
<1>4. AuthTarget(a, v)'
  BY <1>0, <1>3, AuthKept DEF ProcInv, StageInv
<1>5. StageInv(p)'
  BY <1>2, <1>3, <1>4 DEF StageInv
<1>6. call[p].then # "completed"
  BY <1>0 DEF Typed
<1> QED
  BY <1>1, <1>5, <1>6, StepActs

\* The call is left as it is.
LEMMA SameActs ==
    ASSUME Living, NEW p \in Proc, call' = call, gate = p => gate' = gate,
           gate \notin {None, p} => gate' = gate
    PROVE  Acted(p)
<1>1. ProcInv(p)' /\ Typed(p) /\ call \in [Proc -> CallRecord]
  BY UntouchedKeeps, CallFacts
<1> QED
  BY <1>1 DEF Acted, Typed, Others

\* ... starts an authentication, ...
LEMMA StartActs ==
    ASSUME Living, NEW p \in Proc, NEW a \in Account, StartBegin(p, a)
    PROVE  Acted(p)
<1>0. TypeOK /\ gate = None /\ None \notin Proc /\ challenge' = challenge
  BY LifecycleAssumption DEF Living, LifecycleInv, StartBegin, Proc
<1>1. CASE call' = call /\ gate' = gate
  BY <1>0, <1>1, SameActs
<1>2. ASSUME NEW v, Takes(p, "prepare", a, v, 0, "none", <<>>), AuthTarget(a, v)', gate' = p
      PROVE  Acted(p)
  <2>1. v \in Nat
    BY <1>2 DEF AuthTarget
  <2>2. /\ call' \in [Proc -> CallRecord]
        /\ Others(p)
        /\ call'[p].at = "prepare"
        /\ call'[p].acct = a
        /\ call'[p].ver = v
        /\ call'[p].req = 0
        /\ call'[p].then = "none"
        /\ call'[p].own = <<>>
    BY <1>2, <2>1, CallFacts, TakesCall DEF RequestStage, Then, Own
  <2>3. Typed(p)' /\ Matches(p)' /\ OwnInv(p)'
    BY <2>2 DEF Typed, Matches, OwnInv, RequestStage
  <2>4. \E q \in Request : challenge'[q].state = "free"
    BY <1>0 DEF StartBegin
  <2>5. StageInv(p)'
    BY <1>2, <2>2, <2>4 DEF StageInv
  <2> QED
    BY <1>0, <2>2, <2>3, <2>5 DEF Acted, ProcInv
<1>3. row[a].version \in Nat \ {0} /\ row[a].status \in Status
  BY <1>0 DEF TypeOK
<1>4. CASE /\ row' = Moved(a, "authenticating", FALSE)
           /\ Takes(p, "prepare", a, row[a].version + 1, 0, "none", <<>>)
           /\ gate' = p
  <2>1. row'[a].status = "authenticating" /\ row'[a].version = row[a].version + 1
    BY <1>0, <1>4, MovedRow, StatusNames
  <2>2. PICK v \in Nat \ {0} : v = row[a].version + 1
    BY <1>3
  <2>3. AuthTarget(a, v)'
    BY <2>1, <2>2 DEF AuthTarget, Passed, Earlier
  <2> QED
    BY <1>2, <1>4, <2>2, <2>3
<1>5. CASE /\ row[a].status = "authenticating"
           /\ Takes(p, "prepare", a, row[a].version, 0, "none", <<>>)
           /\ gate' = p
           /\ row' = row
  <2>1. PICK v \in Nat \ {0} : v = row[a].version
    BY <1>3
  <2>2. AuthTarget(a, v)'
    BY <1>3, <1>5, <2>1 DEF AuthTarget, Passed, Earlier
  <2> QED
    BY <1>2, <1>5, <2>1, <2>2
<1> QED
  BY <1>1, <1>4, <1>5 DEF StartBegin

\* The challenge of a call that works on it.
LEMMA LiveTarget ==
    ASSUME Living, NEW q \in Live
    PROVE  \E a \in Account, v \in Nat :
              /\ a = challenge[q].acct /\ v = challenge[q].ver
              /\ challenge'[q].acct = a /\ challenge'[q].ver = v
              /\ AuthTarget(a, v)'
<1>1. q \in Request /\ challenge[q].state = "live" /\ ChallengeOK(q)
  BY DEF Live, Living, LifecycleInv
<1>2. challenge[q].acct # None /\ AuthTarget(challenge[q].acct, challenge[q].ver)
  BY <1>1 DEF ChallengeOK
<1>3. PICK a, v : a = challenge[q].acct /\ v = challenge[q].ver
  OBVIOUS
<1>4. AuthTarget(a, v)'
  BY <1>2, <1>3, AuthKept
<1>5. a \in Account /\ v \in Nat
  BY <1>2, <1>3 DEF AuthTarget
<1> QED
  BY <1>1, <1>2, <1>3, <1>4, <1>5, ReservedKept

\* (Names of continuations, and the bounds of the requests.)
LEMMA NamesOK ==
    /\ {"none", "tombstone", "remove", "recovered", "swept"} \subseteq Then \ {"completed"}
    /\ <<>> \in Own
    /\ \A q \in Request : q # 0 /\ q \in Request \cup {0}
  BY DEF Then, Own, Request

\* ... prepares a challenge, ...
LEMMA PrepareActs ==
    ASSUME Living, NEW p \in Proc, Prepare(p)
    PROVE  Acted(p)
<1>0. TypeOK /\ ProcInv(p) /\ LifecycleInv
  BY CallFacts DEF Living, LifecycleInv
<1>1. gate = p
  BY <1>0 DEF ProcInv, StageInv, Prepare
<1>2. PICK a, v : a = call[p].acct /\ v = call[p].ver
  OBVIOUS
<1>3. AuthTarget(a, v)' /\ a \in Account /\ v \in Nat
  <2>1. AuthTarget(a, v)
    BY <1>0, <1>2 DEF ProcInv, StageInv, Prepare
  <2>2. a \in Account /\ v \in Nat
    BY <2>1 DEF AuthTarget
  <2> QED
    BY <2>1, <2>2, AuthKept
<1>4. CASE Returns(p)
  BY <1>4, ReturnsActs
<1>5. ASSUME NEW q \in Live, Takes(p, "abort", challenge[q].acct, challenge[q].ver, q, "remove", <<a, v>>)
      PROVE  Acted(p)
  <2>1. PICK b \in Account, w \in Nat :
              /\ b = challenge[q].acct /\ w = challenge[q].ver
              /\ challenge'[q].acct = b /\ challenge'[q].ver = w
              /\ AuthTarget(b, w)'
    BY LiveTarget
  <2>2. PICK o \in Own : o = <<a, v>>
    BY <1>3 DEF Own
  <2>3. Takes(p, "abort", b, w, q, "remove", o)
    BY <1>5, <2>1, <2>2
  <2>4. o[1] = a /\ o[2] = v
    BY <2>2
  <2>5. q \in Request
    BY DEF Live
  <2> QED
    BY <1>1, <1>3, <2>1, <2>3, <2>4, <2>5, AuthActs, NamesOK
<1>6. CASE Takes(p, "abort", a, v, 0, "none", <<>>)
  BY <1>1, <1>3, <1>6, AuthActs, NamesOK
<1>7. ASSUME NEW q, q = CHOOSE r \in {r \in Request : challenge[r].state = "free"} : TRUE,
             challenge' = [challenge EXCEPT ![q] = Fresh(a, v)],
             Takes(p, "send", a, v, q, "none", <<>>)
      PROVE  Acted(p)
  <2>1. q \in Request
    <3>1. {r \in Request : challenge[r].state = "free"} # {}
      BY <1>0 DEF ProcInv, StageInv, Prepare
    <3> QED
      BY <1>7, <3>1
  <2>2. challenge'[q].acct = a /\ challenge'[q].ver = v
    BY <1>0, <1>3, <1>7, <2>1, ChallengeTypes, NewChallenge
  <2> QED
    BY <1>1, <1>3, <1>7, <2>1, <2>2, AuthActs, NamesOK
<1>8. \/ Returns(p)
      \/ \E q \in Live : Takes(p, "abort", challenge[q].acct, challenge[q].ver, q, "remove", <<a, v>>)
      \/ Takes(p, "abort", a, v, 0, "none", <<>>)
      \/ \E q : /\ q = CHOOSE r \in {r \in Request : challenge[r].state = "free"} : TRUE
               /\ challenge' = [challenge EXCEPT ![q] = Fresh(a, v)]
               /\ Takes(p, "send", a, v, q, "none", <<>>)
  BY <1>2 DEF Prepare, Fresh
<1> QED
  BY <1>4, <1>5, <1>6, <1>7, <1>8

\* ... sends the code, ...
LEMMA SendActs ==
    ASSUME Living, NEW p \in Proc, SendCode(p) \/ SendCodeFails(p)
    PROVE  Acted(p)
<1> DEFINE q == call[p].req
<1>0. ProcInv(p) /\ Typed(p) /\ call[p] \in CallRecord
  BY CallFacts
<1>1. CASE SendCode(p)
  BY <1>1, AuthStepActs DEF SendCode, memory
<1>2. CASE SendCodeFails(p)
  <2>1. call[p].at = "send"
    BY <1>2 DEF SendCodeFails
  <2>2. PICK a, v : a = call[p].acct /\ v = call[p].ver
    OBVIOUS
  <2>3. AuthTarget(a, v)'
    BY <1>0, <2>1, <2>2, AuthKept DEF ProcInv, StageInv
  <2>4. q \in Request
    BY <1>0, <2>1 DEF Typed, CallRecord
  <2>5. challenge'[q].acct = a /\ challenge'[q].ver = v
    BY <1>0, <2>2, <2>4, ReservedKept, NamesOK DEF ProcInv, Matches
  <2>6. CASE Returns(p)
    BY <2>6, ReturnsActs
  <2>7. CASE Takes(p, "abort", a, v, q, "remove", <<>>) /\ gate' = gate
    <3> HIDE DEF q
    <3> QED
      BY <2>3, <2>4, <2>5, <2>7, AuthActs, NamesOK
  <2>8. CASE Takes(p, "abort", a, v, 0, "none", <<>>) /\ gate' = gate
    BY <2>3, <2>8, AuthActs, NamesOK
  <2> QED
    BY <1>2, <2>2, <2>6, <2>7, <2>8 DEF SendCodeFails
<1> QED
  BY <1>1, <1>2

\* ... commits an attempt, ...
LEMMA CommitActs ==
    ASSUME Living, NEW p \in Proc, Commit(p)
    PROVE  Acted(p)
<1> DEFINE q == call[p].req
<1>0. ProcInv(p) /\ Typed(p) /\ call[p] \in CallRecord /\ call[p].at = "commit"
  BY CallFacts DEF Commit
<1>2. PICK a, v : a = call[p].acct /\ v = call[p].ver
  OBVIOUS
<1>3. AuthTarget(a, v)'
  BY <1>0, <1>2, AuthKept DEF ProcInv, StageInv
<1>4. CASE Returns(p)
  BY <1>4, ReturnsActs
<1>5. CASE q \in Live /\ Takes(p, "abort", a, v, q, "remove", <<>>) /\ gate' = gate
  <2>1. q \in Request
    BY <1>5 DEF Live
  <2>2. challenge'[q].acct = a /\ challenge'[q].ver = v
    BY <1>0, <1>2, <2>1, ReservedKept, NamesOK DEF ProcInv, Matches
  <2> HIDE DEF q
  <2> QED
    BY <1>3, <1>5, <2>1, <2>2, AuthActs, NamesOK
<1>6. CASE Takes(p, "abort", a, v, 0, "none", <<>>) /\ gate' = gate
  BY <1>3, <1>6, AuthActs, NamesOK
<1> QED
  BY <1>2, <1>4, <1>5, <1>6 DEF Commit

\* A request that finds its challenge.
LEMMA ChallengeActs ==
    ASSUME Living, NEW p \in Proc, NEW q \in Request,
           Expire(p, q) \/ Submit(p, q, "code") \/ Submit(p, q, "password") \/ Cancel(p, q)
    PROVE  Acted(p)
<1>1. q \in Live /\ p \in Call /\ gate' = gate
  BY DEF Expire, Submit, Cancel, Opens, Asks, memory
<1>2. PICK a \in Account, v \in Nat :
              /\ a = challenge[q].acct /\ v = challenge[q].ver
              /\ challenge'[q].acct = a /\ challenge'[q].ver = v
              /\ AuthTarget(a, v)'
  BY <1>1, LiveTarget
<1>3. \E s \in {"abort", "finalize", "signin"}, t \in {"tombstone", "remove"} : Takes(p, s, a, v, q, t, <<>>)
  BY <1>2 DEF Expire, Submit, Cancel
<1> QED
  BY <1>1, <1>2, <1>3, AuthActs, NamesOK

\* ... signs in, ...
LEMMA SignInActs ==
    ASSUME Living, NEW p \in Proc, SignedIn(p) \/ NotSignedIn(p) \/ SignInAborts(p) \/ Finalize(p)
    PROVE  Acted(p)
<1>1. CASE SignedIn(p)
  BY <1>1, AuthStepActs DEF SignedIn
<1>2. CASE SignInAborts(p)
  BY <1>2, AuthStepActs DEF SignInAborts, memory
<1>3. CASE NotSignedIn(p) \/ Finalize(p)
  BY <1>3, ReturnsActs DEF NotSignedIn, Finalize
<1> QED
  BY <1>1, <1>2, <1>3

\* ... begins an abort, ...
LEMMA BeginAbortActs ==
    ASSUME Living, NEW p \in Proc, BeginAbort(p)
    PROVE  Acted(p)
<1>0. ProcInv(p) /\ Typed(p) /\ call[p].at = "abort"
  BY CallFacts DEF BeginAbort
<1>1. CASE AbortEnds(p, FALSE)
  BY <1>0, <1>1, AbortEndsActs
<1>2. CASE Steps(p, "stop") /\ gate' = gate
  <2>1. call'[p].at = "stop" /\ call'[p].acct = call[p].acct /\ call'[p].ver = call[p].ver
        /\ call'[p].then = call[p].then
    BY <1>2, CallFacts, StepsCall DEF RequestStage
  <2>2. PICK a, v : a = call[p].acct /\ v = call[p].ver
    OBVIOUS
  <2>3. AuthTarget(a, v)' /\ call[p].then # "completed"
    BY <1>0, <2>2, AuthKept DEF ProcInv, StageInv, Typed
  <2>4. StageInv(p)'
    BY <2>1, <2>2, <2>3 DEF StageInv
  <2> QED
    BY <1>2, <2>3, <2>4, StepActs DEF RequestStage
<1> QED
  BY <1>1, <1>2 DEF BeginAbort

\* ... stops the client of an account, ...
LEMMA StopActs ==
    ASSUME Living, NEW p \in Proc, StopAccount(p)
    PROVE  Acted(p)
<1>0. ProcInv(p) /\ Typed(p) /\ call[p].at = "stop"
  BY CallFacts DEF StopAccount
<1>1. CASE AbortEnds(p, FALSE)
  BY <1>0, <1>1, AbortEndsActs
<1>2. CASE /\ Steps(p, "complete") /\ gate' = gate
           /\ \/ runtimeStopped
              \/ fence' = Raised(call[p].acct, call[p].ver)
  <2>1. call'[p].at = "complete" /\ call'[p].acct = call[p].acct /\ call'[p].ver = call[p].ver
        /\ call'[p].then = call[p].then
    BY <1>2, CallFacts, StepsCall DEF RequestStage
  <2>2. PICK a, v : a = call[p].acct /\ v = call[p].ver
    OBVIOUS
  <2>3. IF call[p].then = "completed" THEN LocalTarget(a, v) ELSE AuthTarget(a, v)
    BY <1>0, <2>2 DEF ProcInv, StageInv
  <2>4. a \in Account /\ v \in Nat
    BY <2>3 DEF LocalTarget, AuthTarget
  <2>5. IF call[p].then = "completed" THEN LocalTarget(a, v)' ELSE AuthTarget(a, v)'
    BY <2>3, AuthKept, LocalKept
  <2>6. v <= fence'[a] \/ runtimeStopped'
    <3>1. CASE runtimeStopped
      BY <2>4, <3>1, FenceKept
    <3>2. CASE fence' = Raised(a, v)
      <4>1. fence \in [Account -> Nat]
        BY DEF Living, LifecycleInv, TypeOK
      <4>2. fence'[a] = v
        BY <2>4, <3>2, <4>1 DEF Raised
      <4> QED
        BY <2>4, <4>2
    <3> QED
      BY <1>2, <2>2, <3>1, <3>2
  <2>7. StageInv(p)'
    BY <2>1, <2>2, <2>5, <2>6 DEF StageInv
  <2> QED
    BY <1>2, <2>7, StepActs DEF RequestStage
<1> QED
  BY <1>1, <1>2 DEF StopAccount

\* ... completes the abort, ...
LEMMA CompleteAbortActs ==
    ASSUME Living, NEW p \in Proc, CompleteAbort(p)
    PROVE  Acted(p)
  BY AbortEndsActs DEF CompleteAbort

\* ... removes the challenge, ...
LEMMA RemoveActs ==
    ASSUME Living, NEW p \in Proc, Remove(p)
    PROVE  Acted(p)
<1> DEFINE c == call[p]
<1>0. ProcInv(p) /\ Typed(p) /\ c \in CallRecord
  BY CallFacts
<1>1. CASE Returns(p)
  BY <1>1, ReturnsActs
<1>2. CASE c.own # <<>> /\ Takes(p, "abort", c.own[1], c.own[2], 0, "none", <<>>) /\ gate' = gate
  <2>1. PICK x, y : x = c.own[1] /\ y = c.own[2]
    OBVIOUS
  <2>2. AuthTarget(x, y)'
    BY <1>0, <1>2, <2>1, AuthKept DEF ProcInv, OwnInv
  <2>3. Takes(p, "abort", x, y, 0, "none", <<>>) /\ gate' = gate
    BY <1>2, <2>1
  <2> QED
    BY <2>2, <2>3, AuthActs, NamesOK
<1>3. CASE c.then = "swept" /\ Steps(p, "sweep") /\ gate' = gate
  <2>1. p \notin Call
    BY <1>0, <1>3 DEF Typed
  <2> QED
    BY <1>3, <2>1, FreeStepActs DEF MainStage
<1> QED
  BY <1>1, <1>2, <1>3 DEF Remove

\* ... begins to disconnect, ...
LEMMA DisconnectActs ==
    ASSUME Living, NEW p \in Proc, NEW a \in Account, Disconnect(p, a)
    PROVE  Acted(p)
<1>0. TypeOK /\ gate' = gate /\ row' = row
  BY DEF Living, LifecycleInv, Disconnect, memory, rows
<1>1. row[a].version \in Nat \ {0}
  BY <1>0 DEF TypeOK
<1>2. PICK v \in Nat \ {0} : v = row[a].version
  BY <1>1
<1>3. CASE Takes(p, "intent", a, v, 0, "none", <<>>)
  <2>1. /\ call' \in [Proc -> CallRecord]
        /\ Others(p)
        /\ call'[p].at = "intent"
        /\ call'[p].acct = a
        /\ call'[p].req = 0
        /\ call'[p].then = "none"
        /\ call'[p].own = <<>>
    BY <1>3, CallFacts, TakesCall DEF RequestStage, Then, Own
  <2>2. Typed(p)' /\ Matches(p)' /\ OwnInv(p)' /\ StageInv(p)'
    BY <2>1 DEF Typed, Matches, OwnInv, StageInv, RequestStage
  <2> QED
    BY <1>0, <2>1, <2>2 DEF Acted, ProcInv
<1>4. CASE a \in Intents /\ Takes(p, "revoke", a, v, 0, "none", <<>>)
  <2>1. IntentTarget(a, v)'
    BY <1>0, <1>2, <1>4 DEF IntentTarget, Intents
  <2> QED
    BY <1>0, <1>4, <2>1, IntentActs
<1> QED
  BY <1>2, <1>3, <1>4 DEF Disconnect

\* ... persists the intent, ...
LEMMA PersistActs ==
    ASSUME Living, NEW p \in Proc, PersistIntent(p)
    PROVE  Acted(p)
<1>0. TypeOK /\ ProcInv(p) /\ call[p].at = "intent"
  BY CallFacts DEF Living, LifecycleInv, PersistIntent
<1>1. CASE Returns(p)
  BY <1>1, ReturnsActs
<1>2. PICK a, v : a = call[p].acct /\ v = call[p].ver
  OBVIOUS
<1>3. CASE /\ IsAt(a, "active", v)
           /\ row' = Moved(a, "disconnecting", TRUE)
           /\ Takes(p, "revoke", a, v + 1, 0, "none", <<>>)
           /\ gate' = gate
  <2>1. a \in Account
    BY <1>0, <1>2 DEF ProcInv, StageInv
  <2>2. /\ row'[a].status = "disconnecting" /\ row'[a].version = row[a].version + 1
        /\ row'[a].logout = TRUE
    BY <1>0, <1>3, <2>1, MovedRow, StatusNames
  <2>5. v \in Nat \ {0} /\ v = row[a].version
    BY <1>0, <1>3, <2>1 DEF TypeOK, IsAt
  <2>3. PICK w \in Nat \ {0} : w = v + 1 /\ w = row'[a].version
    BY <2>2, <2>5
  <2>4. IntentTarget(a, w)'
    BY <2>1, <2>2, <2>3 DEF IntentTarget
  <2> QED
    BY <1>3, <2>3, <2>4, IntentActs
<1> QED
  BY <1>1, <1>2, <1>3 DEF PersistIntent

\* ... logs out at Telegram, ...
LEMMA RevokeActs ==
    ASSUME Living, NEW p \in Proc, Revoke(p)
    PROVE  Acted(p)
<1>0. TypeOK /\ ProcInv(p) /\ Typed(p) /\ call[p].at = "revoke"
  BY CallFacts DEF Living, LifecycleInv, Revoke
<1>1. PICK a, v : a = call[p].acct /\ v = call[p].ver
  OBVIOUS
<1>2. IntentTarget(a, v)
  BY <1>0, <1>1 DEF ProcInv, StageInv
<1>3. a \in Account /\ v \in Nat /\ IntentTarget(a, v)'
  BY <1>2, IntentKept DEF IntentTarget
<1>4. Steps(p, "mark") /\ gate' = gate /\ fence' = Raised(a, v) /\ authorized' = authorized \ {a}
  BY <1>1 DEF Revoke, memory
<1>5. fence'[a] = v /\ v <= v
  BY <1>0, <1>3, <1>4 DEF Raised, TypeOK
<1>6. call'[p].at = "mark" /\ call'[p].acct = a /\ call'[p].ver = v
  BY <1>1, <1>4, CallFacts, StepsCall DEF RequestStage
<1>7. StageInv(p)'
  BY <1>3, <1>4, <1>5, <1>6 DEF StageInv
<1>8. call[p].then # "completed"
  BY <1>0 DEF Typed
<1> QED
  BY <1>4, <1>7, <1>8, StepActs DEF RequestStage

\* ... or finds that this is still pending.
LEMMA PendingActs ==
    ASSUME Living, NEW p \in Proc, RevokePending(p), call[p].at \in {"revoke", "mark"}
    PROVE  Acted(p)
<1>1. CASE p = Sys
  <2>1. Steps(p, "intents") /\ gate' = gate /\ p \notin Call
    BY <1>1, LifecycleAssumption DEF RevokePending
  <2>2. call[p].then # "completed"
    BY CallFacts DEF Typed
  <2> QED
    BY <2>1, <2>2, FreeStepActs DEF MainStage
<1>2. CASE p # Sys
  BY <1>2, ReturnsActs DEF RevokePending
<1> QED
  BY <1>1, <1>2

\* The calls of the main goroutine are those of Sys.
LEMMA SysIsMain == Sys \in Proc /\ Sys \notin Call
  BY LifecycleAssumption DEF Proc

\* The main goroutine when its call is over.
LEMMA SysOverActs ==
    ASSUME Living, call' = [call EXCEPT ![Sys] = IdleCall], gate' = gate
    PROVE  Acted(Sys)
<1> DEFINE idle == IdleCall
<1>1. idle \in CallRecord /\ Over(idle)
  BY IdleIsOver
<1>2. call' = [call EXCEPT ![Sys] = idle]
  OBVIOUS
<1> HIDE DEF idle
<1>3. call' \in [Proc -> CallRecord] /\ Others(Sys) /\ Over(call'[Sys])
  BY <1>1, <1>2, CallFacts, SysIsMain DEF Others
<1> QED
  BY <1>3, OverActs, SysIsMain

\* It takes the next intent, ...
LEMMA RecoverIntentActs ==
    ASSUME Living, RecoverIntent
    PROVE  Acted(Sys)
<1>0. TypeOK /\ MainInv /\ gate' = gate /\ row' = row /\ call[Sys].at = "intents"
  BY DEF Living, LifecycleInv, RecoverIntent, memory, rows
<1>1. PICK a \in todo : Takes(Sys, "revoke", a, row[a].version, 0, "none", <<>>)
  BY DEF RecoverIntent
<1>2. a \in Intents
  BY <1>0, <1>1 DEF MainInv, TypeOK
<1>3. PICK v \in Nat \ {0} : v = row[a].version
  BY <1>0, <1>2 DEF TypeOK, Intents
<1>4. IntentTarget(a, v)'
  BY <1>0, <1>2, <1>3 DEF IntentTarget, Intents
<1> QED
  BY <1>0, <1>1, <1>3, <1>4, IntentActs, SysIsMain

\* ... the next orphaned authentication, ...
LEMMA RecoverOrphanActs ==
    ASSUME Living, RecoverOrphan
    PROVE  Acted(Sys)
<1>0. TypeOK /\ MainInv /\ gate' = gate /\ row' = row /\ call[Sys].at = "orphans"
  BY DEF Living, LifecycleInv, RecoverOrphan, memory, rows
<1>1. PICK a \in todo :
         \/ /\ row[a].status = "authenticating"
            /\ Takes(Sys, "abort", a, row[a].version, 0, "recovered", <<>>)
         \/ /\ row[a].status = "disconnecting"
            /\ Takes(Sys, "stop", a, row[a].version, 0, "completed", <<>>)
  BY DEF RecoverOrphan
<1>2. a \in Account /\ a \notin Intents
  BY <1>0, <1>1 DEF MainInv, TypeOK
<1>3. PICK v \in Nat \ {0} : v = row[a].version
  BY <1>0, <1>2 DEF TypeOK
<1>4. CASE row[a].status = "authenticating" /\ Takes(Sys, "abort", a, v, 0, "recovered", <<>>)
  <2>1. AuthTarget(a, v)'
    BY <1>0, <1>2, <1>3, <1>4 DEF AuthTarget, Passed, Earlier
  <2> QED
    BY <1>0, <1>4, <2>1, AuthActs, NamesOK, SysIsMain
<1>5. CASE row[a].status = "disconnecting" /\ Takes(Sys, "stop", a, v, 0, "completed", <<>>)
  <2>1. LocalTarget(a, v)'
    BY <1>0, <1>2, <1>3, <1>5 DEF LocalTarget, Intents
  <2>2. /\ call' \in [Proc -> CallRecord]
        /\ Others(Sys)
        /\ call'[Sys].at = "stop"
        /\ call'[Sys].acct = a
        /\ call'[Sys].ver = v
        /\ call'[Sys].req = 0
        /\ call'[Sys].then = "completed"
        /\ call'[Sys].own = <<>>
    BY <1>2, <1>5, CallFacts, TakesCall, SysIsMain DEF RequestStage, Then, Own
  <2>3. Typed(Sys)' /\ Matches(Sys)' /\ OwnInv(Sys)' /\ StageInv(Sys)'
    BY <2>1, <2>2, SysIsMain DEF Typed, Matches, OwnInv, StageInv
  <2> QED
    BY <1>0, <2>2, <2>3 DEF Acted, ProcInv
<1> QED
  BY <1>1, <1>3, <1>4, <1>5

\* ... or the next challenge at shutdown.
LEMMA SweepActs ==
    ASSUME Living, Sweep
    PROVE  Acted(Sys)
<1>0. TypeOK /\ MainInv /\ gate' = gate /\ call[Sys].at = "sweep"
  BY DEF Living, LifecycleInv, Sweep
<1>1. PICK q \in todo : Takes(Sys, "abort", challenge[q].acct, challenge[q].ver, q, "swept", <<>>)
  BY DEF Sweep
<1>2. up = "stopping"
  BY <1>0 DEF MainInv, TypeOK
<1>3. q \in Request /\ challenge[q].acct # None
  BY <1>0, <1>1, <1>2 DEF MainInv
<1>4. AuthTarget(challenge[q].acct, challenge[q].ver)
  BY <1>3 DEF Living, LifecycleInv, ChallengeOK
<1>5. PICK a, v : a = challenge[q].acct /\ v = challenge[q].ver
  OBVIOUS
<1>6. AuthTarget(a, v)' /\ challenge'[q].acct = a /\ challenge'[q].ver = v
  BY <1>3, <1>4, <1>5, AuthKept, ReservedKept
<1> QED
  BY <1>0, <1>1, <1>3, <1>5, <1>6, AuthActs, NamesOK, SysIsMain

\* Sys goes to its next step.
LEMMA MainStepActs ==
    ASSUME Living, NEW s \in MainStage, Steps(Sys, s), gate' = gate,
           call[Sys].at \in {"idle"} \cup MainStage
    PROVE  Acted(Sys)
<1>1. call[Sys].then # "completed"
  BY CallFacts, SysIsMain DEF Typed, MainStage
<1> QED
  BY <1>1, FreeStepActs, SysIsMain

\* Every step of the main goroutine by itself.
LEMMA MainActs ==
    ASSUME Living, Main
    PROVE  Acted(Sys)
<1>1. CASE BootIntents
  BY <1>1, MainStepActs DEF BootIntents, MainStage, memory
<1>2. CASE BootOrphans
  BY <1>2, MainStepActs DEF BootOrphans, MainStage, memory
<1>3. CASE BootServes \/ BootLeavesOut
  BY <1>3, SysOverActs DEF BootServes, BootLeavesOut, memory
<1>4. CASE CloseAdmission
  BY <1>4, MainStepActs DEF CloseAdmission, MainStage
<1>5. CASE Snapshot
  BY <1>5, MainStepActs DEF Snapshot, MainStage, memory
<1>6. CASE StopRuntime
  BY <1>6, MainStepActs DEF StopRuntime, MainStage
<1> QED
  BY <1>1, <1>2, <1>3, <1>4, <1>5, <1>6, RecoverIntentActs, RecoverOrphanActs, SweepActs DEF Main

\* The beginning of the shutdown.
LEMMA ShutdownActs ==
    ASSUME Living, ShutdownBegins
    PROVE  Acted(Sys)
<1>1. call[Sys].at = "idle"
  BY DEF Living, LifecycleInv, MainInv, ShutdownBegins
<1>2. PICK s \in MainStage : Steps(Sys, s)
  <2>1. (IF up = "serving" THEN "gate" ELSE "sweep") \in MainStage
    BY DEF MainStage
  <2> QED
    BY <2>1 DEF ShutdownBegins
<1> QED
  BY <1>1, <1>2, MainStepActs DEF ShutdownBegins, memory

\* Every step of a call.
LEMMA RequestActs ==
    ASSUME Living, NEW p \in Proc, Requests(p) \/ Proceeds(p)
    PROVE  Acted(p)
<1>1. CASE Requests(p)
  BY <1>1, StartActs, DisconnectActs, ChallengeActs DEF Requests
<1>2. CASE Proceeds(p)
  <2>1. CASE RevokeFails(p) \/ MarkDisconnected(p)
    BY <2>1, PendingActs DEF RevokeFails, MarkDisconnected
  <2> QED
    BY <1>2, <2>1, PrepareActs, SendActs, CommitActs, SignInActs, BeginAbortActs, StopActs,
       CompleteAbortActs, RemoveActs, PersistActs, RevokeActs DEF Proceeds
<1> QED
  BY <1>1, <1>2

\* All calls keep their invariants in a living step.
LEMMA CallsKeep ==
    ASSUME Living, [Next]_vars, ~Dies
    PROVE  CallTypes' /\ \A p \in Proc : ProcInv(p)'
<1>1. CASE \E p \in Proc : Requests(p) \/ Proceeds(p)
  BY <1>1, RequestActs, ActedKeeps
<1>2. CASE Main \/ ShutdownBegins
  BY <1>2, MainActs, ShutdownActs, ActedKeeps, SysIsMain
<1>3. CASE Environment /\ ~ShutdownBegins
  <2>1. call' = call /\ gate' = gate
    BY <1>3, Zenon DEF Environment, Resolve, Use, StoreSession, Evict, RowDue, ChallengeDue, StoneDue,
       Restart, memory
  <2> QED
    BY <2>1, NobodyKeeps
<1>4. CASE UNCHANGED vars
  BY <1>4, NobodyKeeps DEF vars
<1> QED
  BY <1>1, <1>2, <1>3, <1>4 DEF Next

-----------------------------------------------------------------------------
(* The goroutine of main.                                                  *)

\* Sys is not concerned.
LEMMA MainUntouched ==
    ASSUME Living, call'[Sys] = call[Sys], todo' = todo, up' = up,
           up \in {"starting", "down"} => \A p \in Call : call'[p].at = "idle",
           up = "starting" => \A a \in Account : row'[a].status = row[a].status /\ row'[a].logout = row[a].logout
    PROVE  MainInv'
<1>0. MainInv
  BY DEF Living, LifecycleInv
<1>1. ASSUME up = "starting"
      PROVE  Intents' = Intents /\ \A a \in Account : Settled(a)' <=> Settled(a)
  <2>1. Intents' = Intents
    BY <1>1 DEF Intents
  <2> QED
    BY <1>1, <2>1 DEF Settled
<1>2. ASSUME up = "stopping" PROVE todo \subseteq {q \in Request : challenge'[q].acct # None}
  BY <1>0, <1>2, ReservedKept DEF MainInv
<1>3. CASE up = "starting"
  BY <1>0, <1>1, <1>3 DEF MainInv
<1>4. CASE up # "starting"
  BY <1>0, <1>2, <1>4 DEF MainInv
<1> QED
  BY <1>3, <1>4

\* A call of a request does not disturb recovery or shutdown.
LEMMA RequestMain ==
    ASSUME Living, NEW p \in Call, Requests(p) \/ Proceeds(p)
    PROVE  MainInv'
<1>0. TypeOK /\ MainInv /\ p \in Proc /\ p # Sys
  BY SysIsMain DEF Living, LifecycleInv, Proc
<1>1. Acted(p)
  BY <1>0, RequestActs
<1>2. call'[Sys] = call[Sys]
  BY <1>0, <1>1, SysIsMain DEF Acted, Others
<1>3. CASE Requests(p)
  <2>1. up = "serving"
    BY <1>3 DEF Requests, StartBegin, Disconnect, Expire, Submit, Cancel, Opens, Asks
  <2>2. todo' = todo /\ up' = up
    BY <1>3, Zenon DEF Requests, StartBegin, Disconnect, Expire, Submit, Cancel, process
  <2> QED
    BY <1>2, <2>1, <2>2, MainUntouched
<1>4. CASE Proceeds(p)
  <2>1. call[p].at # "idle"
    BY <1>4 DEF Proceeds, Prepare, SendCode, SendCodeFails, Commit, SignedIn, NotSignedIn, SignInAborts,
       Finalize, BeginAbort, StopAccount, CompleteAbort, Remove, PersistIntent, Revoke, RevokeFails,
       MarkDisconnected
  <2>2. up \notin {"starting", "down"}
    BY <1>0, <2>1 DEF MainInv
  <2>3. todo' = todo /\ up' = up
    BY <1>4, Zenon DEF Proceeds, Prepare, SendCode, SendCodeFails, Commit, SignedIn, NotSignedIn, SignInAborts,
       Finalize, BeginAbort, StopAccount, CompleteAbort, Remove, PersistIntent, Revoke, RevokeFails,
       MarkDisconnected, process
  <2> QED
    BY <1>2, <2>2, <2>3, MainUntouched
<1> QED
  BY <1>3, <1>4

\* The outcomes of an abort that main began.
LEMMA SysAbortEnds ==
    ASSUME Living, NEW b \in BOOLEAN, call[Sys].then \in {"recovered", "completed", "swept"},
           \/ AbortEnds(Sys, TRUE) /\ b = call[Sys].failed
           \/ AbortEnds(Sys, FALSE) /\ b = TRUE
    PROVE  \/ /\ call[Sys].then = "swept"
              /\ call'[Sys].at \in {"remove", "sweep"}
              /\ call'[Sys].then = call[Sys].then
           \/ /\ call[Sys].then \in {"recovered", "completed"}
              /\ call'[Sys].at = "orphans"
              /\ call'[Sys].failed = b
<1>0. call \in [Proc -> CallRecord] /\ Sys \in Proc
  BY CallFacts, SysIsMain
<1>1. CASE call[Sys].then = "swept"
  <2>1. PICK s \in {"remove", "sweep"} : Steps(Sys, s)
    BY <1>1 DEF AbortEnds
  <2> QED
    BY <1>0, <1>1, <2>1, StepsCall DEF RequestStage, MainStage
<1>2. CASE call[Sys].then \in {"recovered", "completed"}
  <2>1. call' = [call EXCEPT ![Sys] = [IdleCall EXCEPT !.at = "orphans", !.failed = b]]
    <3>1. call[Sys].failed \in BOOLEAN
      BY <1>0 DEF CallRecord
    <3>2. CASE AbortEnds(Sys, TRUE) /\ b = call[Sys].failed
      <4>1. call' = [call EXCEPT ![Sys] = [IdleCall EXCEPT !.at = "orphans",
                                                           !.failed = call[Sys].failed \/ ~TRUE]]
        BY <1>2, <3>2 DEF AbortEnds
      <4>2. (call[Sys].failed \/ ~TRUE) = b
        BY <3>1, <3>2
      <4> QED
        BY <4>1, <4>2
    <3>3. CASE AbortEnds(Sys, FALSE) /\ b = TRUE
      <4>1. call' = [call EXCEPT ![Sys] = [IdleCall EXCEPT !.at = "orphans",
                                                           !.failed = call[Sys].failed \/ ~FALSE]]
        BY <1>2, <3>3 DEF AbortEnds
      <4>2. (call[Sys].failed \/ ~FALSE) = b
        BY <3>1, <3>3
      <4> QED
        BY <4>1, <4>2
    <3> QED
      BY <3>2, <3>3
  <2> DEFINE d == [IdleCall EXCEPT !.at = "orphans", !.failed = b]
  <2>2. d.at = "orphans" /\ d.failed = b
    BY DEF IdleCall
  <2>3. call'[Sys] = d
    <3>1. call' = [call EXCEPT ![Sys] = d]
      BY <2>1
    <3> HIDE DEF d
    <3> QED
      BY <1>0, <3>1
  <2> HIDE DEF d
  <2> QED
    BY <1>2, <2>2, <2>3
<1> QED
  BY <1>1, <1>2

\* A step of main during the shutdown.
LEMMA StoppingMain ==
    ASSUME Living, up' = "stopping",
           todo' \subseteq {q \in Request : challenge[q].acct # None},
           call'[Sys].at \in {"gate", "snapshot", "sweep", "abort", "stop", "complete", "remove", "exit"},
           call'[Sys].at \in {"abort", "stop", "complete", "remove"} => call'[Sys].then = "swept"
    PROVE  MainInv'
<1>1. todo' \subseteq {q \in Request : challenge'[q].acct # None}
  BY ReservedKept
<1> QED
  BY <1>1 DEF MainInv

\* A step of main on one intent.
LEMMA IntentMain ==
    ASSUME Living, Revoke(Sys) \/ RevokeFails(Sys) \/ MarkDisconnected(Sys)
    PROVE  MainInv'
<1> DEFINE a == call[Sys].acct
<1>0. TypeOK /\ MainInv /\ ProcInv(Sys) /\ call[Sys].at \in {"revoke", "mark"}
  BY CallFacts, SysIsMain DEF Living, LifecycleInv, Revoke, RevokeFails, MarkDisconnected
<1>1. up = "starting"
  BY <1>0 DEF MainInv, TypeOK
<1>2. todo' = todo /\ up' = up
  BY DEF Revoke, RevokeFails, MarkDisconnected, process
<1>3. /\ call'[Sys].at \in {"intents", "mark"} /\ call'[Sys].acct = a
      /\ \A p \in Call : call'[p].at = "idle"
  <2>1. PICK s \in {"intents", "mark"} : Steps(Sys, s)
    BY DEF Revoke, RevokeFails, MarkDisconnected, RevokePending
  <2>2. Others(Sys) /\ call'[Sys].at = s /\ call'[Sys].acct = a
    BY <2>1, CallFacts, StepsCall, SysIsMain DEF RequestStage, MainStage
  <2> QED
    BY <1>0, <1>1, <2>2, SysIsMain DEF Others, MainInv, Proc
<1>4. a \in Account
  BY <1>0 DEF ProcInv, StageInv, IntentTarget
<1>5. \A b \in Account \ {a} : row'[b] = row[b]
  <2>1. row' = row \/ row' = Moved(a, "disconnected", FALSE)
    BY DEF Revoke, RevokeFails, MarkDisconnected, rows
  <2> QED
    BY <1>0, <1>4, <2>1, MovedRow, StatusNames
<1>6. todo \subseteq Intents /\ a \notin todo /\ todo \subseteq Account
  BY <1>0, <1>1 DEF MainInv
<1>7. todo \subseteq Intents'
  BY <1>5, <1>6 DEF Intents
<1> QED
  BY <1>1, <1>2, <1>3, <1>6, <1>7 DEF MainInv

\* A step of main on one abort, at startup.
LEMMA OrphanMain ==
    ASSUME Living, BeginAbort(Sys) \/ StopAccount(Sys) \/ CompleteAbort(Sys), up = "starting"
    PROVE  MainInv'
<1> DEFINE c == call[Sys]
<1>13. PICK a : a = call[Sys].acct
  OBVIOUS
<1>0. /\ TypeOK /\ MainInv /\ ProcInv(Sys) /\ c.at \in {"abort", "stop", "complete"}
      /\ c \in CallRecord /\ Acted(Sys)
  BY CallFacts, RequestActs, SysIsMain
     DEF Living, LifecycleInv, BeginAbort, StopAccount, CompleteAbort, Proceeds
<1>1. c.then \in {"recovered", "completed"} /\ c.failed \in BOOLEAN
  BY <1>0 DEF MainInv, CallRecord
<1>2. todo' = todo /\ up' = up
  BY DEF BeginAbort, StopAccount, CompleteAbort, process
<1>3. \A p \in Call : call'[p].at = "idle"
  BY <1>0, SysIsMain DEF Acted, Others, MainInv, Proc
<1>4. a \in Account
  BY <1>0, <1>13 DEF ProcInv, StageInv, AuthTarget, LocalTarget
<1>5. /\ \A b \in Account \ {a} : row'[b] = row[b]
      /\ row'[a] = row[a] \/ row'[a].logout = FALSE
  <2>1. row' = row \/ row' = Moved(a, "disconnecting", FALSE) \/ row' = Moved(a, "disconnected", FALSE)
    BY <1>13 DEF BeginAbort, StopAccount, CompleteAbort, rows
  <2> QED
    BY <1>0, <1>4, <2>1, MovedRow, StatusNames
<1>6. \A b \in Account : b \notin Intents => b \notin Intents'
  BY <1>5 DEF Intents
<1>7. \A b \in Account \ {a} : Settled(b) => Settled(b)'
  BY <1>5 DEF Settled, Intents
<1>8. /\ \A b \in todo : b \notin Intents
      /\ todo \subseteq Account
      /\ ~c.failed => \A b \in Account : b \in todo \/ Settled(b) \/ b = a
  BY <1>0, <1>13 DEF MainInv
<1>9. \/ /\ call'[Sys].at \in {"stop", "complete"} /\ call'[Sys].acct = a
         /\ call'[Sys].then = c.then /\ call'[Sys].failed = c.failed
      \/ /\ call'[Sys].at = "orphans"
         /\ ~call'[Sys].failed => ~c.failed /\ Settled(a)'
  <2>1. CASE \E s \in {"stop", "complete"} : Steps(Sys, s)
    BY <1>13, <2>1, CallFacts, StepsCall, SysIsMain DEF RequestStage
  <2>2. CASE AbortEnds(Sys, FALSE)
    BY <1>1, <2>2, SysAbortEnds
  <2>3. CASE CompleteAbort(Sys) /\ AbortEnds(Sys, TRUE)
             /\ (row' = Moved(a, "disconnected", FALSE) \/ (row' = row /\ row[a].status = "disconnected"))
    <3>1. call'[Sys].at = "orphans" /\ call'[Sys].failed = c.failed
      BY <1>1, <2>3, SysAbortEnds
    <3>2. row'[a].status = "disconnected"
      BY <1>0, <1>4, <2>3, MovedRow, StatusNames
    <3> QED
      BY <3>1, <3>2 DEF Settled
  <2> QED
    BY <1>13, <2>1, <2>2, <2>3 DEF BeginAbort, StopAccount, CompleteAbort, IsAt, rows
<1>10. \A b \in todo : b \notin Intents'
  BY <1>6, <1>8
<1>11. CASE /\ call'[Sys].at \in {"stop", "complete"} /\ call'[Sys].acct = a
            /\ call'[Sys].then = c.then /\ call'[Sys].failed = c.failed
  <2>1. ~call'[Sys].failed => \A b \in Account : b \in todo \/ Settled(b)' \/ b = a
    BY <1>7, <1>8, <1>11
  <2> QED
    BY <1>1, <1>2, <1>3, <1>8, <1>10, <1>11, <2>1 DEF MainInv
<1>12. CASE /\ call'[Sys].at = "orphans"
            /\ ~call'[Sys].failed => ~c.failed /\ Settled(a)'
  <2>1. ~call'[Sys].failed => \A b \in Account : b \in todo \/ Settled(b)'
    BY <1>7, <1>8, <1>12
  <2> QED
    BY <1>2, <1>3, <1>8, <1>10, <1>12, <2>1 DEF MainInv
<1> QED
  BY <1>9, <1>11, <1>12

\* The call of the main goroutine goes on within its phase.
LEMMA SysProceedsMain ==
    ASSUME Living, Proceeds(Sys)
    PROVE  MainInv'
<1>0. TypeOK /\ MainInv /\ call[Sys] \in CallRecord
  BY CallFacts, SysIsMain DEF Living, LifecycleInv
<1>1. CASE up = "starting"
  <2>1. call[Sys].at \in {"idle", "intents", "revoke", "mark", "orphans", "abort", "stop", "complete"}
    BY <1>0, <1>1 DEF MainInv
  <2>2. \/ Revoke(Sys) \/ RevokeFails(Sys) \/ MarkDisconnected(Sys)
        \/ BeginAbort(Sys) \/ StopAccount(Sys) \/ CompleteAbort(Sys)
    BY <2>1 DEF Proceeds, Prepare, SendCode, SendCodeFails, Commit, SignedIn, NotSignedIn, SignInAborts,
       Finalize, Remove, PersistIntent
  <2> QED
    BY <1>1, <2>2, IntentMain, OrphanMain
<1>2. CASE up = "stopping"
  <2>1. /\ call[Sys].at \in {"gate", "snapshot", "sweep", "abort", "stop", "complete", "remove", "exit"}
        /\ call[Sys].at \in {"abort", "stop", "complete", "remove"} => call[Sys].then = "swept"
        /\ todo \subseteq {q \in Request : challenge[q].acct # None}
    BY <1>0, <1>2 DEF MainInv
  <2>2. BeginAbort(Sys) \/ StopAccount(Sys) \/ CompleteAbort(Sys) \/ Remove(Sys)
    BY <2>1 DEF Proceeds, Prepare, SendCode, SendCodeFails, Commit, SignedIn, NotSignedIn, SignInAborts,
       Finalize, PersistIntent, Revoke, RevokeFails, MarkDisconnected
  <2>3. call[Sys].then = "swept"
    BY <2>1, <2>2 DEF BeginAbort, StopAccount, CompleteAbort, Remove
  <2>4. todo' = todo /\ up' = up
    BY <2>2 DEF BeginAbort, StopAccount, CompleteAbort, Remove, process
  <2>5. call'[Sys].at \in {"stop", "complete", "remove", "sweep"} /\ call'[Sys].then = "swept"
    <3>1. CASE \E s \in {"stop", "complete", "sweep"} : Steps(Sys, s)
      BY <2>3, <3>1, CallFacts, StepsCall, SysIsMain DEF RequestStage, MainStage
    <3>2. CASE AbortEnds(Sys, FALSE)
      BY <2>3, <3>2, SysAbortEnds
    <3>3. CASE AbortEnds(Sys, TRUE)
      <4>1. call[Sys].failed \in BOOLEAN
        BY <1>0 DEF CallRecord
      <4> QED
        BY <2>3, <3>3, <4>1, SysAbortEnds
    <3> QED
      BY <2>2, <2>3, <3>1, <3>2, <3>3 DEF BeginAbort, StopAccount, CompleteAbort, Remove
  <2> QED
    BY <1>2, <2>1, <2>4, <2>5, StoppingMain
<1>3. CASE up \in {"serving", "unrouted", "down"}
  <2>1. call[Sys].at = "idle"
    BY <1>0, <1>3 DEF MainInv
  <2> QED
    BY <2>1 DEF Proceeds, Prepare, SendCode, SendCodeFails, Commit, SignedIn, NotSignedIn, SignInAborts,
       Finalize, BeginAbort, StopAccount, CompleteAbort, Remove, PersistIntent, Revoke, RevokeFails,
       MarkDisconnected
<1> QED
  BY <1>0, <1>1, <1>2, <1>3 DEF TypeOK

\* A step of main at startup.
LEMMA StartingMain ==
    ASSUME Living, Acted(Sys), up = "starting", up' = "starting",
           call'[Sys].at \in {"idle", "intents", "revoke", "mark", "orphans", "abort", "stop", "complete"},
           call'[Sys].at \in {"abort", "stop", "complete"} => call'[Sys].then \in {"recovered", "completed"},
           todo' \subseteq Account,
           row' = row,
           call'[Sys].at \in {"intents", "revoke", "mark"} => todo' \subseteq Intents,
           call'[Sys].at \in {"revoke", "mark"} => call'[Sys].acct \notin todo',
           call'[Sys].at \in {"orphans", "abort", "stop", "complete"} =>
              /\ \A a \in todo' : a \notin Intents
              /\ ~call'[Sys].failed =>
                    \A a \in Account :
                        a \in todo' \/ Settled(a) \/ (call'[Sys].at # "orphans" /\ a = call'[Sys].acct)
    PROVE  MainInv'
<1>1. Intents' = Intents /\ \A a \in Account : Settled(a)' <=> Settled(a)
  <2>1. Intents' = Intents
    BY DEF Intents
  <2> QED
    BY <2>1 DEF Settled
<1>2. \A p \in Call : call'[p].at = "idle"
  BY SysIsMain DEF Living, LifecycleInv, MainInv, Acted, Others, Proc
<1> QED
  BY <1>1, <1>2 DEF MainInv

\* Recovery takes what it has loaded one after the other, ...
LEMMA BootMain ==
    ASSUME Living, BootIntents \/ RecoverIntent \/ BootOrphans \/ RecoverOrphan
    PROVE  MainInv'
<1>0. TypeOK /\ MainInv /\ row' = row /\ up' = up /\ Acted(Sys)
  BY MainActs DEF Living, LifecycleInv, BootIntents, RecoverIntent, BootOrphans, RecoverOrphan, rows, Main
<1>1. up = "starting"
  BY <1>0 DEF MainInv, TypeOK, BootIntents, RecoverIntent, BootOrphans, RecoverOrphan
<1>2. Intents \subseteq Account /\ Orphans \subseteq Account
  BY DEF Intents, Orphans
<1>3. CASE BootIntents
  <2>1. call'[Sys].at = "intents" /\ todo' = Intents
    BY <1>3, CallFacts, StepsCall, SysIsMain DEF BootIntents, MainStage
  <2> QED
    BY <1>0, <1>1, <1>2, <2>1, StartingMain
<1>4. CASE RecoverIntent
  <2>1. PICK a \in todo : todo' = todo \ {a} /\ Takes(Sys, "revoke", a, row[a].version, 0, "none", <<>>)
    BY <1>4 DEF RecoverIntent
  <2>2. todo \subseteq Intents /\ todo \subseteq Account
    BY <1>0, <1>1, <1>4 DEF MainInv, RecoverIntent
  <2>3. row[a].version \in Nat
    BY <1>0, <2>1, <2>2 DEF TypeOK
  <2>4. call'[Sys].at = "revoke" /\ call'[Sys].acct = a
    BY <2>1, <2>2, <2>3, CallFacts, TakesCall, SysIsMain DEF RequestStage, Then, Own
  <2> QED
    BY <1>0, <1>1, <1>2, <2>1, <2>2, <2>4, StartingMain
<1>5. CASE BootOrphans
  <2>1. call'[Sys].at = "orphans" /\ todo' = Orphans
    BY <1>5, CallFacts, StepsCall, SysIsMain DEF BootOrphans, MainStage
  <2>2. \A a \in Account : a \in Orphans \/ Settled(a)
    BY <1>0, StatusNames DEF TypeOK, Orphans, Settled
  <2>3. \A a \in Orphans : a \notin Intents
    BY DEF Orphans
  <2> QED
    BY <1>0, <1>1, <1>2, <2>1, <2>2, <2>3, StartingMain
<1>6. CASE RecoverOrphan
  <2>1. PICK a \in todo :
           /\ todo' = todo \ {a}
           /\ \/ Takes(Sys, "abort", a, row[a].version, 0, "recovered", <<>>)
              \/ Takes(Sys, "stop", a, row[a].version, 0, "completed", <<>>)
    BY <1>6 DEF RecoverOrphan
  <2>2. /\ todo \subseteq Account /\ \A b \in todo : b \notin Intents
        /\ ~call[Sys].failed => \A b \in Account : b \in todo \/ Settled(b)
    BY <1>0, <1>1, <1>6 DEF MainInv, RecoverOrphan
  <2>3. row[a].version \in Nat
    BY <1>0, <2>1, <2>2 DEF TypeOK
  <2>4. /\ call'[Sys].at \in {"abort", "stop"} /\ call'[Sys].acct = a
        /\ call'[Sys].then \in {"recovered", "completed"}
        /\ call'[Sys].failed = call[Sys].failed
    BY <2>1, <2>2, <2>3, CallFacts, TakesCall, SysIsMain DEF RequestStage, Then, Own
  <2>5. ~call'[Sys].failed => \A b \in Account : b \in todo' \/ Settled(b) \/ b = a
    BY <2>1, <2>2, <2>4
  <2> QED
    BY <1>0, <1>1, <2>1, <2>2, <2>4, <2>5, StartingMain
<1> QED
  BY <1>3, <1>4, <1>5, <1>6

\* ... then the process serves, ...
LEMMA ServesMain ==
    ASSUME Living, BootServes \/ BootLeavesOut
    PROVE  MainInv'
<1>1. call'[Sys].at = "idle" /\ todo' = {} /\ up' \in {"serving", "unrouted"}
  <2>1. call' = [call EXCEPT ![Sys] = IdleCall]
    BY DEF BootServes, BootLeavesOut
  <2>2. call'[Sys].at = "idle"
    BY <2>1, CallFacts, SysIsMain DEF IdleCall
  <2> QED
    BY <2>2 DEF BootServes, BootLeavesOut
<1> QED
  BY <1>1 DEF MainInv

\* ... and shuts down in the order of its phases.
LEMMA ShutdownMain ==
    ASSUME Living, ShutdownBegins \/ CloseAdmission \/ Snapshot \/ Sweep \/ StopRuntime
    PROVE  MainInv'
<1>0. TypeOK /\ MainInv
  BY DEF Living, LifecycleInv
<1>1. CASE ShutdownBegins
  <2>1. todo' = {} /\ up' = "stopping"
    BY <1>0, <1>1 DEF ShutdownBegins, MainInv
  <2>2. PICK s \in {"gate", "sweep"} : Steps(Sys, s)
    <3>1. (IF up = "serving" THEN "gate" ELSE "sweep") \in {"gate", "sweep"}
      OBVIOUS
    <3> QED
      BY <1>1, <3>1 DEF ShutdownBegins
  <2>3. call'[Sys].at = s
    BY <2>2, CallFacts, StepsCall, SysIsMain DEF MainStage
  <2> QED
    BY <2>1, <2>2, <2>3, StoppingMain
<1>2. CASE CloseAdmission \/ Snapshot \/ Sweep \/ StopRuntime
  <2>1. up = "stopping" /\ up' = "stopping"
    BY <1>0, <1>2 DEF MainInv, TypeOK, CloseAdmission, Snapshot, Sweep, StopRuntime, process
  <2>2. todo \subseteq {q \in Request : challenge[q].acct # None}
    BY <1>0, <2>1 DEF MainInv
  <2>3. Live \subseteq {q \in Request : challenge[q].acct # None}
    BY DEF Live, Living, LifecycleInv, ChallengeOK
  <2>4. todo' \subseteq {q \in Request : challenge[q].acct # None}
    BY <1>2, <2>2, <2>3 DEF CloseAdmission, Snapshot, Sweep, StopRuntime, process
  <2>5. CASE \E s \in {"snapshot", "sweep", "exit"} : Steps(Sys, s)
    <3>1. call'[Sys].at \in {"snapshot", "sweep", "exit"}
      BY <2>5, CallFacts, StepsCall, SysIsMain DEF MainStage
    <3> QED
      BY <2>1, <2>4, <3>1, StoppingMain
  <2>6. CASE Sweep
    <3>1. PICK q \in todo : Takes(Sys, "abort", challenge[q].acct, challenge[q].ver, q, "swept", <<>>)
      BY <2>6 DEF Sweep
    <3>2. q \in Request /\ challenge[q] \in ChallengeRecord
      BY <1>0, <2>2, <3>1, ChallengeTypes
    <3>3. call'[Sys].at = "abort" /\ call'[Sys].then = "swept"
      <4>1. PICK b \in Account \cup {None}, v \in Nat : b = challenge[q].acct /\ v = challenge[q].ver
        BY <3>2 DEF ChallengeRecord
      <4> QED
        BY <3>1, <3>2, <4>1, CallFacts, TakesCall, SysIsMain DEF RequestStage, Then, Own
    <3> QED
      BY <2>1, <2>4, <3>3, StoppingMain
  <2> QED
    BY <1>2, <2>5, <2>6 DEF CloseAdmission, Snapshot, StopRuntime
<1> QED
  BY <1>1, <1>2

\* A restart begins with recovery.
LEMMA RestartMain ==
    ASSUME Living, Restart
    PROVE  MainInv'
<1>1. /\ call' = call /\ todo' = todo /\ up = "down" /\ up' = "starting"
      /\ MainInv
  BY DEF Living, LifecycleInv, Restart
<1>2. call[Sys].at = "idle" /\ todo = {} /\ \A p \in Call : call[p].at = "idle"
  BY <1>1 DEF MainInv
<1> QED
  BY <1>1, <1>2 DEF MainInv

\* A living step keeps what is said of recovery and shutdown.
LEMMA MainKeeps ==
    ASSUME Living, [Next]_vars, ~Dies
    PROVE  MainInv'
<1>1. CASE \E p \in Proc : Requests(p) \/ Proceeds(p)
  <2>1. PICK p \in Proc : Requests(p) \/ Proceeds(p)
    BY <1>1
  <2>2. Requests(p) => p \in Call
    BY DEF Requests, StartBegin, Disconnect, Expire, Submit, Cancel, Opens, Asks
  <2> QED
    BY <2>1, <2>2, RequestMain, SysProceedsMain DEF Proc
<1>2. CASE Main
  BY <1>2, BootMain, ServesMain, ShutdownMain DEF Main
<1>3. CASE Environment /\ ~ShutdownBegins /\ ~Restart
  <2>0. TypeOK /\ MainInv
    BY DEF Living, LifecycleInv
  <2>1. call' = call /\ todo' = todo /\ up' = up
    BY <1>3, Zenon DEF Environment, Resolve, Use, StoreSession, Evict, RowDue, ChallengeDue, StoneDue, process
  <2>2. row' = row \/ \E a \in Account : row' = [row EXCEPT ![a] = [row[a] EXCEPT !.due = TRUE]]
    BY <1>3, Zenon DEF Environment, Resolve, Use, StoreSession, Evict, RowDue, ChallengeDue, StoneDue, rows
  <2>3. \A b \in Account : row'[b].status = row[b].status /\ row'[b].logout = row[b].logout
    BY <2>0, <2>2 DEF TypeOK
  <2>4. up \in {"starting", "down"} => \A p \in Call : call'[p].at = "idle"
    BY <2>0, <2>1 DEF MainInv
  <2> QED
    BY <2>1, <2>3, <2>4, MainUntouched
<1>4. CASE UNCHANGED vars
  <2>1. call' = call /\ todo' = todo /\ up' = up /\ row' = row
    BY <1>4 DEF vars
  <2>2. up \in {"starting", "down"} => \A p \in Call : call'[p].at = "idle"
    BY <2>1 DEF Living, LifecycleInv, MainInv
  <2> QED
    BY <2>1, <2>2, MainUntouched
<1> QED
  BY <1>1, <1>2, <1>3, <1>4, ShutdownMain, RestartMain DEF Next

-----------------------------------------------------------------------------
(* A death leaves PostgreSQL and Telegram.                                 *)

\* A death leaves only what is in the database and at Telegram.
LEMMA DeathKeeps ==
    ASSUME LifecycleInv, Dies
    PROVE  LifecycleInv'
<1>0. [Next]_vars
  BY DEF Next, Environment
<1>1. TypeOK' /\ SessionsFollowStatus'
  BY <1>0, TypeSteps, EveryoneMoves, StatusesKeep
<1> DEFINE idle == IdleCall
<1>2. call' = [p \in Proc |-> idle] /\ up' = "down" /\ todo' = {}
  BY DEF Dies
<1>3. idle \in CallRecord /\ Over(idle)
  BY IdleIsOver
<1> HIDE DEF idle
<1>4. CallTypes' /\ \A p \in Proc : Over(call'[p])
  BY <1>2, <1>3 DEF CallTypes, Over, RequestStage, Proc
<1>5. ASSUME NEW p \in Proc PROVE ProcInv(p)'
  <2>1. Over(call'[p])
    BY <1>4
  <2> QED
    BY <2>1 DEF ProcInv, Matches, OwnInv, StageInv, Over
<1>6. ASSUME NEW q \in Request PROVE ChallengeOK(q)'
  <2>1. challenge'[q].acct = None /\ challenge'[q].state \in {"free", "gone"}
    <3>1. challenge' = [r \in Request |-> IF challenge[r].state = "free" THEN challenge[r]
                                          ELSE [NoChallenge EXCEPT !.state = "gone"]]
      BY DEF Dies
    <3>2. CASE challenge[q].state = "free"
      BY <3>1, <3>2 DEF LifecycleInv, ChallengeOK
    <3>3. CASE challenge[q].state # "free"
      <4>1. challenge'[q] = [NoChallenge EXCEPT !.state = "gone"]
        BY <3>1, <3>3
      <4> QED
        BY <4>1 DEF NoChallenge
    <3> QED
      BY <3>2, <3>3
  <2> QED
    BY <2>1 DEF ChallengeOK
<1>7. \A a \in Account : ClientOK(a)'
  BY DEF Dies, ClientOK
<1>8. MainInv'
  BY <1>2, <1>4, SysIsMain DEF MainInv, Over, Proc
<1> QED
  BY <1>1, <1>4, <1>5, <1>6, <1>7, <1>8 DEF LifecycleInv

\* Init establishes the invariant.
LEMMA InitInv ==
    ASSUME Init
    PROVE  LifecycleInv
<1> DEFINE idle == IdleCall
           free == NoChallenge
<1>1. call = [p \in Proc |-> idle] /\ challenge = [q \in Request |-> free]
  BY DEF Init
<1>2. idle \in CallRecord /\ Over(idle)
  BY IdleIsOver
<1>3. free \in ChallengeRecord /\ free.state = "free" /\ free.acct = None
  <2>1. 0 \in 0 .. MaxAttempts /\ FALSE \in BOOLEAN
    BY LifecycleAssumption
  <2>2. free = [state |-> "free", acct |-> None, ver |-> 0, stage |-> "code", ready |-> FALSE,
                pending |-> FALSE, due |-> FALSE, codes |-> 0, passwords |-> 0]
    BY DEF NoChallenge
  <2> HIDE DEF free
  <2> QED
    BY <2>1, <2>2 DEF ChallengeRecord
<1> HIDE DEF idle, free
<1>4. challenge \in [Request -> ChallengeRecord]
  BY <1>1, <1>3
<1>5. TypeOK
  <2>1. row \in [Account -> [status : Status, version : Nat \ {0}, logout : BOOLEAN, due : BOOLEAN]]
    <3> DEFINE r == NoRow
    <3>1. row = [a \in Account |-> r]
      BY DEF Init
    <3>2. r \in [status : Status, version : Nat \ {0}, logout : BOOLEAN, due : BOOLEAN]
      BY DEF NoRow, Status
    <3> HIDE DEF r
    <3> QED
      BY <3>1, <3>2
  <2>2. crashes \in 0 .. MaxCrashes
    BY LifecycleAssumption DEF Init
  <2> QED
    BY <1>4, <2>1, <2>2 DEF Init, TypeOK, ChallengeRecord
<1>6. CallTypes /\ \A p \in Proc : Over(call[p])
  BY <1>1, <1>2 DEF CallTypes, Over, RequestStage, Proc
<1>7. \A p \in Proc : ProcInv(p)
  BY <1>6 DEF ProcInv, Matches, OwnInv, StageInv, Over
<1>8. \A q \in Request : ChallengeOK(q)
  BY <1>1, <1>3 DEF ChallengeOK
<1>9. \A a \in Account : ClientOK(a)
  BY DEF Init, ClientOK
<1>10. MainInv
  <2>1. up = "starting" /\ todo = {}
    BY DEF Init
  <2> QED
    BY <1>6, <2>1, SysIsMain DEF MainInv, Over, Proc
<1>11. SessionsFollowStatus
  BY DEF Init, SessionsFollowStatus, NoRow
<1> QED
  BY <1>5, <1>6, <1>7, <1>8, <1>9, <1>10, <1>11 DEF LifecycleInv

-----------------------------------------------------------------------------
(* Stops that meet a client of another version.                            *)

\* The version that an abort completes is one at which the account disconnects.
AbortBegun(p) ==
    call[p].at \in {"stop", "complete"} => LocalTarget(call[p].acct, AbortVersion(call[p]))

\* Before the routes are there, no client runs but the ones that a recovery has
\* stopped.
StartsQuietly ==
    up \in {"starting", "down"} => \A a \in Account : held[a] = 0 /\ client[a] <= fence[a]

\* The step that a call is at after Steps, Takes and Returns.
LEMMA NextStage ==
    ASSUME call \in [Proc -> CallRecord], NEW p \in Proc
    PROVE  /\ \A s : Steps(p, s) => call'[p].at = s
           /\ \A s, a, v, q, t, o : Takes(p, s, a, v, q, t, o) => call'[p].at = s
           /\ Returns(p) => call'[p].at = "idle"
<1>1. call[p] \in CallRecord
  OBVIOUS
<1>2. ASSUME NEW s, Steps(p, s) PROVE call'[p].at = s
  <2>1. call'[p] = [call[p] EXCEPT !.at = s]
    BY <1>2 DEF Steps
  <2> QED
    BY <1>1, <2>1 DEF CallRecord
<1>3. ASSUME NEW s, NEW a, NEW v, NEW q, NEW t, NEW o, Takes(p, s, a, v, q, t, o)
      PROVE  call'[p].at = s
  <2>1. call'[p] = [call[p] EXCEPT !.at = s, !.acct = a, !.ver = v,
                                   !.req = q, !.then = t, !.own = o]
    BY <1>3 DEF Takes
  <2> QED
    BY <1>1, <2>1 DEF CallRecord
<1>4. ASSUME Returns(p) PROVE call'[p].at = "idle"
  BY <1>4, ReturnsCall DEF Over
<1> QED
  BY <1>2, <1>3, <1>4

\* Where the caller of an abort goes on.
LEMMA AbortEndsStage ==
    ASSUME call \in [Proc -> CallRecord], NEW p \in Proc, NEW ok, AbortEnds(p, ok)
    PROVE  call'[p].at \in {"idle", "remove", "abort", "sweep", "orphans"}
<1>1. CASE \/ Returns(p) \/ Steps(p, "remove") \/ Steps(p, "sweep")
           \/ Takes(p, "abort", call[p].own[1], call[p].own[2], 0, "none", <<>>)
  BY <1>1, NextStage
<1>2. ASSUME NEW b, call' = [call EXCEPT ![p] = [IdleCall EXCEPT !.at = "orphans", !.failed = b]]
      PROVE  call'[p].at = "orphans"
  <2>1. call'[p] = [IdleCall EXCEPT !.at = "orphans", !.failed = b]
    BY <1>2
  <2> QED
    BY <2>1 DEF IdleCall
<1>3. CASE call' = [call EXCEPT ![p] = [IdleCall EXCEPT !.at = "orphans",
                                                        !.failed = call[p].failed \/ ~ok]]
  <2>1. PICK b : b = (call[p].failed \/ ~ok)
    OBVIOUS
  <2> QED
    BY <1>2, <1>3, <2>1
<1> QED
  BY <1>1, <1>3, Zenon DEF AbortEnds

\* A request comes to stop a client after BeginAbort, and past it after that stop.
LEMMA CallsStop ==
    ASSUME Living, NEW p \in Proc, Requests(p) \/ Proceeds(p), call'[p].at \in {"stop", "complete"}
    PROVE  \/ StopAccount(p) /\ Steps(p, "complete")
           \/ BeginAbort(p) /\ Steps(p, "stop")
<1>0. call \in [Proc -> CallRecord]
  BY CallFacts
<1>1. ~Returns(p) /\ ~AbortEnds(p, TRUE) /\ ~AbortEnds(p, FALSE)
  BY <1>0, NextStage, AbortEndsStage
<1>4. /\ ~Steps(p, "commit") /\ ~Steps(p, "finalize") /\ ~Steps(p, "abort") /\ ~Steps(p, "mark")
      /\ ~Steps(p, "sweep") /\ ~Steps(p, "intents")
  BY <1>0, NextStage
<1>5. \A a, v, q, t, o :
         /\ ~Takes(p, "prepare", a, v, q, t, o) /\ ~Takes(p, "send", a, v, q, t, o)
         /\ ~Takes(p, "signin", a, v, q, t, o) /\ ~Takes(p, "finalize", a, v, q, t, o)
         /\ ~Takes(p, "abort", a, v, q, t, o)
         /\ ~Takes(p, "intent", a, v, q, t, o) /\ ~Takes(p, "revoke", a, v, q, t, o)
  BY <1>0, NextStage
<1>2. CASE Requests(p)
  <2>1. ASSUME NEW a \in Account, StartBegin(p, a) PROVE call' = call
    BY <1>1, <1>4, <1>5, <2>1, Zenon DEF StartBegin
  <2>2. ASSUME NEW a \in Account, Disconnect(p, a) PROVE FALSE
    BY <1>1, <1>4, <1>5, <2>2, Zenon DEF Disconnect
  <2>3. ASSUME NEW q \in Request, Expire(p, q) \/ Cancel(p, q) PROVE FALSE
    BY <1>1, <1>4, <1>5, <2>3, Zenon DEF Expire, Cancel
  <2>4. ASSUME NEW q \in Request, NEW k, Submit(p, q, k) PROVE FALSE
    BY <1>1, <1>4, <1>5, <2>4, Zenon DEF Submit
  <2>5. call' = call /\ Asks(p)
    BY <1>2, <2>1, <2>2, <2>3, <2>4 DEF Requests, StartBegin
  <2> QED
    BY <2>5 DEF Asks
<1>3. CASE Proceeds(p)
  <2>1. ~Prepare(p)
    BY <1>1, <1>4, <1>5, Zenon DEF Prepare
  <2>2. ~SendCode(p) /\ ~SendCodeFails(p) /\ ~Commit(p)
    BY <1>1, <1>4, <1>5, Zenon DEF SendCode, SendCodeFails, Commit
  <2>3. ~SignedIn(p) /\ ~NotSignedIn(p) /\ ~SignInAborts(p) /\ ~Finalize(p)
    BY <1>1, <1>4, <1>5, Zenon DEF SignedIn, NotSignedIn, SignInAborts, Finalize
  <2>4. ~CompleteAbort(p) /\ ~Remove(p) /\ ~PersistIntent(p)
    BY <1>1, <1>4, <1>5, Zenon DEF CompleteAbort, Remove, PersistIntent
  <2>5. ~Revoke(p) /\ ~RevokeFails(p) /\ ~MarkDisconnected(p)
    BY <1>1, <1>4, <1>5, Zenon DEF Revoke, RevokeFails, MarkDisconnected, RevokePending
  <2>6. StopAccount(p) => Steps(p, "complete")
    BY <1>1 DEF StopAccount
  <2>7. BeginAbort(p) => Steps(p, "stop")
    BY <1>1 DEF BeginAbort
  <2> QED
    BY <1>3, <2>1, <2>2, <2>3, <2>4, <2>5, <2>6, <2>7 DEF Proceeds
<1> QED
  BY <1>2, <1>3

\* When BeginAbort is done, the account disconnects at the version after.
LEMMA BeginAbortBegins ==
    ASSUME Living, NEW p \in Proc, BeginAbort(p), Steps(p, "stop")
    PROVE  AbortBegun(p)'
<1>0. TypeOK /\ TypeOK' /\ call \in [Proc -> CallRecord] /\ Typed(p) /\ ProcInv(p) /\ call[p].at = "abort"
  BY CallFacts DEF Living, LifecycleInv, BeginAbort
<1>1. PICK a, v : a = call[p].acct /\ v = call[p].ver
  OBVIOUS
<1>2. AuthTarget(a, v) /\ call[p].then # "completed"
  BY <1>0, <1>1 DEF ProcInv, StageInv, Typed
<1>3. /\ a \in Account /\ v \in Nat \ {0} /\ row[a].version \in Nat /\ row[a].logout \in BOOLEAN
      /\ row \in [Account -> [status : Status, version : Nat \ {0}, logout : BOOLEAN, due : BOOLEAN]]
  BY <1>0, <1>2 DEF AuthTarget, TypeOK
<1>4. ~AbortEnds(p, FALSE)
  BY <1>0, NextStage, AbortEndsStage
<1>5. \/ IsAt(a, "authenticating", v) /\ row' = Moved(a, "disconnecting", FALSE)
      \/ (IsAt(a, "disconnecting", v + 1) \/ IsAt(a, "disconnected", v + 2)) /\ row' = row
  BY <1>1, <1>4 DEF BeginAbort
<1>6. LocalTarget(a, v + 1)'
  <2>1. CASE IsAt(a, "authenticating", v) /\ row' = Moved(a, "disconnecting", FALSE)
    <3>1. row'[a].status = "disconnecting" /\ row'[a].version = v + 1 /\ row'[a].logout = FALSE
      <4>1. row'[a] = [status |-> "disconnecting", version |-> row[a].version + 1,
                       logout |-> FALSE, due |-> FALSE]
        BY <1>3, <2>1 DEF Moved
      <4>2. row[a].version = v
        BY <2>1 DEF IsAt
      <4> QED
        BY <4>1, <4>2
    <3> QED
      BY <1>3, <3>1 DEF LocalTarget
  <2>2. CASE (IsAt(a, "disconnecting", v + 1) \/ IsAt(a, "disconnected", v + 2)) /\ row' = row
    BY <1>2, <1>3, <2>2 DEF LocalTarget, AuthTarget, IsAt
  <2> QED
    BY <1>5, <2>1, <2>2
<1>7. call'[p].acct = a /\ call'[p].ver = v /\ call'[p].then = call[p].then
  BY <1>0, <1>1, StepsCall DEF RequestStage
<1>8. AbortVersion(call[p])' = v + 1
  BY <1>2, <1>7 DEF AbortVersion
<1> QED
  BY <1>6, <1>7, <1>8 DEF AbortBegun

\* An abort that goes on is of the same version, and it stays begun.
LEMMA BegunGoesOn ==
    ASSUME Living, NEW p \in Proc, AbortBegun(p), call[p].at \in {"stop", "complete"},
           call'[p].acct = call[p].acct, call'[p].ver = call[p].ver, call'[p].then = call[p].then
    PROVE  AbortBegun(p)'
<1>1. PICK a, w : a = call[p].acct /\ w = AbortVersion(call[p])
  OBVIOUS
<1>2. LocalTarget(a, w)'
  BY <1>1, LocalKept DEF AbortBegun
<1>3. AbortVersion(call[p])' = w
  BY <1>1 DEF AbortVersion
<1> QED
  BY <1>1, <1>2, <1>3 DEF AbortBegun

\* Every step keeps what was begun.
LEMMA BegunKept ==
    ASSUME Living, [Next]_vars, ~Dies, \A p \in Proc : AbortBegun(p)
    PROVE  \A p \in Proc : AbortBegun(p)'
<1>1. ASSUME NEW p \in Proc, call'[p] = call[p] PROVE AbortBegun(p)'
  <2>1. CASE call[p].at \in {"stop", "complete"}
    BY <1>1, <2>1, BegunGoesOn
  <2>2. CASE call[p].at \notin {"stop", "complete"}
    BY <1>1, <2>2 DEF AbortBegun
  <2> QED
    BY <2>1, <2>2
<1>2. ASSUME NEW p \in Proc, Requests(p) \/ Proceeds(p), NEW q \in Proc PROVE AbortBegun(q)'
  <2>1. CASE q # p
    <3>1. call'[q] = call[q]
      BY <1>2, <2>1, RequestActs DEF Acted, Others
    <3> QED
      BY <1>1, <3>1
  <2>2. CASE q = p /\ call'[p].at \notin {"stop", "complete"}
    BY <2>2 DEF AbortBegun
  <2>3. CASE q = p /\ StopAccount(p) /\ Steps(p, "complete")
    <3>1. call'[p].acct = call[p].acct /\ call'[p].ver = call[p].ver /\ call'[p].then = call[p].then
      BY <2>3, CallFacts, StepsCall DEF RequestStage
    <3> QED
      BY <1>2, <2>3, <3>1, BegunGoesOn DEF StopAccount
  <2>4. CASE q = p /\ BeginAbort(p) /\ Steps(p, "stop")
    BY <2>4, BeginAbortBegins
  <2> QED
    BY <1>2, <2>1, <2>2, <2>3, <2>4, CallsStop
<1>3. ASSUME Acted(Sys), call'[Sys].at \notin {"stop", "complete"}, NEW p \in Proc
      PROVE  AbortBegun(p)'
  <2>1. CASE p # Sys
    <3>1. call'[p] = call[p]
      BY <1>3, <2>1 DEF Acted, Others
    <3> QED
      BY <1>1, <3>1
  <2>2. CASE p = Sys
    BY <1>3, <2>2 DEF AbortBegun
  <2> QED
    BY <2>1, <2>2
<1>4. ASSUME RecoverOrphan, NEW p \in Proc PROVE AbortBegun(p)'
  <2>0. TypeOK /\ MainInv /\ row' = row /\ call[Sys].at = "orphans" /\ Acted(Sys)
    BY <1>4, RecoverOrphanActs DEF Living, LifecycleInv, RecoverOrphan, rows
  <2>1. PICK a \in todo :
           \/ Takes(Sys, "abort", a, row[a].version, 0, "recovered", <<>>)
           \/ /\ row[a].status = "disconnecting"
              /\ Takes(Sys, "stop", a, row[a].version, 0, "completed", <<>>)
    BY <1>4 DEF RecoverOrphan
  <2>2. a \in Account /\ a \notin Intents
    BY <2>0, <2>1 DEF MainInv, TypeOK
  <2>3. CASE call'[Sys].at \notin {"stop", "complete"}
    BY <1>3, <2>0, <2>3
  <2>4. CASE /\ row[a].status = "disconnecting"
             /\ Takes(Sys, "stop", a, row[a].version, 0, "completed", <<>>)
    <3>1. PICK v \in Nat \ {0} : v = row[a].version
      BY <2>0, <2>2 DEF TypeOK
    <3>2. LocalTarget(a, v)'
      BY <2>0, <2>2, <2>4, <3>1 DEF LocalTarget, Intents
    <3>3. call'[Sys].acct = a /\ call'[Sys].ver = v /\ call'[Sys].then = "completed"
      BY <2>2, <2>4, <3>1, CallFacts, TakesCall, SysIsMain DEF RequestStage, Then, Own
    <3>4. AbortVersion(call[Sys])' = v
      BY <3>3 DEF AbortVersion
    <3>5. AbortBegun(Sys)'
      BY <3>2, <3>3, <3>4 DEF AbortBegun
    <3>6. p # Sys => call'[p] = call[p]
      BY <2>0 DEF Acted, Others
    <3> QED
      BY <1>1, <3>5, <3>6
  <2>5. Takes(Sys, "abort", a, row[a].version, 0, "recovered", <<>>) => call'[Sys].at = "abort"
    BY CallFacts, NextStage, SysIsMain
  <2> QED
    BY <2>1, <2>3, <2>4, <2>5
<1>5. ASSUME Main \/ ShutdownBegins, ~RecoverOrphan PROVE call'[Sys].at \notin {"stop", "complete"}
  <2>1. call \in [Proc -> CallRecord] /\ Sys \in Proc
    BY CallFacts, SysIsMain
  <2>2. call' = [call EXCEPT ![Sys] = IdleCall] => call'[Sys].at = "idle"
    BY <2>1, IdleIsOver DEF Over
  <2>3. ASSUME Steps(Sys, IF up = "serving" THEN "gate" ELSE "sweep")
        PROVE  call'[Sys].at \in {"gate", "sweep"}
    BY <2>1, <2>3, NextStage
  <2>4. \/ Steps(Sys, "intents") \/ Steps(Sys, "orphans") \/ Steps(Sys, "snapshot") \/ Steps(Sys, "sweep")
        \/ Steps(Sys, "exit") \/ Steps(Sys, IF up = "serving" THEN "gate" ELSE "sweep")
        \/ call' = [call EXCEPT ![Sys] = IdleCall]
        \/ \E a : Takes(Sys, "revoke", a, row[a].version, 0, "none", <<>>)
        \/ \E q : Takes(Sys, "abort", challenge[q].acct, challenge[q].ver, q, "swept", <<>>)
    BY <1>5, Zenon DEF Main, BootIntents, RecoverIntent, BootOrphans, BootServes, BootLeavesOut,
       CloseAdmission, Snapshot, Sweep, StopRuntime, ShutdownBegins
  <2> QED
    BY <2>1, <2>2, <2>3, <2>4, NextStage
<1>6. CASE Main \/ ShutdownBegins
  BY <1>3, <1>4, <1>5, <1>6, MainActs, ShutdownActs
<1>7. CASE Environment /\ ~ShutdownBegins
  <2>1. call' = call
    BY <1>7, Zenon DEF Environment, Resolve, Use, StoreSession, Evict, RowDue, ChallengeDue, StoneDue,
       Restart
  <2> QED
    BY <1>1, <2>1
<1>8. CASE UNCHANGED vars
  BY <1>1, <1>8 DEF vars
<1> QED
  BY <1>2, <1>6, <1>7, <1>8 DEF Next

\* Only a death and a restart lead back to the beginning.
LEMMA BirthSteps ==
    ASSUME LifecycleInv, [Next]_vars, up' \in {"starting", "down"}, ~Dies
    PROVE  up \in {"starting", "down"}
<1>1. ASSUME NEW p \in Proc, Requests(p) PROVE up' = up
  BY <1>1, Zenon DEF Requests, StartBegin, Disconnect, Expire, Submit, Cancel, process
<1>2. ASSUME NEW p \in Proc, Proceeds(p) PROVE up' = up
  BY <1>2, Zenon DEF Proceeds, Prepare, SendCode, SendCodeFails, Commit, SignedIn, NotSignedIn, SignInAborts,
     Finalize, BeginAbort, StopAccount, CompleteAbort, Remove, PersistIntent, Revoke, RevokeFails,
     MarkDisconnected, process
<1>3. Main => up' = up \/ up' = "serving" \/ up' = "unrouted"
  BY Zenon DEF Main, BootIntents, RecoverIntent, BootOrphans, RecoverOrphan, BootServes, BootLeavesOut,
     CloseAdmission, Snapshot, Sweep, StopRuntime, process
<1>4. Environment => up' = up \/ up' = "stopping" \/ up = "down"
  BY Zenon DEF Environment, Resolve, Use, StoreSession, Evict, RowDue, ChallengeDue, StoneDue,
     ShutdownBegins, Restart, process
<1>5. UNCHANGED vars => up' = up
  BY DEF vars
<1> QED
  BY <1>1, <1>2, <1>3, <1>4, <1>5 DEF Next

\* Every step keeps the beginning quiet: the recovery works on rows, and opens a
\* client for a remote logout only, which it fences first.
LEMMA QuietKept ==
    ASSUME LifecycleInv, TypeOK', [Next]_vars, StartsQuietly
    PROVE  StartsQuietly'
<1>1. CASE Dies
  BY <1>1 DEF Dies, StartsQuietly
<1>2. CASE ~Dies /\ up' \in {"starting", "down"}
  <2>1. up \in {"starting", "down"}
    BY <1>2, BirthSteps
  <2>2. \A a \in Account : held[a] = 0 /\ client[a] <= fence[a]
    BY <2>1 DEF StartsQuietly
  <2>3. ~Busy
    <3>1. \A p \in Call : call[p].at = "idle"
      BY <2>1 DEF LifecycleInv, MainInv
    <3>2. call[Sys].at \notin {"send", "signin"}
      BY <2>1 DEF LifecycleInv, MainInv
    <3> QED
      BY <2>2, <3>1, <3>2 DEF Busy, Proc
  <2>4. ASSUME NEW a \in Account PROVE held'[a] = 0 /\ client'[a] <= fence'[a]
    <3>1. /\ client[a] \in Nat /\ fence[a] \in Nat /\ client'[a] \in Nat /\ fence'[a] \in Nat
          /\ fence[a] <= fence'[a]
      BY <1>2, FenceSteps DEF LifecycleInv, TypeOK, FencesGrow
    <3>2. held'[a] = 0
      BY <2>1, <2>2, HeldSteps
    <3>3. client'[a] \in {0, client[a]} \/ fence'[a] = client'[a]
      BY <2>3, ClientSteps
    <3>4. client[a] <= fence[a]
      BY <2>2
    <3> QED
      BY <3>1, <3>2, <3>3, <3>4
  <2> QED
    BY <2>4 DEF StartsQuietly
<1>3. CASE up' \notin {"starting", "down"}
  BY <1>3 DEF StartsQuietly
<1> QED
  BY <1>1, <1>2, <1>3

\* A stop that meets another client is met by one that was left behind, or by
\* one of a later authentication.
LEMMA KillsAreExplained ==
    ASSUME LifecycleInv, StartsQuietly, NEW p \in Proc, AbortBegun(p), StopKills(p),
           row[call[p].acct].version <= call[p].ver + 2
    PROVE  client[call[p].acct] <= fence[call[p].acct]
<1> DEFINE c == call[p]
<1>1. PICK a, v : a = c.acct /\ v = c.ver
  OBVIOUS
<1>2. PICK w : w = AbortVersion(c)
  OBVIOUS
<1>3. /\ c.at = "stop" /\ ~runtimeStopped /\ client[a] # 0 /\ client[a] # v
      /\ row[a].version <= v + 2
  BY <1>1 DEF StopKills
<1>4. LocalTarget(a, w)
  BY <1>1, <1>2, <1>3 DEF AbortBegun
<1>5. /\ a \in Account /\ client[a] \in Nat /\ fence[a] \in Nat
      /\ row[a].version \in Nat /\ row[a].logout \in BOOLEAN /\ w \in Nat
  BY <1>4 DEF LifecycleInv, TypeOK, LocalTarget
<1>6. StageInv(p)
  BY DEF LifecycleInv, ProcInv
<1>7. CASE c.then = "completed"
  <2>1. Typed(p)
    BY DEF LifecycleInv, CallTypes, Typed, Proc
  <2>2. p = Sys
    BY <1>7, <2>1 DEF Typed, Proc
  <2>3. up = "starting"
    BY <1>3, <1>7, <2>2 DEF LifecycleInv, MainInv, TypeOK
  <2> QED
    BY <1>1, <1>5, <2>3 DEF StartsQuietly
<1>8. CASE c.then # "completed"
  <2>1. AuthTarget(a, v) /\ w = v + 1
    BY <1>1, <1>2, <1>3, <1>6, <1>8 DEF StageInv, AbortVersion
  <2>2. v \in Nat /\ v + 1 <= row[a].version /\ row[a].version <= v + 2
    BY <1>3, <1>4, <2>1 DEF LocalTarget, AuthTarget
  <2>3. ClientTarget(a, client[a])
    BY <1>3, <1>5 DEF LifecycleInv, ClientOK
  <2>4. CASE row[a].version = v + 1
    <3>1. row[a].status = "disconnecting" /\ ~row[a].logout
      BY <1>4, <2>1, <2>4 DEF LocalTarget
    <3>2. client[a] <= row[a].version /\ client[a] # row[a].version
      BY <2>3, <3>1 DEF ClientTarget
    <3>3. client[a] + 1 < row[a].version
      BY <1>3, <1>5, <2>2, <2>4, <3>2
    <3>4. Earlier(a, client[a])
      BY <3>1, <3>3 DEF Earlier
    <3> QED
      BY <1>1, <1>3, <2>3, <3>4 DEF ClientTarget, Passed
  <2>5. CASE row[a].version = v + 2
    <3>1. row[a].status = "disconnected"
      BY <1>4, <2>1, <2>2, <2>5 DEF LocalTarget
    <3>2. Earlier(a, client[a])
      BY <3>1 DEF Earlier
    <3> QED
      BY <1>1, <1>3, <2>3, <3>2 DEF ClientTarget, Passed
  <2>6. row[a].version = v + 1 \/ row[a].version = v + 2
    BY <1>5, <2>2
  <2> QED
    BY <2>4, <2>5, <2>6
<1> QED
  BY <1>7, <1>8

-----------------------------------------------------------------------------
(* Accounts that are signed in.                                            *)

\* An account that still is in the authentication of this version has been signed in.
Confirmed(a, v) == IsAt(a, "authenticating", v) => a \in authorized

\* What a request is about to activate, or a challenge lets it activate without
\* asking Telegram again, Telegram has signed in.
SignedInv ==
    /\ ActiveIsSignedIn
    /\ \A p \in Proc : call[p].at = "finalize" => Confirmed(call[p].acct, call[p].ver)
    /\ \A q \in Request :
          challenge[q].pending /\ challenge[q].acct # None =>
              Confirmed(challenge[q].acct, challenge[q].ver)

\* Telegram logs an account out for an intent: one it has, or an overdue one.
LEMMA AuthorizedLost ==
    ASSUME LifecycleInv, [Next]_vars, NEW a \in Account, a \in authorized, a \notin authorized'
    PROVE  row[a].status = "disconnecting" \/ \E p \in Proc : Overdue(p, a)
<1>1. PICK p \in Proc : CompleteAbort(p) \/ MarkDisconnected(p) \/ Revoke(p) \/ RevokeFails(p)
  <2>1. ~\E p \in Proc : Requests(p)
    <3> SUFFICES ASSUME NEW p \in Proc, Requests(p) PROVE UNCHANGED authorized
      OBVIOUS
    <3> QED
      BY Zenon DEF Requests, StartBegin, Disconnect, Expire, Submit, Cancel, rows
  <2>2. ASSUME NEW p \in Proc,
               \/ Prepare(p) \/ SendCode(p) \/ SendCodeFails(p) \/ Commit(p)
               \/ SignedIn(p) \/ NotSignedIn(p) \/ SignInAborts(p) \/ Finalize(p)
               \/ BeginAbort(p) \/ StopAccount(p) \/ Remove(p) \/ PersistIntent(p)
        PROVE  FALSE
    BY <2>2 DEF Prepare, SendCode, SendCodeFails, Commit, SignedIn, NotSignedIn, SignInAborts,
       Finalize, BeginAbort, StopAccount, Remove, PersistIntent
  <2>3. ~Main
    BY Zenon DEF Main, BootIntents, RecoverIntent, BootOrphans, RecoverOrphan, BootServes, BootLeavesOut,
       CloseAdmission, Snapshot, Sweep, StopRuntime
  <2>4. ~Environment
    BY Zenon DEF Environment, Resolve, Use, StoreSession, Evict, RowDue, ChallengeDue, StoneDue,
       ShutdownBegins, Dies, Restart
  <2>5. ~UNCHANGED vars
    BY DEF vars
  <2> QED
    BY <2>1, <2>2, <2>3, <2>4, <2>5 DEF Next, Proceeds
<1>2. call[p].acct = a
  BY <1>1 DEF CompleteAbort, MarkDisconnected, Revoke, RevokeFails
<1>3. CASE CompleteAbort(p) \/ MarkDisconnected(p)
  BY <1>2, <1>3 DEF CompleteAbort, MarkDisconnected, IsAt
<1>4. CASE Revoke(p) \/ RevokeFails(p)
  <2>1. call[p].at = "revoke" /\ IntentTarget(a, call[p].ver) /\ row[a].version \in Nat
    BY <1>2, <1>4 DEF Revoke, RevokeFails, LifecycleInv, ProcInv, StageInv, TypeOK
  <2> QED
    BY <1>2, <2>1 DEF IntentTarget, Overdue
<1> QED
  BY <1>1, <1>3, <1>4

\* Only Finalize activates an account, at the version that its call has.
LEMMA ActiveSteps ==
    ASSUME LifecycleInv, [Next]_vars, NEW a \in Account,
           row[a].status # "active", row'[a].status = "active"
    PROVE  \E p \in Proc : Finalize(p) /\ call[p].acct = a /\ IsAt(a, "authenticating", call[p].ver)
<1>0. TypeOK /\ row \in [Account -> [status : Status, version : Nat \ {0}, logout : BOOLEAN, due : BOOLEAN]]
  BY DEF LifecycleInv, TypeOK
<1>1. row' # row
  OBVIOUS
<1>2. ASSUME NEW b, NEW s, NEW l, row' = Moved(b, s, l), s # "active" PROVE FALSE
  <2>1. row'[a] = IF a = b THEN [status |-> s, version |-> row[a].version + 1, logout |-> l, due |-> FALSE]
                  ELSE row[a]
    BY <1>0, <1>2 DEF Moved
  <2>2. CASE a = b
    BY <1>2, <2>1, <2>2
  <2>3. CASE a # b
    BY <2>1, <2>3
  <2> QED
    BY <2>2, <2>3
<1>3. ASSUME NEW p \in Proc, Requests(p) PROVE FALSE
  <2>1. ~\E b \in Account : StartBegin(p, b)
    BY <1>1, <1>2 DEF StartBegin
  <2>2. \A b \in Account : ~Disconnect(p, b)
    BY <1>1, Zenon DEF Disconnect, rows
  <2>3. \A q \in Request : ~Expire(p, q) /\ ~Cancel(p, q)
    BY <1>1, Zenon DEF Expire, Cancel, rows
  <2>4. \A q \in Request, k \in {"code", "password"} : ~Submit(p, q, k)
    BY <1>1, Zenon DEF Submit, rows
  <2> QED
    BY <1>3, <2>1, <2>2, <2>3, <2>4 DEF Requests
<1>4. ASSUME NEW p \in Proc, Proceeds(p) PROVE Finalize(p)
  <2>1. ~(\/ Prepare(p) \/ SendCode(p) \/ SendCodeFails(p) \/ Commit(p)
          \/ SignedIn(p) \/ NotSignedIn(p) \/ SignInAborts(p)
          \/ StopAccount(p) \/ Remove(p) \/ Revoke(p) \/ RevokeFails(p))
    BY <1>1 DEF Prepare, SendCode, SendCodeFails, Commit, SignedIn, NotSignedIn, SignInAborts,
       StopAccount, Remove, Revoke, RevokeFails, rows
  <2>2. ~BeginAbort(p)
    BY <1>1, <1>2 DEF BeginAbort
  <2>3. ~CompleteAbort(p)
    BY <1>1, <1>2 DEF CompleteAbort, rows
  <2>4. ~PersistIntent(p) /\ ~MarkDisconnected(p)
    BY <1>1, <1>2 DEF PersistIntent, MarkDisconnected, rows
  <2> QED
    BY <1>4, <2>1, <2>2, <2>3, <2>4 DEF Proceeds
<1>5. ~Main
  BY <1>1, Zenon DEF Main, BootIntents, RecoverIntent, BootOrphans, RecoverOrphan, BootServes, BootLeavesOut,
     CloseAdmission, Snapshot, Sweep, StopRuntime, rows
<1>6. ~Environment
  <2>1. ASSUME NEW b \in Account, RowDue(b) PROVE FALSE
    <3>1. row'[a].status = row[a].status
      BY <1>0, <2>1 DEF RowDue
    <3> QED
      BY <3>1
  <2>2. Environment => (\E b \in Account : RowDue(b)) \/ row' = row
    BY Zenon DEF Environment, Resolve, Use, StoreSession, Evict, ChallengeDue, StoneDue, ShutdownBegins,
       Dies, Restart, rows
  <2> QED
    BY <1>1, <2>1, <2>2
<1>7. ~UNCHANGED vars
  BY <1>1 DEF vars
<1>8. PICK p \in Proc : Finalize(p)
  BY <1>3, <1>4, <1>5, <1>6, <1>7 DEF Next
<1>9. PICK b, v : b = call[p].acct /\ v = call[p].ver
  OBVIOUS
<1>10. IsAt(b, "authenticating", v) /\ row' = Moved(b, "active", FALSE)
  BY <1>1, <1>8, <1>9 DEF Finalize, Activates
<1>11. a = b
  <2>1. a # b => row'[a] = row[a]
    BY <1>0, <1>10 DEF Moved
  <2> QED
    BY <2>1
<1> QED
  BY <1>8, <1>9, <1>10, <1>11

\* A request comes to finalize when Telegram signs in, or had already.
LEMMA CallsFinalize ==
    ASSUME Living, NEW p \in Proc, Requests(p) \/ Proceeds(p), call'[p].at = "finalize"
    PROVE  \/ SignedIn(p)
           \/ \E q \in Request :
                 /\ challenge[q].pending /\ q \in Live /\ UNCHANGED <<rows, authorized>>
                 /\ Takes(p, "finalize", challenge[q].acct, challenge[q].ver, q, "tombstone", <<>>)
<1>0. call \in [Proc -> CallRecord]
  BY CallFacts
<1>1. ~Returns(p) /\ ~AbortEnds(p, TRUE) /\ ~AbortEnds(p, FALSE)
  BY <1>0, NextStage, AbortEndsStage
<1>2. /\ ~Steps(p, "commit") /\ ~Steps(p, "stop") /\ ~Steps(p, "complete") /\ ~Steps(p, "abort")
      /\ ~Steps(p, "mark") /\ ~Steps(p, "sweep") /\ ~Steps(p, "intents")
  BY <1>0, NextStage
<1>3. \A a, v, q, t, o :
         /\ ~Takes(p, "prepare", a, v, q, t, o) /\ ~Takes(p, "send", a, v, q, t, o)
         /\ ~Takes(p, "signin", a, v, q, t, o) /\ ~Takes(p, "abort", a, v, q, t, o)
         /\ ~Takes(p, "intent", a, v, q, t, o) /\ ~Takes(p, "revoke", a, v, q, t, o)
  BY <1>0, NextStage
<1>4. CASE Requests(p)
  <2>1. ASSUME NEW a \in Account, StartBegin(p, a) PROVE FALSE
    <3>1. call' = call /\ Asks(p)
      BY <1>1, <1>2, <1>3, <2>1, Zenon DEF StartBegin
    <3> QED
      BY <3>1 DEF Asks
  <2>2. ASSUME NEW a \in Account, Disconnect(p, a) PROVE FALSE
    BY <1>3, <2>2, Zenon DEF Disconnect
  <2>3. ASSUME NEW q \in Request, Expire(p, q) \/ Cancel(p, q) PROVE FALSE
    BY <1>3, <2>3, Zenon DEF Expire, Cancel
  <2>4. ASSUME NEW q \in Request, NEW k, Submit(p, q, k)
        PROVE  /\ challenge[q].pending /\ q \in Live /\ UNCHANGED <<rows, authorized>>
               /\ Takes(p, "finalize", challenge[q].acct, challenge[q].ver, q, "tombstone", <<>>)
    BY <1>3, <2>4, Zenon DEF Submit, Opens
  <2> QED
    BY <1>4, <2>1, <2>2, <2>3, <2>4 DEF Requests
<1>5. CASE Proceeds(p)
  <2>1. ~Prepare(p)
    BY <1>1, <1>3, Zenon DEF Prepare
  <2>2. ~SendCode(p) /\ ~SendCodeFails(p) /\ ~Commit(p)
    BY <1>1, <1>2, <1>3, Zenon DEF SendCode, SendCodeFails, Commit
  <2>3. ~NotSignedIn(p) /\ ~SignInAborts(p) /\ ~Finalize(p)
    BY <1>1, <1>2, <1>3, Zenon DEF NotSignedIn, SignInAborts, Finalize
  <2>4. ~CompleteAbort(p) /\ ~Remove(p) /\ ~PersistIntent(p)
    BY <1>1, <1>2, <1>3, Zenon DEF CompleteAbort, Remove, PersistIntent
  <2>5. ~Revoke(p) /\ ~RevokeFails(p) /\ ~MarkDisconnected(p)
    BY <1>1, <1>2, <1>3, Zenon DEF Revoke, RevokeFails, MarkDisconnected, RevokePending
  <2>6. ~StopAccount(p) /\ ~BeginAbort(p)
    BY <1>1, <1>2, Zenon DEF StopAccount, BeginAbort
  <2> QED
    BY <1>5, <2>1, <2>2, <2>3, <2>4, <2>5, <2>6 DEF Proceeds
<1> QED
  BY <1>4, <1>5

\* A challenge that may be finalized could be finalized before.
PendingStays ==
    \A q \in Request :
        challenge'[q].pending =>
            /\ challenge[q].pending
            /\ challenge'[q].acct = challenge[q].acct
            /\ challenge'[q].ver = challenge[q].ver

\* One challenge changes, ...
LEMMA OnePendingStays ==
    ASSUME TypeOK, NEW r, NEW c, challenge' = [challenge EXCEPT ![r] = c],
           r \in Request /\ c.pending =>
               challenge[r].pending /\ c.acct = challenge[r].acct /\ c.ver = challenge[r].ver
    PROVE  PendingStays
<1>1. challenge \in [Request -> ChallengeRecord]
  BY ChallengeTypes
<1>2. \A q \in Request : challenge'[q] = IF q = r THEN c ELSE challenge[q]
  BY <1>1
<1> QED
  BY <1>2 DEF PendingStays

\* ... or ends, ...
LEMMA EndedPendingStays ==
    ASSUME TypeOK, NEW r, NEW o, challenge' = Ended(r, o)
    PROVE  PendingStays
<1>1. CASE r \notin Live
  BY <1>1 DEF Ended, PendingStays
<1>2. CASE r \in Live
  <2> DEFINE c == [NoChallenge EXCEPT !.state = o, !.acct = challenge[r].acct,
                                      !.ver = challenge[r].ver, !.due = challenge[r].due]
  <2>1. challenge' = [challenge EXCEPT ![r] = c]
    BY <1>2 DEF Ended
  <2>2. ~c.pending
    <3> DEFINE x == challenge[r].acct
               y == challenge[r].ver
               z == challenge[r].due
    <3>1. c = [NoChallenge EXCEPT !.state = o, !.acct = x, !.ver = y, !.due = z]
      OBVIOUS
    <3> HIDE DEF c, x, y, z
    <3> QED
      BY <3>1 DEF NoChallenge
  <2> HIDE DEF c
  <2> QED
    BY <2>1, <2>2, OnePendingStays
<1> QED
  BY <1>1, <1>2

\* ... and only Telegram makes one pending.
LEMMA PendingSteps ==
    ASSUME LifecycleInv, [Next]_vars, ~Dies
    PROVE  PendingStays \/ \E p \in Proc : SignedIn(p)
<1>0. TypeOK /\ challenge \in [Request -> ChallengeRecord]
  BY ChallengeTypes DEF LifecycleInv
<1>1. ASSUME challenge' = challenge PROVE PendingStays
  BY <1>1 DEF PendingStays
<1>2. ASSUME NEW q \in Request, NEW c, challenge' = [challenge EXCEPT ![q] = c],
             c.pending = challenge[q].pending, c.acct = challenge[q].acct, c.ver = challenge[q].ver
      PROVE  PendingStays
  BY <1>0, <1>2, OnePendingStays
<1>3. ASSUME NEW p \in Proc, Requests(p) PROVE PendingStays
  <2>1. ASSUME NEW q \in Request, NEW k, Submit(p, q, k) PROVE PendingStays
    <3>0. challenge[q] \in ChallengeRecord
      BY <1>0
    <3>1. CASE challenge' = [challenge EXCEPT ![q].codes = @ + 1]
      <4> DEFINE c == [challenge[q] EXCEPT !.codes = @ + 1]
      <4>1. c.pending = challenge[q].pending /\ c.acct = challenge[q].acct /\ c.ver = challenge[q].ver
        BY <3>0 DEF ChallengeRecord
      <4>2. challenge' = [challenge EXCEPT ![q] = c]
        BY <3>1
      <4> HIDE DEF c
      <4> QED
        BY <1>2, <4>1, <4>2
    <3>2. CASE challenge' = [challenge EXCEPT ![q].passwords = @ + 1]
      <4> DEFINE c == [challenge[q] EXCEPT !.passwords = @ + 1]
      <4>1. c.pending = challenge[q].pending /\ c.acct = challenge[q].acct /\ c.ver = challenge[q].ver
        BY <3>0 DEF ChallengeRecord
      <4>2. challenge' = [challenge EXCEPT ![q] = c]
        BY <3>2
      <4> HIDE DEF c
      <4> QED
        BY <1>2, <4>1, <4>2
    <3>3. \/ challenge' = challenge
          \/ challenge' = [challenge EXCEPT ![q].codes = @ + 1]
          \/ challenge' = [challenge EXCEPT ![q].passwords = @ + 1]
      BY <2>1 DEF Submit
    <3> QED
      BY <1>1, <3>1, <3>2, <3>3
  <2>2. \/ challenge' = challenge
        \/ \E q \in Request : Submit(p, q, "code") \/ Submit(p, q, "password")
    BY <1>3, Zenon DEF Requests, StartBegin, Disconnect, Expire, Cancel, memory
  <2> QED
    BY <1>1, <2>1, <2>2
<1>4. ASSUME NEW p \in Proc, Proceeds(p), ~SignedIn(p), challenge' # challenge PROVE PendingStays
  <2> DEFINE r == call[p].req
  <2>1. ~(SendCode(p) \/ SignInAborts(p) \/ PersistIntent(p) \/ Revoke(p) \/ RevokeFails(p)
          \/ MarkDisconnected(p))
    BY <1>4 DEF SendCode, SignInAborts, PersistIntent, Revoke, RevokeFails, MarkDisconnected, memory
  <2>2. ~BeginAbort(p) /\ ~StopAccount(p)
    BY <1>4, FailedAbortChallenges DEF BeginAbort, StopAccount
  <2>3. CASE Prepare(p)
    <3> DEFINE c == Fresh(call[p].acct, call[p].ver)
    <3>1. PICK q : challenge' = [challenge EXCEPT ![q] = c]
      BY <1>4, <2>3 DEF Prepare, Fresh
    <3>2. ~c.pending
      <4> DEFINE x == call[p].acct
                 y == call[p].ver
                 z == row[call[p].acct].due
      <4>1. c = [NoChallenge EXCEPT !.state = "live", !.acct = x, !.ver = y, !.due = z]
        BY DEF Fresh
      <4> HIDE DEF c, x, y, z
      <4> QED
        BY <4>1 DEF NoChallenge
    <3> HIDE DEF c
    <3> QED
      BY <1>0, <3>1, <3>2, OnePendingStays
  <2>4. CASE SendCodeFails(p) \/ Remove(p) \/ Finalize(p) \/ CompleteAbort(p)
    <3>1. \E o : challenge' = Ended(r, o)
      BY <1>4, <2>4 DEF SendCodeFails, Remove, Finalize, CompleteAbort, AbortEnds
    <3> QED
      BY <1>0, <3>1, EndedPendingStays
  <2>5. CASE Commit(p)
    <3>1. challenge' = [challenge EXCEPT ![r].ready = TRUE] /\ r \in Request
      BY <1>4, <2>5 DEF Commit, Live
    <3>2. challenge[r] \in ChallengeRecord
      BY <1>0, <3>1
    <3> DEFINE c == [challenge[r] EXCEPT !.ready = TRUE]
    <3>3. c.pending = challenge[r].pending /\ c.acct = challenge[r].acct /\ c.ver = challenge[r].ver
      BY <3>2 DEF ChallengeRecord
    <3>4. challenge' = [challenge EXCEPT ![r] = c]
      BY <3>1
    <3> HIDE DEF c, r
    <3> QED
      BY <1>2, <3>1, <3>3, <3>4
  <2>6. CASE NotSignedIn(p)
    <3> DEFINE c == [challenge[r] EXCEPT !.stage = "password"]
    <3>1. challenge' = [challenge EXCEPT ![r] = c]
      BY <1>4, <2>6 DEF NotSignedIn
    <3>2. ASSUME r \in Request
          PROVE  c.pending = challenge[r].pending /\ c.acct = challenge[r].acct /\ c.ver = challenge[r].ver
      <4>1. challenge[r] \in ChallengeRecord
        BY <1>0, <3>2
      <4> QED
        BY <4>1 DEF ChallengeRecord
    <3> HIDE DEF c, r
    <3> QED
      BY <1>0, <3>1, <3>2, OnePendingStays
  <2> QED
    BY <1>4, <2>1, <2>2, <2>3, <2>4, <2>5, <2>6 DEF Proceeds
<1>5. ASSUME NEW q \in Request, challenge[q] \in ChallengeRecord,
             challenge'[q] = [challenge[q] EXCEPT !.state = "gone"]
      PROVE  /\ challenge'[q].pending = challenge[q].pending
             /\ challenge'[q].acct = challenge[q].acct
             /\ challenge'[q].ver = challenge[q].ver
  BY <1>5 DEF ChallengeRecord
<1>6. ASSUME \A q \in Request : \/ challenge'[q] = challenge[q]
                                \/ challenge'[q] = [challenge[q] EXCEPT !.state = "gone"]
      PROVE  PendingStays
  <2> SUFFICES ASSUME NEW q \in Request, challenge'[q].pending
               PROVE  /\ challenge[q].pending
                      /\ challenge'[q].acct = challenge[q].acct
                      /\ challenge'[q].ver = challenge[q].ver
    BY DEF PendingStays
  <2>1. challenge[q] \in ChallengeRecord
    BY <1>0
  <2> QED
    BY <1>5, <1>6, <2>1
<1>7. ASSUME Main PROVE PendingStays
  <2>1. CASE StopRuntime
    <3>1. \A q \in Request : \/ challenge'[q] = challenge[q]
                             \/ challenge'[q] = [challenge[q] EXCEPT !.state = "gone"]
      BY <2>1 DEF StopRuntime
    <3> QED
      BY <1>6, <3>1
  <2>2. CASE Sweep
    <3>1. PICK q : challenge' = IF q \notin Live THEN challenge
                                ELSE [challenge EXCEPT ![q].ready = FALSE,
                                         ![q].pending = FALSE, ![q].due = TRUE,
                                         ![q].codes = 0, ![q].passwords = 0]
      BY <2>2, Zenon DEF Sweep
    <3>2. CASE q \notin Live
      <4>1. challenge' = challenge
        BY <3>1, <3>2, Zenon
      <4> QED
        BY <1>1, <4>1
    <3>3. CASE q \in Live
      <4> DEFINE c == [challenge[q] EXCEPT !.ready = FALSE, !.pending = FALSE, !.due = TRUE,
                                           !.codes = 0, !.passwords = 0]
      <4>1. q \in Request
        BY <3>3 DEF Live
      <4>2. challenge[q] \in ChallengeRecord
        BY <1>0, <4>1
      <4>3. ~c.pending
        BY <4>2 DEF ChallengeRecord
      <4>4. challenge' = [challenge EXCEPT ![q] = c]
        BY <1>0, <3>1, <3>3, <4>1, <4>2
      <4> HIDE DEF c
      <4> QED
        BY <1>0, <4>3, <4>4, OnePendingStays
    <3> QED
      BY <3>2, <3>3
  <2>3. CASE ~StopRuntime /\ ~Sweep
    <3>1. challenge' = challenge
      BY <1>7, <2>3, Zenon DEF Main, BootIntents, RecoverIntent, BootOrphans, RecoverOrphan, BootServes,
         BootLeavesOut, CloseAdmission, Snapshot, memory
    <3> QED
      BY <1>1, <3>1
  <2> QED
    BY <2>1, <2>2, <2>3
<1>8. ASSUME Environment PROVE PendingStays
  <2>1. ASSUME NEW r \in Request, StoneDue(r) PROVE PendingStays
    <3>1. challenge' = [challenge EXCEPT ![r] = [challenge[r] EXCEPT !.state = "gone"]]
      BY <2>1 DEF StoneDue
    <3>2. \A q \in Request : \/ challenge'[q] = challenge[q]
                             \/ challenge'[q] = [challenge[q] EXCEPT !.state = "gone"]
      BY <1>0, <3>1
    <3> QED
      BY <1>6, <3>2
  <2>2. ASSUME NEW r \in Request, ChallengeDue(r) PROVE PendingStays
    <3>0. challenge[r] \in ChallengeRecord
      BY <1>0
    <3> DEFINE c == [challenge[r] EXCEPT !.due = TRUE]
    <3>1. c.pending = challenge[r].pending /\ c.acct = challenge[r].acct /\ c.ver = challenge[r].ver
      BY <3>0 DEF ChallengeRecord
    <3>2. challenge' = [challenge EXCEPT ![r] = c]
      BY <2>2 DEF ChallengeDue
    <3> HIDE DEF c
    <3> QED
      BY <1>2, <3>1, <3>2
  <2>3. \/ \E q \in Request : ChallengeDue(q) \/ StoneDue(q)
        \/ challenge' = challenge
    BY <1>8, Zenon DEF Environment, Resolve, Use, StoreSession, Evict, RowDue, ShutdownBegins, Restart, memory
  <2> QED
    BY <1>1, <2>1, <2>2, <2>3
<1>9. UNCHANGED vars => challenge' = challenge
  BY DEF vars
<1> QED
  BY <1>1, <1>3, <1>4, <1>7, <1>8, <1>9 DEF Next

\* What was confirmed stays so, unless a revoke is overdue.
LEMMA ConfirmedKept ==
    ASSUME Living, [Next]_vars, RevokesInTime, NEW a, NEW v, AuthTarget(a, v), Confirmed(a, v)
    PROVE  Confirmed(a, v)'
<1>1. /\ a \in Account /\ v \in Nat /\ v <= row[a].version /\ Moves(a)
      /\ row[a].version \in Nat /\ row'[a].version \in Nat
      /\ LifecycleInv
  BY DEF Living, LifecycleInv, TypeOK, AuthTarget
<1>2. SUFFICES ASSUME row'[a].status = "authenticating", row'[a].version = v
               PROVE  a \in authorized'
  BY DEF Confirmed, IsAt
<1>3. row[a].version = v
  BY <1>1, <1>2 DEF Moves, Stays
<1>4. row[a].status = "authenticating" /\ a \in authorized
  BY <1>3 DEF AuthTarget, Confirmed, IsAt
<1> QED
  BY <1>1, <1>4, AuthorizedLost DEF RevokesInTime

\* An account becomes active confirmed, and stays signed in while it is active.
LEMMA ActiveKept ==
    ASSUME Living, [Next]_vars, RevokesInTime, SignedInv, NEW a \in Account, row'[a].status = "active"
    PROVE  a \in authorized'
<1>0. LifecycleInv
  BY DEF Living
<1>1. CASE row[a].status = "active"
  <2>1. a \in authorized
    BY <1>1 DEF SignedInv, ActiveIsSignedIn
  <2> QED
    BY <1>0, <1>1, <2>1, AuthorizedLost DEF RevokesInTime
<1>2. CASE row[a].status # "active"
  <2>1. PICK p \in Proc : Finalize(p) /\ call[p].acct = a /\ IsAt(a, "authenticating", call[p].ver)
    BY <1>0, <1>2, ActiveSteps
  <2>2. call[p].at = "finalize" /\ authorized' = authorized
    BY <2>1 DEF Finalize
  <2>3. Confirmed(a, call[p].ver)
    BY <2>1, <2>2 DEF SignedInv
  <2> QED
    BY <2>1, <2>2, <2>3 DEF Confirmed
<1> QED
  BY <1>1, <1>2

\* A call that does not act stays confirmed.
LEMMA SameConfirmed ==
    ASSUME Living, [Next]_vars, RevokesInTime, SignedInv, NEW p \in Proc, call'[p] = call[p],
           call'[p].at = "finalize"
    PROVE  Confirmed(call[p].acct, call[p].ver)'
<1>1. PICK a, v : a = call[p].acct /\ v = call[p].ver
  OBVIOUS
<1>2. AuthTarget(a, v) /\ Confirmed(a, v)
  BY <1>1 DEF Living, LifecycleInv, ProcInv, StageInv, SignedInv
<1>3. Confirmed(a, v)'
  BY <1>2, ConfirmedKept
<1>4. call'[p].acct = a /\ call'[p].ver = v
  BY <1>1
<1> QED
  BY <1>3, <1>4

\* What Sys does on its own is not to finalize.
LEMMA MainFinalizesNot ==
    ASSUME Living, Main \/ ShutdownBegins
    PROVE  call'[Sys].at # "finalize"
<1>1. call \in [Proc -> CallRecord] /\ Sys \in Proc
  BY CallFacts, SysIsMain
<1>2. call' = [call EXCEPT ![Sys] = IdleCall] => call'[Sys].at = "idle"
  BY <1>1, IdleIsOver DEF Over
<1>3. ASSUME Steps(Sys, IF up = "serving" THEN "gate" ELSE "sweep")
      PROVE  call'[Sys].at \in {"gate", "sweep"}
  BY <1>1, <1>3, NextStage
<1>4. \/ Steps(Sys, "intents") \/ Steps(Sys, "orphans") \/ Steps(Sys, "snapshot") \/ Steps(Sys, "sweep")
      \/ Steps(Sys, "exit") \/ Steps(Sys, IF up = "serving" THEN "gate" ELSE "sweep")
      \/ call' = [call EXCEPT ![Sys] = IdleCall]
      \/ \E a : \/ Takes(Sys, "revoke", a, row[a].version, 0, "none", <<>>)
               \/ Takes(Sys, "abort", a, row[a].version, 0, "recovered", <<>>)
               \/ Takes(Sys, "stop", a, row[a].version, 0, "completed", <<>>)
      \/ \E q : Takes(Sys, "abort", challenge[q].acct, challenge[q].ver, q, "swept", <<>>)
  BY Zenon DEF Main, BootIntents, RecoverIntent, BootOrphans, RecoverOrphan, BootServes, BootLeavesOut,
     CloseAdmission, Snapshot, Sweep, StopRuntime, ShutdownBegins
<1> QED
  BY <1>1, <1>2, <1>3, <1>4, NextStage

\* A call comes to finalize, or stays there, confirmed.
LEMMA FinalizeKept ==
    ASSUME Living, [Next]_vars, ~Dies, RevokesInTime, SignedInv, NEW p \in Proc,
           call'[p].at = "finalize"
    PROVE  Confirmed(call[p].acct, call[p].ver)'
<1>1. ASSUME NEW q \in Proc, Requests(q) \/ Proceeds(q), p # q PROVE call'[p] = call[p]
  BY <1>1, RequestActs DEF Acted, Others
<1>2. ASSUME Requests(p) \/ Proceeds(p) PROVE Confirmed(call[p].acct, call[p].ver)'
  <2>1. CASE SignedIn(p)
    <3>1. call'[p].acct = call[p].acct
      BY <2>1, CallFacts, StepsCall DEF SignedIn, RequestStage
    <3>2. call[p].acct \in authorized'
      BY <2>1 DEF SignedIn
    <3> QED
      BY <3>1, <3>2 DEF Confirmed
  <2>2. ASSUME NEW q \in Request,
               challenge[q].pending, q \in Live, UNCHANGED <<rows, authorized>>,
               Takes(p, "finalize", challenge[q].acct, challenge[q].ver, q, "tombstone", <<>>)
        PROVE  Confirmed(call[p].acct, call[p].ver)'
    <3>1. PICK a, v : a = challenge[q].acct /\ v = challenge[q].ver
      OBVIOUS
    <3>2. a # None
      BY <2>2, <3>1 DEF Living, LifecycleInv, ChallengeOK, Live
    <3>3. AuthTarget(a, v) /\ Confirmed(a, v)
      BY <2>2, <3>1, <3>2 DEF Living, LifecycleInv, ChallengeOK, SignedInv
    <3>4. a \in Account /\ v \in Nat /\ Takes(p, "finalize", a, v, q, "tombstone", <<>>)
      BY <2>2, <3>1, <3>3 DEF AuthTarget
    <3>5. call'[p].acct = a /\ call'[p].ver = v
      BY <3>4, CallFacts, TakesCall DEF RequestStage, Then, Own
    <3>6. row' = row /\ authorized' = authorized
      BY <2>2 DEF rows
    <3>7. Confirmed(a, v)'
      BY <3>3, <3>6 DEF Confirmed, IsAt
    <3> QED
      BY <3>5, <3>7
  <2> QED
    BY <1>2, <2>1, <2>2, CallsFinalize
<1>3. ASSUME Main \/ ShutdownBegins PROVE call'[p] = call[p]
  <2>1. Acted(Sys) /\ p # Sys
    BY <1>3, MainActs, ShutdownActs, MainFinalizesNot
  <2> QED
    BY <2>1 DEF Acted, Others
<1>4. ASSUME Environment, ~ShutdownBegins PROVE call' = call
  BY <1>4, Zenon DEF Environment, Resolve, Use, StoreSession, Evict, RowDue, ChallengeDue, StoneDue,
     Restart
<1>5. (UNCHANGED vars) => call' = call
  BY DEF vars
<1>6. (Requests(p) \/ Proceeds(p)) \/ call'[p] = call[p]
  BY <1>1, <1>3, <1>4, <1>5 DEF Next
<1> QED
  BY <1>2, <1>6, SameConfirmed

\* So does a challenge whose profile is pending.
LEMMA PendingKept ==
    ASSUME Living, [Next]_vars, ~Dies, RevokesInTime, SignedInv, NEW q \in Request,
           challenge'[q].pending, challenge'[q].acct # None
    PROVE  Confirmed(challenge[q].acct, challenge[q].ver)'
<1>0. LifecycleInv
  BY DEF Living
<1>1. CASE PendingStays
  <2>1. /\ challenge[q].pending /\ challenge[q].acct # None
        /\ challenge'[q].acct = challenge[q].acct /\ challenge'[q].ver = challenge[q].ver
    BY <1>1 DEF PendingStays
  <2>2. PICK a, v : a = challenge[q].acct /\ v = challenge[q].ver
    OBVIOUS
  <2>3. AuthTarget(a, v) /\ Confirmed(a, v)
    BY <1>0, <2>1, <2>2 DEF LifecycleInv, ChallengeOK, SignedInv
  <2>4. Confirmed(a, v)'
    BY <2>3, ConfirmedKept
  <2> QED
    BY <2>1, <2>2, <2>4
<1>2. ASSUME NEW p \in Proc, SignedIn(p) PROVE Confirmed(challenge[q].acct, challenge[q].ver)'
  <2> DEFINE r == call[p].req
  <2>1. /\ challenge' = [challenge EXCEPT ![r].pending = TRUE, ![r].ready = FALSE]
        /\ call[p].acct \in authorized'
    BY <1>2 DEF SignedIn
  <2>2. challenge \in [Request -> ChallengeRecord]
    BY <1>0, ChallengeTypes DEF LifecycleInv
  <2>3. CASE q = r
    <3>1. q # 0
      BY DEF Request
    <3>2. challenge[q].acct = call[p].acct /\ call[p].acct # None
      BY <1>0, <2>3, <3>1 DEF LifecycleInv, ProcInv, Matches
    <3>3. challenge'[q].acct = call[p].acct
      BY <3>2, ReservedKept
    <3> QED
      BY <2>1, <3>3 DEF Confirmed
  <2>4. CASE q # r
    <3>1. challenge'[q] = challenge[q]
      <4> HIDE DEF r
      <4> QED
        BY <2>1, <2>2, <2>4
    <3>2. PICK a, v : a = challenge[q].acct /\ v = challenge[q].ver
      OBVIOUS
    <3>3. AuthTarget(a, v) /\ Confirmed(a, v)
      BY <1>0, <3>1, <3>2 DEF LifecycleInv, ChallengeOK, SignedInv
    <3>4. Confirmed(a, v)'
      BY <3>3, ConfirmedKept
    <3> QED
      BY <3>1, <3>2, <3>4
  <2> QED
    BY <2>3, <2>4
<1> QED
  BY <1>0, <1>1, <1>2, PendingSteps

\* The death of the process leaves nothing to finalize.
LEMMA DeathSigned ==
    ASSUME LifecycleInv, LifecycleInv', Dies, SignedInv
    PROVE  SignedInv'
<1>1. row' = row /\ authorized' = authorized
  BY DEF Dies, rows
<1>2. ActiveIsSignedIn'
  BY <1>1 DEF SignedInv, ActiveIsSignedIn
<1>3. ASSUME NEW p \in Proc PROVE call'[p].at = "idle"
  BY IdleIsOver DEF Dies, Over
<1>4. ASSUME NEW q \in Request PROVE challenge'[q].acct = None
  <2>1. challenge' = [r \in Request |-> IF challenge[r].state = "free" THEN challenge[r]
                                        ELSE [NoChallenge EXCEPT !.state = "gone"]]
    BY DEF Dies
  <2>2. CASE challenge[q].state = "free"
    BY <2>1, <2>2 DEF LifecycleInv, ChallengeOK
  <2>3. CASE challenge[q].state # "free"
    <3>1. challenge'[q] = [NoChallenge EXCEPT !.state = "gone"]
      BY <2>1, <2>3
    <3> QED
      BY <3>1 DEF NoChallenge
  <2> QED
    BY <2>2, <2>3
<1> QED
  BY <1>2, <1>3, <1>4 DEF SignedInv

-----------------------------------------------------------------------------
(* The theorems.                                                           *)

\* Every step keeps the invariant.
LEMMA InvKept ==
    ASSUME LifecycleInv, [Next]_vars
    PROVE  LifecycleInv'
<1>1. CASE Dies
  BY <1>1, DeathKeeps
<1>2. CASE ~Dies
  <2>1. Living
    BY <1>2, LivingSteps
  <2>2. SessionsFollowStatus'
    BY <2>1, StatusesKeep DEF Living
  <2>3. CallTypes' /\ \A p \in Proc : ProcInv(p)'
    BY <1>2, <2>1, CallsKeep
  <2>4. MainInv'
    BY <1>2, <2>1, MainKeeps
  <2>5. \A q \in Request : ChallengeOK(q)'
    BY <2>1, ChallengesKeep
  <2>6. \A a \in Account : ClientOK(a)'
    BY <2>1, ClientsKeep
  <2> QED
    BY <2>1, <2>2, <2>3, <2>4, <2>5, <2>6 DEF LifecycleInv, Living
<1> QED
  BY <1>1, <1>2

\* The invariant: what every version that somebody holds may still be used for.
THEOREM LifecycleInvCorrect == Spec => []LifecycleInv
<1>1. Init => LifecycleInv
  BY InitInv
<1>2. LifecycleInv /\ [Next]_vars => LifecycleInv'
  BY InvKept
<1> QED
  BY <1>1, <1>2, PTL DEF Spec

\* Store.Finalize, CompleteAbort and PersistLifecycle keep the row of sessions
\* in step with the status, whatever client stores a session late.
THEOREM SessionsFollow == Spec => []SessionsFollowStatus
<1>1. LifecycleInv => SessionsFollowStatus
  BY DEF LifecycleInv
<1> QED
  BY <1>1, LifecycleInvCorrect, PTL

\* Nobody can open a client for an account that is disconnected, with a target
\* read before, and none is left that was not stopped.
THEOREM Quiet == Spec => []DisconnectedIsQuiet
<1>1. ASSUME LifecycleInv, NEW a \in Account, row[a].status \in {"none", "disconnected"}
      PROVE  client[a] <= fence[a] /\ (held[a] # 0 => ~Admits(a, held[a]))
  <2>1. TypeOK /\ ClientOK(a)
    BY <1>1 DEF LifecycleInv
  <2>2. client[a] \in Nat /\ fence[a] \in Nat /\ held[a] \in Nat
    BY <2>1 DEF TypeOK
  <2>3. client[a] <= fence[a]
    BY <1>1, <2>1, <2>2 DEF ClientOK, ClientTarget, Passed, Earlier
  <2>4. ASSUME held[a] # 0 PROVE ~Admits(a, held[a])
    BY <1>1, <2>1, <2>2, <2>4 DEF ClientOK, ClientTarget, Passed, Earlier, Admits
  <2> QED
    BY <2>3, <2>4
<1>2. LifecycleInv => DisconnectedIsQuiet
  BY <1>1 DEF DisconnectedIsQuiet
<1> QED
  BY <1>2, LifecycleInvCorrect, PTL

\* A tombstone answers the retry of a client with what became of the account.
THEOREM Tombstones == Spec => []TombstonesAreTrue
<1>1. LifecycleInv => TombstonesAreTrue
  BY DEF LifecycleInv, ChallengeOK, TombstonesAreTrue, Stones
<1> QED
  BY <1>1, LifecycleInvCorrect, PTL

\* No step on the way from active to disconnected forgets the session before
\* Telegram has logged it out, and no step logs it out but for an intent.
THEOREM Revoked == Spec => RevokedBeforeForgotten
<1>1. ASSUME LifecycleInv, [Next]_vars, NEW a \in Account,
             row[a].status = "active" \/ row[a].logout
      PROVE  /\ a \in session /\ a \notin session' => a \notin authorized
             /\ row'[a].status \in {row[a].status, "disconnecting", "disconnected"}
             /\ row'[a].status = "disconnecting" => row'[a].logout
  <2>1. Moves(a)
    BY <1>1, EveryoneMoves
  <2>2. /\ row[a].logout => row[a].status = "disconnecting"
        /\ row[a].logout \in BOOLEAN
    BY <1>1 DEF LifecycleInv, SessionsFollowStatus, TypeOK
  <2> QED
    BY <1>1, <2>1, <2>2 DEF Moves, Stays, Disconnected, Opened, Activated, Aborted, Intended
<1>2. ASSUME LifecycleInv, [Next]_vars, NEW a \in Account, a \in authorized, a \notin authorized'
      PROVE  row[a].status = "disconnecting" \/ \E p \in Proc : Overdue(p, a)
  BY <1>2, AuthorizedLost
<1>3. LifecycleInv /\ [Next]_vars =>
         [\A a \in Account :
             /\ row[a].status = "active" \/ row[a].logout =>
                   /\ a \in session /\ a \notin session' => a \notin authorized
                   /\ row'[a].status \in {row[a].status, "disconnecting", "disconnected"}
                   /\ row'[a].status = "disconnecting" => row'[a].logout
             /\ a \in authorized /\ a \notin authorized' =>
                   row[a].status = "disconnecting" \/ \E p \in Proc : Overdue(p, a)]_vars
  BY <1>1, <1>2
<1> QED
  BY <1>3, LifecycleInvCorrect, PTL DEF Spec, RevokedBeforeForgotten

\* The routes of the accounts appear when a recovery without a failure has left
\* nothing authenticating and nothing half aborted.
THEOREM Recovered == Spec => RecoveredBeforeServing
<1>1. ASSUME LifecycleInv, [Next]_vars, up = "starting", up' = "serving"
      PROVE  \A a \in Account : Settled(a)
  <2>1. BootServes
    <3>1. ~\E p \in Proc : Requests(p)
      BY <1>1 DEF Requests, StartBegin, Disconnect, Expire, Submit, Cancel, process
    <3>2. ASSUME NEW p \in Proc, Proceeds(p) PROVE FALSE
      BY <1>1, <3>2, Zenon DEF Proceeds, Prepare, SendCode, SendCodeFails, Commit, SignedIn, NotSignedIn,
         SignInAborts, Finalize, BeginAbort, StopAccount, CompleteAbort, Remove, PersistIntent, Revoke,
         RevokeFails, MarkDisconnected, process
    <3>3. Main => BootServes
      BY <1>1 DEF Main, BootIntents, RecoverIntent, BootOrphans, RecoverOrphan, BootLeavesOut,
         CloseAdmission, Snapshot, Sweep, StopRuntime, process
    <3>4. ~Environment
      BY <1>1 DEF Environment, Resolve, Use, StoreSession, Evict, RowDue, ChallengeDue, StoneDue,
         ShutdownBegins, Dies, Restart, process
    <3>5. ~UNCHANGED vars
      BY <1>1 DEF vars
    <3> QED
      BY <1>1, <3>1, <3>2, <3>3, <3>4, <3>5 DEF Next
  <2> QED
    BY <1>1, <2>1 DEF LifecycleInv, MainInv, BootServes
<1>2. LifecycleInv /\ [Next]_vars =>
         [up = "starting" /\ up' = "serving" =>
             \A a \in Account :
                 row[a].status \in {"none", "active", "disconnected"} \/ a \in Intents]_vars
  BY <1>1 DEF Settled
<1> QED
  BY <1>2, LifecycleInvCorrect, PTL DEF Spec, RecoveredBeforeServing

\* A StopAccount that unlocks a mutex it does not hold has an excuse: the client
\* it meets outlived a stop or a revoke whose teardown ran out of time, or the
\* account has been authenticated again since the abort began.
THEOREM KillsHaveCauses == Spec => []KillsExplained
<1> DEFINE KillsInv == /\ LifecycleInv
                       /\ StartsQuietly
                       /\ \A p \in Proc : AbortBegun(p)
<1>1. Init => KillsInv
  <2> SUFFICES ASSUME Init PROVE KillsInv
    OBVIOUS
  <2>1. StartsQuietly
    BY DEF Init, StartsQuietly
  <2>2. ASSUME NEW p \in Proc PROVE AbortBegun(p)
    <3>1. call[p].at = "idle"
      BY IdleIsOver DEF Init, Over
    <3> QED
      BY <3>1 DEF AbortBegun
  <2> QED
    BY <2>1, <2>2, InitInv
<1>2. KillsInv /\ [Next]_vars => KillsInv'
  <2> SUFFICES ASSUME KillsInv, [Next]_vars PROVE KillsInv'
    OBVIOUS
  <2>1. LifecycleInv'
    BY InvKept
  <2>2. StartsQuietly'
    BY <2>1, QuietKept DEF LifecycleInv
  <2>3. CASE Dies
    <3>1. ASSUME NEW p \in Proc PROVE call'[p].at = "idle"
      BY <2>3, IdleIsOver DEF Dies, Over
    <3> QED
      BY <2>1, <2>2, <3>1 DEF AbortBegun
  <2>4. CASE ~Dies
    BY <2>1, <2>2, <2>4, LivingSteps, BegunKept
  <2> QED
    BY <2>3, <2>4
<1>3. KillsInv => KillsExplained
  <2> SUFFICES ASSUME KillsInv, NEW p \in Proc, StopKills(p),
                      ~(row[call[p].acct].version > call[p].ver + 2)
               PROVE  client[call[p].acct] <= fence[call[p].acct]
    BY DEF KillsExplained
  <2>1. AbortBegun(p) /\ call[p].at = "stop"
    BY DEF StopKills
  <2>2. call[p].ver \in Nat /\ row[call[p].acct].version \in Nat
    <3>1. call[p].acct \in Account /\ call[p].ver \in Nat
      BY <2>1 DEF LifecycleInv, ProcInv, StageInv, LocalTarget, AuthTarget
    <3> QED
      BY <3>1 DEF LifecycleInv, TypeOK
  <2>3. row[call[p].acct].version <= call[p].ver + 2
    BY <2>2
  <2> QED
    BY <2>1, <2>3, KillsAreExplained
<1> QED
  BY <1>1, <1>2, <1>3, PTL DEF Spec

\* An active account is signed in, as long as no revoke outlives its intent: the
\* one way to lose a session that is in use is a Disconnect that works on after
\* the account has been authenticated again.
THEOREM SignedInUntilOverdue == Spec /\ []RevokesInTime => []ActiveIsSignedIn
<1>1. Init => SignedInv
  <2> SUFFICES ASSUME Init PROVE SignedInv
    OBVIOUS
  <2>1. ActiveIsSignedIn
    BY DEF Init, ActiveIsSignedIn, NoRow
  <2>2. ASSUME NEW p \in Proc PROVE call[p].at = "idle"
    BY IdleIsOver DEF Init, Over
  <2>3. ASSUME NEW q \in Request PROVE challenge[q].acct = None
    <3>1. challenge[q] = NoChallenge
      BY DEF Init
    <3> QED
      BY <3>1 DEF NoChallenge
  <2> QED
    BY <2>1, <2>2, <2>3 DEF SignedInv
<1>2. LifecycleInv /\ LifecycleInv' /\ RevokesInTime /\ SignedInv /\ [Next]_vars => SignedInv'
  <2> SUFFICES ASSUME LifecycleInv, LifecycleInv', RevokesInTime, SignedInv, [Next]_vars
               PROVE  SignedInv'
    OBVIOUS
  <2>1. CASE Dies
    BY <2>1, DeathSigned
  <2>2. CASE ~Dies
    <3>1. Living
      BY <2>2, LivingSteps
    <3>2. ActiveIsSignedIn'
      BY <3>1, ActiveKept DEF ActiveIsSignedIn
    <3>3. ASSUME NEW p \in Proc, call'[p].at = "finalize"
          PROVE  Confirmed(call[p].acct, call[p].ver)'
      BY <2>2, <3>1, <3>3, FinalizeKept
    <3>4. ASSUME NEW q \in Request, challenge'[q].pending, challenge'[q].acct # None
          PROVE  Confirmed(challenge[q].acct, challenge[q].ver)'
      BY <2>2, <3>1, <3>4, PendingKept
    <3> QED
      BY <3>2, <3>3, <3>4 DEF SignedInv
  <2> QED
    BY <2>1, <2>2
<1>3. SignedInv => ActiveIsSignedIn
  BY DEF SignedInv
<1> QED
  BY <1>1, <1>2, <1>3, LifecycleInvCorrect, PTL DEF Spec

\* No challenge is stuck but after an activation that it has brought about, or
\* when the account has moved on: BeginAbort accepts the target of any other.
THEOREM ChallengesEndUnless == Spec => []StuckChallengesExplained
<1>1. ASSUME LifecycleInv, NEW q \in Live, NEW a, NEW v, a = challenge[q].acct, v = challenge[q].ver
      PROVE  \/ IsAt(a, "authenticating", v)
             \/ IsAt(a, "disconnecting", v + 1)
             \/ IsAt(a, "disconnected", v + 2)
             \/ IsAt(a, "active", v + 1)
             \/ IsAt(a, "disconnecting", v + 2) /\ row[a].logout
             \/ row[a].version > v + 2
  <2>1. a # None /\ ChallengeOK(q)
    BY <1>1 DEF LifecycleInv, ChallengeOK, Live
  <2>2. AuthTarget(a, v)
    BY <1>1, <2>1 DEF ChallengeOK
  <2>3. v \in Nat /\ row[a].version \in Nat /\ v <= row[a].version
    BY <1>1, <2>2 DEF LifecycleInv, TypeOK, AuthTarget
  <2>4. \/ row[a].version = v \/ row[a].version = v + 1 \/ row[a].version = v + 2
        \/ row[a].version > v + 2
    BY <2>3
  <2> QED
    BY <2>2, <2>4 DEF AuthTarget, IsAt
<1>2. LifecycleInv => StuckChallengesExplained
  BY <1>1 DEF StuckChallengesExplained
<1> QED
  BY <1>2, LifecycleInvCorrect, PTL
=============================================================================
