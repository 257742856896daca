---------------------------- MODULE WebSessions ----------------------------
(***************************************************************************)
(* Operator credentials, the web sessions in PostgreSQL, and the requests  *)
(* of the operators' browsers to the mailing console and the account pages.*)
(*                                                                         *)
(* A request runs concurrently with the others: its transactions lock rows *)
(* one after the other, and between its steps the clock goes on and a      *)
(* credential may be reset.  Tokens stand for themselves, their digests    *)
(* and the values derived from them; credentials are numbered by resets.   *)
(*                                                                         *)
(* PostgreSQL's clock only goes forward and the row of the operator is     *)
(* locked by whoever stamps it, so "created_at > tokens_invalid_before"    *)
(* says that the session was inserted after the last reset.                *)
(***************************************************************************)
EXTENDS Naturals, FiniteSets

CONSTANTS
    Operator, Browser, Request,
    Admin,      \* the command operator-admin
    None,
    KdfSlots,   \* passwordVerificationConcurrency
    Limit,      \* operatorWebSessionLimit
    Idle,       \* operatorWebSessionIdleLifetime
    Absolute,   \* operatorWebSessionAbsoluteLifetime
    Throttle,   \* operatorWebSessionSeenThrottle
    MaxTokens,  \* bound: sessions ever created
    MaxResets,  \* bound: credentials an operator ever has
    MaxTime     \* bound: the last instant

ASSUME SessionsAssumption ==
    /\ {KdfSlots, Limit, Throttle, MaxResets} \subseteq Nat \ {0}
    /\ {Idle, Absolute, MaxTokens, MaxTime} \subseteq Nat
    /\ Throttle < Idle /\ Idle < Absolute
    /\ Admin \notin Request /\ None \notin Request \cup {Admin}

Proc == Request \cup {Admin}
Token == 1 .. MaxTokens

VARIABLES
    clock,
    credential,   \* the current password hash of each operator, 0: none yet
    session,      \* operator_web_sessions
    sessionLock,  \* the transaction that holds each row
    operatorLock,
    cookie,       \* the session cookie of each browser
    page,         \* the session that rendered the console page it shows
    req           \* what each request is doing

rows == <<session, sessionLock>>
locks == <<sessionLock, operatorLock>>
browsers == <<cookie, page>>
vars == <<clock, credential, session, sessionLock, operatorLock, cookie, page, req>>

NoSession == [state |-> "none", op |-> None, by |-> 0, after |-> 0,
              seen |-> 0, idle |-> 0, until |-> 0]

NoRequest == [at |-> "idle", kind |-> "none", browser |-> None, op |-> None,
              password |-> 0, token |-> 0, csrf |-> 0, evicts |-> {}]

Unexpired(t) == session[t].idle > clock /\ session[t].until > clock

\* The predicate of FindValidSession.
Valid(t) ==
    /\ session[t].state = "live"
    /\ Unexpired(t)
    /\ session[t].after = credential[session[t].op]

LiveOf(o) == {t \in Token : session[t].state = "live" /\ session[t].op = o /\ Unexpired(t)}

\* Leaves with every lock its transaction holds.
Leave(r) ==
    /\ req' = [req EXCEPT ![r] = NoRequest]
    /\ sessionLock' = [t \in Token |-> IF sessionLock[t] = r THEN None ELSE sessionLock[t]]
    /\ operatorLock' = [o \in Operator |-> IF operatorLock[o] = r THEN None ELSE operatorLock[o]]

-----------------------------------------------------------------------------
(* Credentials.                                                            *)

\* BootstrapOrReset updates the row of the operator, whose trigger then revokes
\* all sessions of the operator.
Reset(o) ==
    /\ req[Admin].at = "idle"
    /\ operatorLock[o] = None
    /\ credential[o] < MaxResets
    /\ operatorLock' = [operatorLock EXCEPT ![o] = Admin]
    /\ req' = [req EXCEPT ![Admin] = [NoRequest EXCEPT !.at = "trigger", !.kind = "reset",
                                                       !.op = o]]
    /\ UNCHANGED <<clock, credential, rows, browsers>>

Unrevoked(o) == {t \in Token : session[t].state = "live" /\ session[t].op = o}

\* The trigger waits for every row it revokes; the new password counts from the
\* commit on.
RevokeAll ==
    LET o == req[Admin].op IN
    /\ req[Admin].at = "trigger"
    /\ \A t \in Unrevoked(o) : sessionLock[t] = None
    /\ credential' = [credential EXCEPT ![o] = @ + 1]
    /\ session' = [t \in Token |-> IF t \in Unrevoked(o)
                                   THEN [session[t] EXCEPT !.state = "revoked"]
                                   ELSE session[t]]
    /\ Leave(Admin)
    /\ UNCHANGED <<clock, browsers>>

-----------------------------------------------------------------------------
(* Login.                                                                  *)

Verifying == {r \in Request : req[r].at = "verify"}

\* FindCredential, and a slot of the password verification if one is free.
Login(r, b, o) ==
    /\ req[r].at = "idle"
    /\ credential[o] # 0
    /\ Cardinality(Verifying) < KdfSlots
    /\ req' = [req EXCEPT ![r] = [NoRequest EXCEPT !.at = "verify", !.kind = "login",
                                    !.browser = b, !.op = o, !.password = credential[o]]]
    /\ UNCHANGED <<clock, credential, rows, operatorLock, browsers>>

Verified(r) ==
    /\ req[r].at = "verify"
    /\ \E right \in BOOLEAN :
          req' = [req EXCEPT ![r] = IF right THEN [@ EXCEPT !.at = "create"] ELSE NoRequest]
    /\ UNCHANGED <<clock, credential, rows, operatorLock, browsers>>

\* The credential is not compared again.
LockOperatorOnly(r) ==
    /\ req[r].at = "create"
    /\ operatorLock[req[r].op] = None
    /\ operatorLock' = [operatorLock EXCEPT ![req[r].op] = r]
    /\ req' = [req EXCEPT ![r].at = "prune"]
    /\ UNCHANGED <<clock, credential, rows, browsers>>

\* The password is compared but the row is not kept.
CompareOnly(r) ==
    /\ req[r].at = "create"
    /\ credential[req[r].op] = req[r].password
    /\ req' = [req EXCEPT ![r].at = "prune"]
    /\ UNCHANGED <<clock, credential, rows, operatorLock, browsers>>

\* CreateSession locks the operator and compares the credential Login verified.
LockOperator(r) ==
    /\ req[r].at = "create"
    /\ operatorLock[req[r].op] = None
    /\ IF credential[req[r].op] = req[r].password
       THEN /\ operatorLock' = [operatorLock EXCEPT ![req[r].op] = r]
            /\ req' = [req EXCEPT ![r].at = "prune"]
            /\ UNCHANGED sessionLock
       ELSE Leave(r)
    /\ UNCHANGED <<clock, credential, session, browsers>>

\* The sessions that a new one of the operator pushes out: all but the Limit - 1
\* seen last, the later created one first.
Excess(o) ==
    {t \in LiveOf(o) :
        Limit - 1 <= Cardinality({u \in LiveOf(o) :
            session[u].seen > session[t].seen \/ (session[u].seen = session[t].seen /\ u > t)})}

\* The dead rows, of whatever operator.
Dead == {t \in Token : session[t].state = "revoked" \/ (session[t].state = "live" /\ ~Unexpired(t))}

Touched(r) == Dead \cup Excess(req[r].op)

\* Deletes the dead rows and revokes the excess ones, once it has all of them.
Prune(r) ==
    /\ req[r].at = "prune"
    /\ \A t \in Touched(r) : sessionLock[t] = None
    /\ sessionLock' = [t \in Token |-> IF t \in Touched(r) THEN r ELSE sessionLock[t]]
    /\ req' = [req EXCEPT ![r].at = "insert", ![r].evicts = Touched(r)]
    /\ UNCHANGED <<clock, credential, session, operatorLock, browsers>>

Created == {t \in Token : session[t].state # "none"}

\* The response with the cookie may not reach the browser.
Insert(r) ==
    /\ req[r].at = "insert"
    /\ Created # Token
    /\ LET new == Cardinality(Created) + 1 IN
       /\ session' = [t \in Token |->
             IF t = new
             THEN [state |-> "live", op |-> req[r].op, by |-> req[r].password,
                   after |-> credential[req[r].op], seen |-> clock,
                   idle |-> clock + Idle, until |-> clock + Absolute]
             ELSE IF t \notin req[r].evicts THEN session[t]
             ELSE [session[t] EXCEPT !.state =
                     IF @ = "live" /\ Unexpired(t) /\ session[t].op = req[r].op
                     THEN "revoked" ELSE "pruned"]]
       /\ \E answered \in BOOLEAN :
             cookie' = IF answered THEN [cookie EXCEPT ![req[r].browser] = new] ELSE cookie
    /\ Leave(r)
    /\ UNCHANGED <<clock, credential, page>>

-----------------------------------------------------------------------------
(* Requests with a session.                                                *)

Kind == {"console", "mailing", "accounts", "logout"}

\* The forms of the console page carry the value derived from its session.
Visit(r, b, kind) ==
    /\ req[r].at = "idle"
    /\ cookie[b] # None
    /\ kind \in {"mailing", "logout"} => page[b] # None
    /\ req' = [req EXCEPT ![r] = [NoRequest EXCEPT
                  !.at = "find", !.kind = kind, !.browser = b, !.token = cookie[b],
                  !.csrf = IF kind \in {"mailing", "logout"} THEN page[b] ELSE 0]]
    /\ UNCHANGED <<clock, credential, rows, operatorLock, browsers>>

\* SELECT without FOR UPDATE.
ReadSession(r) ==
    /\ req[r].at = "find"
    /\ Valid(req[r].token)
    /\ req' = [req EXCEPT ![r].at = "operator", ![r].op = session[req[r].token].op]
    /\ UNCHANGED <<clock, credential, rows, operatorLock, browsers>>

\* FOR UPDATE OF sessions, operators takes the row of the session first, ...
FindSession(r) ==
    /\ req[r].at = "find"
    /\ IF Valid(req[r].token)
       THEN /\ sessionLock[req[r].token] = None
            /\ sessionLock' = [sessionLock EXCEPT ![req[r].token] = r]
            /\ req' = [req EXCEPT ![r].at = "operator", ![r].op = session[req[r].token].op]
            /\ UNCHANGED operatorLock
       ELSE Leave(r)
    /\ UNCHANGED <<clock, credential, session, browsers>>

\* ... then that of its operator, and looks again at a row that was changed
\* while it waited; the time is not looked at again.
FindOperator(r) ==
    /\ req[r].at = "operator"
    /\ operatorLock[req[r].op] = None
    /\ IF session[req[r].token].after = credential[req[r].op]
       THEN /\ operatorLock' = [operatorLock EXCEPT ![req[r].op] = r]
            /\ req' = [req EXCEPT ![r].at = "refresh"]
            /\ UNCHANGED sessionLock
       ELSE Leave(r)
    /\ UNCHANGED <<clock, credential, session, browsers>>

Lesser(x, y) == IF x < y THEN x ELSE y

\* last_seen_at moves at most once per Throttle.  The commit ends the locks.  Past
\* the absolute deadline ck_operator_web_sessions_expiry_order makes the update
\* fail, and the request is refused as in GivesUp.
Refresh(r) ==
    LET t == req[r].token
        moves == clock - session[t].seen >= Throttle IN
    /\ req[r].at = "refresh"
    /\ moves => clock <= session[t].until
    /\ session' = IF ~moves THEN session
                  ELSE [session EXCEPT ![t].seen = clock,
                                       ![t].idle = Lesser(clock + Idle, session[t].until)]
    /\ req' = [req EXCEPT ![r].at = "handle"]
    /\ sessionLock' = [sessionLock EXCEPT ![t] = None]
    /\ operatorLock' = [operatorLock EXCEPT ![req[r].op] = None]
    /\ UNCHANGED <<clock, credential, browsers>>

-----------------------------------------------------------------------------
(* Handlers.                                                               *)

\* parsePost: the synchronizer value belongs to the session of the request.
Guard(r) == req[r].csrf = req[r].token

Console(r) ==
    /\ req[r].at = "handle" /\ req[r].kind = "console"
    /\ page' = [page EXCEPT ![req[r].browser] = req[r].token]
    /\ Leave(r)
    /\ UNCHANGED <<clock, credential, session, cookie>>

\* Creates a draft or queues a mailing for the operator of the session.
Mailing(r) ==
    /\ req[r].at = "handle" /\ req[r].kind = "mailing"
    /\ Guard(r)
    /\ Leave(r)
    /\ UNCHANGED <<clock, credential, session, browsers>>

\* The account pages, whose forms are bound to a cookie of their own.
Accounts(r) ==
    /\ req[r].at = "handle" /\ req[r].kind = "accounts"
    /\ Leave(r)
    /\ UNCHANGED <<clock, credential, session, browsers>>

\* A form of another session: the browser is sent to a fresh page.
Retry(r) ==
    /\ req[r].at = "handle" /\ req[r].kind \in {"mailing", "logout"}
    /\ ~Guard(r)
    /\ Leave(r)
    /\ UNCHANGED <<clock, credential, session, browsers>>

Logout(r) ==
    /\ req[r].at = "handle" /\ req[r].kind = "logout"
    /\ Guard(r)
    /\ sessionLock[req[r].token] = None
    /\ session' = [session EXCEPT ![req[r].token].state = IF @ = "live" THEN "revoked" ELSE @]
    /\ \E answered \in BOOLEAN :
          cookie' = IF answered THEN [cookie EXCEPT ![req[r].browser] = None] ELSE cookie
    /\ Leave(r)
    /\ UNCHANGED <<clock, credential, page>>

-----------------------------------------------------------------------------
(* Failures and time.                                                      *)

\* The browser goes away, PostgreSQL fails, or it ends the request because it
\* waits in a circle: CreateSession and BootstrapOrReset take the row of the
\* operator first and FindValidSession that of the session.  The transaction is rolled back.
GivesUp(r) ==
    /\ req[r].at \notin {"idle", "verify"}
    /\ Leave(r)
    /\ UNCHANGED <<clock, credential, session, browsers>>

Tick ==
    /\ clock < MaxTime
    /\ clock' = clock + 1
    /\ UNCHANGED <<credential, rows, operatorLock, browsers, req>>

-----------------------------------------------------------------------------
Init ==
    /\ clock = 0
    /\ credential \in [Operator -> {0, 1}]
    /\ session = [t \in Token |-> NoSession]
    /\ sessionLock = [t \in Token |-> None]
    /\ operatorLock = [o \in Operator |-> None]
    /\ cookie = [b \in Browser |-> None]
    /\ page = [b \in Browser |-> None]
    /\ req = [r \in Proc |-> NoRequest]

Proceed(r) ==
    \/ Verified(r) \/ LockOperator(r) \/ Prune(r) \/ Insert(r)
    \/ FindSession(r) \/ FindOperator(r) \/ Refresh(r)
    \/ Console(r) \/ Mailing(r) \/ Accounts(r) \/ Retry(r) \/ Logout(r)

Next ==
    \/ \E r \in Request :
          \/ \E b \in Browser :
                \/ \E o \in Operator : Login(r, b, o)
                \/ \E k \in Kind : Visit(r, b, k)
          \/ Proceed(r)
    \/ \E r \in Proc : GivesUp(r)
    \/ \E o \in Operator : Reset(o)
    \/ RevokeAll
    \/ Tick

Spec == Init /\ [][Next]_vars

-----------------------------------------------------------------------------
(* Properties.                                                             *)

\* The types of the variables; a request holds exactly the rows its place in
\* its transaction says, and the checks of the table operator_web_sessions.
TypeOK ==
    /\ clock \in 0 .. MaxTime
    /\ credential \in [Operator -> 0 .. MaxResets]
    /\ \A t \in Token :
          /\ session[t].state \in {"none", "live", "revoked", "pruned"}
          /\ session[t].seen <= session[t].idle /\ session[t].idle <= session[t].until
          /\ sessionLock[t] # None =>
                LET q == req[sessionLock[t]] IN
                \/ q.at \in {"operator", "refresh"} /\ q.token = t
                \/ q.at = "insert" /\ t \in q.evicts
    /\ \A o \in Operator : operatorLock[o] # None =>
          /\ req[operatorLock[o]].at \in {"prune", "insert", "refresh", "trigger"}
          /\ req[operatorLock[o]].op = o
    /\ cookie \in [Browser -> Token \cup {None}]
    /\ page \in [Browser -> Token \cup {None}]

\* An operator never has more than Limit sessions that can still be used,
\* however many logins run at once.
SessionsWithinLimit ==
    \A o \in Operator : Cardinality(LiveOf(o)) <= Limit

\* A session that is accepted was opened with the credential that is current
\* now: neither the sessions before a reset nor a login that verified the old
\* password while the reset ran survive it.
ResetEndsSessions ==
    \A t \in Token : Valid(t) => session[t].by = credential[session[t].op]

\* At the instant a request is accepted its session has not been revoked, by a
\* logout or by the limit, and its operator's credential has not been reset,
\* whatever ran while the request waited for the rows.
AcceptedWhileValid ==
    [][\A r \in Request : Refresh(r) =>
          LET t == req[r].token IN
          session[t].state = "live" /\ session[t].after = credential[session[t].op]]_vars

=============================================================================
