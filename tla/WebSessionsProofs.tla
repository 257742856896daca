------------------------- MODULE WebSessionsProofs -------------------------
(***************************************************************************)
(* A reset of the password ends every session opened with the old one, no *)
(* request is accepted with a session that was ended while it waited, and  *)
(* an operator never has more usable sessions than the limit, for any      *)
(* number of operators, browsers, requests and sessions.                   *)
(*                                                                         *)
(* All follow from who holds which row:  a login keeps the operator from   *)
(* its comparison of the password to its insertion, a request keeps its    *)
(* session and then its operator until it is accepted, and whoever ends a  *)
(* session or changes a password must have the row.                        *)
(***************************************************************************)
EXTENDS WebSessions, TLAPS, FiniteSetTheorems, WellFoundedInduction

Stage == {"idle", "verify", "create", "prune", "insert", "find", "operator",
          "refresh", "handle", "trigger"}

SessionRow == [state : {"none", "live", "revoked", "pruned"},
               op : Operator \cup {None}, by : Nat, after : Nat,
               seen : Nat, idle : Nat, until : Nat]

RequestState == [at : Stage, kind : Kind \cup {"none", "login", "reset"},
                 browser : Browser \cup {None}, op : Operator \cup {None},
                 password : Nat, token : {0} \cup Token, csrf : {0} \cup Token,
                 evicts : SUBSET Token]

Types ==
    /\ clock \in Nat
    /\ credential \in [Operator -> Nat]
    /\ session \in [Token -> SessionRow]
    /\ sessionLock \in [Token -> Proc \cup {None}]
    /\ operatorLock \in [Operator -> Proc \cup {None}]
    /\ cookie \in [Browser -> Token \cup {None}]
    /\ page \in [Browser -> Token \cup {None}]
    /\ req \in [Proc -> RequestState]

\* The rows of the table have an operator, and tokens are used in their order.
Rows ==
    /\ \A t \in Token : session[t].state # "none" => session[t].op \in Operator
    /\ \E n \in 0 .. MaxTokens : Created = 1 .. n

\* What a request knows of its session and operator.
Targets ==
    \A r \in Proc :
        /\ req[r].at \in {"find", "operator", "refresh", "handle"} => req[r].token \in Token
        /\ req[r].at \in {"verify", "create", "prune", "insert", "operator", "refresh",
                          "trigger"} => req[r].op \in Operator
        /\ r = Admin => req[r].at \in {"idle", "trigger"}
        /\ req[r].at = "trigger" => r = Admin

\* The row of the operator is held from the comparison of the password to the
\* insertion, from the second look to the acceptance, and by a reset.
OperatorHeld ==
    \A r \in Proc :
        req[r].at \in {"prune", "insert", "refresh", "trigger"} =>
            operatorLock[req[r].op] = r

\* A login in that section has verified the current password.
LoginCurrent ==
    \A r \in Request :
        req[r].at \in {"prune", "insert"} => credential[req[r].op] = req[r].password

\* The rows of the sessions a login is about to end are held.
EvictsHeld ==
    \A r \in Request :
        req[r].at = "insert" =>
            \A t \in req[r].evicts : sessionLock[t] = r /\ session[t].state # "none"

\* A request that waits for its operator, or is about to be accepted, holds a
\* live session; in the end one of the current password.
SessionHeld ==
    \A r \in Request :
        req[r].at \in {"operator", "refresh"} =>
            /\ sessionLock[req[r].token] = r
            /\ session[req[r].token].state = "live"
            /\ session[req[r].token].op = req[r].op
            /\ req[r].at = "refresh" =>
                  session[req[r].token].after = credential[req[r].op]

\* A session counts from the reset that set the password it was opened with.
OpenedAfter == \A t \in Token : session[t].by = session[t].after

Inv ==
    /\ Types /\ Rows /\ Targets
    /\ OperatorHeld /\ LoginCurrent /\ EvictsHeld /\ SessionHeld /\ OpenedAfter

-----------------------------------------------------------------------------
(* Initially.                                                              *)

\* Init establishes the invariant.
LEMMA InvInit == Init => Inv
<1> SUFFICES ASSUME Init PROVE Inv
  OBVIOUS
<1> USE SessionsAssumption DEF Init, NoSession, NoRequest
<1>1. NoSession \in SessionRow /\ NoRequest \in RequestState
  BY DEF SessionRow, RequestState, Stage
<1>2. Types
  BY <1>1 DEF Types, NoSession, NoRequest
<1>3. Rows
  <2>1. Created = {}
    BY DEF Created, Token
  <2>2. 0 \in 0 .. MaxTokens /\ 1 .. 0 = {}
    OBVIOUS
  <2>3. \E n \in 0 .. MaxTokens : Created = 1 .. n
    BY <2>1, <2>2
  <2>4. \A t \in Token : session[t].state = "none"
    OBVIOUS
  <2> QED
    BY <2>3, <2>4 DEF Rows
<1>4. \A r \in Proc : req[r].at = "idle"
  OBVIOUS
<1>5. Targets /\ OperatorHeld
  BY <1>4 DEF Targets, OperatorHeld
<1>6. LoginCurrent /\ EvictsHeld /\ SessionHeld
  BY <1>4 DEF LoginCurrent, EvictsHeld, SessionHeld, Proc
<1> QED
  BY <1>2, <1>3, <1>5, <1>6 DEF Inv, OpenedAfter

-----------------------------------------------------------------------------
(* Steps that leave the sessions and credentials alone.                    *)

\* Leaving gives up the rows of one request and takes none.
LEMMA LeaveFacts ==
    ASSUME Inv, NEW r \in Proc, Leave(r)
    PROVE  /\ req' \in [Proc -> RequestState]
           /\ sessionLock' \in [Token -> Proc \cup {None}]
           /\ operatorLock' \in [Operator -> Proc \cup {None}]
           /\ \A q \in Proc : q # r => req'[q] = req[q]
           /\ req'[r].at = "idle"
           /\ \A t \in Token : sessionLock[t] # r => sessionLock'[t] = sessionLock[t]
           /\ \A o \in Operator : operatorLock[o] # r => operatorLock'[o] = operatorLock[o]
<1>1. NoRequest \in RequestState /\ NoRequest.at = "idle"
  BY DEF NoRequest, RequestState, Stage
<1> QED
  BY <1>1 DEF Inv, Types, Leave

\* What it keeps of the invariant whatever else the step does to sessions,
\* credentials and browsers.
LEMMA LeaveTargets ==
    ASSUME Inv, NEW r \in Proc, Leave(r),
           \A t \in Token : session[t].state # "none" => session'[t].state # "none"
    PROVE  Targets' /\ OperatorHeld' /\ EvictsHeld'
<1>1. Targets'
  BY LeaveFacts DEF Inv, Targets
<1>2. OperatorHeld'
  BY LeaveFacts DEF Inv, OperatorHeld, Targets
<1>3. EvictsHeld'
  BY LeaveFacts DEF Inv, EvictsHeld, Proc, Types, RequestState
<1> QED
  BY <1>1, <1>2, <1>3

\* A request that leaves without a write.
LEMMA LeaveHolds ==
    ASSUME Inv, NEW r \in Proc, Leave(r), UNCHANGED <<clock, credential, session>>,
           cookie' \in [Browser -> Token \cup {None}],
           page' \in [Browser -> Token \cup {None}]
    PROVE  Inv'
<1>1. Types'
  BY LeaveFacts DEF Inv, Types
<1>2. Rows' /\ OpenedAfter'
  BY DEF Inv, Rows, Created, OpenedAfter
<1>3. LoginCurrent'
  BY LeaveFacts DEF Inv, LoginCurrent, Proc
<1>4. SessionHeld'
  BY LeaveFacts DEF Inv, SessionHeld, Proc, Targets
<1> QED
  BY <1>1, <1>2, <1>3, <1>4, LeaveTargets DEF Inv

\* A request that advances by itself: its own steps before it holds anything new.
LEMMA RequestMoves ==
    ASSUME Inv, NEW r \in Request, NEW q \in RequestState, req' = [req EXCEPT ![r] = q],
           UNCHANGED <<clock, credential, session, sessionLock, operatorLock, cookie>>,
           page' \in [Browser -> Token \cup {None}],
           q.at \in {"idle", "verify", "create", "find", "handle"},
           q.at \in {"find", "handle"} => q.token \in Token,
           q.at \in {"verify", "create"} => q.op \in Operator
    PROVE  Inv'
<1> USE SessionsAssumption
<1>1. /\ \A p \in Proc : p # r => req'[p] = req[p]
      /\ req'[r] = q /\ r \in Proc /\ r # Admin
  BY DEF Inv, Types, Proc
<1>2. Types'
  BY <1>1 DEF Inv, Types
<1>3. Rows' /\ OpenedAfter'
  BY DEF Inv, Rows, Created, OpenedAfter
<1>4. Targets'
  BY <1>1 DEF Inv, Targets
<1>5. OperatorHeld' /\ LoginCurrent' /\ EvictsHeld' /\ SessionHeld'
  BY <1>1 DEF Inv, OperatorHeld, LoginCurrent, EvictsHeld, SessionHeld, Proc
<1> QED
  BY <1>2, <1>3, <1>4, <1>5 DEF Inv

-----------------------------------------------------------------------------
(* One lemma per action that takes a row or writes.                        *)

\* The reset takes the row of the operator.
LEMMA ResetHolds == ASSUME Inv, NEW o \in Operator, Reset(o) PROVE Inv'
<1> USE SessionsAssumption
<1> DEFINE q == [NoRequest EXCEPT !.at = "trigger", !.kind = "reset", !.op = o]
<1>1. q \in RequestState /\ q.at = "trigger" /\ q.op = o
  BY DEF NoRequest, RequestState, Stage
<1>2. /\ Admin \in Proc
      /\ req' = [req EXCEPT ![Admin] = q]
      /\ operatorLock[o] = None
      /\ operatorLock' = [operatorLock EXCEPT ![o] = Admin]
      /\ UNCHANGED <<clock, credential, session, sessionLock, cookie, page>>
  BY DEF Reset, Proc, rows, browsers
<1> HIDE DEF q
<1>3. /\ \A p \in Proc : p # Admin => req'[p] = req[p]
      /\ req'[Admin] = q
      /\ \A m \in Operator : m # o => operatorLock'[m] = operatorLock[m]
      /\ operatorLock'[o] = Admin
      /\ \A r \in Request : r \in Proc /\ r # Admin /\ r # None
  BY <1>2 DEF Inv, Types, Proc
<1>4. Types'
  BY <1>1, <1>2 DEF Inv, Types
<1>5. Rows' /\ OpenedAfter'
  BY <1>2 DEF Inv, Rows, Created, OpenedAfter
<1>6. Targets'
  BY <1>1, <1>3 DEF Inv, Targets
<1>7. OperatorHeld'
  BY <1>1, <1>2, <1>3 DEF Inv, OperatorHeld, Targets, Proc
<1>8. LoginCurrent' /\ EvictsHeld' /\ SessionHeld'
  BY <1>2, <1>3 DEF Inv, LoginCurrent, EvictsHeld, SessionHeld
<1> QED
  BY <1>4, <1>5, <1>6, <1>7, <1>8 DEF Inv

\* The reset waits for every live session of the operator, so that it ends none
\* that a request holds; no login of the operator is past its comparison.
LEMMA RevokeAllHolds == ASSUME Inv, RevokeAll PROVE Inv'
<1> USE SessionsAssumption
<1> DEFINE o == req[Admin].op
<1>1. /\ Admin \in Proc /\ req[Admin].at = "trigger"
      /\ \A t \in Unrevoked(o) : sessionLock[t] = None
      /\ credential' = [credential EXCEPT ![o] = @ + 1]
      /\ session' = [t \in Token |-> IF t \in Unrevoked(o)
                                      THEN [session[t] EXCEPT !.state = "revoked"]
                                      ELSE session[t]]
      /\ Leave(Admin)
      /\ UNCHANGED <<clock, cookie, page>>
  BY DEF RevokeAll, Proc, browsers
<1>2. o \in Operator /\ operatorLock[o] = Admin
  BY <1>1 DEF Inv, Targets, OperatorHeld
<1> HIDE DEF o
<1>3. /\ \A t \in Token : session'[t].by = session[t].by /\ session'[t].after = session[t].after
      /\ \A t \in Token : session'[t].op = session[t].op
      /\ \A t \in Token : session'[t].state = "none" <=> session[t].state = "none"
      /\ \A t \in Token : t \notin Unrevoked(o) => session'[t] = session[t]
      /\ session' \in [Token -> SessionRow]
  BY <1>1 DEF Inv, Types, SessionRow, Unrevoked
<1>4. /\ credential' \in [Operator -> Nat]
      /\ \A m \in Operator : m # o => credential'[m] = credential[m]
  BY <1>1, <1>2 DEF Inv, Types
<1>5. Types'
  BY <1>1, <1>3, <1>4, LeaveFacts DEF Inv, Types
<1>6. Rows' /\ OpenedAfter'
  <2>1. Created' = Created
    BY <1>3 DEF Created
  <2> QED
    BY <2>1, <1>3 DEF Inv, Rows, OpenedAfter
<1>7. Targets' /\ OperatorHeld' /\ EvictsHeld'
  BY <1>1, <1>3, LeaveTargets
<1>8. \A r \in Request : r \in Proc /\ r # Admin /\ r # None /\ req'[r] = req[r]
  BY <1>1, LeaveFacts DEF Proc
<1>9. ASSUME NEW r \in Request, req[r].at \in {"prune", "insert", "refresh"}
      PROVE  req[r].op \in Operator /\ req[r].op # o
  BY <1>2, <1>8, <1>9 DEF Inv, OperatorHeld, Targets
<1>10. LoginCurrent'
  BY <1>4, <1>8, <1>9 DEF Inv, LoginCurrent
<1>11. SessionHeld'
  <2> SUFFICES ASSUME NEW r \in Request, req[r].at \in {"operator", "refresh"}
               PROVE  /\ sessionLock'[req[r].token] = r
                      /\ session'[req[r].token].state = "live"
                      /\ session'[req[r].token].op = req[r].op
                      /\ req[r].at = "refresh" =>
                            session'[req[r].token].after = credential'[req[r].op]
    BY <1>8 DEF SessionHeld
  <2>1. /\ req[r].token \in Token /\ sessionLock[req[r].token] = r
        /\ session[req[r].token].state = "live"
        /\ session[req[r].token].op = req[r].op
        /\ req[r].at = "refresh" => session[req[r].token].after = credential[req[r].op]
    BY <1>8 DEF Inv, SessionHeld, Targets
  <2>2. sessionLock'[req[r].token] = r
    BY <1>1, <1>8, <2>1, LeaveFacts
  <2>3. session'[req[r].token] = session[req[r].token]
    BY <1>1, <1>3, <1>8, <2>1
  <2> QED
    BY <1>4, <1>9, <2>1, <2>2, <2>3
<1> QED
  BY <1>5, <1>6, <1>7, <1>10, <1>11 DEF Inv

\* A request takes rows and goes on; it has the rows its next place asks for.
LEMMA RequestLocks ==
    ASSUME Inv, NEW r \in Request, NEW q \in RequestState, req' = [req EXCEPT ![r] = q],
           UNCHANGED <<clock, credential, session, browsers>>,
           sessionLock' \in [Token -> Proc \cup {None}],
           operatorLock' \in [Operator -> Proc \cup {None}],
           \A t \in Token : sessionLock[t] # None => sessionLock'[t] = sessionLock[t],
           \A o \in Operator : operatorLock[o] # None => operatorLock'[o] = operatorLock[o],
           q.at \in {"prune", "insert", "operator", "refresh"},
           q.op \in Operator,
           q.at # "operator" => operatorLock'[q.op] = r,
           q.at \in {"prune", "insert"} => credential[q.op] = q.password,
           q.at = "insert" =>
               \A t \in q.evicts : sessionLock'[t] = r /\ session[t].state # "none",
           q.at \in {"operator", "refresh"} =>
               /\ q.token \in Token
               /\ sessionLock'[q.token] = r
               /\ session[q.token].state = "live"
               /\ session[q.token].op = q.op,
           q.at = "refresh" => session[q.token].after = credential[q.op]
    PROVE  Inv'
<1> USE SessionsAssumption
<1>1. /\ \A p \in Proc : p # r => req'[p] = req[p]
      /\ req'[r] = q /\ r \in Proc /\ r # Admin
      /\ \A p \in Proc : p # None
  BY DEF Inv, Types, Proc
<1>2. Types'
  BY <1>1 DEF Inv, Types, browsers
<1>3. Rows' /\ OpenedAfter'
  BY DEF Inv, Rows, Created, OpenedAfter
<1>4. Targets'
  BY <1>1 DEF Inv, Targets
<1>5. OperatorHeld'
  BY <1>1 DEF Inv, OperatorHeld, Targets
<1>6. LoginCurrent'
  BY <1>1 DEF Inv, LoginCurrent, Proc
<1>7. EvictsHeld'
  BY <1>1 DEF Inv, EvictsHeld, Proc, Types, RequestState
<1>8. SessionHeld'
  BY <1>1 DEF Inv, SessionHeld, Proc, Targets
<1> QED
  BY <1>2, <1>3, <1>4, <1>5, <1>6, <1>7, <1>8 DEF Inv

\* The comparison of the password.
LEMMA LockOperatorHolds == ASSUME Inv, NEW r \in Request, LockOperator(r) PROVE Inv'
<1> USE SessionsAssumption
<1> DEFINE o == req[r].op
<1>0. r \in Proc /\ req[r].at = "create" /\ o \in Operator /\ req[r] \in RequestState
  BY DEF Inv, Types, Targets, LockOperator, Proc
<1>1. CASE credential[o] = req[r].password
  <2> DEFINE q == [req[r] EXCEPT !.at = "prune"]
  <2>1. /\ q \in RequestState /\ q.at = "prune" /\ q.op = o
        /\ q.password = req[r].password
    BY <1>0 DEF RequestState, Stage
  <2>2. /\ req' = [req EXCEPT ![r] = q]
        /\ operatorLock[o] = None
        /\ operatorLock' = [operatorLock EXCEPT ![o] = r]
        /\ UNCHANGED <<clock, credential, session, sessionLock, browsers>>
    BY <1>1 DEF LockOperator
  <2>3. /\ operatorLock' \in [Operator -> Proc \cup {None}]
        /\ operatorLock'[o] = r
        /\ \A m \in Operator : operatorLock[m] # None => operatorLock'[m] = operatorLock[m]
        /\ sessionLock' \in [Token -> Proc \cup {None}]
    BY <1>0, <2>2 DEF Inv, Types
  <2> HIDE DEF q, o
  <2> QED
    BY <1>0, <1>1, <2>1, <2>2, <2>3, RequestLocks
<1>2. CASE credential[o] # req[r].password
  BY <1>0, <1>2, LeaveHolds DEF LockOperator, Inv, Types, browsers
<1> QED
  BY <1>1, <1>2

\* A login collects the rows it will end.
LEMMA PruneHolds == ASSUME Inv, NEW r \in Request, Prune(r) PROVE Inv'
<1> USE SessionsAssumption
<1> DEFINE q == [req[r] EXCEPT !.at = "insert", !.evicts = Touched(r)]
<1>1. \A t \in Touched(r) : t \in Token /\ session[t].state # "none"
  BY DEF Touched, Dead, Excess, LiveOf
<1>2. r \in Proc /\ req[r].at = "prune" /\ req[r] \in RequestState
  BY DEF Inv, Types, Prune, Proc
<1>3. /\ q \in RequestState /\ q.at = "insert" /\ q.evicts = Touched(r)
      /\ q.op = req[r].op /\ q.password = req[r].password
  BY <1>1, <1>2 DEF RequestState, Stage
<1>4. /\ req' = [req EXCEPT ![r] = q]
      /\ \A t \in Touched(r) : sessionLock[t] = None
      /\ sessionLock' = [t \in Token |-> IF t \in Touched(r) THEN r ELSE sessionLock[t]]
      /\ UNCHANGED <<clock, credential, session, operatorLock, browsers>>
  BY <1>2 DEF Prune, Inv, Types
<1>5. /\ req[r].op \in Operator /\ operatorLock[req[r].op] = r
      /\ credential[req[r].op] = req[r].password
  BY <1>2 DEF Inv, Targets, OperatorHeld, LoginCurrent
<1> HIDE DEF q
<1>6. /\ sessionLock' \in [Token -> Proc \cup {None}]
      /\ operatorLock' \in [Operator -> Proc \cup {None}]
      /\ \A t \in q.evicts : sessionLock'[t] = r /\ session[t].state # "none"
      /\ \A t \in Token : sessionLock[t] # None => sessionLock'[t] = sessionLock[t]
      /\ operatorLock'[q.op] = r
      /\ \A o \in Operator : operatorLock'[o] = operatorLock[o]
  BY <1>1, <1>2, <1>3, <1>4, <1>5 DEF Inv, Types
<1>7. q.op \in Operator /\ credential[q.op] = q.password
  BY <1>3, <1>5
<1>8. UNCHANGED <<clock, credential, session, browsers>>
  BY <1>4
<1>9. req' = [req EXCEPT ![r] = q] /\ q \in RequestState /\ q.at = "insert"
  BY <1>3, <1>4
<1> QED
  BY <1>6, <1>7, <1>8, <1>9, RequestLocks

\* The first row of FindValidSession.
LEMMA FindSessionHolds == ASSUME Inv, NEW r \in Request, FindSession(r) PROVE Inv'
<1> USE SessionsAssumption
<1> DEFINE t == req[r].token
           q == [req[r] EXCEPT !.at = "operator", !.op = session[t].op]
<1>1. r \in Proc /\ req[r].at = "find" /\ t \in Token /\ req[r] \in RequestState
  BY DEF Inv, Types, Targets, FindSession, Proc
<1>2. CASE Valid(t)
  <2>1. session[t].state = "live" /\ session[t].op \in Operator
    BY <1>1, <1>2 DEF Valid, Inv, Rows
  <2>2. /\ q \in RequestState /\ q.at = "operator" /\ q.token = t
        /\ q.op = session[t].op
    BY <1>1, <2>1 DEF RequestState, Stage
  <2>3. /\ req' = [req EXCEPT ![r] = q]
        /\ sessionLock[t] = None
        /\ sessionLock' = [sessionLock EXCEPT ![t] = r]
        /\ UNCHANGED <<clock, credential, session, operatorLock, browsers>>
    BY <1>1, <1>2 DEF FindSession, Inv, Types, RequestState
  <2> HIDE DEF q, t
  <2>4. /\ sessionLock' \in [Token -> Proc \cup {None}]
        /\ operatorLock' \in [Operator -> Proc \cup {None}]
        /\ sessionLock'[t] = r
        /\ \A u \in Token : sessionLock[u] # None => sessionLock'[u] = sessionLock[u]
    BY <1>1, <2>3 DEF Inv, Types
  <2> QED
    BY <2>1, <2>2, <2>3, <2>4, <1>1, RequestLocks
<1>3. CASE ~Valid(t)
  BY <1>1, <1>3, LeaveHolds DEF FindSession, Inv, Types, browsers
<1> QED
  BY <1>2, <1>3

\* The second row, and the second look at the session.
LEMMA FindOperatorHolds == ASSUME Inv, NEW r \in Request, FindOperator(r) PROVE Inv'
<1> USE SessionsAssumption
<1> DEFINE t == req[r].token
           o == req[r].op
           q == [req[r] EXCEPT !.at = "refresh"]
<1>1. /\ r \in Proc /\ req[r].at = "operator" /\ t \in Token /\ o \in Operator
      /\ req[r] \in RequestState
      /\ sessionLock[t] = r /\ session[t].state = "live" /\ session[t].op = o
  BY DEF Inv, Types, Targets, SessionHeld, FindOperator, Proc
<1>2. CASE session[t].after = credential[o]
  <2>1. q \in RequestState /\ q.at = "refresh" /\ q.token = t /\ q.op = o
    BY <1>1 DEF RequestState, Stage
  <2>2. /\ req' = [req EXCEPT ![r] = q]
        /\ operatorLock[o] = None
        /\ operatorLock' = [operatorLock EXCEPT ![o] = r]
        /\ UNCHANGED <<clock, credential, session, sessionLock, browsers>>
    BY <1>2 DEF FindOperator
  <2> HIDE DEF q, t, o
  <2>3. /\ operatorLock' \in [Operator -> Proc \cup {None}]
        /\ operatorLock'[o] = r
        /\ \A m \in Operator : operatorLock[m] # None => operatorLock'[m] = operatorLock[m]
        /\ sessionLock' \in [Token -> Proc \cup {None}]
    BY <1>1, <2>2 DEF Inv, Types
  <2>4. /\ q.op \in Operator /\ q.token \in Token
        /\ operatorLock'[q.op] = r /\ sessionLock'[q.token] = r
        /\ session[q.token].state = "live" /\ session[q.token].op = q.op
        /\ session[q.token].after = credential[q.op]
    BY <1>1, <1>2, <2>1, <2>2, <2>3
  <2>5. /\ UNCHANGED <<clock, credential, session, browsers>>
        /\ \A u \in Token : sessionLock'[u] = sessionLock[u]
    BY <2>2
  <2>6. q \in RequestState /\ q.at = "refresh" /\ req' = [req EXCEPT ![r] = q]
    BY <2>1, <2>2
  <2> QED
    BY <2>3, <2>4, <2>5, <2>6, RequestLocks
<1>3. CASE session[t].after # credential[o]
  BY <1>1, <1>3, LeaveHolds DEF FindOperator, Inv, Types, browsers
<1> QED
  BY <1>2, <1>3

\* The commit that accepts a request gives up its two rows and no others.
LEMMA RefreshHolds == ASSUME Inv, NEW r \in Request, Refresh(r) PROVE Inv'
<1> USE SessionsAssumption
<1> DEFINE t == req[r].token
           o == req[r].op
           q == [req[r] EXCEPT !.at = "handle"]
<1>1. /\ r \in Proc /\ r # Admin /\ req[r].at = "refresh" /\ t \in Token /\ o \in Operator
      /\ req[r] \in RequestState
      /\ sessionLock[t] = r /\ operatorLock[o] = r
  BY DEF Inv, Types, Targets, SessionHeld, OperatorHeld, Refresh, Proc
<1>2. q \in RequestState /\ q.at = "handle" /\ q.token = t
  BY <1>1 DEF RequestState, Stage
<1>3. /\ req' = [req EXCEPT ![r] = q]
      /\ sessionLock' = [sessionLock EXCEPT ![t] = None]
      /\ operatorLock' = [operatorLock EXCEPT ![o] = None]
      /\ UNCHANGED <<clock, credential, cookie, page>>
  BY DEF Refresh, browsers
<1>4. /\ session' \in [Token -> SessionRow]
      /\ \A u \in Token : /\ session'[u].state = session[u].state
                          /\ session'[u].op = session[u].op
                          /\ session'[u].by = session[u].by
                          /\ session'[u].after = session[u].after
  <2>1. clock \in Nat /\ clock + Idle \in Nat /\ session \in [Token -> SessionRow]
    BY DEF Inv, Types
  <2>2. Lesser(clock + Idle, session[t].until) \in Nat
    BY <1>1, <2>1 DEF Lesser, SessionRow
  <2> DEFINE row == [session[t] EXCEPT !.seen = clock,
                                       !.idle = Lesser(clock + Idle, session[t].until)]
  <2>3. /\ row \in SessionRow
        /\ row.state = session[t].state /\ row.op = session[t].op
        /\ row.by = session[t].by /\ row.after = session[t].after
    <3>1. session[t] \in SessionRow
      BY <1>1, <2>1
    <3> DEFINE idle == Lesser(clock + Idle, session[t].until)
    <3>2. idle \in Nat
      BY <2>2
    <3> HIDE DEF idle
    <3> QED
      BY <2>1, <3>1, <3>2 DEF SessionRow, idle
  <2>4. session' = session \/ session' = [session EXCEPT ![t] = row]
    BY <1>1, <2>1 DEF Refresh
  <2> HIDE DEF row, t
  <2> QED
    BY <1>1, <2>1, <2>3, <2>4
<1> HIDE DEF q, t, o
<1>5. /\ \A p \in Proc : p # r => req'[p] = req[p]
      /\ req'[r] = q
      /\ \A u \in Token : sessionLock[u] # r => sessionLock'[u] = sessionLock[u]
      /\ \A m \in Operator : operatorLock[m] # r => operatorLock'[m] = operatorLock[m]
      /\ \A p \in Request : p \in Proc
  BY <1>1, <1>3 DEF Inv, Types, Proc
<1>6. Types'
  BY <1>1, <1>2, <1>3, <1>4 DEF Inv, Types
<1>7. Rows' /\ OpenedAfter'
  <2>1. Created' = Created
    BY <1>4 DEF Created
  <2> QED
    BY <2>1, <1>4 DEF Inv, Rows, OpenedAfter
<1>8. Targets'
  BY <1>1, <1>2, <1>5 DEF Inv, Targets
<1>9. OperatorHeld'
  BY <1>2, <1>5 DEF Inv, OperatorHeld, Targets
<1>10. LoginCurrent'
  BY <1>2, <1>3, <1>5 DEF Inv, LoginCurrent
<1>11. EvictsHeld'
  <2> SUFFICES ASSUME NEW p \in Request, p # r, req[p].at = "insert",
                      NEW u \in req[p].evicts
               PROVE  sessionLock'[u] = p /\ session'[u].state # "none"
    BY <1>2, <1>5 DEF EvictsHeld
  <2>1. u \in Token /\ sessionLock[u] = p /\ session[u].state # "none"
    BY <1>5 DEF Inv, EvictsHeld, Types, RequestState
  <2> QED
    BY <1>4, <1>5, <2>1
<1>12. SessionHeld'
  BY <1>2, <1>3, <1>4, <1>5 DEF Inv, SessionHeld, Targets
<1> QED
  BY <1>6, <1>7, <1>8, <1>9, <1>10, <1>11, <1>12 DEF Inv

\* The token of a new session was never used, and the sessions it ends are held.
LEMMA InsertHolds == ASSUME Inv, NEW r \in Request, Insert(r) PROVE Inv'
<1> USE SessionsAssumption
<1> DEFINE o == req[r].op
           new == Cardinality(Created) + 1
           row == [state |-> "live", op |-> o, by |-> req[r].password,
                   after |-> credential[o], seen |-> clock,
                   idle |-> clock + Idle, until |-> clock + Absolute]
<1>1. /\ r \in Proc /\ req[r].at = "insert" /\ o \in Operator
      /\ req[r] \in RequestState
      /\ credential[o] = req[r].password
      /\ \A t \in req[r].evicts : sessionLock[t] = r
  BY DEF Inv, Types, Targets, LoginCurrent, EvictsHeld, Insert, Proc
<1>2. PICK n \in 0 .. MaxTokens : Created = 1 .. n
  BY DEF Inv, Rows
<1>3. new = n + 1
  <2>1. n \in Int /\ 1 \in Int
    OBVIOUS
  <2>2. Cardinality(1 .. n) = IF 1 > n THEN 0 ELSE n - 1 + 1
    BY <2>1, FS_Interval
  <2>3. Cardinality(1 .. n) = n
    BY <2>2
  <2> QED
    BY <1>2, <2>3
<1>4. new \in Token /\ session[new].state = "none" /\ Created \cup {new} = 1 .. new
  <2>1. n # MaxTokens
    BY <1>2 DEF Insert, Token
  <2>2. n + 1 \in Token /\ n + 1 \notin Created
    BY <1>2, <2>1 DEF Token
  <2>3. (1 .. n) \cup {n + 1} = 1 .. (n + 1)
    OBVIOUS
  <2> QED
    BY <1>2, <1>3, <2>2, <2>3 DEF Created
<1>5. row \in SessionRow /\ row.by = row.after /\ row.state = "live" /\ row.op = o
  <2>1. clock \in Nat /\ clock + Idle \in Nat /\ clock + Absolute \in Nat
    BY DEF Inv, Types
  <2> QED
    BY <1>1, <2>1 DEF Inv, Types, SessionRow
<1>6. /\ Leave(r)
      /\ session' = [t \in Token |->
             IF t = new THEN row
             ELSE IF t \notin req[r].evicts THEN session[t]
             ELSE [session[t] EXCEPT !.state =
                     IF @ = "live" /\ Unexpired(t) /\ session[t].op = o
                     THEN "revoked" ELSE "pruned"]]
      /\ UNCHANGED <<clock, credential, page>>
  BY DEF Insert
<1>7. cookie' \in [Browser -> Token \cup {None}]
  <2> HIDE DEF new
  <2>1. cookie' = cookie \/ cookie' = [cookie EXCEPT ![req[r].browser] = new]
    BY DEF Insert, new
  <2> QED
    BY <1>4, <2>1 DEF Inv, Types
<1> HIDE DEF row, new, o
<1>8. /\ session' \in [Token -> SessionRow]
      /\ session'[new] = row
      /\ \A t \in Token : t # new /\ t \notin req[r].evicts => session'[t] = session[t]
      /\ \A t \in Token \ {new} : /\ session'[t].op = session[t].op
                                   /\ session'[t].by = session[t].by
                                   /\ session'[t].after = session[t].after
  BY <1>4, <1>5, <1>6 DEF Inv, Types, SessionRow
<1>9. \A t \in Token \ {new} : session'[t].state = "none" <=> session[t].state = "none"
  BY <1>1, <1>6, <1>8 DEF Inv, Types, EvictsHeld, SessionRow
<1>10. Types' /\ OpenedAfter'
  <2>1. Types'
    BY <1>1, <1>6, <1>7, <1>8, LeaveFacts DEF Inv, Types
  <2>2. OpenedAfter'
    BY <1>5, <1>8 DEF Inv, OpenedAfter
  <2> QED
    BY <2>1, <2>2
<1>11. Rows'
  <2>1. Created' = Created \cup {new}
    BY <1>4, <1>5, <1>8, <1>9 DEF Created
  <2>2. new \in 0 .. MaxTokens
    BY <1>4 DEF Token
  <2> QED
    BY <1>1, <1>4, <1>5, <1>8, <1>9, <2>1, <2>2 DEF Inv, Rows
<1>12. Targets' /\ OperatorHeld' /\ EvictsHeld'
  BY <1>1, <1>4, <1>6, <1>9, LeaveTargets
<1>13. \A p \in Request : p \in Proc /\ (p # r => req'[p] = req[p])
  BY <1>1, <1>6, LeaveFacts DEF Proc
<1>14. LoginCurrent'
  BY <1>1, <1>6, <1>13, LeaveFacts DEF Inv, LoginCurrent
<1>15. SessionHeld'
  <2> SUFFICES ASSUME NEW p \in Request, p # r, req[p].at \in {"operator", "refresh"}
               PROVE  /\ sessionLock'[req[p].token] = p
                      /\ session'[req[p].token].state = "live"
                      /\ session'[req[p].token].op = req[p].op
                      /\ req[p].at = "refresh" =>
                            session'[req[p].token].after = credential[req[p].op]
    <3>1. credential' = credential /\ req'[r].at = "idle"
      BY <1>1, <1>6, LeaveFacts
    <3> QED
      BY <3>1, <1>13 DEF SessionHeld
  <2>1. /\ req[p].token \in Token /\ sessionLock[req[p].token] = p
        /\ session[req[p].token].state = "live"
        /\ session[req[p].token].op = req[p].op
        /\ req[p].at = "refresh" =>
              session[req[p].token].after = credential[req[p].op]
    BY <1>13 DEF Inv, SessionHeld, Targets
  <2>2. req[p].token # new /\ req[p].token \notin req[r].evicts
    BY <1>1, <1>4, <2>1
  <2>3. session'[req[p].token] = session[req[p].token]
    BY <1>8, <2>1, <2>2
  <2>4. sessionLock'[req[p].token] = sessionLock[req[p].token]
    BY <1>1, <1>6, <2>1, LeaveFacts
  <2> QED
    BY <2>1, <2>3, <2>4
<1> QED
  BY <1>10, <1>11, <1>12, <1>14, <1>15 DEF Inv

\* Logout waits for the row of the session it ends.
LEMMA LogoutHolds == ASSUME Inv, NEW r \in Request, Logout(r) PROVE Inv'
<1> USE SessionsAssumption
<1> DEFINE t == req[r].token
           row == [session[t] EXCEPT !.state = IF @ = "live" THEN "revoked" ELSE @]
<1>1. /\ r \in Proc /\ req[r].at = "handle" /\ t \in Token
      /\ sessionLock[t] = None
      /\ Leave(r)
      /\ UNCHANGED <<clock, credential, page>>
  BY DEF Inv, Types, Targets, Logout, Proc
<1>2. /\ row \in SessionRow /\ row.by = session[t].by /\ row.after = session[t].after
      /\ row.op = session[t].op
      /\ row.state = "none" <=> session[t].state = "none"
  BY <1>1 DEF Inv, Types, SessionRow
<1>3. session' = [session EXCEPT ![t] = row]
  BY <1>1 DEF Logout, Inv, Types, SessionRow
<1>4. cookie' \in [Browser -> Token \cup {None}]
  <2>1. cookie' = cookie \/ cookie' = [cookie EXCEPT ![req[r].browser] = None]
    BY DEF Logout
  <2> QED
    BY <2>1 DEF Inv, Types
<1> HIDE DEF t, row
<1>5. /\ session' \in [Token -> SessionRow]
      /\ \A u \in Token : u # t => session'[u] = session[u]
      /\ session'[t] = row
  BY <1>1, <1>2, <1>3 DEF Inv, Types
<1>6. \A u \in Token : /\ session'[u].op = session[u].op
                       /\ session'[u].by = session[u].by
                       /\ session'[u].after = session[u].after
                       /\ session'[u].state = "none" <=> session[u].state = "none"
  BY <1>2, <1>5
<1>7. Types'
  BY <1>1, <1>4, <1>5, LeaveFacts DEF Inv, Types
<1>8. Rows' /\ OpenedAfter'
  <2>1. Created' = Created
    BY <1>6 DEF Created
  <2> QED
    BY <2>1, <1>6 DEF Inv, Rows, OpenedAfter
<1>9. Targets' /\ OperatorHeld' /\ EvictsHeld'
  BY <1>1, <1>6, LeaveTargets
<1>10. \A p \in Request : p \in Proc /\ p # None /\ (p # r => req'[p] = req[p])
  BY <1>1, LeaveFacts DEF Proc
<1>11. LoginCurrent'
  BY <1>1, <1>10, LeaveFacts DEF Inv, LoginCurrent
<1>12. SessionHeld'
  BY <1>1, <1>5, <1>10, LeaveFacts DEF Inv, SessionHeld, Targets
<1> QED
  BY <1>7, <1>8, <1>9, <1>11, <1>12 DEF Inv

-----------------------------------------------------------------------------
(* The remaining actions, and every step.                                  *)

\* A login begins with the password that is current then.
LEMMA LoginHolds ==
    ASSUME Inv, NEW r \in Request, NEW b \in Browser, NEW o \in Operator, Login(r, b, o)
    PROVE  Inv'
<1> DEFINE q == [NoRequest EXCEPT !.at = "verify", !.kind = "login",
                                  !.browser = b, !.op = o, !.password = credential[o]]
<1>1. credential[o] \in Nat
  BY DEF Inv, Types
<1>2. q \in RequestState /\ q.at = "verify" /\ q.op = o
  BY <1>1 DEF NoRequest, RequestState, Stage
<1>3. /\ req' = [req EXCEPT ![r] = q]
      /\ UNCHANGED <<clock, credential, session, sessionLock, operatorLock, cookie, page>>
  BY DEF Login, rows, browsers
<1>4. page' \in [Browser -> Token \cup {None}]
  BY <1>3 DEF Inv, Types
<1> HIDE DEF q
<1> QED
  BY <1>2, <1>3, <1>4, RequestMoves

\* The verification ends.
LEMMA VerifiedHolds == ASSUME Inv, NEW r \in Request, Verified(r) PROVE Inv'
<1>1. /\ r \in Proc /\ req[r] \in RequestState
      /\ req[r].at = "verify" /\ req[r].op \in Operator
  BY DEF Inv, Types, Targets, Verified, Proc
<1>2. PICK right \in BOOLEAN :
         req' = [req EXCEPT ![r] = IF right THEN [@ EXCEPT !.at = "create"] ELSE NoRequest]
  BY DEF Verified
<1> DEFINE q == IF right THEN [req[r] EXCEPT !.at = "create"] ELSE NoRequest
<1>3. /\ q \in RequestState /\ q.at \in {"create", "idle"}
      /\ q.at = "create" => q.op \in Operator
  BY <1>1 DEF NoRequest, RequestState, Stage
<1>4. /\ req' = [req EXCEPT ![r] = q]
      /\ UNCHANGED <<clock, credential, session, sessionLock, operatorLock, cookie, page>>
  BY <1>1, <1>2 DEF Verified, rows, browsers, Inv, Types
<1>5. page' \in [Browser -> Token \cup {None}]
  BY <1>4 DEF Inv, Types
<1> HIDE DEF q
<1> QED
  BY <1>3, <1>4, <1>5, RequestMoves

\* A request with the cookie its browser holds.
LEMMA VisitHolds ==
    ASSUME Inv, NEW r \in Request, NEW b \in Browser, NEW kind \in Kind, Visit(r, b, kind)
    PROVE  Inv'
<1> DEFINE csrf == IF kind \in {"mailing", "logout"} THEN page[b] ELSE 0
           q == [NoRequest EXCEPT !.at = "find", !.kind = kind, !.browser = b,
                                  !.token = cookie[b], !.csrf = csrf]
<1>1. cookie[b] \in Token /\ csrf \in {0} \cup Token
  BY DEF Inv, Types, Visit
<1>2. /\ req' = [req EXCEPT ![r] = q]
      /\ UNCHANGED <<clock, credential, session, sessionLock, operatorLock, cookie, page>>
  BY DEF Visit, rows, browsers
<1> HIDE DEF csrf
<1>3. q \in RequestState /\ q.at = "find" /\ q.token \in Token
  BY <1>1 DEF NoRequest, RequestState, Stage
<1>4. page' \in [Browser -> Token \cup {None}]
  BY <1>2 DEF Inv, Types
<1> HIDE DEF q
<1> QED
  BY <1>2, <1>3, <1>4, RequestMoves

\* The handlers that do not write a session.
LEMMA HandlersHold ==
    ASSUME Inv, NEW r \in Request, Console(r) \/ Mailing(r) \/ Accounts(r) \/ Retry(r)
    PROVE  Inv'
<1>1. r \in Proc /\ Leave(r) /\ UNCHANGED <<clock, credential, session, cookie>>
  BY DEF Proc, Console, Mailing, Accounts, Retry, browsers
<1>2. page' = page \/ (req[r].at = "handle" /\ page' = [page EXCEPT ![req[r].browser] = req[r].token])
  BY DEF Console, Mailing, Accounts, Retry, browsers
<1>3. req[r].at = "handle" => req[r].token \in Token
  BY <1>1 DEF Inv, Targets
<1>4. /\ page' \in [Browser -> Token \cup {None}]
      /\ cookie' \in [Browser -> Token \cup {None}]
  BY <1>1, <1>2, <1>3 DEF Inv, Types
<1> QED
  BY <1>1, <1>4, LeaveHolds

\* Every step preserves the invariant.
LEMMA InvNext == Inv /\ [Next]_vars => Inv'
<1> SUFFICES ASSUME Inv, [Next]_vars PROVE Inv'
  OBVIOUS
<1> USE SessionsAssumption
<1>1. ASSUME NEW r \in Request, NEW b \in Browser, NEW o \in Operator, Login(r, b, o)
      PROVE  Inv'
  BY <1>1, LoginHolds
<1>2. ASSUME NEW r \in Request, NEW b \in Browser, NEW k \in Kind, Visit(r, b, k)
      PROVE  Inv'
  BY <1>2, VisitHolds
<1>3. ASSUME NEW r \in Request, Verified(r)
      PROVE  Inv'
  BY <1>3, VerifiedHolds
<1>4. ASSUME NEW r \in Request, Proceed(r), ~Verified(r)
      PROVE  Inv'
  BY <1>4, LockOperatorHolds, PruneHolds, InsertHolds, FindSessionHolds, FindOperatorHolds,
     RefreshHolds, LogoutHolds, HandlersHold DEF Proceed
<1>5. ASSUME NEW r \in Proc, GivesUp(r)
      PROVE  Inv'
  <2>1. Leave(r) /\ UNCHANGED <<clock, credential, session, cookie, page>>
    BY <1>5 DEF GivesUp, browsers
  <2>2. /\ page' \in [Browser -> Token \cup {None}]
        /\ cookie' \in [Browser -> Token \cup {None}]
    BY <2>1 DEF Inv, Types
  <2> QED
    BY <2>1, <2>2, LeaveHolds
<1>6. ASSUME NEW o \in Operator, Reset(o)
      PROVE  Inv'
  BY <1>6, ResetHolds
<1>7. CASE RevokeAll
  BY <1>7, RevokeAllHolds
<1>8. ASSUME clock' \in Nat, UNCHANGED <<credential, rows, operatorLock, browsers, req>>
      PROVE  Inv'
  BY <1>8 DEF Inv, Types, Rows, Created, Targets, OperatorHeld, LoginCurrent, EvictsHeld,
              SessionHeld, OpenedAfter, rows, browsers
<1>9. CASE Tick
  <2>1. clock' \in Nat
    BY <1>9 DEF Tick, Inv, Types
  <2> QED
    BY <2>1, <1>8, <1>9 DEF Tick
<1>10. CASE UNCHANGED vars
  <2>1. clock' \in Nat
    BY <1>10 DEF vars, Inv, Types
  <2> QED
    BY <2>1, <1>8, <1>10 DEF vars, rows, browsers
<1> QED
  BY <1>1, <1>2, <1>3, <1>4, <1>5, <1>6, <1>7, <1>9, <1>10 DEF Next


-----------------------------------------------------------------------------
(* The limit.  A session counts while it can be used, or while a request    *)
(* that found it valid has its row: FindValidSession does not look at the   *)
(* time again and may give such a session a new idle deadline.              *)

HeldBy(r, t) == req[r].at \in {"operator", "refresh"} /\ req[r].token = t

Usable(o) ==
    {t \in Token : session[t].state = "live" /\ session[t].op = o
                   /\ (Unexpired(t) \/ \E r \in Request : HeldBy(r, t))}

\* A login that has ended the excess sessions leaves room for its own.
Room(r) == Cardinality(Usable(req[r].op) \ req[r].evicts) < Limit

LimitInv ==
    /\ \A o \in Operator : Cardinality(Usable(o)) <= Limit
    /\ \A r \in Request : req[r].at = "insert" => Room(r)

\* There are finitely many tokens.
LEMMA TokensFinite ==
    ASSUME NEW S \in SUBSET Token
    PROVE  IsFiniteSet(S) /\ Cardinality(S) \in Nat
<1>1. IsFiniteSet(Token)
  BY SessionsAssumption, FS_Interval DEF Token
<1> QED
  BY <1>1, FS_Subset, FS_CardinalityType

\* A part of a set of tokens is no larger than the set.
LEMMA FewerTokens ==
    ASSUME NEW S \in SUBSET Token, NEW T \in SUBSET S
    PROVE  Cardinality(T) <= Cardinality(S)
BY TokensFinite, FS_Subset

\* Any set of natural numbers has a least one.
LEMMA LeastNumber ==
    ASSUME NEW S \in SUBSET Nat, S # {}
    PROVE  \E m \in S : \A n \in S : m <= n
<1>1. PICK m \in S : \A n \in S : ~ (<<n, m>> \in OpToRel(<, Nat))
  BY NatLessThanWellFounded, WFMin
<1>2. \A n \in S : ~ (n < m)
  BY <1>1, Zenon DEF OpToRel
<1> QED
  BY <1>2

\* Later(u, t): u was seen after t, or was created after it when both were seen
\* at the same time.
Later(u, t) == session[u].seen > session[t].seen \/ (session[u].seen = session[t].seen /\ u > t)

\* Sessions that each have fewer than Limit - 1 later ones are fewer than Limit.
LEMMA LaterOnesRemain ==
    ASSUME session \in [Token -> SessionRow], NEW L \in SUBSET Token, NEW k \in Nat
    PROVE  Cardinality({t \in L : Cardinality({u \in L : Later(u, t)}) < k}) <= k
<1> USE SessionsAssumption
<1> DEFINE S == {t \in L : Cardinality({u \in L : Later(u, t)}) < k}
<1>1. S \in SUBSET Token /\ Cardinality(S) \in Nat
  BY TokensFinite
<1>2. CASE S = {}
  <2> HIDE DEF S
  <2>1. Cardinality(S) = 0
    BY <1>2, FS_EmptySet
  <2> QED
    BY <2>1 DEF S
<1>3. CASE S # {}
  <2> DEFINE Times == {session[t].seen : t \in S}
  <2>1. \A t \in S : session[t].seen \in Nat /\ t \in Nat
    <3>1. \A t \in Token : session[t] \in SessionRow /\ t \in Nat
      BY DEF Token
    <3>2. \A t \in Token : session[t].seen \in Nat
      BY <3>1 DEF SessionRow
    <3> QED
      BY <1>1, <3>1, <3>2
  <2>2. Times \in SUBSET Nat /\ Times # {}
    BY <1>3, <2>1
  <2>3. PICK s \in Times : \A n \in Times : s <= n
    BY <2>2, LeastNumber
  <2> DEFINE First == {t \in S : session[t].seen = s}
  <2>4. First \in SUBSET Nat /\ First # {}
    BY <2>1, <2>3
  <2>5. PICK m \in First : \A t \in First : m <= t
    BY <2>4, LeastNumber
  <2>6. m \in S /\ session[m].seen = s
    BY <2>5
  <2>7. ASSUME NEW t \in S \ {m} PROVE Later(t, m)
    <3>1. s <= session[t].seen /\ session[t].seen \in Nat /\ t \in Nat /\ m \in Nat /\ s \in Nat
      BY <2>1, <2>2, <2>3, <2>6
    <3>2. session[t].seen = s => m <= t
      BY <2>5
    <3> QED
      BY <2>6, <3>1, <3>2 DEF Later
  <2> DEFINE After == {u \in L : Later(u, m)}
  <2>8. After \in SUBSET Token /\ S \ {m} \in SUBSET After /\ Cardinality(After) < k
    BY <2>6, <2>7
  <2>9. Cardinality(S \ {m}) <= Cardinality(After) /\ Cardinality(After) \in Nat
    BY <2>8, FewerTokens, TokensFinite
  <2> HIDE DEF S, After
  <2>10. Cardinality(S \ {m}) = Cardinality(S) - 1
    BY <1>1, <2>6, TokensFinite, FS_RemoveElement
  <2>11. Cardinality(S) <= k
    BY <1>1, <2>8, <2>9, <2>10
  <2> QED
    BY <2>11 DEF S
<1> QED
  BY <1>2, <1>3

\* The sessions that Prune leaves alone are fewer than the limit.
LEMMA ExcessLeavesRoom ==
    ASSUME Inv, NEW o \in Operator
    PROVE  Cardinality(LiveOf(o) \ Excess(o)) < Limit
<1> USE SessionsAssumption
<1> DEFINE L == LiveOf(o)
           k == Limit - 1
<1>1. k \in Nat /\ k < Limit
  OBVIOUS
<1>2. L \in SUBSET Token
  BY DEF LiveOf
<1>3. L \ Excess(o) = {t \in L : Cardinality({u \in L : Later(u, t)}) < k}
  <2>1. \A t \in L : {u \in L : Later(u, t)} \in SUBSET Token
    BY <1>2
  <2>2. \A t \in L : Cardinality({u \in L : Later(u, t)}) \in Nat
    BY <2>1, TokensFinite
  <2>3. \A t \in L : t \in Excess(o) <=> k <= Cardinality({u \in L : Later(u, t)})
    BY DEF Excess, Later
  <2> HIDE DEF L, k
  <2> QED
    BY <1>1, <2>2, <2>3
<1> HIDE DEF L, k
<1>4. Cardinality(L \ Excess(o)) <= k
  BY <1>1, <1>2, <1>3, LaterOnesRemain DEF Inv, Types
<1>5. Cardinality(L \ Excess(o)) \in Nat
  BY <1>2, TokensFinite
<1> QED
  BY <1>1, <1>4, <1>5 DEF L

\* A step that only ends sessions, gives up rows or lets time pass.
LEMMA UsableShrinks ==
    ASSUME Inv, NEW o,
           \A t \in Token : session'[t].state = "live" =>
               session[t].state = "live" /\ session'[t].op = session[t].op,
           \A t \in Token : session'[t].state = "live" /\ session[t].op = o
                   /\ (Unexpired(t)' \/ \E r \in Request : HeldBy(r, t)') =>
               Unexpired(t) \/ \E r \in Request : HeldBy(r, t)
    PROVE  Usable(o)' \subseteq Usable(o)
BY DEF Usable

\* Whatever a step does but inserting a session, it makes none usable again.
LEMMA OnlyInsertAdds ==
    ASSUME Inv, Next, NEW o \in Operator, \A r \in Request : ~Insert(r)
    PROVE  Usable(o)' \subseteq Usable(o)
<1> USE SessionsAssumption
<1>0. \A r \in Request : r \in Proc /\ r # Admin
  BY DEF Proc
<1>1. ASSUME NEW r \in Proc, Leave(r), UNCHANGED clock,
             \A t \in Token : session'[t].state = "live" => session'[t] = session[t]
      PROVE  Usable(o)' \subseteq Usable(o)
  <2>1. \A q \in Request, t \in Token : HeldBy(q, t)' => HeldBy(q, t)
    BY <1>0, <1>1, LeaveFacts DEF HeldBy
  <2>2. \A t \in Token : session'[t].state = "live" => (Unexpired(t)' <=> Unexpired(t))
    BY <1>1 DEF Unexpired
  <2> QED
    BY <1>1, <2>1, <2>2, UsableShrinks
<1>2. ASSUME NEW p \in Proc, NEW q \in RequestState, req' = [req EXCEPT ![p] = q],
             UNCHANGED <<clock, session>>,
             q.at \in {"operator", "refresh"} => HeldBy(p, q.token) \/ Unexpired(q.token)
      PROVE  Usable(o)' \subseteq Usable(o)
  <2>1. \A r \in Proc : req'[r] = IF r = p THEN q ELSE req[r]
    BY <1>2 DEF Inv, Types
  <2>2. \A r \in Request, t \in Token : HeldBy(r, t)' => Unexpired(t) \/ \E x \in Request : HeldBy(x, t)
    BY <1>0, <1>2, <2>1 DEF HeldBy
  <2>3. \A t \in Token : Unexpired(t)' <=> Unexpired(t)
    BY <1>2 DEF Unexpired
  <2> QED
    BY <1>2, <2>2, <2>3, UsableShrinks
<1>3. ASSUME NEW r \in Request, Refresh(r) PROVE Usable(o)' \subseteq Usable(o)
  <2> DEFINE t == req[r].token
             row == [session[t] EXCEPT !.seen = clock, !.idle = Lesser(clock + Idle, session[t].until)]
  <2>1. t \in Token /\ req[r] \in RequestState /\ HeldBy(r, t) /\ session[t] \in SessionRow
    BY <1>0, <1>3 DEF Refresh, HeldBy, Inv, Targets, Types
  <2>2. session' = session \/ session' = [session EXCEPT ![t] = row]
    BY <1>3 DEF Refresh
  <2>3. row.state = session[t].state /\ row.op = session[t].op
    BY <2>1 DEF SessionRow
  <2>4. \A u \in Token : u # t => session'[u] = session[u]
    BY <2>2 DEF Inv, Types
  <2>5. session'[t].state = session[t].state /\ session'[t].op = session[t].op
    BY <2>1, <2>2, <2>3 DEF Inv, Types
  <2>6. req' = [req EXCEPT ![r] = [req[r] EXCEPT !.at = "handle"]] /\ UNCHANGED clock
    BY <1>3 DEF Refresh
  <2>7. [req[r] EXCEPT !.at = "handle"].at = "handle"
    BY <2>1 DEF RequestState
  <2>8. \A q \in Request, u \in Token : HeldBy(q, u)' => HeldBy(q, u)
    BY <1>0, <2>6, <2>7 DEF HeldBy, Inv, Types
  <2>9. \A u \in Token : u # t => (Unexpired(u)' <=> Unexpired(u))
    BY <2>4, <2>6 DEF Unexpired
  <2> HIDE DEF t, row
  <2> QED
    BY <2>1, <2>4, <2>5, <2>8, <2>9, UsableShrinks
<1>4. ASSUME NEW r \in Request, Logout(r) PROVE Usable(o)' \subseteq Usable(o)
  <2>1. req[r].token \in Token
    BY <1>0, <1>4 DEF Logout, Inv, Targets
  <2>2. \A t \in Token : session'[t].state = "live" => session'[t] = session[t]
    <3> DEFINE t == req[r].token
               row == [session[t] EXCEPT !.state = IF @ = "live" THEN "revoked" ELSE @]
    <3>1. session' = [session EXCEPT ![t] = row]
      BY <1>4 DEF Logout
    <3>2. row.state # "live"
      BY <2>1 DEF Inv, Types, SessionRow
    <3> HIDE DEF t, row
    <3> QED
      BY <3>1, <3>2 DEF Inv, Types
  <2> QED
    BY <1>0, <1>1, <1>4, <2>2 DEF Logout
<1>5. CASE RevokeAll
  <2>1. \A t \in Token : session'[t].state = "live" => session'[t] = session[t]
    BY <1>5 DEF RevokeAll, Unrevoked, Inv, Types, SessionRow
  <2>2. Admin \in Proc /\ Leave(Admin) /\ UNCHANGED clock
    BY <1>5 DEF RevokeAll, Proc
  <2> QED
    BY <1>1, <2>1, <2>2
<1>6. CASE Tick
  <2>1. clock' = clock + 1 /\ clock \in Nat /\ UNCHANGED <<session, req>>
    BY <1>6 DEF Tick, rows, Inv, Types
  <2>2. \A t \in Token : Unexpired(t)' => Unexpired(t)
    <3>1. \A t \in Token : session[t].idle \in Nat /\ session[t].until \in Nat
      BY DEF Inv, Types, SessionRow
    <3> QED
      BY <2>1, <3>1 DEF Unexpired
  <2>3. \A r \in Request, t \in Token : HeldBy(r, t)' <=> HeldBy(r, t)
    BY <2>1 DEF HeldBy
  <2> QED
    BY <2>1, <2>2, <2>3, UsableShrinks
<1>7. ASSUME NEW r \in Proc, Leave(r), UNCHANGED <<clock, session>>
      PROVE  Usable(o)' \subseteq Usable(o)
  BY <1>1, <1>7
<1>8. ASSUME NEW r \in Request, NEW b \in Browser, NEW m \in Operator, Login(r, b, m)
      PROVE  Usable(o)' \subseteq Usable(o)
  <2> DEFINE q == [NoRequest EXCEPT !.at = "verify", !.kind = "login",
                                  !.browser = b, !.op = m, !.password = credential[m]]
  <2>1. credential[m] \in Nat
    BY DEF Inv, Types
  <2>2. q \in RequestState /\ q.at = "verify"
    BY <2>1 DEF NoRequest, RequestState, Stage
  <2>3. req' = [req EXCEPT ![r] = q] /\ UNCHANGED <<clock, session>>
    BY <1>8 DEF Login, rows
  <2> HIDE DEF q
  <2> QED
    BY <1>0, <1>2, <2>2, <2>3
<1>9. ASSUME NEW r \in Request, NEW b \in Browser, NEW kind \in Kind, Visit(r, b, kind)
      PROVE  Usable(o)' \subseteq Usable(o)
  <2> DEFINE csrf == IF kind \in {"mailing", "logout"} THEN page[b] ELSE 0
             q == [NoRequest EXCEPT !.at = "find", !.kind = kind, !.browser = b,
                                  !.token = cookie[b], !.csrf = csrf]
  <2>1. cookie[b] \in Token /\ csrf \in {0} \cup Token
    BY <1>9 DEF Inv, Types, Visit
  <2>2. req' = [req EXCEPT ![r] = q] /\ UNCHANGED <<clock, session>>
    BY <1>9 DEF Visit, rows
  <2> HIDE DEF csrf
  <2>3. q \in RequestState /\ q.at = "find"
    BY <2>1 DEF NoRequest, RequestState, Stage
  <2> HIDE DEF q
  <2> QED
    BY <1>0, <1>2, <2>2, <2>3
<1>10. ASSUME NEW m \in Operator, Reset(m)
       PROVE  Usable(o)' \subseteq Usable(o)
  <2> DEFINE q == [NoRequest EXCEPT !.at = "trigger", !.kind = "reset", !.op = m]
  <2>1. q \in RequestState /\ q.at = "trigger"
    BY DEF NoRequest, RequestState, Stage
  <2>2. req' = [req EXCEPT ![Admin] = q] /\ UNCHANGED <<clock, session>> /\ Admin \in Proc
    BY <1>10 DEF Reset, rows, Proc
  <2> HIDE DEF q
  <2> QED
    BY <1>2, <2>1, <2>2
<1>11. ASSUME NEW r \in Request, Verified(r) \/ LockOperator(r) \/ Prune(r) \/ FindSession(r) \/ FindOperator(r)
       PROVE  Usable(o)' \subseteq Usable(o)
  <2>1. r \in Proc /\ req[r] \in RequestState /\ UNCHANGED <<clock, session>>
    BY <1>0, <1>11 DEF Verified, LockOperator, Prune, FindSession, FindOperator, rows, Inv, Types
  <2>2. CASE Leave(r)
    BY <1>7, <2>1, <2>2
  <2>3. CASE Verified(r)
    <3>1. PICK right \in BOOLEAN :
              req' = [req EXCEPT ![r] = IF right THEN [@ EXCEPT !.at = "create"] ELSE NoRequest]
      BY <2>3 DEF Verified
    <3> DEFINE q == IF right THEN [req[r] EXCEPT !.at = "create"] ELSE NoRequest
    <3>2. q \in RequestState /\ q.at \in {"create", "idle"}
      BY <2>1 DEF NoRequest, RequestState, Stage
    <3>3. req' = [req EXCEPT ![r] = q]
      BY <2>1, <3>1 DEF Inv, Types
    <3> HIDE DEF q
    <3> QED
      BY <1>2, <2>1, <3>2, <3>3
  <2>4. CASE LockOperator(r) /\ ~Leave(r)
    <3> DEFINE q == [req[r] EXCEPT !.at = "prune"]
    <3>1. q \in RequestState /\ q.at = "prune" /\ req' = [req EXCEPT ![r] = q]
      BY <2>1, <2>4 DEF RequestState, Stage, LockOperator
    <3> HIDE DEF q
    <3> QED
      BY <1>2, <2>1, <3>1
  <2>5. CASE Prune(r)
    <3> DEFINE q == [req[r] EXCEPT !.at = "insert", !.evicts = Touched(r)]
    <3>1. Touched(r) \in SUBSET Token
      BY DEF Touched, Dead, Excess, LiveOf
    <3>2. q \in RequestState /\ q.at = "insert" /\ req' = [req EXCEPT ![r] = q]
      BY <2>1, <2>5, <3>1 DEF RequestState, Stage, Prune
    <3> HIDE DEF q
    <3> QED
      BY <1>2, <2>1, <3>2
  <2>6. CASE FindSession(r) /\ ~Leave(r)
    <3> DEFINE t == req[r].token
               q == [req[r] EXCEPT !.at = "operator", !.op = session[t].op]
    <3>1. t \in Token /\ Valid(t)
      BY <2>1, <2>6 DEF FindSession, Inv, Targets
    <3>2. session[t].op \in Operator /\ Unexpired(t)
      BY <3>1 DEF Valid, Inv, Rows
    <3>3. q \in RequestState /\ q.token = t
      BY <2>1, <3>2 DEF RequestState, Stage
    <3>4. req' = [req EXCEPT ![r] = q]
      BY <2>6, <3>1 DEF FindSession
    <3> HIDE DEF q, t
    <3> QED
      BY <1>2, <2>1, <3>2, <3>3, <3>4
  <2>7. CASE FindOperator(r) /\ ~Leave(r)
    <3> DEFINE q == [req[r] EXCEPT !.at = "refresh"]
    <3>1. q \in RequestState /\ q.token = req[r].token /\ req' = [req EXCEPT ![r] = q]
      BY <2>1, <2>7 DEF RequestState, Stage, FindOperator
    <3>2. HeldBy(r, req[r].token)
      BY <2>7 DEF FindOperator, HeldBy
    <3> HIDE DEF q
    <3> QED
      BY <1>2, <2>1, <3>1, <3>2
  <2> QED
    BY <1>11, <2>2, <2>3, <2>4, <2>5, <2>6, <2>7
<1>12. ASSUME NEW r \in Request, Console(r) \/ Mailing(r) \/ Accounts(r) \/ Retry(r)
       PROVE  Usable(o)' \subseteq Usable(o)
  BY <1>0, <1>7, <1>12 DEF Console, Mailing, Accounts, Retry
<1>13. ASSUME NEW r \in Proc, GivesUp(r)
       PROVE  Usable(o)' \subseteq Usable(o)
  BY <1>7, <1>13 DEF GivesUp
<1> QED
  BY <1>3, <1>4, <1>5, <1>6, <1>8, <1>9, <1>10, <1>11, <1>12, <1>13 DEF Next, Proceed

\* A session inserted for one operator takes the room that its login has made.
LEMMA InsertTakesRoom ==
    ASSUME Inv, NEW r \in Request, Insert(r), NEW m \in Operator, m = req[r].op,
           NEW o \in Operator
    PROVE  /\ o # m => Usable(o)' \subseteq Usable(o)
           /\ \E new : Usable(m)' \subseteq (Usable(m) \ req[r].evicts) \cup {new}
<1> USE SessionsAssumption
<1> DEFINE new == Cardinality(Created) + 1
<1>0. \A q \in Request : q \in Proc
  BY DEF Proc
<1>1. Leave(r) /\ UNCHANGED clock /\ req[r].at = "insert"
  BY DEF Insert
<1>2. /\ session'[new].op = m \/ new \notin Token
      /\ \A t \in Token : t # new /\ t \notin req[r].evicts => session'[t] = session[t]
      /\ \A t \in Token : t # new /\ t \in req[r].evicts => session'[t].state # "live"
  <2> HIDE DEF new
  <2>1. session' = [t \in Token |->
             IF t = new
             THEN [state |-> "live", op |-> m, by |-> req[r].password,
                   after |-> credential[m], seen |-> clock,
                   idle |-> clock + Idle, until |-> clock + Absolute]
             ELSE IF t \notin req[r].evicts THEN session[t]
             ELSE [session[t] EXCEPT !.state =
                     IF @ = "live" /\ Unexpired(t) /\ session[t].op = m
                     THEN "revoked" ELSE "pruned"]]
    BY DEF Insert, new
  <2> QED
    BY <2>1 DEF Inv, Types, SessionRow
<1>3. \A q \in Request, t \in Token : HeldBy(q, t)' => HeldBy(q, t)
  BY <1>0, <1>1, LeaveFacts DEF HeldBy
<1>4. ASSUME NEW CONSTANT x, NEW t \in Token, t \in Usable(x)', t # new
      PROVE  t \in Usable(x) \ req[r].evicts
  <2>1. t \notin req[r].evicts /\ session'[t] = session[t]
    BY <1>2, <1>4 DEF Usable
  <2>2. Unexpired(t)' <=> Unexpired(t)
    BY <1>1, <2>1 DEF Unexpired
  <2> QED
    BY <1>3, <1>4, <2>1, <2>2 DEF Usable
<1>5. ASSUME NEW CONSTANT x, x # m PROVE new \notin Usable(x)'
  BY <1>2, <1>5 DEF Usable
<1>6. \A x : Usable(x)' \in SUBSET Token
  BY DEF Usable
<1> HIDE DEF new
<1>7. Usable(m)' \subseteq (Usable(m) \ req[r].evicts) \cup {new}
  BY <1>4, <1>6
<1>8. o # m => Usable(o)' \subseteq Usable(o)
  BY <1>4, <1>5, <1>6
<1> QED
  BY <1>7, <1>8

\* Only Prune brings a request to its insertion; the others leave it there.
LEMMA OnlyPruneInserts ==
    ASSUME Inv, Next, NEW r \in Request, ~Prune(r), req'[r].at = "insert"
    PROVE  req'[r] = req[r]
<1> USE SessionsAssumption
<1>0. r \in Proc /\ r # Admin /\ DOMAIN req = Proc /\ \A p \in Request : p \in Proc /\ req[p] \in RequestState
  BY DEF Proc, Inv, Types
<1>1. ASSUME NEW p \in Proc, NEW q, req' = [req EXCEPT ![p] = q], p = r => q.at # "insert"
      PROVE  req'[r] = req[r]
  BY <1>0, <1>1
<1>2. ASSUME NEW p \in Proc, Leave(p)
      PROVE  req'[r] = req[r]
  <2>1. NoRequest.at = "idle"
    BY DEF NoRequest
  <2> QED
    BY <1>1, <1>2, <2>1 DEF Leave
<1>3. ASSUME NEW p \in Request, NEW b \in Browser, NEW m \in Operator, Login(p, b, m)
      PROVE  req'[r] = req[r]
  <2> DEFINE q == [NoRequest EXCEPT !.at = "verify", !.kind = "login",
                                  !.browser = b, !.op = m, !.password = credential[m]]
  <2>1. req' = [req EXCEPT ![p] = q] /\ q.at = "verify"
    BY <1>3 DEF Login, NoRequest
  <2> HIDE DEF q
  <2> QED
    BY <1>0, <1>1, <2>1
<1>4. ASSUME NEW p \in Request, NEW b \in Browser, NEW kind \in Kind, Visit(p, b, kind)
      PROVE  req'[r] = req[r]
  <2> DEFINE q == [NoRequest EXCEPT !.at = "find", !.kind = kind, !.browser = b, !.token = cookie[b],
                                    !.csrf = IF kind \in {"mailing", "logout"} THEN page[b] ELSE 0]
  <2>1. req' = [req EXCEPT ![p] = q] /\ q.at = "find"
    BY <1>4 DEF Visit, NoRequest
  <2> HIDE DEF q
  <2> QED
    BY <1>0, <1>1, <2>1
<1>5. ASSUME NEW m \in Operator, Reset(m)
      PROVE  req'[r] = req[r]
  BY <1>0, <1>5 DEF Reset
<1>6. ASSUME NEW p \in Request, Verified(p) \/ Prune(p)
      PROVE  req'[r] = req[r]
  <2>1. CASE p = r
    <3>1. PICK right \in BOOLEAN :
              req' = [req EXCEPT ![p] = IF right THEN [@ EXCEPT !.at = "create"] ELSE NoRequest]
      BY <1>6, <2>1 DEF Verified
    <3> DEFINE q == IF right THEN [req[p] EXCEPT !.at = "create"] ELSE NoRequest
    <3>2. req' = [req EXCEPT ![p] = q]
      BY <1>0, <3>1
    <3>3. q.at # "insert"
      BY <1>0 DEF RequestState, NoRequest
    <3> HIDE DEF q
    <3> QED
      BY <1>0, <1>1, <3>2, <3>3
  <2>2. CASE p # r
    BY <1>0, <1>6, <2>2 DEF Verified, Prune
  <2> QED
    BY <2>1, <2>2
<1>7. ASSUME NEW p \in Request, LockOperator(p) \/ FindSession(p) \/ FindOperator(p) \/ Refresh(p), ~Leave(p)
      PROVE  req'[r] = req[r]
  <2>1. CASE p = r
    <3>1. req'[r].at # "insert"
      BY <1>0, <1>7, <2>1 DEF LockOperator, FindSession, FindOperator, Refresh, RequestState
    <3> QED
      BY <3>1
  <2>2. CASE p # r
    BY <1>0, <1>7, <2>2 DEF LockOperator, FindSession, FindOperator, Refresh
  <2> QED
    BY <2>1, <2>2
<1>8. ASSUME NEW p \in Request, Console(p) \/ Mailing(p) \/ Accounts(p) \/ Retry(p) \/ Logout(p) \/ Insert(p)
      PROVE  req'[r] = req[r]
  BY <1>0, <1>2, <1>8 DEF Console, Mailing, Accounts, Retry, Logout, Insert
<1>9. ASSUME NEW p \in Proc, GivesUp(p)
      PROVE  req'[r] = req[r]
  BY <1>2, <1>9 DEF GivesUp
<1>10. CASE RevokeAll
  <2>1. Admin \in Proc /\ Leave(Admin)
    BY <1>10 DEF RevokeAll, Proc
  <2> QED
    BY <1>2, <2>1
<1>11. CASE Tick
  BY <1>11 DEF Tick
<1>12. ASSUME NEW p \in Request, Proceed(p) PROVE req'[r] = req[r]
  BY <1>0, <1>2, <1>6, <1>7, <1>8, <1>12 DEF Proceed
<1> QED
  BY <1>3, <1>4, <1>5, <1>9, <1>10, <1>11, <1>12 DEF Next

\* Init establishes the limit.
LEMMA LimitInit == Init => LimitInv
<1> SUFFICES ASSUME Init PROVE LimitInv
  OBVIOUS
<1> USE SessionsAssumption
<1>1. ASSUME NEW o \in Operator PROVE Cardinality(Usable(o)) <= Limit
  <2>1. \A t \in Token : session[t].state = "none"
    BY DEF Init, NoSession
  <2>2. Usable(o) = {}
    BY <2>1 DEF Usable
  <2>3. Cardinality(Usable(o)) = 0
    BY <2>2, FS_EmptySet
  <2> QED
    BY <2>3
<1>2. \A r \in Request : req[r].at = "idle"
  BY DEF Init, NoRequest, Proc
<1> QED
  BY <1>1, <1>2 DEF LimitInv

\* At its Prune a login waits for the rows that have expired, so that none of
\* them is held by a request that could still renew it.
LEMMA PruneMakesRoom ==
    ASSUME Inv, NEW r \in Request, Prune(r), NEW o \in Operator, o = req[r].op
    PROVE  Cardinality(Usable(o) \ Touched(r)) < Limit
<1> USE SessionsAssumption
<1>1. Usable(o) \ Touched(r) \subseteq LiveOf(o) \ Excess(o)
  <2> SUFFICES ASSUME NEW t \in Usable(o), t \notin Touched(r)
               PROVE  t \in LiveOf(o) \ Excess(o)
    OBVIOUS
  <2>1. t \in Token /\ session[t].state = "live" /\ session[t].op = o
    BY DEF Usable
  <2>2. Unexpired(t) /\ t \notin Excess(o)
    BY <2>1 DEF Touched, Dead
  <2> QED
    BY <2>1, <2>2 DEF LiveOf
<1>2. LiveOf(o) \ Excess(o) \in SUBSET Token /\ Usable(o) \ Touched(r) \in SUBSET Token
  BY DEF LiveOf, Usable
<1>3. Cardinality(Usable(o) \ Touched(r)) <= Cardinality(LiveOf(o) \ Excess(o))
  BY <1>1, <1>2, FewerTokens
<1> QED
  BY <1>2, <1>3, ExcessLeavesRoom, TokensFinite

\* Every step keeps the limit, and the room of the logins that wait to insert.
LEMMA LimitNext == Inv /\ LimitInv /\ [Next]_vars => LimitInv'
<1> SUFFICES ASSUME Inv, LimitInv, [Next]_vars PROVE LimitInv'
  OBVIOUS
<1> USE SessionsAssumption
<1>0. \A x : Usable(x) \in SUBSET Token /\ Usable(x)' \in SUBSET Token
  BY DEF Usable
<1>1. ASSUME NEW o \in Operator, Usable(o)' \subseteq Usable(o)
      PROVE  Cardinality(Usable(o)') <= Limit
  <2>1. Cardinality(Usable(o)') <= Cardinality(Usable(o))
    BY <1>0, <1>1, FewerTokens
  <2>2. Cardinality(Usable(o)) <= Limit /\ Cardinality(Usable(o)) \in Nat /\ Cardinality(Usable(o)') \in Nat
    BY <1>0, TokensFinite DEF LimitInv
  <2> QED
    BY <2>1, <2>2
<1>2. ASSUME NEW r \in Request, NEW o \in Operator, req[r].at = "insert", req'[r] = req[r],
             req[r].op = o, Usable(o)' \subseteq Usable(o)
      PROVE  Room(r)'
  <2> DEFINE e == req[r].evicts
  <2>1. PICK E \in SUBSET Token : E = req[r].evicts
    BY <1>2 DEF Inv, Types, RequestState, Proc
  <2>2. Cardinality(Usable(o)' \ E) <= Cardinality(Usable(o) \ E)
    BY <1>0, <1>2, FewerTokens
  <2>3. Cardinality(Usable(o) \ E) < Limit
    BY <1>2, <2>1 DEF LimitInv, Room
  <2>4. Cardinality(Usable(o)' \ E) \in Nat /\ Cardinality(Usable(o) \ E) \in Nat
    BY <1>0, TokensFinite
  <2>5. Cardinality(Usable(o)' \ E) < Limit
    BY <2>2, <2>3, <2>4
  <2>6. req'[r].op = o /\ req'[r].evicts = E
    BY <1>2, <2>1
  <2>7. Usable(req[r].op)' = Usable(o)'
    BY <2>6 DEF Usable
  <2> QED
    BY <2>5, <2>6, <2>7 DEF Room
<1>3. CASE UNCHANGED vars
  <2>1. UNCHANGED <<clock, session, req>>
    BY <1>3 DEF vars, rows
  <2>2. \A o : Usable(o)' = Usable(o)
    BY <2>1 DEF Usable, Unexpired, HeldBy
  <2>3. \A o \in Operator : Cardinality(Usable(o)') <= Limit
    BY <1>1, <2>2
  <2>4. \A r \in Request : req[r].at = "insert" => req[r].op \in Operator
    BY DEF Inv, Targets, Proc
  <2>5. \A r \in Request : req[r].at = "insert" => Room(r)'
    BY <1>2, <2>1, <2>2, <2>4
  <2> QED
    BY <2>1, <2>3, <2>5 DEF LimitInv
<1>4. ASSUME Next, \A r \in Request : ~Insert(r)
      PROVE  LimitInv'
  <2>1. \A o \in Operator : Usable(o)' \subseteq Usable(o)
    BY <1>4, OnlyInsertAdds
  <2>2. \A o \in Operator : Cardinality(Usable(o)') <= Limit
    BY <1>1, <2>1
  <2>3. ASSUME NEW r \in Request, req'[r].at = "insert"
        PROVE  Room(r)'
    <3>1. CASE Prune(r)
      <4>1. PICK o \in Operator : o = req[r].op
        BY <3>1 DEF Prune, Inv, Targets, Proc
      <4>2. PICK E \in SUBSET Token : E = Touched(r)
        BY DEF Touched, Dead, Excess, LiveOf
      <4>3. Cardinality(Usable(o) \ E) < Limit
        BY <3>1, <4>1, <4>2, PruneMakesRoom
      <4>4. req'[r].op = o /\ req'[r].evicts = E
        <5>1. req[r] \in RequestState /\ DOMAIN req = Proc /\ r \in Proc
          BY DEF Inv, Types, Proc
        <5>2. req' = [req EXCEPT ![r] = [req[r] EXCEPT !.at = "insert", !.evicts = E]]
          BY <3>1, <4>2 DEF Prune
        <5>3. req'[r] = [req[r] EXCEPT !.at = "insert", !.evicts = E]
          BY <5>1, <5>2
        <5> QED
          BY <4>1, <5>1, <5>3 DEF RequestState
      <4>5. Cardinality(Usable(o)' \ E) <= Cardinality(Usable(o) \ E)
        BY <1>0, <2>1, FewerTokens
      <4>6. Cardinality(Usable(o)' \ E) \in Nat /\ Cardinality(Usable(o) \ E) \in Nat
        BY <1>0, TokensFinite
      <4>7. Cardinality(Usable(o)' \ E) < Limit
        BY <4>3, <4>5, <4>6
      <4>8. Usable(req[r].op)' = Usable(o)'
        BY <4>4 DEF Usable
      <4> QED
        BY <4>4, <4>7, <4>8 DEF Room
    <3>2. CASE ~Prune(r)
      <4>1. req'[r] = req[r]
        BY <1>4, <2>3, <3>2, OnlyPruneInserts
      <4>2. PICK o \in Operator : o = req[r].op
        BY <2>3, <4>1 DEF Inv, Targets, Proc
      <4> QED
        BY <1>2, <2>1, <2>3, <4>1, <4>2
    <3> QED
      BY <3>1, <3>2
  <2> QED
    BY <2>2, <2>3 DEF LimitInv
<1>5. ASSUME NEW p \in Request, Insert(p)
      PROVE  LimitInv'
  <2>1. PICK m \in Operator : m = req[p].op
    BY <1>5 DEF Insert, Inv, Targets, Proc
  <2>2. \A o \in Operator : o # m => Usable(o)' \subseteq Usable(o)
    BY <1>5, <2>1, InsertTakesRoom
  <2>3. PICK new : Usable(m)' \subseteq (Usable(m) \ req[p].evicts) \cup {new}
    BY <1>5, <2>1, InsertTakesRoom
  <2>4. Cardinality(Usable(m)') <= Limit
    <3> DEFINE old == Usable(m) \ req[p].evicts
    <3>1. Cardinality(old) < Limit /\ Cardinality(old) \in Nat /\ IsFiniteSet(old)
      BY <1>0, <1>5, <2>1, TokensFinite DEF Insert, LimitInv, Room
    <3> HIDE DEF old
    <3>2. IsFiniteSet(old \cup {new}) /\ Cardinality(old \cup {new}) <= Cardinality(old) + 1
      <4>1. /\ IsFiniteSet(old \cup {new})
            /\ Cardinality(old \cup {new}) = IF new \in old THEN Cardinality(old) ELSE Cardinality(old) + 1
        BY <3>1, FS_AddElement
      <4> QED
        BY <3>1, <4>1
    <3>3. Cardinality(old \cup {new}) \in Nat
      BY <3>2, FS_CardinalityType
    <3>4. Cardinality(Usable(m)') <= Cardinality(old \cup {new})
      BY <2>3, <3>2, FS_Subset DEF old
    <3>5. Cardinality(Usable(m)') \in Nat
      BY <1>0, TokensFinite
    <3> QED
      BY <3>1, <3>2, <3>3, <3>4, <3>5
  <2>5. \A o \in Operator : Cardinality(Usable(o)') <= Limit
    BY <1>1, <2>2, <2>4
  <2>6. ASSUME NEW r \in Request, req'[r].at = "insert"
        PROVE  Room(r)'
    <3>1. p \in Proc /\ r \in Proc /\ Leave(p)
      BY <1>5 DEF Proc, Insert
    <3>2. r # p /\ req'[r] = req[r]
      BY <2>6, <3>1, LeaveFacts
    <3>3. PICK o \in Operator : o = req[r].op
      BY <2>6, <3>1, <3>2 DEF Inv, Targets
    <3>4. o # m
      BY <1>5, <2>1, <2>6, <3>1, <3>2, <3>3 DEF Inv, OperatorHeld, Insert
    <3> QED
      BY <1>2, <2>2, <2>6, <3>2, <3>3, <3>4
  <2> QED
    BY <2>5, <2>6 DEF LimitInv
<1> QED
  BY <1>3, <1>4, <1>5
-----------------------------------------------------------------------------
(* The rows: deadlines in order, and no row that is kept without use.      *)

\* ck_operator_web_sessions_expiry_order.
Ordered(t) == session[t].seen <= session[t].idle /\ session[t].idle <= session[t].until

UsesSession(p, t) ==
    \/ req[p].at \in {"operator", "refresh"} /\ req[p].token = t
    \/ req[p].at = "insert" /\ t \in req[p].evicts

UsesOperator(p, o) ==
    req[p].at \in {"prune", "insert", "refresh", "trigger"} /\ req[p].op = o

HeldIsUsed ==
    /\ \A p \in Proc, t \in Token : sessionLock[t] = p => UsesSession(p, t)
    /\ \A p \in Proc, o \in Operator : operatorLock[o] = p => UsesOperator(p, o)

\* A reset that is under way has its number.
Bounded ==
    /\ clock \in 0 .. MaxTime
    /\ credential \in [Operator -> 0 .. MaxResets]
    /\ req[Admin].at = "trigger" => credential[req[Admin].op] < MaxResets

RowsInv == HeldIsUsed /\ Bounded /\ \A t \in Token : Ordered(t)

\* A step of p: what p holds then it uses, and nobody else takes a row.
LEMMA UsedStep ==
    ASSUME Inv, HeldIsUsed, NEW p \in Proc,
           \A x \in Proc : x # p => req'[x] = req[x],
           \A t \in Token : sessionLock'[t] = p => UsesSession(p, t)',
           \A o \in Operator : operatorLock'[o] = p => UsesOperator(p, o)',
           \A t \in Token : sessionLock'[t] \in {None, p, sessionLock[t]},
           \A o \in Operator : operatorLock'[o] \in {None, p, operatorLock[o]}
    PROVE  HeldIsUsed'
<1>1. None \notin Proc
  BY SessionsAssumption DEF Proc
<1>2. ASSUME NEW x \in Proc, NEW t \in Token, sessionLock'[t] = x PROVE UsesSession(x, t)'
  BY <1>1, <1>2 DEF HeldIsUsed, UsesSession
<1>3. ASSUME NEW x \in Proc, NEW o \in Operator, operatorLock'[o] = x PROVE UsesOperator(x, o)'
  BY <1>1, <1>3 DEF HeldIsUsed, UsesOperator
<1> QED
  BY <1>2, <1>3 DEF HeldIsUsed

\* Who leaves keeps nothing.
LEMMA LeaveUsed ==
    ASSUME Inv, HeldIsUsed, NEW p \in Proc, Leave(p)
    PROVE  HeldIsUsed'
<1>1. None # p
  BY SessionsAssumption DEF Proc
<1>2. /\ \A t \in Token : sessionLock'[t] = IF sessionLock[t] = p THEN None ELSE sessionLock[t]
      /\ \A o \in Operator : operatorLock'[o] = IF operatorLock[o] = p THEN None ELSE operatorLock[o]
  BY DEF Leave
<1>3. \A x \in Proc : x # p => req'[x] = req[x]
  BY LeaveFacts
<1> QED
  BY <1>1, <1>2, <1>3, UsedStep

\* Each step of a login or a request, and a reset.
LEMMA RequestUsed ==
    ASSUME Inv, HeldIsUsed, NEW p \in Request, Proceed(p)
    PROVE  HeldIsUsed'
<1>0. p \in Proc /\ None # p /\ req[p] \in RequestState /\ req \in [Proc -> RequestState]
      /\ sessionLock \in [Token -> Proc \cup {None}] /\ operatorLock \in [Operator -> Proc \cup {None}]
  BY SessionsAssumption DEF Proc, Inv, Types
<1>1. CASE Leave(p)
  BY <1>0, <1>1, LeaveUsed
<1>2. CASE Verified(p)
  <2>1. /\ req[p].at = "verify" /\ UNCHANGED locks
        /\ \A x \in Proc : x # p => req'[x] = req[x]
    BY <1>0, <1>2 DEF Verified, rows, locks
  <2>2. /\ \A t \in Token : sessionLock[t] # p
        /\ \A o \in Operator : operatorLock[o] # p
    BY <1>0, <2>1 DEF HeldIsUsed, UsesSession, UsesOperator
  <2> QED
    BY <1>0, <2>1, <2>2, UsedStep DEF locks
<1>3. CASE LockOperator(p) /\ ~Leave(p)
  <2>1. /\ req[p].at = "create" /\ req'[p].at = "prune" /\ req'[p].op = req[p].op
        /\ \A x \in Proc : x # p => req'[x] = req[x]
        /\ sessionLock' = sessionLock
        /\ operatorLock' = [operatorLock EXCEPT ![req[p].op] = p]
    BY <1>0, <1>3 DEF LockOperator, RequestState
  <2>2. /\ \A t \in Token : sessionLock[t] # p
        /\ \A o \in Operator : operatorLock[o] # p
    BY <1>0, <2>1 DEF HeldIsUsed, UsesSession, UsesOperator
  <2>3. \A o \in Operator : operatorLock'[o] = p => o = req[p].op
    BY <1>0, <2>1, <2>2
  <2>4. \A o \in Operator : operatorLock'[o] = p => UsesOperator(p, o)'
    BY <2>1, <2>3 DEF UsesOperator
  <2>5. \A o \in Operator : operatorLock'[o] \in {None, p, operatorLock[o]}
    BY <1>0, <2>1
  <2> QED
    BY <1>0, <2>1, <2>2, <2>4, <2>5, UsedStep
<1>4. CASE Prune(p)
  <2>1. /\ req[p].at = "prune" /\ req'[p].at = "insert" /\ req'[p].op = req[p].op
        /\ req'[p].evicts = Touched(p)
        /\ \A x \in Proc : x # p => req'[x] = req[x]
        /\ operatorLock' = operatorLock
        /\ \A t \in Token : sessionLock'[t] = IF t \in Touched(p) THEN p ELSE sessionLock[t]
    BY <1>0, <1>4 DEF Prune, RequestState
  <2>2. \A t \in Token : sessionLock[t] # p
    BY <1>0, <2>1 DEF HeldIsUsed, UsesSession
  <2>3. \A t \in Token : sessionLock'[t] = p => UsesSession(p, t)'
    BY <2>1, <2>2 DEF UsesSession
  <2>4. \A o \in Operator : operatorLock'[o] = p => UsesOperator(p, o)'
    BY <1>0, <2>1 DEF HeldIsUsed, UsesOperator
  <2> QED
    BY <1>0, <2>1, <2>3, <2>4, UsedStep
<1>5. CASE FindSession(p) /\ ~Leave(p)
  <2>1. /\ req[p].at = "find" /\ req'[p].at = "operator" /\ req'[p].token = req[p].token
        /\ \A x \in Proc : x # p => req'[x] = req[x]
        /\ operatorLock' = operatorLock
        /\ sessionLock' = [sessionLock EXCEPT ![req[p].token] = p]
    BY <1>0, <1>5 DEF FindSession, RequestState
  <2>2. /\ \A t \in Token : sessionLock[t] # p
        /\ \A o \in Operator : operatorLock[o] # p
    BY <1>0, <2>1 DEF HeldIsUsed, UsesSession, UsesOperator
  <2>3. \A t \in Token : sessionLock'[t] = p => t = req[p].token
    BY <1>0, <2>1, <2>2
  <2>4. \A t \in Token : sessionLock'[t] = p => UsesSession(p, t)'
    BY <2>1, <2>3 DEF UsesSession
  <2>5. \A t \in Token : sessionLock'[t] \in {None, p, sessionLock[t]}
    BY <1>0, <2>1
  <2> QED
    BY <1>0, <2>1, <2>2, <2>4, <2>5, UsedStep
<1>6. CASE FindOperator(p) /\ ~Leave(p)
  <2>1. /\ req[p].at = "operator" /\ req'[p].at = "refresh" /\ req'[p].token = req[p].token
        /\ req'[p].op = req[p].op
        /\ \A x \in Proc : x # p => req'[x] = req[x]
        /\ sessionLock' = sessionLock
        /\ operatorLock' = [operatorLock EXCEPT ![req[p].op] = p]
    BY <1>0, <1>6 DEF FindOperator, RequestState
  <2>2. \A o \in Operator : operatorLock[o] # p
    BY <1>0, <2>1 DEF HeldIsUsed, UsesOperator
  <2>3. \A t \in Token : sessionLock'[t] = p => UsesSession(p, t)'
    BY <1>0, <2>1 DEF HeldIsUsed, UsesSession
  <2>4. \A o \in Operator : operatorLock'[o] = p => o = req[p].op
    BY <1>0, <2>1, <2>2
  <2>5. \A o \in Operator : operatorLock'[o] = p => UsesOperator(p, o)'
    BY <2>1, <2>4 DEF UsesOperator
  <2>6. \A o \in Operator : operatorLock'[o] \in {None, p, operatorLock[o]}
    BY <1>0, <2>1
  <2> QED
    BY <1>0, <2>1, <2>3, <2>5, <2>6, UsedStep
<1>7. CASE Refresh(p)
  <2>1. /\ req[p].at = "refresh"
        /\ \A x \in Proc : x # p => req'[x] = req[x]
        /\ sessionLock' = [sessionLock EXCEPT ![req[p].token] = None]
        /\ operatorLock' = [operatorLock EXCEPT ![req[p].op] = None]
    BY <1>0, <1>7 DEF Refresh
  <2>2. /\ \A t \in Token : sessionLock[t] = p => t = req[p].token
        /\ \A o \in Operator : operatorLock[o] = p => o = req[p].op
    BY <1>0, <2>1 DEF HeldIsUsed, UsesSession, UsesOperator
  <2>3. /\ \A t \in Token : sessionLock'[t] # p /\ sessionLock'[t] \in {None, p, sessionLock[t]}
        /\ \A o \in Operator : operatorLock'[o] # p /\ operatorLock'[o] \in {None, p, operatorLock[o]}
    BY <1>0, <2>1, <2>2
  <2> QED
    BY <1>0, <2>1, <2>3, UsedStep
<1>8. CASE Insert(p) \/ Console(p) \/ Mailing(p) \/ Accounts(p) \/ Retry(p) \/ Logout(p)
  <2>1. Leave(p)
    BY <1>8 DEF Insert, Console, Mailing, Accounts, Retry, Logout
  <2> QED
    BY <1>1, <2>1
<1> QED
  BY <1>1, <1>2, <1>3, <1>4, <1>5, <1>6, <1>7, <1>8 DEF Proceed

\* Every step leaves only rows that are in use held.
LEMMA UsedNext ==
    ASSUME Inv, HeldIsUsed, [Next]_vars
    PROVE  HeldIsUsed'
<1>0. /\ req \in [Proc -> RequestState] /\ Admin \in Proc /\ \A r \in Request : r \in Proc
      /\ sessionLock \in [Token -> Proc \cup {None}] /\ operatorLock \in [Operator -> Proc \cup {None}]
  BY DEF Proc, Inv, Types
<1>1. ASSUME NEW p \in Request, NEW b \in Browser,
             (\E o \in Operator : Login(p, b, o)) \/ (\E k \in Kind : Visit(p, b, k))
      PROVE  HeldIsUsed'
  <2>1. /\ req[p].at = "idle" /\ UNCHANGED locks
        /\ \A x \in Proc : x # p => req'[x] = req[x]
    BY <1>0, <1>1 DEF Login, Visit, rows, locks
  <2>2. /\ \A t \in Token : sessionLock[t] # p
        /\ \A o \in Operator : operatorLock[o] # p
    BY <1>0, <2>1 DEF HeldIsUsed, UsesSession, UsesOperator
  <2> QED
    BY <1>0, <2>1, <2>2, UsedStep DEF locks
<1>2. ASSUME NEW p \in Request, Proceed(p) PROVE HeldIsUsed'
  BY <1>2, RequestUsed
<1>3. ASSUME NEW p \in Proc, GivesUp(p) PROVE HeldIsUsed'
  BY <1>3, LeaveUsed DEF GivesUp
<1>4. ASSUME NEW m \in Operator, Reset(m) PROVE HeldIsUsed'
  <2>1. /\ req[Admin].at = "idle" /\ req'[Admin].at = "trigger" /\ req'[Admin].op = m
        /\ \A x \in Proc : x # Admin => req'[x] = req[x]
        /\ sessionLock' = sessionLock
        /\ operatorLock' = [operatorLock EXCEPT ![m] = Admin]
    BY <1>0, <1>4 DEF Reset, NoRequest, rows
  <2>2. /\ \A t \in Token : sessionLock[t] # Admin
        /\ \A o \in Operator : operatorLock[o] # Admin
    BY <1>0, <2>1 DEF HeldIsUsed, UsesSession, UsesOperator
  <2>3. \A o \in Operator : operatorLock'[o] = Admin => o = m
    BY <1>0, <2>1, <2>2
  <2>4. \A o \in Operator : operatorLock'[o] = Admin => UsesOperator(Admin, o)'
    BY <2>1, <2>3 DEF UsesOperator
  <2>5. \A o \in Operator : operatorLock'[o] \in {None, Admin, operatorLock[o]}
    BY <1>0, <2>1
  <2> QED
    BY <1>0, <2>1, <2>2, <2>4, <2>5, UsedStep
<1>5. CASE RevokeAll
  BY <1>0, <1>5, LeaveUsed DEF RevokeAll
<1>6. CASE Tick \/ UNCHANGED vars
  BY <1>6 DEF Tick, vars, rows, HeldIsUsed, UsesSession, UsesOperator
<1> QED
  BY <1>1, <1>2, <1>3, <1>4, <1>5, <1>6 DEF Next

\* The clock, and the number of resets: who resets holds the operator until the
\* new password is written.
LEMMA BoundedNext ==
    ASSUME Inv, Bounded, [Next]_vars
    PROVE  Bounded'
<1> USE SessionsAssumption
<1>0. /\ req \in [Proc -> RequestState] /\ Admin \in Proc
      /\ \A r \in Request : r \in Proc /\ r # Admin
      /\ req[Admin].at = "trigger" => req[Admin].op \in Operator
      /\ req[Admin].at \in {"idle", "trigger"}
  BY DEF Proc, Inv, Types, Targets
<1>1. CASE UNCHANGED <<clock, credential>> /\ (req'[Admin] = req[Admin] \/ req'[Admin].at = "idle")
  BY <1>1 DEF Bounded
<1>2. ASSUME NEW p \in Proc, Leave(p), p # Admin PROVE req'[Admin] = req[Admin]
  BY <1>0, <1>2, LeaveFacts
<1>3. ASSUME NEW p \in Proc, GivesUp(p) PROVE Bounded'
  <2>1. UNCHANGED <<clock, credential>> /\ (req'[Admin] = req[Admin] \/ req'[Admin].at = "idle")
    BY <1>0, <1>3, LeaveFacts DEF GivesUp
  <2> QED
    BY <1>1, <2>1
<1>4. ASSUME NEW p \in Request, Proceed(p) PROVE Bounded'
  <2>1. UNCHANGED <<clock, credential>>
    BY <1>4 DEF Proceed, Verified, LockOperator, Prune, Insert, FindSession, FindOperator, Refresh,
                Console, Mailing, Accounts, Retry, Logout
  <2>2. CASE Leave(p)
    BY <1>0, <1>1, <1>2, <2>1, <2>2
  <2>3. CASE ~Leave(p)
    <3>1. \/ Verified(p) \/ LockOperator(p) \/ Prune(p)
          \/ FindSession(p) \/ FindOperator(p) \/ Refresh(p)
      BY <1>4, <2>3 DEF Proceed, Insert, Console, Mailing, Accounts, Retry, Logout
    <3>2. req'[Admin] = req[Admin]
      BY <1>0, <2>3, <3>1 DEF Verified, LockOperator, Prune, FindSession, FindOperator, Refresh
    <3> QED
      BY <1>1, <2>1, <3>2
  <2> QED
    BY <2>2, <2>3
<1>5. ASSUME NEW p \in Request, NEW b \in Browser,
             (\E o \in Operator : Login(p, b, o)) \/ (\E k \in Kind : Visit(p, b, k))
      PROVE  Bounded'
  <2>1. UNCHANGED <<clock, credential>> /\ req'[Admin] = req[Admin]
    BY <1>0, <1>5 DEF Login, Visit
  <2> QED
    BY <1>1, <2>1
<1>6. ASSUME NEW m \in Operator, Reset(m) PROVE Bounded'
  <2>1. /\ req'[Admin].op = m /\ credential[m] < MaxResets /\ UNCHANGED <<clock, credential>>
    BY <1>0, <1>6 DEF Reset, NoRequest
  <2> QED
    BY <2>1 DEF Bounded
<1>7. CASE RevokeAll
  <2>1. req'[Admin].at = "idle" /\ UNCHANGED clock
    BY <1>0, <1>7, LeaveFacts DEF RevokeAll
  <2>2. credential' \in [Operator -> 0 .. MaxResets]
    BY <1>0, <1>7 DEF RevokeAll, Bounded
  <2> QED
    BY <2>1, <2>2 DEF Bounded
<1>8. CASE Tick
  BY <1>8 DEF Tick, Bounded
<1>9. CASE UNCHANGED vars
  BY <1>9 DEF vars, Bounded
<1> QED
  BY <1>3, <1>4, <1>5, <1>6, <1>7, <1>8, <1>9 DEF Next

\* Insertion and renewal write deadlines in order; past the absolute one the
\* schema refuses to renew.
LEMMA OrderedNext ==
    ASSUME Inv, \A t \in Token : Ordered(t), [Next]_vars, NEW t \in Token
    PROVE  Ordered(t)'
<1> USE SessionsAssumption
<1>0. /\ clock \in Nat /\ session \in [Token -> SessionRow] /\ session[t] \in SessionRow
      /\ \A r \in Request : r \in Proc
  BY DEF Inv, Types, Proc
<1>1. ASSUME session'[t].seen = session[t].seen, session'[t].idle = session[t].idle,
             session'[t].until = session[t].until
      PROVE  Ordered(t)'
  BY <1>1 DEF Ordered
<1>2. ASSUME session' = session PROVE Ordered(t)'
  BY <1>1, <1>2
<1>3. ASSUME NEW p \in Request, Insert(p) PROVE Ordered(t)'
  <2> DEFINE new == Cardinality(Created) + 1
             ended == IF session[t].state = "live" /\ Unexpired(t) /\ session[t].op = req[p].op
                      THEN "revoked" ELSE "pruned"
  <2>1. session'[t] = IF t = new
             THEN [state |-> "live", op |-> req[p].op, by |-> req[p].password,
                   after |-> credential[req[p].op], seen |-> clock,
                   idle |-> clock + Idle, until |-> clock + Absolute]
             ELSE IF t \notin req[p].evicts THEN session[t]
             ELSE [session[t] EXCEPT !.state = ended]
    BY <1>3, Zenon DEF Insert
  <2>2. CASE t = new
    <3>1. session'[t].seen = clock /\ session'[t].idle = clock + Idle
          /\ session'[t].until = clock + Absolute
      BY <2>1, <2>2
    <3> QED
      BY <1>0, <3>1 DEF Ordered
  <2>3. CASE t # new
    <3> HIDE DEF new, ended
    <3> QED
      BY <1>0, <1>1, <2>1, <2>3 DEF SessionRow
  <2> QED
    BY <2>2, <2>3
<1>4. ASSUME NEW p \in Request, Refresh(p) PROVE Ordered(t)'
  <2> DEFINE u == req[p].token
             row == [session[u] EXCEPT !.seen = clock,
                                       !.idle = Lesser(clock + Idle, session[u].until)]
  <2>1. CASE session' = session
    BY <1>2, <2>1
  <2>2. CASE session' # session
    <3>1. session' = [session EXCEPT ![u] = row] /\ clock <= session[u].until
      BY <1>4, <2>2 DEF Refresh
    <3>2. CASE t # u
      <4> HIDE DEF u, row
      <4> QED
        BY <1>0, <1>2, <3>1, <3>2 DEF Ordered
    <3>3. CASE t = u
      <4>1. session'[t] = row
        BY <1>0, <3>1, <3>3
      <4>2. row.seen = clock /\ row.until = session[t].until
            /\ row.idle = Lesser(clock + Idle, session[t].until)
        BY <1>0, <3>3 DEF SessionRow
      <4>3. clock <= session[t].until /\ session[t].until \in Nat
        BY <1>0, <3>1, <3>3 DEF SessionRow
      <4> HIDE DEF row, u
      <4> QED
        BY <1>0, <4>1, <4>2, <4>3 DEF Ordered, Lesser
    <3> QED
      BY <3>2, <3>3
  <2> QED
    BY <2>1, <2>2
<1>5. ASSUME NEW p \in Request, Logout(p) PROVE Ordered(t)'
  <2> DEFINE u == req[p].token
             ended == IF session[u].state = "live" THEN "revoked" ELSE session[u].state
  <2>1. session' = [session EXCEPT ![u] = [session[u] EXCEPT !.state = ended]]
    BY <1>5 DEF Logout
  <2> HIDE DEF u, ended
  <2> QED
    BY <1>0, <1>1, <2>1 DEF SessionRow
<1>6. CASE RevokeAll
  BY <1>0, <1>1, <1>6 DEF RevokeAll, SessionRow
<1>7. ASSUME NEW p \in Request, Proceed(p), ~Insert(p), ~Refresh(p), ~Logout(p)
      PROVE  session' = session
  BY <1>7 DEF Proceed, Verified, LockOperator, Prune, FindSession, FindOperator, Console, Mailing,
              Accounts, Retry, rows
<1>8. CASE ~RevokeAll /\ \A p \in Request : ~Proceed(p)
  <2>1. session' = session
    BY <1>8 DEF Next, Login, Visit, GivesUp, Reset, Tick, vars, rows
  <2> QED
    BY <1>2, <2>1
<1> QED
  BY <1>2, <1>3, <1>4, <1>5, <1>6, <1>7, <1>8

-----------------------------------------------------------------------------
(* The theorems.                                                           *)

\* The invariant holds of every state of the sessions, credentials and requests.
THEOREM SessionsInvariant == Spec => []Inv
BY InvInit, InvNext, PTL DEF Spec

\* BootstrapOrReset ends every session opened with the password it replaces,
\* those whose login verified it before and inserted them after included.
THEOREM ResetsEndSessions == Spec => []ResetEndsSessions
<1>1. Inv => ResetEndsSessions
  BY DEF Inv, OpenedAfter, ResetEndsSessions, Valid
<1> QED
  BY <1>1, SessionsInvariant, PTL

\* FindValidSession accepts a request only while its session is live and of the
\* current password, whatever ran while it waited for the two rows.
THEOREM RequestsAcceptedWhileValid == Spec => AcceptedWhileValid
<1> DEFINE Accepts ==
      \A r \in Request : Refresh(r) =>
          LET t == req[r].token IN
          session[t].state = "live" /\ session[t].after = credential[session[t].op]
<1>1. Inv => Accepts
  BY DEF Inv, SessionHeld, Refresh
<1>2. Inv /\ [Next]_vars => [Accepts]_vars
  BY <1>1
<1> HIDE DEF Accepts
<1>3. Spec => [][Accepts]_vars
  BY <1>2, SessionsInvariant, PTL DEF Spec
<1> QED
  BY <1>3 DEF AcceptedWhileValid, Accepts

\* Never more than Limit sessions of an operator can be used: CreateSession ends
\* the excess ones, and those that expired, while it keeps the operator, and
\* renews none that a login has counted out.
THEOREM SessionsStayWithinLimit == Spec => []SessionsWithinLimit
<1>1. Init => LimitInv
  BY LimitInit
<1>2. Inv /\ LimitInv /\ [Next]_vars => LimitInv'
  BY LimitNext
<1>3. Spec => []LimitInv
  BY <1>1, <1>2, SessionsInvariant, PTL DEF Spec
<1>4. LimitInv => SessionsWithinLimit
  <2> SUFFICES ASSUME LimitInv, NEW o \in Operator PROVE Cardinality(LiveOf(o)) <= Limit
    BY DEF SessionsWithinLimit
  <2>1. LiveOf(o) \in SUBSET Usable(o) /\ Usable(o) \in SUBSET Token /\ LiveOf(o) \in SUBSET Token
    BY DEF LiveOf, Usable
  <2>2. Cardinality(LiveOf(o)) <= Cardinality(Usable(o))
    BY <2>1, FewerTokens
  <2>3. Cardinality(LiveOf(o)) \in Nat /\ Cardinality(Usable(o)) \in Nat /\ Limit \in Nat
    BY <2>1, TokensFinite, SessionsAssumption
  <2> QED
    BY <2>2, <2>3 DEF LimitInv
<1> QED
  BY <1>3, <1>4, PTL

\* The types; the deadlines of a session are in order, as the schema demands; and
\* a transaction keeps no row but those its place calls for.
THEOREM SessionTypes == Spec => []TypeOK
<1>1. Init => RowsInv
  <2> SUFFICES ASSUME Init PROVE RowsInv
    OBVIOUS
  <2>1. HeldIsUsed
    BY SessionsAssumption DEF Init, HeldIsUsed, Proc
  <2>2. Bounded
    BY SessionsAssumption DEF Init, Bounded, NoRequest, Proc
  <2>3. \A t \in Token : Ordered(t)
    BY DEF Init, Ordered, NoSession
  <2> QED
    BY <2>1, <2>2, <2>3 DEF RowsInv
<1>2. Inv /\ RowsInv /\ [Next]_vars => RowsInv'
  <2> SUFFICES ASSUME Inv, RowsInv, [Next]_vars PROVE RowsInv'
    OBVIOUS
  <2> QED
    BY UsedNext, BoundedNext, OrderedNext DEF RowsInv
<1>3. Spec => []RowsInv
  BY <1>1, <1>2, SessionsInvariant, PTL DEF Spec
<1>4. Inv /\ RowsInv => TypeOK
  <2> SUFFICES ASSUME Inv, RowsInv PROVE TypeOK
    OBVIOUS
  <2>1. clock \in 0 .. MaxTime /\ credential \in [Operator -> 0 .. MaxResets]
    BY DEF RowsInv, Bounded
  <2>2. ASSUME NEW t \in Token
        PROVE  /\ session[t].state \in {"none", "live", "revoked", "pruned"}
               /\ session[t].seen <= session[t].idle /\ session[t].idle <= session[t].until
               /\ sessionLock[t] # None =>
                     LET q == req[sessionLock[t]] IN
                     \/ q.at \in {"operator", "refresh"} /\ q.token = t
                     \/ q.at = "insert" /\ t \in q.evicts
    BY DEF Inv, Types, SessionRow, RowsInv, Ordered, HeldIsUsed, UsesSession
  <2>3. ASSUME NEW o \in Operator, operatorLock[o] # None
        PROVE  /\ req[operatorLock[o]].at \in {"prune", "insert", "refresh", "trigger"}
               /\ req[operatorLock[o]].op = o
    BY <2>3 DEF Inv, Types, RowsInv, HeldIsUsed, UsesOperator
  <2> QED
    BY <2>1, <2>2, <2>3 DEF TypeOK, Inv, Types
<1> QED
  BY <1>3, <1>4, SessionsInvariant, PTL
=============================================================================
