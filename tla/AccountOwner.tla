---------------------------- MODULE AccountOwner ----------------------------
(***************************************************************************)
(* The account owner registry of the Telegram transport: one process-local *)
(* Telegram client per operator account, started lazily for the first      *)
(* operation, shared by later ones, evicted when idle, and fenced by the   *)
(* lifecycle version of the account when it is stopped or revoked.         *)
(*                                                                         *)
(* Goroutines meet in two kinds of mutex.  registry.mu guards the table of *)
(* slots, the fences and the revoke counters; slot.mu guards one slot and  *)
(* nests inside.  A section under slot.mu is one step.  A section under    *)
(* registry.mu is one step unless it takes slot.mu more than once: the     *)
(* goroutine then keeps "lock" between its steps, and the steps that change *)
(* slots without registry.mu (RunNoted, the resets) can come in between.   *)
(*                                                                         *)
(* The flags closed and stopping of a slot are set and cleared together    *)
(* and are one field here.  The operation gate of a slot is held while an  *)
(* operation is active, so that at most one is.                            *)
(***************************************************************************)
EXTENDS Naturals, FiniteSets, Sequences

CONSTANTS
    Account,    \* operator accounts, the keys of the registry
    Caller,     \* goroutines that call Execute, StopAccount or RevokeAndStop
    Reaper,     \* the goroutine of reapIdle
    Stopper,    \* the goroutine that calls Stop
    Entry,      \* pool of runtime entries
    None,
    Open,       \* lifecycle versions at which an account may be used
    Leaving,    \* lifecycle versions at which it is disconnecting
    Capacity,   \* RegistryConfig.Capacity: slots, and fences
    MaxCalls    \* bound: calls made

Version == Open \cup Leaving
Worker == {Reaper, Stopper}
Goroutine == Caller \cup Worker

ASSUME OwnerAssumption ==
    /\ Open \subseteq Nat \ {0}
    /\ Leaving \subseteq Nat \ {0, 1}
    /\ Open \cap Leaving = {}
    /\ Capacity \in Nat \ {0}
    /\ MaxCalls \in Nat
    /\ None \notin Account \cup Entry \cup Goroutine
    /\ Caller \cap Worker = {} /\ Reaper # Stopper

VARIABLES
    lock,      \* the goroutine inside a section of registry.mu, or None
    status,    \* "open", "stopped" (Registry.stopped) or "closed" (rootStopped)
    table,     \* Registry.slots: the accounts that have a slot
    slot,      \* the slots
    fence,     \* Registry.fences: greatest stopped version, 0 for no record
    order,     \* the fenced accounts, least recently recorded first
    entry,     \* runtime entries and their owners
    call,      \* what each goroutine is doing
    todo,      \* slots and entries that the reaper or Stop has still to tear down
    calls,     \* number of calls made
    crashed    \* a fatal error has ended the process

vars == <<lock, status, table, slot, fence, order, entry, call, todo, calls, crashed>>
others == <<todo, calls, crashed>>
fences == <<fence, order>>
registry == <<lock, status, table, fences>>

-----------------------------------------------------------------------------
(* Helpers                                                                 *)

FreshSlot == [current |-> None, closed |-> FALSE, handles |-> {}, active |-> None,
              revoking |-> FALSE, waiters |-> {}, gate |-> None]

NoFence == [version |-> 0, protected |-> FALSE]

\* build: of buildEntry; owner: the gotd client and its goroutine; result: of Run,
\* "deadline" when it is a context error of gotd's own.
NoEntry == [acct |-> None, ver |-> 0, private |-> FALSE,
            build |-> "none", owner |-> "none", result |-> "none"]

NewEntry(a, v, private) ==
    [NoEntry EXCEPT !.acct = a, !.ver = v, !.private = private, !.build = "building"]

\* at, entry, ok: slot and entry in hand and how it went; back: what a teardown
\* is for.
NoCall == [stage |-> "idle", acct |-> None, ver |-> 0,
           at |-> None, entry |-> None, back |-> "none", ok |-> FALSE]

In(p, stage) == call[p].stage = stage
Goto(p, stage) == call' = [call EXCEPT ![p].stage = stage]
GotoWith(p, stage, e) == call' = [call EXCEPT ![p].stage = stage, ![p].entry = e]
Restarted(p, stage) ==
    [NoCall EXCEPT !.stage = stage, !.acct = call[p].acct, !.ver = call[p].ver]
Return(p) == call' = [call EXCEPT ![p] = NoCall]
ReturnOk(p) == call' = [call EXCEPT ![p] = [NoCall EXCEPT !.ok = TRUE]]

\* owner.done is closed.
Done == {"ended", "noted", "swept"}

\* An entry that nothing refers to any more.
Unused(e) ==
    /\ entry[e].owner \in {"none", "swept"} /\ entry[e].build # "building"
    /\ \A a \in Account : slot[a].current # e
    /\ \A p \in Goroutine : call[p].entry # e
    /\ \A w \in Worker : \A item \in todo[w] : item[2] # e

\* What waitBuilt returns: Run leaves its failure there too.
BuildFailed(e) == entry[e].build = "failed" \/ (entry[e].owner = "swept" /\ entry[e].result = "error")
BuildExpired(e) == entry[e].owner = "swept" /\ entry[e].result = "deadline"

Busy(s) == s.revoking \/ s.waiters # {}
Removable(s) == s.current = None /\ s.handles = {} /\ s.active = None /\ ~s.closed

\* removeSlot, given the slot as it is by then.
Swept(a, s) == IF Removable(s) /\ ~Busy(s) THEN table \ {a} ELSE table

\* admissionError: the slot is open and still has this entry.
Admitted(a, e) == ~slot[a].closed /\ slot[a].current = e

Live == {a \in table : slot[a].current # None /\ ~slot[a].closed}

\* Slots that idle, once they have been unused for IdleTimeout.
Idling == {a \in Live : slot[a].handles = {} /\ slot[a].active = None}

\* owner.Stop
StopOwner(e) ==
    entry' = [entry EXCEPT ![e] =
        CASE @.owner = "running" -> [@ EXCEPT !.owner = "stopping"]
          [] @.owner = "fresh"   -> [@ EXCEPT !.owner = "ended", !.result = "ok"]
          [] OTHER               -> @]

\* The slot once finishTeardown has dropped its entry.
Reset(s, e) == IF s.current = e THEN [s EXCEPT !.current = None, !.closed = FALSE] ELSE s

-----------------------------------------------------------------------------
(* Fences                                                                  *)

Fenced == {a \in Account : fence[a].version > 0}

Evictable == SelectSeq(order, LAMBDA a : ~fence[a].protected)

CanRecord(a, v) ==
    /\ v >= fence[a].version
    /\ a \in Fenced \/ Cardinality(Fenced) < Capacity \/ Evictable # <<>>

\* recordFence
Record(a, v, protected) ==
    LET evicted == IF a \notin Fenced /\ Cardinality(Fenced) >= Capacity
                   THEN {Head(Evictable)} ELSE {} IN
    /\ fence' = [b \in Account |->
           IF b = a THEN [version |-> v, protected |-> fence[a].protected \/ protected]
           ELSE IF b \in evicted THEN NoFence ELSE fence[b]]
    /\ order' = Append(SelectSeq(order, LAMBDA b : b # a /\ b \notin evicted), a)

\* unprotectFence, for the version of an entry and that of a revoke.
Unprotect(a, versions) ==
    fence' = [fence EXCEPT ![a].protected = @ /\ fence[a].version \notin versions]

-----------------------------------------------------------------------------
Init ==
    /\ lock = None
    /\ status = "open"
    /\ table = {}
    /\ slot = [a \in Account |-> FreshSlot]
    /\ fence = [a \in Account |-> NoFence]
    /\ order = <<>>
    /\ entry = [e \in Entry |-> NoEntry]
    /\ call = [p \in Goroutine |-> NoCall]
    /\ todo = [w \in Worker |-> {}]
    /\ calls = 0
    /\ crashed = FALSE

\* Execute, StopAccount and RevokeAndStop are called with any target that was
\* once current: callers read it from the database some time before.
Invoke(p) ==
    /\ In(p, "idle")
    /\ calls < MaxCalls
    /\ \E a \in Account, v \in Version :
        \E stage \in (IF v \in Open THEN {"reserve", "stop"} ELSE {"acquire", "stop"}) :
            call' = [call EXCEPT ![p] = [NoCall EXCEPT !.stage = stage, !.acct = a, !.ver = v]]
    /\ calls' = calls + 1
    /\ UNCHANGED <<registry, slot, entry, todo, crashed>>

-----------------------------------------------------------------------------
(* Room for a new slot, in reserve and acquireRevoke                       *)

\* Bug: slots whose client is still stopping are not counted.
BugHasRoom(a) == a \in table \/ Cardinality(Live) < Capacity

\* A slot can be found or made for the account.
HasRoom(a) == a \in table \/ Cardinality(table) < Capacity

MayEnter(p) ==
    /\ status = "open"
    /\ In(p, "reserve") => call[p].ver > fence[call[p].acct].version

\* makeCapacity with all slots live: one that idles is taken ...
TakeIdle(p) ==
    /\ call[p].stage \in {"reserve", "acquire"} /\ lock = None
    /\ MayEnter(p)
    /\ call[p].acct \notin table /\ Cardinality(Live) >= Capacity
    /\ \E b \in Idling :
        call' = [call EXCEPT ![p].stage = "evict", ![p].at = b, ![p].back = call[p].stage]
    /\ lock' = p
    /\ UNCHANGED <<status, table, slot, fences, entry, others>>

\* ... its entry is read ...
EvictRead(p) ==
    /\ In(p, "evict")
    /\ GotoWith(p, "evictClose", slot[call[p].at].current)
    /\ UNCHANGED <<registry, slot, entry, others>>

\* ... and it is closed.  makeCapacity returns the entry to tear down; without
\* one it has made no room.  The reaper goes on with further slots.
EvictClose(p) ==
    LET b == call[p].at  e == call[p].entry IN
    /\ In(p, "evictClose")
    /\ slot' = [slot EXCEPT ![b].closed = TRUE]
    /\ IF p = Reaper
       THEN /\ todo' = [todo EXCEPT ![p] = @ \cup {<<b, e>>}]
            /\ call' = [call EXCEPT ![p] = [NoCall EXCEPT !.stage = "reap"]]
            /\ UNCHANGED lock
       ELSE /\ IF e = None THEN Return(p) ELSE Goto(p, "wait")
            /\ lock' = None
            /\ UNCHANGED todo
    /\ UNCHANGED <<status, table, fences, entry, calls, crashed>>

\* Registry stopped, version fenced, or no capacity.
Refused(p) ==
    /\ call[p].stage \in {"reserve", "acquire"} /\ lock = None
    /\ ~MayEnter(p) \/ ~HasRoom(call[p].acct)
    /\ Return(p)
    /\ UNCHANGED <<registry, slot, entry, others>>

-----------------------------------------------------------------------------
(* Execute                                                                 *)

\* reserve: the slot's entry is read first ...
ReserveLook(p) ==
    LET a == call[p].acct IN
    /\ In(p, "reserve") /\ lock = None
    /\ MayEnter(p) /\ HasRoom(a)
    /\ table' = table \cup {a}
    /\ slot' = IF a \in table THEN slot ELSE [slot EXCEPT ![a] = FreshSlot]
    /\ GotoWith(p, "decide", slot'[a].current)
    /\ lock' = p
    /\ UNCHANGED <<status, fences, entry, others>>

\* ... then its flags.
Decide(p) == In(p, "decide") /\ lock' = None /\ UNCHANGED <<status, table, fences, others>>

\* A handle on the entry of the same version.
ReserveShared(p) ==
    LET a == call[p].acct  e == call[p].entry IN
    /\ Decide(p)
    /\ ~Busy(slot[a]) /\ e # None /\ call[p].ver = entry[e].ver /\ Admitted(a, e)
    /\ slot' = [slot EXCEPT ![a].handles = @ \cup {p}]
    /\ Goto(p, "opened")
    /\ UNCHANGED entry

\* An older entry is closed, unless it is already, and torn down first.
ReserveReplaces(p) ==
    LET a == call[p].acct  e == call[p].entry IN
    /\ Decide(p)
    /\ ~Busy(slot[a]) /\ e # None /\ call[p].ver > entry[e].ver
    /\ slot' = [slot EXCEPT ![a].closed = TRUE]
    /\ call' = [call EXCEPT ![p].stage = "wait", ![p].at = a, ![p].back = "reserve"]
    /\ UNCHANGED entry

ReserveFirst(p) ==
    LET a == call[p].acct IN
    /\ Decide(p)
    /\ ~Busy(slot[a]) /\ call[p].entry = None /\ ~slot[a].closed
    /\ \E e \in Entry :
        /\ Unused(e)
        /\ slot' = [slot EXCEPT ![a].current = e, ![a].handles = @ \cup {p}]
        /\ entry' = [entry EXCEPT ![e] = NewEntry(a, call[p].ver, FALSE)]
        /\ GotoWith(p, "opened", e)

\* A revoke is due, the version is older or closed, or the slot is closed.
ReserveRefused(p) ==
    LET a == call[p].acct  v == call[p].ver  e == call[p].entry IN
    /\ Decide(p)
    /\ \/ Busy(slot[a])
       \/ e # None /\ (v < entry[e].ver \/ (v = entry[e].ver /\ ~Admitted(a, e)))
       \/ e = None /\ slot[a].closed
    /\ Return(p)
    /\ UNCHANGED <<slot, entry>>

\* Built, ready, at the head of the operation gate, and admitted; or not.
Begin(p) ==
    LET a == call[p].acct  e == call[p].entry IN
    /\ In(p, "opened") /\ entry[e].build # "building" /\ entry[e].owner # "fresh"
    /\ IF Admitted(a, e) /\ entry[e].build = "built" /\ entry[e].owner \notin Done
       THEN /\ slot[a].active = None
            /\ slot' = [slot EXCEPT ![a].active = p]
            /\ Goto(p, "queued")
       ELSE /\ Goto(p, "closing")
            /\ UNCHANGED slot
    /\ UNCHANGED <<registry, entry, others>>

\* The dispatcher inside Run takes the request; the owner has been stopped or
\* has ended; or the admission has been closed meanwhile.
Dispatch(p) ==
    LET e == call[p].entry IN
    /\ In(p, "queued")
    /\ IF entry[e].owner = "running" /\ Admitted(call[p].acct, e)
       THEN Goto(p, "callback") ELSE Goto(p, "ending")
    /\ UNCHANGED <<registry, slot, entry, others>>

CallbackEnds(p) ==
    /\ In(p, "callback")
    /\ Goto(p, "ending")
    /\ UNCHANGED <<registry, slot, entry, others>>

FinishOperation(p) ==
    /\ In(p, "ending")
    /\ slot' = [slot EXCEPT ![call[p].acct].active = None]
    /\ Goto(p, "closing")
    /\ UNCHANGED <<registry, entry, others>>

\* releaseHandle, and removeSlot by the last one out.
CloseHandle(p) ==
    LET a == call[p].acct  s == [slot[a] EXCEPT !.handles = @ \ {p}] IN
    /\ In(p, "closing")
    /\ Removable(s) => lock = None
    /\ slot' = [slot EXCEPT ![a] = s]
    /\ table' = Swept(a, s)
    /\ Return(p)
    /\ UNCHANGED <<lock, status, fences, entry, others>>

-----------------------------------------------------------------------------
(* teardown, for a replacement, an eviction, StopAccount or Stop           *)

\* What follows a teardown that failed or not.  A reserve or a revoke that made
\* room starts over; StopAccount returns; the workers go on, Stop with a mark.
Finish(p, ok) ==
    LET back == call[p].back IN
    call' = [call EXCEPT ![p] =
        IF p \in Worker THEN [NoCall EXCEPT !.stage = "next", !.back = IF ok THEN back ELSE "broken"]
        ELSE CASE back = "stopped" -> [NoCall EXCEPT !.ok = ok]
               [] back \in {"reserve", "acquire"} /\ ok -> Restarted(p, back)
               [] OTHER -> NoCall]

FreeGate(p) == slot' = [slot EXCEPT ![call[p].at].gate = IF @ = p THEN None ELSE @]

\* waitForRevoke
WaitRevoke(p) ==
    /\ In(p, "wait") /\ lock = None
    /\ ~Busy(slot[call[p].at])
    /\ Goto(p, "gate")
    /\ UNCHANGED <<registry, slot, entry, others>>

\* The teardown gate; an entry that has been replaced needs no teardown.  Waiting
\* for the entry of a slot that has none is a nil dereference.
EnterGate(p) ==
    LET b == call[p].at  e == call[p].entry IN
    /\ In(p, "gate") /\ slot[b].gate = None
    /\ IF slot[b].current # e
       THEN Finish(p, TRUE) /\ UNCHANGED <<slot, crashed>>
       ELSE /\ crashed' = (e = None)
            /\ slot' = [slot EXCEPT ![b].gate = p]
            /\ Goto(p, "drain")
    /\ UNCHANGED <<registry, entry, todo, calls>>

\* waitBuilt and waitDrained
Drain(p) ==
    LET b == call[p].at  e == call[p].entry IN
    /\ In(p, "drain") /\ entry[e].build # "building"
    /\ CASE BuildFailed(e)  -> call' = [call EXCEPT ![p].stage = "reset", ![p].ok = FALSE]
                               /\ UNCHANGED slot
         [] BuildExpired(e) -> Finish(p, FALSE) /\ FreeGate(p)
         [] OTHER           -> slot[b].active = None /\ Goto(p, "stopOwner") /\ UNCHANGED slot
    /\ UNCHANGED <<registry, entry, others>>

\* owner.Stop, once every operation has ended.
TeardownStops(p) ==
    /\ In(p, "stopOwner")
    /\ StopOwner(call[p].entry)
    /\ Goto(p, "join")
    /\ UNCHANGED <<registry, slot, others>>

\* owner.Wait
Join(p) ==
    LET e == call[p].entry IN
    /\ In(p, "join") /\ entry[e].owner \in Done \cup {"none"}
    /\ IF entry[e].result = "deadline"
       THEN Finish(p, FALSE) /\ FreeGate(p)
       ELSE /\ call' = [call EXCEPT ![p].stage = "reset", ![p].ok = entry[e].result # "error"]
            /\ UNCHANGED slot
    /\ UNCHANGED <<registry, entry, others>>

\* Bug: after the timeout the entry is dropped, with a client that may still run.
BugTimeoutDrops(p) ==
    /\ call[p].stage \in {"drain", "join"}
    /\ call' = [call EXCEPT ![p].stage = "reset", ![p].ok = FALSE]
    /\ UNCHANGED <<registry, slot, entry, others>>

\* Bug: the timeout is not reported.
BugTimeoutSucceeds(p) ==
    /\ call[p].stage \in {"drain", "join"}
    /\ Finish(p, TRUE) /\ FreeGate(p)
    /\ UNCHANGED <<registry, entry, others>>

\* DrainTimeout passes: the entry stays, closed, for the next teardown.
DrainTimeout(p) ==
    /\ call[p].stage \in {"drain", "join"}
    /\ Finish(p, FALSE) /\ FreeGate(p)
    /\ UNCHANGED <<registry, entry, others>>

\* finishTeardown, first under slot.mu only ...
TeardownReset(p) ==
    /\ In(p, "reset")
    /\ slot' = [slot EXCEPT ![call[p].at] = Reset(@, call[p].entry)]
    /\ Goto(p, "unprotect")
    /\ UNCHANGED <<registry, entry, others>>

\* Bug: the gate is not given back.
BugTeardownEnds(p) ==
    /\ In(p, "unprotect") /\ lock = None
    /\ Unprotect(call[p].at, {entry[call[p].entry].ver})
    /\ Finish(p, call[p].ok)
    /\ UNCHANGED <<lock, status, table, slot, order, entry, others>>

\* ... then under registry.mu, before the gate is free.
TeardownEnds(p) ==
    LET b == call[p].at IN
    /\ In(p, "unprotect") /\ lock = None
    /\ Unprotect(b, {entry[call[p].entry].ver})
    /\ table' = Swept(b, slot[b])
    /\ FreeGate(p)
    /\ Finish(p, call[p].ok)
    /\ UNCHANGED <<lock, status, order, entry, others>>

-----------------------------------------------------------------------------
(* StopAccount                                                             *)

\* The registry stopped, the slot had no entry, or the version is older than a
\* fence; otherwise the fence is recorded.  Refusing another version than the
\* entry's unlocks slot.mu, which is not locked: a fatal error.
StopLook(p) ==
    LET a == call[p].acct  v == call[p].ver
        e == IF a \in table THEN slot[a].current ELSE None
        other == e # None /\ v # entry[e].ver IN
    /\ In(p, "stop") /\ lock = None
    /\ \/ /\ status # "open"
          /\ ReturnOk(p)
          /\ UNCHANGED <<lock, fences, crashed>>
       \/ /\ status = "open" /\ other
          /\ crashed' = TRUE
          /\ UNCHANGED <<lock, fences, call>>
       \/ /\ status = "open" /\ ~other /\ ~CanRecord(a, v)
          /\ Return(p)
          /\ UNCHANGED <<lock, fences, crashed>>
       \/ /\ status = "open" /\ ~other /\ CanRecord(a, v)
          /\ Record(a, v, e # None)
          /\ IF e = None
             THEN ReturnOk(p) /\ UNCHANGED lock
             ELSE GotoWith(p, "seen", e) /\ lock' = p
          /\ UNCHANGED crashed
    /\ UNCHANGED <<status, table, slot, entry, todo, calls>>

\* Bug: the fence alone is to stop the account.
BugStopClose(p) ==
    /\ In(p, "seen")
    /\ lock' = None
    /\ call' = [call EXCEPT ![p].stage = "wait", ![p].at = call[p].acct, ![p].back = "stopped"]
    /\ UNCHANGED <<status, table, slot, fences, entry, others>>

\* closeAdmission of the slot whose entry has been read.
StopClose(p) ==
    LET a == call[p].acct IN
    /\ In(p, "seen")
    /\ slot' = [slot EXCEPT ![a].closed = TRUE]
    /\ lock' = None
    /\ call' = [call EXCEPT ![p].stage = "wait", ![p].at = a, ![p].back = "stopped"]
    /\ UNCHANGED <<status, table, fences, entry, others>>

-----------------------------------------------------------------------------
(* RevokeAndStop                                                           *)

\* acquireRevoke: the slot is kept for the waiter ...
Acquire(p) ==
    LET a == call[p].acct  s == IF a \in table THEN slot[a] ELSE FreshSlot IN
    /\ In(p, "acquire") /\ lock = None
    /\ MayEnter(p) /\ HasRoom(a)
    /\ table' = table \cup {a}
    /\ slot' = [slot EXCEPT ![a] = [s EXCEPT !.waiters = @ \cup {p}]]
    /\ Goto(p, "claim")
    /\ UNCHANGED <<lock, status, fences, entry, others>>

\* ... who takes the teardown gate.
ClaimGate(p) ==
    LET a == call[p].acct  s == [slot[a] EXCEPT !.waiters = @ \ {p}] IN
    /\ In(p, "claim") /\ slot[a].gate = None /\ lock = None
    /\ IF status # "open"
       THEN slot' = [slot EXCEPT ![a] = s] /\ Return(p)
       ELSE /\ slot' = [slot EXCEPT ![a] = [s EXCEPT !.gate = p, !.revoking = TRUE]]
            /\ Goto(p, "prepare")
    /\ UNCHANGED <<registry, entry, others>>

\* prepareRevoke: a private entry left by an earlier revoke of this version is
\* torn down first; an entry must be of the version before.
Prepare(p) ==
    LET a == call[p].acct  v == call[p].ver  e == slot[a].current
        stale == e # None /\ entry[e].private /\ entry[e].ver = v IN
    /\ In(p, "prepare") /\ lock = None
    /\ \/ /\ status = "open" /\ stale
          /\ call' = [call EXCEPT ![p].stage = "cleanup", ![p].entry = e, ![p].back = "prepare"]
          /\ UNCHANGED <<lock, fences>>
       \/ /\ status = "open" /\ ~stale
          /\ e # None => entry[e].ver = v - 1 /\ entry[e].ver \in Open
          /\ CanRecord(a, v)
          /\ Record(a, v, TRUE)
          /\ lock' = p
          /\ GotoWith(p, "seize", e)
       \/ /\ \/ status # "open"
             \/ ~stale /\ e # None /\ ~(entry[e].ver = v - 1 /\ entry[e].ver \in Open)
             \/ ~stale /\ ~CanRecord(a, v)
          /\ Goto(p, "release")
          /\ UNCHANGED <<lock, fences>>
    /\ UNCHANGED <<status, table, slot, entry, others>>

\* closeAdmission; with no entry a private one is built.
Seize(p) ==
    LET a == call[p].acct IN
    /\ In(p, "seize")
    /\ lock' = None
    /\ IF call[p].entry # None
       THEN /\ slot' = [slot EXCEPT ![a].closed = TRUE]
            /\ Goto(p, "revoking")
            /\ UNCHANGED entry
       ELSE \E e \in Entry :
            /\ Unused(e)
            /\ slot' = [slot EXCEPT ![a].closed = TRUE, ![a].current = e]
            /\ entry' = [entry EXCEPT ![e] = NewEntry(a, call[p].ver, TRUE)]
            /\ GotoWith(p, "revoking", e)
    /\ UNCHANGED <<status, table, fences, others>>

\* Bug: the operations before the revoke are not drained.
BugPrivilege(p) ==
    /\ In(p, "revoking")
    /\ entry[call[p].entry].build = "built" /\ entry[call[p].entry].owner = "running"
    /\ Goto(p, "privileged")
    /\ UNCHANGED <<registry, slot, entry, others>>

\* executeRevoke: built, drained and ready, the privileged callback runs ...
Privilege(p) ==
    LET e == call[p].entry IN
    /\ In(p, "revoking")
    /\ entry[e].build = "built" /\ entry[e].owner = "running"
    /\ slot[call[p].acct].active = None
    /\ Goto(p, "privileged")
    /\ UNCHANGED <<registry, slot, entry, others>>

\* ... and ends; or a wait before it failed or expired.
PrivilegeEnds(p) ==
    /\ call[p].stage \in {"revoking", "privileged"}
    /\ Goto(p, "cleanup")
    /\ UNCHANGED <<registry, slot, entry, others>>

\* teardownRevoke: waits to be built and drained, or no longer, and stops anyway.
RevokeStops(p) ==
    LET e == call[p].entry IN
    /\ In(p, "cleanup")
    /\ \E built \in {FALSE, entry[e].build # "building" /\ ~BuildExpired(e)} :
        call' = [call EXCEPT ![p].stage = "joining", ![p].ok = built]
    /\ StopOwner(e)
    /\ UNCHANGED <<registry, slot, others>>

\* owner.Wait, or its timeout.  A deadline is no failure to join if the callback
\* failed with it.
RevokeJoins(p) ==
    LET o == entry[call[p].entry] IN
    /\ In(p, "joining")
    /\ \E joined \in BOOLEAN :
        /\ joined => /\ o.owner \in Done \cup {"none"}
                     /\ o.result = "deadline" => call[p].back # "prepare"
        /\ ~joined => o.owner # "none"
        /\ Goto(p, IF joined /\ call[p].ok THEN "dropping" ELSE "release")
    /\ UNCHANGED <<registry, slot, entry, others>>

\* finishTeardown and unprotectFence; the slot is kept by revokeRunning.
RevokeReset(p) ==
    /\ In(p, "dropping")
    /\ slot' = [slot EXCEPT ![call[p].acct] = Reset(@, call[p].entry)]
    /\ Goto(p, "dropped")
    /\ UNCHANGED <<registry, entry, others>>

RevokeUnprotects(p) ==
    /\ In(p, "dropped") /\ lock = None
    /\ Unprotect(call[p].acct, {entry[call[p].entry].ver, call[p].ver})
    /\ call' = [call EXCEPT ![p] =
           Restarted(p, IF call[p].back = "prepare" THEN "prepare" ELSE "release")]
    /\ UNCHANGED <<lock, status, table, slot, order, entry, others>>

\* releaseRevoke
Release(p) ==
    LET a == call[p].acct
        s == [slot[a] EXCEPT !.revoking = FALSE, !.gate = None,
                             !.closed = @ /\ (slot[a].current # None \/ slot[a].active # None)] IN
    /\ In(p, "release") /\ lock = None
    /\ slot' = [slot EXCEPT ![a] = s]
    /\ table' = Swept(a, s)
    /\ Return(p)
    /\ UNCHANGED <<lock, status, fences, entry, others>>

-----------------------------------------------------------------------------
(* The reaper, and Stop of the registry                                    *)

\* evictIdle: all slots that idle, one after the other under registry.mu ...
ReapScan ==
    /\ \/ In(Reaper, "idle") /\ status = "open" /\ lock = None
       \/ In(Reaper, "reap")
    /\ \E b \in Idling :
        call' = [call EXCEPT ![Reaper].stage = "evict", ![Reaper].at = b]
    /\ lock' = Reaper
    /\ UNCHANGED <<status, table, slot, fences, entry, others>>

\* ... that it tears down after it.
ReapScanned ==
    /\ In(Reaper, "reap")
    /\ lock' = None
    /\ Goto(Reaper, "next")
    /\ UNCHANGED <<status, table, slot, fences, entry, others>>

\* Stop closes every admission that has an owner, once ...
StopRegistry ==
    /\ In(Stopper, "idle") /\ lock = None
    /\ calls < MaxCalls /\ calls' = calls + 1
    /\ status' = IF status = "open" THEN "stopped" ELSE status
    /\ slot' = [a \in Account |->
           IF status = "open" /\ a \in table /\ slot[a].current # None
           THEN [slot[a] EXCEPT !.closed = TRUE] ELSE slot[a]]
    /\ Goto(Stopper, "collect")
    /\ UNCHANGED <<lock, table, fences, entry, todo, crashed>>

\* ... and tears down what there is until there is nothing or something fails.
StopCollects ==
    /\ In(Stopper, "collect") /\ lock = None
    /\ LET left == {<<a, slot[a].current>> : a \in {b \in table : slot[b].current # None}} IN
        /\ todo' = [todo EXCEPT ![Stopper] = left]
        /\ Goto(Stopper, IF left = {} THEN "finish" ELSE "next")
    /\ UNCHANGED <<registry, slot, entry, calls, crashed>>

NextTeardown(w) ==
    /\ In(w, "next")
    /\ \E item \in todo[w] :
        /\ call' = [call EXCEPT ![w].stage = "wait", ![w].at = item[1], ![w].entry = item[2]]
        /\ todo' = [todo EXCEPT ![w] = @ \ {item}]
    /\ UNCHANGED <<registry, slot, entry, calls, crashed>>

AllTornDown(w) ==
    /\ In(w, "next") /\ todo[w] = {}
    /\ IF w = Reaper THEN Return(w)
       ELSE Goto(w, IF call[w].back = "broken" THEN "finish" ELSE "collect")
    /\ UNCHANGED <<registry, slot, entry, others>>

\* Bug: the root context is cancelled whatever is left.
BugComplete == TRUE

\* No slot has an entry.
Complete == \A a \in table : slot[a].current = None

\* Stop joins the reaper, and cancels the context of all clients if none is left.
StopEnds ==
    /\ In(Stopper, "finish") /\ lock = None
    /\ In(Reaper, "idle")
    /\ status' = IF Complete THEN "closed" ELSE status
    /\ Return(Stopper)
    /\ UNCHANGED <<lock, table, slot, fences, entry, others>>

-----------------------------------------------------------------------------
(* Entries: buildEntry and runEntry                                        *)

\* The client is constructed and the entry still wanted, by its slot or by a
\* revoke; or not.
Build(e) ==
    LET a == entry[e].acct
        valid == status = "open" /\ slot[a].current = e /\ (~slot[a].closed \/ slot[a].revoking)
        dropped == [slot[a] EXCEPT !.current = None] IN
    /\ entry[e].build = "building" /\ lock = None
    /\ \/ /\ entry' = IF valid THEN [entry EXCEPT ![e].build = "built", ![e].owner = "fresh"]
                      ELSE [entry EXCEPT ![e].build = "refused"]
          /\ UNCHANGED <<slot, table>>
       \/ /\ entry' = [entry EXCEPT ![e].build = "failed"]
          /\ slot' = IF valid THEN [slot EXCEPT ![a] = dropped] ELSE slot
          /\ table' = IF valid THEN Swept(a, dropped) ELSE table
    /\ UNCHANGED <<lock, status, fences, call, others>>

StartRun(e) ==
    /\ entry[e].owner = "fresh"
    /\ entry' = [entry EXCEPT ![e].owner = "running"]
    /\ UNCHANGED <<registry, slot, call, others>>

CallbackIn(p, e) == call[p].stage \in {"callback", "privileged"} /\ call[p].entry = e

\* client.Run joins the dispatcher and its callback; it ends when it is stopped
\* or by itself.
RunEnds(e) ==
    /\ entry[e].owner \in {"running", "stopping"}
    /\ \A p \in Caller : ~CallbackIn(p, e)
    /\ \E result \in {"ok", "error", "deadline"} :
        entry' = [entry EXCEPT ![e].owner = "ended", ![e].result = result]
    /\ UNCHANGED <<registry, slot, call, others>>

\* runEntry, under slot.mu only: the slot loses its entry unless it is stopping.
RunNoted(e) ==
    LET a == entry[e].acct IN
    /\ entry[e].owner = "ended"
    /\ entry' = [entry EXCEPT ![e].owner = "noted"]
    /\ slot' = IF slot[a].current = e /\ ~slot[a].closed
               THEN [slot EXCEPT ![a].current = None] ELSE slot
    /\ UNCHANGED <<registry, call, others>>

\* finishStoppedEntry
RunSwept(e) ==
    LET a == entry[e].acct IN
    /\ entry[e].owner = "noted" /\ lock = None
    /\ entry' = [entry EXCEPT ![e].owner = "swept"]
    /\ table' = Swept(a, slot[a])
    /\ UNCHANGED <<lock, status, slot, fences, call, others>>

-----------------------------------------------------------------------------
\* The context of a call is cancelled while it waits; the reaper's never is.
Expire(p) ==
    LET a == call[p].acct IN
    /\ \/ call[p].stage \in {"wait", "gate"} /\ Finish(p, FALSE) /\ UNCHANGED slot
       \/ In(p, "opened") /\ Goto(p, "closing") /\ UNCHANGED slot
       \/ In(p, "queued") /\ Goto(p, "ending") /\ UNCHANGED slot
       \/ /\ In(p, "claim") /\ lock = None
          /\ slot' = [slot EXCEPT ![a].waiters = @ \ {p}]
          /\ Return(p)
    /\ UNCHANGED <<registry, entry, others>>

Executes(p) ==
    \/ TakeIdle(p) \/ Refused(p) \/ ReserveLook(p) \/ ReserveShared(p)
    \/ ReserveReplaces(p) \/ ReserveFirst(p) \/ ReserveRefused(p)
    \/ Begin(p) \/ Dispatch(p) \/ CallbackEnds(p) \/ FinishOperation(p) \/ CloseHandle(p)

Revokes(p) ==
    \/ Acquire(p) \/ ClaimGate(p) \/ Prepare(p) \/ Seize(p) \/ Privilege(p)
    \/ PrivilegeEnds(p) \/ RevokeStops(p) \/ RevokeJoins(p) \/ RevokeReset(p)
    \/ RevokeUnprotects(p) \/ Release(p)

TearsDown(p) ==
    \/ EvictRead(p) \/ EvictClose(p) \/ WaitRevoke(p) \/ EnterGate(p) \/ Drain(p)
    \/ TeardownStops(p) \/ Join(p) \/ DrainTimeout(p) \/ TeardownReset(p) \/ TeardownEnds(p)

\* What a goroutine does without being called or cancelled.
Step(p) ==
    \/ TearsDown(p)
    \/ p \in Caller /\ (Executes(p) \/ StopLook(p) \/ StopClose(p) \/ Revokes(p))
    \/ p \in Worker /\ (NextTeardown(p) \/ AllTornDown(p))
    \/ p = Reaper /\ ReapScanned
    \/ p = Stopper /\ (StopCollects \/ StopEnds)

EntryStep(e) == Build(e) \/ StartRun(e) \/ RunNoted(e) \/ RunSwept(e)

Next ==
    /\ ~crashed
    /\ \/ \E p \in Caller : Invoke(p)
       \/ \E p \in Goroutine : Step(p)
       \/ \E p \in Caller \cup {Stopper} : Expire(p)
       \/ ReapScan
       \/ StopRegistry
       \/ \E e \in Entry : EntryStep(e) \/ RunEnds(e)

Spec == Init /\ [][Next]_vars

\* Goroutines are scheduled, mutexes are fair, callbacks return and constructing
\* a client ends.  Nothing is assumed of contexts but of the drain timeout, which
\* is always set, and nothing of when a client stops.
Fairness ==
    /\ \A p \in Goroutine : WF_vars(~crashed /\ Step(p))
    /\ \A e \in Entry : WF_vars(~crashed /\ EntryStep(e))

FairSpec == Spec /\ Fairness

-----------------------------------------------------------------------------
(* Properties                                                              *)

Slot == [current : Entry \cup {None}, closed : BOOLEAN, handles : SUBSET Caller,
         active : Caller \cup {None}, revoking : BOOLEAN, waiters : SUBSET Caller,
         gate : Goroutine \cup {None}]

Fence == [version : Version \cup {0}, protected : BOOLEAN]

RuntimeEntry == [acct : Account \cup {None}, ver : Version \cup {0}, private : BOOLEAN,
                 build : {"none", "building", "built", "refused", "failed"},
                 owner : {"none", "fresh", "running", "stopping"} \cup Done,
                 result : {"none", "ok", "error", "deadline"}]

Stage == {"idle", "reserve", "decide", "opened", "queued", "callback", "ending", "closing",
          "evict", "evictClose", "wait", "gate", "drain", "stopOwner", "join", "reset",
          "unprotect", "stop", "seen", "acquire", "claim", "prepare", "seize", "revoking",
          "privileged", "cleanup", "joining", "dropping", "dropped", "release",
          "reap", "collect", "next", "finish"}

Call == [stage : Stage, acct : Account \cup {None}, ver : Version \cup {0},
         at : Account \cup {None}, entry : Entry \cup {None},
         back : {"none", "reserve", "acquire", "stopped", "prepare", "broken"}, ok : BOOLEAN]

TypeOK ==
    /\ lock \in Goroutine \cup {None}
    /\ status \in {"open", "stopped", "closed"}
    /\ table \subseteq Account
    /\ slot \in [Account -> Slot]
    /\ fence \in [Account -> Fence]
    /\ order \in Seq(Account)
    /\ entry \in [Entry -> RuntimeEntry]
    /\ call \in [Goroutine -> Call]
    /\ todo \in [Worker -> SUBSET (Account \X (Entry \cup {None}))]
    /\ calls \in 0..MaxCalls
    /\ crashed \in BOOLEAN

\* A client that is constructed and has not ended.
Client(e) == entry[e].owner \in {"fresh", "running", "stopping"}

\* "Registry owns at most one gotd client for each operator/account key":
\* neither a replacement nor a private revoke nor a retry after a timeout starts
\* a client beside one that still runs, which Telegram would see as two uses of
\* one session.
OneClientPerAccount ==
    \A e, f \in Entry : Client(e) /\ Client(f) /\ entry[e].acct = entry[f].acct => e = f

\* A stop or a revoke has recorded the fence of the account and is about to close
\* its slot.
Fencing(a) ==
    \E q \in Caller : lock = q /\ call[q].stage \in {"seen", "seize"} /\ call[q].acct = a

\* From the moment the registry is unlocked with a fence recorded, a callback of
\* a fenced version is one that the stop is draining: its slot is closed, and
\* stays closed until it has ended.
FencedCallbacksDrain ==
    \A p \in Caller :
        In(p, "callback") /\ entry[call[p].entry].ver <= fence[call[p].acct].version =>
            slot[call[p].acct].closed \/ Fencing(call[p].acct)

\* The privileged callback of a revoke is alone on its account, however the
\* operations before it ended and whatever is waiting.
RevokeIsAlone ==
    \A p, q \in Caller :
        In(p, "privileged") /\ q # p /\ call[q].acct = call[p].acct =>
            call[q].stage \notin {"queued", "callback", "ending", "privileged"}

\* A slot outlives all that refers to it: it is in the table while it has an
\* entry, handles, an operation or a revoke, so that a second slot never shares
\* the account.
SlotsAreKept ==
    \A a \in Account \ table :
        slot[a].current = None /\ slot[a].handles = {} /\ slot[a].active = None
        /\ ~Busy(slot[a])

\* Clients are never more than the capacity, those that are being evicted
\* included, although the table of slots is all that is counted.
ClientsWithinCapacity ==
    /\ Cardinality({e \in Entry : Client(e)}) <= Capacity
    /\ SlotsAreKept

\* A registry whose root context is cancelled has no client and no callback.
ClosedIsQuiet ==
    status = "closed" =>
        /\ \A e \in Entry : ~Client(e)
        /\ \A p \in Caller : call[p].stage \notin {"callback", "privileged"}

\* Only the cleanup of a revoke, which is unconditional, stops a client under an
\* operation that is not over: a teardown would let Run return underneath it.
TeardownsDrain ==
    \A e \in Entry :
        entry[e].owner = "running" /\ entry'[e].owner = "stopping" =>
            \/ slot[entry[e].acct].active = None
            \/ \E p \in Caller : In(p, "cleanup") /\ call[p].entry = e

\* No fence is ever evicted for another.
EnoughFences == IsFiniteSet(Account) /\ Cardinality(Account) <= Capacity

\* StopAccount of this target returns without an error, the registry not stopped.
StopSucceeds(p, a, v) ==
    /\ ~In(p, "idle") /\ In(p, "idle")' /\ call'[p].ok
    /\ call[p].acct = a /\ call[p].ver = v
    /\ In(p, "stop") => status = "open"

\* StopAccount "waits for bounded drain and owner teardown": operations end
\* before the client is stopped, and when it succeeds the client it found is gone
\* and none of that version or an older one is left but that of a revoke.  With
\* more accounts than fences the fence may be evicted meanwhile and the version
\* be opened anew; if it is fenced again, that client is being drained.
StopWaitsForTeardown ==
    [][/\ TeardownsDrain
       /\ \A p \in Caller, a \in Account, v \in Version : StopSucceeds(p, a, v) =>
            \A e \in Entry : Client(e)' /\ entry'[e].acct = a =>
                /\ e # call[p].entry
                /\ \/ entry'[e].ver > v \/ entry'[e].private
                   \/ /\ ~EnoughFences
                      /\ v <= fence'[a].version => slot'[a].closed \/ Fencing(a)']_vars

\* Every call of the registry returns, Stop and the passes of the reaper too,
\* without help of the caller's context.
EveryCallReturns ==
    \A p \in Goroutine : ~In(p, "idle") ~> In(p, "idle") \/ crashed

-----------------------------------------------------------------------------
(* What the repository says of the registry and the code does not do       *)

\* No call and no client is at work on the account.
Unattended(a) ==
    /\ \A p \in Goroutine : call[p].acct # a /\ call[p].at # a
    /\ \A w \in Worker : \A item \in todo[w] : item[1] # a
    /\ \A e \in Entry : entry[e].acct = a => entry[e].owner \in {"none", "swept"}
                                             /\ entry[e].build # "building"

\* ErrStaleAdmission is what StopAccount returns for another version than the
\* current one: it returns, rather than ending the process.
StaleStopIsRefused ==
    \A p \in Caller : In(p, "stop") => ~crashed

\* A client that fails affects its own account only: the reaper never waits for
\* the entry of a slot that has just lost it, which ends the process.
FailureIsIsolated ==
    crashed => ~(In(Reaper, "drain") /\ call[Reaper].entry = None)

\* After StopAccount a new version can be opened: a slot is not left closed with
\* nothing to tear down, which no Execute could ever open again.
ClosedSlotsReopen ==
    \A a \in table : Unattended(a) /\ slot[a].closed /\ status = "open" => slot[a].current # None

-----------------------------------------------------------------------------
(* What holds instead                                                      *)

\* Two mistakes end the process and nothing else does: a stop of another version
\* than the slot's entry, and the reaper with a slot that has lost its entry.
\* Neither a caller that makes room, nor a replacement, nor Stop meets an empty
\* slot, although their reads of slot and entry are apart too.
CrashesExplained ==
    crashed =>
        \/ In(Reaper, "drain") /\ call[Reaper].entry = None
        \/ \E p \in Caller : LET e == slot[call[p].acct].current IN
              In(p, "stop") /\ call[p].acct \in table /\ e # None /\ call[p].ver # entry[e].ver

\* A slot that is closed without an entry is opened again by the release of a
\* revoke of its account, and by nothing else.
OnlyRevokesReopen ==
    [][\A a \in Account :
          slot[a].closed /\ slot[a].current = None /\ ~slot'[a].closed =>
              \E p \in Caller : In(p, "release") /\ call[p].acct = a]_vars
=============================================================================
