------------------------- MODULE AccountOwnerProofs -------------------------
(***************************************************************************)
(* The registry owns one client for each account, for any number of        *)
(* accounts, goroutines, entries and versions and any capacity: a client   *)
(* that runs is the entry of its slot, and a slot in use is never removed. *)
(* With it: fenced callbacks are being drained, a privileged revoke is     *)
(* alone, clients fit in the capacity, a closed registry is quiet, and     *)
(* StopAccount waits for what it stops.                                    *)
(*                                                                         *)
(* The argument is about who may change a slot.  The holder of its gate    *)
(* alone drops a closed entry; the holder of registry.mu alone gives it a  *)
(* new one; and an operation keeps the slot by its handle.  So what a      *)
(* goroutine has seen of the slot in hand stays true until its next step,  *)
(* although each of its steps is separate: Undisturbed says what, and      *)
(* every action is shown to leave the others undisturbed.                  *)
(***************************************************************************)
EXTENDS AccountOwner, FiniteSetTheorems, TLAPS

Holding   == {"opened", "queued", "callback", "ending", "closing"}
Operating == {"queued", "callback", "ending"}
Gated     == {"drain", "stopOwner", "join", "reset"}
Tearing   == {"wait", "gate", "unprotect"} \cup Gated
Revoking  == {"prepare", "seize", "revoking", "privileged", "cleanup", "joining",
              "dropping", "dropped", "release"}
Using     == Holding \cup {"seen", "revoking", "privileged", "cleanup", "joining",
                           "dropping", "dropped"}
Locking   == {"decide", "seize", "seen", "evict", "evictClose", "reap"}
Aiming    == {"reserve", "acquire", "stop", "claim"} \cup Using \cup Revoking \cup {"decide"}

Types ==
    /\ lock \in Goroutine \cup {None}
    /\ status \in {"open", "stopped", "closed"}
    /\ table \subseteq Account
    /\ slot \in [Account -> Slot]
    /\ fence \in [Account -> Fence]
    /\ entry \in [Entry -> RuntimeEntry]
    /\ call \in [Goroutine -> Call]
    /\ todo \in [Worker -> SUBSET (Account \X (Entry \cup {None}))]
    /\ crashed \in BOOLEAN

\* A client, or an entry that may still become one.
Alive(e) == entry[e].build = "building" \/ Client(e)

Current(a) == slot[a].current

-----------------------------------------------------------------------------
(* The invariant: slots and entries.                                       *)

TableFits == IsFiniteSet(table) /\ Cardinality(table) <= Capacity

\* A slot that is not in the table is in nobody's hands.
SlotOk(a) ==
    /\ a \notin table => /\ slot[a].current = None /\ slot[a].handles = {}
                         /\ slot[a].active = None /\ ~Busy(slot[a])
    /\ slot[a].gate = None => ~slot[a].revoking

\* Once the registry is stopped every slot with an entry is closed; so is one
\* whose entry is fenced, or about to be.
CurrentOk(a) ==
    Current(a) # None =>
        /\ entry[Current(a)].acct = a
        /\ status # "open" => slot[a].closed

FencedOk(a) ==
    Current(a) # None /\ entry[Current(a)].ver <= fence[a].version =>
        slot[a].closed \/ Fencing(a)

\* What is alive is the entry of its slot, and nothing is in a closed registry.
EntryOk(e) ==
    /\ entry[e].build = "built" <=> entry[e].owner # "none"
    /\ Alive(e) => /\ entry[e].acct \in Account /\ Current(entry[e].acct) = e
                   /\ status # "closed"

TodoOk ==
    \A w \in Worker : \A item \in todo[w] :
        /\ item[2] # None => entry[item[2]].acct = item[1]
        /\ item[2] # None /\ Current(item[1]) = item[2] => slot[item[1]].closed

-----------------------------------------------------------------------------
(* The invariant: what a goroutine knows of the slot and entry in hand.    *)

\* Its target, and that the entry belongs to it.
AimOk(p) ==
    LET c == call[p] IN
    /\ c.stage \in Aiming => c.acct \in Account /\ c.ver \in Version
    /\ c.stage \in {"evict", "evictClose"} \cup Tearing =>
          /\ c.at \in Account
          /\ c.back \in {"reserve", "acquire", "stopped"} =>
                c.acct \in Account /\ c.ver \in Version
    /\ c.stage \in Using \cup {"decide", "seize"} /\ c.entry # None =>
          entry[c.entry].acct = c.acct
    /\ c.stage \in Using => c.entry # None
    /\ c.stage \in Tearing \cup {"evictClose"} /\ c.entry # None =>
          entry[c.entry].acct = c.at
    /\ c.stage \in Gated \cup {"unprotect"} => c.entry # None \/ crashed
    /\ p \in Worker => c.back \notin {"reserve", "acquire", "stopped"} /\ c.stage # "privileged"
    /\ c.stage \in {"evict", "evictClose"} => c.back # "stopped"

\* What holds as long as it keeps registry.mu.
LockOk(p) ==
    LET c == call[p] IN
    /\ c.stage \in Locking => lock = p
    /\ c.stage \in {"decide", "seize"} =>
          /\ status = "open"
          /\ c.entry = None => Current(c.acct) = None
    /\ c.stage = "decide" => c.acct \in table /\ c.ver > fence[c.acct].version
    /\ p = Stopper /\ c.stage # "idle" => status # "open"

\* What its handle, its place in the operation gate and its teardown gate keep.
SlotsOk(p) ==
    LET c == call[p] IN
    /\ c.stage \in Holding => p \in slot[c.acct].handles
    /\ c.stage \in Operating => slot[c.acct].active = p
    /\ c.stage = "claim" => p \in slot[c.acct].waiters
    /\ c.stage \in Revoking => slot[c.acct].gate = p /\ slot[c.acct].revoking
    /\ c.stage \in {"revoking", "privileged"} => slot[c.acct].closed
    /\ c.stage = "privileged" => slot[c.acct].active = None
    /\ c.stage \in Gated =>
          /\ slot[c.at].gate = p
          /\ crashed \/ (Current(c.at) = c.entry /\ slot[c.at].closed)
    /\ c.stage \in Gated \cup {"unprotect"} /\ slot[c.at].gate = p => ~slot[c.at].revoking
    /\ c.stage \in {"wait", "gate"} /\ c.entry # None /\ Current(c.at) = c.entry =>
          slot[c.at].closed

\* What it has waited for.
WaitedOk(p) ==
    LET c == call[p] IN
    /\ c.stage \in {"callback", "privileged"} => entry[c.entry].owner \in {"running", "stopping"}
    /\ c.stage \in {"dropping", "dropped"} => ~Alive(c.entry)
    /\ c.stage \in {"reset", "unprotect"} => ~Alive(c.entry) \/ crashed
    /\ c.stage \in {"stopOwner", "join"} => entry[c.entry].build # "building" \/ crashed
    /\ c.stage = "joining" /\ c.ok => entry[c.entry].build # "building"
    /\ c.stage = "stopOwner" => slot[c.at].active = None \/ crashed

\* StopAccount: as long as its fence is kept, no other client of the version or
\* an older one is started.
StopOk(p) ==
    LET c == call[p] IN
    (c.stage = "seen" \/ (c.stage \in Tearing /\ c.back = "stopped")) =>
        /\ c.stage \in Tearing => c.at = c.acct
        /\ c.entry # None
        /\ EnoughFences =>
              /\ c.ver <= fence[c.acct].version
              /\ \A f \in Entry : Current(c.acct) = f =>
                    f = c.entry \/ entry[f].ver > c.ver \/ entry[f].private

CallOk(p) == AimOk(p) /\ LockOk(p) /\ SlotsOk(p) /\ WaitedOk(p) /\ StopOk(p)

SlotInv  == \A a \in Account : SlotOk(a) /\ CurrentOk(a) /\ FencedOk(a)
EntryInv == \A e \in Entry : EntryOk(e)
CallInv  == \A p \in Goroutine : CallOk(p)

RegistryInv == Types /\ TableFits /\ SlotInv /\ EntryInv /\ CallInv /\ TodoOk

-----------------------------------------------------------------------------
(* What one goroutine's step leaves to another.                            *)

SameEntry(e) ==
    /\ entry'[e].acct = entry[e].acct
    /\ entry'[e].ver = entry[e].ver
    /\ entry'[e].private = entry[e].private

\* An entry is reused only when nothing refers to it; it never comes back to life,
\* and does not end under a callback.
EntryKept(q, e) ==
    /\ Unused(e) \/ SameEntry(e)
    /\ call[q].entry = e =>
          /\ entry[e].build # "building" => entry'[e].build # "building"
          /\ ~Alive(e) => ~Alive(e)'
          /\ CallbackIn(q, e) /\ entry[e].owner \in {"running", "stopping"} =>
                entry'[e].owner \in {"running", "stopping"}

\* A new entry is one that no fence forbids.
CurrentKept(a) ==
    \/ slot'[a].current \in {slot[a].current, None}
    \/ /\ Unused(slot'[a].current)
       /\ \/ entry'[slot'[a].current].private
          \/ entry'[slot'[a].current].ver > fence[a].version

SlotKept(q, a) ==
    /\ a \in table =>
          /\ q \in slot[a].handles => q \in slot'[a].handles
          /\ q \in slot[a].waiters => q \in slot'[a].waiters
          /\ slot[a].active = q => slot'[a].active = q
          /\ slot[a].gate = q =>
                /\ slot'[a].gate = q
                /\ slot[a].revoking => slot'[a].revoking
                /\ slot[a].closed => slot'[a].closed
                /\ slot[a].closed /\ ~slot[a].revoking => slot'[a].current = slot[a].current
          /\ slot[a].closed /\ slot[a].active = None => slot'[a].active = None
    /\ slot'[a].gate = q => slot[a].gate = q /\ (slot[a].revoking \/ ~slot'[a].revoking)
    /\ slot'[a].current # None /\ slot'[a].current = slot[a].current /\ slot[a].closed =>
          slot'[a].closed
    /\ CurrentKept(a)

LockKept(q) ==
    /\ lock = q =>
          /\ lock' = q /\ status' = status /\ fence' = fence
          /\ \A a \in Account : /\ a \in table => a \in table'
                                /\ Current(a) = None => slot'[a].current = None
    /\ status # "open" => status' # "open"
    /\ EnoughFences => \A a \in Account : fence[a].version <= fence'[a].version

Undisturbed(q) ==
    /\ call'[q] = call[q]
    /\ \A a \in Account : SlotKept(q, a)
    /\ \A e \in Entry : EntryKept(q, e)
    /\ LockKept(q)

\* An entry in hand is not reused.
LEMMA InHand ==
    ASSUME NEW q \in Goroutine, NEW e \in Entry, call[q].entry = e
    PROVE  ~Unused(e)
BY DEF Unused

\* An entry that is current was taken from the pool.
LEMMA CurrentInHand ==
    ASSUME NEW a \in Account, NEW e \in Entry, Current(a) = e
    PROVE  ~Unused(e)
BY DEF Unused, Current

\* The fields of typed slots, entries and calls.
LEMMA Fields ==
    ASSUME Types
    PROVE  /\ \A a \in Account :
                /\ Current(a) \in Entry \cup {None}
                /\ slot[a].closed \in BOOLEAN /\ slot[a].revoking \in BOOLEAN
                /\ slot[a].active \in Caller \cup {None}
                /\ slot[a].gate \in Goroutine \cup {None}
                /\ fence[a].version \in Nat
           /\ \A e \in Entry : entry[e].ver \in Nat
           /\ \A p \in Goroutine : /\ call[p].entry \in Entry \cup {None}
                                   /\ call[p].ver \in Nat
<1>1. Version \cup {0} \subseteq Nat
  BY OwnerAssumption DEF Version
<1> QED
  BY <1>1 DEF Types, Slot, Fence, RuntimeEntry, Call, Current

\* None is neither an entry nor a goroutine, and the workers are no callers.
LEMMA Names ==
    /\ None \notin Entry /\ None \notin Account /\ None \notin Goroutine
    /\ Caller \subseteq Goroutine /\ Worker \subseteq Goroutine
    /\ Reaper \in Worker /\ Stopper \in Worker /\ Reaper # Stopper
    /\ \A p \in Caller : p \notin Worker /\ p # Reaper /\ p # Stopper
BY OwnerAssumption DEF Goroutine, Worker

\* What a goroutine knows survives the steps of the others.
LEMMA OthersKeep ==
    ASSUME RegistryInv, Types', ~crashed, NEW q \in Goroutine, Undisturbed(q)
    PROVE  CallOk(q)'
<1> DEFINE c == call[q]
<1>1. /\ CallOk(q) /\ Types /\ call'[q] = c
      /\ \A a \in Account : SlotOk(a) /\ SlotKept(q, a) /\ CurrentOk(a)
      /\ c.entry \in Entry => EntryKept(q, c.entry) /\ SameEntry(c.entry)
  BY InHand DEF RegistryInv, CallInv, SlotInv, Undisturbed, EntryKept
<1>2. c.entry \in Entry \cup {None} /\ None \notin Entry /\ None \notin Goroutine
  BY <1>1, Fields, Names
<1>3. AimOk(q)'
  BY <1>1, <1>2 DEF AimOk, CallOk, SameEntry
<1>4. LockOk(q)'
  <2>1. LockOk(q) /\ LockKept(q)
    BY <1>1 DEF CallOk, Undisturbed
  <2>2. c.stage \in {"decide", "seize"} => c.acct \in Account
    BY <1>1 DEF CallOk, AimOk, Aiming, Revoking
  <2> HIDE DEF c
  <2> QED
    BY <1>1, <2>1, <2>2 DEF LockOk, LockKept, Locking, Current, c
<1>5. SlotsOk(q)'
  <2>1. /\ c.stage \in Holding \cup Revoking \cup {"claim"} => c.acct \in Account
        /\ c.stage \in Tearing => c.at \in Account
    BY <1>1 DEF CallOk, AimOk, Aiming, Using
  <2>2. /\ c.stage \in Holding \cup Revoking \cup {"claim"} => c.acct \in table
        /\ c.stage \in Gated => c.at \in table
    BY <1>1, <1>2, <2>1 DEF CallOk, SlotsOk, SlotOk, Busy, AimOk, Holding, Revoking, Gated, Tearing, Current
  <2>3. /\ c.stage \in Holding => q \in slot'[c.acct].handles
        /\ c.stage \in Operating => slot'[c.acct].active = q
        /\ c.stage = "claim" => q \in slot'[c.acct].waiters
        /\ c.stage \in Revoking => slot'[c.acct].gate = q /\ slot'[c.acct].revoking
        /\ c.stage \in {"revoking", "privileged"} => slot'[c.acct].closed
        /\ c.stage = "privileged" => slot'[c.acct].active = None
    BY <1>1, <2>1, <2>2 DEF CallOk, SlotsOk, SlotKept, Holding, Operating, Revoking
  <2>4. c.stage \in Gated =>
          /\ slot'[c.at].gate = q /\ slot'[c.at].closed
          /\ slot'[c.at].current = c.entry
    BY <1>1, <2>1, <2>2 DEF CallOk, SlotsOk, SlotKept, Gated, Tearing, Current
  <2>5. c.stage \in Gated \cup {"unprotect"} /\ slot'[c.at].gate = q => ~slot'[c.at].revoking
    BY <1>1, <2>1 DEF CallOk, SlotsOk, SlotKept, Gated, Tearing
  <2>6. c.stage \in {"wait", "gate"} /\ c.entry # None /\ slot'[c.at].current = c.entry =>
          slot'[c.at].closed
    BY <1>1, <1>2, <2>1, InHand DEF CallOk, SlotsOk, SlotKept, CurrentKept, Tearing, Current
  <2> QED
    BY <1>1, <2>3, <2>4, <2>5, <2>6 DEF SlotsOk, Current
<1>6. WaitedOk(q)'
  <2>1. c.stage = "stopOwner" => slot'[c.at].active = None
    BY <1>1, <1>2 DEF CallOk, WaitedOk, SlotsOk, AimOk, SlotKept, SlotOk, Gated, Tearing, Current
  <2>2. c.stage \in {"callback", "privileged", "dropping", "dropped", "reset", "unprotect",
                     "stopOwner", "join", "joining"} => c.entry \in Entry
    BY <1>1, <1>2 DEF CallOk, AimOk, Using, Holding, Gated
  <2> QED
    BY <1>1, <2>1, <2>2 DEF CallOk, WaitedOk, EntryKept, CallbackIn
<1>7. StopOk(q)'
  <2> SUFFICES ASSUME c.stage = "seen" \/ (c.stage \in Tearing /\ c.back = "stopped"), EnoughFences
               PROVE  /\ c.ver <= fence'[c.acct].version
                      /\ \A f \in Entry : slot'[c.acct].current = f =>
                            f = c.entry \/ entry'[f].ver > c.ver \/ entry'[f].private
    BY <1>1 DEF CallOk, StopOk, Current
  <2>1. c.acct \in Account
    BY <1>1 DEF CallOk, AimOk, Aiming, Using
  <2>2. /\ c.ver <= fence[c.acct].version
        /\ \A f \in Entry : Current(c.acct) = f =>
              f = c.entry \/ entry[f].ver > c.ver \/ entry[f].private
    BY <1>1 DEF CallOk, StopOk
  <2>3. c.ver \in Nat /\ fence[c.acct].version \in Nat /\ fence'[c.acct].version \in Nat
        /\ \A f \in Entry : entry[f].ver \in Nat /\ entry'[f].ver \in Nat
    <3>1. Version \cup {0} \subseteq Nat
      BY OwnerAssumption DEF Version
    <3> QED
      BY <1>1, <2>1, <3>1, Fields DEF Types, Fence, RuntimeEntry
  <2>4. fence[c.acct].version <= fence'[c.acct].version
    BY <2>1 DEF Undisturbed, LockKept
  <2>5. ASSUME NEW f \in Entry, slot'[c.acct].current = f
        PROVE  f = c.entry \/ entry'[f].ver > c.ver \/ entry'[f].private
    <3>1. CASE slot[c.acct].current = f
      BY <1>1, <2>1, <2>2, <3>1, CurrentInHand DEF Undisturbed, EntryKept, SameEntry, Current
    <3>2. CASE slot[c.acct].current # f
      <4>1. entry'[f].private \/ entry'[f].ver > fence[c.acct].version
        BY <1>1, <1>2, <2>1, <2>5, <3>2 DEF SlotKept, CurrentKept
      <4> QED
        BY <2>2, <2>3, <4>1
    <3> QED
      BY <3>1, <3>2
  <2>6. c.ver <= fence'[c.acct].version
    BY <2>2, <2>3, <2>4
  <2> QED
    BY <2>5, <2>6
<1> QED
  BY <1>3, <1>4, <1>5, <1>6, <1>7 DEF CallOk

-----------------------------------------------------------------------------
(* Steps that start no entry and forget no closing of a slot.              *)

Calm ==
    /\ \A a \in Account :
          /\ slot'[a].current \in {slot[a].current, None}
          /\ slot'[a].current # None /\ slot[a].closed => slot'[a].closed
          /\ \A e \in Entry : slot[a].current = e /\ slot'[a].current # e => ~Alive(e)'
          /\ fence'[a].version <= fence[a].version
    /\ \A e \in Entry : /\ SameEntry(e)
                        /\ entry'[e].build = "built" <=> entry'[e].owner # "none"
                        /\ Alive(e)' => Alive(e)
    /\ status' = status

\* No one is cut short between a fence and the closing of its slot.
FencingKept ==
    \A q \in Caller : lock = q /\ call[q].stage \in {"seen", "seize"} =>
                          lock' = q /\ call'[q] = call[q]

\* A calm step keeps what is said of entries and current entries.
LEMMA CalmKeeps ==
    ASSUME RegistryInv, Types', Calm
    PROVE  EntryInv' /\ \A a \in Account : CurrentOk(a)'
<1>1. Types /\ None \notin Entry
  BY Names DEF RegistryInv
<1>2. ASSUME NEW e \in Entry
      PROVE  EntryOk(e)'
  <2>1. EntryOk(e) /\ SameEntry(e) /\ (entry'[e].build = "built" <=> entry'[e].owner # "none")
    BY DEF RegistryInv, EntryInv, Calm
  <2>2. ASSUME Alive(e)'
        PROVE  /\ entry'[e].acct \in Account /\ slot'[entry'[e].acct].current = e
               /\ status' # "closed"
    <3>1. Alive(e) /\ entry[e].acct \in Account /\ Current(entry[e].acct) = e /\ status # "closed"
      BY <2>1, <2>2 DEF Calm, EntryOk
    <3> QED
      BY <1>1, <2>1, <2>2, <3>1 DEF Calm, SameEntry, Current
  <2> QED
    BY <2>1, <2>2 DEF EntryOk, Current
<1>3. ASSUME NEW a \in Account
      PROVE  CurrentOk(a)'
  <2>1. CurrentOk(a) /\ Current(a) \in Entry \cup {None}
    BY <1>1, Fields DEF RegistryInv, SlotInv
  <2> QED
    BY <2>1 DEF CurrentOk, Calm, SameEntry, Current
<1> QED
  BY <1>2, <1>3 DEF EntryInv

\* If it also keeps the drains under way, fenced clients go on draining.
LEMMA FencedKeep ==
    ASSUME RegistryInv, Types', Calm, FencingKept
    PROVE  \A a \in Account : FencedOk(a)'
<1> SUFFICES ASSUME NEW a \in Account, slot'[a].current # None,
                    entry'[slot'[a].current].ver <= fence'[a].version
             PROVE  slot'[a].closed \/ Fencing(a)'
  BY DEF FencedOk, Current
<1>1. /\ slot'[a].current = slot[a].current /\ slot[a].current \in Entry
      /\ entry'[slot[a].current].ver = entry[slot[a].current].ver
  BY Fields, Names DEF RegistryInv, Calm, SameEntry, Current
<1>2. /\ fence'[a].version <= fence[a].version /\ fence[a].version \in Nat
      /\ fence'[a].version \in Nat /\ entry[slot[a].current].ver \in Nat
  <2>1. Version \cup {0} \subseteq Nat
    BY OwnerAssumption DEF Version
  <2> QED
    BY <1>1, <2>1, Fields DEF RegistryInv, Calm, Types, Fence
<1>3. entry[slot[a].current].ver <= fence[a].version
  BY <1>1, <1>2
<1>4. slot[a].closed \/ Fencing(a)
  BY <1>1, <1>3 DEF RegistryInv, SlotInv, FencedOk, Current
<1> QED
  BY <1>1, <1>4 DEF Calm, FencingKept, Fencing

\* What a worker has still to tear down stays what it was.
LEMMA TodoKeeps ==
    ASSUME RegistryInv, Types',
           \A w \in Worker : todo'[w] \subseteq todo[w],
           \A e \in Entry : Unused(e) \/ SameEntry(e),
           \A a \in Account : /\ CurrentKept(a)
                              /\ slot'[a].current # None /\ slot'[a].current = slot[a].current
                                     /\ slot[a].closed => slot'[a].closed
    PROVE  TodoOk'
<1> SUFFICES ASSUME NEW w \in Worker, NEW item \in todo'[w], item[2] # None
             PROVE  /\ entry'[item[2]].acct = item[1]
                    /\ slot'[item[1]].current = item[2] => slot'[item[1]].closed
  BY DEF TodoOk, Current
<1>1. item \in todo[w] /\ item[1] \in Account /\ item[2] \in Entry
  BY DEF RegistryInv, Types
<1>2. ~Unused(item[2])
  BY <1>1 DEF Unused
<1>3. /\ entry[item[2]].acct = item[1]
      /\ slot[item[1]].current = item[2] => slot[item[1]].closed
  BY <1>1 DEF RegistryInv, TodoOk, Current
<1> QED
  BY <1>1, <1>2, <1>3 DEF SameEntry, CurrentKept

\* A step of p that writes nothing but its own call, registry.mu and its work.
LEMMA CallStep ==
    ASSUME RegistryInv, ~crashed, NEW p \in Goroutine,
           lock' \in Goroutine \cup {None}, crashed' \in BOOLEAN,
           lock \notin {None, p} => lock' = lock,
           call' \in [Goroutine -> Call],
           \A q \in Goroutine \ {p} : call'[q] = call[q],
           call[p].stage \notin {"seen", "seize"},
           UNCHANGED <<status, table, slot, fence, entry>>,
           todo' \in [Worker -> SUBSET (Account \X (Entry \cup {None}))],
           TodoOk', CallOk(p)'
    PROVE  RegistryInv'
<1>1. Types' /\ TableFits'
  BY DEF RegistryInv, Types, TableFits
<1>2. ASSUME NEW e \in Entry
      PROVE  SameEntry(e) /\ (Alive(e)' <=> Alive(e))
  BY DEF SameEntry, Alive, Client
<1>3. Calm
  <2>1. \A a \in Account : fence'[a].version <= fence[a].version
    BY Fields DEF RegistryInv
  <2> QED
    BY <1>2, <2>1 DEF Calm, RegistryInv, EntryInv, EntryOk
<1>4. FencingKept
  BY Names DEF FencingKept
<1>5. ASSUME NEW q \in Goroutine, q # p
      PROVE  CallOk(q)'
  <2>1. \A a \in Account : SlotKept(q, a)
    BY DEF SlotKept, CurrentKept
  <2>2. \A e \in Entry : EntryKept(q, e)
    BY <1>2 DEF EntryKept
  <2>3. LockKept(q)
    BY <1>5, Names, Fields DEF LockKept, RegistryInv, Current
  <2> QED
    BY <1>1, <1>5, <2>1, <2>2, <2>3, OthersKeep DEF Undisturbed
<1>6. \A a \in Account : SlotOk(a)'
  BY DEF RegistryInv, SlotInv, SlotOk, Busy
<1> QED
  BY <1>1, <1>3, <1>4, <1>5, <1>6, CalmKeeps, FencedKeep DEF RegistryInv, SlotInv, CallInv

-----------------------------------------------------------------------------
(* What an action writes to a slot, and to the call of its goroutine.      *)

\* A slot that is written is the only one, ...
LEMMA SlotPut ==
    ASSUME Types, NEW a \in Account, NEW s \in Slot, slot' = [slot EXCEPT ![a] = s]
    PROVE  /\ slot' \in [Account -> Slot] /\ slot'[a] = s
           /\ \A b \in Account \ {a} : slot'[b] = slot[b]
BY DEF Types

\* ... and closing it leaves its other fields.
LEMMA SlotCloses ==
    ASSUME Types, NEW a \in Account, slot' = [slot EXCEPT ![a].closed = TRUE]
    PROVE  /\ slot' \in [Account -> Slot]
           /\ \A b \in Account \ {a} : slot'[b] = slot[b]
           /\ slot'[a].current = slot[a].current /\ slot'[a].closed
           /\ slot'[a].handles = slot[a].handles /\ slot'[a].waiters = slot[a].waiters
           /\ slot'[a].active = slot[a].active /\ slot'[a].gate = slot[a].gate
           /\ slot'[a].revoking = slot[a].revoking
<1> DEFINE s == [slot[a] EXCEPT !.closed = TRUE]
<1>1. slot[a] \in Slot
  BY DEF Types
<1>2. /\ s \in Slot /\ s.current = slot[a].current /\ s.closed
      /\ s.handles = slot[a].handles /\ s.waiters = slot[a].waiters
      /\ s.active = slot[a].active /\ s.gate = slot[a].gate
      /\ s.revoking = slot[a].revoking
  BY <1>1 DEF Slot
<1>3. slot' = [slot EXCEPT ![a] = s]
  OBVIOUS
<1> HIDE DEF s
<1> QED
  BY <1>2, <1>3, SlotPut


Written(p) ==
    /\ call' \in [Goroutine -> Call]
    /\ \A q \in Goroutine \ {p} : call'[q] = call[q]

\* It has gone on to another stage.
Moved(p, s) ==
    /\ Written(p)
    /\ call'[p].stage = s
    /\ call'[p].acct = call[p].acct /\ call'[p].ver = call[p].ver
    /\ call'[p].at = call[p].at /\ call'[p].back = call[p].back
    /\ call'[p].ok = call[p].ok

\* A call that goes on keeps its entry, ...
LEMMA GotoCall ==
    ASSUME Types, NEW p \in Goroutine, NEW s \in Stage, Goto(p, s)
    PROVE  Moved(p, s) /\ call'[p].entry = call[p].entry
BY DEF Types, Goto, Written, Moved, Call

\* ... or gets another, ...
LEMMA GotoWithCall ==
    ASSUME Types, NEW p \in Goroutine, NEW s \in Stage, NEW e \in Entry \cup {None},
           GotoWith(p, s, e)
    PROVE  Moved(p, s) /\ call'[p].entry = e
<1> DEFINE new == [call[p] EXCEPT !.stage = s, !.entry = e]
<1>1. new \in Call
  BY DEF Types, Call
<1>2. call' = [call EXCEPT ![p] = new]
  BY DEF Types, GotoWith, Call
<1> QED
  BY <1>1, <1>2 DEF Types, Written, Moved, Call

\* ... and one that returns has none.
LEMMA ReturnCall ==
    ASSUME Types, NEW p \in Goroutine, Return(p) \/ ReturnOk(p)
    PROVE  Written(p) /\ call'[p].stage = "idle" /\ call'[p].entry = None /\ call'[p].back = "none"
<1>1. NoCall \in Call /\ [NoCall EXCEPT !.ok = TRUE] \in Call
  BY DEF NoCall, Call, Stage
<1>2. \E c \in Call : c.stage = "idle" /\ c.entry = None /\ c.back = "none" /\ call' = [call EXCEPT ![p] = c]
  BY <1>1 DEF Return, ReturnOk, NoCall
<1> QED
  BY <1>2 DEF Types, Written

\* Between two calls, and where a call starts over, a goroutine knows nothing.
LEMMA RestingOk ==
    ASSUME NEW p \in Goroutine,
           call'[p].stage \in {"idle", "next", "collect", "finish", "reserve", "acquire", "stop"},
           call'[p].stage \in {"reserve", "acquire", "stop"} =>
               call'[p].acct \in Account /\ call'[p].ver \in Version,
           p = Stopper /\ call'[p].stage # "idle" => status' # "open",
           p \in Worker => call'[p].back \notin {"reserve", "acquire", "stopped"}
    PROVE  CallOk(p)'
<1>1. AimOk(p)'
  BY DEF AimOk, Aiming, Revoking, Using, Holding, Tearing, Gated
<1>2. LockOk(p)' /\ SlotsOk(p)' /\ WaitedOk(p)' /\ StopOk(p)'
  BY DEF LockOk, SlotsOk, WaitedOk, StopOk, Locking, Holding, Operating, Revoking, Gated, Tearing
<1> QED
  BY <1>1, <1>2 DEF CallOk

\* What follows a teardown.  Only StopAccount returns without an error, and only
\* when the teardown had none.
LEMMA FinishCall ==
    ASSUME RegistryInv, NEW p \in Goroutine, call[p].stage \in Tearing,
           NEW ok \in BOOLEAN, Finish(p, ok), status' = status
    PROVE  /\ Written(p) /\ CallOk(p)'
           /\ call'[p].stage \in {"idle", "next", "reserve", "acquire"}
           /\ call'[p].ok => call[p].back = "stopped" /\ ok
<1>1. /\ call \in [Goroutine -> Call] /\ call[p] \in Call
      /\ call[p].back \in {"reserve", "acquire"} => call[p].acct \in Account /\ call[p].ver \in Version
      /\ p \in Worker => call[p].back \notin {"reserve", "acquire", "stopped"}
      /\ p = Stopper /\ call[p].stage # "idle" => status # "open"
  BY DEF RegistryInv, Types, CallInv, CallOk, AimOk, LockOk
<1>2. call[p].stage # "idle"
  BY DEF Tearing, Gated
<1> DEFINE back == call[p].back
           new == call'[p]
<1>3. Written(p) /\ call'[p].stage \in {"idle", "next", "reserve", "acquire"}
      /\ (call'[p].ok => back = "stopped" /\ ok)
      /\ (call'[p].stage \in {"reserve", "acquire"} =>
             /\ back \in {"reserve", "acquire"}
             /\ call'[p].acct = call[p].acct /\ call'[p].ver = call[p].ver)
      /\ (p \in Worker => call'[p].back \notin {"reserve", "acquire", "stopped"})
  <2>1. CASE p \in Worker
    <3>1. \E b \in {"none", "prepare", "broken"} :
              call' = [call EXCEPT ![p] = [NoCall EXCEPT !.stage = "next", !.back = b]]
      <4>1. call' = [call EXCEPT ![p] =
                [NoCall EXCEPT !.stage = "next", !.back = IF ok THEN back ELSE "broken"]]
        BY <2>1 DEF Finish
      <4> QED
        BY <1>1, <2>1, <4>1 DEF Call
    <3>2. PICK b \in {"none", "prepare", "broken"} :
              call' = [call EXCEPT ![p] = [NoCall EXCEPT !.stage = "next", !.back = b]]
      BY <3>1
    <3>3. [NoCall EXCEPT !.stage = "next", !.back = b] \in Call
      BY DEF NoCall, Call, Stage
    <3> QED
      BY <1>1, <3>2, <3>3 DEF Written, NoCall
  <2>2. CASE p \notin Worker /\ back = "stopped"
    <3>1. [NoCall EXCEPT !.ok = ok] \in Call
      BY DEF NoCall, Call, Stage
    <3>2. call' = [call EXCEPT ![p] = [NoCall EXCEPT !.ok = ok]]
      BY <2>2 DEF Finish
    <3> QED
      BY <1>1, <2>2, <3>1, <3>2 DEF Written, NoCall
  <2>3. CASE p \notin Worker /\ back \in {"reserve", "acquire"} /\ ok
    <3>1. Restarted(p, back) \in Call
      BY <1>1, <2>3 DEF NoCall, Call, Stage, Restarted
    <3>2. call' = [call EXCEPT ![p] = Restarted(p, back)]
      BY <2>3 DEF Finish
    <3> QED
      BY <1>1, <2>3, <3>1, <3>2 DEF Written, NoCall, Restarted
  <2>4. CASE p \notin Worker /\ back # "stopped" /\ ~(back \in {"reserve", "acquire"} /\ ok)
    <3>1. NoCall \in Call
      BY DEF NoCall, Call, Stage
    <3>2. call' = [call EXCEPT ![p] = NoCall]
      BY <2>4 DEF Finish
    <3> QED
      BY <1>1, <3>1, <3>2 DEF Written, NoCall
  <2> QED
    BY <2>1, <2>2, <2>3, <2>4
<1>4. CallOk(p)'
  BY <1>1, <1>2, <1>3, RestingOk
<1> QED
  BY <1>3, <1>4

\* The same, when it leaves its work as well.
LEMMA CallOnly ==
    ASSUME RegistryInv, ~crashed, NEW p \in Goroutine, Written(p), CallOk(p)',
           lock' \in Goroutine \cup {None}, lock \notin {None, p} => lock' = lock,
           call[p].stage \notin {"seen", "seize"}, crashed' \in BOOLEAN,
           UNCHANGED <<status, table, slot, fence, entry, todo>>
    PROVE  RegistryInv'
<1>1. TodoOk'
  BY DEF RegistryInv, TodoOk, Current
<1> QED
  BY <1>1, CallStep DEF Written, RegistryInv, Types

-----------------------------------------------------------------------------
(* The actions that write no slot, fence or entry.                         *)

\* A call that begins touches no slot, ...
LEMMA InvokeKeeps ==
    ASSUME RegistryInv, ~crashed, NEW p \in Caller, Invoke(p)
    PROVE  RegistryInv'
<1>1. p \in Goroutine /\ p # Stopper /\ Types
  BY Names DEF RegistryInv
<1>2. PICK a \in Account, v \in Version, stage \in {"reserve", "acquire", "stop"} :
          call' = [call EXCEPT ![p] = [NoCall EXCEPT !.stage = stage, !.acct = a, !.ver = v]]
  BY DEF Invoke
<1>3. [NoCall EXCEPT !.stage = stage, !.acct = a, !.ver = v] \in Call
  BY DEF NoCall, Call, Stage
<1>4. Written(p) /\ call'[p].stage = stage /\ call'[p].acct = a /\ call'[p].ver = v
  BY <1>1, <1>2, <1>3 DEF Written, NoCall, Types
<1>5. CallOk(p)'
  BY <1>1, <1>4, RestingOk, Names
<1> QED
  BY <1>1, <1>4, <1>5, CallOnly DEF Invoke, In, registry, fences, Types

\* Return of a caller or the reaper, with no lock held after it.
LEMMA ReturnKeeps ==
    ASSUME RegistryInv, ~crashed, NEW p \in Goroutine, Return(p) \/ ReturnOk(p),
           call[p].stage \notin {"seen", "seize"},
           lock' \in {lock, None}, lock \notin {None, p} => lock' = lock,
           UNCHANGED <<status, table, slot, fence, entry, todo, crashed>>
    PROVE  RegistryInv'
<1>1. Written(p) /\ call'[p].stage = "idle" /\ call'[p].back = "none"
  BY ReturnCall DEF RegistryInv
<1>2. CallOk(p)'
  BY <1>1, RestingOk, Names
<1> QED
  BY <1>1, <1>2, CallOnly DEF RegistryInv, Types

\* ... nor does one that is refused, ...
LEMMA RefusedKeeps ==
    ASSUME RegistryInv, ~crashed, NEW p \in Caller, Refused(p) \/ ReserveRefused(p)
    PROVE  RegistryInv'
<1>1. p \in Goroutine
  BY Names
<1>2. CASE Refused(p)
  BY <1>1, <1>2, ReturnKeeps DEF Refused, registry, fences, others
<1>3. CASE ReserveRefused(p)
  <2>1. lock = p
    BY <1>1, <1>3 DEF ReserveRefused, Decide, In, RegistryInv, CallInv, CallOk, LockOk, Locking
  <2> QED
    BY <1>1, <1>3, <2>1, ReturnKeeps DEF ReserveRefused, Decide, In, fences, others
<1> QED
  BY <1>2, <1>3

\* A slot that idles is taken, and its entry read.
LEMMA EvictKeeps ==
    ASSUME RegistryInv, ~crashed,
           \/ \E p \in Caller : TakeIdle(p)
           \/ \E p \in Goroutine : EvictRead(p)
           \/ ReapScan
    PROVE  RegistryInv'
<1>1. Types /\ Reaper \in Goroutine /\ Caller \subseteq Goroutine
  BY Names DEF RegistryInv
<1>2. ASSUME NEW p \in Caller, TakeIdle(p)
      PROVE  RegistryInv'
  <2>1. PICK b \in Account :
            call' = [call EXCEPT ![p].stage = "evict", ![p].at = b, ![p].back = call[p].stage]
    BY <1>2 DEF TakeIdle, Idling, Live, RegistryInv, Types
  <2>2. /\ call[p].stage \in {"reserve", "acquire"}
        /\ call[p].acct \in Account /\ call[p].ver \in Version
        /\ call[p] \in Call
    BY <1>1, <1>2 DEF TakeIdle, RegistryInv, CallInv, CallOk, AimOk, Aiming, Types
  <2> DEFINE new == [call[p] EXCEPT !.stage = "evict", !.at = b, !.back = call[p].stage]
  <2>3. new \in Call /\ call' = [call EXCEPT ![p] = new]
    <3>1. "evict" \in Stage /\ call[p].stage \in {"reserve", "acquire"}
      BY <2>2 DEF Stage
    <3>2. new \in Call
      BY <2>2, <3>1 DEF Call
    <3>3. call' = [call EXCEPT ![p] = new]
      BY <2>1
    <3> QED
      BY <3>2, <3>3
  <2>4. Written(p) /\ call'[p] = new
    BY <1>1, <2>3 DEF Written, Types
  <2>5. lock = None /\ lock' = p
    BY <1>2 DEF TakeIdle
  <2>6. CallOk(p)'
    <3>1. /\ new.stage = "evict" /\ new.at = b /\ new.acct = call[p].acct
          /\ new.ver = call[p].ver /\ new.back = call[p].stage
      BY <2>2 DEF Call, Stage
    <3>2. AimOk(p)'
      BY Names, <2>2, <2>4, <3>1 DEF AimOk, Aiming, Revoking, Using, Holding, Tearing, Gated
    <3>3. p # Stopper
      BY Names
    <3>4. LockOk(p)' /\ SlotsOk(p)' /\ WaitedOk(p)' /\ StopOk(p)'
      BY <2>4, <2>5, <3>1, <3>3 DEF LockOk, SlotsOk, WaitedOk, StopOk, Locking, Holding,
            Operating, Revoking, Gated, Tearing
    <3> QED
      BY <3>2, <3>4 DEF CallOk
  <2> QED
    BY <1>1, <1>2, <2>2, <2>4, <2>5, <2>6, CallOnly DEF TakeIdle, fences, others, Types
<1>3. ASSUME NEW p \in Goroutine, EvictRead(p)
      PROVE  RegistryInv'
  <2>1. /\ call[p].stage = "evict" /\ call[p] \in Call
        /\ call[p].at \in Account /\ lock = p
        /\ call[p].back \in {"reserve", "acquire", "stopped"} =>
              call[p].acct \in Account /\ call[p].ver \in Version
        /\ p \in Worker => call[p].back \notin {"reserve", "acquire", "stopped"}
        /\ call[p].back # "stopped"
        /\ p = Stopper => status # "open"
    BY <1>1, <1>3 DEF EvictRead, In, RegistryInv, CallInv, CallOk, AimOk, LockOk, Locking, Types
  <2>2. Current(call[p].at) \in Entry \cup {None} /\ CurrentOk(call[p].at)
    BY <1>1, <2>1, Fields DEF RegistryInv, SlotInv
  <2>3. Moved(p, "evictClose") /\ call'[p].entry = Current(call[p].at)
    <3>1. GotoWith(p, "evictClose", Current(call[p].at)) /\ "evictClose" \in Stage
      BY <1>3 DEF EvictRead, Current, Stage
    <3> QED
      BY <1>1, <2>2, <3>1, GotoWithCall
  <2>4. /\ Written(p)
        /\ call'[p].stage = "evictClose" /\ call'[p].entry = Current(call[p].at)
        /\ call'[p].at = call[p].at /\ call'[p].back = call[p].back
        /\ call'[p].acct = call[p].acct /\ call'[p].ver = call[p].ver
    BY <2>3 DEF Moved
  <2>5. UNCHANGED <<lock, status, table, slot, fence, entry, todo, crashed>>
    BY <1>3 DEF EvictRead, registry, fences, others
  <2>6. AimOk(p)'
    BY <2>1, <2>2, <2>4, <2>5 DEF AimOk, Aiming, Revoking, Using, Holding, Tearing, Gated, CurrentOk
  <2>7. LockOk(p)' /\ SlotsOk(p)' /\ WaitedOk(p)' /\ StopOk(p)'
    BY <2>1, <2>4, <2>5 DEF LockOk, SlotsOk, WaitedOk, StopOk, Locking, Holding,
          Operating, Revoking, Gated, Tearing
  <2> QED
    BY <1>1, <2>1, <2>4, <2>5, <2>6, <2>7, CallOnly DEF CallOk, Types
<1>4. ASSUME ReapScan
      PROVE  RegistryInv'
  <2>1. PICK b \in Account : call' = [call EXCEPT ![Reaper].stage = "evict", ![Reaper].at = b]
    BY <1>4 DEF ReapScan, Idling, Live, RegistryInv, Types
  <2>2. /\ call[Reaper].stage \in {"idle", "reap"} /\ call[Reaper] \in Call
        /\ lock \in {None, Reaper} /\ lock' = Reaper
    BY <1>1, <1>4 DEF ReapScan, In, RegistryInv, CallInv, CallOk, LockOk, Locking, Types
  <2> DEFINE new == [call[Reaper] EXCEPT !.stage = "evict", !.at = b]
  <2>3. new \in Call /\ call' = [call EXCEPT ![Reaper] = new]
    <3>1. "evict" \in Stage
      BY DEF Stage
    <3>2. new \in Call
      BY <2>2, <3>1 DEF Call
    <3>3. call' = [call EXCEPT ![Reaper] = new]
      BY <2>1
    <3> QED
      BY <3>2, <3>3
  <2>4. Written(Reaper) /\ call'[Reaper] = new
    BY <1>1, <2>3 DEF Written, Types
  <2>5. CallOk(Reaper)'
    <3>0. call[Reaper].back \notin {"reserve", "acquire", "stopped"}
      BY <1>1, Names DEF RegistryInv, CallInv, CallOk, AimOk
    <3>1. new.stage = "evict" /\ new.at = b /\ new.back = call[Reaper].back
      BY <2>2 DEF Call
    <3>2. AimOk(Reaper)'
      BY <2>4, <3>0, <3>1 DEF AimOk, Aiming, Revoking, Using, Holding, Tearing, Gated
    <3>3. Reaper # Stopper
      BY Names
    <3>4. LockOk(Reaper)' /\ SlotsOk(Reaper)' /\ WaitedOk(Reaper)' /\ StopOk(Reaper)'
      BY <2>2, <2>4, <3>1, <3>3 DEF LockOk, SlotsOk, WaitedOk, StopOk, Locking, Holding,
            Operating, Revoking, Gated, Tearing
    <3> QED
      BY <3>2, <3>4 DEF CallOk
  <2> QED
    BY <1>1, <1>4, <2>2, <2>4, <2>5, CallOnly DEF ReapScan, fences, others, Types
<1> QED
  BY <1>2, <1>3, <1>4

USE DEF Aiming, Using, Holding, Operating, Revoking, Gated, Tearing, Locking

\* A goroutine goes on to another stage and writes nothing else: what it has to
\* know there follows from what it knew and from the guard.
LEMMA GotoKeeps ==
    ASSUME RegistryInv, ~crashed, NEW p \in Goroutine, NEW s \in Stage, Goto(p, s),
           call[p].stage \notin {"seen", "seize"},
           UNCHANGED <<lock, status, table, slot, fence, entry, todo, crashed>>,
           CallOk(p)'
    PROVE  RegistryInv'
<1>1. Written(p)
  BY GotoCall DEF Moved, RegistryInv
<1> QED
  BY <1>1, CallOnly DEF RegistryInv, Types

\* The request is dispatched, and the callback returns.
LEMMA OperationKeeps ==
    ASSUME RegistryInv, ~crashed, NEW p \in Caller,
           \/ Dispatch(p)
           \/ CallbackEnds(p)
           \/ In(p, "opened") /\ Goto(p, "closing") /\ UNCHANGED <<registry, slot, entry, others>>
           \/ In(p, "queued") /\ Goto(p, "ending") /\ UNCHANGED <<registry, slot, entry, others>>
    PROVE  RegistryInv'
<1>1. /\ p \in Goroutine /\ p # Stopper /\ p \notin Worker /\ Types
      /\ {"callback", "ending", "closing"} \subseteq Stage /\ CallOk(p)
  BY Names DEF RegistryInv, CallInv, Stage
<1>2. UNCHANGED <<lock, status, table, slot, fence, entry, todo, crashed>>
  BY DEF Dispatch, CallbackEnds, registry, fences, others
<1>3. PICK s \in {"callback", "ending", "closing"} :
        /\ Goto(p, s)
        /\ s = "callback" => call[p].stage = "queued" /\ entry[call[p].entry].owner = "running"
        /\ s = "ending" => call[p].stage \in {"queued", "callback"}
        /\ s = "closing" => call[p].stage = "opened"
  BY DEF Dispatch, CallbackEnds, In
<1>4. Moved(p, s) /\ call'[p].entry = call[p].entry
  BY <1>1, <1>3, GotoCall
<1>5. AimOk(p)' /\ LockOk(p)'
  BY <1>1, <1>2, <1>3, <1>4 DEF CallOk, AimOk, LockOk, Moved
<1>6. SlotsOk(p)'
  BY <1>1, <1>2, <1>3, <1>4 DEF CallOk, SlotsOk, Moved
<1>7. WaitedOk(p)' /\ StopOk(p)'
  BY <1>1, <1>2, <1>3, <1>4 DEF CallOk, WaitedOk, StopOk, Moved
<1> QED
  BY <1>1, <1>2, <1>3, <1>5, <1>6, <1>7, GotoKeeps DEF CallOk

\* ... one that waits for a revoke of the account, ...
LEMMA WaitRevokeKeeps ==
    ASSUME RegistryInv, ~crashed, NEW p \in Goroutine, WaitRevoke(p)
    PROVE  RegistryInv'
<1>1. /\ Types /\ "gate" \in Stage /\ CallOk(p)
      /\ call[p].stage = "wait" /\ Goto(p, "gate")
      /\ UNCHANGED <<lock, status, table, slot, fence, entry, todo, crashed>>
  BY DEF RegistryInv, CallInv, Stage, WaitRevoke, In, registry, fences, others
<1>2. Moved(p, "gate") /\ call'[p].entry = call[p].entry
  BY <1>1, GotoCall
<1>3. AimOk(p)' /\ LockOk(p)'
  BY <1>1, <1>2 DEF CallOk, AimOk, LockOk, Moved
<1>4. SlotsOk(p)' /\ WaitedOk(p)' /\ StopOk(p)'
  BY <1>1, <1>2 DEF CallOk, SlotsOk, WaitedOk, StopOk, Moved, Current
<1> QED
  BY <1>1, <1>3, <1>4, GotoKeeps DEF CallOk

\* A failed build and an expired one exclude each other, and a failed one leaves
\* nothing that is alive.
LEMMA BuildEnds ==
    ASSUME RegistryInv, NEW e \in Entry, BuildFailed(e)
    PROVE  ~BuildExpired(e) /\ ~Alive(e)
BY DEF RegistryInv, EntryInv, EntryOk, BuildFailed, BuildExpired, Alive, Client

\* A goroutine goes on in its teardown, with the result so far.
LEMMA TeardownCall ==
    ASSUME RegistryInv, ~crashed, NEW p \in Goroutine, NEW s \in {"reset", "stopOwner"},
           NEW ok \in BOOLEAN, call[p].stage \in {"drain", "join"},
           call' = [call EXCEPT ![p].stage = s, ![p].ok = ok],
           s = "reset" => ~Alive(call[p].entry),
           s = "stopOwner" => /\ entry[call[p].entry].build # "building"
                              /\ slot[call[p].at].active = None,
           UNCHANGED <<registry, slot, entry, others>>
    PROVE  RegistryInv'
<1> DEFINE new == [call[p] EXCEPT !.stage = s, !.ok = ok]
<1>1. Types /\ CallOk(p) /\ call[p] \in Call
  BY DEF RegistryInv, CallInv, Types
<1>2. new \in Call /\ call' = [call EXCEPT ![p] = new]
  <2>1. s \in Stage
    BY DEF Stage
  <2>2. new \in Call
    BY <1>1, <2>1 DEF Call
  <2> QED
    BY <2>2
<1>3. /\ Written(p) /\ call'[p].stage = s
      /\ call'[p].acct = call[p].acct /\ call'[p].ver = call[p].ver
      /\ call'[p].at = call[p].at /\ call'[p].back = call[p].back
      /\ call'[p].entry = call[p].entry
  BY <1>1, <1>2 DEF Types, Written, Call
<1>4. UNCHANGED <<lock, status, table, slot, fence, entry, todo, crashed>>
  BY DEF registry, fences, others
<1>5. AimOk(p)' /\ LockOk(p)'
  BY <1>1, <1>3, <1>4 DEF CallOk, AimOk, LockOk
<1>6. SlotsOk(p)'
  BY <1>1, <1>3, <1>4 DEF CallOk, SlotsOk, Current
<1>7. WaitedOk(p)'
  BY <1>1, <1>3, <1>4 DEF CallOk, WaitedOk, Alive, Client
<1>8. StopOk(p)'
  BY <1>1, <1>3, <1>4 DEF CallOk, StopOk, Current
<1> QED
  BY <1>1, <1>3, <1>4, <1>5, <1>6, <1>7, <1>8, CallOnly DEF CallOk, Types

\* A step of a teardown that ends it and frees the gate, or not.
LEMMA FinishKeeps ==
    ASSUME RegistryInv, ~crashed, NEW p \in Goroutine, call[p].stage \in Tearing,
           NEW ok \in BOOLEAN, Finish(p, ok), UNCHANGED <<registry, slot, entry, others>>
    PROVE  RegistryInv'
<1>1. UNCHANGED <<lock, status, table, slot, fence, entry, todo, crashed>>
  BY DEF registry, fences, others
<1> QED
  BY <1>1, FinishCall, CallOnly DEF RegistryInv, Types

\* The privileged callback of a revoke begins and ends, and its client is joined.
LEMMA RevokeMoves ==
    ASSUME RegistryInv, ~crashed, NEW p \in Caller, Privilege(p) \/ PrivilegeEnds(p) \/ RevokeJoins(p)
    PROVE  RegistryInv'
<1>1. /\ p \in Goroutine /\ p # Stopper /\ p \notin Worker /\ Types
      /\ {"privileged", "cleanup", "dropping", "release"} \subseteq Stage /\ CallOk(p)
  BY Names DEF RegistryInv, CallInv, Stage
<1>2. UNCHANGED <<lock, status, table, slot, fence, entry, todo, crashed>>
  BY DEF Privilege, PrivilegeEnds, RevokeJoins, registry, fences, others
<1>3. PICK s \in {"privileged", "cleanup", "dropping", "release"} :
        /\ Goto(p, s)
        /\ s = "privileged" => /\ call[p].stage = "revoking" /\ entry[call[p].entry].owner = "running"
                               /\ slot[call[p].acct].active = None
        /\ s = "cleanup" => call[p].stage \in {"revoking", "privileged"}
        /\ s = "dropping" => /\ call[p].stage = "joining" /\ call[p].ok
                             /\ entry[call[p].entry].owner \in Done \cup {"none"}
        /\ s = "release" => call[p].stage = "joining"
  BY DEF Privilege, PrivilegeEnds, RevokeJoins, In
<1>4. Moved(p, s) /\ call'[p].entry = call[p].entry
  BY <1>1, <1>3, GotoCall
<1>5. AimOk(p)' /\ LockOk(p)'
  BY <1>1, <1>2, <1>3, <1>4 DEF CallOk, AimOk, LockOk, Moved
<1>6. SlotsOk(p)'
  BY <1>1, <1>2, <1>3, <1>4 DEF CallOk, SlotsOk, Moved
<1>7. WaitedOk(p)'
  BY <1>1, <1>2, <1>3, <1>4 DEF CallOk, WaitedOk, Moved, Alive, Client, Done
<1>8. StopOk(p)'
  BY <1>1, <1>2, <1>3, <1>4 DEF CallOk, StopOk, Moved
<1>9. call[p].stage \notin {"seen", "seize"}
  BY DEF Privilege, PrivilegeEnds, RevokeJoins, In
<1> QED
  BY <1>1, <1>2, <1>3, <1>5, <1>6, <1>7, <1>8, <1>9, GotoKeeps DEF CallOk

\* The workers: a scan that is over and a round of teardowns that is over, ...
LEMMA AllTornDownKeeps ==
    ASSUME RegistryInv, ~crashed, NEW w \in Worker, AllTornDown(w) \/ (w = Reaper /\ ReapScanned)
    PROVE  RegistryInv'
<1>1. /\ w \in Goroutine /\ Types /\ CallOk(w)
      /\ UNCHANGED <<status, table, slot, fence, entry, todo, crashed>>
  BY Names DEF RegistryInv, CallInv, AllTornDown, ReapScanned, registry, fences, others
<1>2. CASE AllTornDown(w) /\ w = Reaper
  <2>1. Return(w) /\ lock' = lock /\ call[w].stage = "next"
    BY <1>2 DEF AllTornDown, In, registry
  <2> QED
    BY <1>1, <2>1, ReturnKeeps
<1>3. CASE AllTornDown(w) /\ w # Reaper
  <2>1. PICK s \in {"finish", "collect"} : Goto(w, s)
    BY <1>3 DEF AllTornDown
  <2>2. lock' = lock /\ call[w].stage = "next" /\ s \in Stage
    BY <1>3, <2>1 DEF AllTornDown, In, registry, Stage
  <2>3. Moved(w, s)
    BY <1>1, <2>1, <2>2, GotoCall
  <2>4. CallOk(w)'
    BY <1>1, <2>2, <2>3, RestingOk DEF Moved, CallOk, AimOk, LockOk
  <2> QED
    BY <1>1, <2>1, <2>2, <2>4, GotoKeeps
<1>4. CASE w = Reaper /\ ReapScanned
  <2>1. /\ call[w].stage = "reap" /\ lock' = None /\ Goto(w, "next") /\ lock = w
        /\ "next" \in Stage
    BY <1>1, <1>4 DEF ReapScanned, In, CallOk, LockOk, Stage
  <2>2. Moved(w, "next")
    BY <1>1, <2>1, GotoCall
  <2>3. CallOk(w)'
    BY <1>1, <1>4, <2>1, <2>2, RestingOk, Names DEF Moved, CallOk, AimOk
  <2> QED
    BY <1>1, <2>1, <2>2, <2>3, CallOnly DEF Moved, Types
<1> QED
  BY <1>2, <1>3, <1>4

\* ... a teardown of the next of them, ...
LEMMA NextTeardownKeeps ==
    ASSUME RegistryInv, ~crashed, NEW w \in Worker, NextTeardown(w)
    PROVE  RegistryInv'
<1>1. /\ w \in Goroutine /\ Types /\ CallOk(w) /\ call[w] \in Call /\ call[w].stage = "next"
      /\ UNCHANGED <<lock, status, table, slot, fence, entry, crashed>>
  BY Names DEF RegistryInv, CallInv, NextTeardown, In, registry, fences, Types
<1>2. PICK item \in todo[w] :
        /\ call' = [call EXCEPT ![w].stage = "wait", ![w].at = item[1], ![w].entry = item[2]]
        /\ todo' = [todo EXCEPT ![w] = @ \ {item}]
  BY DEF NextTeardown
<1>3. /\ item[1] \in Account /\ item[2] \in Entry \cup {None}
      /\ item[2] # None => entry[item[2]].acct = item[1]
      /\ item[2] # None /\ Current(item[1]) = item[2] => slot[item[1]].closed
  BY <1>1 DEF Types, RegistryInv, TodoOk
<1>4. /\ todo' \in [Worker -> SUBSET (Account \X (Entry \cup {None}))]
      /\ \A v \in Worker : todo'[v] \subseteq todo[v]
  BY <1>1, <1>2 DEF Types
<1>5. TodoOk'
  BY <1>1, <1>4 DEF RegistryInv, TodoOk, Current
<1> DEFINE new == [call[w] EXCEPT !.stage = "wait", !.at = item[1], !.entry = item[2]]
<1>6. new \in Call /\ call' = [call EXCEPT ![w] = new]
  BY <1>1, <1>2, <1>3 DEF Types, Call, Stage
<1>7. /\ Written(w) /\ call'[w].stage = "wait" /\ call'[w].at = item[1]
      /\ call'[w].entry = item[2] /\ call'[w].back = call[w].back
  BY <1>1, <1>6 DEF Types, Written, Call
<1>8. AimOk(w)' /\ LockOk(w)'
  BY <1>1, <1>3, <1>7 DEF CallOk, AimOk, LockOk
<1>9. SlotsOk(w)' /\ WaitedOk(w)' /\ StopOk(w)'
  BY <1>1, <1>3, <1>7 DEF CallOk, AimOk, SlotsOk, WaitedOk, StopOk, Current
<1> QED
  BY <1>1, <1>4, <1>5, <1>7, <1>8, <1>9, CallStep DEF CallOk, Written, Types

\* ... or the shutdown that collects the entries.
LEMMA StopCollectsKeeps ==
    ASSUME RegistryInv, ~crashed, StopCollects
    PROVE  RegistryInv'
<1> DEFINE left == {<<a, slot[a].current>> : a \in {b \in table : slot[b].current # None}}
<1>1. /\ Stopper \in Goroutine /\ Stopper \in Worker /\ Types /\ CallOk(Stopper)
      /\ call[Stopper].stage = "collect"
      /\ UNCHANGED <<lock, status, table, slot, fence, entry, crashed>>
      /\ todo' = [todo EXCEPT ![Stopper] = left]
  BY Names DEF RegistryInv, CallInv, StopCollects, In, registry, fences
<1>2. PICK s \in {"finish", "next"} : Goto(Stopper, s)
  BY DEF StopCollects
<1>3. status # "open"
  BY <1>1 DEF CallOk, LockOk
<1>4. \A a \in table : a \in Account /\ slot[a].current \in Entry \cup {None}
  BY <1>1, Fields DEF Types, Current
<1>5. todo' \in [Worker -> SUBSET (Account \X (Entry \cup {None}))]
  <2>1. left \subseteq Account \X (Entry \cup {None})
    BY <1>4
  <2> QED
    BY <1>1, <2>1 DEF Types
<1>6. TodoOk'
  <2> SUFFICES ASSUME NEW w \in Worker, NEW item \in todo'[w]
               PROVE  /\ item[2] # None => entry[item[2]].acct = item[1]
                      /\ item[2] # None /\ Current(item[1]) = item[2] => slot[item[1]].closed
    BY <1>1 DEF TodoOk, Current
  <2>1. CASE item \in todo[w]
    BY <2>1 DEF RegistryInv, TodoOk
  <2>2. CASE item \notin todo[w]
    <3>1. item \in left
      BY <1>1, <2>2 DEF Types
    <3>2. PICK a \in table : item = <<a, slot[a].current>> /\ slot[a].current # None
      BY <3>1
    <3>3. CurrentOk(a)
      BY <1>4 DEF RegistryInv, SlotInv
    <3> QED
      BY <1>3, <3>2, <3>3 DEF CurrentOk, Current
  <2> QED
    BY <2>1, <2>2
<1>7. Moved(Stopper, s)
  BY <1>1, <1>2, GotoCall DEF Stage
<1>8. CallOk(Stopper)'
  BY <1>1, <1>3, <1>7, RestingOk DEF Moved, CallOk, AimOk
<1> QED
  BY <1>1, <1>5, <1>6, <1>7, <1>8, CallStep DEF Moved, Written, Types

-----------------------------------------------------------------------------
(* Steps that change one slot, but start no entry.                         *)

\* The slot a changes as SlotKept says of anyone but p, entries and fences are calm.
OneSlot(p, a) ==
    /\ slot' \in [Account -> Slot]
    /\ \A b \in Account \ {a} : slot'[b] = slot[b]
    /\ slot'[a].current \in {slot[a].current, None}
    /\ slot'[a].current # None /\ slot[a].closed => slot'[a].closed
    /\ \A q \in Goroutine \ {p} :
          a \in table =>
             /\ q \in slot[a].handles => q \in slot'[a].handles
             /\ q \in slot[a].waiters => q \in slot'[a].waiters
             /\ slot[a].active = q => slot'[a].active = q
             /\ slot[a].gate = q =>
                   /\ slot'[a].gate = q
                   /\ slot[a].revoking => slot'[a].revoking
                   /\ slot[a].closed => slot'[a].closed
                   /\ slot[a].closed /\ ~slot[a].revoking => slot'[a].current = slot[a].current
    /\ \A q \in Goroutine \ {p} :
             slot'[a].gate = q => slot[a].gate = q /\ (slot[a].revoking \/ ~slot'[a].revoking)
    /\ a \in table /\ slot[a].closed /\ slot[a].active = None => slot'[a].active = None

\* A slot that is made has nobody to keep anything for.
LEMMA OneSlotFresh ==
    ASSUME NEW p \in Goroutine, NEW a \in Account, slot' \in [Account -> Slot],
           \A b \in Account \ {a} : slot'[b] = slot[b],
           a \notin table, slot'[a].current = None, slot'[a].gate = None
    PROVE  OneSlot(p, a)
BY Names DEF OneSlot

\* A step under the mutex of one slot, which may close its current entry
\* or leave the slot without one.
LEMMA OneSlotStep ==
    ASSUME RegistryInv, ~crashed, NEW p \in Goroutine, NEW a \in Account, OneSlot(p, a),
           Written(p), CallOk(p)', SlotOk(a)',
           \A e \in Entry : slot[a].current = e /\ slot'[a].current # e => ~Alive(e),
           lock' \in Goroutine \cup {None}, lock \notin {None, p} => lock' = lock,
           call[p].stage \in {"seen", "seize"} =>
               call[p].acct = a /\ (slot'[a].current = None \/ slot'[a].closed),
           \/ UNCHANGED table
           \/ /\ lock \in {None, p}
              /\ \/ table' = table \ {a}
                 \/ table' = table \cup {a} /\ Cardinality(table) < Capacity,
           \/ UNCHANGED fence
           \/ /\ lock \in {None, p} /\ fence' \in [Account -> Fence]
              /\ \A b \in Account : fence'[b].version = fence[b].version,
           \/ UNCHANGED todo
           \/ TodoOk' /\ todo' \in [Worker -> SUBSET (Account \X (Entry \cup {None}))],
           UNCHANGED <<status, entry>>, crashed' \in BOOLEAN
    PROVE  RegistryInv'
<1>1. Types /\ Types' /\ None \notin Entry /\ None \notin Goroutine
      /\ \A b \in Account : fence'[b].version = fence[b].version
  BY Names DEF RegistryInv, Types, OneSlot, Written
<1>2. TableFits'
  <2>0. IsFiniteSet(table) /\ Cardinality(table) <= Capacity
    BY DEF RegistryInv, TableFits
  <2>1. CASE UNCHANGED table
    BY <2>0, <2>1 DEF TableFits
  <2>2. CASE table' = table \ {a}
    <3>1. IsFiniteSet(table') /\ Cardinality(table') <= Cardinality(table)
          /\ Cardinality(table) \in Nat /\ Cardinality(table') \in Nat
      BY <2>2, <2>0, FS_Subset, FS_CardinalityType
    <3> QED
      BY <2>0, <3>1, OwnerAssumption DEF TableFits
  <2>3. CASE table' = table \cup {a} /\ Cardinality(table) < Capacity
    <3>1. IsFiniteSet(table') /\ Cardinality(table) \in Nat
          /\ Cardinality(table') \in {Cardinality(table), Cardinality(table) + 1}
      BY <2>3, <2>0, FS_AddElement, FS_CardinalityType
    <3> QED
      BY <2>3, <3>1, OwnerAssumption DEF TableFits
  <2> QED
    BY <2>1, <2>2, <2>3
<1>3. ASSUME NEW e \in Entry
      PROVE  SameEntry(e) /\ (Alive(e)' <=> Alive(e))
  BY DEF SameEntry, Alive, Client
<1>4. Calm
  <2>1. \A b \in Account : fence'[b].version <= fence[b].version
    BY <1>1, Fields
  <2>2. \A b \in Account :
          /\ slot'[b].current \in {slot[b].current, None}
          /\ slot'[b].current # None /\ slot[b].closed => slot'[b].closed
          /\ \A e \in Entry : slot[b].current = e /\ slot'[b].current # e => ~Alive(e)'
    BY <1>3 DEF OneSlot
  <2> QED
    BY <1>3, <2>1, <2>2 DEF Calm, RegistryInv, EntryInv, EntryOk
<1>5. \A b \in Account : FencedOk(b)'
  <2>1. CASE call[p].stage \notin {"seen", "seize"}
    <3>1. FencingKept
      BY <1>1, <2>1, Names DEF FencingKept, Written
    <3> QED
      BY <1>1, <1>4, <3>1, FencedKeep
  <2>2. CASE call[p].stage \in {"seen", "seize"}
    <3>1. lock = p
      BY <2>2 DEF RegistryInv, CallInv, CallOk, LockOk
    <3> SUFFICES ASSUME NEW b \in Account, b # a
                 PROVE  FencedOk(b)'
      BY <2>2 DEF FencedOk, Current
    <3>2. ~Fencing(b)
      BY <2>2, <3>1 DEF Fencing
    <3> QED
      BY <1>1, <3>2 DEF RegistryInv, SlotInv, FencedOk, OneSlot, Current
  <2> QED
    BY <2>1, <2>2
<1>6. ASSUME NEW q \in Goroutine, q # p
      PROVE  CallOk(q)'
  <2>1. ASSUME NEW b \in Account
        PROVE  SlotKept(q, b)
    <3>1. CASE b = a
      BY <1>6, <3>1 DEF OneSlot, SlotKept, CurrentKept
    <3>2. CASE b # a
      BY <3>2 DEF OneSlot, SlotKept, CurrentKept
    <3> QED
      BY <3>1, <3>2
  <2>2. \A e \in Entry : EntryKept(q, e)
    BY <1>3 DEF EntryKept
  <2>3. LockKept(q)
    <3>1. lock = q => lock' = q /\ table' = table /\ fence' = fence
      BY <1>1, <1>6
    <3>2. \A b \in Account : Current(b) = None => slot'[b].current = None
      BY DEF OneSlot, Current
    <3>3. \A b \in Account : fence[b].version <= fence'[b].version
      BY <1>1, Fields
    <3> QED
      BY <3>1, <3>2, <3>3 DEF LockKept
  <2> QED
    BY <1>1, <1>6, <2>1, <2>2, <2>3, OthersKeep DEF Undisturbed, Written
<1>7. \A b \in Account : SlotOk(b)'
  <2> SUFFICES ASSUME NEW b \in Account, b # a
               PROVE  SlotOk(b)'
    OBVIOUS
  <2> QED
    BY DEF RegistryInv, SlotInv, SlotOk, Busy, OneSlot
<1>8. TodoOk'
  <2>1. \A b \in Account : CurrentKept(b)
    BY DEF OneSlot, CurrentKept
  <2> QED
    BY <1>1, <1>3, <2>1, TodoKeeps DEF OneSlot
<1> QED
  BY <1>1, <1>2, <1>4, <1>5, <1>6, <1>7, <1>8, CalmKeeps DEF RegistryInv, SlotInv, CallInv

\* A handle on the entry of the slot.
LEMMA ReserveSharedKeeps ==
    ASSUME RegistryInv, ~crashed, NEW p \in Caller, ReserveShared(p)
    PROVE  RegistryInv'
<1>0. /\ Types /\ CallOk(p) /\ call[p].stage = "decide"
  BY Names DEF RegistryInv, CallInv, ReserveShared, Decide, In
<1>3. PICK a \in Account : a = call[p].acct /\ a \in table /\ lock = p
  BY <1>0 DEF CallOk, AimOk, LockOk
<1>1. /\ p \in Goroutine /\ p # Stopper /\ p \notin Worker /\ "opened" \in Stage
      /\ call[p].entry # None /\ Goto(p, "opened")
      /\ slot' = [slot EXCEPT ![a].handles = @ \cup {p}] /\ lock' = None
      /\ UNCHANGED <<status, table, fence, entry, todo, crashed>>
  BY <1>0, <1>3, Names DEF Stage, ReserveShared, Decide, In, fences, others
<1>2. Moved(p, "opened") /\ call'[p].entry = call[p].entry
  BY <1>0, <1>1, GotoCall
<1> DEFINE new == [slot[a] EXCEPT !.handles = @ \cup {p}]
<1>4. /\ slot' \in [Account -> Slot] /\ slot'[a] = new
      /\ \A b \in Account \ {a} : slot'[b] = slot[b]
  <2>1. slot[a].handles \cup {p} \subseteq Caller /\ slot[a] \in Slot
    BY <1>0, <1>3 DEF Types, Slot
  <2>2. new \in Slot
    BY <2>1 DEF Slot
  <2>3. slot' = [slot EXCEPT ![a] = new]
    BY <1>1, <1>3
  <2> QED
    BY <1>0, <2>2, <2>3 DEF Types
<1>5. /\ slot'[a].current = slot[a].current /\ slot'[a].closed = slot[a].closed
      /\ slot'[a].handles = slot[a].handles \cup {p} /\ slot'[a].waiters = slot[a].waiters
      /\ slot'[a].active = slot[a].active /\ slot'[a].gate = slot[a].gate
      /\ slot'[a].revoking = slot[a].revoking
  <2>1. slot[a] \in Slot
    BY <1>0, <1>3 DEF Types
  <2> QED
    BY <1>4, <2>1 DEF Slot
<1>6. OneSlot(p, a)
  BY <1>4, <1>5 DEF OneSlot
<1>7. AimOk(p)' /\ LockOk(p)'
  BY <1>0, <1>1, <1>2, <1>3 DEF CallOk, AimOk, LockOk, Moved
<1>8. SlotsOk(p)' /\ WaitedOk(p)' /\ StopOk(p)'
  BY <1>2, <1>3, <1>5 DEF SlotsOk, WaitedOk, StopOk, Moved
<1>9. SlotOk(a)'
  BY <1>1, <1>3, <1>5 DEF RegistryInv, SlotInv, SlotOk, Busy
<1> QED
  BY <1>0, <1>1, <1>2, <1>3, <1>5, <1>6, <1>7, <1>8, <1>9, OneSlotStep DEF CallOk, Moved, Types

\* The older entry is closed, and its teardown begins.
LEMMA ReserveReplacesKeeps ==
    ASSUME RegistryInv, ~crashed, NEW p \in Caller, ReserveReplaces(p)
    PROVE  RegistryInv'
<1>0. /\ Types /\ CallOk(p) /\ call[p] \in Call /\ call[p].stage = "decide"
      /\ call[p].entry # None /\ p \in Goroutine
  BY Names DEF RegistryInv, CallInv, ReserveReplaces, Decide, In, Types
<1>3. PICK a \in Account : /\ a = call[p].acct /\ call[p].ver \in Version /\ a \in table
                           /\ lock = p /\ entry[call[p].entry].acct = a
  BY <1>0 DEF CallOk, AimOk, LockOk
<1> DEFINE new == [call[p] EXCEPT !.stage = "wait", !.at = a, !.back = "reserve"]
<1>1. /\ p # Stopper /\ p \notin Worker
      /\ call' = [call EXCEPT ![p].stage = "wait", ![p].at = a, ![p].back = "reserve"]
      /\ slot' = [slot EXCEPT ![a].closed = TRUE] /\ lock' = None
      /\ UNCHANGED <<status, table, fence, entry, todo, crashed>>
  BY <1>3, Names DEF ReserveReplaces, Decide, In, fences, others
<1>2. new \in Call /\ call' = [call EXCEPT ![p] = new]
  BY <1>0, <1>1, <1>3 DEF Types, Call, Stage
<1>4. /\ Written(p) /\ call'[p].stage = "wait" /\ call'[p].at = a /\ call'[p].back = "reserve"
      /\ call'[p].acct = a /\ call'[p].ver = call[p].ver /\ call'[p].entry = call[p].entry
  BY <1>0, <1>2, <1>3 DEF Types, Written, Call
<1>5. /\ slot' \in [Account -> Slot]
      /\ \A b \in Account \ {a} : slot'[b] = slot[b]
      /\ slot'[a].current = slot[a].current /\ slot'[a].closed
      /\ slot'[a].handles = slot[a].handles /\ slot'[a].waiters = slot[a].waiters
      /\ slot'[a].active = slot[a].active /\ slot'[a].gate = slot[a].gate
      /\ slot'[a].revoking = slot[a].revoking
  BY <1>0, <1>1, <1>3 DEF Types, Slot
<1> HIDE DEF new
<1>6. OneSlot(p, a)
  BY <1>5 DEF OneSlot
<1>7. AimOk(p)' /\ LockOk(p)'
  BY <1>0, <1>1, <1>3, <1>4 DEF AimOk, LockOk
<1>8. SlotsOk(p)' /\ WaitedOk(p)' /\ StopOk(p)'
  BY <1>4, <1>5 DEF SlotsOk, WaitedOk, StopOk
<1>9. SlotOk(a)'
  BY <1>1, <1>3, <1>5 DEF RegistryInv, SlotInv, SlotOk, Busy
<1>10. CallOk(p)'
  BY <1>7, <1>8 DEF CallOk
<1>11. /\ Written(p) /\ call[p].stage \notin {"seen", "seize"}
       /\ lock = p /\ crashed' \in BOOLEAN
       /\ \A e \in Entry : ~(slot[a].current = e /\ slot'[a].current # e)
  BY <1>0, <1>1, <1>3, <1>4, <1>5 DEF Types
<1> QED
  BY <1>0, <1>1, <1>6, <1>9, <1>10, <1>11, OneSlotStep

\* Begin takes the operation gate, or the operation is refused.
LEMMA BeginKeeps ==
    ASSUME RegistryInv, ~crashed, NEW p \in Caller, Begin(p)
    PROVE  RegistryInv'
<1>0. /\ Types /\ CallOk(p) /\ call[p].stage = "opened" /\ p \in Goroutine
      /\ p # Stopper /\ p \notin Worker /\ call[p].entry # None
      /\ UNCHANGED <<lock, status, table, fence, entry, todo, crashed>>
  BY Names DEF RegistryInv, CallInv, Begin, In, CallOk, AimOk, registry, fences, others
<1>1. CASE ~(Admitted(call[p].acct, call[p].entry) /\ entry[call[p].entry].build = "built"
             /\ entry[call[p].entry].owner \notin Done)
  <2>1. Goto(p, "closing") /\ UNCHANGED slot
    BY <1>1 DEF Begin
  <2> QED
    BY <1>0, <2>1, OperationKeeps DEF Begin, In
<1>2. CASE /\ Admitted(call[p].acct, call[p].entry) /\ entry[call[p].entry].build = "built"
           /\ entry[call[p].entry].owner \notin Done
  <2>1. PICK a \in Account : /\ a = call[p].acct /\ p \in slot[a].handles
                             /\ SlotOk(a)
    BY <1>0 DEF CallOk, AimOk, SlotsOk, RegistryInv, SlotInv
  <2>2. /\ slot[a].active = None /\ ~slot[a].closed /\ Goto(p, "queued")
        /\ slot' = [slot EXCEPT ![a].active = p] /\ "queued" \in Stage
    BY <1>2, <2>1 DEF Begin, Stage, Admitted
  <2>3. Moved(p, "queued") /\ call'[p].entry = call[p].entry
    BY <1>0, <2>2, GotoCall
  <2>4. /\ slot' \in [Account -> Slot]
        /\ \A b \in Account \ {a} : slot'[b] = slot[b]
        /\ slot'[a].current = slot[a].current /\ slot'[a].closed = slot[a].closed
        /\ slot'[a].handles = slot[a].handles /\ slot'[a].waiters = slot[a].waiters
        /\ slot'[a].active = p /\ slot'[a].gate = slot[a].gate
        /\ slot'[a].revoking = slot[a].revoking
    <3> DEFINE s == [slot[a] EXCEPT !.active = p]
    <3>1. slot[a] \in Slot
      BY <1>0 DEF Types
    <3>2. /\ s \in Slot /\ s.current = slot[a].current /\ s.closed = slot[a].closed
          /\ s.handles = slot[a].handles /\ s.waiters = slot[a].waiters
          /\ s.active = p /\ s.gate = slot[a].gate /\ s.revoking = slot[a].revoking
      BY <3>1 DEF Slot
    <3>3. slot' = [slot EXCEPT ![a] = s]
      BY <2>2
    <3> HIDE DEF s
    <3> QED
      BY <1>0, <3>2, <3>3, SlotPut
  <2>5. OneSlot(p, a)
    BY <1>0, <2>2, <2>4, Names DEF OneSlot
  <2>6. AimOk(p)' /\ LockOk(p)'
    BY <1>0, <2>1, <2>3 DEF CallOk, AimOk, LockOk, Moved
  <2>7. SlotsOk(p)' /\ WaitedOk(p)' /\ StopOk(p)'
    BY <2>1, <2>3, <2>4 DEF SlotsOk, WaitedOk, StopOk, Moved
  <2>8. SlotOk(a)'
    BY <1>0, <2>1, <2>4 DEF SlotOk, Busy
  <2> QED
    BY <1>0, <2>1, <2>3, <2>4, <2>5, <2>6, <2>7, <2>8, OneSlotStep DEF CallOk, Moved, Types
<1> QED
  BY <1>1, <1>2

\* The operation gives its gate back ...
LEMMA FinishOperationKeeps ==
    ASSUME RegistryInv, ~crashed, NEW p \in Caller, FinishOperation(p)
    PROVE  RegistryInv'
<1>0. /\ Types /\ CallOk(p) /\ call[p].stage = "ending" /\ p \in Goroutine
      /\ p # Stopper /\ p \notin Worker /\ call[p].entry # None
      /\ UNCHANGED <<lock, status, table, fence, entry, todo, crashed>>
  BY Names DEF RegistryInv, CallInv, FinishOperation, In, CallOk, AimOk, registry, fences, others
<1>1. PICK a \in Account : /\ a = call[p].acct /\ p \in slot[a].handles
                           /\ slot[a].active = p /\ SlotOk(a)
  BY <1>0 DEF CallOk, AimOk, SlotsOk, RegistryInv, SlotInv
<1>2. /\ Goto(p, "closing") /\ "closing" \in Stage
      /\ slot' = [slot EXCEPT ![a].active = None]
  BY <1>1 DEF FinishOperation, Stage
<1>3. Moved(p, "closing") /\ call'[p].entry = call[p].entry
  BY <1>0, <1>2, GotoCall
<1>4. /\ slot' \in [Account -> Slot]
      /\ \A b \in Account \ {a} : slot'[b] = slot[b]
      /\ slot'[a].current = slot[a].current /\ slot'[a].closed = slot[a].closed
      /\ slot'[a].handles = slot[a].handles /\ slot'[a].waiters = slot[a].waiters
      /\ slot'[a].active = None /\ slot'[a].gate = slot[a].gate
      /\ slot'[a].revoking = slot[a].revoking
  BY <1>0, <1>1, <1>2 DEF Types, Slot
<1>5. OneSlot(p, a)
  BY <1>1, <1>4, Names DEF OneSlot
<1>6. AimOk(p)' /\ LockOk(p)'
  BY <1>0, <1>1, <1>3 DEF CallOk, AimOk, LockOk, Moved
<1>7. SlotsOk(p)' /\ WaitedOk(p)' /\ StopOk(p)'
  BY <1>1, <1>3, <1>4 DEF SlotsOk, WaitedOk, StopOk, Moved
<1>8. SlotOk(a)'
  BY <1>0, <1>1, <1>4 DEF SlotOk, Busy
<1> QED
  BY <1>0, <1>1, <1>3, <1>4, <1>5, <1>6, <1>7, <1>8, OneSlotStep DEF CallOk, Moved, Types

\* ... and its handle; the last one out removes the slot.
LEMMA CloseHandleKeeps ==
    ASSUME RegistryInv, ~crashed, NEW p \in Caller, CloseHandle(p)
    PROVE  RegistryInv'
<1>0. /\ Types /\ CallOk(p) /\ call[p].stage = "closing" /\ p \in Goroutine
      /\ p # Stopper /\ p \notin Worker /\ Return(p)
      /\ UNCHANGED <<lock, status, fence, entry, todo, crashed>>
  BY Names DEF RegistryInv, CallInv, CloseHandle, In, fences, others
<1>1. PICK a \in Account : a = call[p].acct /\ p \in slot[a].handles /\ SlotOk(a)
  BY <1>0 DEF CallOk, AimOk, SlotsOk, RegistryInv, SlotInv
<1> DEFINE s == [slot[a] EXCEPT !.handles = @ \ {p}]
<1>2. /\ Removable(s) => lock = None
      /\ slot' = [slot EXCEPT ![a] = s] /\ table' = Swept(a, s)
  BY <1>1 DEF CloseHandle
<1>3. s \in Slot
  <2>1. slot[a].handles \ {p} \subseteq Caller /\ slot[a] \in Slot
    BY <1>0, <1>1 DEF Types, Slot
  <2> QED
    BY <2>1 DEF Slot
<1>4. /\ slot' \in [Account -> Slot] /\ slot'[a] = s
      /\ \A b \in Account \ {a} : slot'[b] = slot[b]
  BY <1>0, <1>2, <1>3 DEF Types
<1>5. /\ s.current = slot[a].current /\ s.closed = slot[a].closed
      /\ s.handles = slot[a].handles \ {p} /\ s.waiters = slot[a].waiters
      /\ s.active = slot[a].active /\ s.gate = slot[a].gate /\ s.revoking = slot[a].revoking
  BY <1>0, <1>1 DEF Types, Slot
<1> HIDE DEF s
<1>6. OneSlot(p, a)
  BY <1>4, <1>5 DEF OneSlot
<1>7. Written(p) /\ CallOk(p)'
  <2>1. Written(p) /\ call'[p].stage = "idle" /\ call'[p].back = "none"
    BY <1>0, ReturnCall
  <2> QED
    BY <1>0, <2>1, RestingOk
<1>8. \/ UNCHANGED table
      \/ /\ lock = None /\ table' = table \ {a}
         /\ Removable(s) /\ ~Busy(s)
  BY <1>2 DEF Swept
<1>9. SlotOk(a)'
  BY <1>1, <1>4, <1>5, <1>8 DEF SlotOk, Busy, Removable
<1> QED
  BY <1>0, <1>4, <1>5, <1>6, <1>7, <1>8, <1>9, OneSlotStep DEF Types

\* A slot that idles is closed; a caller tears its entry down, the reaper later.
LEMMA EvictCloseKeeps ==
    ASSUME RegistryInv, ~crashed, NEW p \in Goroutine, EvictClose(p)
    PROVE  RegistryInv'
<1>0. /\ Types /\ CallOk(p) /\ call[p].stage = "evictClose" /\ lock = p
      /\ UNCHANGED <<status, table, fence, entry, crashed>>
  BY DEF RegistryInv, CallInv, EvictClose, In, CallOk, LockOk, fences
<1>1. PICK a \in Account : a = call[p].at /\ SlotOk(a)
  BY <1>0 DEF CallOk, AimOk, RegistryInv, SlotInv
<1>2. slot' = [slot EXCEPT ![a].closed = TRUE]
  BY <1>1 DEF EvictClose
<1>3. /\ slot' \in [Account -> Slot]
      /\ \A b \in Account \ {a} : slot'[b] = slot[b]
      /\ slot'[a].current = slot[a].current /\ slot'[a].closed
      /\ slot'[a].handles = slot[a].handles /\ slot'[a].waiters = slot[a].waiters
      /\ slot'[a].active = slot[a].active /\ slot'[a].gate = slot[a].gate
      /\ slot'[a].revoking = slot[a].revoking
  BY <1>0, <1>2, SlotCloses
<1>4. OneSlot(p, a)
  BY <1>3 DEF OneSlot
<1>5. SlotOk(a)'
  BY <1>0, <1>1, <1>3 DEF SlotOk, Busy
<1>6. /\ Written(p) /\ CallOk(p)' /\ lock' \in {None, p}
      /\ \/ UNCHANGED todo
         \/ TodoOk' /\ todo' \in [Worker -> SUBSET (Account \X (Entry \cup {None}))]
  <2>1. CASE p = Reaper
    <3>1. /\ todo' = [todo EXCEPT ![p] = @ \cup {<<a, call[p].entry>>}]
          /\ call' = [call EXCEPT ![p] = [NoCall EXCEPT !.stage = "reap"]]
          /\ lock' = p /\ p \in Worker /\ p # Stopper
      BY <1>0, <1>1, <2>1, Names DEF EvictClose
    <3>2. [NoCall EXCEPT !.stage = "reap"] \in Call
      BY DEF NoCall, Call, Stage
    <3>3. Written(p) /\ call'[p].stage = "reap" /\ call'[p].back = "none" /\ call'[p].entry = None
      BY <1>0, <3>1, <3>2 DEF Types, Written, NoCall
    <3>4. CallOk(p)'
      BY <3>1, <3>3 DEF CallOk, AimOk, LockOk, SlotsOk, WaitedOk, StopOk
    <3>5. call[p].entry \in Entry \cup {None}
      BY <1>0, Fields
    <3>6. todo' \in [Worker -> SUBSET (Account \X (Entry \cup {None}))]
      BY <1>0, <3>1, <3>5 DEF Types
    <3>7. TodoOk'
      <4> SUFFICES ASSUME NEW w \in Worker, NEW item \in todo'[w], item[2] # None
                   PROVE  /\ entry[item[2]].acct = item[1]
                          /\ slot'[item[1]].current = item[2] => slot'[item[1]].closed
        BY <1>0 DEF TodoOk, Current
      <4>1. CASE item \in todo[w]
        <5>1. item[1] \in Account
          BY <1>0, <4>1 DEF Types
        <5>2. /\ entry[item[2]].acct = item[1]
              /\ slot[item[1]].current = item[2] => slot[item[1]].closed
          BY <4>1 DEF RegistryInv, TodoOk, Current
        <5> QED
          BY <1>3, <5>1, <5>2
      <4>2. CASE item \notin todo[w]
        <5>1. item = <<a, call[p].entry>>
          BY <1>0, <3>1, <4>2 DEF Types
        <5> QED
          BY <1>0, <1>1, <1>3, <5>1 DEF CallOk, AimOk
      <4> QED
        BY <4>1, <4>2
    <3> QED
      BY <3>1, <3>3, <3>4, <3>6, <3>7
  <2>2. CASE p # Reaper /\ call[p].entry = None
    <3>1. Return(p) /\ lock' = None /\ UNCHANGED todo
      BY <2>2 DEF EvictClose
    <3>2. Written(p) /\ call'[p].stage = "idle" /\ call'[p].back = "none"
      BY <1>0, <3>1, ReturnCall
    <3> QED
      BY <3>1, <3>2, RestingOk
  <2>3. CASE p # Reaper /\ call[p].entry # None
    <3>1. Goto(p, "wait") /\ lock' = None /\ UNCHANGED todo /\ "wait" \in Stage
      BY <2>3 DEF EvictClose, Stage
    <3>2. Moved(p, "wait") /\ call'[p].entry = call[p].entry
      BY <1>0, <3>1, GotoCall
    <3>3. AimOk(p)' /\ LockOk(p)'
      BY <1>0, <1>1, <3>2 DEF CallOk, AimOk, LockOk, Moved
    <3>4. SlotsOk(p)' /\ WaitedOk(p)'
      BY <1>1, <1>3, <3>2 DEF SlotsOk, WaitedOk, Moved
    <3>5. StopOk(p)'
      BY <1>0, <2>3, <3>2 DEF CallOk, AimOk, StopOk, Moved
    <3> QED
      BY <3>1, <3>2, <3>3, <3>4, <3>5 DEF CallOk, Moved
  <2> QED
    BY <2>1, <2>2, <2>3
<1> QED
  BY <1>0, <1>3, <1>4, <1>5, <1>6, OneSlotStep DEF Types

\* The admission of the slot is closed, and the teardown begins.
LEMMA StopCloseKeeps ==
    ASSUME RegistryInv, ~crashed, NEW p \in Caller, StopClose(p)
    PROVE  RegistryInv'
<1>0. /\ Types /\ CallOk(p) /\ call[p].stage = "seen" /\ lock = p /\ p \in Goroutine
      /\ p # Stopper /\ p \notin Worker /\ lock' = None /\ call[p] \in Call
      /\ UNCHANGED <<status, table, fence, entry, todo, crashed>>
  BY Names DEF RegistryInv, CallInv, StopClose, In, CallOk, LockOk, fences, others, Types
<1>1. PICK a \in Account : /\ a = call[p].acct /\ call[p].ver \in Version
                           /\ call[p].entry # None /\ entry[call[p].entry].acct = a
                           /\ SlotOk(a)
  BY <1>0 DEF CallOk, AimOk, RegistryInv, SlotInv
<1>2. /\ slot' = [slot EXCEPT ![a].closed = TRUE]
      /\ call' = [call EXCEPT ![p].stage = "wait", ![p].at = a, ![p].back = "stopped"]
  BY <1>1 DEF StopClose
<1>3. /\ slot' \in [Account -> Slot]
      /\ \A b \in Account \ {a} : slot'[b] = slot[b]
      /\ slot'[a].current = slot[a].current /\ slot'[a].closed
      /\ slot'[a].handles = slot[a].handles /\ slot'[a].waiters = slot[a].waiters
      /\ slot'[a].active = slot[a].active /\ slot'[a].gate = slot[a].gate
      /\ slot'[a].revoking = slot[a].revoking
  BY <1>0, <1>2, SlotCloses
<1>4. OneSlot(p, a)
  BY <1>3 DEF OneSlot
<1>5. SlotOk(a)'
  BY <1>0, <1>1, <1>3 DEF SlotOk, Busy
<1> DEFINE new == [call[p] EXCEPT !.stage = "wait", !.at = a, !.back = "stopped"]
<1>6. new \in Call /\ call' = [call EXCEPT ![p] = new]
  BY <1>0, <1>1, <1>2 DEF Types, Call, Stage
<1>7. /\ Written(p) /\ call'[p].stage = "wait" /\ call'[p].at = a /\ call'[p].back = "stopped"
      /\ call'[p].acct = a /\ call'[p].ver = call[p].ver /\ call'[p].entry = call[p].entry
  BY <1>0, <1>1, <1>6 DEF Types, Written, Call
<1> HIDE DEF new
<1>8. AimOk(p)' /\ LockOk(p)'
  BY <1>0, <1>1, <1>7 DEF AimOk, LockOk
<1>9. SlotsOk(p)' /\ WaitedOk(p)'
  BY <1>3, <1>7 DEF SlotsOk, WaitedOk
<1>10. StopOk(p)'
  <2>1. StopOk(p)
    BY <1>0 DEF CallOk
  <2>2. slot'[a].current = slot[a].current
    BY <1>3
  <2> QED
    BY <1>0, <1>1, <1>7, <2>1, <2>2 DEF StopOk, Current
<1> QED
  BY <1>0, <1>1, <1>3, <1>4, <1>5, <1>7, <1>8, <1>9, <1>10, OneSlotStep DEF CallOk, Types

\* The teardown gate is taken, unless the entry has been replaced.  Waiting for
\* the entry of a slot without one ends the process.
LEMMA EnterGateKeeps ==
    ASSUME RegistryInv, ~crashed, NEW p \in Goroutine, EnterGate(p)
    PROVE  RegistryInv'
<1>0. /\ Types /\ CallOk(p) /\ call[p].stage = "gate"
      /\ UNCHANGED <<lock, status, table, fence, entry, todo>>
      /\ call[p].entry \in Entry \cup {None}
  BY Fields DEF RegistryInv, CallInv, EnterGate, In, registry, fences
<1>1. PICK a \in Account : a = call[p].at /\ SlotOk(a) /\ slot[a].gate = None
  BY <1>0 DEF CallOk, AimOk, RegistryInv, SlotInv, EnterGate
<1>2. CASE slot[a].current # call[p].entry
  <2>1. Finish(p, TRUE) /\ UNCHANGED <<slot, crashed>>
    BY <1>1, <1>2 DEF EnterGate
  <2> QED
    BY <1>0, <2>1, FinishKeeps DEF EnterGate, others
<1>3. CASE slot[a].current = call[p].entry
  <2>1. /\ crashed' = (call[p].entry = None) /\ Goto(p, "drain") /\ "drain" \in Stage
        /\ slot' = [slot EXCEPT ![a].gate = p]
    BY <1>1, <1>3 DEF EnterGate, Stage
  <2>2. Moved(p, "drain") /\ call'[p].entry = call[p].entry
    BY <1>0, <2>1, GotoCall
  <2>3. /\ slot' \in [Account -> Slot]
        /\ \A b \in Account \ {a} : slot'[b] = slot[b]
        /\ slot'[a].current = slot[a].current /\ slot'[a].closed = slot[a].closed
        /\ slot'[a].handles = slot[a].handles /\ slot'[a].waiters = slot[a].waiters
        /\ slot'[a].active = slot[a].active /\ slot'[a].gate = p
        /\ slot'[a].revoking = slot[a].revoking
    BY <1>0, <1>1, <2>1 DEF Types, Slot
  <2>4. OneSlot(p, a)
    BY <1>1, <2>3, Names DEF OneSlot
  <2>5. SlotOk(a)'
    BY <1>0, <1>1, <2>3, Names DEF SlotOk, Busy
  <2>6. LockOk(p)' /\ WaitedOk(p)'
    BY <1>0, <1>1, <2>2, <2>3 DEF CallOk, LockOk, WaitedOk, Moved
  <2>7. StopOk(p)'
    <3>1. StopOk(p) /\ call[p].stage = "gate"
      BY <1>0 DEF CallOk
    <3>2. \A b \in Account : slot'[b].current = slot[b].current
      BY <2>3
    <3>3. call[p].back = "stopped" => call[p].acct \in Account
      BY <1>0 DEF CallOk, AimOk, Tearing
    <3> QED
      BY <1>0, <2>2, <3>1, <3>2, <3>3 DEF StopOk, Moved, Current, Tearing
  <2>8. CASE call[p].entry # None
    <3>1. crashed' = FALSE
      BY <2>1, <2>8
    <3>2. AimOk(p)'
      BY <1>0, <1>1, <2>2, <2>8 DEF CallOk, AimOk, Moved
    <3>3. SlotsOk(p)'
      BY <1>0, <1>1, <1>3, <2>2, <2>3, <2>8 DEF CallOk, SlotsOk, SlotOk, Moved, Current
    <3> QED
      BY <1>0, <1>1, <2>2, <2>3, <2>4, <2>5, <2>6, <2>7, <3>1, <3>2, <3>3, OneSlotStep
         DEF CallOk, Moved, Types
  <2>9. CASE call[p].entry = None
    <3>1. crashed' = TRUE
      BY <2>1, <2>9
    <3>2. AimOk(p)'
      BY <1>0, <1>1, <2>2, <3>1 DEF CallOk, AimOk, Moved
    <3>3. SlotsOk(p)'
      BY <1>0, <1>1, <2>2, <2>3, <3>1 DEF CallOk, SlotsOk, SlotOk, Moved
    <3> QED
      BY <1>0, <1>1, <2>2, <2>3, <2>4, <2>5, <2>6, <2>7, <3>1, <3>2, <3>3, OneSlotStep
         DEF CallOk, Moved, Types
  <2> QED
    BY <2>8, <2>9
<1> QED
  BY <1>2, <1>3

\* A teardown that is over frees the gate it may have: of the slot it had it for.
LEMMA FreeGateKeeps ==
    ASSUME RegistryInv, ~crashed, NEW p \in Goroutine, call[p].stage \in Gated \cup {"unprotect"},
           NEW ok \in BOOLEAN, Finish(p, ok), FreeGate(p),
           UNCHANGED <<lock, status, entry, todo, crashed>>,
           \/ UNCHANGED table
           \/ lock = None /\ table' = Swept(call[p].at, slot[call[p].at]),
           \/ UNCHANGED fence
           \/ /\ lock = None /\ fence' \in [Account -> Fence]
              /\ \A b \in Account : fence'[b].version = fence[b].version
    PROVE  RegistryInv'
<1>0. /\ Types /\ CallOk(p) /\ Written(p) /\ CallOk(p)'
  BY FinishCall DEF RegistryInv, CallInv
<1>1. PICK a \in Account : /\ a = call[p].at /\ SlotOk(a)
                           /\ slot[a].gate = p => ~slot[a].revoking
  BY <1>0 DEF CallOk, AimOk, SlotsOk, RegistryInv, SlotInv
<1>2. slot' = [slot EXCEPT ![a].gate = IF @ = p THEN None ELSE @]
  BY <1>1 DEF FreeGate
<1>3. /\ slot' \in [Account -> Slot]
      /\ \A b \in Account \ {a} : slot'[b] = slot[b]
      /\ slot'[a].current = slot[a].current /\ slot'[a].closed = slot[a].closed
      /\ slot'[a].handles = slot[a].handles /\ slot'[a].waiters = slot[a].waiters
      /\ slot'[a].active = slot[a].active
      /\ slot'[a].gate = IF slot[a].gate = p THEN None ELSE slot[a].gate
      /\ slot'[a].revoking = slot[a].revoking
  <2> DEFINE g == IF slot[a].gate = p THEN None ELSE slot[a].gate
             s == [slot[a] EXCEPT !.gate = g]
  <2>1. slot[a] \in Slot
    BY <1>0 DEF Types
  <2>2. g \in Goroutine \cup {None}
    BY <2>1 DEF Slot
  <2>3. slot' = [slot EXCEPT ![a] = s]
    BY <1>2
  <2> HIDE DEF g
  <2>4. /\ s \in Slot /\ s.current = slot[a].current /\ s.closed = slot[a].closed
        /\ s.handles = slot[a].handles /\ s.waiters = slot[a].waiters
        /\ s.active = slot[a].active /\ s.gate = g /\ s.revoking = slot[a].revoking
    BY <2>1, <2>2 DEF Slot
  <2> HIDE DEF s
  <2>5. /\ slot' \in [Account -> Slot] /\ slot'[a] = s
        /\ \A b \in Account \ {a} : slot'[b] = slot[b]
    BY <1>0, <2>3, <2>4, SlotPut
  <2> QED
    BY <2>4, <2>5 DEF g
<1>4. OneSlot(p, a)
  BY <1>3, Names DEF OneSlot
<1>5. \/ UNCHANGED table
      \/ lock = None /\ table' = table \ {a} /\ Removable(slot[a]) /\ ~Busy(slot[a])
  BY <1>1 DEF Swept
<1>6. SlotOk(a)'
  BY <1>1, <1>3, <1>5 DEF SlotOk, Busy, Removable
<1>7. call[p].stage \notin {"seen", "seize"}
  OBVIOUS
<1> QED
  BY <1>0, <1>3, <1>4, <1>5, <1>6, <1>7, OneSlotStep DEF Types

\* Of a fence, Unprotect changes no more than the protection.
LEMMA UnprotectKeeps ==
    ASSUME Types, NEW a \in Account, NEW V, Unprotect(a, V)
    PROVE  fence' \in [Account -> Fence] /\ \A b \in Account : fence'[b].version = fence[b].version
<1>1. fence[a].protected \in BOOLEAN
  BY DEF Types, Fence
<1>2. (fence[a].protected /\ fence[a].version \notin V) \in BOOLEAN
  OBVIOUS
<1> DEFINE kept == fence[a].protected /\ fence[a].version \notin V
<1>3. fence' = [fence EXCEPT ![a].protected = kept]
  BY DEF Unprotect
<1> HIDE DEF kept
<1> QED
  BY <1>2, <1>3 DEF Types, Fence, kept

\* Waiting for the callbacks and the end of a client, or giving up after
\* DrainTimeout.
LEMMA DrainKeeps ==
    ASSUME RegistryInv, ~crashed, NEW p \in Goroutine, Drain(p) \/ Join(p) \/ DrainTimeout(p)
    PROVE  RegistryInv'
<1> DEFINE e == call[p].entry
<1>0. /\ Types /\ CallOk(p) /\ call[p].stage \in {"drain", "join"}
      /\ UNCHANGED <<registry, entry, others>>
  BY DEF RegistryInv, CallInv, Drain, Join, DrainTimeout, In
<1>1. UNCHANGED <<lock, status, table, fence, entry, todo, crashed>>
  BY <1>0 DEF registry, fences, others
<1>2. e \in Entry
  BY <1>0, Fields, Names DEF CallOk, AimOk
<1>3. CASE Drain(p) /\ BuildFailed(e)
  <2>1. ~Alive(e) /\ ~BuildExpired(e)
    BY <1>2, <1>3, BuildEnds
  <2>2. call' = [call EXCEPT ![p].stage = "reset", ![p].ok = FALSE] /\ UNCHANGED slot
    BY <1>3, <2>1 DEF Drain
  <2> QED
    BY <1>0, <2>1, <2>2, TeardownCall
<1>4. CASE Drain(p) /\ BuildExpired(e)
  <2>1. ~BuildFailed(e)
    BY <1>2, <1>4, BuildEnds
  <2>2. Finish(p, FALSE) /\ FreeGate(p)
    BY <1>4, <2>1 DEF Drain
  <2> QED
    BY <1>0, <1>1, <2>2, FreeGateKeeps
<1>5. CASE Drain(p) /\ ~BuildFailed(e) /\ ~BuildExpired(e)
  <2>1. /\ slot[call[p].at].active = None /\ Goto(p, "stopOwner") /\ UNCHANGED slot
        /\ entry[e].build # "building"
    BY <1>5 DEF Drain
  <2>2. call[p].ok \in BOOLEAN /\ call[p] \in Call
    BY <1>0 DEF Types, Call
  <2>3. Moved(p, "stopOwner") /\ call'[p].entry = e
    BY <1>0, <2>1, GotoCall DEF Stage
  <2>4. AimOk(p)' /\ LockOk(p)'
    BY <1>0, <1>1, <2>3, <1>5 DEF CallOk, AimOk, LockOk, Moved, Drain, In
  <2>5. SlotsOk(p)'
    BY <1>0, <1>1, <1>5, <2>1, <2>3 DEF CallOk, SlotsOk, Moved, Current, Drain, In
  <2>6. WaitedOk(p)'
    BY <1>1, <2>1, <2>3 DEF WaitedOk, Moved
  <2>7. StopOk(p)'
    BY <1>0, <1>1, <2>1, <2>3 DEF CallOk, StopOk, Moved, Current
  <2> QED
    BY <1>0, <1>1, <2>1, <2>4, <2>5, <2>6, <2>7, GotoKeeps DEF CallOk, Stage
<1>6. CASE Join(p) /\ entry[e].result = "deadline"
  <2>1. Finish(p, FALSE) /\ FreeGate(p)
    BY <1>6 DEF Join
  <2> QED
    BY <1>0, <1>1, <2>1, FreeGateKeeps
<1>7. CASE Join(p) /\ entry[e].result # "deadline"
  <2>1. PICK ok \in BOOLEAN : call' = [call EXCEPT ![p].stage = "reset", ![p].ok = ok] /\ UNCHANGED slot
    BY <1>7 DEF Join
  <2>2. ~Alive(e)
    BY <1>0, <1>7 DEF Join, In, CallOk, WaitedOk, Alive, Client, Done
  <2> QED
    BY <1>0, <2>1, <2>2, TeardownCall
<1>8. CASE DrainTimeout(p)
  BY <1>0, <1>1, <1>8, FreeGateKeeps DEF DrainTimeout
<1> QED
  BY <1>3, <1>4, <1>5, <1>6, <1>7, <1>8

\* finishTeardown drops the entry, which is not alive any more ...
LEMMA ResetKeeps ==
    ASSUME RegistryInv, ~crashed, NEW p \in Goroutine,
           TeardownReset(p) \/ (p \in Caller /\ RevokeReset(p))
    PROVE  RegistryInv'
<1> DEFINE e == call[p].entry
<1>0. /\ Types /\ CallOk(p) /\ call[p].stage \in {"reset", "dropping"}
      /\ UNCHANGED <<lock, status, table, fence, entry, todo, crashed>>
      /\ TeardownReset(p) => call[p].stage = "reset"
      /\ ~TeardownReset(p) => call[p].stage = "dropping"
      /\ p = Stopper => status # "open"
  BY DEF RegistryInv, CallInv, CallOk, LockOk, TeardownReset, RevokeReset, In, registry, fences, others
<1>1. PICK a \in Account : /\ a = IF call[p].stage = "reset" THEN call[p].at ELSE call[p].acct
                           /\ SlotOk(a) /\ slot[a].gate = p
                           /\ e # None /\ e \in Entry /\ ~Alive(e)
  BY <1>0, Fields DEF CallOk, AimOk, SlotsOk, WaitedOk, RegistryInv, SlotInv
<1>2. PICK s \in {"unprotect", "dropped"} :
        /\ Goto(p, s) /\ slot' = [slot EXCEPT ![a] = Reset(@, e)]
        /\ s = "unprotect" <=> call[p].stage = "reset"
  BY <1>0, <1>1 DEF TeardownReset, RevokeReset, In
<1>3. Moved(p, s) /\ call'[p].entry = e
  BY <1>0, <1>2, GotoCall DEF Stage
<1>4. /\ slot' \in [Account -> Slot]
      /\ \A b \in Account \ {a} : slot'[b] = slot[b]
      /\ slot'[a].current = IF slot[a].current = e THEN None ELSE slot[a].current
      /\ slot'[a].closed = IF slot[a].current = e THEN FALSE ELSE slot[a].closed
      /\ slot'[a].handles = slot[a].handles /\ slot'[a].waiters = slot[a].waiters
      /\ slot'[a].active = slot[a].active /\ slot'[a].gate = slot[a].gate
      /\ slot'[a].revoking = slot[a].revoking
  <2>1. CASE slot[a].current = e
    <3> DEFINE t == [slot[a] EXCEPT !.current = None, !.closed = FALSE]
    <3>1. slot' = [slot EXCEPT ![a] = t]
      BY <1>2, <2>1 DEF Reset
    <3>2. slot[a] \in Slot
      BY <1>0 DEF Types
    <3>3. /\ t \in Slot /\ t.current = None /\ t.closed = FALSE
          /\ t.handles = slot[a].handles /\ t.waiters = slot[a].waiters
          /\ t.active = slot[a].active /\ t.gate = slot[a].gate
          /\ t.revoking = slot[a].revoking
      BY <3>2 DEF Slot
    <3> HIDE DEF t
    <3>4. /\ slot' \in [Account -> Slot] /\ slot'[a] = t
          /\ \A b \in Account \ {a} : slot'[b] = slot[b]
      BY <1>0, <3>1, <3>3 DEF Types
    <3> QED
      BY <2>1, <3>3, <3>4
  <2>2. CASE slot[a].current # e
    <3>1. slot' = slot
      BY <1>0, <1>2, <2>2 DEF Reset, Types
    <3> QED
      BY <1>0, <2>2, <3>1 DEF Types
  <2> QED
    BY <2>1, <2>2
<1>5. OneSlot(p, a)
  BY <1>1, <1>4 DEF OneSlot
<1>6. SlotOk(a)'
  BY <1>0, <1>1, <1>4, Names DEF SlotOk, Busy
<1>7. AimOk(p)' /\ LockOk(p)'
  BY <1>0, <1>1, <1>2, <1>3 DEF CallOk, AimOk, LockOk, Moved
<1>8. SlotsOk(p)'
  BY <1>0, <1>1, <1>2, <1>3, <1>4 DEF CallOk, SlotsOk, Moved
<1>9. WaitedOk(p)'
  BY <1>0, <1>1, <1>2, <1>3 DEF WaitedOk, Moved, Alive, Client
<1>10. StopOk(p)'
  <2>1. /\ StopOk(p)
        /\ call[p].stage = "reset" /\ call[p].back = "stopped" => call[p].acct \in Account
    BY <1>0 DEF CallOk, AimOk, Tearing
  <2>2. ASSUME NEW b \in Account, NEW f \in Entry, slot'[b].current = f
        PROVE  slot[b].current = f
    <3>1. CASE b = a
      BY <1>4, <2>2, <3>1, Names
    <3>2. CASE b # a
      BY <1>4, <2>2, <3>2
    <3> QED
      BY <3>1, <3>2
  <2>3. CASE s = "dropped"
    BY <1>3, <2>3 DEF StopOk, Moved, Tearing
  <2>4. CASE s = "unprotect"
    <3>1. call[p].stage = "reset"
      BY <1>2, <2>4
    <3> QED
      BY <1>0, <1>3, <2>1, <2>2, <2>4, <3>1 DEF StopOk, Moved, Current, Tearing
  <2> QED
    BY <2>3, <2>4
<1>11. \A f \in Entry : slot[a].current = f /\ slot'[a].current # f => ~Alive(f)
  BY <1>1, <1>4
<1> QED
  BY <1>0, <1>3, <1>4, <1>5, <1>6, <1>7, <1>8, <1>9, <1>10, <1>11, OneSlotStep
     DEF CallOk, Moved, Types

\* ... and unprotects its fence.
LEMMA TeardownEndsKeeps ==
    ASSUME RegistryInv, ~crashed, NEW p \in Goroutine, TeardownEnds(p)
    PROVE  RegistryInv'
<1>1. /\ Types /\ call[p].stage = "unprotect" /\ call[p].ok \in BOOLEAN /\ lock = None
      /\ call[p].at \in Account
      /\ UNCHANGED <<lock, status, entry, todo, crashed>>
      /\ Unprotect(call[p].at, {entry[call[p].entry].ver})
      /\ table' = Swept(call[p].at, slot[call[p].at])
      /\ FreeGate(p) /\ Finish(p, call[p].ok)
  BY DEF RegistryInv, Types, Call, CallInv, CallOk, AimOk, TeardownEnds, In, others
<1>2. PICK a \in Account : a = call[p].at
  BY <1>1
<1>3. fence' \in [Account -> Fence] /\ \A b \in Account : fence'[b].version = fence[b].version
  BY <1>1, <1>2, UnprotectKeeps
<1> QED
  BY <1>1, <1>3, FreeGateKeeps

\* A revoke gives its slot free when it is over.
LEMMA RevokeUnprotectsKeeps ==
    ASSUME RegistryInv, ~crashed, NEW p \in Caller, RevokeUnprotects(p)
    PROVE  RegistryInv'
<1>0. /\ Types /\ CallOk(p) /\ call[p].stage = "dropped" /\ lock = None /\ p \in Goroutine
      /\ p # Stopper /\ p \notin Worker
      /\ UNCHANGED <<lock, status, table, slot, entry, todo, crashed>>
  BY Names DEF RegistryInv, CallInv, RevokeUnprotects, In, others
<1>1. PICK a \in Account : /\ a = call[p].acct /\ call[p].ver \in Version /\ SlotOk(a)
                           /\ slot[a].gate = p /\ slot[a].revoking
  BY <1>0 DEF CallOk, AimOk, SlotsOk, RegistryInv, SlotInv
<1>2. fence' \in [Account -> Fence] /\ \A b \in Account : fence'[b].version = fence[b].version
  <2>1. Unprotect(a, {entry[call[p].entry].ver, call[p].ver})
    BY <1>1 DEF RevokeUnprotects
  <2> QED
    BY <1>0, <2>1, UnprotectKeeps
<1>3. PICK s \in {"prepare", "release"} : call' = [call EXCEPT ![p] = Restarted(p, s)]
  BY DEF RevokeUnprotects
<1>4. Restarted(p, s) \in Call
  BY <1>1 DEF Restarted, NoCall, Call, Stage
<1>5. /\ Written(p) /\ call'[p].stage = s /\ call'[p].acct = a /\ call'[p].ver = call[p].ver
      /\ call'[p].entry = None /\ call'[p].back = "none"
  BY <1>0, <1>1, <1>3, <1>4 DEF Types, Written, Restarted, NoCall
<1>6. CallOk(p)'
  BY <1>0, <1>1, <1>5 DEF CallOk, AimOk, LockOk, SlotsOk, WaitedOk, StopOk
<1>7. OneSlot(p, a)
  BY <1>0 DEF OneSlot, Types
<1>8. SlotOk(a)'
  BY <1>0, <1>1 DEF SlotOk
<1> QED
  BY <1>0, <1>2, <1>5, <1>6, <1>7, <1>8, OneSlotStep DEF Types

\* releaseRevoke: the slot is open again unless something is left in it.
LEMMA ReleaseKeeps ==
    ASSUME RegistryInv, ~crashed, NEW p \in Caller, Release(p)
    PROVE  RegistryInv'
<1>0. /\ Types /\ CallOk(p) /\ call[p].stage = "release" /\ lock = None /\ p \in Goroutine
      /\ p # Stopper /\ p \notin Worker /\ Return(p)
      /\ UNCHANGED <<lock, status, fence, entry, todo, crashed>>
  BY Names DEF RegistryInv, CallInv, Release, In, fences, others
<1>1. PICK a \in Account : /\ a = call[p].acct /\ SlotOk(a) /\ slot[a].gate = p /\ slot[a].revoking
  BY <1>0 DEF CallOk, AimOk, SlotsOk, RegistryInv, SlotInv
<1> DEFINE shut == slot[a].closed /\ (slot[a].current # None \/ slot[a].active # None)
           s == [slot[a] EXCEPT !.revoking = FALSE, !.gate = None, !.closed = shut]
<1>2. slot' = [slot EXCEPT ![a] = s] /\ table' = Swept(a, s)
  BY <1>1 DEF Release
<1>3. shut \in BOOLEAN /\ slot[a] \in Slot
  BY <1>0 DEF Types, Slot
<1>4. shut => slot[a].closed
  OBVIOUS
<1>5. slot[a].closed /\ slot[a].current # None => shut
  OBVIOUS
<1> HIDE DEF shut
<1>6. /\ s \in Slot
      /\ s.current = slot[a].current /\ s.closed = shut
      /\ s.handles = slot[a].handles /\ s.waiters = slot[a].waiters
      /\ s.active = slot[a].active /\ s.gate = None /\ s.revoking = FALSE
  BY <1>3 DEF Slot
<1> HIDE DEF s
<1>7. /\ slot' \in [Account -> Slot] /\ slot'[a] = s
      /\ \A b \in Account \ {a} : slot'[b] = slot[b]
  BY <1>0, <1>2, <1>6 DEF Types
<1>8. OneSlot(p, a)
  BY <1>1, <1>5, <1>6, <1>7, Names DEF OneSlot
<1>9. Written(p) /\ CallOk(p)'
  <2>1. Written(p) /\ call'[p].stage = "idle" /\ call'[p].back = "none"
    BY <1>0, ReturnCall
  <2> QED
    BY <1>0, <2>1, RestingOk
<1>10. \/ UNCHANGED table
       \/ table' = table \ {a} /\ Removable(s) /\ ~Busy(s)
  BY <1>2 DEF Swept
<1>11. SlotOk(a)'
  BY <1>1, <1>6, <1>7, <1>10 DEF SlotOk, Busy, Removable
<1> QED
  BY <1>0, <1>6, <1>7, <1>8, <1>9, <1>10, <1>11, OneSlotStep DEF Types

\* A slot is found or made, and its entry read.
LEMMA ReserveLookKeeps ==
    ASSUME RegistryInv, ~crashed, NEW p \in Caller, ReserveLook(p)
    PROVE  RegistryInv'
<1>0. /\ Types /\ CallOk(p) /\ call[p].stage = "reserve" /\ lock = None /\ lock' = p
      /\ p \in Goroutine /\ p # Stopper /\ p \notin Worker
      /\ status = "open" /\ call[p].ver > fence[call[p].acct].version
      /\ UNCHANGED <<status, fence, entry, todo, crashed>>
  BY Names DEF RegistryInv, CallInv, ReserveLook, MayEnter, In, fences, others
<1>1. PICK a \in Account : /\ a = call[p].acct /\ call[p].ver \in Version
                           /\ SlotOk(a) /\ CurrentOk(a)
  BY <1>0 DEF CallOk, AimOk, RegistryInv, SlotInv
<1>2. /\ a \in table \/ Cardinality(table) < Capacity
      /\ table' = table \cup {a}
      /\ slot' = IF a \in table THEN slot ELSE [slot EXCEPT ![a] = FreshSlot]
      /\ GotoWith(p, "decide", slot'[a].current)
  BY <1>1 DEF ReserveLook, HasRoom
<1>3. FreshSlot \in Slot
  BY DEF FreshSlot, Slot
<1>4. /\ slot' \in [Account -> Slot]
      /\ \A b \in Account \ {a} : slot'[b] = slot[b]
      /\ a \in table => slot'[a] = slot[a]
      /\ a \notin table => slot'[a] = FreshSlot
  BY <1>0, <1>2, <1>3 DEF Types
<1>5. slot'[a].current = slot[a].current /\ slot'[a].current \in Entry \cup {None}
  BY <1>0, <1>1, <1>4, Fields DEF SlotOk, FreshSlot, Current
<1>6. Moved(p, "decide") /\ call'[p].entry = slot'[a].current
  BY <1>0, <1>2, <1>5, GotoWithCall DEF Stage
<1>7. OneSlot(p, a)
  <2>1. CASE a \in table
    BY <1>4, <2>1 DEF OneSlot
  <2>2. CASE a \notin table
    <3>1. slot'[a].current = None /\ slot'[a].gate = None
      BY <1>4, <2>2 DEF FreshSlot
    <3> QED
      BY <1>0, <1>4, <2>2, <3>1, OneSlotFresh
  <2> QED
    BY <2>1, <2>2
<1>8. SlotOk(a)'
  BY <1>1, <1>2, <1>4 DEF SlotOk, FreshSlot, Busy
<1>9. AimOk(p)' /\ LockOk(p)'
  BY <1>0, <1>1, <1>2, <1>5, <1>6 DEF AimOk, LockOk, CurrentOk, Current, Moved
<1>10. SlotsOk(p)' /\ WaitedOk(p)' /\ StopOk(p)'
  BY <1>6 DEF SlotsOk, WaitedOk, StopOk, Moved
<1>11. \A e \in Entry : ~(slot[a].current = e /\ slot'[a].current # e)
  BY <1>5
<1>12. UNCHANGED table \/ (table' = table \cup {a} /\ Cardinality(table) < Capacity)
  BY <1>2
<1> QED
  BY <1>0, <1>6, <1>7, <1>8, <1>9, <1>10, <1>11, <1>12, OneSlotStep DEF CallOk, Moved, Types

\* The slot is kept for a revoke that waits ...
LEMMA AcquireKeeps ==
    ASSUME RegistryInv, ~crashed, NEW p \in Caller, Acquire(p)
    PROVE  RegistryInv'
<1>0. /\ Types /\ CallOk(p) /\ call[p].stage = "acquire" /\ lock = None
      /\ p \in Goroutine /\ p # Stopper /\ p \notin Worker
      /\ UNCHANGED <<lock, status, fence, entry, todo, crashed>>
  BY Names DEF RegistryInv, CallInv, Acquire, In, fences, others
<1>1. PICK a \in Account : a = call[p].acct /\ call[p].ver \in Version /\ SlotOk(a)
  BY <1>0 DEF CallOk, AimOk, RegistryInv, SlotInv
<1> DEFINE old == IF a \in table THEN slot[a] ELSE FreshSlot
           s == [old EXCEPT !.waiters = @ \cup {p}]
<1>2. /\ a \in table \/ Cardinality(table) < Capacity
      /\ table' = table \cup {a}
      /\ slot' = [slot EXCEPT ![a] = s]
      /\ Goto(p, "claim") /\ "claim" \in Stage
  BY <1>1 DEF Acquire, HasRoom, Stage
<1>3. old \in Slot
  BY <1>0 DEF FreshSlot, Slot, Types
<1>4. /\ a \in table => old = slot[a]
      /\ a \notin table => old = FreshSlot
  OBVIOUS
<1> HIDE DEF old
<1>5. old.waiters \cup {p} \subseteq Caller
  BY <1>3 DEF Slot
<1>6. /\ s \in Slot
      /\ s.current = old.current /\ s.closed = old.closed
      /\ s.handles = old.handles /\ s.waiters = old.waiters \cup {p}
      /\ s.active = old.active /\ s.gate = old.gate /\ s.revoking = old.revoking
  BY <1>3, <1>5 DEF Slot
<1> HIDE DEF s
<1>7. /\ slot' \in [Account -> Slot] /\ slot'[a] = s
      /\ \A b \in Account \ {a} : slot'[b] = slot[b]
  BY <1>0, <1>2, <1>6 DEF Types
<1>8. slot'[a].current = slot[a].current
  BY <1>1, <1>4, <1>6, <1>7 DEF SlotOk, FreshSlot
<1>9. Moved(p, "claim") /\ call'[p].entry = call[p].entry
  BY <1>0, <1>2, GotoCall
<1>10. OneSlot(p, a)
  <2>1. CASE a \in table
    BY <1>4, <1>6, <1>7, <2>1 DEF OneSlot
  <2>2. CASE a \notin table
    <3>1. slot'[a].current = None /\ slot'[a].gate = None
      BY <1>4, <1>6, <1>7, <2>2 DEF FreshSlot
    <3> QED
      BY <1>0, <1>7, <2>2, <3>1, OneSlotFresh
  <2> QED
    BY <2>1, <2>2
<1>11. SlotOk(a)'
  BY <1>1, <1>2, <1>4, <1>6, <1>7 DEF SlotOk, FreshSlot, Busy
<1>12. AimOk(p)' /\ LockOk(p)'
  BY <1>0, <1>1, <1>9 DEF AimOk, LockOk, Moved
<1>13. SlotsOk(p)' /\ WaitedOk(p)' /\ StopOk(p)'
  BY <1>1, <1>6, <1>7, <1>9 DEF SlotsOk, WaitedOk, StopOk, Moved
<1>14. UNCHANGED table \/ (table' = table \cup {a} /\ Cardinality(table) < Capacity)
  BY <1>2
<1> QED
  BY <1>0, <1>8, <1>9, <1>10, <1>11, <1>12, <1>13, <1>14, OneSlotStep DEF CallOk, Moved, Types

\* ... until it has the teardown gate, or no longer.
LEMMA ClaimKeeps ==
    ASSUME RegistryInv, ~crashed, NEW p \in Caller,
           \/ ClaimGate(p)
           \/ /\ In(p, "claim") /\ lock = None
              /\ slot' = [slot EXCEPT ![call[p].acct].waiters = @ \ {p}]
              /\ Return(p)
              /\ UNCHANGED <<registry, entry, others>>
    PROVE  RegistryInv'
<1>0. /\ Types /\ CallOk(p) /\ call[p].stage = "claim" /\ lock = None
      /\ p \in Goroutine /\ p # Stopper /\ p \notin Worker
      /\ UNCHANGED <<lock, status, table, fence, entry, todo, crashed>>
  BY Names DEF RegistryInv, CallInv, ClaimGate, In, registry, fences, others
<1>1. PICK a \in Account : /\ a = call[p].acct /\ call[p].ver \in Version /\ SlotOk(a)
                           /\ p \in slot[a].waiters
  BY <1>0 DEF CallOk, AimOk, SlotsOk, RegistryInv, SlotInv
<1>2. a \in table
  BY <1>1 DEF SlotOk, Busy
<1> DEFINE s == [slot[a] EXCEPT !.waiters = @ \ {p}]
           t == [s EXCEPT !.gate = p, !.revoking = TRUE]
<1>3. /\ s \in Slot
      /\ s.current = slot[a].current /\ s.closed = slot[a].closed
      /\ s.handles = slot[a].handles /\ s.waiters = slot[a].waiters \ {p}
      /\ s.active = slot[a].active /\ s.gate = slot[a].gate /\ s.revoking = slot[a].revoking
  <2>1. slot[a].waiters \ {p} \subseteq Caller /\ slot[a] \in Slot
    BY <1>0 DEF Types, Slot
  <2> QED
    BY <2>1 DEF Slot
<1>4. \/ slot' = [slot EXCEPT ![a] = s] /\ Return(p)
      \/ slot[a].gate = None /\ slot' = [slot EXCEPT ![a] = t] /\ Goto(p, "prepare")
  BY <1>1 DEF ClaimGate
<1> HIDE DEF s
<1>5. /\ t \in Slot
      /\ t.current = slot[a].current /\ t.closed = slot[a].closed
      /\ t.handles = slot[a].handles /\ t.waiters = slot[a].waiters \ {p}
      /\ t.active = slot[a].active /\ t.gate = p /\ t.revoking = TRUE
  BY <1>0, <1>3 DEF Slot
<1> HIDE DEF t
<1>6. CASE slot' = [slot EXCEPT ![a] = s] /\ Return(p)
  <2>1. /\ slot' \in [Account -> Slot] /\ slot'[a] = s
        /\ \A b \in Account \ {a} : slot'[b] = slot[b]
    BY <1>0, <1>3, <1>6 DEF Types
  <2>2. OneSlot(p, a)
    BY <1>3, <2>1 DEF OneSlot
  <2>3. Written(p) /\ call'[p].stage = "idle" /\ call'[p].back = "none"
    BY <1>0, <1>6, ReturnCall
  <2>4. CallOk(p)'
    BY <1>0, <2>3, RestingOk
  <2>5. SlotOk(a)'
    BY <1>0, <1>1, <1>2, <1>3, <2>1 DEF SlotOk
  <2> QED
    BY <1>0, <1>3, <2>1, <2>2, <2>3, <2>4, <2>5, OneSlotStep DEF Types
<1>7. CASE slot[a].gate = None /\ slot' = [slot EXCEPT ![a] = t] /\ Goto(p, "prepare")
  <2>1. /\ slot' \in [Account -> Slot] /\ slot'[a] = t
        /\ \A b \in Account \ {a} : slot'[b] = slot[b]
    BY <1>0, <1>5, <1>7 DEF Types
  <2>2. OneSlot(p, a)
    BY <1>5, <1>7, <2>1, Names DEF OneSlot
  <2>3. Moved(p, "prepare") /\ call'[p].entry = call[p].entry
    BY <1>0, <1>7, GotoCall DEF Stage
  <2>4. AimOk(p)' /\ LockOk(p)'
    BY <1>0, <1>1, <2>3 DEF AimOk, LockOk, Moved
  <2>5. SlotsOk(p)' /\ WaitedOk(p)' /\ StopOk(p)'
    BY <1>1, <1>5, <2>1, <2>3 DEF SlotsOk, WaitedOk, StopOk, Moved
  <2>6. SlotOk(a)'
    BY <1>0, <1>1, <1>2, <1>5, <2>1, Names DEF SlotOk
  <2> QED
    BY <1>0, <1>5, <2>1, <2>2, <2>3, <2>4, <2>5, <2>6, OneSlotStep DEF CallOk, Moved, Types
<1> QED
  BY <1>4, <1>6, <1>7

-----------------------------------------------------------------------------
(* Fences.                                                                 *)

\* A fence never goes back, and with enough of them no other one does.
LEMMA RecordKeeps ==
    ASSUME Types, NEW a \in Account, NEW v \in Version, NEW prot \in BOOLEAN,
           CanRecord(a, v), Record(a, v, prot)
    PROVE  /\ fence' \in [Account -> Fence] /\ fence'[a].version = v
           /\ \A b \in Account \ {a} : fence'[b].version <= fence[b].version
           /\ EnoughFences => \A b \in Account : fence[b].version <= fence'[b].version
<1> DEFINE evicted == IF a \notin Fenced /\ Cardinality(Fenced) >= Capacity
                      THEN {Head(Evictable)} ELSE {}
           mine == [version |-> v, protected |-> fence[a].protected \/ prot]
<1>1. fence' = [b \in Account |-> IF b = a THEN mine
                                  ELSE IF b \in evicted THEN NoFence ELSE fence[b]]
  BY DEF Record
<1>2. /\ \A b \in Account : fence[b] \in Fence /\ fence[b].version \in Nat
      /\ v \in Nat /\ v >= fence[a].version
  BY Fields, OwnerAssumption DEF Types, Version, CanRecord
<1>3. mine \in Fence /\ NoFence \in Fence /\ NoFence.version = 0 /\ mine.version = v
  <2>1. (fence[a].protected \/ prot) \in BOOLEAN
    BY <1>2 DEF Fence
  <2> QED
    BY <2>1 DEF Fence, NoFence
<1>4. EnoughFences => evicted = {}
  <2> SUFFICES ASSUME EnoughFences, a \notin Fenced, Cardinality(Fenced) >= Capacity
               PROVE  FALSE
    OBVIOUS
  <2>1. Fenced \in SUBSET Account /\ Fenced # Account
    BY DEF Fenced
  <2>2. /\ IsFiniteSet(Account) /\ IsFiniteSet(Fenced)
        /\ Cardinality(Fenced) <= Cardinality(Account)
        /\ Cardinality(Fenced) # Cardinality(Account)
        /\ Cardinality(Account) \in Nat /\ Cardinality(Fenced) \in Nat
        /\ Cardinality(Account) <= Capacity
    BY <2>1, FS_Subset, FS_CardinalityType DEF EnoughFences
  <2> QED
    BY <2>2, OwnerAssumption
<1> HIDE DEF mine, evicted
<1>5. ASSUME NEW b \in Account
      PROVE  /\ fence'[b] \in Fence
             /\ b = a => fence'[b].version = v
             /\ b # a => /\ fence'[b].version <= fence[b].version
                         /\ EnoughFences => fence'[b] = fence[b]
  BY <1>1, <1>2, <1>3, <1>4
<1> QED
  BY <1>1, <1>2, <1>5

\* A step that records a fence, and goes on under registry.mu if the slot has an entry.
LEMMA FenceStep ==
    ASSUME RegistryInv, ~crashed, NEW p \in Caller, NEW a \in Account,
           lock = None, lock' \in {None, p}, fence' \in [Account -> Fence],
           \A b \in Account \ {a} : fence'[b].version <= fence[b].version,
           EnoughFences => \A b \in Account : fence[b].version <= fence'[b].version,
           Current(a) # None => /\ lock' = p /\ call'[p].stage \in {"seen", "seize"}
                                /\ call'[p].acct = a,
           Written(p), CallOk(p)',
           UNCHANGED <<status, table, slot, entry, todo, crashed>>
    PROVE  RegistryInv'
<1>1. Types /\ Types' /\ None \notin Entry /\ None \notin Goroutine /\ p \in Goroutine
  BY Names DEF RegistryInv, Types, Written
<1>2. TableFits' /\ EntryInv' /\ TodoOk'
  BY DEF RegistryInv, TableFits, EntryInv, EntryOk, TodoOk, Current, Alive, Client
<1>3. ASSUME NEW e \in Entry
      PROVE  SameEntry(e) /\ (Alive(e)' <=> Alive(e))
  BY DEF SameEntry, Alive, Client
<1>4. ASSUME NEW q \in Goroutine, q # p
      PROVE  CallOk(q)'
  <2>1. \A b \in Account : SlotKept(q, b)
    BY DEF SlotKept, CurrentKept
  <2>2. \A e \in Entry : EntryKept(q, e)
    BY <1>3 DEF EntryKept
  <2>3. LockKept(q)
    BY <1>1 DEF LockKept
  <2> QED
    BY <1>1, <1>4, <2>1, <2>2, <2>3, OthersKeep DEF Undisturbed, Written
<1>5. ASSUME NEW b \in Account
      PROVE  SlotOk(b)' /\ CurrentOk(b)' /\ FencedOk(b)'
  <2>1. SlotOk(b)' /\ CurrentOk(b)'
    BY DEF RegistryInv, SlotInv, SlotOk, CurrentOk, Busy, Current
  <2>2. CASE b = a
    BY <1>1, <2>1, <2>2 DEF FencedOk, Fencing, Current
  <2>3. CASE b # a
    <3>1. ~Fencing(b)
      BY <1>1, Names DEF Fencing
    <3>2. ASSUME Current(b) # None, entry[Current(b)].ver <= fence'[b].version
          PROVE  slot[b].closed
      <4>1. /\ entry[Current(b)].ver \in Nat /\ fence[b].version \in Nat
            /\ fence'[b].version <= fence[b].version
            /\ fence'[b].version \in Nat
        <5>1. Version \cup {0} \subseteq Nat
          BY OwnerAssumption DEF Version
        <5> QED
          BY <1>1, <2>3, <3>2, <5>1, Fields DEF Fence
      <4>2. entry[Current(b)].ver <= fence[b].version
        BY <3>2, <4>1
      <4> QED
        BY <3>1, <3>2, <4>2 DEF RegistryInv, SlotInv, FencedOk
    <3> QED
      BY <2>1, <3>2 DEF FencedOk, Current
  <2> QED
    BY <2>1, <2>2, <2>3
<1> QED
  BY <1>1, <1>2, <1>4, <1>5 DEF RegistryInv, SlotInv, CallInv

\* StopAccount looks for the entry of its version.
LEMMA StopLookKeeps ==
    ASSUME RegistryInv, ~crashed, NEW p \in Caller, StopLook(p)
    PROVE  RegistryInv'
<1>0. /\ Types /\ CallOk(p) /\ call[p].stage = "stop" /\ lock = None
      /\ p \in Goroutine /\ p # Stopper /\ p \notin Worker
      /\ UNCHANGED <<status, table, slot, entry, todo>>
  BY Names DEF RegistryInv, CallInv, StopLook, In
<1>1. PICK a \in Account : /\ a = call[p].acct /\ call[p].ver \in Version
                           /\ SlotOk(a) /\ CurrentOk(a)
  BY <1>0 DEF CallOk, AimOk, RegistryInv, SlotInv
<1> DEFINE e == IF a \in table THEN slot[a].current ELSE None
           v == call[p].ver
<1>2. e = Current(a) /\ e \in Entry \cup {None}
  BY <1>0, <1>1, Fields DEF SlotOk, Current
<1>3. ASSUME Return(p) \/ ReturnOk(p), UNCHANGED <<lock, fences, crashed>>
      PROVE  RegistryInv'
  BY <1>0, <1>3, ReturnKeeps DEF fences
<1>4. ASSUME ReturnOk(p), CanRecord(a, v), Record(a, v, e # None), e = None,
             UNCHANGED <<lock, crashed>>
      PROVE  RegistryInv'
  <2>1. Written(p) /\ call'[p].stage = "idle" /\ call'[p].back = "none"
    BY <1>0, <1>4, ReturnCall
  <2>2. CallOk(p)'
    BY <1>0, <2>1, RestingOk
  <2>3. (e # None) \in BOOLEAN
    OBVIOUS
  <2> HIDE DEF e
  <2>4. /\ fence' \in [Account -> Fence]
        /\ \A b \in Account \ {a} : fence'[b].version <= fence[b].version
        /\ EnoughFences => \A b \in Account : fence[b].version <= fence'[b].version
    BY <1>0, <1>1, <1>4, <2>3, RecordKeeps
  <2> QED
    BY <1>0, <1>2, <1>4, <2>1, <2>2, <2>4, FenceStep
<1>5. ASSUME crashed' = TRUE, UNCHANGED <<lock, fences, call>>
      PROVE  RegistryInv'
  <2>1. Written(p)
    BY <1>0, <1>5 DEF Written, Types
  <2>2. CallOk(p)'
    BY <1>0, <1>1, <1>5 DEF CallOk, AimOk, LockOk, SlotsOk, WaitedOk, StopOk
  <2> QED
    BY <1>0, <1>5, <2>1, <2>2, CallOnly DEF fences, Types
<1>6. ASSUME CanRecord(a, v), Record(a, v, e # None), e # None,
             GotoWith(p, "seen", e), lock' = p, UNCHANGED crashed
      PROVE  RegistryInv'
  <2>1. Moved(p, "seen") /\ call'[p].entry = e
    BY <1>0, <1>2, <1>6, GotoWithCall DEF Stage
  <2>2. (e # None) \in BOOLEAN
    OBVIOUS
  <2> HIDE DEF e
  <2>3. /\ fence' \in [Account -> Fence] /\ fence'[a].version = v
        /\ \A b \in Account \ {a} : fence'[b].version <= fence[b].version
        /\ EnoughFences => \A b \in Account : fence[b].version <= fence'[b].version
    BY <1>0, <1>1, <1>6, <2>2, RecordKeeps
  <2>4. AimOk(p)' /\ LockOk(p)'
    BY <1>0, <1>1, <1>2, <1>6, <2>1 DEF AimOk, LockOk, Moved, CurrentOk
  <2>5. SlotsOk(p)' /\ WaitedOk(p)'
    BY <2>1 DEF SlotsOk, WaitedOk, Moved
  <2>6. StopOk(p)'
    <3>1. v \in Nat
      BY <1>1, OwnerAssumption DEF Version
    <3>2. v <= fence'[a].version
      BY <2>3, <3>1
    <3> QED
      BY <1>0, <1>1, <1>2, <1>6, <2>1, <3>2 DEF StopOk, Moved, Current
  <2> QED
    BY <1>0, <1>1, <1>2, <1>6, <2>1, <2>3, <2>4, <2>5, <2>6, FenceStep DEF CallOk, Moved
<1> HIDE DEF e, v
<1>7. \/ (Return(p) \/ ReturnOk(p)) /\ UNCHANGED <<lock, fences, crashed>>
      \/ crashed' = TRUE /\ UNCHANGED <<lock, fences, call>>
      \/ /\ CanRecord(a, v) /\ Record(a, v, e # None)
         /\ IF e = None THEN ReturnOk(p) /\ UNCHANGED lock
                        ELSE GotoWith(p, "seen", e) /\ lock' = p
         /\ UNCHANGED crashed
  BY <1>1 DEF StopLook, e, v
<1> QED
  BY <1>3, <1>4, <1>5, <1>6, <1>7

\* A revoke records its fence, or first tears down the private client that an
\* earlier revoke of its version left, or is refused.
LEMMA PrepareKeeps ==
    ASSUME RegistryInv, ~crashed, NEW p \in Caller, Prepare(p)
    PROVE  RegistryInv'
<1>0. /\ Types /\ CallOk(p) /\ call[p].stage = "prepare" /\ lock = None
      /\ p \in Goroutine /\ p # Stopper /\ p \notin Worker
      /\ UNCHANGED <<status, table, slot, entry, todo, crashed>>
  BY Names DEF RegistryInv, CallInv, Prepare, In, others
<1>1. PICK a \in Account : /\ a = call[p].acct /\ call[p].ver \in Version /\ CurrentOk(a)
                           /\ slot[a].gate = p /\ slot[a].revoking
  BY <1>0 DEF CallOk, AimOk, SlotsOk, RegistryInv, SlotInv
<1> DEFINE e == Current(a)
           v == call[p].ver
           new == [call[p] EXCEPT !.stage = "cleanup", !.entry = e, !.back = "prepare"]
<1>2. e \in Entry \cup {None} /\ call[p] \in Call
  BY <1>0, <1>1, Fields DEF Types
<1>3. ASSUME call' = [call EXCEPT ![p].stage = "cleanup", ![p].entry = e, ![p].back = "prepare"],
             e # None, UNCHANGED <<lock, fences>>
      PROVE  RegistryInv'
  <2>1. new \in Call /\ call' = [call EXCEPT ![p] = new]
    BY <1>0, <1>2, <1>3 DEF Types, Call, Stage
  <2>2. /\ Written(p) /\ call'[p].stage = "cleanup" /\ call'[p].entry = e
        /\ call'[p].acct = a /\ call'[p].ver = call[p].ver
    BY <1>0, <1>1, <2>1 DEF Types, Written, Call
  <2> HIDE DEF e
  <2>3. AimOk(p)' /\ LockOk(p)'
    BY <1>0, <1>1, <1>3, <2>2 DEF AimOk, LockOk, CurrentOk, e
  <2>4. SlotsOk(p)' /\ WaitedOk(p)' /\ StopOk(p)'
    BY <1>0, <1>1, <2>2 DEF SlotsOk, WaitedOk, StopOk
  <2> QED
    BY <1>0, <1>3, <2>2, <2>3, <2>4, CallOnly DEF CallOk, Types, fences
<1>4. ASSUME status = "open", CanRecord(a, v), Record(a, v, TRUE), lock' = p,
             GotoWith(p, "seize", e)
      PROVE  RegistryInv'
  <2>1. Moved(p, "seize") /\ call'[p].entry = e
    BY <1>0, <1>2, <1>4, GotoWithCall DEF Stage
  <2> HIDE DEF e
  <2>2. /\ fence' \in [Account -> Fence]
        /\ \A b \in Account \ {a} : fence'[b].version <= fence[b].version
        /\ EnoughFences => \A b \in Account : fence[b].version <= fence'[b].version
    BY <1>0, <1>1, <1>4, RecordKeeps
  <2>3. AimOk(p)' /\ LockOk(p)'
    BY <1>0, <1>1, <1>4, <2>1 DEF AimOk, LockOk, CurrentOk, Moved, Current, e
  <2>4. SlotsOk(p)' /\ WaitedOk(p)' /\ StopOk(p)'
    BY <1>0, <1>1, <2>1 DEF SlotsOk, WaitedOk, StopOk, Moved
  <2> QED
    BY <1>0, <1>1, <1>4, <2>1, <2>2, <2>3, <2>4, FenceStep DEF CallOk, Moved
<1>5. ASSUME Goto(p, "release"), UNCHANGED <<lock, fences>>
      PROVE  RegistryInv'
  <2>1. Moved(p, "release")
    BY <1>0, <1>5, GotoCall DEF Stage
  <2>2. AimOk(p)' /\ LockOk(p)' /\ SlotsOk(p)' /\ WaitedOk(p)' /\ StopOk(p)'
    BY <1>0, <1>1, <2>1 DEF AimOk, LockOk, SlotsOk, WaitedOk, StopOk, Moved
  <2> QED
    BY <1>0, <1>5, <2>2, GotoKeeps DEF CallOk, Stage, fences
<1> HIDE DEF e, v
<1>6. \/ /\ call' = [call EXCEPT ![p].stage = "cleanup", ![p].entry = e, ![p].back = "prepare"]
         /\ e # None /\ UNCHANGED <<lock, fences>>
      \/ /\ status = "open" /\ CanRecord(a, v) /\ Record(a, v, TRUE) /\ lock' = p
         /\ GotoWith(p, "seize", e)
      \/ Goto(p, "release") /\ UNCHANGED <<lock, fences>>
  BY <1>1 DEF Prepare, e, v, Current
<1> QED
  BY <1>3, <1>4, <1>5, <1>6

-----------------------------------------------------------------------------
(* New entries.                                                            *)

\* The holder of registry.mu gives a slot without an entry a new one: no fence
\* forbids it, or it is the private one of a revoke and the slot is closed.
LEMMA NewEntryStep ==
    ASSUME RegistryInv, ~crashed, NEW p \in Caller, NEW a \in Account, NEW e \in Entry,
           lock = p, lock' = None, status = "open", a \in table, call[p].acct = a,
           Current(a) = None, Unused(e),
           slot[a].gate = p \/ ~slot[a].closed,
           (entry'[e].private /\ slot'[a].closed) \/ entry'[e].ver > fence[a].version,
           entry' \in [Entry -> RuntimeEntry], entry'[e].acct = a,
           entry'[e].build = "building", entry'[e].owner = "none",
           \A f \in Entry \ {e} : entry'[f] = entry[f],
           slot' \in [Account -> Slot], slot'[a].current = e,
           \A b \in Account \ {a} : slot'[b] = slot[b],
           slot[a].closed => slot'[a].closed,
           slot[a].handles \subseteq slot'[a].handles, slot'[a].waiters = slot[a].waiters,
           slot'[a].active = slot[a].active, slot'[a].gate = slot[a].gate,
           slot'[a].revoking = slot[a].revoking,
           Written(p), CallOk(p)',
           UNCHANGED <<status, table, fence, todo, crashed>>
    PROVE  RegistryInv'
<1>1. Types /\ None \notin Entry /\ None \notin Goroutine /\ p \in Goroutine
  BY Names DEF RegistryInv
<1>4. Types' /\ TableFits'
  BY <1>1 DEF RegistryInv, Types, TableFits, Written
<1>5. ASSUME NEW f \in Entry
      PROVE  EntryOk(f)'
  <2>1. EntryOk(f)
    BY DEF RegistryInv, EntryInv
  <2>2. CASE f = e
    BY <2>2 DEF EntryOk, Current
  <2>3. CASE f # e
    <3>1. entry'[f] = entry[f] /\ (Alive(f)' <=> Alive(f))
      BY <2>3 DEF Alive, Client
    <3>2. Alive(f) => entry[f].acct # a
      BY <1>1, <2>1 DEF EntryOk
    <3> QED
      BY <2>1, <3>1, <3>2 DEF EntryOk, Current
  <2> QED
    BY <2>2, <2>3
<1>6. ASSUME NEW b \in Account
      PROVE  SlotOk(b)' /\ CurrentOk(b)' /\ FencedOk(b)'
  <2>1. SlotOk(b) /\ CurrentOk(b) /\ FencedOk(b) /\ Current(b) \in Entry \cup {None}
    BY <1>1, Fields DEF RegistryInv, SlotInv
  <2>2. CASE b = a
    <3>1. entry'[e].ver \in Nat /\ fence[a].version \in Nat
      <4>1. Version \cup {0} \subseteq Nat
        BY OwnerAssumption DEF Version
      <4> QED
        BY <1>1, <4>1, Fields DEF RuntimeEntry
    <3>2. entry'[e].ver <= fence[a].version => ~(entry'[e].ver > fence[a].version)
      BY <3>1
    <3>3. FencedOk(b)'
      BY <2>2, <3>2 DEF FencedOk, Current
    <3>4. SlotOk(b)' /\ CurrentOk(b)'
      BY <2>1, <2>2 DEF SlotOk, CurrentOk, Current
    <3> QED
      BY <3>3, <3>4
  <2>3. CASE b # a
    <3>1. Current(b) # e /\ ~Fencing(b) /\ slot'[b] = slot[b]
      BY <2>3 DEF Fencing, Unused, Current
    <3> QED
      BY <1>1, <2>1, <3>1 DEF SlotOk, CurrentOk, FencedOk, Current, Busy
  <2> QED
    BY <2>2, <2>3
<1>7. /\ \A f \in Entry : Unused(f) \/ SameEntry(f)
      /\ \A b \in Account : /\ CurrentKept(b)
                            /\ slot'[b].current # None /\ slot'[b].current = slot[b].current
                                   /\ slot[b].closed => slot'[b].closed
  BY DEF SameEntry, CurrentKept
<1>8. TodoOk'
  BY <1>4, <1>7, TodoKeeps
<1>9. ASSUME NEW q \in Goroutine, q # p
      PROVE  CallOk(q)'
  <2>1. ASSUME NEW b \in Account
        PROVE  SlotKept(q, b)
    <3>1. CASE b = a
      BY <1>7, <1>9, <3>1 DEF SlotKept
    <3>2. CASE b # a
      BY <1>7, <3>2 DEF SlotKept
    <3> QED
      BY <3>1, <3>2
  <2>2. ASSUME NEW f \in Entry
        PROVE  EntryKept(q, f)
    <3>1. CASE f = e
      BY <1>9, <3>1, InHand DEF EntryKept
    <3>2. CASE f # e
      BY <3>2 DEF EntryKept, SameEntry, Alive, Client
    <3> QED
      BY <3>1, <3>2
  <2>3. LockKept(q)
    BY <1>1, <1>9, Fields DEF LockKept
  <2> QED
    BY <1>4, <1>9, <2>1, <2>2, <2>3, OthersKeep DEF Undisturbed, Written
<1> QED
  BY <1>4, <1>5, <1>6, <1>8, <1>9 DEF RegistryInv, SlotInv, EntryInv, CallInv

\* The reservation of a slot for a new entry.
LEMMA ReserveFirstKeeps ==
    ASSUME RegistryInv, ~crashed, NEW p \in Caller, ReserveFirst(p)
    PROVE  RegistryInv'
<1>0. /\ Types /\ CallOk(p) /\ call[p].stage = "decide" /\ call[p].entry = None
      /\ p \in Goroutine /\ p # Stopper /\ p \notin Worker
      /\ UNCHANGED <<status, table, fence, todo, crashed>> /\ lock' = None
  BY Names DEF RegistryInv, CallInv, ReserveFirst, Decide, In, fences, others
<1>1. PICK a \in Account : /\ a = call[p].acct /\ call[p].ver \in Version /\ a \in table
                           /\ call[p].ver > fence[a].version /\ SlotOk(a)
                           /\ lock = p /\ status = "open" /\ Current(a) = None
  BY <1>0 DEF CallOk, AimOk, LockOk, RegistryInv, SlotInv
<1>2. PICK e \in Entry : /\ Unused(e) /\ GotoWith(p, "opened", e) /\ ~slot[a].closed
                         /\ slot' = [slot EXCEPT ![a].current = e, ![a].handles = @ \cup {p}]
                         /\ entry' = [entry EXCEPT ![e] = NewEntry(a, call[p].ver, FALSE)]
  BY <1>1 DEF ReserveFirst
<1> DEFINE s == [slot[a] EXCEPT !.current = e, !.handles = @ \cup {p}]
<1>3. /\ s \in Slot /\ s.current = e /\ s.handles = slot[a].handles \cup {p}
      /\ s.closed = slot[a].closed /\ s.waiters = slot[a].waiters
      /\ s.active = slot[a].active /\ s.gate = slot[a].gate /\ s.revoking = slot[a].revoking
  <2>1. slot[a].handles \cup {p} \subseteq Caller /\ slot[a] \in Slot
    BY <1>0 DEF Types, Slot
  <2> QED
    BY <2>1 DEF Slot
<1>4. slot' = [slot EXCEPT ![a] = s]
  BY <1>0, <1>2 DEF Types, Slot
<1> HIDE DEF s
<1>5. /\ slot' \in [Account -> Slot] /\ slot'[a] = s
      /\ \A b \in Account \ {a} : slot'[b] = slot[b]
  BY <1>0, <1>3, <1>4 DEF Types
<1>6. Moved(p, "opened") /\ call'[p].entry = e
  BY <1>0, <1>2, GotoWithCall DEF Stage
<1>7. /\ entry' \in [Entry -> RuntimeEntry]
      /\ entry'[e].acct = a /\ entry'[e].ver = call[p].ver
      /\ entry'[e].build = "building" /\ entry'[e].owner = "none"
      /\ \A f \in Entry \ {e} : entry'[f] = entry[f]
  <2>1. NewEntry(a, call[p].ver, FALSE) \in RuntimeEntry
    BY <1>1 DEF NewEntry, NoEntry, RuntimeEntry, Done
  <2> QED
    BY <1>0, <1>2, <2>1 DEF Types, NewEntry, NoEntry
<1>8. AimOk(p)' /\ LockOk(p)'
  BY <1>0, <1>1, <1>6, <1>7, Names DEF AimOk, LockOk, Moved
<1>9. SlotsOk(p)' /\ WaitedOk(p)' /\ StopOk(p)'
  BY <1>1, <1>3, <1>5, <1>6 DEF SlotsOk, WaitedOk, StopOk, Moved
<1>10. /\ Unused(e) /\ ~slot[a].closed /\ slot'[a].current = e
       /\ slot[a].handles \subseteq slot'[a].handles
       /\ slot'[a].waiters = slot[a].waiters /\ slot'[a].active = slot[a].active
       /\ slot'[a].gate = slot[a].gate /\ slot'[a].revoking = slot[a].revoking
  BY <1>2, <1>3, <1>5
<1>11. CallOk(p)' /\ Written(p)
  BY <1>6, <1>8, <1>9 DEF CallOk, Moved
<1>12. entry'[e].ver > fence[a].version
  BY <1>1, <1>7
<1> QED
  BY <1>0, <1>1, <1>5, <1>7, <1>10, <1>11, <1>12, NewEntryStep

\* A revoke takes the slot and its entry for itself.
LEMMA SeizeKeeps ==
    ASSUME RegistryInv, ~crashed, NEW p \in Caller, Seize(p)
    PROVE  RegistryInv'
<1>0. /\ Types /\ CallOk(p) /\ call[p].stage = "seize"
      /\ p \in Goroutine /\ p # Stopper /\ p \notin Worker
      /\ UNCHANGED <<status, table, fence, todo, crashed>> /\ lock' = None
  BY Names DEF RegistryInv, CallInv, Seize, In, fences, others
<1>1. PICK a \in Account : /\ a = call[p].acct /\ call[p].ver \in Version
                           /\ SlotOk(a) /\ slot[a].gate = p /\ slot[a].revoking
                           /\ lock = p /\ status = "open"
                           /\ call[p].entry = None => Current(a) = None
  BY <1>0 DEF CallOk, AimOk, LockOk, SlotsOk, RegistryInv, SlotInv
<1>2. a \in table
  BY <1>1 DEF SlotOk, Busy
<1>3. CASE call[p].entry # None
  <2>1. /\ slot' = [slot EXCEPT ![a].closed = TRUE] /\ Goto(p, "revoking")
        /\ UNCHANGED entry
    BY <1>1, <1>3 DEF Seize
  <2>2. /\ slot' \in [Account -> Slot]
        /\ \A b \in Account \ {a} : slot'[b] = slot[b]
        /\ slot'[a].current = slot[a].current /\ slot'[a].closed
        /\ slot'[a].handles = slot[a].handles /\ slot'[a].waiters = slot[a].waiters
        /\ slot'[a].active = slot[a].active /\ slot'[a].gate = slot[a].gate
        /\ slot'[a].revoking = slot[a].revoking
    BY <1>0, <2>1, SlotCloses
  <2>3. Moved(p, "revoking") /\ call'[p].entry = call[p].entry
    BY <1>0, <2>1, GotoCall DEF Stage
  <2>4. OneSlot(p, a)
    BY <2>2 DEF OneSlot
  <2>5. AimOk(p)' /\ LockOk(p)'
    BY <1>0, <1>1, <1>3, <2>1, <2>3 DEF CallOk, AimOk, LockOk, Moved
  <2>6. SlotsOk(p)' /\ WaitedOk(p)' /\ StopOk(p)'
    BY <1>1, <2>2, <2>3 DEF SlotsOk, WaitedOk, StopOk, Moved
  <2>7. SlotOk(a)'
    BY <1>0, <1>1, <1>2, <2>2 DEF SlotOk
  <2> QED
    BY <1>0, <1>1, <2>1, <2>2, <2>3, <2>4, <2>5, <2>6, <2>7, OneSlotStep DEF CallOk, Moved, Types
<1>4. CASE call[p].entry = None
  <2>1. PICK e \in Entry : /\ Unused(e) /\ GotoWith(p, "revoking", e)
                           /\ slot' = [slot EXCEPT ![a].closed = TRUE, ![a].current = e]
                           /\ entry' = [entry EXCEPT ![e] = NewEntry(a, call[p].ver, TRUE)]
    BY <1>1, <1>4 DEF Seize
  <2> DEFINE s == [slot[a] EXCEPT !.closed = TRUE, !.current = e]
  <2>2. /\ s \in Slot /\ s.current = e /\ s.handles = slot[a].handles
        /\ s.closed /\ s.waiters = slot[a].waiters
        /\ s.active = slot[a].active /\ s.gate = slot[a].gate /\ s.revoking = slot[a].revoking
    <3>1. slot[a] \in Slot
      BY <1>0 DEF Types
    <3> QED
      BY <3>1 DEF Slot
  <2>3. slot' = [slot EXCEPT ![a] = s]
    BY <2>1
  <2> HIDE DEF s
  <2>4. /\ slot' \in [Account -> Slot] /\ slot'[a] = s
        /\ \A b \in Account \ {a} : slot'[b] = slot[b]
    BY <1>0, <2>2, <2>3 DEF Types
  <2>5. Moved(p, "revoking") /\ call'[p].entry = e
    BY <1>0, <2>1, GotoWithCall DEF Stage
  <2>6. /\ entry' \in [Entry -> RuntimeEntry]
        /\ entry'[e].acct = a /\ entry'[e].private
        /\ entry'[e].build = "building" /\ entry'[e].owner = "none"
        /\ \A f \in Entry \ {e} : entry'[f] = entry[f]
    <3>1. NewEntry(a, call[p].ver, TRUE) \in RuntimeEntry
      BY <1>1 DEF NewEntry, NoEntry, RuntimeEntry, Done
    <3> QED
      BY <1>0, <2>1, <3>1 DEF Types, NewEntry, NoEntry
  <2>7. AimOk(p)' /\ LockOk(p)'
    BY <1>0, <1>1, <2>5, <2>6, Names DEF AimOk, LockOk, Moved
  <2>8. SlotsOk(p)' /\ WaitedOk(p)' /\ StopOk(p)'
    BY <1>1, <2>2, <2>4, <2>5 DEF SlotsOk, WaitedOk, StopOk, Moved
  <2>9. /\ Unused(e) /\ slot'[a].closed /\ slot'[a].current = e /\ Current(a) = None
        /\ slot[a].handles \subseteq slot'[a].handles
        /\ slot'[a].waiters = slot[a].waiters /\ slot'[a].active = slot[a].active
        /\ slot'[a].gate = slot[a].gate /\ slot'[a].revoking = slot[a].revoking
    BY <1>1, <1>4, <2>1, <2>2, <2>4
  <2>10. CallOk(p)' /\ Written(p)
    BY <2>5, <2>7, <2>8 DEF CallOk, Moved
  <2> QED
    BY <1>0, <1>1, <1>2, <2>4, <2>6, <2>9, <2>10, NewEntryStep
<1> QED
  BY <1>3, <1>4

-----------------------------------------------------------------------------
(* Steps of an entry, and of its owner.                                    *)

\* The entry e changes, by itself or by the goroutines P; it does not come back
\* to life, and does not end under a callback.  Its slot may lose it once it is
\* dead, unless a teardown has closed it.
EntryMove(e, P) ==
    /\ \A f \in Entry \ {e} : entry'[f] = entry[f]
    /\ SameEntry(e)
    /\ entry'[e].build = "built" <=> entry'[e].owner # "none"
    /\ Alive(e)' => Alive(e)
    /\ entry[e].build # "building" => entry'[e].build # "building"
    /\ \A q \in Goroutine \ P : CallbackIn(q, e) /\ entry[e].owner \in {"running", "stopping"} =>
          entry'[e].owner \in {"running", "stopping"}
    /\ \A q \in Goroutine \ P : call'[q] = call[q]
    /\ \A q \in P : call[q].stage \notin {"seen", "seize"}
    /\ \A b \in Account :
          \/ slot'[b] = slot[b]
          \/ /\ slot[b].current = e /\ slot'[b].current = None /\ ~Alive(e)'
             /\ ~slot[b].closed \/ slot[b].revoking
             /\ slot'[b].closed = slot[b].closed
             /\ slot'[b].handles = slot[b].handles /\ slot'[b].waiters = slot[b].waiters
             /\ slot'[b].active = slot[b].active /\ slot'[b].gate = slot[b].gate
             /\ slot'[b].revoking = slot[b].revoking
    /\ table' \subseteq table
    /\ UNCHANGED table \/ lock = None

\* A step that moves one entry along its life, and the calls that use it.
LEMMA EntryMoves ==
    ASSUME RegistryInv, ~crashed, Types', NEW e \in Entry, NEW P \in SUBSET Goroutine,
           EntryMove(e, P), \A q \in P : CallOk(q)', \A a \in Account : SlotOk(a)',
           UNCHANGED <<lock, status, fence, todo, crashed>>
    PROVE  RegistryInv'
<1>1. Types /\ None \notin Entry /\ None \notin Goroutine
  BY Names DEF RegistryInv
<1>2. ASSUME NEW f \in Entry
      PROVE  /\ SameEntry(f) /\ (Alive(f)' => Alive(f))
             /\ entry'[f].build = "built" <=> entry'[f].owner # "none"
             /\ entry[f].build # "building" => entry'[f].build # "building"
             /\ ~Alive(f) => ~Alive(f)'
  <2>1. CASE f = e
    BY <2>1 DEF EntryMove
  <2>2. CASE f # e
    BY <2>2 DEF EntryMove, SameEntry, Alive, Client, RegistryInv, EntryInv, EntryOk
  <2> QED
    BY <2>1, <2>2
<1>3. ASSUME NEW b \in Account
      PROVE  /\ slot'[b].current \in {slot[b].current, None}
             /\ slot'[b].closed = slot[b].closed
             /\ \A f \in Entry : slot[b].current = f /\ slot'[b].current # f => ~Alive(f)'
             /\ slot'[b].handles = slot[b].handles /\ slot'[b].waiters = slot[b].waiters
             /\ slot'[b].active = slot[b].active /\ slot'[b].gate = slot[b].gate
             /\ slot'[b].revoking = slot[b].revoking
             /\ slot[b].closed /\ ~slot[b].revoking => slot'[b].current = slot[b].current
  BY DEF EntryMove
<1>4. Calm
  <2>1. \A b \in Account : fence'[b].version <= fence[b].version
    BY <1>1, Fields
  <2> QED
    BY <1>2, <1>3, <2>1 DEF Calm
<1>5. FencingKept
  BY Names DEF FencingKept, EntryMove
<1>6. TableFits'
  <2>1. IsFiniteSet(table) /\ Cardinality(table) <= Capacity /\ table' \subseteq table
    BY DEF RegistryInv, TableFits, EntryMove
  <2>2. IsFiniteSet(table') /\ Cardinality(table') <= Cardinality(table)
        /\ Cardinality(table) \in Nat /\ Cardinality(table') \in Nat
    BY <2>1, FS_Subset, FS_CardinalityType
  <2> QED
    BY <2>1, <2>2, OwnerAssumption DEF TableFits
<1>7. ASSUME NEW q \in Goroutine, q \notin P
      PROVE  CallOk(q)'
  <2>1. \A b \in Account : SlotKept(q, b)
    BY <1>3 DEF SlotKept, CurrentKept
  <2>2. ASSUME NEW f \in Entry
        PROVE  EntryKept(q, f)
    <3>1. CallbackIn(q, f) /\ entry[f].owner \in {"running", "stopping"} =>
              entry'[f].owner \in {"running", "stopping"}
      BY <1>7 DEF EntryMove
    <3> QED
      BY <1>2, <3>1 DEF EntryKept
  <2>3. LockKept(q)
    BY <1>1, <1>3, Fields DEF LockKept, EntryMove, Current
  <2> QED
    BY <1>7, <2>1, <2>2, <2>3, OthersKeep DEF Undisturbed, EntryMove
<1>8. TodoOk'
  <2>1. \A b \in Account : CurrentKept(b)
    BY <1>3 DEF CurrentKept
  <2> QED
    BY <1>2, <1>3, <2>1, TodoKeeps
<1> QED
  BY <1>4, <1>5, <1>6, <1>7, <1>8, CalmKeeps, FencedKeep DEF RegistryInv, SlotInv, CallInv

\* owner.Stop: a client is told to stop, or will never start.
LEMMA OwnerStops ==
    ASSUME Types, EntryInv, NEW e \in Entry, StopOwner(e)
    PROVE  /\ entry' \in [Entry -> RuntimeEntry]
           /\ \A f \in Entry \ {e} : entry'[f] = entry[f]
           /\ SameEntry(e) /\ entry'[e].build = entry[e].build
           /\ entry'[e].build = "built" <=> entry'[e].owner # "none"
           /\ Alive(e)' => Alive(e)
           /\ entry[e].owner \in {"running", "stopping"} => entry'[e].owner \in {"running", "stopping"}
<1>0. entry \in [Entry -> RuntimeEntry] /\ entry[e] \in RuntimeEntry /\ EntryOk(e)
  BY DEF Types, EntryInv
<1>1. CASE entry[e].owner = "running"
  <2>1. entry' = [entry EXCEPT ![e] = [entry[e] EXCEPT !.owner = "stopping"]]
    BY <1>0, <1>1 DEF StopOwner
  <2>2. [entry[e] EXCEPT !.owner = "stopping"] \in RuntimeEntry
    BY <1>0 DEF RuntimeEntry
  <2> QED
    BY <1>0, <1>1, <2>1, <2>2 DEF EntryOk, SameEntry, Alive, Client, RuntimeEntry
<1>2. CASE entry[e].owner = "fresh"
  <2>1. entry' = [entry EXCEPT ![e] = [entry[e] EXCEPT !.owner = "ended", !.result = "ok"]]
    BY <1>0, <1>2 DEF StopOwner
  <2>2. [entry[e] EXCEPT !.owner = "ended", !.result = "ok"] \in RuntimeEntry
    BY <1>0 DEF RuntimeEntry, Done
  <2> QED
    BY <1>0, <1>2, <2>1, <2>2 DEF EntryOk, SameEntry, Alive, Client, RuntimeEntry
<1>3. CASE entry[e].owner \notin {"running", "fresh"}
  <2>1. entry' = [entry EXCEPT ![e] = entry[e]]
    BY <1>0, <1>3 DEF StopOwner
  <2>2. entry' = entry
    BY <1>0, <2>1
  <2> QED
    BY <1>0, <2>2 DEF EntryOk, SameEntry, Alive, Client
<1> QED
  BY <1>1, <1>2, <1>3

\* The client of an entry is stopped by its teardown or by the revoke.
LEMMA StopsKeep ==
    ASSUME RegistryInv, ~crashed, NEW p \in Goroutine,
           TeardownStops(p) \/ (p \in Caller /\ RevokeStops(p))
    PROVE  RegistryInv'
<1>0. /\ Types /\ CallOk(p) /\ call[p] \in Call
      /\ UNCHANGED <<lock, status, table, slot, fence, todo, crashed>>
      /\ p \in Caller => p # Stopper /\ p \notin Worker
  BY Names DEF RegistryInv, CallInv, Types, TeardownStops, RevokeStops, registry, fences, others
<1>1. call[p].stage \in {"stopOwner", "cleanup"} /\ StopOwner(call[p].entry)
  BY DEF TeardownStops, RevokeStops, In
<1>2. PICK e \in Entry : e = call[p].entry
  BY <1>0, <1>1, Fields DEF CallOk, AimOk
<1>3. /\ entry' \in [Entry -> RuntimeEntry]
      /\ \A f \in Entry \ {e} : entry'[f] = entry[f]
      /\ SameEntry(e) /\ entry'[e].build = entry[e].build
      /\ entry'[e].build = "built" <=> entry'[e].owner # "none"
      /\ Alive(e)' => Alive(e)
      /\ entry[e].owner \in {"running", "stopping"} => entry'[e].owner \in {"running", "stopping"}
  BY <1>0, <1>1, <1>2, OwnerStops DEF RegistryInv
<1>4. Written(p) /\ CallOk(p)'
  <2>1. CASE TeardownStops(p)
    <3>1. call[p].stage = "stopOwner" /\ Goto(p, "join")
      BY <2>1 DEF TeardownStops, In
    <3>2. Moved(p, "join") /\ call'[p].entry = e
      BY <1>0, <1>2, <3>1, GotoCall DEF Stage
    <3>3. AimOk(p)' /\ LockOk(p)'
      BY <1>0, <1>2, <1>3, <3>1, <3>2 DEF CallOk, AimOk, LockOk, Moved, SameEntry
    <3>4. SlotsOk(p)' /\ WaitedOk(p)'
      BY <1>0, <1>2, <1>3, <3>1, <3>2 DEF CallOk, SlotsOk, WaitedOk, Moved, Current
    <3>5. StopOk(p)'
      <4>1. \A f \in Entry : SameEntry(f)
        BY <1>3 DEF SameEntry
      <4> QED
        BY <1>0, <1>2, <3>1, <3>2, <4>1 DEF CallOk, StopOk, Moved, SameEntry, Current
    <3> QED
      BY <3>2, <3>3, <3>4, <3>5 DEF Moved, CallOk
  <2>2. CASE p \in Caller /\ RevokeStops(p)
    <3>1. PICK built \in BOOLEAN :
            /\ built => entry[e].build # "building"
            /\ call' = [call EXCEPT ![p].stage = "joining", ![p].ok = built]
      <4>1. \E built \in {FALSE, entry[e].build # "building" /\ ~BuildExpired(e)} :
                call' = [call EXCEPT ![p].stage = "joining", ![p].ok = built]
        BY <1>2, <2>2 DEF RevokeStops
      <4>2. CASE call' = [call EXCEPT ![p].stage = "joining", ![p].ok = FALSE]
        BY <4>2
      <4>3. CASE ~(entry[e].build # "building" /\ ~BuildExpired(e))
        BY <4>1, <4>3, <4>2
      <4>4. CASE entry[e].build # "building" /\ ~BuildExpired(e)
        BY <4>1, <4>2, <4>4
      <4> QED
        BY <4>3, <4>4
    <3> DEFINE new == [call[p] EXCEPT !.stage = "joining", !.ok = built]
    <3>2. new \in Call /\ call' = [call EXCEPT ![p] = new]
      <4>1. call[p] \in Call /\ "joining" \in Stage
        BY <1>0 DEF Types, Stage
      <4>2. new \in Call
        BY <4>1 DEF Call
      <4>3. call' = [call EXCEPT ![p] = new]
        BY <3>1
      <4> QED
        BY <4>2, <4>3
    <3>3. /\ Written(p) /\ call'[p].stage = "joining" /\ call'[p].ok = built
          /\ call'[p].acct = call[p].acct /\ call'[p].ver = call[p].ver
          /\ call'[p].at = call[p].at /\ call'[p].entry = e
      BY <1>0, <1>2, <3>1, <3>2 DEF Types, Written, Call
    <3>4. call[p].stage = "cleanup"
      BY <2>2 DEF RevokeStops, In
    <3>5. AimOk(p)' /\ LockOk(p)'
      BY <1>0, <1>2, <1>3, <2>2, <3>3, <3>4 DEF CallOk, AimOk, LockOk, SameEntry
    <3>6. SlotsOk(p)' /\ WaitedOk(p)' /\ StopOk(p)'
      BY <1>0, <1>3, <3>1, <3>3, <3>4 DEF CallOk, SlotsOk, WaitedOk, StopOk
    <3> QED
      BY <3>3, <3>5, <3>6 DEF CallOk
  <2> QED
    BY <2>1, <2>2
<1>5. Types' /\ \A a \in Account : SlotOk(a)'
  BY <1>0, <1>3, <1>4 DEF Types, Written, RegistryInv, SlotInv, SlotOk, Busy
<1>6. EntryMove(e, {p})
  BY <1>0, <1>1, <1>3, <1>4 DEF EntryMove, Written
<1> QED
  BY <1>0, <1>4, <1>5, <1>6, EntryMoves

\* buildEntry: the client is there, or the entry is given up.
LEMMA BuildKeeps ==
    ASSUME RegistryInv, ~crashed, NEW e \in Entry, Build(e)
    PROVE  RegistryInv'
<1>0. /\ Types /\ EntryOk(e) /\ entry[e] \in RuntimeEntry /\ entry[e].build = "building" /\ lock = None
      /\ UNCHANGED <<lock, status, fence, call, todo, crashed>>
  BY DEF RegistryInv, EntryInv, Build, fences, others, Types
<1>1. PICK a \in Account : /\ a = entry[e].acct /\ Current(a) = e /\ SlotOk(a)
                           /\ entry[e].owner = "none"
  BY <1>0 DEF EntryOk, Alive, RegistryInv, SlotInv
<1> DEFINE dropped == [slot[a] EXCEPT !.current = None]
<1>2. /\ dropped \in Slot /\ dropped.current = None
      /\ dropped.closed = slot[a].closed
      /\ dropped.handles = slot[a].handles /\ dropped.waiters = slot[a].waiters
      /\ dropped.active = slot[a].active /\ dropped.gate = slot[a].gate
      /\ dropped.revoking = slot[a].revoking
  BY <1>0 DEF Types, Slot
<1>3. \E b, o \in {"built", "refused", "failed", "fresh", "none"} :
          /\ b = "built" <=> o = "fresh"
          /\ b # "fresh" /\ b # "none" /\ o \in {"fresh", "none"}
          /\ entry' = [entry EXCEPT ![e] = [entry[e] EXCEPT !.build = b, !.owner = o]]
          /\ \/ UNCHANGED <<slot, table>>
             \/ /\ b = "failed" /\ (~slot[a].closed \/ slot[a].revoking)
                /\ slot' = [slot EXCEPT ![a] = dropped]
                /\ table' = Swept(a, dropped)
  <2> HIDE DEF dropped
  <2>1. \/ /\ entry' = [entry EXCEPT ![e].build = "built", ![e].owner = "fresh"]
           /\ UNCHANGED <<slot, table>>
        \/ /\ entry' = [entry EXCEPT ![e].build = "refused"]
           /\ UNCHANGED <<slot, table>>
        \/ /\ entry' = [entry EXCEPT ![e].build = "failed"]
           /\ \/ UNCHANGED <<slot, table>>
              \/ /\ ~slot[a].closed \/ slot[a].revoking
                 /\ slot' = [slot EXCEPT ![a] = dropped]
                 /\ table' = Swept(a, dropped)
    BY <1>1 DEF Build, dropped
  <2>2. CASE entry' = [entry EXCEPT ![e].build = "built", ![e].owner = "fresh"] /\ UNCHANGED <<slot, table>>
    <3>1. entry' = [entry EXCEPT ![e] = [entry[e] EXCEPT !.build = "built", !.owner = "fresh"]]
      BY <1>0, <2>2 DEF Types, RuntimeEntry
    <3> QED
      BY <2>2, <3>1
  <2>3. ASSUME NEW b \in {"refused", "failed"}, entry' = [entry EXCEPT ![e].build = b]
        PROVE  entry' = [entry EXCEPT ![e] = [entry[e] EXCEPT !.build = b, !.owner = "none"]]
    BY <1>0, <1>1, <2>3 DEF Types, RuntimeEntry
  <2> QED
    BY <2>1, <2>2, <2>3
<1>4. PICK b, o \in {"built", "refused", "failed", "fresh", "none"} :
          /\ b = "built" <=> o = "fresh"
          /\ b # "fresh" /\ b # "none" /\ o \in {"fresh", "none"}
          /\ entry' = [entry EXCEPT ![e] = [entry[e] EXCEPT !.build = b, !.owner = o]]
          /\ \/ UNCHANGED <<slot, table>>
             \/ /\ b = "failed" /\ (~slot[a].closed \/ slot[a].revoking)
                /\ slot' = [slot EXCEPT ![a] = dropped]
                /\ table' = Swept(a, dropped)
  BY <1>3
<1> HIDE DEF dropped
<1>5. /\ entry' \in [Entry -> RuntimeEntry]
      /\ \A f \in Entry \ {e} : entry'[f] = entry[f]
      /\ SameEntry(e) /\ entry'[e].build = b /\ entry'[e].owner = o
  <2>1. [entry[e] EXCEPT !.build = b, !.owner = o] \in RuntimeEntry
    BY <1>0, <1>4 DEF RuntimeEntry
  <2> QED
    BY <1>0, <1>4, <2>1 DEF Types, SameEntry, RuntimeEntry
<1>6. ~(b = "failed") \/ ~Alive(e)'
  BY <1>4, <1>5 DEF Alive, Client
<1>7. /\ slot' \in [Account -> Slot] /\ table' \subseteq table
      /\ slot'[a] = slot[a] \/ (slot'[a] = dropped /\ b = "failed" /\ (~slot[a].closed \/ slot[a].revoking))
      /\ \A c \in Account \ {a} : slot'[c] = slot[c]
      /\ \/ UNCHANGED table /\ slot'[a].current \in {slot[a].current, None}
         \/ table' = table \ {a} /\ Removable(slot'[a]) /\ ~Busy(slot'[a])
  BY <1>0, <1>2, <1>4 DEF Types, Swept
<1>8. Types'
  BY <1>0, <1>5, <1>7 DEF Types
<1>9. ASSUME NEW c \in Account
      PROVE  SlotOk(c)'
  <2>1. SlotOk(c)
    BY DEF RegistryInv, SlotInv
  <2> QED
    BY <1>2, <1>7, <2>1 DEF SlotOk, Busy, Removable
<1>10. EntryMove(e, {})
  <2>1. \A c \in Account :
          \/ slot'[c] = slot[c]
          \/ /\ slot[c].current = e /\ slot'[c].current = None /\ ~Alive(e)'
             /\ ~slot[c].closed \/ slot[c].revoking
             /\ slot'[c].closed = slot[c].closed
             /\ slot'[c].handles = slot[c].handles /\ slot'[c].waiters = slot[c].waiters
             /\ slot'[c].active = slot[c].active /\ slot'[c].gate = slot[c].gate
             /\ slot'[c].revoking = slot[c].revoking
    BY <1>1, <1>2, <1>6, <1>7 DEF Current
  <2>2. Alive(e) /\ entry[e].owner \notin {"running", "stopping"}
    BY <1>0, <1>1 DEF Alive
  <2>3. entry'[e].build = "built" <=> entry'[e].owner # "none"
    BY <1>4, <1>5
  <2> QED
    BY <1>0, <1>5, <1>7, <2>1, <2>2, <2>3 DEF EntryMove
<1> QED
  BY <1>0, <1>8, <1>9, <1>10, EntryMoves

\* runEntry and finishStoppedEntry.
LEMMA RunKeeps ==
    ASSUME RegistryInv, ~crashed, NEW e \in Entry,
           StartRun(e) \/ RunEnds(e) \/ RunNoted(e) \/ RunSwept(e)
    PROVE  RegistryInv'
<1>0. /\ Types /\ EntryOk(e) /\ entry[e] \in RuntimeEntry
      /\ UNCHANGED <<lock, status, fence, call, todo, crashed>>
  BY DEF RegistryInv, EntryInv, StartRun, RunEnds, RunNoted, RunSwept, registry, fences, others, Types
<1>1. \E o \in {"running", "ended", "noted", "swept"}, r \in {"none", "ok", "error", "deadline"} :
          /\ entry[e].owner # "none" /\ (o = "running" => entry[e].owner = "fresh")
          /\ o = "ended" => \A p \in Caller : ~CallbackIn(p, e)
          /\ entry[e].owner \in {"running", "stopping"} => o = "ended"
          /\ entry' = [entry EXCEPT ![e] = [entry[e] EXCEPT !.owner = o, !.result = r]]
  <2>1. CASE StartRun(e)
    <3>1. entry' = [entry EXCEPT ![e] = [entry[e] EXCEPT !.owner = "running", !.result = entry[e].result]]
      BY <1>0, <2>1 DEF StartRun, Types, RuntimeEntry
    <3>2. entry[e].result \in {"none", "ok", "error", "deadline"} /\ entry[e].owner = "fresh"
      BY <1>0, <2>1 DEF StartRun, RuntimeEntry
    <3> QED
      BY <3>1, <3>2
  <2>2. CASE RunEnds(e)
    <3>1. PICK r \in {"ok", "error", "deadline"} :
              entry' = [entry EXCEPT ![e].owner = "ended", ![e].result = r]
      BY <2>2 DEF RunEnds
    <3>2. entry' = [entry EXCEPT ![e] = [entry[e] EXCEPT !.owner = "ended", !.result = r]]
      BY <1>0, <3>1 DEF Types, RuntimeEntry
    <3> QED
      BY <2>2, <3>2 DEF RunEnds
  <2>3. CASE RunNoted(e)
    <3>1. entry' = [entry EXCEPT ![e] = [entry[e] EXCEPT !.owner = "noted", !.result = entry[e].result]]
      BY <1>0, <2>3 DEF RunNoted, Types, RuntimeEntry
    <3>2. entry[e].result \in {"none", "ok", "error", "deadline"} /\ entry[e].owner = "ended"
      BY <1>0, <2>3 DEF RunNoted, RuntimeEntry
    <3> QED
      BY <3>1, <3>2
  <2>4. CASE RunSwept(e)
    <3>1. entry' = [entry EXCEPT ![e] = [entry[e] EXCEPT !.owner = "swept", !.result = entry[e].result]]
      BY <1>0, <2>4 DEF RunSwept, Types, RuntimeEntry
    <3>2. entry[e].result \in {"none", "ok", "error", "deadline"} /\ entry[e].owner = "noted"
      BY <1>0, <2>4 DEF RunSwept, RuntimeEntry
    <3> QED
      BY <3>1, <3>2
  <2> QED
    BY <2>1, <2>2, <2>3, <2>4
<1>2. PICK o \in {"running", "ended", "noted", "swept"}, r \in {"none", "ok", "error", "deadline"} :
          /\ entry[e].owner # "none" /\ (o = "running" => entry[e].owner = "fresh")
          /\ o = "ended" => \A p \in Caller : ~CallbackIn(p, e)
          /\ entry[e].owner \in {"running", "stopping"} => o = "ended"
          /\ entry' = [entry EXCEPT ![e] = [entry[e] EXCEPT !.owner = o, !.result = r]]
  BY <1>1
<1>3. /\ entry' \in [Entry -> RuntimeEntry]
      /\ \A f \in Entry \ {e} : entry'[f] = entry[f]
      /\ SameEntry(e) /\ entry'[e].build = entry[e].build /\ entry'[e].owner = o
  <2>1. [entry[e] EXCEPT !.owner = o, !.result = r] \in RuntimeEntry
    BY <1>0, <1>2 DEF RuntimeEntry, Done
  <2> QED
    BY <1>0, <1>2, <2>1 DEF Types, SameEntry, RuntimeEntry
<1>4. entry[e].build = "built"
  BY <1>0, <1>2 DEF EntryOk
<1>5. /\ entry'[e].build = "built" <=> entry'[e].owner # "none"
      /\ Alive(e)' => Alive(e)
      /\ o # "running" => ~Alive(e)'
  BY <1>2, <1>3, <1>4 DEF Alive, Client
<1>6. \E a : /\ a = entry[e].acct
             /\ \/ UNCHANGED <<slot, table>>
                \/ /\ slot[a].current = e /\ ~slot[a].closed /\ o = "noted"
                   /\ slot' = [slot EXCEPT ![a].current = None] /\ UNCHANGED table
                \/ table' = Swept(a, slot[a]) /\ UNCHANGED slot /\ lock = None
  <2>1. CASE StartRun(e) \/ RunEnds(e)
    BY <2>1 DEF StartRun, RunEnds, registry
  <2>2. CASE RunNoted(e)
    <3>1. entry[e].owner = "ended" /\ entry' = [entry EXCEPT ![e].owner = "noted"]
      BY <2>2 DEF RunNoted
    <3>2. entry'[e].owner = "noted"
      BY <1>0, <3>1 DEF Types, RuntimeEntry
    <3> QED
      BY <1>3, <2>2, <3>2 DEF RunNoted, registry
  <2>3. CASE RunSwept(e)
    BY <2>3 DEF RunSwept
  <2> QED
    BY <2>1, <2>2, <2>3
<1>7. PICK a : /\ a = entry[e].acct
               /\ \/ UNCHANGED <<slot, table>>
                  \/ /\ slot[a].current = e /\ ~slot[a].closed /\ o = "noted"
                     /\ slot' = [slot EXCEPT ![a].current = None] /\ UNCHANGED table
                  \/ table' = Swept(a, slot[a]) /\ UNCHANGED slot /\ lock = None
  BY <1>6
<1>8. /\ slot' \in [Account -> Slot]
      /\ \A b \in Account :
          \/ slot'[b] = slot[b]
          \/ /\ slot[b].current = e /\ slot'[b].current = None /\ o = "noted"
             /\ ~slot[b].closed
             /\ slot'[b].closed = slot[b].closed
             /\ slot'[b].handles = slot[b].handles /\ slot'[b].waiters = slot[b].waiters
             /\ slot'[b].active = slot[b].active /\ slot'[b].gate = slot[b].gate
             /\ slot'[b].revoking = slot[b].revoking
  <2>1. CASE UNCHANGED slot
    BY <1>0, <2>1 DEF Types
  <2>2. CASE ~UNCHANGED slot /\ a \in Account
    <3> DEFINE s == [slot[a] EXCEPT !.current = None]
    <3>1. slot[a] \in Slot
      BY <1>0, <2>2 DEF Types
    <3>2. /\ s \in Slot /\ s.current = None /\ s.closed = slot[a].closed
          /\ s.handles = slot[a].handles /\ s.waiters = slot[a].waiters
          /\ s.active = slot[a].active /\ s.gate = slot[a].gate /\ s.revoking = slot[a].revoking
      BY <3>1 DEF Slot
    <3>3. /\ slot[a].current = e /\ ~slot[a].closed /\ o = "noted"
          /\ slot' = [slot EXCEPT ![a] = s]
      BY <1>7, <2>2
    <3> HIDE DEF s
    <3>4. /\ slot' \in [Account -> Slot] /\ slot'[a] = s
          /\ \A b \in Account \ {a} : slot'[b] = slot[b]
      BY <1>0, <2>2, <3>2, <3>3, SlotPut
    <3> QED
      BY <3>2, <3>3, <3>4
  <2>3. CASE ~UNCHANGED slot /\ a \notin Account
    <3>1. slot' = [slot EXCEPT ![a].current = None]
      BY <1>7, <2>3
    <3>2. slot' = slot
      BY <1>0, <2>3, <3>1 DEF Types
    <3> QED
      BY <2>3, <3>2
  <2> QED
    BY <2>1, <2>2, <2>3
<1>9. /\ table' \subseteq table /\ (UNCHANGED table \/ lock = None)
      /\ \A b \in Account : SlotOk(b)'
  <2>1. CASE UNCHANGED table
    BY <1>8, <2>1 DEF RegistryInv, SlotInv, SlotOk, Busy
  <2>2. CASE table' = table \ {a} /\ UNCHANGED slot /\ lock = None /\ Removable(slot[a]) /\ ~Busy(slot[a])
    BY <2>2 DEF RegistryInv, SlotInv, SlotOk, Busy, Removable
  <2> QED
    BY <1>7, <2>1, <2>2 DEF Swept
<1>10. Types'
  BY <1>0, <1>3, <1>8, <1>9 DEF Types
<1>11. \A q \in Goroutine : CallbackIn(q, e) /\ entry[e].owner \in {"running", "stopping"} =>
          entry'[e].owner \in {"running", "stopping"}
  <2> SUFFICES ASSUME NEW q \in Goroutine, CallbackIn(q, e), entry[e].owner \in {"running", "stopping"}
               PROVE  FALSE
    OBVIOUS
  <2>1. q \in Worker
    BY <1>2 DEF Goroutine
  <2>2. CallOk(q) /\ Types
    BY DEF RegistryInv, CallInv
  <2>3. call[q].stage = "callback"
    BY <2>1, <2>2 DEF CallOk, AimOk, CallbackIn
  <2>4. call[q].acct \in Account /\ q \in slot[call[q].acct].handles
    BY <2>2, <2>3 DEF CallOk, AimOk, SlotsOk
  <2>5. q \in Caller
    BY <2>2, <2>4 DEF Types, Slot
  <2> QED
    BY <2>1, <2>5, Names
<1>12. EntryMove(e, {})
  BY <1>0, <1>3, <1>4, <1>5, <1>8, <1>9, <1>11 DEF EntryMove
<1> QED
  BY <1>0, <1>9, <1>10, <1>12, EntryMoves

-----------------------------------------------------------------------------
(* Stop of the registry.                                                   *)

\* Stop moves the status on: with it every slot that has an entry is closed, and
\* the registry is closed only when nothing is left.
LEMMA StatusStep ==
    ASSUME RegistryInv, ~crashed, lock = None, lock' = None, Written(Stopper), CallOk(Stopper)',
           status' \in {"open", "stopped", "closed"},
           call[Stopper].stage \notin {"seen", "seize"},
           status # "open" => status' # "open",
           status' = "closed" => status = "closed" \/ \A e \in Entry : ~Alive(e),
           slot' \in [Account -> Slot],
           \A a \in Account :
               /\ slot'[a].current = slot[a].current /\ slot'[a].handles = slot[a].handles
               /\ slot'[a].waiters = slot[a].waiters /\ slot'[a].active = slot[a].active
               /\ slot'[a].gate = slot[a].gate /\ slot'[a].revoking = slot[a].revoking
               /\ slot[a].closed => slot'[a].closed
               /\ Current(a) # None /\ status' # "open" => slot'[a].closed,
           UNCHANGED <<table, fence, entry, todo, crashed>>
    PROVE  RegistryInv'
<1>1. Types /\ None \notin Entry /\ None \notin Goroutine /\ Stopper \in Goroutine
  BY Names DEF RegistryInv
<1>2. Types' /\ TableFits'
  BY <1>1 DEF RegistryInv, Types, TableFits, Written
<1>3. ASSUME NEW e \in Entry
      PROVE  SameEntry(e) /\ EntryOk(e)' /\ (Alive(e)' <=> Alive(e))
  BY DEF SameEntry, Alive, Client, RegistryInv, EntryInv, EntryOk, Current
<1>4. ASSUME NEW a \in Account
      PROVE  SlotOk(a)' /\ CurrentOk(a)' /\ FencedOk(a)'
  <2>1. SlotOk(a) /\ CurrentOk(a) /\ FencedOk(a) /\ ~Fencing(a)
    BY <1>1, Names DEF RegistryInv, SlotInv, Fencing
  <2> QED
    BY <2>1 DEF SlotOk, CurrentOk, FencedOk, Busy, Current
<1>5. \A a \in Account : CurrentKept(a)
  BY DEF CurrentKept
<1>6. TodoOk'
  BY <1>2, <1>3, <1>5, TodoKeeps
<1>7. ASSUME NEW q \in Goroutine, q # Stopper
      PROVE  CallOk(q)'
  <2>1. \A a \in Account : SlotKept(q, a)
    BY <1>5 DEF SlotKept
  <2>2. \A e \in Entry : EntryKept(q, e)
    BY <1>3 DEF EntryKept
  <2>3. LockKept(q)
    BY <1>1, Fields DEF LockKept
  <2> QED
    BY <1>2, <1>7, <2>1, <2>2, <2>3, OthersKeep DEF Undisturbed, Written
<1> QED
  BY <1>2, <1>3, <1>4, <1>6, <1>7 DEF RegistryInv, SlotInv, EntryInv, CallInv

\* The shutdown of the registry closes every slot that has an entry ...
LEMMA StopRegistryKeeps ==
    ASSUME RegistryInv, ~crashed, StopRegistry
    PROVE  RegistryInv'
<1>0. /\ Types /\ Stopper \in Goroutine /\ Stopper \in Worker /\ CallOk(Stopper)
      /\ call[Stopper].stage = "idle" /\ lock = None /\ Goto(Stopper, "collect")
      /\ UNCHANGED <<lock, table, fence, entry, todo, crashed>>
  BY Names DEF RegistryInv, CallInv, StopRegistry, In, fences
<1>1. Moved(Stopper, "collect")
  BY <1>0, GotoCall DEF Stage
<1>2. /\ status' \in {"stopped", "closed"}
      /\ status' = "closed" => status = "closed"
  BY <1>0 DEF StopRegistry, Types
<1>3. CallOk(Stopper)'
  BY <1>0, <1>1, <1>2, RestingOk DEF Moved, CallOk, AimOk
<1>4. ASSUME NEW a \in Account
      PROVE  /\ slot'[a] \in Slot
             /\ slot'[a].current = slot[a].current /\ slot'[a].handles = slot[a].handles
             /\ slot'[a].waiters = slot[a].waiters /\ slot'[a].active = slot[a].active
             /\ slot'[a].gate = slot[a].gate /\ slot'[a].revoking = slot[a].revoking
             /\ slot[a].closed => slot'[a].closed
             /\ Current(a) # None => slot'[a].closed
  <2>1. slot[a] \in Slot /\ SlotOk(a) /\ CurrentOk(a)
    BY <1>0 DEF Types, RegistryInv, SlotInv
  <2>2. slot'[a] = IF status = "open" /\ a \in table /\ slot[a].current # None
                   THEN [slot[a] EXCEPT !.closed = TRUE] ELSE slot[a]
    BY DEF StopRegistry
  <2>3. CASE status = "open" /\ a \in table /\ slot[a].current # None
    BY <2>1, <2>2, <2>3 DEF Slot
  <2>4. CASE ~(status = "open" /\ a \in table /\ slot[a].current # None)
    <3>1. slot'[a] = slot[a]
      BY <2>2, <2>4
    <3> QED
      BY <2>1, <2>4, <3>1 DEF SlotOk, CurrentOk, Current
  <2> QED
    BY <2>3, <2>4
<1>5. slot' \in [Account -> Slot]
  <2>1. DOMAIN slot' = Account /\ slot' = [a \in Account |-> slot'[a]]
    BY DEF StopRegistry
  <2> QED
    BY <1>4, <2>1
<1> QED
  BY <1>0, <1>1, <1>2, <1>3, <1>4, <1>5, StatusStep DEF Moved

\* ... and ends when all of its teardowns have ended.
LEMMA StopEndsKeeps ==
    ASSUME RegistryInv, ~crashed, StopEnds
    PROVE  RegistryInv'
<1>0. /\ Types /\ Stopper \in Goroutine /\ CallOk(Stopper) /\ Return(Stopper)
      /\ call[Stopper].stage = "finish" /\ lock = None
      /\ UNCHANGED <<lock, table, slot, fence, entry, todo, crashed>>
  BY Names DEF RegistryInv, CallInv, StopEnds, In, fences, others
<1>1. Written(Stopper) /\ call'[Stopper].stage = "idle" /\ call'[Stopper].back = "none"
  BY <1>0, ReturnCall
<1>2. CallOk(Stopper)'
  BY <1>0, <1>1, RestingOk
<1>3. status # "open" /\ status' \in {status, "closed"}
  BY <1>0 DEF CallOk, LockOk, StopEnds
<1>4. ASSUME status' = "closed", status # "closed", NEW e \in Entry
      PROVE  ~Alive(e)
  <2> SUFFICES ASSUME Alive(e) PROVE FALSE
    OBVIOUS
  <2>1. Complete
    BY <1>4 DEF StopEnds
  <2>2. PICK a \in Account : Current(a) = e
    BY DEF RegistryInv, EntryInv, EntryOk
  <2>3. SlotOk(a) /\ e # None
    BY Names DEF RegistryInv, SlotInv
  <2> QED
    BY <2>1, <2>2, <2>3 DEF SlotOk, Complete, Current
<1>5. \A a \in Account : Current(a) # None => slot[a].closed
  BY <1>3 DEF RegistryInv, SlotInv, CurrentOk
<1> QED
  BY <1>0, <1>1, <1>2, <1>3, <1>4, <1>5, StatusStep DEF Types

-----------------------------------------------------------------------------
(* All together.                                                           *)

\* Init establishes the invariant.
LEMMA InitInv ==
    ASSUME Init
    PROVE  RegistryInv
<1>1. /\ FreshSlot \in Slot /\ NoFence \in Fence /\ NoEntry \in RuntimeEntry /\ NoCall \in Call
      /\ NoCall.stage = "idle" /\ NoCall.back = "none" /\ FreshSlot.current = None
      /\ FreshSlot.handles = {} /\ FreshSlot.active = None /\ FreshSlot.waiters = {}
      /\ ~FreshSlot.revoking /\ NoEntry.build = "none" /\ NoEntry.owner = "none"
  BY DEF FreshSlot, Slot, NoFence, Fence, NoEntry, RuntimeEntry, NoCall, Call, Stage
<1>2. Types
  BY <1>1 DEF Init, Types
<1>3. TableFits
  <2>1. IsFiniteSet({}) /\ Cardinality({}) = 0
    BY FS_EmptySet
  <2> QED
    BY <2>1, OwnerAssumption DEF Init, TableFits
<1>4. SlotInv /\ EntryInv /\ TodoOk
  BY <1>1 DEF Init, SlotInv, EntryInv, TodoOk, SlotOk, CurrentOk, FencedOk, EntryOk, Busy, Alive, Client, Current
<1>5. ASSUME NEW p \in Goroutine
      PROVE  CallOk(p)
  <2>1. call[p].stage = "idle" /\ call[p].back = "none"
    BY <1>1 DEF Init
  <2> QED
    BY <2>1 DEF CallOk, AimOk, LockOk, SlotsOk, WaitedOk, StopOk
<1> QED
  BY <1>2, <1>3, <1>4, <1>5 DEF RegistryInv, CallInv

\* Every step of a goroutine keeps it, ...
LEMMA StepKeeps ==
    ASSUME RegistryInv, ~crashed, NEW p \in Goroutine, Step(p)
    PROVE  RegistryInv'
<1>1. CASE TearsDown(p)
  BY <1>1, EvictKeeps, EvictCloseKeeps, WaitRevokeKeeps, EnterGateKeeps, DrainKeeps,
     StopsKeep, ResetKeeps, TeardownEndsKeeps DEF TearsDown
<1>2. CASE p \in Caller /\ Executes(p)
  BY <1>2, EvictKeeps, RefusedKeeps, ReserveLookKeeps, ReserveSharedKeeps, ReserveReplacesKeeps,
     ReserveFirstKeeps, BeginKeeps, OperationKeeps, FinishOperationKeeps, CloseHandleKeeps DEF Executes
<1>3. CASE p \in Caller /\ (StopLook(p) \/ StopClose(p) \/ Revokes(p))
  BY <1>3, StopLookKeeps, StopCloseKeeps, AcquireKeeps, ClaimKeeps, PrepareKeeps, SeizeKeeps,
     RevokeMoves, StopsKeep, ResetKeeps, RevokeUnprotectsKeeps, ReleaseKeeps DEF Revokes
<1>4. ASSUME p \in Worker, NextTeardown(p) \/ AllTornDown(p)
      PROVE  RegistryInv'
  <2>1. CASE NextTeardown(p)
    BY <1>4, <2>1, NextTeardownKeeps
  <2>2. CASE AllTornDown(p)
    BY <1>4, <2>2, AllTornDownKeeps
  <2> QED
    BY <1>4, <2>1, <2>2
<1>5. CASE p = Reaper /\ ReapScanned
  BY <1>5, AllTornDownKeeps, Names
<1>6. CASE p = Stopper /\ (StopCollects \/ StopEnds)
  BY <1>6, StopCollectsKeeps, StopEndsKeeps
<1> QED
  BY <1>1, <1>2, <1>3, <1>4, <1>5, <1>6 DEF Step

\* ... so does a context that ends, ...
LEMMA ExpireKeeps ==
    ASSUME RegistryInv, ~crashed, NEW p \in Caller \cup {Stopper}, Expire(p)
    PROVE  RegistryInv'
<1>1. p \in Goroutine /\ UNCHANGED <<registry, entry, others>>
  BY Names DEF Expire
<1>2. p \in slot[call[p].acct].handles \cup slot[call[p].acct].waiters /\ call[p].acct \in Account
          => p \in Caller
  BY DEF RegistryInv, Types, Slot
<1>3. CallOk(p)
  BY <1>1 DEF RegistryInv, CallInv
<1>4. CASE call[p].stage \in {"wait", "gate"} /\ Finish(p, FALSE) /\ UNCHANGED slot
  BY <1>1, <1>4, FinishKeeps
<1>5. CASE \/ In(p, "opened") /\ Goto(p, "closing") /\ UNCHANGED slot
           \/ In(p, "queued") /\ Goto(p, "ending") /\ UNCHANGED slot
  <2>1. p \in Caller
    BY <1>2, <1>3, <1>5 DEF CallOk, AimOk, SlotsOk, In
  <2> QED
    BY <1>1, <1>5, <2>1, OperationKeeps
<1>6. CASE /\ In(p, "claim") /\ lock = None
           /\ slot' = [slot EXCEPT ![call[p].acct].waiters = @ \ {p}]
           /\ Return(p)
  <2>1. p \in Caller
    BY <1>2, <1>3, <1>6 DEF CallOk, AimOk, SlotsOk, In
  <2> QED
    BY <1>1, <1>6, <2>1, ClaimKeeps
<1> QED
  BY <1>4, <1>5, <1>6 DEF Expire

\* ... and every step.
LEMMA NextKeeps ==
    ASSUME RegistryInv, [Next]_vars
    PROVE  RegistryInv'
<1>1. CASE UNCHANGED vars
  <2>1. UNCHANGED <<lock, status, table, slot, fence, entry, call, todo, crashed>>
    BY <1>1 DEF vars
  <2> QED
    <3>1. Types' /\ TableFits' /\ TodoOk'
      BY <2>1, Zenon DEF RegistryInv, Types, TableFits, TodoOk, Current
    <3>2. SlotInv' /\ EntryInv'
      BY <2>1, Zenon DEF RegistryInv, SlotInv, EntryInv, SlotOk, CurrentOk, FencedOk, EntryOk, Busy, Alive,
         Client, Current, Fencing
    <3>3. ASSUME NEW p \in Goroutine PROVE CallOk(p)'
      <4>1. CallOk(p)
        BY DEF RegistryInv, CallInv
      <4>2. AimOk(p)' /\ LockOk(p)'
        BY <2>1, <4>1, Zenon DEF CallOk, AimOk, LockOk, Current
      <4>4. SlotsOk(p)'
        BY <2>1, <4>1, Zenon DEF CallOk, SlotsOk, Current
      <4>3. WaitedOk(p)' /\ StopOk(p)'
        BY <2>1, <4>1 DEF CallOk, WaitedOk, StopOk, Alive, Client, Current
      <4> QED
        BY <4>2, <4>3, <4>4 DEF CallOk
    <3> QED
      BY <2>1, <3>1, <3>2, <3>3 DEF RegistryInv, CallInv
<1>2. CASE Next
  BY <1>2, InvokeKeeps, StepKeeps, ExpireKeeps, EvictKeeps, StopRegistryKeeps, BuildKeeps, RunKeeps
     DEF Next, EntryStep
<1> QED
  BY <1>1, <1>2

\* The invariant, of the specification.
THEOREM RegistryInvCorrect == Spec => []RegistryInv
<1>1. Init => RegistryInv
  BY InitInv
<1>2. RegistryInv /\ [Next]_vars => RegistryInv'
  BY NextKeeps
<1> QED
  BY <1>1, <1>2, PTL DEF Spec

-----------------------------------------------------------------------------
(* What it says.                                                           *)

\* A client is the entry of its slot, which is in the table.
LEMMA ClientsAreCurrent ==
    ASSUME RegistryInv, NEW e \in Entry, Client(e)
    PROVE  /\ entry[e].acct \in table /\ slot[entry[e].acct].current = e
           /\ Alive(e) /\ status # "closed"
<1>1. Alive(e) /\ EntryOk(e) /\ e # None
  BY Names DEF Alive, RegistryInv, EntryInv
<1>2. entry[e].acct \in Account /\ slot[entry[e].acct].current = e /\ status # "closed"
  BY <1>1 DEF EntryOk, Current
<1>3. SlotOk(entry[e].acct)
  BY <1>2 DEF RegistryInv, SlotInv
<1> QED
  BY <1>1, <1>2, <1>3 DEF SlotOk

\* Never two clients for one account: replacements, private revokes and retries
\* after a timeout wait for the client before them to have ended.
THEOREM OneClient == Spec => []OneClientPerAccount
<1>1. RegistryInv => OneClientPerAccount
  BY ClientsAreCurrent DEF OneClientPerAccount
<1> QED
  BY <1>1, RegistryInvCorrect, PTL

\* A callback of a fenced version has a closed slot, or is about to: the stop
\* that recorded the fence is draining it.
THEOREM FencedCallbacks == Spec => []FencedCallbacksDrain
<1>1. RegistryInv => FencedCallbacksDrain
  <2> SUFFICES ASSUME RegistryInv, NEW p \in Caller, In(p, "callback"),
                      entry[call[p].entry].ver <= fence[call[p].acct].version
               PROVE  slot[call[p].acct].closed \/ Fencing(call[p].acct)
    BY DEF FencedCallbacksDrain
  <2>1. CallOk(p) /\ Types /\ p \in Goroutine /\ call[p].stage = "callback"
    BY Names DEF RegistryInv, CallInv, In
  <2>2. PICK e \in Entry : e = call[p].entry
    BY <2>1, Fields DEF CallOk, AimOk
  <2>3. Client(e) /\ entry[e].acct = call[p].acct /\ call[p].acct \in Account /\ e # None
    BY <2>1, <2>2, Names DEF CallOk, AimOk, WaitedOk, Client
  <2>4. slot[call[p].acct].current = e
    BY <2>3, ClientsAreCurrent
  <2> QED
    BY <2>2, <2>3, <2>4 DEF RegistryInv, SlotInv, FencedOk, Current
<1> QED
  BY <1>1, RegistryInvCorrect, PTL

\* No operation and no other revoke is at work on the account of a privileged
\* callback.
THEOREM RevokeAlone == Spec => []RevokeIsAlone
<1>1. RegistryInv => RevokeIsAlone
  <2> SUFFICES ASSUME RegistryInv, NEW p \in Caller, NEW q \in Caller, In(p, "privileged"), q # p,
                      call[q].acct = call[p].acct,
                      call[q].stage \in {"queued", "callback", "ending", "privileged"}
               PROVE  FALSE
    BY DEF RevokeIsAlone
  <2>1. SlotsOk(p) /\ SlotsOk(q) /\ None \notin Goroutine /\ q \in Goroutine
    BY Names DEF RegistryInv, CallInv, CallOk
  <2> QED
    BY <2>1 DEF SlotsOk, In
<1> QED
  BY <1>1, RegistryInvCorrect, PTL

\* Clients are counted by their slots, all of which are in the table.
THEOREM ClientsFit == Spec => []ClientsWithinCapacity
<1>1. RegistryInv => ClientsWithinCapacity
  <2> SUFFICES ASSUME RegistryInv PROVE ClientsWithinCapacity
    OBVIOUS
  <2> DEFINE C == {e \in Entry : Client(e)}
             home == [e \in C |-> entry[e].acct]
  <2>1. home \in [C -> table] /\ IsInjective(home)
    BY ClientsAreCurrent DEF IsInjective
  <2>2. IsFiniteSet(table) /\ Cardinality(table) <= Capacity
    BY DEF RegistryInv, TableFits
  <2>3. IsFiniteSet(C) /\ Cardinality(C) <= Cardinality(table)
    <3>1. home \in Injection(C, table)
      BY <2>1 DEF Injection, IsInjective
    <3> HIDE DEF home, C
    <3> QED
      BY <2>2, <3>1, FS_Injection
  <2>4. Cardinality(C) \in Nat /\ Cardinality(table) \in Nat
    BY <2>2, <2>3, FS_CardinalityType
  <2>5. Cardinality(C) <= Capacity
    <3> HIDE DEF C
    <3> QED
      BY <2>2, <2>3, <2>4, OwnerAssumption
  <2>6. SlotsAreKept
    BY DEF SlotsAreKept, RegistryInv, SlotInv, SlotOk
  <2> QED
    BY <2>5, <2>6 DEF ClientsWithinCapacity
<1> QED
  BY <1>1, RegistryInvCorrect, PTL

\* When Stop cancels the root context, no client and no callback is left.
THEOREM QuietWhenClosed == Spec => []ClosedIsQuiet
<1>1. RegistryInv => ClosedIsQuiet
  <2> SUFFICES ASSUME RegistryInv, status = "closed"
               PROVE  /\ \A e \in Entry : ~Client(e)
                      /\ \A p \in Caller : call[p].stage \notin {"callback", "privileged"}
    BY DEF ClosedIsQuiet
  <2>1. \A e \in Entry : ~Client(e)
    BY ClientsAreCurrent
  <2>2. ASSUME NEW p \in Caller, call[p].stage \in {"callback", "privileged"}
        PROVE  FALSE
    <3>1. CallOk(p) /\ Types /\ p \in Goroutine
      BY Names DEF RegistryInv, CallInv
    <3>2. call[p].entry \in Entry
      BY <2>2, <3>1, Fields DEF CallOk, AimOk
    <3> QED
      BY <2>1, <2>2, <3>1, <3>2 DEF CallOk, WaitedOk, Client
  <2> QED
    BY <2>1, <2>2
<1> QED
  BY <1>1, RegistryInvCorrect, PTL

-----------------------------------------------------------------------------
(* StopAccount waits.                                                      *)

\* A goroutine writes its own call only.
LEMMA OneActor ==
    ASSUME Types, NEW p \in Goroutine, NEW q \in Goroutine \ {p}, Step(q) \/ Expire(q)
    PROVE  call'[p] = call[p]
<1>0. call \in [Goroutine -> Call]
  BY DEF Types
<1>1. ASSUME NEW s, Goto(q, s) PROVE call'[p] = call[p]
  BY <1>0, <1>1 DEF Goto
<1>2. ASSUME NEW s, NEW e, GotoWith(q, s, e) PROVE call'[p] = call[p]
  BY <1>0, <1>2 DEF GotoWith
<1>3. ASSUME Return(q) \/ ReturnOk(q) PROVE call'[p] = call[p]
  BY <1>0, <1>3 DEF Return, ReturnOk
<1>4. ASSUME NEW ok, Finish(q, ok) PROVE call'[p] = call[p]
  BY <1>0, <1>4 DEF Finish
<1>5. CASE TearsDown(q)
  BY <1>0, <1>5, <1>1, <1>2, <1>3, <1>4 DEF TearsDown, EvictRead, EvictClose, WaitRevoke, EnterGate,
     Drain, TeardownStops, Join, DrainTimeout, TeardownReset, TeardownEnds
<1>6. CASE Executes(q)
  <2>1. ASSUME TakeIdle(q) PROVE call'[p] = call[p]
    <3>1. PICK b \in Account :
            call' = [call EXCEPT ![q].stage = "evict", ![q].at = b, ![q].back = call[q].stage]
      BY <2>1 DEF TakeIdle, Idling, Live, Types
    <3> QED
      BY <1>0, <3>1
  <2>2. ASSUME ReserveReplaces(q) PROVE call'[p] = call[p]
    <3>1. call' = [call EXCEPT ![q].stage = "wait", ![q].at = call[q].acct, ![q].back = "reserve"]
      BY <2>2 DEF ReserveReplaces
    <3> QED
      BY <1>0, <3>1
  <2>3. ASSUME ReserveFirst(q) PROVE call'[p] = call[p]
    <3>1. \E e \in Entry : GotoWith(q, "opened", e)
      BY <2>3 DEF ReserveFirst
    <3> QED
      BY <1>2, <3>1
  <2>4. ASSUME ReserveLook(q) PROVE call'[p] = call[p]
    <3>1. GotoWith(q, "decide", slot'[call[q].acct].current)
      BY <2>4 DEF ReserveLook
    <3> QED
      BY <1>2, <3>1
  <2>5. CASE \/ Refused(q) \/ ReserveShared(q) \/ ReserveRefused(q) \/ Begin(q) \/ Dispatch(q)
             \/ CallbackEnds(q) \/ FinishOperation(q) \/ CloseHandle(q)
    BY <1>1, <1>3, <2>5 DEF Refused, ReserveShared, ReserveRefused, Begin, Dispatch, CallbackEnds,
       FinishOperation, CloseHandle
  <2> QED
    BY <1>6, <2>1, <2>2, <2>3, <2>4, <2>5 DEF Executes
<1>7. CASE StopLook(q) \/ StopClose(q)
  <2>1. ASSUME StopLook(q) PROVE call'[p] = call[p]
    <3>1. Return(q) \/ ReturnOk(q) \/ UNCHANGED call \/ \E e : GotoWith(q, "seen", e)
      BY <2>1 DEF StopLook
    <3> QED
      BY <1>2, <1>3, <3>1
  <2>2. ASSUME StopClose(q) PROVE call'[p] = call[p]
    <3>1. call' = [call EXCEPT ![q].stage = "wait", ![q].at = call[q].acct, ![q].back = "stopped"]
      BY <2>2 DEF StopClose
    <3> QED
      BY <1>0, <3>1
  <2> QED
    BY <1>7, <2>1, <2>2
<1>8. CASE Revokes(q)
  <2>1. ASSUME Prepare(q) PROVE call'[p] = call[p]
    <3> DEFINE e == slot[call[q].acct].current
    <3>1. \/ call' = [call EXCEPT ![q].stage = "cleanup", ![q].entry = e, ![q].back = "prepare"]
          \/ GotoWith(q, "seize", e)
          \/ Goto(q, "release")
      BY <2>1 DEF Prepare
    <3> HIDE DEF e
    <3>2. ASSUME call' = [call EXCEPT ![q].stage = "cleanup", ![q].entry = e, ![q].back = "prepare"]
          PROVE  call'[p] = call[p]
      BY <1>0, <3>2
    <3> QED
      BY <1>1, <1>2, <3>1, <3>2
  <2>2. ASSUME Seize(q) PROVE call'[p] = call[p]
    <3>1. Goto(q, "revoking") \/ \E e \in Entry : GotoWith(q, "revoking", e)
      BY <2>2 DEF Seize
    <3> QED
      BY <1>1, <1>2, <3>1
  <2>3. ASSUME RevokeStops(q) PROVE call'[p] = call[p]
    <3>1. \E built : call' = [call EXCEPT ![q].stage = "joining", ![q].ok = built]
      BY <2>3 DEF RevokeStops
    <3> QED
      BY <1>0, <3>1
  <2>4. ASSUME Acquire(q) \/ ClaimGate(q) PROVE call'[p] = call[p]
    <3>1. Goto(q, "claim") \/ Return(q) \/ Goto(q, "prepare")
      BY <2>4 DEF Acquire, ClaimGate
    <3> QED
      BY <1>1, <1>3, <3>1
  <2>5. ASSUME RevokeUnprotects(q) \/ Release(q) PROVE call'[p] = call[p]
    <3>1. \/ \E s : call' = [call EXCEPT ![q] = Restarted(q, s)]
          \/ Return(q)
      BY <2>5 DEF RevokeUnprotects, Release
    <3> QED
      BY <1>0, <1>3, <3>1
  <2>6. CASE Privilege(q) \/ PrivilegeEnds(q) \/ RevokeJoins(q) \/ RevokeReset(q)
    BY <1>1, <2>6 DEF Privilege, PrivilegeEnds, RevokeJoins, RevokeReset
  <2> QED
    BY <1>8, <2>1, <2>2, <2>3, <2>4, <2>5, <2>6 DEF Revokes
<1>9. CASE NextTeardown(q) \/ AllTornDown(q) \/ (q = Reaper /\ ReapScanned)
           \/ (q = Stopper /\ (StopCollects \/ StopEnds))
  <2>1. ASSUME NextTeardown(q) PROVE call'[p] = call[p]
    <3>1. PICK item \in todo[q] :
              /\ call' = [call EXCEPT ![q].stage = "wait", ![q].at = item[1], ![q].entry = item[2]]
              /\ todo' = [todo EXCEPT ![q] = @ \ {item}]
      BY <2>1 DEF NextTeardown
    <3> QED
      BY <1>0, <3>1
  <2>2. CASE \/ AllTornDown(q) \/ (q = Reaper /\ ReapScanned)
             \/ (q = Stopper /\ (StopCollects \/ StopEnds))
    BY <1>1, <1>3, <2>2 DEF AllTornDown, ReapScanned, StopCollects, StopEnds
  <2> QED
    BY <1>9, <2>1, <2>2
<1>10. CASE Expire(q)
  BY <1>10, <1>1, <1>3, <1>4 DEF Expire
<1> QED
  BY <1>5, <1>6, <1>7, <1>8, <1>9, <1>10 DEF Step

\* The ways a call returns without an error.
LEMMA Successes ==
    ASSUME RegistryInv, NEW p \in Caller, Step(p) \/ Expire(p),
           call[p].stage # "idle", call'[p].stage = "idle", call'[p].ok
    PROVE  \/ StopLook(p)
           \/ /\ EnterGate(p) /\ slot[call[p].at].current # call[p].entry
              /\ call[p].stage = "gate" /\ call[p].back = "stopped"
           \/ /\ TeardownEnds(p)
              /\ call[p].stage = "unprotect" /\ call[p].back = "stopped"
<1>0. p \in Goroutine /\ p \notin Worker /\ p # Reaper /\ p # Stopper /\ Types
      /\ call \in [Goroutine -> Call]
  BY Names DEF RegistryInv, Types
<1>1. ASSUME NEW s, Goto(p, s), s # "idle" PROVE FALSE
  BY <1>0, <1>1 DEF Goto, Call
<1>2. ASSUME NEW s, NEW e, GotoWith(p, s, e), s # "idle" PROVE FALSE
  BY <1>0, <1>2 DEF GotoWith, Call
<1>3. ASSUME Return(p) PROVE FALSE
  BY <1>0, <1>3 DEF Return, NoCall
<1>4. ASSUME NEW ok \in BOOLEAN, Finish(p, ok)
      PROVE  ok /\ call[p].back = "stopped"
  <2>1. CASE call[p].back = "stopped"
    <3>1. call' = [call EXCEPT ![p] = [NoCall EXCEPT !.ok = ok]]
      BY <1>0, <1>4, <2>1 DEF Finish
    <3> QED
      BY <1>0, <2>1, <3>1 DEF NoCall
  <2>2. CASE call[p].back # "stopped" /\ ~(call[p].back \in {"reserve", "acquire"} /\ ok)
    <3>1. call' = [call EXCEPT ![p] = NoCall]
      BY <1>0, <1>4, <2>2 DEF Finish
    <3> QED
      BY <1>0, <3>1 DEF NoCall
  <2>3. CASE call[p].back \in {"reserve", "acquire"} /\ ok
    <3>1. call' = [call EXCEPT ![p] = Restarted(p, call[p].back)]
      BY <1>0, <1>4, <2>3 DEF Finish
    <3> QED
      BY <1>0, <2>3, <3>1 DEF NoCall, Restarted
  <2> QED
    BY <2>1, <2>2, <2>3
<1>5. CASE EvictRead(p) \/ EvictClose(p) \/ WaitRevoke(p) \/ TeardownStops(p) \/ TeardownReset(p)
  BY <1>0, <1>1, <1>2, <1>3, <1>5 DEF EvictRead, EvictClose, WaitRevoke, TeardownStops, TeardownReset
<1>6. CASE EnterGate(p)
  BY <1>1, <1>4, <1>6 DEF EnterGate, In
<1>7. CASE Drain(p) \/ Join(p) \/ DrainTimeout(p)
  <2>1. \/ \E ok : call' = [call EXCEPT ![p].stage = "reset", ![p].ok = ok]
        \/ Finish(p, FALSE)
        \/ Goto(p, "stopOwner")
    BY <1>7 DEF Drain, Join, DrainTimeout
  <2>2. ASSUME NEW ok, call' = [call EXCEPT ![p].stage = "reset", ![p].ok = ok]
        PROVE  FALSE
    BY <1>0, <2>2 DEF Call
  <2> QED
    BY <1>1, <1>4, <2>1, <2>2
<1>8. CASE TeardownEnds(p)
  <2>1. call[p].ok \in BOOLEAN
    BY <1>0 DEF Call
  <2>2. Finish(p, call[p].ok) /\ call[p].stage = "unprotect"
    BY <1>8 DEF TeardownEnds, In
  <2>3. call[p].back = "stopped"
    BY <1>4, <2>1, <2>2
  <2> QED
    BY <1>8, <2>2, <2>3
<1>9. CASE Executes(p)
  <2>1. ASSUME TakeIdle(p) PROVE FALSE
    <3>1. PICK b \in Account :
            call' = [call EXCEPT ![p].stage = "evict", ![p].at = b, ![p].back = call[p].stage]
      BY <1>0, <2>1 DEF TakeIdle, Idling, Live, Types
    <3> QED
      BY <1>0, <3>1 DEF Call
  <2>2. ASSUME ReserveReplaces(p) PROVE FALSE
    <3>1. call' = [call EXCEPT ![p].stage = "wait", ![p].at = call[p].acct, ![p].back = "reserve"]
      BY <2>2 DEF ReserveReplaces
    <3> QED
      BY <1>0, <3>1 DEF Call
  <2>3. ASSUME ReserveFirst(p) \/ ReserveLook(p) PROVE FALSE
    <3>1. \E e : \E s \in {"opened", "decide"} : GotoWith(p, s, e)
      BY <2>3 DEF ReserveFirst, ReserveLook
    <3> QED
      BY <1>2, <3>1
  <2>4. CASE \/ Refused(p) \/ ReserveShared(p) \/ ReserveRefused(p) \/ Begin(p) \/ Dispatch(p)
             \/ CallbackEnds(p) \/ FinishOperation(p) \/ CloseHandle(p)
    BY <1>1, <1>3, <2>4 DEF Refused, ReserveShared, ReserveRefused, Begin, Dispatch, CallbackEnds,
       FinishOperation, CloseHandle
  <2> QED
    BY <1>9, <2>1, <2>2, <2>3, <2>4 DEF Executes
<1>10. CASE StopClose(p)
  <2>1. call' = [call EXCEPT ![p].stage = "wait", ![p].at = call[p].acct, ![p].back = "stopped"]
    BY <1>10 DEF StopClose
  <2> QED
    BY <1>0, <2>1 DEF Call
<1>11. CASE Revokes(p)
  <2>1. ASSUME Prepare(p) PROVE FALSE
    <3> DEFINE e == slot[call[p].acct].current
    <3>1. \/ call' = [call EXCEPT ![p].stage = "cleanup", ![p].entry = e, ![p].back = "prepare"]
          \/ GotoWith(p, "seize", e)
          \/ Goto(p, "release")
      BY <2>1 DEF Prepare
    <3> HIDE DEF e
    <3>2. ASSUME call' = [call EXCEPT ![p].stage = "cleanup", ![p].entry = e, ![p].back = "prepare"]
          PROVE  FALSE
      BY <1>0, <3>2 DEF Call
    <3> QED
      BY <1>1, <1>2, <3>1, <3>2
  <2>2. ASSUME Seize(p) PROVE FALSE
    <3>1. Goto(p, "revoking") \/ \E e \in Entry : GotoWith(p, "revoking", e)
      BY <2>2 DEF Seize
    <3> QED
      BY <1>1, <1>2, <3>1
  <2>3. ASSUME RevokeStops(p) PROVE FALSE
    <3>1. \E built : call' = [call EXCEPT ![p].stage = "joining", ![p].ok = built]
      BY <2>3 DEF RevokeStops
    <3> QED
      BY <1>0, <3>1 DEF Call
  <2>4. ASSUME Acquire(p) \/ ClaimGate(p) PROVE FALSE
    <3>1. Goto(p, "claim") \/ Return(p) \/ Goto(p, "prepare")
      BY <2>4 DEF Acquire, ClaimGate
    <3> QED
      BY <1>1, <1>3, <3>1
  <2>5. ASSUME RevokeUnprotects(p) \/ Release(p) PROVE FALSE
    <3>1. \/ \E s \in {"prepare", "release"} : call' = [call EXCEPT ![p] = Restarted(p, s)]
          \/ Return(p)
      BY <2>5 DEF RevokeUnprotects, Release
    <3> QED
      BY <1>0, <1>3, <3>1 DEF Restarted, NoCall
  <2>6. CASE Privilege(p) \/ PrivilegeEnds(p) \/ RevokeJoins(p) \/ RevokeReset(p)
    BY <1>1, <2>6 DEF Privilege, PrivilegeEnds, RevokeJoins, RevokeReset
  <2> QED
    BY <1>11, <2>1, <2>2, <2>3, <2>4, <2>5, <2>6 DEF Revokes
<1>12. CASE Expire(p)
  BY <1>1, <1>3, <1>4, <1>12 DEF Expire
<1> QED
  BY <1>0, <1>5, <1>6, <1>7, <1>8, <1>9, <1>10, <1>11, <1>12 DEF Step, TearsDown

\* What a call that succeeded leaves of its account.
LEMMA SuccessLeaves ==
    ASSUME RegistryInv, RegistryInv', ~crashed, NEW p \in Caller, Step(p) \/ Expire(p),
           NEW a \in Account, NEW v \in Version, StopSucceeds(p, a, v),
           NEW e \in Entry, Client(e)', entry'[e].acct = a
    PROVE  /\ e # call[p].entry
           /\ \/ entry'[e].ver > v \/ entry'[e].private
              \/ /\ ~EnoughFences
                 /\ v <= fence'[a].version => slot'[a].closed \/ Fencing(a)'
<1>0. /\ p \in Goroutine /\ call[p].acct = a /\ call[p].ver = v /\ CallOk(p) /\ Types /\ Types'
      /\ e # None
  BY Names DEF StopSucceeds, RegistryInv, CallInv
<1>1. call[p].stage # "idle" /\ call'[p].stage = "idle" /\ call'[p].ok
  BY DEF StopSucceeds, In
<1>2. CASE StopLook(p)
  <2>1. status = "open" /\ UNCHANGED <<table, slot, entry>>
    BY <1>2 DEF StopSucceeds, StopLook, In
  <2>2. Client(e) /\ entry[e].acct = a
    BY <2>1 DEF Client
  <2>3. a \in table /\ slot[a].current = e
    BY <2>2, ClientsAreCurrent
  <2> DEFINE cur == IF call[p].acct \in table THEN slot[call[p].acct].current ELSE None
  <2>4. cur # None
    BY <1>0, <2>3
  <2>5. Return(p) \/ UNCHANGED call \/ GotoWith(p, "seen", cur)
    BY <1>2, <2>1, <2>4 DEF StopLook
  <2> HIDE DEF cur
  <2> QED
    BY <1>0, <1>1, <2>5 DEF Types, Return, GotoWith, NoCall, Call
<1>3. CASE \/ /\ EnterGate(p) /\ slot[call[p].at].current # call[p].entry
              /\ call[p].stage = "gate" /\ call[p].back = "stopped"
           \/ /\ TeardownEnds(p)
              /\ call[p].stage = "unprotect" /\ call[p].back = "stopped"
  <2>1. UNCHANGED entry /\ call[p].stage \in Tearing
    BY <1>3 DEF EnterGate, TeardownEnds
  <2>2. /\ call[p].at = a /\ call[p].entry # None
        /\ EnoughFences => \A f \in Entry : Current(a) = f =>
                    f = call[p].entry \/ entry[f].ver > v \/ entry[f].private
    BY <1>0, <1>3 DEF CallOk, StopOk
  <2>3. Client(e) /\ entry[e].acct = a
    BY <2>1 DEF Client
  <2>4. Alive(e) /\ Current(a) = e
    BY <2>3, ClientsAreCurrent DEF Current
  <2>5. e # call[p].entry
    BY <1>0, <1>3, <2>2, <2>4 DEF CallOk, WaitedOk, Current
  <2>6. slot'[a].current = e
    BY ClientsAreCurrent, <2>1, <2>3, <2>4, <1>0 DEF EnterGate, TeardownEnds, Current, RegistryInv, EntryInv, EntryOk, Alive
  <2>7. v <= fence'[a].version /\ ~(entry'[e].ver > v) => slot'[a].closed \/ Fencing(a)'
    <3>1. entry'[e].ver <= fence'[a].version => slot'[a].closed \/ Fencing(a)'
      BY <1>0, <2>6 DEF RegistryInv, SlotInv, FencedOk, Current
    <3>2. entry'[e].ver \in Nat /\ fence'[a].version \in Nat /\ v \in Nat
      <4>1. Version \cup {0} \subseteq Nat
        BY OwnerAssumption DEF Version
      <4> QED
        BY <1>0, <4>1 DEF Types, Fence, RuntimeEntry
    <3>3. v <= fence'[a].version /\ ~(entry'[e].ver > v) => entry'[e].ver <= fence'[a].version
      BY <3>2
    <3> QED
      BY <3>1, <3>3
  <2>8. EnoughFences => entry'[e].ver > v \/ entry'[e].private
    BY <2>1, <2>2, <2>4, <2>5
  <2> QED
    BY <2>5, <2>7, <2>8
<1> QED
  BY <1>1, <1>2, <1>3, Successes

\* The steps that write entries.
LEMMA EntryWriters ==
    ASSUME Next
    PROVE  \/ UNCHANGED entry
           \/ \E p \in Caller : ReserveFirst(p) \/ Seize(p) \/ RevokeStops(p)
           \/ \E p \in Goroutine : TeardownStops(p)
           \/ \E e \in Entry : Build(e) \/ StartRun(e) \/ RunEnds(e) \/ RunNoted(e) \/ RunSwept(e)
<1>1. ASSUME NEW p \in Goroutine, TearsDown(p)
      PROVE  UNCHANGED entry \/ TeardownStops(p)
  BY <1>1, Zenon DEF TearsDown, EvictRead, EvictClose, WaitRevoke, EnterGate, Drain, Join, DrainTimeout,
     TeardownReset, TeardownEnds
<1>2. ASSUME NEW p \in Caller, Executes(p)
      PROVE  UNCHANGED entry \/ ReserveFirst(p)
  BY <1>2, Zenon DEF Executes, TakeIdle, Refused, ReserveLook, ReserveShared, ReserveReplaces,
     ReserveRefused, Begin, Dispatch, CallbackEnds, FinishOperation, CloseHandle
<1>3. ASSUME NEW p \in Caller, Revokes(p)
      PROVE  UNCHANGED entry \/ Seize(p) \/ RevokeStops(p)
  BY <1>3, Zenon DEF Revokes, Acquire, ClaimGate, Prepare, Privilege, PrivilegeEnds, RevokeJoins,
     RevokeReset, RevokeUnprotects, Release
<1>4. ASSUME NEW p \in Goroutine,
             \/ StopLook(p) \/ StopClose(p) \/ NextTeardown(p) \/ AllTornDown(p)
             \/ ReapScanned \/ StopCollects \/ StopEnds \/ Expire(p)
      PROVE  UNCHANGED entry
  BY <1>4, Zenon DEF StopLook, StopClose, NextTeardown, AllTornDown, ReapScanned, StopCollects, StopEnds, Expire
<1>5. ASSUME NEW p \in Goroutine, Step(p)
      PROVE  \/ UNCHANGED entry \/ TeardownStops(p)
             \/ p \in Caller /\ (ReserveFirst(p) \/ Seize(p) \/ RevokeStops(p))
  BY <1>5, <1>1, <1>2, <1>3, <1>4 DEF Step
<1>6. ASSUME NEW p \in Caller, Invoke(p)
      PROVE  UNCHANGED entry
  BY <1>6, Zenon DEF Invoke
<1>7. ASSUME ReapScan \/ StopRegistry
      PROVE  UNCHANGED entry
  BY <1>7, Zenon DEF ReapScan, StopRegistry
<1>8. \A p \in Caller \cup {Stopper} : p \in Goroutine
  BY Names
<1> QED
  BY <1>4, <1>5, <1>6, <1>7, <1>8 DEF Next, EntryStep

\* A client is told to stop only when no callback of its account is active, or by
\* the revoke that cleans its private entry up.
LEMMA TeardownDrains ==
    ASSUME RegistryInv, Next
    PROVE  TeardownsDrain
<1> SUFFICES ASSUME NEW e \in Entry, entry[e].owner = "running", entry'[e].owner = "stopping"
             PROVE  \/ slot[entry[e].acct].active = None
                    \/ \E p \in Caller : In(p, "cleanup") /\ call[p].entry = e
  BY DEF TeardownsDrain
<1>0. Types /\ entry \in [Entry -> RuntimeEntry] /\ EntryOk(e) /\ ~crashed
  BY DEF RegistryInv, Types, EntryInv, Next
<1>1. ASSUME NEW p \in Caller, ReserveFirst(p) \/ Seize(p)
      PROVE  FALSE
  <2>1. CASE ReserveFirst(p)
    <3>1. PICK f \in Entry : /\ Unused(f)
                             /\ entry' = [entry EXCEPT ![f] = NewEntry(call[p].acct, call[p].ver, FALSE)]
      BY <2>1 DEF ReserveFirst
    <3>2. entry[f].owner # "running"
      BY <3>1 DEF Unused
    <3> QED
      BY <1>0, <3>1, <3>2
  <2>2. CASE Seize(p) /\ call[p].entry # None
    BY <2>2 DEF Seize
  <2>3. CASE Seize(p) /\ call[p].entry = None
    <3>1. PICK f \in Entry : /\ Unused(f)
                             /\ entry' = [entry EXCEPT ![f] = NewEntry(call[p].acct, call[p].ver, TRUE)]
      BY <2>3 DEF Seize
    <3>2. entry[f].owner # "running"
      BY <3>1 DEF Unused
    <3> QED
      BY <1>0, <3>1, <3>2
  <2> QED
    BY <1>1, <2>1, <2>2, <2>3
<1>2. ASSUME NEW p \in Goroutine, StopOwner(call[p].entry), call[p].stage \in {"stopOwner", "cleanup"}
      PROVE  call[p].entry = e
  <2>1. PICK f \in Entry : f = call[p].entry
    BY <1>0, <1>2, Fields DEF RegistryInv, CallInv, CallOk, AimOk
  <2>2. \A g \in Entry \ {f} : entry'[g] = entry[g]
    BY <1>0, <1>2, <2>1, OwnerStops DEF RegistryInv
  <2> QED
    BY <2>1, <2>2
<1>3. ASSUME NEW p \in Caller, RevokeStops(p)
      PROVE  In(p, "cleanup") /\ call[p].entry = e
  <2>1. StopOwner(call[p].entry) /\ call[p].stage = "cleanup" /\ p \in Goroutine
    BY <1>3, Names DEF RevokeStops, In
  <2> QED
    BY <1>2, <2>1 DEF In
<1>4. ASSUME NEW p \in Goroutine, TeardownStops(p)
      PROVE  slot[entry[e].acct].active = None
  <2>1. StopOwner(call[p].entry) /\ call[p].stage = "stopOwner"
    BY <1>4 DEF TeardownStops, In
  <2>2. call[p].entry = e /\ CallOk(p) /\ e # None
    BY <1>2, <2>1, Names DEF RegistryInv, CallInv
  <2> QED
    BY <1>0, <2>1, <2>2 DEF CallOk, AimOk, WaitedOk
<1>5. ASSUME NEW f \in Entry, Build(f)
      PROVE  FALSE
  <2>1. entry[f].build = "building" /\ f # e
    BY <1>0, <1>5 DEF Build, EntryOk
  <2>2. entry'[e] = entry[e]
    <3>1. \/ entry' = [entry EXCEPT ![f].build = "built", ![f].owner = "fresh"]
          \/ entry' = [entry EXCEPT ![f].build = "refused"]
          \/ entry' = [entry EXCEPT ![f].build = "failed"]
      BY <1>5 DEF Build
    <3> QED
      BY <1>0, <2>1, <3>1
  <2> QED
    BY <2>2
<1>6. ASSUME NEW f \in Entry, StartRun(f) \/ RunEnds(f) \/ RunNoted(f) \/ RunSwept(f)
      PROVE  FALSE
  <2>1. \/ entry' = [entry EXCEPT ![f].owner = "running"]
        \/ \E result \in {"ok", "error", "deadline"} :
              entry' = [entry EXCEPT ![f].owner = "ended", ![f].result = result]
        \/ entry' = [entry EXCEPT ![f].owner = "noted"]
        \/ entry' = [entry EXCEPT ![f].owner = "swept"]
    BY <1>6 DEF StartRun, RunEnds, RunNoted, RunSwept
  <2>2. ASSUME NEW result, entry' = [entry EXCEPT ![f].owner = "ended", ![f].result = result]
        PROVE  FALSE
    BY <1>0, <2>2 DEF RuntimeEntry
  <2>3. ASSUME NEW o \in {"running", "noted", "swept"}, entry' = [entry EXCEPT ![f].owner = o]
        PROVE  FALSE
    BY <1>0, <2>3 DEF RuntimeEntry
  <2> QED
    BY <2>1, <2>2, <2>3
<1> QED
  BY <1>1, <1>3, <1>4, <1>5, <1>6, EntryWriters

\* StopAccount waits for the operations and the client it stops, and leaves none
\* of its version or an older one but that of a revoke, as long as fences are not
\* evicted; if they are, what is left is opened anew or being drained.
THEOREM StopWaits == Spec => StopWaitsForTeardown
<1>1. RegistryInv /\ RegistryInv' /\ [Next]_vars =>
        [/\ TeardownsDrain
         /\ \A p \in Caller, a \in Account, v \in Version : StopSucceeds(p, a, v) =>
              \A e \in Entry : Client(e)' /\ entry'[e].acct = a =>
                  /\ e # call[p].entry
                  /\ \/ entry'[e].ver > v \/ entry'[e].private
                     \/ /\ ~EnoughFences
                        /\ v <= fence'[a].version => slot'[a].closed \/ Fencing(a)']_vars
  <2> SUFFICES ASSUME RegistryInv, RegistryInv', Next
               PROVE  /\ TeardownsDrain
                      /\ \A p \in Caller, a \in Account, v \in Version : StopSucceeds(p, a, v) =>
                           \A e \in Entry : Client(e)' /\ entry'[e].acct = a =>
                               /\ e # call[p].entry
                               /\ \/ entry'[e].ver > v \/ entry'[e].private
                                  \/ /\ ~EnoughFences
                                     /\ v <= fence'[a].version => slot'[a].closed \/ Fencing(a)'
    OBVIOUS
  <2>1. TeardownsDrain
    BY TeardownDrains
  <2>2. ASSUME NEW p \in Caller, NEW a \in Account, NEW v \in Version, StopSucceeds(p, a, v)
        PROVE  ~crashed /\ (Step(p) \/ Expire(p))
    <3>1. Types /\ p \in Goroutine /\ ~crashed
      BY Names DEF RegistryInv, Next
    <3>2. call[p].stage # "idle" /\ call'[p].stage = "idle"
      BY <2>2 DEF StopSucceeds, In
    <3>3. ASSUME NEW q \in Goroutine, Step(q) \/ Expire(q)
          PROVE  q = p
      BY <3>1, <3>2, <3>3, OneActor
    <3>4. ASSUME NEW q \in Caller, Invoke(q)
          PROVE  FALSE
      <4>1. PICK c : call' = [call EXCEPT ![q] = c] /\ call[q].stage = "idle"
        BY <3>4 DEF Invoke, In
      <4> QED
        BY <3>1, <3>2, <4>1 DEF Types
    <3>5. ASSUME ReapScan \/ StopRegistry
          PROVE  FALSE
      <4>1. p # Reaper /\ p # Stopper
        BY Names
      <4>2. CASE StopRegistry
        <5>1. Goto(Stopper, "collect")
          BY <4>2 DEF StopRegistry
        <5> QED
          BY <3>1, <3>2, <4>1, <5>1 DEF Goto, Types
      <4>3. CASE ReapScan
        <5>1. PICK b \in Idling : call' = [call EXCEPT ![Reaper].stage = "evict", ![Reaper].at = b]
          BY <4>3 DEF ReapScan
        <5> QED
          BY <3>1, <3>2, <4>1, <5>1 DEF Types
      <4> QED
        BY <3>5, <4>2, <4>3
    <3>6. ASSUME NEW e \in Entry, EntryStep(e) \/ RunEnds(e)
          PROVE  FALSE
      <4>1. UNCHANGED call
        BY <3>6, Zenon DEF EntryStep, Build, StartRun, RunEnds, RunNoted, RunSwept
      <4> QED
        BY <3>2, <4>1
    <3>7. \A q \in Caller \cup {Stopper} : q \in Goroutine
      BY Names
    <3> QED
      BY <3>1, <3>3, <3>4, <3>5, <3>6, <3>7 DEF Next
  <2>3. ASSUME NEW p \in Caller, NEW a \in Account, NEW v \in Version, StopSucceeds(p, a, v),
               NEW e \in Entry, Client(e)', entry'[e].acct = a
        PROVE  /\ e # call[p].entry
               /\ \/ entry'[e].ver > v \/ entry'[e].private
                  \/ /\ ~EnoughFences
                     /\ v <= fence'[a].version => slot'[a].closed \/ Fencing(a)'
    BY <2>2, <2>3, SuccessLeaves
  <2> QED
    BY <2>1, <2>3
<1> QED
  BY <1>1, RegistryInvCorrect, PTL DEF Spec, StopWaitsForTeardown

-----------------------------------------------------------------------------
(* What ends the process.                                                  *)

\* Whoever waits for a slot has an entry to tear down, but for the reaper, and so
\* has what Stop has collected.
EntriesInHand ==
    /\ \A p \in Goroutine \ {Reaper} : call[p].stage \in {"wait", "gate"} => call[p].entry # None
    /\ \A item \in todo[Stopper] : item[2] # None

\* The steps after which a goroutine evicts, waits for a slot, or is about to
\* close one for StopAccount.
LEMMA StageWriters ==
    ASSUME RegistryInv, NEW p \in Goroutine, Step(p) \/ Expire(p),
           call'[p].stage \in {"evict", "evictClose", "seen", "wait", "gate"}
    PROVE  \/ EvictRead(p) \/ EvictClose(p) \/ WaitRevoke(p)
           \/ p \in Caller /\ (TakeIdle(p) \/ ReserveReplaces(p) \/ StopLook(p) \/ StopClose(p))
           \/ p \in Worker /\ NextTeardown(p)
<1>0. Types /\ call \in [Goroutine -> Call] /\ CallOk(p)
  BY DEF RegistryInv, Types, CallInv
<1> DEFINE S == {"evict", "evictClose", "seen", "wait", "gate"}
<1>1. ASSUME NEW s, Goto(p, s), s \notin S PROVE FALSE
  BY <1>0, <1>1 DEF Goto, Call
<1>2. ASSUME NEW s, NEW e, GotoWith(p, s, e), s \notin S PROVE FALSE
  BY <1>0, <1>2 DEF GotoWith, Call
<1>3. ASSUME Return(p) \/ ReturnOk(p) PROVE FALSE
  BY <1>0, <1>3, ReturnCall
<1>4. ASSUME NEW ok \in BOOLEAN, Finish(p, ok), call[p].stage \in Tearing, UNCHANGED status
      PROVE  FALSE
  BY <1>0, <1>4, FinishCall
<1>5. CASE TeardownStops(p) \/ TeardownReset(p)
  BY <1>1, <1>5 DEF TeardownStops, TeardownReset
<1>6. CASE EnterGate(p)
  <2>1. call[p].stage \in Tearing /\ status' = status
    BY <1>6 DEF EnterGate, In, Tearing, registry
  <2> QED
    BY <1>1, <1>4, <1>6, <2>1 DEF EnterGate
<1>7. CASE Drain(p) \/ Join(p) \/ DrainTimeout(p)
  <2>1. call[p].stage \in Tearing /\ status' = status
    BY <1>7 DEF Drain, Join, DrainTimeout, In, Tearing, Gated, registry
  <2>2. \/ \E ok : call' = [call EXCEPT ![p].stage = "reset", ![p].ok = ok]
        \/ Finish(p, FALSE)
        \/ Goto(p, "stopOwner")
    BY <1>7, Zenon DEF Drain, Join, DrainTimeout
  <2>3. ASSUME NEW ok, call' = [call EXCEPT ![p].stage = "reset", ![p].ok = ok]
        PROVE  FALSE
    BY <1>0, <2>3 DEF Call
  <2>4. ~Finish(p, FALSE) /\ ~Goto(p, "stopOwner")
    BY <1>1, <1>4, <2>1
  <2> QED
    BY <2>2, <2>3, <2>4, Zenon
<1>8. CASE TeardownEnds(p)
  <2>1. call[p].stage \in Tearing /\ status' = status /\ Finish(p, call[p].ok)
    BY <1>8 DEF TeardownEnds, In, Tearing
  <2>2. call[p].ok \in BOOLEAN
    BY <1>0 DEF Call
  <2> QED
    BY <1>4, <2>1, <2>2
<1>9. CASE Executes(p) /\ ~TakeIdle(p) /\ ~ReserveReplaces(p)
  <2>1. ASSUME ReserveFirst(p) \/ ReserveLook(p) PROVE FALSE
    <3>1. \E e : \E s \in {"opened", "decide"} : GotoWith(p, s, e)
      BY <2>1 DEF ReserveFirst, ReserveLook
    <3> QED
      BY <1>2, <3>1
  <2>2. CASE \/ Refused(p) \/ ReserveShared(p) \/ ReserveRefused(p) \/ Begin(p) \/ Dispatch(p)
             \/ CallbackEnds(p) \/ FinishOperation(p) \/ CloseHandle(p)
    BY <1>1, <1>3, <2>2 DEF Refused, ReserveShared, ReserveRefused, Begin, Dispatch, CallbackEnds,
       FinishOperation, CloseHandle
  <2> QED
    BY <1>9, <2>1, <2>2 DEF Executes
<1>10. CASE Revokes(p)
  <2>1. ASSUME Prepare(p) PROVE FALSE
    <3> DEFINE e == slot[call[p].acct].current
    <3>1. \/ call' = [call EXCEPT ![p].stage = "cleanup", ![p].entry = e, ![p].back = "prepare"]
          \/ GotoWith(p, "seize", e)
          \/ Goto(p, "release")
      BY <2>1, Zenon DEF Prepare
    <3> HIDE DEF e
    <3>2. ASSUME call' = [call EXCEPT ![p].stage = "cleanup", ![p].entry = e, ![p].back = "prepare"]
          PROVE  FALSE
      BY <1>0, <3>2 DEF Call
    <3> QED
      BY <1>1, <1>2, <3>1, <3>2
  <2>2. ASSUME Seize(p) PROVE FALSE
    <3>1. Goto(p, "revoking") \/ \E e \in Entry : GotoWith(p, "revoking", e)
      BY <2>2 DEF Seize
    <3> QED
      BY <1>1, <1>2, <3>1
  <2>3. ASSUME RevokeStops(p) PROVE FALSE
    <3>1. \E built : call' = [call EXCEPT ![p].stage = "joining", ![p].ok = built]
      BY <2>3, Zenon DEF RevokeStops
    <3>2. ASSUME NEW built, call' = [call EXCEPT ![p].stage = "joining", ![p].ok = built]
          PROVE  FALSE
      BY <1>0, <3>2 DEF Call
    <3> QED
      BY <3>1, <3>2, Zenon
  <2>4. ASSUME Acquire(p) \/ ClaimGate(p) PROVE FALSE
    <3>1. Goto(p, "claim") \/ Return(p) \/ Goto(p, "prepare")
      BY <2>4 DEF Acquire, ClaimGate
    <3> QED
      BY <1>1, <1>3, <3>1
  <2>5. ASSUME RevokeUnprotects(p) \/ Release(p) PROVE FALSE
    <3>1. \/ \E s \in {"prepare", "release"} : call' = [call EXCEPT ![p] = Restarted(p, s)]
          \/ Return(p)
      BY <2>5 DEF RevokeUnprotects, Release
    <3> QED
      BY <1>0, <1>3, <3>1 DEF Restarted, NoCall
  <2>6. CASE Privilege(p) \/ PrivilegeEnds(p) \/ RevokeJoins(p) \/ RevokeReset(p)
    BY <1>1, <2>6 DEF Privilege, PrivilegeEnds, RevokeJoins, RevokeReset
  <2> QED
    BY <1>10, <2>1, <2>2, <2>3, <2>4, <2>5, <2>6 DEF Revokes
<1>11. CASE \/ p \in Worker /\ AllTornDown(p)
            \/ p = Reaper /\ ReapScanned
            \/ p = Stopper /\ (StopCollects \/ StopEnds)
  BY <1>1, <1>3, <1>11 DEF AllTornDown, ReapScanned, StopCollects, StopEnds
<1>12. CASE Expire(p)
  <2>1. CASE call[p].stage \in {"wait", "gate"} /\ Finish(p, FALSE)
    BY <1>4, <1>12, <2>1 DEF Expire, Tearing, registry
  <2>2. CASE ~(call[p].stage \in {"wait", "gate"} /\ Finish(p, FALSE))
    <3>1. Goto(p, "closing") \/ Goto(p, "ending") \/ Return(p)
      BY <1>12, <2>2 DEF Expire
    <3> QED
      BY <1>1, <1>3, <3>1
  <2> QED
    BY <2>1, <2>2
<1> QED
  BY <1>5, <1>6, <1>7, <1>8, <1>9, <1>10, <1>11, <1>12 DEF Step, TearsDown, Executes

\* An eviction that finds no entry goes on to nothing; the other teardowns have
\* seen theirs under registry.mu.
LEMMA WaitersKnowEntries ==
    ASSUME RegistryInv, EntriesInHand, NEW p \in Goroutine, p # Reaper, Step(p) \/ Expire(p),
           call'[p].stage \in {"wait", "gate"}
    PROVE  call'[p].entry # None
<1>0. Types /\ call \in [Goroutine -> Call] /\ CallOk(p)
  BY DEF RegistryInv, Types, CallInv
<1>1. CASE EvictClose(p)
  <2>1. call[p].entry # None /\ Goto(p, "wait")
    BY <1>0, <1>1, ReturnCall DEF EvictClose
  <2> QED
    BY <1>0, <2>1, GotoCall DEF Stage
<1>2. CASE WaitRevoke(p)
  <2>1. call[p].entry # None /\ Goto(p, "gate")
    BY <1>2 DEF WaitRevoke, EntriesInHand, In
  <2> QED
    BY <1>0, <2>1, GotoCall DEF Stage
<1>3. CASE EvictRead(p)
  <2>1. GotoWith(p, "evictClose", slot[call[p].at].current)
    BY <1>3 DEF EvictRead
  <2> QED
    BY <1>0, <2>1 DEF GotoWith, Call
<1>4. ASSUME TakeIdle(p)
      PROVE  FALSE
  <2>1. PICK b \in Idling :
            call' = [call EXCEPT ![p].stage = "evict", ![p].at = b, ![p].back = call[p].stage]
    BY <1>4, Zenon DEF TakeIdle
  <2> QED
    BY <1>0, <2>1 DEF Call
<1>5. CASE ReserveReplaces(p)
  <2>1. /\ call' = [call EXCEPT ![p].stage = "wait", ![p].at = call[p].acct, ![p].back = "reserve"]
        /\ call[p].entry # None
    BY <1>5 DEF ReserveReplaces
  <2> QED
    BY <1>0, <2>1 DEF Call
<1>6. CASE StopLook(p)
  <2>1. call[p].stage = "stop"
    BY <1>6 DEF StopLook, In
  <2>2. UNCHANGED call \/ Return(p) \/ ReturnOk(p) \/ \E e : GotoWith(p, "seen", e)
    BY <1>6 DEF StopLook
  <2>3. ASSUME NEW e, GotoWith(p, "seen", e) PROVE FALSE
    BY <1>0, <2>3 DEF GotoWith, Call
  <2> QED
    BY <1>0, <2>1, <2>2, <2>3, ReturnCall
<1>7. CASE StopClose(p)
  <2>1. /\ call' = [call EXCEPT ![p].stage = "wait", ![p].at = call[p].acct, ![p].back = "stopped"]
        /\ call[p].stage = "seen"
    BY <1>7 DEF StopClose, In
  <2>2. call[p].entry # None
    BY <1>0, <2>1 DEF CallOk, AimOk, Using
  <2> QED
    BY <1>0, <2>1, <2>2 DEF Call
<1>8. CASE p \in Worker /\ NextTeardown(p)
  <2>1. PICK item \in todo[p] :
            /\ call' = [call EXCEPT ![p].stage = "wait", ![p].at = item[1], ![p].entry = item[2]]
            /\ todo' = [todo EXCEPT ![p] = @ \ {item}]
    BY <1>8, Zenon DEF NextTeardown
  <2>2. p = Stopper
    BY <1>8 DEF Worker
  <2>3. item[2] # None
    BY <2>2 DEF EntriesInHand
  <2> QED
    BY <1>0, <2>1, <2>3 DEF Call
<1> QED
  BY <1>1, <1>2, <1>3, <1>4, <1>5, <1>6, <1>7, <1>8, StageWriters

\* The steps that write what is to be torn down.
LEMMA TodoWriters ==
    ASSUME Next
    PROVE  \/ UNCHANGED todo
           \/ \E p \in Goroutine : EvictClose(p)
           \/ \E w \in Worker : NextTeardown(w)
           \/ StopCollects
<1>1. ASSUME NEW p \in Goroutine, TearsDown(p)
      PROVE  UNCHANGED todo \/ EvictClose(p)
  BY <1>1, Zenon DEF TearsDown, EvictRead, WaitRevoke, EnterGate, Drain, TeardownStops, Join, DrainTimeout,
     TeardownReset, TeardownEnds, others
<1>2. ASSUME NEW p \in Caller, Executes(p)
      PROVE  UNCHANGED todo
  <2>1. ASSUME Decide(p) PROVE UNCHANGED todo
    BY <2>1, Zenon DEF Decide, others
  <2> QED
    BY <1>2, <2>1, Zenon DEF Executes, TakeIdle, Refused, ReserveLook, ReserveShared, ReserveReplaces,
       ReserveFirst, ReserveRefused, Begin, Dispatch, CallbackEnds, FinishOperation, CloseHandle, others
<1>3. ASSUME NEW p \in Caller, Revokes(p)
      PROVE  UNCHANGED todo
  BY <1>3, Zenon DEF Revokes, Acquire, ClaimGate, Prepare, Seize, Privilege, PrivilegeEnds, RevokeStops,
     RevokeJoins, RevokeReset, RevokeUnprotects, Release, others
<1>4. ASSUME NEW p \in Goroutine,
             StopLook(p) \/ StopClose(p) \/ AllTornDown(p) \/ ReapScanned \/ StopEnds \/ Expire(p)
      PROVE  UNCHANGED todo
  BY <1>4, Zenon DEF StopLook, StopClose, AllTornDown, ReapScanned, StopEnds, Expire, others
<1>5. ASSUME NEW p \in Goroutine, Step(p)
      PROVE  UNCHANGED todo \/ EvictClose(p) \/ (p \in Worker /\ NextTeardown(p)) \/ StopCollects
  BY <1>5, <1>1, <1>2, <1>3, <1>4 DEF Step
<1>6. ASSUME NEW p \in Caller, Invoke(p)
      PROVE  UNCHANGED todo
  BY <1>6, Zenon DEF Invoke
<1>7. ASSUME ReapScan \/ StopRegistry
      PROVE  UNCHANGED todo
  BY <1>7, Zenon DEF ReapScan, StopRegistry, others
<1>8. ASSUME NEW e \in Entry, EntryStep(e) \/ RunEnds(e)
      PROVE  UNCHANGED todo
  BY <1>8, Zenon DEF EntryStep, Build, StartRun, RunEnds, RunNoted, RunSwept, others
<1>9. \A p \in Caller \cup {Stopper} : p \in Goroutine
  BY Names
<1> QED
  BY <1>4, <1>5, <1>6, <1>7, <1>8, <1>9 DEF Next

\* Stop collects entries only.
LEMMA CollectedHaveEntries ==
    ASSUME RegistryInv, EntriesInHand, Next
    PROVE  \A item \in todo'[Stopper] : item[2] # None
<1>0. Types /\ todo \in [Worker -> SUBSET (Account \X (Entry \cup {None}))]
      /\ Reaper \in Worker /\ Stopper \in Worker /\ Reaper # Stopper
  BY Names DEF RegistryInv, Types
<1>1. ASSUME NEW p \in Goroutine, EvictClose(p)
      PROVE  todo'[Stopper] = todo[Stopper]
  <2>1. CASE p = Reaper
    <3>1. \E new : todo' = [todo EXCEPT ![Reaper] = new]
      BY <1>1, <2>1 DEF EvictClose
    <3> QED
      BY <1>0, <3>1
  <2> QED
    BY <1>1, <2>1 DEF EvictClose
<1>2. ASSUME NEW w \in Worker, NextTeardown(w)
      PROVE  todo'[Stopper] \subseteq todo[Stopper]
  <2>1. PICK item : todo' = [todo EXCEPT ![w] = @ \ {item}]
    BY <1>2 DEF NextTeardown
  <2> QED
    BY <1>0, <2>1
<1>3. ASSUME StopCollects
      PROVE  \A item \in todo'[Stopper] : item[2] # None
  <2> DEFINE left == {<<a, slot[a].current>> : a \in {b \in table : slot[b].current # None}}
  <2>1. todo'[Stopper] = left
    BY <1>0, <1>3 DEF StopCollects
  <2>2. \A item \in left : item[2] # None
    OBVIOUS
  <2> QED
    BY <2>1, <2>2
<1>4. \/ UNCHANGED todo
      \/ \E p \in Goroutine : EvictClose(p)
      \/ \E w \in Worker : NextTeardown(w)
      \/ StopCollects
  BY TodoWriters
<1> QED
  BY <1>1, <1>2, <1>3, <1>4 DEF EntriesInHand

\* The steps that may end the process.
LEMMA CrashWriters ==
    ASSUME Next
    PROVE  \/ UNCHANGED crashed
           \/ \E p \in Goroutine : EnterGate(p)
           \/ \E p \in Caller : StopLook(p)
<1>1. ASSUME NEW p \in Goroutine, TearsDown(p)
      PROVE  UNCHANGED crashed \/ EnterGate(p)
  BY <1>1, Zenon DEF TearsDown, EvictRead, EvictClose, WaitRevoke, Drain, TeardownStops, Join, DrainTimeout,
     TeardownReset, TeardownEnds, others
<1>2. ASSUME NEW p \in Caller, Executes(p)
      PROVE  UNCHANGED crashed
  <2>1. ASSUME Decide(p) PROVE UNCHANGED crashed
    BY <2>1, Zenon DEF Decide, others
  <2> QED
    BY <1>2, <2>1, Zenon DEF Executes, TakeIdle, Refused, ReserveLook, ReserveShared, ReserveReplaces,
       ReserveFirst, ReserveRefused, Begin, Dispatch, CallbackEnds, FinishOperation, CloseHandle, others
<1>3. ASSUME NEW p \in Caller, Revokes(p)
      PROVE  UNCHANGED crashed
  BY <1>3, Zenon DEF Revokes, Acquire, ClaimGate, Prepare, Seize, Privilege, PrivilegeEnds, RevokeStops,
     RevokeJoins, RevokeReset, RevokeUnprotects, Release, others
<1>4. ASSUME NEW p \in Goroutine,
             \/ StopClose(p) \/ NextTeardown(p) \/ AllTornDown(p)
             \/ ReapScanned \/ StopCollects \/ StopEnds \/ Expire(p)
      PROVE  UNCHANGED crashed
  BY <1>4, Zenon DEF StopClose, NextTeardown, AllTornDown, ReapScanned, StopCollects, StopEnds, Expire, others
<1>5. ASSUME NEW p \in Goroutine, Step(p)
      PROVE  UNCHANGED crashed \/ EnterGate(p) \/ (p \in Caller /\ StopLook(p))
  BY <1>5, <1>1, <1>2, <1>3, <1>4 DEF Step
<1>6. ASSUME NEW p \in Caller, Invoke(p)
      PROVE  UNCHANGED crashed
  BY <1>6, Zenon DEF Invoke
<1>7. ASSUME ReapScan \/ StopRegistry
      PROVE  UNCHANGED crashed
  BY <1>7, Zenon DEF ReapScan, StopRegistry, others
<1>8. ASSUME NEW e \in Entry, EntryStep(e) \/ RunEnds(e)
      PROVE  UNCHANGED crashed
  BY <1>8, Zenon DEF EntryStep, Build, StartRun, RunEnds, RunNoted, RunSwept, others
<1>9. \A p \in Caller \cup {Stopper} : p \in Goroutine
  BY Names
<1> QED
  BY <1>4, <1>5, <1>6, <1>7, <1>8, <1>9 DEF Next

\* A call that begins.
LEMMA InvokeCall ==
    ASSUME Types, NEW p \in Caller, Invoke(p)
    PROVE  Written(p) /\ call'[p].stage \in {"reserve", "acquire", "stop"}
<1>0. PICK a \in Account, v \in Version :
          \E stage \in (IF v \in Open THEN {"reserve", "stop"} ELSE {"acquire", "stop"}) :
              call' = [call EXCEPT ![p] = [NoCall EXCEPT !.stage = stage, !.acct = a, !.ver = v]]
  BY Zenon DEF Invoke
<1>1. PICK stage \in (IF v \in Open THEN {"reserve", "stop"} ELSE {"acquire", "stop"}) :
          call' = [call EXCEPT ![p] = [NoCall EXCEPT !.stage = stage, !.acct = a, !.ver = v]]
  BY <1>0, Zenon
<1>2. stage \in {"reserve", "acquire", "stop"}
  OBVIOUS
<1>3. [NoCall EXCEPT !.stage = stage, !.acct = a, !.ver = v] \in Call
  BY <1>2 DEF NoCall, Call, Stage
<1> QED
  BY <1>1, <1>2, <1>3, Names DEF Written, NoCall, Types

\* Who acts: a goroutine is only moved by itself, but for the scans of the reaper
\* and the beginnings of calls.
LEMMA WhoActs ==
    ASSUME Types, Next, NEW q \in Goroutine
    PROVE  \/ Step(q) \/ Expire(q)
           \/ q = Reaper /\ ReapScan
           \/ call'[q] = call[q]
           \/ call'[q].stage \in {"reserve", "acquire", "stop", "collect"}
<1>0. call \in [Goroutine -> Call]
  BY DEF Types
<1>1. ASSUME NEW p \in Goroutine, Step(p) \/ Expire(p)
      PROVE  p = q \/ call'[q] = call[q]
  BY <1>1, OneActor
<1>2. ASSUME NEW p \in Caller, Invoke(p)
      PROVE  call'[q] = call[q] \/ call'[q].stage \in {"reserve", "acquire", "stop"}
  BY <1>2, Names, InvokeCall DEF Written
<1>3. ASSUME ReapScan
      PROVE  q = Reaper \/ call'[q] = call[q]
  <2>1. PICK b \in Idling : call' = [call EXCEPT ![Reaper].stage = "evict", ![Reaper].at = b]
    BY <1>3, Zenon DEF ReapScan
  <2> QED
    BY <1>0, <2>1
<1>4. ASSUME StopRegistry
      PROVE  call'[q] = call[q] \/ call'[q].stage = "collect"
  <2>1. Goto(Stopper, "collect")
    BY <1>4 DEF StopRegistry
  <2> QED
    BY <1>0, <2>1 DEF Goto, Call
<1>5. ASSUME NEW e \in Entry, EntryStep(e) \/ RunEnds(e)
      PROVE  call'[q] = call[q]
  BY <1>5, Zenon DEF EntryStep, Build, StartRun, RunEnds, RunNoted, RunSwept
<1>6. \A p \in Caller \cup {Stopper} : p \in Goroutine
  BY Names
<1> QED
  BY <1>1, <1>2, <1>3, <1>4, <1>5, <1>6 DEF Next

\* Only two mistakes end the process: a stop for another version than the slot's,
\* and a pass of the reaper that met a slot which had just lost its entry.
THEOREM CrashesHaveCauses == Spec => []CrashesExplained
<1>1. Init => EntriesInHand /\ CrashesExplained
  <2>1. ASSUME Init
        PROVE  EntriesInHand
    <3>1. \A p \in Goroutine : call[p].stage = "idle"
      BY <2>1 DEF Init, NoCall
    <3>2. todo[Stopper] = {}
      BY <2>1, Names DEF Init
    <3> QED
      BY <3>1, <3>2 DEF EntriesInHand
  <2> QED
    BY <2>1 DEF Init, CrashesExplained
<1>2. RegistryInv /\ EntriesInHand /\ CrashesExplained /\ [Next]_vars =>
          EntriesInHand' /\ CrashesExplained'
  <2>1. ASSUME RegistryInv, EntriesInHand, Next
        PROVE  EntriesInHand'
    <3>1. ASSUME NEW q \in Goroutine, q # Reaper, call'[q].stage \in {"wait", "gate"}
          PROVE  call'[q].entry # None
      <4>1. Step(q) \/ Expire(q) \/ call'[q] = call[q]
        BY <2>1, <3>1, WhoActs DEF RegistryInv
      <4>2. CASE Step(q) \/ Expire(q)
        BY <2>1, <3>1, <4>2, WaitersKnowEntries
      <4>3. CASE call'[q] = call[q]
        BY <2>1, <3>1, <4>3 DEF EntriesInHand
      <4> QED
        BY <4>1, <4>2, <4>3
    <3>2. \A item \in todo'[Stopper] : item[2] # None
      BY <2>1, CollectedHaveEntries
    <3> QED
      BY <3>1, <3>2 DEF EntriesInHand
  <2>2. ASSUME RegistryInv, EntriesInHand, Next, crashed'
        PROVE  CrashesExplained'
    <3>0. ~crashed /\ Types /\ call \in [Goroutine -> Call]
      BY <2>2 DEF Next, RegistryInv, Types
    <3>1. ASSUME NEW p \in Goroutine, EnterGate(p)
          PROVE  call'[Reaper].stage = "drain" /\ call'[Reaper].entry = None
      <4>1. call[p].stage = "gate" /\ call[p].entry = None /\ Goto(p, "drain")
        BY <2>2, <3>0, <3>1 DEF EnterGate, In
      <4>2. p = Reaper
        BY <2>2, <4>1 DEF EntriesInHand
      <4>3. Moved(p, "drain") /\ call'[p].entry = call[p].entry
        BY <3>0, <4>1, GotoCall DEF Stage
      <4> QED
        BY <4>1, <4>2, <4>3 DEF Moved
    <3>2. ASSUME NEW p \in Caller, StopLook(p)
          PROVE  LET e == slot'[call'[p].acct].current IN
                   /\ call'[p].stage = "stop" /\ call'[p].acct \in table'
                   /\ e # None /\ call'[p].ver # entry'[e].ver
      <4> DEFINE a == call[p].acct
                 e == IF a \in table THEN slot[a].current ELSE None
      <4>1. /\ call[p].stage = "stop"
            /\ UNCHANGED <<slot, entry, table>>
        BY <3>2 DEF StopLook, In
      <4>2. UNCHANGED call /\ e # None /\ call[p].ver # entry[e].ver
        BY <2>2, <3>0, <3>2 DEF StopLook
      <4>3. a \in table /\ e = slot[a].current
        BY <4>2
      <4> QED
        BY <4>1, <4>2, <4>3
    <3>3. CASE \E p \in Goroutine : EnterGate(p)
      BY <3>1, <3>3 DEF CrashesExplained, In
    <3>4. CASE \E p \in Caller : StopLook(p)
      BY <3>2, <3>4 DEF CrashesExplained, In
    <3> QED
      BY <2>2, <3>0, <3>3, <3>4, CrashWriters
  <2>3. ASSUME ~crashed' PROVE CrashesExplained'
    BY <2>3 DEF CrashesExplained
  <2>4. ASSUME EntriesInHand, CrashesExplained, UNCHANGED vars
        PROVE  EntriesInHand' /\ CrashesExplained'
    BY <2>4 DEF vars, registry, others, fences, EntriesInHand, CrashesExplained, In
  <2> QED
    BY <2>1, <2>2, <2>3, <2>4
<1> QED
  BY <1>1, <1>2, RegistryInvCorrect, PTL DEF Spec

-----------------------------------------------------------------------------
(* What opens a slot again.                                                *)

\* A closed slot is in the table, and so is one that is about to be closed.
ClosedInTable ==
    /\ \A a \in Account : slot[a].closed => a \in table
    /\ \A p \in Goroutine : call[p].stage \in {"evict", "evictClose"} => call[p].at \in table
    /\ \A p \in Goroutine : call[p].stage = "seen" => call[p].acct \in table

\* A step that leaves closed slots closed and open ones open.
SameClosed == \A a \in Account : slot'[a].closed = slot[a].closed

\* What a step does to closed slots: it keeps them in the table, closes none that
\* is not there, and opens one without an entry only by the release of a revoke.
ClosedStep ==
    \A a \in Account :
        /\ slot'[a].closed => a \in table'
        /\ slot[a].closed /\ slot[a].current = None /\ ~slot'[a].closed =>
              \E p \in Caller : In(p, "release") /\ call[p].acct = a

\* It does so if it leaves them as they are, ...
LEMMA SameClosedStep ==
    ASSUME SameClosed, \A a \in Account : slot[a].closed => a \in table'
    PROVE  ClosedStep
BY DEF SameClosed, ClosedStep

\* ... or closes one that is in the table.
LEMMA CloserStep ==
    ASSUME Types, ClosedInTable, UNCHANGED table, NEW b \in table,
           \A a \in Account : a # b => slot'[a].closed = slot[a].closed,
           slot'[b].closed
    PROVE  ClosedStep
BY DEF ClosedInTable, ClosedStep

\* Other fields of a slot do not matter.
LEMMA OtherFields ==
    ASSUME Types, NEW b,
           \/ \E x : slot' = [slot EXCEPT ![b].handles = x]
           \/ \E x : slot' = [slot EXCEPT ![b].active = x]
           \/ \E x : slot' = [slot EXCEPT ![b].waiters = x]
           \/ \E x : slot' = [slot EXCEPT ![b].gate = x]
           \/ \E x : slot' = [slot EXCEPT ![b].current = x]
           \/ \E x, y : slot' = [slot EXCEPT ![b].current = x, ![b].handles = y]
           \/ UNCHANGED slot
    PROVE  SameClosed
<1>0. slot \in [Account -> Slot] /\ \A a \in Account : slot[a] \in Slot
  BY DEF Types
<1>1. ASSUME NEW x, slot' = [slot EXCEPT ![b].handles = x] PROVE SameClosed
  BY <1>0, <1>1 DEF Slot, SameClosed
<1>2. ASSUME NEW x, slot' = [slot EXCEPT ![b].active = x] PROVE SameClosed
  BY <1>0, <1>2 DEF Slot, SameClosed
<1>3. ASSUME NEW x, slot' = [slot EXCEPT ![b].waiters = x] PROVE SameClosed
  BY <1>0, <1>3 DEF Slot, SameClosed
<1>4. ASSUME NEW x, slot' = [slot EXCEPT ![b].gate = x] PROVE SameClosed
  BY <1>0, <1>4 DEF Slot, SameClosed
<1>5. ASSUME NEW x, slot' = [slot EXCEPT ![b].current = x] PROVE SameClosed
  BY <1>0, <1>5 DEF Slot, SameClosed
<1>6. ASSUME NEW x, NEW y, slot' = [slot EXCEPT ![b].current = x, ![b].handles = y] PROVE SameClosed
  BY <1>0, <1>6 DEF Slot, SameClosed
<1>7. ASSUME UNCHANGED slot PROVE SameClosed
  BY <1>7 DEF SameClosed
<1> QED
  BY <1>1, <1>2, <1>3, <1>4, <1>5, <1>6, <1>7

\* A slot is closed, and the others are as they were.
ClosesOnly(b) ==
    /\ slot'[b].closed
    /\ \A a \in Account : a # b => slot'[a].closed = slot[a].closed

LEMMA ClosesOne ==
    ASSUME Types, NEW b \in table, slot' = [slot EXCEPT ![b].closed = TRUE]
    PROVE  ClosesOnly(b)
<1>1. slot \in [Account -> Slot] /\ slot[b] \in Slot /\ b \in Account
  BY DEF Types
<1> QED
  BY <1>1 DEF Slot, ClosesOnly

\* The same, when it gets an entry as well.
LEMMA ClosesWithEntry ==
    ASSUME Types, NEW b \in table, NEW e, slot' = [slot EXCEPT ![b].closed = TRUE, ![b].current = e]
    PROVE  ClosesOnly(b)
<1> DEFINE s == [slot[b] EXCEPT !.closed = TRUE, !.current = e]
<1>1. slot \in [Account -> Slot] /\ slot[b] \in Slot /\ b \in Account
  BY DEF Types
<1>2. s.closed
  BY <1>1 DEF Slot
<1>3. slot' = [slot EXCEPT ![b] = s]
  BY <1>1
<1> HIDE DEF s
<1>4. slot'[b] = s /\ \A a \in Account : a # b => slot'[a] = slot[a]
  BY <1>1, <1>3
<1> QED
  BY <1>2, <1>4 DEF ClosesOnly

\* A slot that loses its entry is opened, and had one.
LEMMA ResetStep ==
    ASSUME Types, ClosedInTable, UNCHANGED table, NEW b, NEW e, e # None,
           slot' = [slot EXCEPT ![b] = Reset(@, e)]
    PROVE  ClosedStep
<1>0. slot \in [Account -> Slot] /\ \A a \in Account : slot[a] \in Slot
  BY DEF Types
<1> SUFFICES ASSUME NEW a \in Account
             PROVE  /\ slot'[a].closed => slot[a].closed
                    /\ slot[a].current = None => slot'[a].closed = slot[a].closed
  BY DEF ClosedStep, ClosedInTable
<1>1. CASE a = b /\ slot[a].current = e
  <2>1. slot'[a] = [slot[a] EXCEPT !.current = None, !.closed = FALSE]
    BY <1>0, <1>1 DEF Reset
  <2>2. slot[a] \in Slot
    BY <1>0
  <2>3. ~slot'[a].closed
    BY <2>1, <2>2 DEF Slot
  <2> QED
    BY <1>1, <2>3
<1>2. CASE ~(a = b /\ slot[a].current = e)
  BY <1>0, <1>2 DEF Reset
<1> QED
  BY <1>1, <1>2

\* A slot that is swept is open.
LEMMA SweptIsOpen ==
    ASSUME NEW b, NEW s, table' = Swept(b, s), NEW a \in table, a \notin table'
    PROVE  a = b /\ ~s.closed
BY DEF Swept, Removable

\* What an operation of a caller does to closed slots.
LEMMA ExecutesCloses ==
    ASSUME RegistryInv, ClosedInTable, NEW p \in Caller, Executes(p)
    PROVE  ClosedStep
<1>0. Types /\ slot \in [Account -> Slot] /\ \A a \in Account : slot[a] \in Slot
  BY DEF RegistryInv, Types
<1>1. CASE TakeIdle(p) \/ Refused(p)
  <2>1. UNCHANGED slot /\ UNCHANGED table
    BY <1>1, Zenon DEF TakeIdle, Refused, registry
  <2> QED
    BY <2>1, SameClosedStep DEF SameClosed, ClosedInTable
<1>2. CASE ReserveShared(p) \/ ReserveFirst(p) \/ ReserveRefused(p)
  <2>1. \/ \E x : slot' = [slot EXCEPT ![call[p].acct].handles = x]
        \/ \E x, y : slot' = [slot EXCEPT ![call[p].acct].current = x, ![call[p].acct].handles = y]
        \/ UNCHANGED slot
    BY <1>2, Zenon DEF ReserveShared, ReserveFirst, ReserveRefused
  <2>2. UNCHANGED table
    BY <1>2 DEF ReserveShared, ReserveFirst, ReserveRefused, Decide
  <2>3. SameClosed
    BY <1>0, <2>1, OtherFields
  <2> QED
    BY <2>2, <2>3, SameClosedStep DEF ClosedInTable
<1>3. CASE Begin(p) \/ Dispatch(p) \/ CallbackEnds(p) \/ FinishOperation(p)
  <2>1. \/ \E x : slot' = [slot EXCEPT ![call[p].acct].active = x]
        \/ UNCHANGED slot
    BY <1>3, Zenon DEF Begin, Dispatch, CallbackEnds, FinishOperation
  <2>2. UNCHANGED table
    BY <1>3 DEF Begin, Dispatch, CallbackEnds, FinishOperation, registry
  <2>3. SameClosed
    BY <1>0, <2>1, OtherFields
  <2> QED
    BY <2>2, <2>3, SameClosedStep DEF ClosedInTable
<1>4. CASE ReserveLook(p)
  <2>1. /\ slot' = IF call[p].acct \in table THEN slot ELSE [slot EXCEPT ![call[p].acct] = FreshSlot]
        /\ table' = table \cup {call[p].acct}
    BY <1>4 DEF ReserveLook
  <2>2. ASSUME NEW a \in Account PROVE slot'[a].closed = slot[a].closed
    <3>1. CASE a = call[p].acct /\ a \notin table
      <4>1. slot'[a] = FreshSlot
        BY <1>0, <2>1, <3>1
      <4>2. slot[a].closed = FALSE
        BY <1>0, <3>1 DEF ClosedInTable, Slot
      <4>3. FreshSlot.closed = FALSE
        BY DEF FreshSlot
      <4> QED
        BY <4>1, <4>2, <4>3
    <3>2. CASE ~(a = call[p].acct /\ a \notin table)
      BY <1>0, <2>1, <3>2
    <3> QED
      BY <3>1, <3>2
  <2> QED
    BY <2>1, <2>2, SameClosedStep DEF SameClosed, ClosedInTable
<1>5. CASE CloseHandle(p)
  <2> DEFINE s == [slot[call[p].acct] EXCEPT !.handles = @ \ {p}]
  <2>1. slot' = [slot EXCEPT ![call[p].acct] = s] /\ table' = Swept(call[p].acct, s)
    BY <1>5 DEF CloseHandle
  <2>2. call[p].acct \in Account
    BY <1>5, Names DEF CloseHandle, In, RegistryInv, CallInv, CallOk, AimOk, Aiming, Using, Holding
  <2>3. s.closed = slot[call[p].acct].closed
    BY <1>0, <2>2 DEF Slot
  <2> HIDE DEF s
  <2>4. SameClosed
    BY <1>0, <2>1, <2>3 DEF SameClosed
  <2> QED
    BY <2>1, <2>3, <2>4, SweptIsOpen, SameClosedStep DEF ClosedInTable
<1>6. CASE ReserveReplaces(p)
  <2>1. call[p].acct \in table /\ UNCHANGED table
    BY <1>6, Names DEF ReserveReplaces, Decide, In, RegistryInv, CallInv, CallOk, LockOk
  <2>2. slot' = [slot EXCEPT ![call[p].acct].closed = TRUE]
    BY <1>6 DEF ReserveReplaces
  <2>3. ClosesOnly(call[p].acct)
    BY <1>0, <2>1, <2>2, ClosesOne
  <2> QED
    BY <1>0, <2>1, <2>3, CloserStep DEF ClosesOnly
<1> QED
  BY <1>1, <1>2, <1>3, <1>4, <1>5, <1>6 DEF Executes

\* What a teardown does to closed slots.
LEMMA TearsDownCloses ==
    ASSUME RegistryInv, ClosedInTable, ~crashed, NEW p \in Goroutine, TearsDown(p)
    PROVE  ClosedStep
<1>0. Types /\ slot \in [Account -> Slot] /\ \A a \in Account : slot[a] \in Slot
  BY DEF RegistryInv, Types
<1>1. CASE EvictRead(p) \/ WaitRevoke(p) \/ TeardownStops(p)
  <2>1. UNCHANGED slot /\ UNCHANGED table
    BY <1>1, Zenon DEF EvictRead, WaitRevoke, TeardownStops, registry
  <2> QED
    BY <2>1, SameClosedStep DEF SameClosed, ClosedInTable
<1>2. CASE EvictClose(p)
  <2>1. call[p].at \in table /\ UNCHANGED table
    BY <1>2 DEF EvictClose, In, ClosedInTable
  <2>2. slot' = [slot EXCEPT ![call[p].at].closed = TRUE]
    BY <1>2 DEF EvictClose
  <2>3. ClosesOnly(call[p].at)
    BY <1>0, <2>1, <2>2, ClosesOne
  <2> QED
    BY <1>0, <2>1, <2>3, CloserStep DEF ClosesOnly
<1>3. CASE EnterGate(p) \/ Drain(p) \/ Join(p) \/ DrainTimeout(p)
  <2>1. \/ \E x : slot' = [slot EXCEPT ![call[p].at].gate = x]
        \/ UNCHANGED slot
    BY <1>3, Zenon DEF EnterGate, Drain, Join, DrainTimeout, FreeGate
  <2>2. UNCHANGED table
    BY <1>3, Zenon DEF EnterGate, Drain, Join, DrainTimeout, registry
  <2>3. SameClosed
    BY <1>0, <2>1, OtherFields
  <2> QED
    BY <2>2, <2>3, SameClosedStep DEF ClosedInTable
<1>4. CASE TeardownReset(p)
  <2>1. UNCHANGED table /\ slot' = [slot EXCEPT ![call[p].at] = Reset(@, call[p].entry)]
    BY <1>4 DEF TeardownReset, registry
  <2>2. call[p].entry # None
    BY <1>4 DEF TeardownReset, In, RegistryInv, CallInv, CallOk, AimOk, Gated
  <2> QED
    BY <1>0, <2>1, <2>2, ResetStep
<1>5. CASE TeardownEnds(p)
  <2>1. /\ \E x : slot' = [slot EXCEPT ![call[p].at].gate = x]
        /\ table' = Swept(call[p].at, slot[call[p].at])
    BY <1>5, Zenon DEF TeardownEnds, FreeGate
  <2>2. SameClosed
    BY <1>0, <2>1, OtherFields
  <2> QED
    BY <2>1, <2>2, SweptIsOpen, SameClosedStep DEF ClosedInTable
<1> QED
  BY <1>1, <1>2, <1>3, <1>4, <1>5 DEF TearsDown

\* What a revoke does to closed slots.
LEMMA RevokesCloses ==
    ASSUME RegistryInv, ClosedInTable, ~crashed, NEW p \in Caller, Revokes(p)
    PROVE  ClosedStep
<1>0. Types /\ slot \in [Account -> Slot] /\ (\A a \in Account : slot[a] \in Slot) /\ p \in Goroutine
  BY Names DEF RegistryInv, Types
<1>1. CASE \/ Prepare(p) \/ Privilege(p) \/ PrivilegeEnds(p) \/ RevokeStops(p) \/ RevokeJoins(p)
           \/ RevokeUnprotects(p)
  <2>1. UNCHANGED slot /\ UNCHANGED table
    BY <1>1, Zenon DEF Prepare, Privilege, PrivilegeEnds, RevokeStops, RevokeJoins, RevokeUnprotects, registry
  <2> QED
    BY <2>1, SameClosedStep DEF SameClosed, ClosedInTable
<1>2. CASE Acquire(p)
  <2> DEFINE a == call[p].acct
             s == IF a \in table THEN slot[a] ELSE FreshSlot
             new == [s EXCEPT !.waiters = @ \cup {p}]
  <2>1. slot' = [slot EXCEPT ![a] = new] /\ table' = table \cup {a}
    BY <1>2 DEF Acquire
  <2>2. a \in Account
    BY <1>0, <1>2 DEF Acquire, In, RegistryInv, CallInv, CallOk, AimOk, Aiming
  <2>3. s \in Slot /\ s.closed = slot[a].closed
    <3>1. CASE a \in table
      BY <1>0, <2>2, <3>1
    <3>2. CASE a \notin table
      <4>1. slot[a].closed = FALSE
        BY <1>0, <2>2, <3>2 DEF ClosedInTable, Slot
      <4>2. FreshSlot.closed = FALSE /\ FreshSlot \in Slot
        BY DEF FreshSlot, Slot
      <4> QED
        BY <3>2, <4>1, <4>2
    <3> QED
      BY <3>1, <3>2
  <2> HIDE DEF s
  <2>4. new.closed = slot[a].closed
    BY <2>3 DEF Slot
  <2> HIDE DEF new
  <2>5. SameClosed
    BY <1>0, <2>1, <2>4 DEF SameClosed
  <2> QED
    BY <2>1, <2>5, SameClosedStep DEF ClosedInTable
<1>3. CASE ClaimGate(p)
  <2> DEFINE a == call[p].acct
             s == [slot[a] EXCEPT !.waiters = @ \ {p}]
             t == [s EXCEPT !.gate = p, !.revoking = TRUE]
  <2>1. UNCHANGED table /\ (slot' = [slot EXCEPT ![a] = s] \/ slot' = [slot EXCEPT ![a] = t])
    BY <1>3 DEF ClaimGate, registry
  <2>2. a \in Account
    BY <1>0, <1>3 DEF ClaimGate, In, RegistryInv, CallInv, CallOk, AimOk, Aiming
  <2>3. s.closed = slot[a].closed /\ t.closed = slot[a].closed
    BY <1>0, <2>2 DEF Slot
  <2> HIDE DEF s, t
  <2>4. SameClosed
    BY <1>0, <2>1, <2>3 DEF SameClosed
  <2> QED
    BY <2>1, <2>4, SameClosedStep DEF ClosedInTable
<1>4. CASE Seize(p)
  <2> DEFINE a == call[p].acct
  <2>1. a \in Account /\ slot[a].revoking
    BY <1>0, <1>4 DEF Seize, In, RegistryInv, CallInv, CallOk, AimOk, SlotsOk, Aiming, Revoking
  <2>2. a \in table /\ UNCHANGED table
    BY <1>4, <2>1 DEF Seize, RegistryInv, SlotInv, SlotOk, Busy
  <2>3. \/ slot' = [slot EXCEPT ![a].closed = TRUE]
        \/ \E e : slot' = [slot EXCEPT ![a].closed = TRUE, ![a].current = e]
    BY <1>4, Zenon DEF Seize
  <2> HIDE DEF a
  <2>4. ASSUME NEW e, slot' = [slot EXCEPT ![a].closed = TRUE, ![a].current = e]
        PROVE  ClosesOnly(a)
    BY <1>0, <2>2, <2>4, ClosesWithEntry
  <2>5. ClosesOnly(a)
    BY <1>0, <2>2, <2>3, <2>4, ClosesOne, Zenon
  <2> QED
    BY <1>0, <2>2, <2>5, CloserStep DEF ClosesOnly
<1>5. CASE RevokeReset(p)
  <2>1. UNCHANGED table /\ slot' = [slot EXCEPT ![call[p].acct] = Reset(@, call[p].entry)]
    BY <1>5 DEF RevokeReset, registry
  <2>2. call[p].entry # None
    BY <1>0, <1>5 DEF RevokeReset, In, RegistryInv, CallInv, CallOk, AimOk, Using
  <2> QED
    BY <1>0, <2>1, <2>2, ResetStep
<1>6. CASE Release(p)
  <2> DEFINE a == call[p].acct
             s == [slot[a] EXCEPT !.revoking = FALSE, !.gate = None,
                      !.closed = @ /\ (slot[a].current # None \/ slot[a].active # None)]
  <2>1. In(p, "release") /\ slot' = [slot EXCEPT ![a] = s] /\ table' = Swept(a, s)
    BY <1>6 DEF Release
  <2>2. a \in Account
    BY <1>0, <1>6 DEF Release, In, RegistryInv, CallInv, CallOk, AimOk, Aiming, Revoking
  <2>3. s.closed => slot[a].closed
    BY <1>0, <2>2 DEF Slot
  <2> HIDE DEF s
  <2>4. /\ slot'[a] = s
        /\ \A b \in Account : b # a => slot'[b] = slot[b]
    BY <1>0, <2>1, <2>2
  <2> QED
    BY <2>1, <2>3, <2>4, SweptIsOpen DEF ClosedStep, ClosedInTable
<1> QED
  BY <1>1, <1>2, <1>3, <1>4, <1>5, <1>6 DEF Revokes

\* The other steps: those of StopAccount, of the workers, of entries and of calls
\* that begin or expire.
LEMMA NextCloses ==
    ASSUME RegistryInv, ClosedInTable, Next
    PROVE  ClosedStep
<1>0. /\ Types /\ slot \in [Account -> Slot] /\ (\A a \in Account : slot[a] \in Slot) /\ ~crashed
      /\ \A p \in Caller \cup {Stopper} : p \in Goroutine
  BY Names DEF RegistryInv, Types, Next
<1>1. ASSUME UNCHANGED slot /\ UNCHANGED table
      PROVE  ClosedStep
  BY <1>1, SameClosedStep DEF SameClosed, ClosedInTable
<1>2. ASSUME NEW p \in Goroutine, StopLook(p)
      PROVE  ClosedStep
  BY <1>1, <1>2 DEF StopLook
<1>3. ASSUME NEW p \in Caller, StopClose(p)
      PROVE  ClosedStep
  <2>1. call[p].acct \in table /\ UNCHANGED table
    BY <1>0, <1>3 DEF StopClose, In, ClosedInTable
  <2>2. slot' = [slot EXCEPT ![call[p].acct].closed = TRUE]
    BY <1>3 DEF StopClose
  <2>3. ClosesOnly(call[p].acct)
    BY <1>0, <2>1, <2>2, ClosesOne
  <2> QED
    BY <1>0, <2>1, <2>3, CloserStep DEF ClosesOnly
<1>4. ASSUME NEW p \in Goroutine,
             NextTeardown(p) \/ AllTornDown(p) \/ ReapScanned \/ StopCollects \/ StopEnds
      PROVE  ClosedStep
  <2>1. UNCHANGED slot /\ UNCHANGED table
    BY <1>4, Zenon DEF NextTeardown, AllTornDown, ReapScanned, StopCollects, StopEnds, registry
  <2> QED
    BY <1>1, <2>1
<1>5. ASSUME NEW p \in Goroutine, Step(p)
      PROVE  ClosedStep
  BY <1>0, <1>5, <1>2, <1>3, <1>4, ExecutesCloses, RevokesCloses, TearsDownCloses DEF Step
<1>6. ASSUME (\E p \in Caller : Invoke(p)) \/ ReapScan
      PROVE  ClosedStep
  <2>1. UNCHANGED slot /\ UNCHANGED table
    BY <1>6, Zenon DEF Invoke, ReapScan, registry
  <2> QED
    BY <1>1, <2>1
<1>7. ASSUME NEW p \in Goroutine, Expire(p)
      PROVE  ClosedStep
  <2>1. \/ \E x : slot' = [slot EXCEPT ![call[p].acct].waiters = x]
        \/ UNCHANGED slot
    BY <1>7, Zenon DEF Expire
  <2>2. UNCHANGED table
    BY <1>7 DEF Expire, registry
  <2>3. SameClosed
    BY <1>0, <2>1, OtherFields
  <2> QED
    BY <2>2, <2>3, SameClosedStep DEF ClosedInTable
<1>8. ASSUME StopRegistry
      PROVE  ClosedStep
  <2>1. UNCHANGED table
    BY <1>8 DEF StopRegistry
  <2>2. ASSUME NEW a \in Account
        PROVE  slot'[a] = slot[a] \/ (a \in table /\ slot'[a].closed)
    <3>1. CASE status = "open" /\ a \in table /\ slot[a].current # None
      <4> DEFINE s == [slot[a] EXCEPT !.closed = TRUE]
      <4>1. slot'[a] = s
        BY <1>8, <3>1 DEF StopRegistry
      <4>2. slot[a] \in Slot
        BY <1>0
      <4>3. s.closed
        BY <4>2 DEF Slot
      <4> QED
        BY <3>1, <4>1, <4>3
    <3>2. CASE ~(status = "open" /\ a \in table /\ slot[a].current # None)
      BY <1>8, <3>2 DEF StopRegistry
    <3> QED
      BY <3>1, <3>2
  <2> QED
    BY <2>1, <2>2 DEF ClosedStep, ClosedInTable
<1>9. ASSUME NEW e \in Entry, EntryStep(e) \/ RunEnds(e)
      PROVE  ClosedStep
  <2> DEFINE a == entry[e].acct
  <2>1. CASE StartRun(e) \/ RunEnds(e)
    <3>1. UNCHANGED slot /\ UNCHANGED table
      BY <2>1, Zenon DEF StartRun, RunEnds, registry
    <3> QED
      BY <1>1, <3>1
  <2>2. CASE RunNoted(e)
    <3>1. /\ UNCHANGED table
          /\ \/ \E x : slot' = [slot EXCEPT ![a].current = x]
             \/ UNCHANGED slot
      BY <2>2, Zenon DEF RunNoted, registry
    <3>2. SameClosed
      BY <1>0, <3>1, OtherFields
    <3> QED
      BY <3>1, <3>2, SameClosedStep DEF ClosedInTable
  <2>3. CASE RunSwept(e)
    <3>1. UNCHANGED slot /\ table' = Swept(a, slot[a])
      BY <2>3, Zenon DEF RunSwept
    <3> QED
      BY <3>1, SweptIsOpen, SameClosedStep DEF SameClosed, ClosedInTable
  <2>4. CASE Build(e)
    <3> DEFINE s == [slot[a] EXCEPT !.current = None]
    <3>1. \/ UNCHANGED slot /\ UNCHANGED table
          \/ slot' = [slot EXCEPT ![a] = s] /\ table' = Swept(a, s)
      BY <2>4 DEF Build
    <3>2. a \in Account
      BY <2>4 DEF Build, RegistryInv, EntryInv, EntryOk, Alive
    <3>3. s.closed = slot[a].closed
      BY <1>0, <3>2 DEF Slot
    <3> HIDE DEF s
    <3>4. CASE slot' = [slot EXCEPT ![a] = s] /\ table' = Swept(a, s)
      <4>1. SameClosed
        BY <1>0, <3>3, <3>4 DEF SameClosed
      <4> QED
        BY <3>3, <3>4, <4>1, SweptIsOpen, SameClosedStep DEF ClosedInTable
    <3> QED
      BY <1>1, <3>1, <3>4
  <2> QED
    BY <1>9, <2>1, <2>2, <2>3, <2>4 DEF EntryStep
<1> QED
  BY <1>0, <1>5, <1>6, <1>7, <1>8, <1>9 DEF Next

\* Nothing leaves the table while registry.mu is held.
LEMMA TableShrinks ==
    ASSUME Next, lock # None
    PROVE  table \subseteq table'
<1>1. ASSUME NEW p \in Goroutine, TearsDown(p)
      PROVE  UNCHANGED table
  BY <1>1, Zenon DEF TearsDown, EvictRead, EvictClose, WaitRevoke, EnterGate, Drain, TeardownStops, Join,
     DrainTimeout, TeardownReset, TeardownEnds, registry
<1>2. ASSUME NEW p \in Caller, Executes(p)
      PROVE  table \subseteq table'
  <2>1. ASSUME Decide(p) PROVE UNCHANGED table
    BY <2>1, Zenon DEF Decide
  <2>2. ASSUME CloseHandle(p) PROVE UNCHANGED table
    BY <2>2 DEF CloseHandle, Swept
  <2>3. CASE ReserveLook(p)
    BY <2>3 DEF ReserveLook
  <2>4. CASE ~ReserveLook(p)
    <3>1. UNCHANGED table
      BY <1>2, <2>1, <2>2, <2>4, Zenon DEF Executes, TakeIdle, Refused, ReserveShared, ReserveReplaces,
         ReserveFirst, ReserveRefused, Begin, Dispatch, CallbackEnds, FinishOperation, registry
    <3> QED
      BY <3>1
  <2> QED
    BY <2>3, <2>4
<1>3. ASSUME NEW p \in Caller, Revokes(p)
      PROVE  UNCHANGED table
  BY <1>3, Zenon DEF Revokes, Acquire, ClaimGate, Prepare, Seize, Privilege, PrivilegeEnds, RevokeStops,
     RevokeJoins, RevokeReset, RevokeUnprotects, Release, registry
<1>4. ASSUME NEW p \in Goroutine,
             \/ StopLook(p) \/ StopClose(p) \/ NextTeardown(p) \/ AllTornDown(p)
             \/ ReapScanned \/ StopCollects \/ StopEnds \/ Expire(p)
      PROVE  UNCHANGED table
  BY <1>4, Zenon DEF StopLook, StopClose, NextTeardown, AllTornDown, ReapScanned, StopCollects, StopEnds,
     Expire, registry
<1>5. ASSUME NEW p \in Goroutine, Step(p)
      PROVE  table \subseteq table'
  BY <1>5, <1>1, <1>2, <1>3, <1>4 DEF Step
<1>6. ASSUME NEW p \in Caller, Invoke(p)
      PROVE  UNCHANGED table
  BY <1>6, Zenon DEF Invoke, registry
<1>7. ASSUME ReapScan \/ StopRegistry
      PROVE  UNCHANGED table
  BY <1>7, Zenon DEF ReapScan, StopRegistry
<1>8. ASSUME NEW e \in Entry, EntryStep(e) \/ RunEnds(e)
      PROVE  UNCHANGED table
  BY <1>8, Zenon DEF EntryStep, Build, StartRun, RunEnds, RunNoted, RunSwept, registry
<1>9. \A p \in Caller \cup {Stopper} : p \in Goroutine
  BY Names
<1> QED
  BY <1>4, <1>5, <1>6, <1>7, <1>8, <1>9 DEF Next

\* What is to be closed is taken from the table, ...
LEMMA TakenFromTable ==
    ASSUME RegistryInv, ClosedInTable, NEW p \in Goroutine,
           (p \in Caller /\ (TakeIdle(p) \/ StopLook(p))) \/ EvictRead(p) \/ (p = Reaper /\ ReapScan)
    PROVE  /\ call'[p].stage \in {"evict", "evictClose"} => call'[p].at \in table'
           /\ call'[p].stage = "seen" => call'[p].acct \in table'
<1>0. Types /\ call \in [Goroutine -> Call]
  BY DEF RegistryInv, Types
<1>1. CASE TakeIdle(p)
  <2>1. PICK b \in Idling :
            call' = [call EXCEPT ![p].stage = "evict", ![p].at = b, ![p].back = call[p].stage]
    BY <1>1, Zenon DEF TakeIdle
  <2>2. UNCHANGED table /\ b \in table
    BY <1>1, Zenon DEF TakeIdle, Idling, Live
  <2>3. call'[p].stage = "evict" /\ call'[p].at = b
    BY <1>0, <2>1 DEF Call
  <2> QED
    BY <2>2, <2>3
<1>2. CASE p = Reaper /\ ReapScan
  <2>1. PICK b \in Idling : call' = [call EXCEPT ![p].stage = "evict", ![p].at = b]
    BY <1>2, Zenon DEF ReapScan
  <2>2. UNCHANGED table /\ b \in table
    BY <1>2, Zenon DEF ReapScan, Idling, Live
  <2>3. call'[p].stage = "evict" /\ call'[p].at = b
    BY <1>0, <2>1 DEF Call
  <2> QED
    BY <2>2, <2>3
<1>3. CASE EvictRead(p)
  <2>1. /\ GotoWith(p, "evictClose", slot[call[p].at].current)
        /\ call[p].stage = "evict" /\ UNCHANGED table
    BY <1>3 DEF EvictRead, In, registry
  <2>2. call'[p].stage = "evictClose" /\ call'[p].at = call[p].at
    BY <1>0, <2>1 DEF GotoWith, Call
  <2> QED
    BY <2>1, <2>2 DEF ClosedInTable
<1>4. CASE StopLook(p)
  <2> DEFINE a == call[p].acct
             e == IF a \in table THEN slot[a].current ELSE None
  <2>1. /\ call[p].stage = "stop" /\ UNCHANGED table
        /\ UNCHANGED call \/ Return(p) \/ ReturnOk(p) \/ (e # None /\ GotoWith(p, "seen", e))
    BY <1>4 DEF StopLook, In
  <2>2. ASSUME e # None, GotoWith(p, "seen", e)
        PROVE  call'[p].stage = "seen" /\ call'[p].acct = a /\ a \in table
    <3>1. a \in table
      BY <2>2
    <3> HIDE DEF e
    <3> QED
      BY <1>0, <2>2, <3>1 DEF GotoWith, Call
  <2> HIDE DEF e
  <2> QED
    BY <1>0, <2>1, <2>2, ReturnCall
<1> QED
  BY <1>1, <1>2, <1>3, <1>4

\* ... and stays there until it is.
LEMMA NextClosedInTable ==
    ASSUME RegistryInv, ClosedInTable, Next
    PROVE  ClosedInTable'
<1>0. Types /\ call \in [Goroutine -> Call]
  BY DEF RegistryInv, Types
<1>1. \A a \in Account : slot'[a].closed => a \in table'
  BY NextCloses DEF ClosedStep
<1>2. ASSUME NEW p \in Goroutine
      PROVE  /\ call'[p].stage \in {"evict", "evictClose"} => call'[p].at \in table'
             /\ call'[p].stage = "seen" => call'[p].acct \in table'
  <2>1. CASE call'[p] = call[p]
    <3>1. call[p].stage \in {"evict", "evictClose", "seen"} => lock # None
      BY Names DEF RegistryInv, CallInv, CallOk, LockOk, Locking
    <3> QED
      BY <2>1, <3>1, TableShrinks DEF ClosedInTable
  <2>2. CASE Step(p) \/ Expire(p)
    <3>1. ASSUME call'[p].stage \in {"evict", "evictClose", "seen"}
          PROVE  (p \in Caller /\ (TakeIdle(p) \/ StopLook(p))) \/ EvictRead(p)
      <4>1. ASSUME EvictClose(p) PROVE FALSE
        <5>1. \/ call' = [call EXCEPT ![p] = [NoCall EXCEPT !.stage = "reap"]]
              \/ Return(p) \/ Goto(p, "wait")
          BY <4>1 DEF EvictClose
        <5>2. ASSUME Goto(p, "wait") PROVE FALSE
          BY <1>0, <3>1, <5>2, GotoCall DEF Stage, Moved
        <5>3. ASSUME call' = [call EXCEPT ![p] = [NoCall EXCEPT !.stage = "reap"]] PROVE FALSE
          BY <1>0, <3>1, <5>3 DEF NoCall
        <5> QED
          BY <1>0, <3>1, <5>1, <5>2, <5>3, ReturnCall
      <4>2. ASSUME WaitRevoke(p) PROVE FALSE
        <5>1. Goto(p, "gate")
          BY <4>2 DEF WaitRevoke
        <5> QED
          BY <1>0, <3>1, <5>1, GotoCall DEF Stage, Moved
      <4>3. ASSUME ReserveReplaces(p) PROVE FALSE
        <5>1. call' = [call EXCEPT ![p].stage = "wait", ![p].at = call[p].acct, ![p].back = "reserve"]
          BY <4>3 DEF ReserveReplaces
        <5> QED
          BY <1>0, <3>1, <5>1 DEF Call
      <4>4. ASSUME StopClose(p) PROVE FALSE
        <5>1. call' = [call EXCEPT ![p].stage = "wait", ![p].at = call[p].acct, ![p].back = "stopped"]
          BY <4>4 DEF StopClose
        <5> QED
          BY <1>0, <3>1, <5>1 DEF Call
      <4>5. ASSUME NextTeardown(p) PROVE FALSE
        <5>1. PICK item \in todo[p] :
                  call' = [call EXCEPT ![p].stage = "wait", ![p].at = item[1], ![p].entry = item[2]]
          BY <4>5, Zenon DEF NextTeardown
        <5> QED
          BY <1>0, <3>1, <5>1 DEF Call
      <4> QED
        BY <2>2, <3>1, <4>1, <4>2, <4>3, <4>4, <4>5, StageWriters
    <3> QED
      BY <3>1, TakenFromTable
  <2>3. CASE call'[p].stage \in {"reserve", "acquire", "stop", "collect"}
    BY <2>3
  <2>4. CASE p = Reaper /\ ReapScan
    BY <2>4, TakenFromTable
  <2> QED
    BY <1>0, <2>1, <2>2, <2>3, <2>4, WhoActs
<1> QED
  BY <1>1, <1>2 DEF ClosedInTable

\* A slot left closed without an entry is opened again by the next revoke of its
\* account, when it releases the slot, and by nothing else.
THEOREM RevokesReopen == Spec => OnlyRevokesReopen
<1>1. Init => ClosedInTable
  <2> SUFFICES ASSUME Init PROVE ClosedInTable
    OBVIOUS
  <2>1. \A p \in Goroutine : call[p].stage = "idle"
    BY DEF Init, NoCall
  <2>2. \A a \in Account : ~slot[a].closed
    BY DEF Init, FreshSlot
  <2> QED
    BY <2>1, <2>2 DEF ClosedInTable
<1>2. RegistryInv /\ ClosedInTable /\ [Next]_vars => ClosedInTable'
  <2>1. ASSUME ClosedInTable, UNCHANGED vars
        PROVE  ClosedInTable'
    BY <2>1 DEF vars, ClosedInTable
  <2> QED
    BY <2>1, NextClosedInTable
<1>3. RegistryInv /\ ClosedInTable /\ [Next]_vars =>
          [\A a \in Account :
              slot[a].closed /\ slot[a].current = None /\ ~slot'[a].closed =>
                  \E p \in Caller : In(p, "release") /\ call[p].acct = a]_vars
  BY NextCloses DEF ClosedStep
<1> QED
  BY <1>1, <1>2, <1>3, RegistryInvCorrect, PTL DEF Spec, OnlyRevokesReopen

=============================================================================
