------------------------ MODULE MailingConsoleProofs ------------------------
(***************************************************************************)
(* The console keeps its promises with any number of operators, accounts,  *)
(* dialogs, browsers and synchronizations.                                 *)
(*                                                                         *)
(* The argument is about row locks: what CreateDraft has checked stays     *)
(* true because it holds the row that says so, and whoever would change it *)
(* has to hold the same row when its transaction commits.  A page is not   *)
(* locked; what it offers is true until somebody makes the page stale.     *)
(***************************************************************************)
EXTENDS MailingConsole, SequenceTheorems, TLAPS

-----------------------------------------------------------------------------
(* The inductive invariant.                                                *)

MemberRecord == [exists : BOOLEAN, canSend : BOOLEAN, hash : BOOLEAN]

MailingRecord ==
    [op : Operator \cup {None}, account : Account, to : SUBSET Dialog, status : {"draft", "queued"}]

PageRecord ==
    [op : Operator \cup {None}, accounts : SUBSET Account, offers : SUBSET (Account \X Dialog),
     loading : {"no", "shared", "private"}, stale : BOOLEAN]

Locking == {"shared", "lockShared", "private", "lockPrivate"}

RequestRecord ==
    [at : {"idle", "account"} \cup Locking, account : Account \cup {None}, to : SUBSET Dialog,
     awaits : SUBSET Dialog, valid : SUBSET Dialog]

TaskRecord ==
    [account : Account \cup {None}, todo : Seq(Fetched), at : {"dialog", "member"},
     found : SUBSET Fetched]

Types ==
    /\ active \subseteq Account
    /\ member \in [Account -> [Dialog -> MemberRecord]]
    /\ mailing \in Seq(MailingRecord)
    /\ DOMAIN holds = Proc
    /\ page \in [Client -> PageRecord]
    /\ request \in [Client -> RequestRecord]
    /\ task \in [Sync -> TaskRecord]

\* A row has one holder; the share of a key goes with other shares only.
LocksExclude ==
    /\ \A p, q \in Proc : p # q =>
          \A row \in holds[p] \cap holds[q] : row[1] = "key"
    /\ \A a \in Account, p, q \in Proc :
          p # q /\ AccountRow(a) \in holds[p] => AccountKey(a) \notin holds[q]
    /\ \A p \in Proc : ~Busy(p) => holds[p] = {}

\* Who may be sent to has a membership row.
MembersExist ==
    \A a \in Account, d \in Dialog : member[a][d].canSend => member[a][d].exists

\* What the page offers can be used, or the page is stale.
PageTrue(c) ==
    ~page[c].stale =>
        \A a \in Account, d \in Dialog :
            <<a, d>> \in page[c].offers =>
                a \in active /\ Owner[a] = page[c].op /\ Sendable(a, d)

\* What a request asks for was offered, and what it has found is locked.
RequestTrue(c) ==
    LET r == request[c]
        a == r.account
    IN  /\ r.at # "idle" =>
              /\ a \in Account
              /\ page[c].loading = "no"
              /\ r.to # {}
              /\ \A d \in r.to : <<a, d>> \in page[c].offers
        /\ r.at \in Locking =>
              /\ AccountRow(a) \in holds[c]
              /\ a \in active
              /\ Owner[a] = page[c].op
        /\ \A d \in r.valid : MemberRow(a, d) \in holds[c] /\ Sendable(a, d)
        /\ r.at \in {"private", "lockPrivate"} => r.to \cap Shared \subseteq r.valid
        /\ r.at \in {"lockShared", "lockPrivate"} /\ ~page[c].stale =>
              r.to \cap Kind(c) \subseteq r.awaits \cup r.valid

\* A completion holds every membership it is about to write.
TaskTrue(s) ==
    /\ task[s].account = None => task[s].todo = <<>>
    /\ \A f \in task[s].found : MemberRow(task[s].account, f.dialog) \in holds[s]

ConsoleInv ==
    /\ Types
    /\ LocksExclude
    /\ MembersExist
    /\ \A c \in Client : PageTrue(c) /\ RequestTrue(c)
    /\ \A s \in Sync : TaskTrue(s)
    /\ RecipientsResolve

-----------------------------------------------------------------------------
(* Types.                                                                  *)

\* The records of an idle browser and an idle execution.
LEMMA NoRecordsTyped ==
    NoPage \in PageRecord /\ NoRequest \in RequestRecord /\ NoTask \in TaskRecord
  <1>1. NoPage \in PageRecord
    BY DEF NoPage, PageRecord
  <1>2. NoRequest \in RequestRecord
    BY DEF NoRequest, RequestRecord
  <1>3. NoTask \in TaskRecord
    BY EmptySeq DEF NoTask, TaskRecord
  <1> QED  BY <1>1, <1>2, <1>3

\* The initial state.
LEMMA InitOK == Init => ConsoleInv
  <1> SUFFICES ASSUME Init PROVE ConsoleInv
    OBVIOUS
  <1> USE ConsoleAssumption
  <1>1. Types
    <2>1. NoMember \in MemberRecord
      BY DEF NoMember, MemberRecord
    <2>2. mailing \in Seq(MailingRecord)
      BY EmptySeq DEF Init
    <2> QED  BY <2>1, <2>2, NoRecordsTyped DEF Init, Types
  <1>2. \A p \in Proc : holds[p] = {}
    BY DEF Init
  <1>3. LocksExclude
    BY <1>2 DEF LocksExclude
  <1>4. \A a \in Account, d \in Dialog : ~member[a][d].canSend
    BY DEF Init, NoMember
  <1>5. ASSUME NEW c \in Client
        PROVE  PageTrue(c) /\ RequestTrue(c)
    <2>1. page[c].offers = {} /\ request[c].at = "idle" /\ request[c].valid = {}
      BY <1>5 DEF Init, NoPage, NoRequest
    <2> QED  BY <2>1 DEF PageTrue, RequestTrue, Locking
  <1>6. ASSUME NEW s \in Sync
        PROVE  TaskTrue(s)
    <2>1. task[s].account = None /\ task[s].todo = <<>> /\ task[s].found = {}
      BY <1>6 DEF Init, NoTask
    <2> QED  BY <2>1 DEF TaskTrue
  <1>7. RecipientsResolve
    BY DEF RecipientsResolve, Init
  <1> QED  BY <1>1, <1>3, <1>4, <1>5, <1>6, <1>7 DEF ConsoleInv, MembersExist

\* What a browser is shown, and what a request asks for, have their types.
LEMMA PageSteps ==
    ASSUME ConsoleInv, NEW c \in Client,
           (\E o \in Operator : ListAccounts(c, o)) \/ ListShared(c) \/ ListPrivate(c)
    PROVE  Types'
  <1> USE ConsoleAssumption
  <1>1. page[c] \in PageRecord
    BY DEF ConsoleInv, Types
  <1>2. page' \in [Client -> PageRecord]
    <2>1. CASE \E o \in Operator : ListAccounts(c, o)
      <3>1. PICK o \in Operator : ListAccounts(c, o)
        BY <2>1
      <3>2. [NoPage EXCEPT !.op = o, !.loading = "shared",
                           !.accounts = {a \in active : Owner[a] = o}] \in PageRecord
        BY DEF NoPage, PageRecord, ConsoleInv, Types
      <3> QED  BY <3>1, <3>2 DEF ListAccounts, ConsoleInv, Types
    <2>2. Offers(page[c].op, Shared) \in SUBSET (Account \X Dialog)
          /\ Offers(page[c].op, Private) \in SUBSET (Account \X Dialog)
      BY DEF Offers, Dialog
    <2>3. CASE ListShared(c)
      <3>1. [page[c] EXCEPT !.loading = "private", !.offers = Offers(page[c].op, Shared)] \in PageRecord
        BY <1>1, <2>2 DEF PageRecord
      <3> QED  BY <2>3, <3>1 DEF ListShared, ConsoleInv, Types
    <2>4. CASE ListPrivate(c)
      <3>1. [page[c] EXCEPT !.loading = "no", !.offers = @ \cup Offers(page[c].op, Private)] \in PageRecord
        BY <1>1, <2>2 DEF PageRecord
      <3> QED  BY <2>4, <3>1 DEF ListPrivate, ConsoleInv, Types
    <2> QED  BY <2>1, <2>3, <2>4
  <1>3. UNCHANGED <<tables, holds, request, task>>
    BY DEF ListAccounts, ListShared, ListPrivate
  <1> QED  BY <1>2, <1>3 DEF Types, ConsoleInv, tables

\* The steps of a request keep the types.
LEMMA RequestSteps ==
    ASSUME ConsoleInv, NEW c \in Client,
           Submit(c) \/ LockAccount(c) \/ Select(c) \/ LockDialog(c) \/ SharedAvailable(c) \/ Refuse(c)
    PROVE  Types'
  <1> USE ConsoleAssumption
  <1>1. request[c] \in RequestRecord /\ page[c] \in PageRecord
    BY DEF ConsoleInv, Types
  <1>2. request' \in [Client -> RequestRecord]
    <2>1. CASE Submit(c)
      <3>1. PICK a \in page[c].accounts : \E to \in SUBSET Dialog :
                request' = [request EXCEPT ![c] = [NoRequest EXCEPT
                                !.at = "account", !.account = a, !.to = to]]
        BY <2>1 DEF Submit
      <3>4. PICK to \in SUBSET Dialog :
                request' = [request EXCEPT ![c] = [NoRequest EXCEPT
                                !.at = "account", !.account = a, !.to = to]]
        BY <3>1
      <3>2. a \in Account
        BY <1>1 DEF PageRecord
      <3>3. [NoRequest EXCEPT !.at = "account", !.account = a, !.to = to] \in RequestRecord
        BY <3>2 DEF NoRequest, RequestRecord
      <3> QED  BY <3>4, <3>3 DEF ConsoleInv, Types
    <2>2. CASE LockAccount(c)
      <3>1. [request[c] EXCEPT !.at = "shared"] \in RequestRecord
        BY <1>1 DEF RequestRecord, Locking
      <3> QED  BY <2>2, <3>1 DEF LockAccount, ConsoleInv, Types
    <2>3. CASE Select(c)
      <3>1. [request[c] EXCEPT !.at = IF @ = "shared" THEN "lockShared" ELSE "lockPrivate",
                !.awaits = {d \in Kind(c) : Sendable(request[c].account, d)}] \in RequestRecord
        BY <1>1 DEF RequestRecord, Locking, Kind, Dialog
      <3> QED  BY <2>3, <3>1 DEF Select, ConsoleInv, Types
    <2>4. CASE LockDialog(c)
      <3>1. PICK d \in request[c].awaits :
                request' = [request EXCEPT ![c].awaits = @ \ {d},
                    ![c].valid = IF Sendable(request[c].account, d) THEN @ \cup {d} ELSE @]
        BY <2>4 DEF LockDialog
      <3>2. d \in Dialog
        BY <1>1 DEF RequestRecord
      <3>3. [request[c] EXCEPT !.awaits = @ \ {d},
                !.valid = IF Sendable(request[c].account, d) THEN @ \cup {d} ELSE @] \in RequestRecord
        BY <1>1, <3>2 DEF RequestRecord
      <3> QED  BY <3>1, <3>3 DEF ConsoleInv, Types
    <2>5. CASE SharedAvailable(c)
      <3>1. [request[c] EXCEPT !.at = "private"] \in RequestRecord
        BY <1>1 DEF RequestRecord, Locking
      <3> QED  BY <2>5, <3>1 DEF SharedAvailable, ConsoleInv, Types
    <2>6. CASE Refuse(c)
      BY <2>6, NoRecordsTyped DEF Refuse, Leave, ConsoleInv, Types
    <2> QED  BY <2>1, <2>2, <2>3, <2>4, <2>5, <2>6
  <1>3. UNCHANGED <<tables, page, task>> /\ DOMAIN holds' = Proc
    BY DEF Submit, LockAccount, Select, LockDialog, SharedAvailable, Refuse, Leave, Take, Unlock,
           ConsoleInv, Types
  <1> QED  BY <1>2, <1>3 DEF Types, ConsoleInv, tables

\* So do those of a completion before its commit, ...
LEMMA TaskSteps ==
    ASSUME ConsoleInv, NEW s \in Sync,
           (\E a \in Account : Fetch(s, a)) \/ UpsertDialog(s) \/ UpsertMember(s)
    PROVE  Types'
  <1> USE ConsoleAssumption
  <1>1. task[s] \in TaskRecord
    BY DEF ConsoleInv, Types
  <1>2. task' \in [Sync -> TaskRecord]
    <2>1. CASE \E a \in Account : Fetch(s, a)
      <3>1. PICK a \in Account, answer \in Answers :
                task' = [task EXCEPT ![s] = [NoTask EXCEPT !.account = a, !.todo = answer]]
        BY <2>1 DEF Fetch
      <3>2. [NoTask EXCEPT !.account = a, !.todo = answer] \in TaskRecord
        BY DEF NoTask, TaskRecord
      <3> QED  BY <3>1, <3>2 DEF ConsoleInv, Types
    <2>2. CASE UpsertDialog(s)
      <3>1. [task[s] EXCEPT !.at = "member"] \in TaskRecord
        BY <1>1 DEF TaskRecord
      <3> QED  BY <2>2, <3>1 DEF UpsertDialog, ConsoleInv, Types
    <2>3. CASE UpsertMember(s)
      <3>1. task[s].todo \in Seq(Fetched) /\ task[s].todo # <<>>
        BY <1>1, <2>3 DEF TaskRecord, UpsertMember
      <3>2. Head(task[s].todo) \in Fetched /\ Tail(task[s].todo) \in Seq(Fetched)
        BY <3>1, HeadTailProperties
      <3>3. [task[s] EXCEPT !.todo = Tail(@), !.at = "dialog", !.found = @ \cup {Head(task[s].todo)}]
                \in TaskRecord
        BY <1>1, <3>2 DEF TaskRecord
      <3> QED  BY <2>3, <3>3 DEF UpsertMember, ConsoleInv, Types
    <2> QED  BY <2>1, <2>2, <2>3
  <1>3. UNCHANGED <<tables, page, request>> /\ DOMAIN holds' = Proc
    BY DEF Fetch, UpsertDialog, UpsertMember, Take, ConsoleInv, Types
  <1> QED  BY <1>2, <1>3 DEF Types, ConsoleInv, tables

\* What a completion writes.
Written(s) ==
    [d \in Dialog |->
        IF \E f \in task[s].found : f.dialog = d
        THEN Merged(member[task[s].account][d], CHOOSE f \in task[s].found : f.dialog = d)
        ELSE member[task[s].account][d]]

\* A completion leaves the dialogs it has not found alone, forgets no membership
\* and no hash, and lets nobody send who has no membership.
LEMMA WrittenTyped ==
    ASSUME ConsoleInv, NEW s \in Sync, task[s].account # None
    PROVE  /\ task[s].account \in Account
           /\ Written(s) \in [Dialog -> MemberRecord]
           /\ \A d \in Dialog :
                 /\ ~(\E f \in task[s].found : f.dialog = d) =>
                        Written(s)[d] = member[task[s].account][d]
                 /\ member[task[s].account][d].exists => Written(s)[d].exists
                 /\ member[task[s].account][d].hash => Written(s)[d].hash
                 /\ (member[task[s].account][d].canSend => member[task[s].account][d].exists)
                        => (Written(s)[d].canSend => Written(s)[d].exists)
  <1> DEFINE a == task[s].account
  <1>1. task[s] \in TaskRecord
    BY DEF ConsoleInv, Types
  <1>2. a \in Account /\ task[s].found \in SUBSET Fetched
    BY <1>1 DEF TaskRecord
  <1>3. \A d \in Dialog : member[a][d] \in MemberRecord
    BY <1>2 DEF ConsoleInv, Types
  <1> HIDE DEF a
  <1>4. ASSUME NEW d \in Dialog
        PROVE  /\ Written(s)[d] \in MemberRecord
               /\ ~(\E f \in task[s].found : f.dialog = d) => Written(s)[d] = member[a][d]
               /\ member[a][d].exists => Written(s)[d].exists
               /\ member[a][d].hash => Written(s)[d].hash
               /\ (member[a][d].canSend => member[a][d].exists)
                      => (Written(s)[d].canSend => Written(s)[d].exists)
    <2>1. CASE \E f \in task[s].found : f.dialog = d
      <3> DEFINE f == CHOOSE f \in task[s].found : f.dialog = d
      <3>1. f \in Fetched
        BY <1>2, <2>1
      <3>2. Written(s)[d] = Merged(member[a][d], f)
        BY <2>1 DEF Written, a
      <3> HIDE DEF f
      <3>3. f.canSend \in BOOLEAN /\ f.hash \in BOOLEAN
        BY <3>1 DEF Fetched
      <3>4. member[a][d].hash \in BOOLEAN
        BY <1>3 DEF MemberRecord
      <3>5. (f.dialog \in Shared /\ f.canSend) \in BOOLEAN /\ (f.hash \/ member[a][d].hash) \in BOOLEAN
        BY <3>3, <3>4
      <3>6. /\ Written(s)[d] \in MemberRecord
            /\ Written(s)[d].exists
            /\ Written(s)[d].hash = (f.hash \/ member[a][d].hash)
        BY <3>2, <3>5 DEF Merged, MemberRecord
      <3> QED  BY <2>1, <3>6
    <2>2. CASE ~\E f \in task[s].found : f.dialog = d
      <3>1. Written(s)[d] = member[a][d]
        BY <2>2 DEF Written, a
      <3> QED  BY <1>3, <2>2, <3>1
    <2> QED  BY <2>1, <2>2
  <1>5. Written(s) \in [Dialog -> MemberRecord]
    BY <1>4 DEF Written
  <1> QED  BY <1>2, <1>4, <1>5 DEF a

\* ... its commit, ...
LEMMA CommitSteps ==
    ASSUME ConsoleInv, NEW s \in Sync, CompleteCommits(s)
    PROVE  /\ Types'
           /\ task[s].account \in Account
           /\ member' = [member EXCEPT ![task[s].account] = Written(s)]
  <1> DEFINE a == task[s].account
  <1>1. a # None
    BY DEF CompleteCommits
  <1>2. a \in Account /\ Written(s) \in [Dialog -> MemberRecord]
    BY <1>1, WrittenTyped
  <1>3. member' = [member EXCEPT ![a] = Written(s)]
    BY DEF CompleteCommits, Written
  <1>4. PICK lost : page' = [c \in Client |-> Stales(page[c], lost)]
    BY DEF CompleteCommits
  <1>5. ASSUME NEW c \in Client PROVE Stales(page[c], lost) \in PageRecord
    <2>1. page[c] \in PageRecord
      BY <1>5 DEF ConsoleInv, Types
    <2>2. (page[c].stale \/ lost \cap (page[c].offers \cup (page[c].accounts \X Dialog)) # {}) \in BOOLEAN
      BY <2>1 DEF PageRecord
    <2> QED  BY <2>1, <2>2 DEF Stales, PageRecord
  <1>6. page' \in [Client -> PageRecord]
    BY <1>4, <1>5
  <1> HIDE DEF a
  <1>7. member' \in [Account -> [Dialog -> MemberRecord]]
    BY <1>2, <1>3 DEF ConsoleInv, Types
  <1>8. task' \in [Sync -> TaskRecord]
    BY NoRecordsTyped DEF CompleteCommits, ConsoleInv, Types
  <1>9. UNCHANGED <<active, mailing, request>> /\ DOMAIN holds' = Proc
    BY DEF CompleteCommits, Unlock, ConsoleInv, Types
  <1> QED  BY <1>2, <1>3, <1>6, <1>7, <1>8, <1>9 DEF Types, ConsoleInv, a

\* ... the steps that write a mailing, ...
LEMMA MailingSteps ==
    ASSUME ConsoleInv, NEW c \in Client, Draft(c) \/ Queue(c)
    PROVE  Types'
  <1>1. request[c] \in RequestRecord /\ page[c] \in PageRecord /\ mailing \in Seq(MailingRecord)
    BY DEF ConsoleInv, Types
  <1>2. CASE Draft(c)
    <2> DEFINE new == [op |-> page[c].op, account |-> request[c].account,
                       to |-> request[c].to, status |-> "draft"]
    <2>1. request[c].account \in Account
      BY <1>2 DEF Draft, ConsoleInv, RequestTrue
    <2>2. new \in MailingRecord
      BY <1>1, <2>1 DEF MailingRecord, PageRecord, RequestRecord
    <2>3. mailing' = Append(mailing, new)
      BY <1>2 DEF Draft
    <2> HIDE DEF new
    <2>4. mailing' \in Seq(MailingRecord)
      BY <1>1, <2>2, <2>3, AppendProperties
    <2>5. request' \in [Client -> RequestRecord] /\ DOMAIN holds' = Proc
      BY <1>2, NoRecordsTyped DEF Draft, Leave, Unlock, ConsoleInv, Types
    <2> QED  BY <1>2, <2>4, <2>5 DEF Draft, Types, ConsoleInv
  <1>3. CASE Queue(c)
    <2>1. PICK i \in Own(c) : mailing' = [mailing EXCEPT ![i].status = "queued"]
      BY <1>3 DEF Queue
    <2>2. i \in 1 .. Len(mailing)
      BY <2>1 DEF Own
    <2>3. mailing[i] \in MailingRecord
      BY <1>1, <2>2, ElementOfSeq
    <2>4. [mailing[i] EXCEPT !.status = "queued"] \in MailingRecord
      BY <2>3 DEF MailingRecord
    <2>5. mailing' = [mailing EXCEPT ![i] = [mailing[i] EXCEPT !.status = "queued"]]
      BY <2>1
    <2>6. mailing' \in Seq(MailingRecord)
      BY <1>1, <2>2, <2>4, <2>5, ExceptSeq
    <2> QED  BY <1>3, <2>6 DEF Queue, Types, ConsoleInv
  <1> QED  BY <1>2, <1>3

\* ... and changes of the account and failures.
LEMMA OtherSteps ==
    ASSUME ConsoleInv,
           (\E a \in Account : Disconnect(a) \/ Activate(a)) \/ (\E p \in Proc : Abandon(p))
    PROVE  Types'
  <1> USE ConsoleAssumption
  <1>1. ASSUME NEW a \in Account, Disconnect(a) PROVE Types'
    <2>1. ASSUME NEW c \in Client PROVE Stales(page[c], {a} \X Dialog) \in PageRecord
      <3>1. page[c] \in PageRecord
        BY <2>1 DEF ConsoleInv, Types
      <3> DEFINE b == page[c].stale \/ ({a} \X Dialog) \cap (page[c].offers \cup (page[c].accounts \X Dialog)) # {}
      <3>2. b \in BOOLEAN
        BY <3>1 DEF PageRecord
      <3>3. Stales(page[c], {a} \X Dialog) = [page[c] EXCEPT !.stale = b]
        BY DEF Stales
      <3> HIDE DEF b
      <3> QED  BY <3>1, <3>2, <3>3 DEF PageRecord
    <2>2. page' \in [Client -> PageRecord]
      BY <1>1, <2>1 DEF Disconnect
    <2> QED  BY <1>1, <2>2 DEF Disconnect, ConsoleInv, Types
  <1>2. ASSUME NEW a \in Account, Activate(a) PROVE Types'
    BY <1>2 DEF Activate, ConsoleInv, Types
  <1>3. ASSUME NEW p \in Proc, Abandon(p) PROVE Types'
    <2>1. CASE p \in Client
      BY <1>3, <2>1, NoRecordsTyped DEF Abandon, Unlock, ConsoleInv, Types, tables
    <2>2. CASE p \notin Client
      <3>1. p \in Sync
        BY <2>2 DEF Proc
      <3> QED  BY <1>3, <2>2, <3>1, NoRecordsTyped DEF Abandon, Unlock, ConsoleInv, Types, tables
    <2> QED  BY <2>1, <2>2
  <1> QED  BY <1>1, <1>2, <1>3

\* Every step keeps the types.
LEMMA TypesKept ==
    ASSUME ConsoleInv, [Next]_vars
    PROVE  Types'
  <1>1. CASE Next
    BY <1>1, PageSteps, RequestSteps, TaskSteps, CommitSteps, MailingSteps, OtherSteps
       DEF Next, Serve, Complete
  <1>2. CASE UNCHANGED vars
    BY <1>2 DEF vars, tables, ConsoleInv, Types
  <1> QED  BY <1>1, <1>2

-----------------------------------------------------------------------------
(* Locks.                                                                  *)

\* Rows of different tables, accounts or dialogs are different rows.
LEMMA RowsDiffer ==
    /\ \A a \in Account, d \in Dialog :
          /\ AccountRow(a)[1] = "account" /\ AccountRow(a)[2] = a
          /\ AccountKey(a)[1] = "key" /\ AccountKey(a)[2] = a
          /\ DialogRow(d)[1] = "dialog"
          /\ MemberRow(a, d)[1] = "member" /\ MemberRow(a, d)[2] = a /\ MemberRow(a, d)[3] = d
  BY DEF AccountRow, AccountKey, DialogRow, MemberRow

\* How the locks change in one step: not at all, a transaction ends, it locks a
\* row, or it locks a membership it inserts together with its account's key.
Locks(p, rows) ==
    /\ holds' = [holds EXCEPT ![p] = @ \cup rows]
    /\ Busy(p)'

OneRow(p, row) ==
    /\ row[1] # "key"
    /\ Free(p, {row})
    /\ \A a \in Account : row = AccountRow(a) => Free(p, {AccountKey(a)})
    /\ Locks(p, {row})

NewMember(p, a, d) ==
    /\ Free(p, {MemberRow(a, d)})
    /\ Free(p, {AccountRow(a)})
    /\ Locks(p, {MemberRow(a, d), AccountKey(a)})

LockStep(p) ==
    /\ \A q \in Proc : q # p /\ Busy(q) => Busy(q)'
    /\ \/ UNCHANGED holds /\ (Busy(p) => Busy(p)')
       \/ Unlock(p)
       \/ \E row : OneRow(p, row)
       \/ \E a \in Account, d \in Dialog : NewMember(p, a, d)

\* Only the request of one browser, or the task of one execution, changes.
OneBusy(p) == \A q \in Proc : q # p /\ Busy(q) => Busy(q)'

\* A step that changes the request of one browser leaves the others busy or idle.
LEMMA RequestAlone ==
    ASSUME ConsoleInv, NEW c \in Client, NEW r,
           request' = [request EXCEPT ![c] = r], UNCHANGED task
    PROVE  /\ OneBusy(c)
           /\ Busy(c)' <=> r.at # "idle"
  <1>1. \A q \in Client : q # c => request'[q] = request[q]
    BY DEF ConsoleInv, Types
  <1>2. request'[c] = r
    BY DEF ConsoleInv, Types
  <1> QED  BY <1>1, <1>2 DEF OneBusy, Busy

\* A step that changes the task of one execution does, too.
LEMMA TaskAlone ==
    ASSUME ConsoleInv, NEW s \in Sync, NEW t,
           task' = [task EXCEPT ![s] = t], UNCHANGED request
    PROVE  /\ OneBusy(s)
           /\ Busy(s)' <=> t.account # None
  <1> USE ConsoleAssumption
  <1>1. \A q \in Sync : q # s => task'[q] = task[q]
    BY DEF ConsoleInv, Types
  <1>2. task'[s] = t /\ s \notin Client
    BY DEF ConsoleInv, Types
  <1> QED  BY <1>1, <1>2 DEF OneBusy, Busy, Proc

\* The locks that a browser's request takes and gives up.
LEMMA ClientLocks ==
    ASSUME ConsoleInv, NEW c \in Client,
           Submit(c) \/ Serve(c) \/ Queue(c) \/ \E o \in Operator : ListAccounts(c, o)
    PROVE  LockStep(c)
  <1> USE ConsoleAssumption
  <1>1. c \in Proc /\ request[c] \in RequestRecord
    BY DEF Proc, ConsoleInv, Types
  <1>2. CASE UNCHANGED <<holds, request, task>>
    BY <1>2 DEF LockStep, Busy
  <1>3. CASE Submit(c)
    <2>3. PICK a \in page[c].accounts : \E to \in SUBSET Dialog :
              request' = [request EXCEPT ![c] = [NoRequest EXCEPT
                              !.at = "account", !.account = a, !.to = to]]
      BY <1>3 DEF Submit
    <2>4. PICK to \in SUBSET Dialog :
              request' = [request EXCEPT ![c] = [NoRequest EXCEPT
                              !.at = "account", !.account = a, !.to = to]]
      BY <2>3
    <2> DEFINE r == [NoRequest EXCEPT !.at = "account", !.account = a, !.to = to]
    <2>1. request' = [request EXCEPT ![c] = r] /\ r.at = "account"
      BY <2>4 DEF NoRequest
    <2> HIDE DEF r
    <2>2. OneBusy(c) /\ Busy(c)' /\ UNCHANGED holds
      BY <1>3, <2>1, RequestAlone DEF Submit
    <2> QED  BY <2>2 DEF LockStep, OneBusy
  <1>4. CASE LockAccount(c)
    <2> DEFINE a == request[c].account
               r == [request[c] EXCEPT !.at = "shared"]
    <2>1. request' = [request EXCEPT ![c] = r] /\ r.at = "shared" /\ UNCHANGED task
      BY <1>1, <1>4 DEF LockAccount, RequestRecord
    <2>2. a \in Account /\ Free(c, {AccountRow(a), AccountKey(a)}) /\ Take(c, AccountRow(a))
      BY <1>4 DEF LockAccount, ConsoleInv, Types
    <2> HIDE DEF r
    <2>3. OneBusy(c) /\ Busy(c)'
      BY <2>1, RequestAlone
    <2> HIDE DEF a
    <2>4. Free(c, {AccountRow(a)}) /\ Free(c, {AccountKey(a)})
      BY <2>2 DEF Free, Holders
    <2>5. \A b \in Account : AccountRow(a) = AccountRow(b) => b = a
      BY DEF AccountRow
    <2>7. AccountRow(a)[1] # "key"
      BY DEF AccountRow
    <2>8. Locks(c, {AccountRow(a)})
      BY <2>2, <2>3 DEF Locks, Take
    <2>6. OneRow(c, AccountRow(a))
      BY <2>4, <2>5, <2>7, <2>8 DEF OneRow
    <2> QED  BY <2>3, <2>6 DEF LockStep, OneBusy
  <1>5. CASE Select(c)
    <2> DEFINE r == [request[c] EXCEPT !.at = IF @ = "shared" THEN "lockShared" ELSE "lockPrivate",
                        !.awaits = {d \in Kind(c) : Sendable(request[c].account, d)}]
    <2>1. request' = [request EXCEPT ![c] = r] /\ r.at # "idle" /\ UNCHANGED <<task, holds>>
      BY <1>1, <1>5 DEF Select, RequestRecord
    <2> HIDE DEF r
    <2>2. OneBusy(c) /\ Busy(c)'
      BY <2>1, RequestAlone
    <2> QED  BY <2>1, <2>2 DEF LockStep, OneBusy
  <1>6. CASE LockDialog(c)
    <2> DEFINE a == request[c].account
    <2>1. PICK d \in request[c].awaits :
              /\ Free(c, {MemberRow(a, d)})
              /\ Take(c, MemberRow(a, d))
              /\ request' = [request EXCEPT ![c].awaits = @ \ {d},
                    ![c].valid = IF Sendable(a, d) THEN @ \cup {d} ELSE @]
      BY <1>6 DEF LockDialog
    <2> DEFINE r == [request[c] EXCEPT !.awaits = @ \ {d},
                        !.valid = IF Sendable(a, d) THEN @ \cup {d} ELSE @]
    <2>2. d \in Dialog /\ a \in Account
      <3>1. request[c].at \in Locking
        BY <1>6 DEF LockDialog, Locking
      <3> QED  BY <1>1, <2>1, <3>1 DEF ConsoleInv, RequestTrue, RequestRecord, Locking
    <2>3. request' = [request EXCEPT ![c] = r] /\ r.at = request[c].at /\ r.at # "idle" /\ UNCHANGED task
      <3>1. request[c] \in RequestRecord
        BY <1>1
      <3>2. r.at = request[c].at
        BY <3>1 DEF RequestRecord
      <3>3. request[c].at # "idle" /\ UNCHANGED task
        BY <1>6 DEF LockDialog
      <3>4. request' = [request EXCEPT ![c] = r]
        BY <2>1
      <3> HIDE DEF r
      <3> QED  BY <3>2, <3>3, <3>4
    <2> HIDE DEF r
    <2>4. OneBusy(c) /\ Busy(c)'
      BY <2>3, RequestAlone
    <2> HIDE DEF a
    <2>5. OneRow(c, MemberRow(a, d))
      BY <2>1, <2>2, <2>4, RowsDiffer DEF OneRow, Locks, Take
    <2> QED  BY <2>4, <2>5 DEF LockStep, OneBusy
  <1>7. CASE SharedAvailable(c)
    <2> DEFINE r == [request[c] EXCEPT !.at = "private"]
    <2>1. request' = [request EXCEPT ![c] = r] /\ r.at # "idle" /\ UNCHANGED <<task, holds>>
      BY <1>1, <1>7 DEF SharedAvailable, RequestRecord
    <2> HIDE DEF r
    <2>2. OneBusy(c) /\ Busy(c)'
      BY <2>1, RequestAlone
    <2> QED  BY <2>1, <2>2 DEF LockStep, OneBusy
  <1>8. CASE Refuse(c) \/ Draft(c)
    <2>1. Unlock(c) /\ request' = [request EXCEPT ![c] = NoRequest] /\ UNCHANGED task
      BY <1>8 DEF Refuse, Draft, Leave
    <2>2. OneBusy(c)
      BY <2>1, RequestAlone
    <2> QED  BY <2>1, <2>2 DEF LockStep, OneBusy
  <1>9. ASSUME ListShared(c) \/ ListPrivate(c) \/ Queue(c) \/ \E o \in Operator : ListAccounts(c, o)
        PROVE  UNCHANGED <<holds, request, task>>
    BY <1>9 DEF ListShared, ListPrivate, Queue, ListAccounts
  <1> QED  BY <1>2, <1>3, <1>4, <1>5, <1>6, <1>7, <1>8, <1>9 DEF Serve

\* The locks that a completion takes and gives up.
LEMMA SyncLocks ==
    ASSUME ConsoleInv, NEW s \in Sync,
           Complete(s) \/ \E a \in Account : Fetch(s, a)
    PROVE  LockStep(s)
  <1> USE ConsoleAssumption
  <1>1. s \in Proc /\ task[s] \in TaskRecord
    BY DEF Proc, ConsoleInv, Types
  <1>2. CASE \E a \in Account : Fetch(s, a)
    <2>1. PICK a \in Account : Fetch(s, a)
      BY <1>2
    <2>4. PICK answer \in Answers :
              task' = [task EXCEPT ![s] = [NoTask EXCEPT !.account = a, !.todo = answer]]
      BY <2>1 DEF Fetch
    <2> DEFINE t == [NoTask EXCEPT !.account = a, !.todo = answer]
    <2>2. task' = [task EXCEPT ![s] = t] /\ t.account = a
      BY <2>4 DEF NoTask
    <2> HIDE DEF t
    <2>3. OneBusy(s) /\ Busy(s)' /\ UNCHANGED holds
      BY <2>1, <2>2, TaskAlone DEF Fetch
    <2> QED  BY <2>3 DEF LockStep, OneBusy
  <1> DEFINE a == task[s].account
             d == Head(task[s].todo).dialog
  <1>3. ASSUME UpsertDialog(s) \/ UpsertMember(s)
        PROVE  a \in Account /\ d \in Dialog
    <2>1. task[s].todo # <<>>
      BY <1>3 DEF UpsertDialog, UpsertMember
    <2>2. a # None
      BY <2>1 DEF ConsoleInv, TaskTrue
    <2>3. Head(task[s].todo) \in Fetched
      BY <1>1, <2>1, HeadTailProperties DEF TaskRecord
    <2> QED  BY <1>1, <2>2, <2>3 DEF TaskRecord, Fetched
  <1>4. CASE UpsertDialog(s)
    <2> DEFINE t == [task[s] EXCEPT !.at = "member"]
    <2>1. task' = [task EXCEPT ![s] = t] /\ t.account = a /\ UNCHANGED request
      BY <1>1, <1>4 DEF UpsertDialog, TaskRecord
    <2> HIDE DEF t
    <2>2. OneBusy(s) /\ Busy(s)'
      BY <1>3, <1>4, <2>1, TaskAlone
    <2>3. Free(s, {DialogRow(d)}) /\ Take(s, DialogRow(d))
      BY <1>4 DEF UpsertDialog
    <2>4. a \in Account /\ d \in Dialog
      BY <1>3, <1>4
    <2> HIDE DEF a, d
    <2>5. OneRow(s, DialogRow(d))
      BY <2>2, <2>3, <2>4, RowsDiffer DEF OneRow, Locks, Take
    <2> QED  BY <2>2, <2>5 DEF LockStep, OneBusy
  <1>5. CASE UpsertMember(s)
    <2> DEFINE t == [task[s] EXCEPT !.todo = Tail(@), !.at = "dialog",
                                    !.found = @ \cup {Head(task[s].todo)}]
    <2>1. task' = [task EXCEPT ![s] = t] /\ t.account = a /\ UNCHANGED request
      <3>1. task[s] \in TaskRecord
        BY <1>1
      <3>2. t.account = a
        BY <3>1 DEF TaskRecord
      <3>3. task' = [task EXCEPT ![s] = t] /\ UNCHANGED request
        BY <1>5 DEF UpsertMember
      <3> HIDE DEF t
      <3> QED  BY <3>2, <3>3
    <2> HIDE DEF t
    <2>2. OneBusy(s) /\ Busy(s)'
      BY <1>3, <1>5, <2>1, TaskAlone
    <2>3. a \in Account /\ d \in Dialog
      BY <1>3, <1>5
    <2>4. Free(s, {MemberRow(a, d)})
      BY <1>5 DEF UpsertMember
    <2>5. \/ Take(s, MemberRow(a, d))
          \/ Free(s, {AccountRow(a)}) /\ holds' = [holds EXCEPT ![s] = @ \cup {MemberRow(a, d), AccountKey(a)}]
      BY <1>5 DEF UpsertMember
    <2> HIDE DEF a, d
    <2>6. OneRow(s, MemberRow(a, d)) \/ NewMember(s, a, d)
      BY <2>2, <2>3, <2>4, <2>5, RowsDiffer DEF OneRow, NewMember, Locks, Take
    <2> QED  BY <2>2, <2>3, <2>6 DEF LockStep, OneBusy
  <1>6. CASE CompleteCommits(s)
    <2>1. Unlock(s) /\ task' = [task EXCEPT ![s] = NoTask] /\ UNCHANGED request
      BY <1>6 DEF CompleteCommits
    <2>2. OneBusy(s)
      BY <2>1, TaskAlone
    <2> QED  BY <2>1, <2>2 DEF LockStep, OneBusy
  <1> QED  BY <1>2, <1>4, <1>5, <1>6 DEF Complete

\* In every step at most one process takes or gives up locks.
LEMMA SomeLockStep ==
    ASSUME ConsoleInv, Next
    PROVE  \/ \E p \in Proc : LockStep(p)
           \/ UNCHANGED <<holds, request, task>>
  <1> USE ConsoleAssumption
  <1>1. ASSUME NEW p \in Proc, Abandon(p) PROVE LockStep(p)
    <2>1. CASE p \in Client
      <3>1. request' = [request EXCEPT ![p] = NoRequest] /\ UNCHANGED task
        BY <1>1, <2>1 DEF Abandon
      <3> QED  BY <1>1, <2>1, <3>1, RequestAlone DEF LockStep, OneBusy, Abandon
    <2>2. CASE p \notin Client
      <3>1. task' = [task EXCEPT ![p] = NoTask] /\ UNCHANGED request /\ p \in Sync
        BY <1>1, <2>2 DEF Abandon, Proc
      <3> QED  BY <1>1, <3>1, TaskAlone DEF LockStep, OneBusy, Abandon
    <2> QED  BY <2>1, <2>2
  <1>2. ASSUME NEW a \in Account, Disconnect(a) \/ Activate(a)
        PROVE  UNCHANGED <<holds, request, task>>
    BY <1>2 DEF Disconnect, Activate
  <1>3. Client \subseteq Proc /\ Sync \subseteq Proc
    BY DEF Proc
  <1> QED  BY <1>1, <1>2, <1>3, ClientLocks, SyncLocks DEF Next

\* Locks stay exclusive, and end with their transaction.
LEMMA LocksKept ==
    ASSUME ConsoleInv, [Next]_vars
    PROVE  LocksExclude'
  <1>1. CASE UNCHANGED <<holds, request, task>>
    BY <1>1 DEF ConsoleInv, LocksExclude, Busy
  <1>2. ASSUME NEW p \in Proc, LockStep(p)
        PROVE  LocksExclude'
    <2>1. \A q \in Proc : q # p /\ ~Busy(q)' => holds[q] = {}
      BY <1>2 DEF LockStep, ConsoleInv, LocksExclude
    <2>2. CASE UNCHANGED holds /\ (Busy(p) => Busy(p)')
      BY <1>2, <2>1, <2>2 DEF ConsoleInv, LocksExclude
    <2>3. CASE Unlock(p)
      <3>1. \A q \in Proc : holds'[q] = IF q = p THEN {} ELSE holds[q]
        BY <2>3 DEF Unlock, ConsoleInv, Types
      <3> QED  BY <2>1, <3>1 DEF ConsoleInv, LocksExclude
    <2>6. \A q, r \in Proc : \A x : q # r /\ x \in holds[q] /\ x \in holds[r] => x[1] = "key"
      BY DEF ConsoleInv, LocksExclude
    <2>7. \A a \in Account, q, r \in Proc :
              q # r /\ AccountRow(a) \in holds[q] => AccountKey(a) \notin holds[r]
      BY DEF ConsoleInv, LocksExclude
    <2>8. ASSUME NEW rows, Locks(p, rows),
                 \A q \in Proc, x \in rows : q # p /\ x \in holds[q] => x[1] = "key",
                 \A q \in Proc, a \in Account : q # p /\ AccountRow(a) \in rows => AccountKey(a) \notin holds[q],
                 \A q \in Proc, a \in Account : q # p /\ AccountKey(a) \in rows => AccountRow(a) \notin holds[q]
          PROVE  LocksExclude'
      <3>1. \A q \in Proc : \A x : x \in holds'[q] <=> x \in holds[q] \/ (q = p /\ x \in rows)
        BY <2>8 DEF Locks, ConsoleInv, Types
      <3>2. Busy(p)' /\ \A q \in Proc : q # p => holds'[q] = holds[q]
        BY <2>8 DEF Locks, ConsoleInv, Types
      <3>3. ASSUME NEW q \in Proc, NEW r \in Proc, q # r, NEW x \in holds'[q] \cap holds'[r]
            PROVE  x[1] = "key"
        <4>1. CASE q # p /\ r # p
          BY <2>6, <3>1, <3>3, <4>1
        <4>2. CASE q = p
          BY <2>6, <2>8, <3>1, <3>3, <4>2
        <4>3. CASE r = p
          BY <2>6, <2>8, <3>1, <3>3, <4>3
        <4> QED  BY <4>1, <4>2, <4>3
      <3>4. ASSUME NEW a \in Account, NEW q \in Proc, NEW r \in Proc, q # r, AccountRow(a) \in holds'[q]
            PROVE  AccountKey(a) \notin holds'[r]
        <4>1. CASE q # p /\ r # p
          BY <2>7, <3>1, <3>4, <4>1
        <4>2. CASE q = p
          BY <2>7, <2>8, <3>1, <3>4, <4>2
        <4>3. CASE r = p
          BY <2>7, <2>8, <3>1, <3>4, <4>3
        <4> QED  BY <4>1, <4>2, <4>3
      <3>5. \A q \in Proc : ~Busy(q)' => holds'[q] = {}
        BY <2>1, <3>2
      <3> QED  BY <3>3, <3>4, <3>5 DEF LocksExclude
    <2>4. ASSUME NEW row, OneRow(p, row)
          PROVE  LocksExclude'
      <3>1. \A q \in Proc : q # p => row \notin holds[q]
        BY <2>4 DEF OneRow, Free, Holders
      <3>2. \A a \in Account, q \in Proc : q # p /\ row = AccountRow(a) => AccountKey(a) \notin holds[q]
        BY <2>4 DEF OneRow, Free, Holders
      <3>3. \A a \in Account : AccountKey(a) # row
        BY <2>4 DEF OneRow, AccountKey
      <3>4. Locks(p, {row})
        BY <2>4 DEF OneRow
      <3> QED  BY <2>8, <3>1, <3>2, <3>3, <3>4
    <2>5. ASSUME NEW a \in Account, NEW d \in Dialog, NewMember(p, a, d)
          PROVE  LocksExclude'
      <3> DEFINE row == MemberRow(a, d)
                 key == AccountKey(a)
      <3>1. \A q \in Proc : q # p => row \notin holds[q] /\ AccountRow(a) \notin holds[q]
        BY <2>5 DEF NewMember, Free, Holders
      <3>2. key[1] = "key"
        BY DEF AccountKey
      <3>3. \A b \in Account : AccountKey(b) = key => b = a
        BY DEF AccountKey
      <3>4. \A b \in Account : AccountRow(b) # row /\ AccountRow(b) # key /\ AccountKey(b) # row
        BY DEF AccountKey, AccountRow, MemberRow
      <3>5. Locks(p, {row, key})
        BY <2>5 DEF NewMember
      <3> HIDE DEF row, key
      <3> QED  BY <2>8, <3>1, <3>2, <3>3, <3>4, <3>5
    <2> QED  BY <1>2, <2>2, <2>3, <2>4, <2>5 DEF LockStep
  <1> QED  BY <1>1, <1>2, SomeLockStep DEF vars

-----------------------------------------------------------------------------
(* What a step leaves alone.                                               *)

Acts(p) ==
    \/ p \in Client /\ (Submit(p) \/ Serve(p) \/ Queue(p) \/ \E o \in Operator : ListAccounts(p, o))
    \/ p \in Sync /\ (Complete(p) \/ \E a \in Account : Fetch(p, a))
    \/ Abandon(p)

Changes(a) == Disconnect(a) \/ Activate(a)

\* The browser sees the same page; a page once stale stays so.
SamePage(c) ==
    /\ page'[c].op = page[c].op
    /\ page'[c].loading = page[c].loading
    /\ page'[c].offers = page[c].offers
    /\ page[c].stale => page'[c].stale

\* A step is one of a process or a change of an account.
LEMMA SomeoneActs ==
    Next <=> (\E p \in Proc : Acts(p)) \/ (\E a \in Account : Changes(a))
  <1> USE ConsoleAssumption
  <1>1. Client \subseteq Proc /\ Sync \subseteq Proc
    BY DEF Proc
  <1> QED  BY <1>1 DEF Next, Acts, Changes

\* Making pages stale changes nothing else about them.
LEMMA StalesKeeps ==
    ASSUME ConsoleInv, NEW lost, page' = [c \in Client |-> Stales(page[c], lost)]
    PROVE  \A c \in Client :
              /\ SamePage(c)
              /\ ~page'[c].stale => ~page[c].stale /\ lost \cap page[c].offers = {}
  <1> SUFFICES ASSUME NEW c \in Client
               PROVE  /\ SamePage(c)
                      /\ ~page'[c].stale => ~page[c].stale /\ lost \cap page[c].offers = {}
    OBVIOUS
  <1> DEFINE b == page[c].stale \/ lost \cap (page[c].offers \cup (page[c].accounts \X Dialog)) # {}
  <1>1. page[c] \in PageRecord
    BY DEF ConsoleInv, Types
  <1>2. page'[c] = [page[c] EXCEPT !.stale = b]
    BY DEF Stales
  <1>3. ~b => ~page[c].stale /\ lost \cap page[c].offers = {}
    OBVIOUS
  <1>4. page[c].stale => b
    OBVIOUS
  <1> HIDE DEF b
  <1>5. /\ page'[c].op = page[c].op
        /\ page'[c].loading = page[c].loading
        /\ page'[c].offers = page[c].offers
        /\ page'[c].stale = b
    BY <1>1, <1>2 DEF PageRecord
  <1> QED  BY <1>3, <1>4, <1>5 DEF SamePage

\* A process leaves the others alone, except that a completion may make their
\* pages stale.
LEMMA OthersUntouched ==
    ASSUME ConsoleInv, NEW p \in Proc, Acts(p), NEW q \in Proc, q # p
    PROVE  /\ holds'[q] = holds[q]
           /\ q \in Client => request'[q] = request[q] /\ SamePage(q)
           /\ q \in Sync => task'[q] = task[q]
  <1> USE ConsoleAssumption
  <1>0. DOMAIN holds = Proc /\ DOMAIN request = Client /\ DOMAIN task = Sync /\ DOMAIN page = Client
    BY DEF ConsoleInv, Types
  <1>1. CASE p \in Client
    <2>1. \/ Submit(p) \/ Serve(p) \/ Queue(p) \/ Abandon(p)
          \/ \E o \in Operator : ListAccounts(p, o)
      BY <1>1 DEF Acts, Proc
    <2>2. holds'[q] = holds[q]
      BY <1>0, <2>1 DEF Submit, Serve, Queue, Abandon, ListAccounts, ListShared, ListPrivate, LockAccount,
             Select, LockDialog, SharedAvailable, Refuse, Draft, Leave, Unlock, Take
    <2>3. q \in Client => request'[q] = request[q]
      <3>1. \E r : request' = [request EXCEPT ![p] = r] \/ request' = request
        <4>1. CASE Submit(p)
          <5>1. PICK a \in page[p].accounts : \E to \in SUBSET Dialog :
                    request' = [request EXCEPT ![p] = [NoRequest EXCEPT
                                    !.at = "account", !.account = a, !.to = to]]
            BY <4>1 DEF Submit
          <5> QED  BY <5>1
        <4>2. CASE LockDialog(p)
          <5>1. PICK d \in request[p].awaits :
                    request' = [request EXCEPT ![p].awaits = @ \ {d},
                        ![p].valid = IF Sendable(request[p].account, d) THEN @ \cup {d} ELSE @]
            BY <4>2 DEF LockDialog
          <5>2. request' = [request EXCEPT ![p] = [request[p] EXCEPT !.awaits = @ \ {d},
                        !.valid = IF Sendable(request[p].account, d) THEN @ \cup {d} ELSE @]]
            BY <5>1
          <5> QED  BY <5>2
        <4>3. CASE LockAccount(p)
          <5>1. request' = [request EXCEPT ![p] = [request[p] EXCEPT !.at = "shared"]]
            BY <4>3 DEF LockAccount
          <5> QED  BY <5>1
        <4>4. CASE Select(p)
          <5>1. request' = [request EXCEPT ![p] = [request[p] EXCEPT
                    !.at = IF @ = "shared" THEN "lockShared" ELSE "lockPrivate",
                    !.awaits = {d \in Kind(p) : Sendable(request[p].account, d)}]]
            BY <4>4 DEF Select
          <5> QED  BY <5>1
        <4>5. CASE SharedAvailable(p)
          <5>1. request' = [request EXCEPT ![p] = [request[p] EXCEPT !.at = "private"]]
            BY <4>5 DEF SharedAvailable
          <5> QED  BY <5>1
        <4>6. CASE Refuse(p) \/ Draft(p) \/ Abandon(p)
          <5>1. request' = [request EXCEPT ![p] = NoRequest]
            BY <1>1, <4>6 DEF Refuse, Draft, Abandon, Leave
          <5> QED  BY <5>1
        <4>7. CASE ListShared(p) \/ ListPrivate(p) \/ Queue(p) \/ \E o \in Operator : ListAccounts(p, o)
          BY <4>7 DEF ListShared, ListPrivate, Queue, ListAccounts
        <4> QED  BY <2>1, <4>1, <4>2, <4>3, <4>4, <4>5, <4>6, <4>7 DEF Serve
      <3> QED  BY <1>0, <3>1
    <2>4. q \in Client => page'[q] = page[q]
      BY <1>0, <2>1 DEF Submit, Serve, Queue, Abandon, ListAccounts, ListShared, ListPrivate, LockAccount,
             Select, LockDialog, SharedAvailable, Refuse, Draft
    <2>5. UNCHANGED task
      BY <1>1, <2>1 DEF Submit, Serve, Queue, Abandon, ListAccounts, ListShared, ListPrivate, LockAccount,
             Select, LockDialog, SharedAvailable, Refuse, Draft
    <2> QED  BY <2>2, <2>3, <2>4, <2>5 DEF SamePage
  <1>2. CASE p \in Sync
    <2>1. Complete(p) \/ (\E a \in Account : Fetch(p, a)) \/ Abandon(p)
      BY <1>2 DEF Acts
    <2>2. holds'[q] = holds[q]
      BY <1>0, <2>1 DEF Complete, Fetch, UpsertDialog, UpsertMember, CompleteCommits, Abandon, Unlock, Take
    <2>3. UNCHANGED request
      BY <1>2, <2>1 DEF Complete, Fetch, UpsertDialog, UpsertMember, CompleteCommits, Abandon
    <2>4. q \in Client => SamePage(q)
      <3>1. CASE CompleteCommits(p)
        <4>1. PICK lost : page' = [c \in Client |-> Stales(page[c], lost)]
          BY <3>1 DEF CompleteCommits
        <4> QED  BY <4>1, StalesKeeps
      <3>2. CASE ~CompleteCommits(p)
        <4>1. UNCHANGED page
          BY <2>1, <3>2 DEF Complete, Fetch, UpsertDialog, UpsertMember, Abandon
        <4> QED  BY <4>1 DEF SamePage
      <3> QED  BY <3>1, <3>2
    <2>5. q \in Sync => task'[q] = task[q]
      <3>1. \E t : task' = [task EXCEPT ![p] = t]
        <4>1. CASE \E a \in Account : Fetch(p, a)
          <5>1. PICK a \in Account : Fetch(p, a)
            BY <4>1
          <5>2. PICK answer \in Answers :
                    task' = [task EXCEPT ![p] = [NoTask EXCEPT !.account = a, !.todo = answer]]
            BY <5>1 DEF Fetch
          <5> QED  BY <5>2
        <4>2. CASE UpsertDialog(p)
          <5>1. task' = [task EXCEPT ![p] = [task[p] EXCEPT !.at = "member"]]
            BY <4>2 DEF UpsertDialog
          <5> QED  BY <5>1
        <4>3. CASE UpsertMember(p)
          <5>1. task' = [task EXCEPT ![p] = [task[p] EXCEPT !.todo = Tail(@), !.at = "dialog",
                            !.found = @ \cup {Head(task[p].todo)}]]
            BY <4>3 DEF UpsertMember
          <5> QED  BY <5>1
        <4>4. CASE CompleteCommits(p) \/ Abandon(p)
          <5>1. task' = [task EXCEPT ![p] = NoTask]
            BY <1>2, <4>4 DEF CompleteCommits, Abandon
          <5> QED  BY <5>1
        <4> QED  BY <2>1, <4>1, <4>2, <4>3, <4>4 DEF Complete
      <3> QED  BY <1>0, <3>1
    <2> QED  BY <2>2, <2>3, <2>4, <2>5
  <1> QED  BY <1>1, <1>2 DEF Proc

\* A membership that a browser's transaction has locked stays as it is, and an
\* account it has locked stays active.
LEMMA LockedStays ==
    ASSUME ConsoleInv, Next, NEW c \in Client, NEW a \in Account
    PROVE  /\ \A d \in Dialog : MemberRow(a, d) \in holds[c] => member'[a][d] = member[a][d]
           /\ AccountRow(a) \in holds[c] /\ a \in active => a \in active'
  <1> USE ConsoleAssumption
  <1>1. ASSUME NEW s \in Sync, CompleteCommits(s), NEW d \in Dialog, MemberRow(a, d) \in holds[c]
        PROVE  member'[a][d] = member[a][d]
    <2> DEFINE b == task[s].account
    <2>1. b # None /\ c # s /\ c \in Proc /\ s \in Proc
      BY <1>1 DEF CompleteCommits, Proc
    <2>2. b \in Account /\ member' = [member EXCEPT ![b] = Written(s)]
      BY <1>1, CommitSteps
    <2>3. CASE a = b
      <3>1. ~\E f \in task[s].found : f.dialog = d
        <4> SUFFICES ASSUME NEW f \in task[s].found, f.dialog = d PROVE FALSE
          OBVIOUS
        <4>1. MemberRow(a, d) \in holds[s]
          BY <2>3 DEF ConsoleInv, TaskTrue
        <4>2. MemberRow(a, d)[1] = "key"
          BY <1>1, <2>1, <4>1 DEF ConsoleInv, LocksExclude
        <4> QED  BY <4>2, RowsDiffer
      <3>2. Written(s)[d] = member[a][d]
        BY <2>1, <2>3, <3>1, WrittenTyped
      <3> QED  BY <2>2, <2>3, <3>2 DEF ConsoleInv, Types
    <2>4. CASE a # b
      BY <2>2, <2>4 DEF ConsoleInv, Types
    <2> QED  BY <2>3, <2>4
  <1>2. ASSUME NEW b \in Account, Disconnect(b), AccountRow(a) \in holds[c], a \in active
        PROVE  a \in active'
    <2>1. c \in Proc
      BY DEF Proc
    <2>2. a # b
      BY <1>2, <2>1 DEF Disconnect
    <2> QED  BY <1>2, <2>2 DEF Disconnect
  <1>3. \/ UNCHANGED member
        \/ \E s \in Sync : CompleteCommits(s)
    BY Zenon DEF Next, Serve, Complete, Submit, Queue, Abandon, ListAccounts, ListShared, ListPrivate,
           LockAccount, Select, LockDialog, SharedAvailable, Refuse, Draft, Fetch, UpsertDialog,
           UpsertMember, Disconnect, Activate, tables
  <1>4. \/ UNCHANGED active
        \/ \E b \in Account : Disconnect(b) \/ Activate(b)
    BY Zenon DEF Next, Serve, Complete, Submit, Queue, Abandon, ListAccounts, ListShared, ListPrivate,
           LockAccount, Select, LockDialog, SharedAvailable, Refuse, Draft, Fetch, UpsertDialog,
           UpsertMember, CompleteCommits, tables
  <1>5. ASSUME NEW b \in Account, Activate(b) PROVE active \subseteq active'
    BY <1>5 DEF Activate
  <1> QED  BY <1>1, <1>2, <1>3, <1>4, <1>5

-----------------------------------------------------------------------------
(* The rest of the invariant.                                              *)

\* No step loses a membership or a hash.
LEMMA MembersKept ==
    ASSUME ConsoleInv, [Next]_vars
    PROVE  /\ MembersExist'
           /\ \A a \in Account, d \in Dialog :
                 /\ member[a][d].exists => member'[a][d].exists
                 /\ member[a][d].hash => member'[a][d].hash
  <1>1. CASE UNCHANGED member
    BY <1>1 DEF ConsoleInv, MembersExist
  <1>2. ASSUME NEW s \in Sync, CompleteCommits(s), NEW a \in Account, NEW d \in Dialog
        PROVE  /\ member'[a][d].canSend => member'[a][d].exists
               /\ member[a][d].exists => member'[a][d].exists
               /\ member[a][d].hash => member'[a][d].hash
    <2> DEFINE b == task[s].account
    <2>1. b # None
      BY <1>2 DEF CompleteCommits
    <2>2. b \in Account /\ member' = [member EXCEPT ![b] = Written(s)]
      BY <1>2, CommitSteps
    <2>3. member[a][d].canSend => member[a][d].exists
      BY DEF ConsoleInv, MembersExist
    <2>4. CASE a = b
      <3>1. member'[a] = Written(s)
        BY <2>2, <2>4 DEF ConsoleInv, Types
      <3> QED  BY <2>1, <2>3, <2>4, <3>1, WrittenTyped
    <2>5. CASE a # b
      <3>1. member'[a] = member[a]
        BY <2>2, <2>5 DEF ConsoleInv, Types
      <3> QED  BY <2>3, <3>1
    <2> QED  BY <2>4, <2>5
  <1>3. \/ UNCHANGED member
        \/ \E s \in Sync : CompleteCommits(s)
    BY Zenon DEF Next, Serve, Complete, Submit, Queue, Abandon, ListAccounts, ListShared, ListPrivate,
           LockAccount, Select, LockDialog, SharedAvailable, Refuse, Draft, Fetch, UpsertDialog,
           UpsertMember, Disconnect, Activate, tables, vars
  <1> QED  BY <1>1, <1>2, <1>3 DEF MembersExist

\* What a page may offer can be sent to.
LEMMA OffersTrue ==
    ASSUME NEW o, NEW dialogs \in SUBSET Dialog, NEW a \in Account, NEW d \in Dialog,
           <<a, d>> \in Offers(o, dialogs)
    PROVE  a \in active /\ Owner[a] = o /\ Sendable(a, d)
  BY DEF Offers

\* No step makes a page untrue that is not stale.
LEMMA PagesKept ==
    ASSUME ConsoleInv, [Next]_vars, NEW c \in Client
    PROVE  PageTrue(c)'
  <1> USE ConsoleAssumption
  <1>1. PageTrue(c) /\ page[c] \in PageRecord /\ DOMAIN page = Client
    BY DEF ConsoleInv, Types
  <1>2. ASSUME NEW o \in Operator, ListAccounts(c, o) PROVE PageTrue(c)'
    <2>1. page'[c].offers = {}
      BY <1>1, <1>2 DEF ListAccounts, NoPage
    <2> QED  BY <2>1 DEF PageTrue
  <1>3. CASE ListShared(c)
    <2> DEFINE o == page[c].op
    <2>1. page'[c].op = o /\ page'[c].stale = page[c].stale /\ page'[c].offers = Offers(o, Shared)
      BY <1>1, <1>3 DEF ListShared, PageRecord
    <2>2. UNCHANGED <<active, member>> /\ Shared \in SUBSET Dialog
      BY <1>3 DEF ListShared, tables, Dialog
    <2> HIDE DEF o
    <2> QED  BY <2>1, <2>2, OffersTrue DEF PageTrue, Sendable
  <1>4. CASE ListPrivate(c)
    <2> DEFINE o == page[c].op
    <2>1. /\ page'[c].op = o
          /\ page'[c].stale = page[c].stale
          /\ page'[c].offers = page[c].offers \cup Offers(o, Private)
      BY <1>1, <1>4 DEF ListPrivate, PageRecord
    <2>2. UNCHANGED <<active, member>> /\ Private \in SUBSET Dialog
      BY <1>4 DEF ListPrivate, tables, Dialog
    <2>3. ASSUME ~page'[c].stale, NEW a \in Account, NEW d \in Dialog, <<a, d>> \in page'[c].offers
          PROVE  a \in active /\ Owner[a] = o /\ Sendable(a, d)
      <3>1. CASE <<a, d>> \in page[c].offers
        BY <1>1, <2>1, <2>3, <3>1 DEF PageTrue
      <3>2. CASE <<a, d>> \in Offers(o, Private)
        BY <2>2, <3>2, OffersTrue
      <3> QED  BY <2>1, <2>3, <3>1, <3>2
    <2> HIDE DEF o
    <2> QED  BY <2>1, <2>2, <2>3 DEF PageTrue, Sendable
  <1>5. ASSUME NEW s \in Sync, CompleteCommits(s) PROVE PageTrue(c)'
    <2> DEFINE b == task[s].account
               lost == {<<b, d>> : d \in {e \in Dialog : Sendable(b, e)
                            /\ ~(Written(s)[e].canSend /\ (e \notin Chat => Written(s)[e].hash))}}
    <2>1. page' = [x \in Client |-> Stales(page[x], lost)] /\ UNCHANGED active
      BY <1>5 DEF CompleteCommits, Written
    <2>2. b \in Account /\ member' = [member EXCEPT ![b] = Written(s)]
      BY <1>5, CommitSteps
    <2> HIDE DEF lost
    <2>3. SamePage(c) /\ (~page'[c].stale => ~page[c].stale /\ lost \cap page[c].offers = {})
      BY <2>1, StalesKeeps
    <2>4. ASSUME ~page'[c].stale, NEW a \in Account, NEW d \in Dialog, <<a, d>> \in page[c].offers
          PROVE  a \in active' /\ Owner[a] = page'[c].op /\ Sendable(a, d)'
      <3>1. a \in active /\ Owner[a] = page[c].op /\ Sendable(a, d)
        BY <1>1, <2>3, <2>4 DEF PageTrue
      <3>2. CASE a = b
        <4>1. <<b, d>> \notin lost
          BY <2>3, <2>4, <3>2
        <4>2. Written(s)[d].canSend /\ (d \notin Chat => Written(s)[d].hash)
          BY <3>1, <3>2, <4>1 DEF lost
        <4>3. member'[a] = Written(s)
          BY <2>2, <3>2 DEF ConsoleInv, Types
        <4> QED  BY <2>1, <2>3, <3>1, <4>2, <4>3 DEF Sendable, SamePage
      <3>3. CASE a # b
        <4>1. member'[a] = member[a]
          BY <2>2, <3>3 DEF ConsoleInv, Types
        <4> QED  BY <2>1, <2>3, <3>1, <4>1 DEF Sendable, SamePage
      <3> QED  BY <3>2, <3>3
    <2> QED  BY <2>3, <2>4 DEF PageTrue, SamePage
  <1>6. ASSUME NEW b \in Account, Disconnect(b) PROVE PageTrue(c)'
    <2>1. /\ page' = [x \in Client |-> Stales(page[x], {b} \X Dialog)]
          /\ active' = active \ {b}
          /\ UNCHANGED member
      BY <1>6 DEF Disconnect
    <2>2. SamePage(c) /\ (~page'[c].stale => ~page[c].stale /\ ({b} \X Dialog) \cap page[c].offers = {})
      BY <2>1, StalesKeeps
    <2>3. ASSUME ~page'[c].stale, NEW a \in Account, NEW d \in Dialog, <<a, d>> \in page[c].offers
          PROVE  a \in active' /\ Owner[a] = page'[c].op /\ Sendable(a, d)'
      <3>1. a \in active /\ Owner[a] = page[c].op /\ Sendable(a, d)
        BY <1>1, <2>2, <2>3 DEF PageTrue
      <3>2. a # b
        BY <2>2, <2>3
      <3> QED  BY <2>1, <2>2, <3>1, <3>2 DEF Sendable, SamePage
    <2> QED  BY <2>2, <2>3 DEF PageTrue, SamePage
  <1>7. CASE UNCHANGED <<active, member>> /\ page'[c] = page[c]
    BY <1>1, <1>7 DEF PageTrue, Sendable
  <1>8. ASSUME NEW b \in Account, Activate(b) PROVE PageTrue(c)'
    BY <1>1, <1>8 DEF Activate, PageTrue, Sendable
  <1>9. ASSUME NEW x \in Client, x # c, ListShared(x) \/ ListPrivate(x) \/ \E o \in Operator : ListAccounts(x, o)
        PROVE  UNCHANGED <<active, member>> /\ page'[c] = page[c]
    BY <1>1, <1>9 DEF ListShared, ListPrivate, ListAccounts, tables
  <1>10. \/ \E x \in Client : ListShared(x) \/ ListPrivate(x) \/ \E o \in Operator : ListAccounts(x, o)
         \/ \E s \in Sync : CompleteCommits(s)
         \/ \E b \in Account : Disconnect(b) \/ Activate(b)
         \/ UNCHANGED <<active, member, page>>
    BY Zenon DEF Next, Serve, Complete, Submit, Queue, Abandon, LockAccount, Select, LockDialog,
           SharedAvailable, Refuse, Draft, Fetch, UpsertDialog, UpsertMember, tables, vars
  <1> QED  BY <1>2, <1>3, <1>4, <1>5, <1>6, <1>7, <1>8, <1>9, <1>10

\* A request whose own state, locks and page are untouched stays true.
LEMMA RequestUntouched ==
    ASSUME ConsoleInv, Next, NEW c \in Client,
           request'[c] = request[c], holds'[c] = holds[c], SamePage(c)
    PROVE  RequestTrue(c)'
  <1> DEFINE r == request[c]
             a == r.account
  <1>1. RequestTrue(c) /\ r \in RequestRecord
    BY DEF ConsoleInv, Types
  <1>2. r.at # "idle" =>
            a \in Account /\ page'[c].loading = "no" /\ r.to # {} /\ \A d \in r.to : <<a, d>> \in page'[c].offers
    BY <1>1 DEF RequestTrue, SamePage
  <1>3. r.at \in Locking => AccountRow(a) \in holds'[c] /\ a \in active' /\ Owner[a] = page'[c].op
    <2>1. r.at \in Locking => a \in Account
      BY <1>1 DEF RequestTrue, Locking
    <2> QED  BY <1>1, <2>1, LockedStays DEF RequestTrue, SamePage
  <1>4. ASSUME NEW d \in r.valid 
        PROVE  MemberRow(a, d) \in holds'[c] /\ member'[a][d].canSend /\ (d \notin Chat => member'[a][d].hash)
    <2>1. MemberRow(a, d) \in holds[c] /\ Sendable(a, d) /\ d \in Dialog
      BY <1>1, <1>4 DEF RequestTrue, RequestRecord
    <2>2. r.at # "idle"
      <3>1. c \in Proc /\ holds[c] # {}
        BY <2>1 DEF Proc
      <3> QED  BY <3>1 DEF ConsoleInv, LocksExclude, Busy
    <2>3. a \in Account
      BY <1>1, <2>2 DEF RequestTrue
    <2>4. member'[a][d] = member[a][d]
      BY <2>1, <2>3, LockedStays
    <2> HIDE DEF a
    <2> QED  BY <2>1, <2>4 DEF Sendable
  <1>5. r.at \in {"private", "lockPrivate"} => r.to \cap Shared \subseteq r.valid
    BY <1>1 DEF RequestTrue
  <1>6. r.at \in {"lockShared", "lockPrivate"} /\ ~page'[c].stale => r.to \cap Kind(c)' \subseteq r.awaits \cup r.valid
    <2>1. Kind(c)' = Kind(c)
      BY DEF Kind
    <2> QED  BY <1>1, <2>1 DEF RequestTrue, SamePage
  <1>7. request'[c] = r /\ request'[c].account = a
    OBVIOUS
  <1> HIDE DEF r, a
  <1> QED  BY <1>2, <1>3, <1>4, <1>5, <1>6, <1>7 DEF RequestTrue, Sendable

\* An idle browser asks for nothing.
LEMMA NoRequestTrue ==
    ASSUME NEW c \in Client, request'[c] = NoRequest
    PROVE  RequestTrue(c)'
  <1>1. request'[c].at = "idle" /\ request'[c].valid = {}
    BY DEF NoRequest
  <1> QED  BY <1>1 DEF RequestTrue, Locking

\* The steps of the request itself.
LEMMA OwnSteps ==
    ASSUME ConsoleInv, Next, NEW c \in Client,
           Submit(c) \/ LockAccount(c) \/ Select(c) \/ LockDialog(c) \/ SharedAvailable(c)
    PROVE  RequestTrue(c)'
  <1> USE ConsoleAssumption
  <1> DEFINE r == request[c]
             a == r.account
             q == request'[c]
  <1>1. RequestTrue(c) /\ r \in RequestRecord /\ PageTrue(c) /\ page[c] \in PageRecord
    BY DEF ConsoleInv, Types
  <1>2. UNCHANGED <<active, member, page>> /\ DOMAIN request = Client /\ DOMAIN holds = Proc /\ c \in Proc
    BY DEF Submit, LockAccount, Select, LockDialog, SharedAvailable, tables, ConsoleInv, Types, Proc
  <1>3. CASE Submit(c)
    <2>1. PICK b \in page[c].accounts :
              \E to \in SUBSET {d \in Dialog : <<b, d>> \in page[c].offers} :
                 /\ ValidInput(to)
                 /\ request' = [request EXCEPT ![c] = [NoRequest EXCEPT
                                   !.at = "account", !.account = b, !.to = to]]
      BY <1>3 DEF Submit
    <2>2. PICK to \in SUBSET {d \in Dialog : <<b, d>> \in page[c].offers} :
                 /\ ValidInput(to)
                 /\ request' = [request EXCEPT ![c] = [NoRequest EXCEPT
                                   !.at = "account", !.account = b, !.to = to]]
      BY <2>1
    <2>3. q.at = "account" /\ q.account = b /\ q.to = to /\ q.valid = {}
      BY <1>2, <2>2 DEF NoRequest
    <2>4. b \in Account /\ page[c].loading = "no" /\ to # {} /\ \A d \in to : <<b, d>> \in page[c].offers
      BY <1>1, <1>3, <2>2 DEF PageRecord, Submit, ValidInput
    <2> QED  BY <1>2, <2>3, <2>4 DEF RequestTrue, Locking
  <1>4. CASE LockAccount(c)
    <2>1. request' = [request EXCEPT ![c] = [r EXCEPT !.at = "shared"]]
      BY <1>4 DEF LockAccount
    <2>2. q = [r EXCEPT !.at = "shared"]
      BY <1>2, <2>1
    <2>3. q.at = "shared" /\ q.account = a /\ q.to = r.to /\ q.valid = r.valid
      BY <1>1, <2>2 DEF RequestRecord
    <2>4. a \in active /\ Owner[a] = page[c].op /\ r.at = "account"
      BY <1>4 DEF LockAccount
    <2>5. \A row : row \in holds'[c] <=> row \in holds[c] \/ row = AccountRow(a)
      BY <1>2, <1>4 DEF LockAccount, Take
    <2> HIDE DEF q
    <2> QED  BY <1>1, <1>2, <2>3, <2>4, <2>5 DEF RequestTrue, Locking, Sendable, q
  <1>5. CASE Select(c)
    <2> DEFINE new == {d \in Kind(c) : Sendable(request[c].account, d)}
               at == IF r.at = "shared" THEN "lockShared" ELSE "lockPrivate"
    <2>1. request' = [request EXCEPT ![c] = [r EXCEPT !.at = at, !.awaits = new]]
      BY <1>5 DEF Select
    <2>2. q = [r EXCEPT !.at = at, !.awaits = new]
      BY <1>2, <2>1
    <2> HIDE DEF new
    <2>3. q.at = at /\ q.account = a /\ q.to = r.to /\ q.valid = r.valid /\ q.awaits = new
      BY <1>1, <2>2 DEF RequestRecord
    <2>4. /\ r.at \in {"shared", "private"}
          /\ r.at = "private" <=> at = "lockPrivate"
          /\ at \in {"lockShared", "lockPrivate"}
          /\ UNCHANGED holds
      BY <1>5 DEF Select
    <2>5. Kind(c)' = Kind(c)
      BY <2>3, <2>4 DEF Kind
    <2>6. ~page[c].stale => r.to \cap Kind(c) \subseteq new
      <3> SUFFICES ASSUME ~page[c].stale, NEW d \in r.to \cap Kind(c) PROVE d \in new
        OBVIOUS
      <3>1. <<a, d>> \in page[c].offers /\ a \in Account /\ d \in Dialog
        BY <1>1, <2>4 DEF RequestTrue, RequestRecord
      <3>2. Sendable(a, d)
        BY <1>1, <3>1 DEF PageTrue
      <3> QED  BY <3>2 DEF new
    <2> HIDE DEF at
    <2>7. /\ q.at # "idle" =>
                /\ a \in Account
                /\ page[c].loading = "no"
                /\ r.to # {}
                /\ \A d \in r.to : <<a, d>> \in page[c].offers
          /\ AccountRow(a) \in holds[c] /\ a \in active /\ Owner[a] = page[c].op
          /\ \A d \in r.valid : MemberRow(a, d) \in holds[c] /\ Sendable(a, d)
          /\ at \in {"private", "lockPrivate"} => r.to \cap Shared \subseteq r.valid
      BY <1>1, <2>4 DEF RequestTrue, Locking
    <2> HIDE DEF a, r, q
    <2> QED  BY <1>2, <2>3, <2>4, <2>5, <2>6, <2>7 DEF RequestTrue, Sendable, q
  <1>6. CASE LockDialog(c)
    <2>1. PICK d \in r.awaits :
              /\ Take(c, MemberRow(a, d))
              /\ request' = [request EXCEPT ![c].awaits = @ \ {d},
                    ![c].valid = IF Sendable(a, d) THEN @ \cup {d} ELSE @]
      BY <1>6 DEF LockDialog
    <2> DEFINE valid == IF Sendable(a, d) THEN r.valid \cup {d} ELSE r.valid
    <2>2. request' = [request EXCEPT ![c] = [r EXCEPT !.awaits = @ \ {d}, !.valid = valid]]
      BY <2>1
    <2>3. q = [r EXCEPT !.awaits = @ \ {d}, !.valid = valid]
      BY <1>2, <2>2
    <2>4. \A e : e \in valid <=> e \in r.valid \/ (e = d /\ Sendable(a, d))
      OBVIOUS
    <2> HIDE DEF valid
    <2>5. q.at = r.at /\ q.account = a /\ q.to = r.to /\ q.valid = valid /\ q.awaits = r.awaits \ {d}
      BY <1>1, <2>3 DEF RequestRecord
    <2>6. r.at \in {"lockShared", "lockPrivate"}
      BY <1>6 DEF LockDialog
    <2>7. Kind(c)' = Kind(c)
      BY <2>5 DEF Kind
    <2>8. \A row : row \in holds'[c] <=> row \in holds[c] \/ row = MemberRow(a, d)
      BY <1>2, <2>1 DEF Take
    <2>9. ASSUME ~page[c].stale PROVE r.to \cap Kind(c) \subseteq (r.awaits \ {d}) \cup valid
      <3> SUFFICES ASSUME NEW e \in r.to \cap Kind(c) PROVE e \in (r.awaits \ {d}) \cup valid
        OBVIOUS
      <3>1. e \in r.awaits \cup r.valid
        BY <1>1, <2>6, <2>9 DEF RequestTrue
      <3>2. <<a, e>> \in page[c].offers /\ a \in Account /\ e \in Dialog
        BY <1>1, <2>6 DEF RequestTrue, RequestRecord
      <3>3. Sendable(a, e)
        BY <1>1, <2>9, <3>2 DEF PageTrue
      <3> QED  BY <2>4, <3>1, <3>3
    <2>10. /\ a \in Account
           /\ page[c].loading = "no"
           /\ r.to # {}
           /\ \A e \in r.to : <<a, e>> \in page[c].offers
           /\ AccountRow(a) \in holds[c] /\ a \in active /\ Owner[a] = page[c].op
           /\ \A e \in r.valid : MemberRow(a, e) \in holds[c] /\ Sendable(a, e)
           /\ r.at = "lockPrivate" => r.to \cap Shared \subseteq r.valid
      BY <1>1, <2>6 DEF RequestTrue, Locking
    <2>11. \A e \in valid : MemberRow(a, e) \in holds'[c] /\ Sendable(a, e)
      BY <2>4, <2>8, <2>10
    <2>12. AccountRow(a) \in holds'[c]
      BY <2>8, <2>10
    <2>13. r.at = "lockPrivate" => r.to \cap Shared \subseteq valid
      BY <2>4, <2>10
    <2> HIDE DEF a, r, q
    <2> QED  BY <1>2, <2>5, <2>6, <2>7, <2>9, <2>10, <2>11, <2>12, <2>13 DEF RequestTrue, Sendable, q
  <1>7. CASE SharedAvailable(c)
    <2>1. request' = [request EXCEPT ![c] = [r EXCEPT !.at = "private"]]
      BY <1>7 DEF SharedAvailable
    <2>2. q = [r EXCEPT !.at = "private"]
      BY <1>2, <2>1
    <2>3. q.at = "private" /\ q.account = a /\ q.to = r.to /\ q.valid = r.valid
      BY <1>1, <2>2 DEF RequestRecord
    <2>4. r.at = "lockShared" /\ Kind(c) = Shared /\ Available(c) /\ UNCHANGED holds
      BY <1>7 DEF SharedAvailable, Kind
    <2>5. r.to \cap Shared \subseteq r.valid
      BY <2>4 DEF Available
    <2> HIDE DEF q
    <2> QED  BY <1>1, <1>2, <2>3, <2>4, <2>5 DEF RequestTrue, Locking, Sendable, q
  <1> QED  BY <1>3, <1>4, <1>5, <1>6, <1>7

\* No step makes a request untrue.
LEMMA RequestsKept ==
    ASSUME ConsoleInv, [Next]_vars, NEW c \in Client
    PROVE  RequestTrue(c)'
  <1> USE ConsoleAssumption
  <1>0. c \in Proc /\ RequestTrue(c) /\ DOMAIN request = Client /\ DOMAIN page = Client
    BY DEF Proc, ConsoleInv, Types
  <1>1. CASE UNCHANGED vars
    BY <1>0, <1>1 DEF vars, tables, RequestTrue, Sendable, Kind
  <1>2. ASSUME Next, NEW p \in Proc, Acts(p), p # c PROVE RequestTrue(c)'
    BY <1>0, <1>2, OthersUntouched, RequestUntouched
  <1>3. ASSUME Next, Acts(c) PROVE RequestTrue(c)'
    <2>1. \/ Submit(c) \/ LockAccount(c) \/ Select(c) \/ LockDialog(c) \/ SharedAvailable(c)
          \/ Refuse(c) \/ Draft(c) \/ Abandon(c) \/ Queue(c)
          \/ ListShared(c) \/ ListPrivate(c) \/ \E o \in Operator : ListAccounts(c, o)
      BY <1>3 DEF Acts, Serve
    <2>2. CASE Refuse(c) \/ Draft(c) \/ Abandon(c)
      <3>1. request' = [request EXCEPT ![c] = NoRequest]
        BY <2>2 DEF Refuse, Draft, Abandon, Leave
      <3>2. request'[c] = NoRequest
        BY <1>0, <3>1
      <3> QED  BY <3>2, NoRequestTrue
    <2>3. CASE Queue(c)
      <3>1. UNCHANGED <<request, holds, page>>
        BY <2>3 DEF Queue
      <3> QED  BY <1>3, <3>1, RequestUntouched DEF SamePage
    <2>4. CASE ListShared(c) \/ ListPrivate(c) \/ \E o \in Operator : ListAccounts(c, o)
      <3>1. UNCHANGED request /\ (page[c].loading # "no" \/ request[c].at = "idle")
        BY <2>4 DEF ListShared, ListPrivate, ListAccounts
      <3>2. request[c].at = "idle"
        BY <1>0, <3>1 DEF RequestTrue
      <3>3. request[c].valid = {}
        <4>1. holds[c] = {}
          BY <1>0, <3>2 DEF ConsoleInv, LocksExclude, Busy
        <4> QED  BY <1>0, <4>1 DEF RequestTrue
      <3> QED  BY <3>1, <3>2, <3>3 DEF RequestTrue, Locking
    <2> QED  BY <1>3, <2>1, <2>2, <2>3, <2>4, OwnSteps
  <1>4. ASSUME Next, NEW a \in Account, Changes(a) PROVE RequestTrue(c)'
    <2>1. UNCHANGED <<request, holds>>
      BY <1>4 DEF Changes, Disconnect, Activate
    <2>2. SamePage(c)
      <3>1. CASE Disconnect(a)
        BY <3>1, StalesKeeps DEF Disconnect
      <3>2. CASE Activate(a)
        BY <3>2 DEF Activate, SamePage
      <3> QED  BY <1>4, <3>1, <3>2 DEF Changes
    <2> QED  BY <1>4, <2>1, <2>2, RequestUntouched
  <1> QED  BY <1>1, <1>2, <1>3, <1>4, SomeoneActs

\* No step makes a completion lose the rows it has found.
LEMMA TasksKept ==
    ASSUME ConsoleInv, [Next]_vars, NEW s \in Sync
    PROVE  TaskTrue(s)'
  <1> USE ConsoleAssumption
  <1>0. /\ s \in Proc /\ s \notin Client
        /\ TaskTrue(s) /\ task[s] \in TaskRecord
        /\ DOMAIN task = Sync /\ DOMAIN holds = Proc
    BY DEF Proc, ConsoleInv, Types
  <1>1. CASE task'[s] = task[s] /\ holds'[s] = holds[s]
    BY <1>0, <1>1 DEF TaskTrue
  <1>2. ASSUME NEW p \in Proc, Acts(p), p # s PROVE TaskTrue(s)'
    BY <1>0, <1>1, <1>2, OthersUntouched
  <1>3. ASSUME Acts(s) PROVE TaskTrue(s)'
    <2>1. \/ \E a \in Account : Fetch(s, a)
          \/ UpsertDialog(s) \/ UpsertMember(s) \/ CompleteCommits(s) \/ Abandon(s)
      BY <1>0, <1>3 DEF Acts, Complete
    <2>2. CASE \E a \in Account : Fetch(s, a)
      <3>1. PICK a \in Account : Fetch(s, a)
        BY <2>2
      <3>2. PICK answer \in Answers :
                task' = [task EXCEPT ![s] = [NoTask EXCEPT !.account = a, !.todo = answer]]
        BY <3>1 DEF Fetch
      <3>3. task'[s].account = a /\ task'[s].found = {}
        BY <1>0, <3>2 DEF NoTask
      <3> QED  BY <3>3 DEF TaskTrue
    <2>3. CASE UpsertDialog(s)
      <3>1. task' = [task EXCEPT ![s] = [task[s] EXCEPT !.at = "member"]]
        BY <2>3 DEF UpsertDialog
      <3>2. task'[s] = [task[s] EXCEPT !.at = "member"]
        BY <1>0, <3>1
      <3>3. /\ task'[s].account = task[s].account
            /\ task'[s].todo = task[s].todo
            /\ task'[s].found = task[s].found
        BY <1>0, <3>2 DEF TaskRecord
      <3>4. holds[s] \subseteq holds'[s]
        BY <1>0, <2>3 DEF UpsertDialog, Take
      <3> QED  BY <1>0, <3>3, <3>4 DEF TaskTrue
    <2>4. CASE UpsertMember(s)
      <3> DEFINE f == Head(task[s].todo)
                 a == task[s].account
                 t == [task[s] EXCEPT !.todo = Tail(@), !.at = "dialog", !.found = @ \cup {f}]
      <3>1. task' = [task EXCEPT ![s] = t]
        BY <2>4 DEF UpsertMember
      <3>2. task'[s] = t
        BY <1>0, <3>1
      <3>3. task'[s].account = a /\ task'[s].found = task[s].found \cup {f}
        BY <1>0, <3>2 DEF TaskRecord
      <3>4. a # None
        BY <1>0, <2>4 DEF UpsertMember, TaskTrue
      <3>5. holds[s] \subseteq holds'[s] /\ MemberRow(a, f.dialog) \in holds'[s]
        BY <1>0, <2>4 DEF UpsertMember, Take
      <3> HIDE DEF f, a, t
      <3>6. \A g \in task[s].found : MemberRow(a, g.dialog) \in holds[s]
        BY <1>0 DEF TaskTrue, a
      <3> QED  BY <3>3, <3>4, <3>5, <3>6 DEF TaskTrue
    <2>5. CASE CompleteCommits(s) \/ Abandon(s)
      <3>1. task' = [task EXCEPT ![s] = NoTask]
        BY <1>0, <2>5 DEF CompleteCommits, Abandon
      <3>2. task'[s].todo = <<>> /\ task'[s].found = {}
        BY <1>0, <3>1 DEF NoTask
      <3> QED  BY <3>2 DEF TaskTrue
    <2> QED  BY <2>1, <2>2, <2>3, <2>4, <2>5
  <1>4. ASSUME NEW a \in Account, Changes(a) PROVE TaskTrue(s)'
    BY <1>1, <1>4 DEF Changes, Disconnect, Activate
  <1>5. CASE UNCHANGED vars
    BY <1>1, <1>5 DEF vars
  <1> QED  BY <1>2, <1>3, <1>4, <1>5, SomeoneActs

\* What a draft is made from when it commits.
LEMMA DraftFacts ==
    ASSUME ConsoleInv, NEW c \in Client, Draft(c)
    PROVE  LET r == request[c] IN
           /\ mailing' = Append(mailing, [op |-> page[c].op, account |-> r.account,
                                          to |-> r.to, status |-> "draft"])
           /\ UNCHANGED <<active, member>>
           /\ r.account \in active
           /\ Owner[r.account] = page[c].op
           /\ r.to \subseteq Dialog
           /\ \A d \in r.to : Sendable(r.account, d) /\ Resolves(r.account, d)
  <1> DEFINE r == request[c]
  <1>1. RequestTrue(c) /\ r \in RequestRecord /\ active \subseteq Account
    BY DEF ConsoleInv, Types
  <1>2. r.at = "lockPrivate" /\ Available(c) /\ Kind(c) = Private
    BY DEF Draft, Kind
  <1>3. r.to \subseteq Dialog /\ r.account \in active /\ Owner[r.account] = page[c].op
    BY <1>1, <1>2 DEF RequestRecord, RequestTrue, Locking
  <1>4. ASSUME NEW d \in r.to PROVE Sendable(r.account, d) /\ Resolves(r.account, d)
    <2>1. d \in Shared \/ d \in Private
      BY <1>3 DEF Dialog
    <2>2. d \in r.valid
      BY <1>1, <1>2, <2>1 DEF RequestTrue, Available
    <2>3. Sendable(r.account, d)
      BY <1>1, <2>2 DEF RequestTrue
    <2>4. member[r.account][d].exists
      BY <1>1, <1>3, <2>3 DEF ConsoleInv, MembersExist, Sendable
    <2> QED  BY <2>3, <2>4 DEF Sendable, Resolves, Found
  <1> QED  BY <1>3, <1>4 DEF Draft

\* No step makes a recipient unreachable.
LEMMA RecipientsKept ==
    ASSUME ConsoleInv, [Next]_vars
    PROVE  RecipientsResolve'
  <1>1. mailing \in Seq(MailingRecord) /\ RecipientsResolve
    BY DEF ConsoleInv, Types
  <1>2. \A a \in Account, d \in Dialog :
            Resolves(a, d) => member'[a][d].exists /\ (d \notin Chat => member'[a][d].hash)
    BY MembersKept DEF Resolves, Found
  <1>3. ASSUME NEW i \in 1 .. Len(mailing)
        PROVE  /\ mailing[i].account \in Account /\ mailing[i].to \subseteq Dialog
               /\ \A d \in mailing[i].to : Resolves(mailing[i].account, d)
               /\ mailing[i].to # {} => Owner[mailing[i].account] = mailing[i].op
    <2>1. mailing[i] \in MailingRecord
      BY <1>1, ElementOfSeq
    <2> QED  BY <1>1, <2>1 DEF MailingRecord, RecipientsResolve
  <1>4. CASE UNCHANGED mailing
    <2> SUFFICES ASSUME NEW i \in 1 .. Len(mailing), NEW d \in mailing[i].to
                 PROVE  Resolves(mailing[i].account, d)' /\ Owner[mailing[i].account] = mailing[i].op
      BY <1>4 DEF RecipientsResolve
    <2> DEFINE a == mailing[i].account
    <2>1. a \in Account /\ d \in Dialog /\ Resolves(a, d) /\ Owner[a] = mailing[i].op
      BY <1>3
    <2>2. mailing'[i].account = a
      BY <1>4
    <2> HIDE DEF a
    <2>3. member'[a][d].exists /\ (d \notin Chat => member'[a][d].hash)
      BY <1>2, <2>1
    <2> QED  BY <2>1, <2>2, <2>3 DEF a, Resolves, Found
  <1>5. ASSUME NEW c \in Client, Draft(c) PROVE RecipientsResolve'
    <2> DEFINE r == request[c]
               a == r.account
               new == [op |-> page[c].op, account |-> a, to |-> r.to, status |-> "draft"]
    <2>1. /\ mailing' = Append(mailing, new)
          /\ UNCHANGED member
          /\ Owner[a] = page[c].op
          /\ \A d \in r.to : Resolves(a, d)
      BY <1>5, DraftFacts
    <2>2. mailing' \in Seq(MailingRecord)
      BY <1>5, MailingSteps DEF Types
    <2>3. new.op = page[c].op /\ new.account = a /\ new.to = r.to
      OBVIOUS
    <2> HIDE DEF new
    <2>4. /\ Len(mailing') = Len(mailing) + 1
          /\ \A i \in 1 .. Len(mailing) : mailing'[i] = mailing[i]
          /\ mailing'[Len(mailing) + 1] = new
          /\ Len(mailing) \in Nat
      BY <1>1, <2>1, LenProperties
    <2>5. ASSUME NEW i \in 1 .. Len(mailing'), NEW d \in mailing'[i].to
          PROVE  /\ Resolves(mailing'[i].account, d)
                 /\ Owner[mailing'[i].account] = mailing'[i].op
      <3>1. CASE i \in 1 .. Len(mailing)
        BY <1>3, <2>4, <2>5, <3>1
      <3>2. CASE i = Len(mailing) + 1
        BY <2>1, <2>3, <2>4, <2>5, <3>2
      <3>3. i \in 1 .. Len(mailing) \/ i = Len(mailing) + 1
        BY <2>4
      <3> QED  BY <3>1, <3>2, <3>3
    <2> HIDE DEF a, r
    <2> QED  BY <2>1, <2>5 DEF RecipientsResolve, Resolves, Found
  <1>6. ASSUME NEW c \in Client, Queue(c) PROVE RecipientsResolve'
    <2>1. PICK k \in Own(c) : mailing' = [mailing EXCEPT ![k].status = "queued"]
      BY <1>6 DEF Queue
    <2>2. k \in 1 .. Len(mailing) /\ mailing[k] \in MailingRecord
      BY <1>1, <2>1, ElementOfSeq DEF Own
    <2> DEFINE new == [mailing[k] EXCEPT !.status = "queued"]
    <2>3. new \in MailingRecord /\ new.op = mailing[k].op /\ new.account = mailing[k].account
          /\ new.to = mailing[k].to
      BY <2>2 DEF MailingRecord
    <2>4. mailing' = [mailing EXCEPT ![k] = new]
      BY <2>1
    <2> HIDE DEF new
    <2>5. /\ Len(mailing') = Len(mailing)
          /\ \A i \in 1 .. Len(mailing) : mailing'[i] = IF i = k THEN new ELSE mailing[i]
      BY <1>1, <2>2, <2>3, <2>4, ExceptSeq
    <2>6. UNCHANGED member
      BY <1>6 DEF Queue
    <2>7. ASSUME NEW i \in 1 .. Len(mailing'), NEW d \in mailing'[i].to
          PROVE  /\ Resolves(mailing'[i].account, d)
                 /\ Owner[mailing'[i].account] = mailing'[i].op
      <3>1. i \in 1 .. Len(mailing)
        BY <2>5
      <3>2. /\ mailing'[i].to = mailing[i].to
            /\ mailing'[i].op = mailing[i].op
            /\ mailing'[i].account = mailing[i].account
        BY <2>3, <2>5, <3>1
      <3> QED  BY <1>3, <2>7, <3>1, <3>2
    <2> QED  BY <2>6, <2>7 DEF RecipientsResolve, Resolves, Found
  <1>7. \/ UNCHANGED mailing
        \/ \E c \in Client : Draft(c) \/ Queue(c)
    BY Zenon DEF Next, Serve, Complete, Submit, Abandon, ListAccounts, ListShared, ListPrivate,
           LockAccount, Select, LockDialog, SharedAvailable, Refuse, Fetch, UpsertDialog,
           UpsertMember, CompleteCommits, Disconnect, Activate, tables, vars
  <1> QED  BY <1>4, <1>5, <1>6, <1>7

\* Every step keeps the invariant.
LEMMA ConsoleInvKept ==
    ConsoleInv /\ [Next]_vars => ConsoleInv'
  <1> SUFFICES ASSUME ConsoleInv, [Next]_vars PROVE ConsoleInv'
    OBVIOUS
  <1>1. Types' /\ LocksExclude' /\ MembersExist' /\ RecipientsResolve'
    BY TypesKept, LocksKept, MembersKept, RecipientsKept
  <1>2. \A c \in Client : PageTrue(c)' /\ RequestTrue(c)'
    BY PagesKept, RequestsKept
  <1>3. \A s \in Sync : TaskTrue(s)'
    BY TasksKept
  <1> QED  BY <1>1, <1>2, <1>3 DEF ConsoleInv

-----------------------------------------------------------------------------
(* Theorems.                                                               *)

\* The argument about locks, with any number of operators, accounts, dialogs,
\* browsers, executions and mailings.
THEOREM ConsoleInvCorrect == Spec => []ConsoleInv
  <1>1. Init => ConsoleInv
    BY InitOK
  <1>2. ConsoleInv /\ [Next]_vars => ConsoleInv'
    BY ConsoleInvKept
  <1> QED  BY <1>1, <1>2, PTL DEF Spec

\* The types, and locks that are exclusive and end with their transaction.
THEOREM ConsoleTypes == Spec => []TypeOK
  <1>1. ConsoleInv => TypeOK
    <2> SUFFICES ASSUME ConsoleInv PROVE TypeOK
      OBVIOUS
    <2>1. ASSUME NEW i \in 1 .. Len(mailing)
          PROVE  mailing[i].status \in {"draft", "queued"} /\ mailing[i].to \subseteq Dialog
      <3>1. mailing[i] \in MailingRecord
        BY <2>1, ElementOfSeq DEF ConsoleInv, Types
      <3> QED  BY <3>1 DEF MailingRecord
    <2>2. member \in [Account -> [Dialog -> [exists : BOOLEAN, canSend : BOOLEAN, hash : BOOLEAN]]]
      BY DEF ConsoleInv, Types, MemberRecord
    <2> QED  BY <2>1, <2>2 DEF ConsoleInv, Types, LocksExclude, TypeOK
  <1> QED  BY <1>1, ConsoleInvCorrect, PTL

\* Every recipient of a mailing can be addressed, whatever completions write.
THEOREM RecipientsResolveCorrect == Spec => []RecipientsResolve
  <1>1. ConsoleInv => RecipientsResolve
    BY DEF ConsoleInv
  <1> QED  BY <1>1, ConsoleInvCorrect, PTL

\* A draft commits with an active account and recipients that may be sent to:
\* what the earlier statements of CreateDraft have found is locked since.
THEOREM DraftsAreSendableCorrect == Spec => DraftsAreSendable
  <1> DEFINE Sent ==
          \A i \in 1 .. Len(mailing') : i > Len(mailing) =>
             /\ mailing'[i].account \in active
             /\ \A d \in mailing'[i].to : Sendable(mailing'[i].account, d)
  <1>1. ConsoleInv /\ [Next]_vars => [Sent]_vars
    <2> SUFFICES ASSUME ConsoleInv, Next, ~UNCHANGED mailing PROVE Sent
      <3>1. ASSUME ConsoleInv, UNCHANGED mailing PROVE Sent
        <4>1. Len(mailing) \in Nat
          BY <3>1, LenProperties DEF ConsoleInv, Types
        <4> QED  BY <3>1, <4>1
      <3> QED  BY <3>1
    <2>1. PICK c \in Client : Draft(c) \/ Queue(c)
      BY Zenon DEF Next, Serve, Complete, Submit, Abandon, ListAccounts, ListShared, ListPrivate,
             LockAccount, Select, LockDialog, SharedAvailable, Refuse, Fetch, UpsertDialog,
             UpsertMember, CompleteCommits, Disconnect, Activate, tables
    <2>2. mailing \in Seq(MailingRecord) /\ Len(mailing) \in Nat
      BY LenProperties DEF ConsoleInv, Types
    <2>3. CASE Draft(c)
      <3> DEFINE r == request[c]
                 new == [op |-> page[c].op, account |-> r.account, to |-> r.to, status |-> "draft"]
      <3>1. /\ mailing' = Append(mailing, new)
            /\ r.account \in active
            /\ \A d \in r.to : Sendable(r.account, d)
        BY <2>3, DraftFacts
      <3>2. new.account = r.account /\ new.to = r.to
        OBVIOUS
      <3> HIDE DEF new
      <3>3. Len(mailing') = Len(mailing) + 1 /\ mailing'[Len(mailing) + 1] = new
        BY <2>2, <3>1
      <3>4. \A i \in 1 .. Len(mailing') : i > Len(mailing) => mailing'[i] = new
        BY <2>2, <3>3
      <3> QED  BY <3>1, <3>2, <3>4
    <2>4. CASE Queue(c)
      <3>1. PICK k \in Own(c) : mailing' = [mailing EXCEPT ![k].status = "queued"]
        BY <2>4 DEF Queue
      <3>2. k \in 1 .. Len(mailing) /\ mailing[k] \in MailingRecord
        BY <2>2, <3>1, ElementOfSeq DEF Own
      <3> DEFINE new == [mailing[k] EXCEPT !.status = "queued"]
      <3>3. new \in MailingRecord /\ mailing' = [mailing EXCEPT ![k] = new]
        BY <3>1, <3>2 DEF MailingRecord
      <3> HIDE DEF new
      <3>4. Len(mailing') = Len(mailing)
        BY <2>2, <3>2, <3>3, ExceptSeq
      <3> QED  BY <2>2, <3>4
    <2> QED  BY <2>1, <2>3, <2>4
  <1> QED  BY <1>1, ConsoleInvCorrect, PTL DEF Spec, DraftsAreSendable

\* A page that is not stale offers only what can be used, so that what it offered
\* is not refused.
THEOREM RefusedOnlyIfChangedCorrect == Spec => RefusedOnlyIfChanged
  <1>1. ConsoleInv => \A c \in Client : Refuse(c) => page[c].stale
    <2> SUFFICES ASSUME ConsoleInv, NEW c \in Client, Refused(c), ~page[c].stale PROVE FALSE
      BY DEF Refuse
    <2> DEFINE r == request[c]
               a == r.account
    <2>1. RequestTrue(c) /\ PageTrue(c) /\ r \in RequestRecord
      BY DEF ConsoleInv, Types
    <2>2. CASE r.at = "account"
      <3>1. a \in Account /\ r.to # {} /\ \A d \in r.to : <<a, d>> \in page[c].offers
        BY <2>1, <2>2 DEF RequestTrue
      <3>2. PICK d \in r.to : <<a, d>> \in page[c].offers /\ d \in Dialog
        BY <2>1, <3>1 DEF RequestRecord
      <3>3. a \in active /\ Owner[a] = page[c].op
        BY <2>1, <3>1, <3>2 DEF PageTrue
      <3> QED  BY <2>2, <3>3 DEF Refused, Locked
    <2>3. CASE Locked(c) /\ ~Available(c)
      <3>1. r.to \cap Kind(c) \subseteq r.valid
        BY <2>1, <2>3 DEF RequestTrue, Locked
      <3> QED  BY <2>3, <3>1 DEF Available
    <2> QED  BY <2>2, <2>3 DEF Refused
  <1>2. ConsoleInv /\ [Next]_vars => [\A c \in Client : Refuse(c) => page[c].stale]_vars
    BY <1>1
  <1> QED  BY <1>2, ConsoleInvCorrect, PTL DEF Spec, RefusedOnlyIfChanged
=============================================================================
