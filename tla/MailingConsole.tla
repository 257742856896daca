--------------------------- MODULE MailingConsole ---------------------------
(***************************************************************************)
(* The mailing console beside the dialog synchronization: an operator's    *)
(* page is put together from several queries, a draft is created from what *)
(* the page listed, and meanwhile completed synchronizations write the     *)
(* same memberships and the account is disconnected.                       *)
(*                                                                         *)
(* One SQL statement is one action.  A statement that has to wait for a    *)
(* row looks at the row again when it gets it (READ COMMITTED), but sees   *)
(* no row its snapshot did not have.  A transaction keeps its row locks to *)
(* its end and its writes become visible together when it commits, so they *)
(* are applied there.  PostgreSQL ends a transaction that waits in a       *)
(* circle.  Telegram is external: a fetch answers any of Answers.          *)
(***************************************************************************)
EXTENDS Naturals, Sequences, FiniteSets

CONSTANTS
    Operator,
    Account,
    Owner,        \* operator_accounts.operator_id, which never changes
    Shared,       \* supergroups and broadcast channels: telegram_shared_dialogs
    Private,      \* users and basic groups: operator_accounts_private_dialogs
    Chat,         \* the basic groups, which are addressed without an access hash
    Answers,      \* what FetchDialogs may return, shared dialogs first
    Client,       \* browsers at the console, one request each at a time
    Sync,         \* dialog sync executions
    None,
    MaxMailings   \* bound: mailings ever created

Dialog == Shared \cup Private
Proc == Client \cup Sync

\* A dialog as fetched: its peer, whether a hash came with it (a zero hash is
\* NULL) and what canSendSharedChannel says of it.
Fetched == [dialog : Dialog, canSend : BOOLEAN, hash : BOOLEAN]

ASSUME ConsoleAssumption ==
    /\ Owner \in [Account -> Operator]
    /\ Shared \cap Private = {} /\ Chat \subseteq Private
    /\ Client \cap Sync = {} /\ None \notin Operator \cup Account \cup Proc
    /\ Answers \subseteq Seq(Fetched)
    /\ MaxMailings \in Nat

VARIABLES
    active,    \* the accounts whose operator_accounts.status is 'active'
    member,    \* the membership rows of accounts in shared and private dialogs
    mailing,   \* mailings with their route and recipients
    holds,     \* the row locks of the open transactions
    page,      \* what each browser was shown
    request,   \* the CreateDraft each browser waits for
    task       \* the completion each sync execution has under way

tables == <<active, member, mailing>>
vars == <<tables, holds, page, request, task>>

-----------------------------------------------------------------------------
(* Rows and locks.                                                         *)

NoMember == [exists |-> FALSE, canSend |-> FALSE, hash |-> FALSE]
NoPage == [op |-> None, accounts |-> {}, offers |-> {}, loading |-> "no", stale |-> FALSE]
NoRequest == [at |-> "idle", account |-> None, to |-> {}, awaits |-> {}, valid |-> {}]
NoTask == [account |-> None, todo |-> <<>>, at |-> "dialog", found |-> {}]

\* Rows that a transaction locks; "key" is the share of an account's key that
\* the foreign key of a new membership takes.
AccountRow(a) == <<"account", a>>
AccountKey(a) == <<"key", a>>
DialogRow(d) == <<"dialog", d>>
MemberRow(a, d) == <<"member", a, d>>

\* The others that hold one of the locks.
Holders(p, rows) == {q \in Proc \ {p} : rows \cap holds[q] # {}}

Free(p, rows) == Holders(p, rows) = {}

Take(p, row) == holds' = [holds EXCEPT ![p] = @ \cup {row}]
Unlock(p) == holds' = [holds EXCEPT ![p] = {}]

\* The condition of the console's queries and of CreateDraft's.
Sendable(a, d) ==
    member[a][d].canSend /\ (d \notin Chat => member[a][d].hash)

\* Lookup: a recipient is found through the membership row of the routed
\* account, whatever that row says of sending, ...
Found(a, d) == member[a][d].exists

\* ... and addressed with its hash, a basic group without.
Resolves(a, d) == Found(a, d) /\ (d \notin Chat => member[a][d].hash)

-----------------------------------------------------------------------------
(* The page: separate queries, each with a snapshot of its own.            *)

ListAccounts(c, o) ==
    /\ request[c].at = "idle" /\ page[c].loading = "no"
    /\ page' = [page EXCEPT ![c] = [NoPage EXCEPT !.op = o, !.loading = "shared",
                                    !.accounts = {a \in active : Owner[a] = o}]]
    /\ UNCHANGED <<tables, holds, request, task>>

\* The page lists every dialog whose membership may send, hash or not.
OffersHashless(o, dialogs) ==
    {x \in Account \X dialogs : Owner[x[1]] = o /\ x[1] \in active /\ member[x[1]][x[2]].canSend}

Offers(o, dialogs) ==
    {x \in Account \X dialogs : Owner[x[1]] = o /\ x[1] \in active /\ Sendable(x[1], x[2])}

ListShared(c) ==
    /\ page[c].loading = "shared"
    /\ page' = [page EXCEPT ![c].loading = "private", ![c].offers = Offers(page[c].op, Shared)]
    /\ UNCHANGED <<tables, holds, request, task>>

ListPrivate(c) ==
    /\ page[c].loading = "private"
    /\ page' = [page EXCEPT ![c].loading = "no",
                            ![c].offers = @ \cup Offers(page[c].op, Private)]
    /\ UNCHANGED <<tables, holds, request, task>>

\* Something that page listed stopped being usable (history).
Stales(q, lost) == [q EXCEPT !.stale = @ \/ lost \cap (q.offers \cup (q.accounts \X Dialog)) # {}]

-----------------------------------------------------------------------------
(* CreateDraft.                                                            *)

Leave(c) ==
    /\ Unlock(c)
    /\ request' = [request EXCEPT ![c] = NoRequest]

\* A name, a message and at least one recipient, none of them twice.
ValidInput(to) == to # {}

\* The form: an account of the page and some dialogs listed for it.
Submit(c) ==
    /\ request[c].at = "idle" /\ page[c].loading = "no"
    /\ Len(mailing) + Cardinality({x \in Client : request[x].at # "idle"}) < MaxMailings
    /\ \E a \in page[c].accounts :
       \E to \in SUBSET {d \in Dialog : <<a, d>> \in page[c].offers} :
          /\ ValidInput(to)
          /\ request' = [request EXCEPT ![c] = [NoRequest EXCEPT
                            !.at = "account", !.account = a, !.to = to]]
    /\ UNCHANGED <<tables, holds, page, task>>

LockAccount(c) ==
    LET a == request[c].account IN
    /\ request[c].at = "account"
    /\ a \in active /\ Owner[a] = page[c].op
    /\ Free(c, {AccountRow(a), AccountKey(a)})
    /\ Take(c, AccountRow(a))
    /\ request' = [request EXCEPT ![c].at = "shared"]
    /\ UNCHANGED <<tables, page, task>>

Kind(c) == IF request[c].at \in {"shared", "lockShared"} THEN Shared ELSE Private

\* The snapshot of the locking query, on the shared or the private dialogs.
Select(c) ==
    /\ request[c].at \in {"shared", "private"}
    /\ request' = [request EXCEPT
          ![c].at = IF @ = "shared" THEN "lockShared" ELSE "lockPrivate",
          ![c].awaits = {d \in Kind(c) : Sendable(request[c].account, d)}]
    /\ UNCHANGED <<tables, holds, page, task>>

\* The availability is read without FOR UPDATE.
TrustSnapshot(c) ==
    /\ request[c].at \in {"lockShared", "lockPrivate"}
    /\ \E d \in request[c].awaits :
          request' = [request EXCEPT ![c].awaits = @ \ {d}, ![c].valid = @ \cup {d}]
    /\ UNCHANGED <<tables, holds, page, task>>

\* One of its rows, in the order of the scan, looked at again once it is free.
LockDialog(c) ==
    LET a == request[c].account IN
    /\ request[c].at \in {"lockShared", "lockPrivate"}
    /\ \E d \in request[c].awaits :
          /\ Free(c, {MemberRow(a, d)})
          /\ Take(c, MemberRow(a, d))
          /\ request' = [request EXCEPT ![c].awaits = @ \ {d},
                ![c].valid = IF Sendable(a, d) THEN @ \cup {d} ELSE @]
    /\ UNCHANGED <<tables, page, task>>

\* Every row of the query is there; those of the form are among them or not.
Locked(c) == request[c].at \in {"lockShared", "lockPrivate"} /\ request[c].awaits = {}
Available(c) == request[c].to \cap Kind(c) \subseteq request[c].valid

SharedAvailable(c) ==
    /\ request[c].at = "lockShared" /\ Locked(c) /\ Available(c)
    /\ request' = [request EXCEPT ![c].at = "private"]
    /\ UNCHANGED <<tables, holds, page, task>>

Refused(c) ==
    LET a == request[c].account IN
    \/ /\ request[c].at = "account"
       /\ ~(a \in active /\ Owner[a] = page[c].op)
       /\ Free(c, {AccountRow(a), AccountKey(a)})
    \/ Locked(c) /\ ~Available(c)

\* ErrNotFound; the deferred Rollback ends the transaction.
Refuse(c) ==
    /\ Refused(c)
    /\ Leave(c)
    /\ UNCHANGED <<tables, page, task>>

\* The mailing, its schedule, its route and its recipients are inserted and
\* committed.  The browser may not learn of it and post the same form again.
Draft(c) ==
    /\ request[c].at = "lockPrivate" /\ Locked(c) /\ Available(c)
    /\ mailing' = Append(mailing, [op |-> page[c].op, account |-> request[c].account,
                                   to |-> request[c].to, status |-> "draft"])
    /\ Leave(c)
    /\ UNCHANGED <<active, member, page, task>>

\* The operator's view of the mailings: another's is ErrNotFound.
Own(c) == {i \in 1 .. Len(mailing) : mailing[i].op = page[c].op}

\* Queue of an operator's own mailing; the runs are modelled in DeliveryPipeline.
Queue(c) ==
    /\ request[c].at = "idle"
    /\ \E i \in Own(c) :
          /\ mailing[i].status = "draft"
          /\ mailing' = [mailing EXCEPT ![i].status = "queued"]
    /\ UNCHANGED <<active, member, holds, page, request, task>>

-----------------------------------------------------------------------------
(* Complete of a dialog synchronization.                                   *)

\* An execution is claimed for an active account; an older one, whose lease was
\* lost, may still be at work for the same account.
Fetch(s, a) ==
    /\ task[s].account = None
    /\ a \in active
    /\ \E answer \in Answers :
          task' = [task EXCEPT ![s] = [NoTask EXCEPT !.account = a, !.todo = answer]]
    /\ UNCHANGED <<tables, holds, page, request>>

\* INSERT INTO telegram_shared_dialogs ... ON CONFLICT DO UPDATE
UpsertDialog(s) ==
    LET d == Head(task[s].todo).dialog IN
    /\ task[s].todo # <<>> /\ task[s].at = "dialog" /\ d \in Shared
    /\ Free(s, {DialogRow(d)})
    /\ Take(s, DialogRow(d))
    /\ task' = [task EXCEPT ![s].at = "member"]
    /\ UNCHANGED <<tables, page, request>>

\* INSERT ... ON CONFLICT DO UPDATE on a membership; a new one takes a share of
\* the key of its account.
UpsertMember(s) ==
    LET a == task[s].account  f == Head(task[s].todo)  row == MemberRow(a, f.dialog) IN
    /\ task[s].todo # <<>> /\ (task[s].at = "member" \/ f.dialog \in Private)
    /\ Free(s, {row})
    /\ IF member[a][f.dialog].exists
       THEN Take(s, row)
       ELSE /\ Free(s, {AccountRow(a)})
            /\ holds' = [holds EXCEPT ![s] = @ \cup {row, AccountKey(a)}]
    /\ task' = [task EXCEPT ![s].todo = Tail(@), ![s].at = "dialog", ![s].found = @ \cup {f}]
    /\ UNCHANGED <<tables, page, request>>

\* A fetch without the hash forgets the one that was known.
MergedForgets(old, f) ==
    [exists |-> TRUE, canSend |-> f.dialog \in Shared /\ f.canSend, hash |-> f.hash]

\* A hash once known stays known; a private dialog never may send.
Merged(old, f) ==
    [exists |-> TRUE, canSend |-> f.dialog \in Shared /\ f.canSend, hash |-> f.hash \/ old.hash]

\* The commit; whether the task is still claimed does not matter for the dialogs.
CompleteCommits(s) ==
    LET a == task[s].account
        written == [d \in Dialog |->
            IF \E f \in task[s].found : f.dialog = d
            THEN Merged(member[a][d], CHOOSE f \in task[s].found : f.dialog = d)
            ELSE member[a][d]]
        lost == {<<a, d>> : d \in {e \in Dialog : Sendable(a, e)
                     /\ ~(written[e].canSend /\ (e \notin Chat => written[e].hash))}} IN
    /\ a # None /\ task[s].todo = <<>>
    /\ member' = [member EXCEPT ![a] = written]
    /\ page' = [c \in Client |-> Stales(page[c], lost)]
    /\ task' = [task EXCEPT ![s] = NoTask]
    /\ Unlock(s)
    /\ UNCHANGED <<active, mailing, request>>

-----------------------------------------------------------------------------
(* The account, failures and deadlocks.                                    *)

\* BeginDisconnect: an UPDATE of the row, which waits for FOR UPDATE only.
Disconnect(a) ==
    /\ a \in active
    /\ \A p \in Proc : AccountRow(a) \notin holds[p]
    /\ active' = active \ {a}
    /\ page' = [c \in Client |-> Stales(page[c], {a} \X Dialog)]
    /\ UNCHANGED <<member, mailing, holds, request, task>>

\* Activate locks the row FOR UPDATE first.
Activate(a) ==
    /\ a \notin active
    /\ \A p \in Proc : {AccountRow(a), AccountKey(a)} \cap holds[p] = {}
    /\ active' = active \cup {a}
    /\ UNCHANGED <<member, mailing, holds, page, request, task>>

Busy(p) == IF p \in Client THEN request[p].at # "idle" ELSE task[p].account # None

\* The deferred Rollback is missing.
AbandonKeepsLocks(p) ==
    /\ Busy(p)
    /\ IF p \in Client
       THEN request' = [request EXCEPT ![p] = NoRequest] /\ UNCHANGED task
       ELSE task' = [task EXCEPT ![p] = NoTask] /\ UNCHANGED request
    /\ UNCHANGED <<tables, holds, page>>

\* The transaction is rolled back: a statement failed, the request or the
\* execution was cancelled, or PostgreSQL chose it to end a deadlock.
Abandon(p) ==
    /\ Busy(p)
    /\ Unlock(p)
    /\ IF p \in Client
       THEN request' = [request EXCEPT ![p] = NoRequest] /\ UNCHANGED task
       ELSE task' = [task EXCEPT ![p] = NoTask] /\ UNCHANGED request
    /\ UNCHANGED <<tables, page>>

\* Whom the next statement of p waits for.
Wants(p) ==
    IF p \in Client
    THEN LET q == request[p] IN
         CASE q.at = "account" -> {AccountRow(q.account), AccountKey(q.account)}
           [] q.awaits # {} -> {MemberRow(q.account, d) : d \in q.awaits}
           [] OTHER -> {}
    ELSE LET a == task[p].account  d == Head(task[p].todo).dialog IN
         CASE task[p].todo = <<>> -> {}
           [] task[p].at = "dialog" /\ d \in Shared -> {DialogRow(d)}
           [] member[a][d].exists -> {MemberRow(a, d)}
           [] OTHER -> {MemberRow(a, d), AccountRow(a)}

\* p waits in a circle: with others of whom each waits for one and is waited for.
InCircle(p) ==
    \E S \in SUBSET Proc :
        /\ p \in S
        /\ \A q \in S :
              /\ Holders(q, Wants(q)) \cap S # {}
              /\ \E r \in S : q \in Holders(r, Wants(r))

-----------------------------------------------------------------------------
Init ==
    /\ active = Account
    /\ member = [a \in Account |-> [d \in Dialog |-> NoMember]]
    /\ mailing = <<>>
    /\ holds = [p \in Proc |-> {}]
    /\ page = [c \in Client |-> NoPage]
    /\ request = [c \in Client |-> NoRequest]
    /\ task = [s \in Sync |-> NoTask]

Serve(c) ==
    \/ ListShared(c) \/ ListPrivate(c)
    \/ LockAccount(c) \/ Select(c) \/ LockDialog(c) \/ SharedAvailable(c)
    \/ Refuse(c) \/ Draft(c)

Complete(s) == UpsertDialog(s) \/ UpsertMember(s) \/ CompleteCommits(s)

Next ==
    \/ \E c \in Client :
          \/ \E o \in Operator : ListAccounts(c, o)
          \/ Submit(c) \/ Serve(c) \/ Queue(c)
    \/ \E s \in Sync : (\E a \in Account : Fetch(s, a)) \/ Complete(s)
    \/ \E a \in Account : Disconnect(a) \/ Activate(a)
    \/ \E p \in Proc : Abandon(p)

Spec == Init /\ [][Next]_vars

\* Requests and completions go on; a row that is free again and again is given to
\* those that wait for it, in their order, and PostgreSQL breaks a circle.
Fairness ==
    /\ \A c \in Client : SF_vars(Serve(c))
    /\ \A s \in Sync : SF_vars(Complete(s))
    /\ \A p \in Proc : WF_vars(InCircle(p) /\ Abandon(p))

FairSpec == Spec /\ Fairness

-----------------------------------------------------------------------------
(* Properties.                                                             *)

\* The types of the variables, and the locks are exclusive.
TypeOK ==
    /\ active \subseteq Account
    /\ member \in [Account -> [Dialog -> [exists : BOOLEAN, canSend : BOOLEAN, hash : BOOLEAN]]]
    /\ \A i \in 1 .. Len(mailing) :
          mailing[i].status \in {"draft", "queued"} /\ mailing[i].to \subseteq Dialog
    /\ \A p, q \in Proc : p # q =>
          \A row \in holds[p] \cap holds[q] : row[1] = "key"
    /\ \A a \in Account, p, q \in Proc :
          p # q /\ AccountRow(a) \in holds[p] => AccountKey(a) \notin holds[q]
    /\ \A p \in Proc : ~Busy(p) => holds[p] = {}

\* Whatever is fetched after a draft was made, each of its recipients can still
\* be addressed when the delivery worker looks it up for the routed account.
RecipientsResolve ==
    \A i \in 1 .. Len(mailing) : \A d \in mailing[i].to :
        Resolves(mailing[i].account, d) /\ Owner[mailing[i].account] = mailing[i].op

\* When a draft is committed its account is active and every recipient sendable,
\* though the checks ran some statements earlier and others were writing.
DraftsAreSendable ==
    [][\A i \in 1 .. Len(mailing') : i > Len(mailing) =>
          /\ mailing'[i].account \in active
          /\ \A d \in mailing'[i].to : Sendable(mailing'[i].account, d)]_vars

\* What the page offered is refused only if the account or one of the dialogs
\* really was unusable at some time since the page was put together.
RefusedOnlyIfChanged ==
    [][\A c \in Client : Refuse(c) => page[c].stale]_vars

\* Every request is answered and every completion ends, in spite of the orders
\* in which completions, drafts and foreign keys lock the same rows.
EverythingEnds ==
    \A p \in Proc : Busy(p) ~> ~Busy(p)
=============================================================================
