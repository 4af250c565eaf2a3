------------------------------ MODULE Subscription ------------------------------
(***************************************************************************)
(* The subscriptions to one list: SubscriptionService and                  *)
(* MassSubscriptionService.                                                 *)
(*                                                                         *)
(* A transaction of massSubscribe reads the accounts and the subscriptions  *)
(* of its addresses, inserts what is missing and commits; other callers do   *)
(* the same between its reads and its commit, and nothing in the database    *)
(* keeps one address from having two accounts.  Nor does the call itself, if *)
(* the address is given twice with different blanks around it.              *)
(*                                                                         *)
(* The number of subscribers is a stored copy: massSubscribe starts a        *)
(* recount that runs in a transaction of its own, before or after the commit *)
(* of the transaction that started it; the other operations recount in their *)
(* own transaction.  A recount replaces the row of the count it has read, so *)
(* that of two recounts at a time one fails.                                *)
(*                                                                         *)
(* Each transaction reads one snapshot (repeatable read, the default of the  *)
(* database).  A subscription row is identified by account, list and a       *)
(* sequence number, so the same account may have several.                   *)
(***************************************************************************)
EXTENDS Integers, Sequences, FiniteSets

CONSTANTS
    Emails,     \* addresses
    Known,      \* addresses with an account, from another list of the client
    Spaced,     \* addresses that a file may have twice, with other blanks around
    Callers,    \* threads that call massSubscribe
    MaxAct,     \* bound: sign-ups, imports, and changes of status by hand
    MaxTrouble, \* bound: transactions that fail, bounces
    MaxDue,     \* bound: recounts that wait for a thread
    History     \* whether the history variables are kept, for the properties of
                \* this module; without them there are fewer states

ASSUME SubscriptionAssumption ==
    /\ IsFiniteSet(Emails)
    /\ Known \subseteq Emails /\ Spaced \subseteq Emails
    /\ {MaxAct, MaxTrouble, MaxDue} \subseteq Nat
    /\ History \in BOOLEAN

VARIABLES
    accounts, \* SubscriberAccount: the accounts of each address, and the
              \* MailMergeRequest of each for the confirmation link
    subs,     \* Subscription: the rows of each address, by account
    tx,       \* the massSubscribe transaction of each caller
    resend,   \* the subscription whose confirmation email is being sent again
    due,      \* updateSubscriberCount calls that wait for a thread
    lock,     \* the transaction that replaces the count, and what else it writes
    count,    \* SubscriberCount
    acts, trouble,  \* bounds
    overlapped, readded, left, missed \* what happened, for the properties

tables == <<accounts, subs>>
counting == <<due, lock, count>>
history == <<acts, trouble, overlapped, readded, left, missed>>
vars == <<tables, tx, resend, counting, history>>

Status == {"NEW", "CONFIRMED", "BOUNCED", "REMOVED", "UNSUBSCRIBED"}
Active == {"NEW", "CONFIRMED"}
Account == [status : {"NEW", "VERIFIED", "BOUNCED"},
            link : {"none", "UNPROCESSED", "PROCESSED"}]
Row == [acc : Nat \ {0}, status : Status]

Tally0 == [s \in Status |-> 0]
NoTx == [pc |-> "idle", optin |-> FALSE, emails |-> {}, twice |-> {}, fresh |-> {},
         asks |-> {}, acc |-> [e \in {} |-> 0]]
Free == [pc |-> "free", rows |-> {}, accs |-> {}, status |-> "NEW", tally |-> Tally0]

\* The rows of a table, by address and position.
Ids(table) == UNION {{e} \X DOMAIN table[e] : e \in Emails}

TypeOK ==
    /\ accounts \in [Emails -> Seq(Account)]
    /\ subs \in [Emails -> Seq(Row)]
    /\ \A r \in Ids(subs) : subs[r[1]][r[2]].acc \in DOMAIN accounts[r[1]]
    /\ DOMAIN tx = Callers
    /\ \A c \in Callers :
         /\ tx[c].pc \in {"idle", "open"}
         /\ tx[c].optin \in BOOLEAN
         /\ tx[c].asks \subseteq tx[c].fresh /\ tx[c].fresh \subseteq tx[c].emails
         /\ tx[c].twice \subseteq tx[c].emails /\ tx[c].emails \subseteq Emails
         /\ tx[c].acc \in [tx[c].emails -> Nat]
         /\ \A e \in tx[c].emails : tx[c].acc[e] \in {0} \cup DOMAIN accounts[e]
    /\ Cardinality(resend) <= 1
    /\ \A r \in resend : <<r.email, r.row>> \in Ids(subs) /\ r.status \in Status
    /\ due \in Nat
    /\ lock.pc \in {"free", "recount", "update", "confirm"}
    /\ lock.rows \subseteq Ids(subs)
    /\ lock.accs \subseteq Ids(accounts)
    /\ lock.status \in Status
    /\ lock.tally \in [Status -> Nat]
    /\ count \in [Status -> Nat]
    /\ acts \in Nat /\ trouble \in Nat
    /\ overlapped \subseteq Emails /\ readded \subseteq Emails /\ left \subseteq Emails
    /\ missed \in BOOLEAN

Note(S) == IF History THEN S ELSE {}

Init ==
    /\ accounts = [e \in Emails |-> IF e \in Known
                     THEN <<[status |-> "VERIFIED", link |-> "none"]>> ELSE <<>>]
    /\ subs = [e \in Emails |-> <<>>]
    /\ tx = [c \in Callers |-> NoTx]
    /\ resend = {} /\ due = 0 /\ lock = Free /\ count = Tally0
    /\ acts = 0 /\ trouble = 0
    /\ overlapped = {} /\ readded = {} /\ left = Note(Emails) /\ missed = FALSE

Act == acts < MaxAct /\ acts' = acts + 1 /\ UNCHANGED trouble
Trouble == trouble < MaxTrouble /\ trouble' = trouble + 1 /\ UNCHANGED acts
Unbounded == UNCHANGED <<acts, trouble>>

\* Rows that somebody holds subscribed.
ActiveRows(e) == {i \in DOMAIN subs[e] : subs[e][i].status \in Active}
RowsOf(e, a) == {i \in DOMAIN subs[e] : subs[e][i].acc = a}

\* The table with another status in these rows.
Changed(rows, status) ==
    [e \in Emails |-> [i \in DOMAIN subs[e] |->
        IF <<e, i>> \in rows THEN [subs[e][i] EXCEPT !.status = status] ELSE subs[e][i]]]

\* getSubscriptionCounts, of the table given.
SubscriptionCounts(table) ==
    [s \in Status |-> Cardinality({r \in Ids(table) : table[r[1]][r[2]].status = s})]

------------------------------------------------------------------------------
(* massSubscribe.                                                            *)

\* Addresses with an open transaction or an update under way.
Busy == (UNION {tx[c].emails : c \in Callers}) \cup {r[1] : r \in lock.rows}
                                                \cup {r.email : r \in resend}

\* getSubscribersForClientByEmails: the first account, 0 if there is none.
AccountOf(e) == IF accounts[e] = <<>> THEN 0 ELSE 1

\* Mutant: only confirmed subscriptions count as existing.
ConfirmedExists(e, a) == \E i \in RowsOf(e, a) : subs[e][i].status = "CONFIRMED"

\* existingSubscription: NEW or CONFIRMED, of this account.
Exists(e, a) == RowsOf(e, a) \cap ActiveRows(e) # {}

\* Existing accounts for which parseConfirmationLink inserts a request.
Asks(S, acc, optin) ==
    {e \in S : optin /\ acc[e] # 0 /\ accounts[e][acc[e]].link = "none"}

\* massSubscribe up to its commit: it inserts the accounts and subscriptions that
\* it did not find, and starts a recount if it inserts any subscription.  Rows of
\* one address are merged (mergeDuplicates) only if they agree in all but case; the
\* blanks around an address are cut off afterwards.  "twice" are the addresses that
\* the call still has twice: both rows look into the tables, not at one another.
MassSubscribe(c, S, twice, optin) ==
    LET acc == [e \in S |-> AccountOf(e)]
        fresh == {e \in S : ~Exists(e, acc[e])}
    IN  /\ tx[c].pc = "idle"
        /\ S # {}
        /\ due < MaxDue
        /\ tx' = [tx EXCEPT ![c] = [pc |-> "open", optin |-> optin, emails |-> S,
                                    twice |-> twice, fresh |-> fresh,
                                    asks |-> Asks(fresh, acc, optin), acc |-> acc]]
        /\ due' = IF fresh = {} THEN due ELSE due + 1
        /\ overlapped' = overlapped \cup Note((S \cap Busy) \cup (twice \cap fresh))
        /\ UNCHANGED <<tables, resend, lock, count, readded, left, missed>>

\* subscribe, of one address and always with double opt-in: an address already NEW
\* or CONFIRMED is refused (RelationshipExistsException).
Subscribe(c, e) ==
    /\ ActiveRows(e) = {}
    /\ MassSubscribe(c, {e}, {}, TRUE)
    /\ Act

\* addSubscribers: an import, without double opt-in, of rows as a file spells them.
ImportSubscribers(c, S, twice) ==
    /\ MassSubscribe(c, S, twice, FALSE)
    /\ Act

\* A new account is verified unless it still has to confirm.
NewAccount(optin) == [status |-> IF optin THEN "NEW" ELSE "VERIFIED", link |-> "none"]

\* Mutant: a subscription is CONFIRMED from the start.
ConfirmedRow(t, e) == [acc |-> IF t.acc[e] = 0 THEN Len(accounts[e]) + 1 ELSE t.acc[e],
                       status |-> "CONFIRMED"]

\* Mutant: the row of a new account is written without the account's key.
RowBeforeAccount(t, e) == [acc |-> t.acc[e],
                           status |-> IF t.optin THEN "NEW" ELSE "CONFIRMED"]

\* createSubscription, for the account found or just made.
NewRow(t, e) == [acc |-> IF t.acc[e] = 0 THEN Len(accounts[e]) + 1 ELSE t.acc[e],
                 status |-> IF t.optin THEN "NEW" ELSE "CONFIRMED"]

\* parseConfirmationLink: the link works again, or for the first time.
Link(t, accs, a) ==
    IF t.optin THEN [accs EXCEPT ![a].link = "UNPROCESSED"] ELSE accs

\* What the second row of an address adds, the same once more.
Again(t, e, what) == IF e \in t.twice THEN <<what>> ELSE <<>>

SecondRow(t, e) == [NewRow(t, e) EXCEPT !.acc = IF t.acc[e] = 0 THEN @ + 1 ELSE @]

\* Another transaction has inserted the MailMergeRequest of a key meanwhile.
LinkTaken(t) == \E e \in t.asks : accounts[e][t.acc[e]].link # "none"

Commit(c) ==
    LET t == tx[c]
    IN  /\ t.pc = "open"
        /\ ~LinkTaken(t)
        /\ accounts' = [e \in Emails |->
              IF e \notin t.fresh THEN accounts[e]
              ELSE IF t.acc[e] = 0
                   THEN Link(t, Append(accounts[e], NewAccount(t.optin)), Len(accounts[e]) + 1)
                          \o Again(t, e, NewAccount(t.optin))
                   ELSE Link(t, accounts[e], t.acc[e])]
        /\ subs' = [e \in Emails |->
              IF e \in t.fresh
              THEN Append(subs[e], NewRow(t, e)) \o Again(t, e, SecondRow(t, e))
              ELSE subs[e]]
        /\ tx' = [tx EXCEPT ![c] = NoTx]
        /\ left' = IF t.optin THEN left ELSE left \ t.fresh
        /\ missed' = (missed \/ (History /\ t.fresh # {} /\ due = 0))
        /\ UNCHANGED <<resend, counting, acts, trouble, overlapped, readded>>

\* The transaction is rolled back: a commit that fails, or an exception (a list
\* without sender or confirmation email, a request inserted by another, field values
\* that two rows of an existing account insert with the same key).
RolledBack(c) ==
    /\ tx[c].pc = "open"
    /\ IF LinkTaken(tx[c]) \/ (\E e \in tx[c].twice : tx[c].acc[e] # 0) THEN Unbounded ELSE Trouble
    /\ tx' = [tx EXCEPT ![c] = NoTx]
    /\ UNCHANGED <<tables, resend, counting, overlapped, readded, left, missed>>

\* FormResendConfirmEmail.resend loads a subscription ...
Resend(e, i) ==
    /\ resend = {}
    /\ resend' = {[email |-> e, row |-> i, status |-> subs[e][i].status]}
    /\ overlapped' = overlapped \cup Note({e} \cap Busy)
    /\ Act
    /\ UNCHANGED <<tables, tx, counting, readded, left, missed>>

\* ... and sendConfirmationEmail, "doesn't matter the status", makes the link work
\* again and merges what was loaded, its status included.
SendConfirmationEmail ==
    \E r \in resend :
        /\ accounts' = [accounts EXCEPT ![r.email][subs[r.email][r.row].acc].link = "UNPROCESSED"]
        /\ subs' = Changed({<<r.email, r.row>>}, r.status)
        /\ resend' = {}
        /\ missed' = (missed \/ (History /\ subs' # subs))
        /\ UNCHANGED <<tx, counting, acts, trouble, overlapped, readded, left>>

------------------------------------------------------------------------------
(* Changes of status and the count.  Each replaces the count in the          *)
(* transaction that holds lock; one that meets it fails.                     *)

\* Mutant: the count is taken before the change is written.
CountBeforeFlush(pc, rows, accs, status) ==
    /\ lock.pc = "free"
    /\ lock' = [pc |-> pc, rows |-> rows, accs |-> accs, status |-> status,
                tally |-> SubscriptionCounts(subs)]
    /\ missed' = FALSE
    /\ UNCHANGED <<tables, tx, resend, count, left>>

\* The transaction writes these rows and updateSubscriberCount counts them.
UpdateSubscriberCount(pc, rows, accs, status) ==
    /\ lock.pc = "free"
    /\ lock' = [pc |-> pc, rows |-> rows, accs |-> accs, status |-> status,
                tally |-> SubscriptionCounts(Changed(rows, status))]
    /\ missed' = FALSE
    /\ UNCHANGED <<tables, tx, resend, count, left>>

\* A recount that was started gets its thread ...
Recount ==
    /\ due > 0
    /\ due' = due - 1
    /\ UpdateSubscriberCount("recount", {}, {}, "NEW")
    /\ Unbounded /\ UNCHANGED <<overlapped, readded>>

\* ... and fails if it has read the count that another is replacing.
RecountFails ==
    /\ due > 0
    /\ lock.pc # "free"
    /\ due' = due - 1
    /\ missed' = History
    /\ UNCHANGED <<tables, tx, resend, lock, count, acts, trouble, overlapped, readded, left>>

\* updateSubscription: every row with the key of the account.
Update(e, a, status) ==
    /\ RowsOf(e, a) # {}
    /\ UpdateSubscriberCount("update", {e} \X RowsOf(e, a), {}, status)
    /\ overlapped' = overlapped \cup Note({e} \cap Busy)
    /\ readded' = readded \cup
          (IF status = "CONFIRMED" /\ Cardinality(RowsOf(e, a)) > 1 THEN Note({e}) ELSE {})
    /\ UNCHANGED due

\* WSUnsubscribe, FormRemoveSubscription, FormRestoreSubscription.
UpdateSubscription(e, a, status) ==
    /\ status \in {"UNSUBSCRIBED", "REMOVED", "CONFIRMED"}
    /\ Update(e, a, status)
    /\ Act

\* WSConfirmSubscription.confirm and confirmSubscriber, for an unprocessed
\* request.  Whatever the status of the row; two rows with the key are refused
\* ("SHA-256 collision").
ConfirmSubscriber(e, a) ==
    /\ accounts[e][a].link = "UNPROCESSED"
    /\ Cardinality(RowsOf(e, a)) = 1
    /\ UpdateSubscriberCount("confirm", {e} \X RowsOf(e, a), {<<e, a>>}, "CONFIRMED")
    /\ overlapped' = overlapped \cup Note({e} \cap Busy)
    /\ Unbounded /\ UNCHANGED <<due, readded>>

Confirmed(account) ==
    [status |-> IF account.status = "NEW" THEN "VERIFIED" ELSE account.status,
     link |-> "PROCESSED"]

CommitUpdate ==
    /\ lock.pc # "free"
    /\ subs' = Changed(lock.rows, lock.status)
    /\ accounts' = [e \in Emails |-> [a \in DOMAIN accounts[e] |->
                      IF <<e, a>> \in lock.accs THEN Confirmed(accounts[e][a])
                      ELSE accounts[e][a]]]
    /\ count' = lock.tally
    /\ lock' = Free
    /\ left' = IF lock.status = "CONFIRMED" THEN left \ {r[1] : r \in lock.rows}
               ELSE left \cup Note({r[1] : r \in lock.rows})
    /\ UNCHANGED <<tx, resend, due, acts, trouble, overlapped, readded, missed>>

RollBackUpdate ==
    /\ lock.pc # "free"
    /\ Trouble
    /\ lock' = Free
    /\ missed' = History
    /\ UNCHANGED <<tables, tx, resend, due, count, overlapped, readded, left>>

\* updateSubscriptionSubscriberBounce, all accounts and rows of an address, and
\* the recount that follows it.  It waits for an update of the same rows.
Bounce(e) ==
    /\ accounts[e] # <<>>
    /\ due < MaxDue
    /\ \A r \in lock.rows : r[1] # e
    /\ Trouble
    /\ accounts' = [accounts EXCEPT ![e] = [a \in DOMAIN @ |-> [@[a] EXCEPT !.status = "BOUNCED"]]]
    /\ subs' = Changed({e} \X DOMAIN subs[e], "BOUNCED")
    /\ due' = due + 1
    /\ left' = left \cup Note({e})
    /\ overlapped' = overlapped \cup Note({e} \cap Busy)
    /\ UNCHANGED <<tx, resend, lock, count, readded, missed>>

\* What users do, by c if it takes a call of massSubscribe.
SubscribeStep(c) ==
    \/ \E e \in Emails : Subscribe(c, e)
    \/ \E S \in SUBSET Emails : \E twice \in SUBSET (S \cap Spaced) : ImportSubscribers(c, S, twice)

UserStep ==
    \/ \E e \in Emails : \E a \in DOMAIN accounts[e] :
          \/ \E s \in Status : UpdateSubscription(e, a, s)
          \/ ConfirmSubscriber(e, a)
    \/ \E e \in Emails : \E i \in DOMAIN subs[e] : Resend(e, i)
    \/ SendConfirmationEmail
    \/ \E e \in Emails : Bounce(e)

Next ==
    \/ \E c \in Callers : SubscribeStep(c) \/ Commit(c) \/ RolledBack(c)
    \/ UserStep
    \/ Recount
    \/ RecountFails
    \/ CommitUpdate
    \/ RollBackUpdate

Spec == Init /\ [][Next]_vars

------------------------------------------------------------------------------

\* One address has one account and one subscription that is held, unless two
\* transactions, or two rows of one call, were at it at the same time, or the owner
\* restored a subscription of an address that had signed up again after leaving
\* (updateSubscription restores both).
OneSubscription ==
    \A e \in Emails \ overlapped :
        Len(accounts[e]) <= 1 /\ (e \notin readded => Cardinality(ActiveRows(e)) <= 1)

\* Nobody is CONFIRMED who did not open a link, and was not imported, synchronized or
\* restored, since the address was last unsubscribed, removed or bounced: all
\* rows that the key reaches are closed, and a sign-up alone confirms nothing.  An
\* address with two accounts (overlapped) is left by one of them only.
LeavingHolds ==
    \A e \in left \ overlapped : \A i \in DOMAIN subs[e] : subs[e][i].status # "CONFIRMED"

\* "Also, filter off duplicates within subscribers and merge their fields"
\* (massSubscribe): whatever one call is given, an address gets one account and one
\* subscription.
DuplicatesMerged ==
    \A e \in Emails : Len(accounts[e]) <= 1 /\ Cardinality(ActiveRows(e)) <= 1

\* When nothing is under way the stored count is the number of rows, unless a
\* recount ran before the commit that it was started for, or failed, or a
\* resent confirmation email wrote an old status back.
CountRight ==
    lock.pc = "free" /\ due = 0 /\ ~missed /\ (\A c \in Callers : tx[c].pc = "idle") /\ resend = {}
        => count = SubscriptionCounts(subs)

------------------------------------------------------------------------------
(* The invariant that the properties follow from, when the history is kept.   *)

InTx(c, e) == e \in tx[c].emails
InLock(e) == \E r \in lock.rows : r[1] = e
InResend(e) == \E r \in resend : r.email = e

\* One transaction at a time is at the address.
OneAtATime(e) ==
    /\ \A c, d \in Callers : InTx(c, e) /\ InTx(d, e) => c = d
    /\ (\E c \in Callers : InTx(c, e)) => ~InLock(e) /\ ~InResend(e)
    /\ InLock(e) => ~InResend(e)

\* The address has one account, to which all its rows belong.
OneAccount(e) ==
    /\ Len(accounts[e]) <= 1
    /\ \A i \in DOMAIN subs[e] : subs[e][i].acc = 1

\* What a transaction of massSubscribe has read is still so, and it inserts once.
ReadIsCurrent(c, e) ==
    InTx(c, e) => /\ tx[c].acc[e] = AccountOf(e)
                  /\ e \in tx[c].fresh => ActiveRows(e) = {} /\ e \notin tx[c].twice

\* An update reaches all rows of the address; it makes several of them CONFIRMED
\* only if they are marked as restored.
LockReachesAll(e) ==
    InLock(e) => /\ \A i \in DOMAIN subs[e] : <<e, i>> \in lock.rows
                 /\ lock.status \in Active =>
                       /\ lock.status = "CONFIRMED"
                       /\ e \notin readded => Cardinality(DOMAIN subs[e]) <= 1

\* The loaded subscription has the status of its row.
LoadedIsCurrent(e) ==
    \A r \in resend : r.email = e => subs[e][r.row].status = r.status

HeldOnce(e) == e \notin readded => Cardinality(ActiveRows(e)) <= 1
NotConfirmed(e) == e \in left => \A i \in DOMAIN subs[e] : subs[e][i].status # "CONFIRMED"

AddressOK(e) ==
    /\ OneAtATime(e) /\ OneAccount(e)
    /\ \A c \in Callers : ReadIsCurrent(c, e)
    /\ LockReachesAll(e) /\ LoadedIsCurrent(e)
    /\ HeldOnce(e) /\ NotConfirmed(e)

\* A count that will be wrong was missed, or a recount is still to come.
CountOK ==
    missed \/ due > 0 \/
       IF lock.pc = "free" THEN count = SubscriptionCounts(subs)
       ELSE lock.tally = SubscriptionCounts(Changed(lock.rows, lock.status))

SubInv ==
    /\ TypeOK
    /\ \A e \in Emails \ overlapped : AddressOK(e)
    /\ CountOK

=============================================================================
