------------------------------ MODULE MailDelivery ------------------------------
(***************************************************************************)
(* The life of an email in eds/component/mail: it is queued, the senders   *)
(* (processEmailQueue on any node, sendQuickMail in a request) lock it,     *)
(* give it to Amazon SES and put it back, and MailServiceInbound reads the *)
(* bounces of SES from an SQS queue and suspends the subscriber.           *)
(*                                                                         *)
(* Like a batch run, an email lives in one table per status, and           *)
(* TransactionService.transitTx (not in this repository) moves it: it      *)
(* throws TransactionLockingException when the row has left the table the  *)
(* caller's entity belongs to, and writes the entity's own values.         *)
(***************************************************************************)
EXTENDS Naturals, Sequences, FiniteSets

CONSTANTS Emails,      \* emails, each with one recipient
          Invalid,     \* those whose addresses validateEmail rejects
          Senders,     \* threads that may run sendEmailNow at the same time
          NumRetries,  \* system property NUM_RETRIES
          BatchSize,   \* UPDATE_BATCH_SIZE
          MaxRead,     \* messages that one receiveMessage returns at most
          FaultKinds,  \* failures the environment may inject
          MaxFaults    \* bound: how many failures it injects in all

\* "ses": SES refuses; "timeout": SES accepts and its answer is lost;
\* "lock": transitTx finds the row locked; "db": a statement or a commit fails;
\* "crash": the node dies.
AllFaults == {"ses", "timeout", "lock", "db", "crash"}

ASSUME MailAssumption ==
    /\ Invalid \subseteq Emails
    /\ {NumRetries, BatchSize, MaxRead} \subseteq Nat \ {0}
    /\ FaultKinds \subseteq AllFaults
    /\ MaxFaults \in Nat

Table == {"QUEUED", "SENT", "ERROR", "BOUNCED"}

\* A row, and also the entity a process holds.  "id" is AWS_SES_MESSAGE_ID: the
\* n-th time SES accepts an email it answers with message id n; 0 is null.
Row == [email : Emails, table : Table, retries : Nat, id : Nat]

\* A bounce message names the email SES accepted and its message id.
Message == Emails \X Nat

VARIABLES
    rows,      \* the tables EMAIL_QUEUED, EMAIL_SENT, EMAIL_ERROR, EMAIL_BOUNCED
    sendPC, sendList, sendMail, sendResult, \* sendEmailNow of every sender
    merged,    \* SENT entities merged in a sender's open transaction
    accepted,  \* how often SES accepted each email
    timeouts,  \* how often it did and the sender never learned
    sqs,       \* bounce messages in the SQS queue
    bounced,   \* bounces SES has reported so far
    bouncePC, messages, found, addresses, \* processAllBounce
    suspended, \* recipients whose subscriptions were marked as bounced
    faults,    \* failures injected so far
    broken     \* whether one of them was not just SES refusing or timing out

sending == <<sendPC, sendList, sendMail, sendResult, merged>>
ses == <<accepted, timeouts>>
reading == <<bouncePC, messages, found, addresses>>
bouncing == <<sqs, bounced, reading, suspended>>

vars == <<rows, sending, ses, bouncing, faults, broken>>

NoMail == [email |-> "none"]

TypeOK ==
    /\ rows \subseteq Row
    /\ sendPC \in [Senders -> {"idle", "lock", "send", "conclude", "commit"}]
    /\ sendList \in [Senders -> Seq(Row)]
    /\ sendMail \in [Senders -> Row \cup {NoMail}]
    /\ sendResult \in [Senders -> {"none", "SENT", "ERROR", "QUEUED"}]
    /\ merged \in [Senders -> SUBSET Row]
    /\ accepted \in [Emails -> Nat]
    /\ timeouts \in [Emails -> Nat]
    /\ sqs \subseteq bounced
    /\ bounced \subseteq Message
    /\ bouncePC \in {"idle", "receive", "transit", "suspend", "delete"}
    /\ messages \subseteq sqs
    /\ found \subseteq Row
    /\ addresses \subseteq Emails
    /\ suspended \subseteq Emails
    /\ faults \in 0 .. MaxFaults
    /\ broken \in BOOLEAN

Init ==
    /\ rows = {}
    /\ sendPC = [s \in Senders |-> "idle"]
    /\ sendList = [s \in Senders |-> <<>>]
    /\ sendMail = [s \in Senders |-> NoMail]
    /\ sendResult = [s \in Senders |-> "none"]
    /\ merged = [s \in Senders |-> {}]
    /\ accepted = [e \in Emails |-> 0]
    /\ timeouts = [e \in Emails |-> 0]
    /\ sqs = {} /\ bounced = {}
    /\ bouncePC = "idle" /\ messages = {} /\ found = {} /\ addresses = {}
    /\ suspended = {}
    /\ faults = 0
    /\ broken = FALSE

------------------------------------------------------------------------------
Fault(k) ==
    /\ k \in FaultKinds
    /\ faults < MaxFaults
    /\ faults' = faults + 1
    /\ broken' = (broken \/ k \in {"lock", "db", "crash"})

NoFault == UNCHANGED <<faults, broken>>

RowsOf(e) == {w \in rows : w.email = e}

\* The row an entity stands for, as the database has it now.
Stored(mail) == {w \in rows : w.email = mail.email /\ w.table = mail.table}

\* Mutant: the row is moved from whatever table it is in.
TransitUnlocked(mail, table) ==
    rows' = (rows \ RowsOf(mail.email)) \cup {[mail EXCEPT !.table = table]}

\* Mutant: a row that has left its table is inserted again.
TransitInserts(mail, table) ==
    rows' = (rows \ Stored(mail)) \cup {[mail EXCEPT !.table = table]}

\* transitTx: the row moves and takes the values of the entity.
Transit(mail, table) ==
    /\ Stored(mail) # {}
    /\ rows' = (rows \ Stored(mail)) \cup {[mail EXCEPT !.table = table]}

\* TransactionLockingException.
TransitRefused(mail) ==
    /\ UNCHANGED rows
    /\ \/ Stored(mail) = {} /\ NoFault
       \/ Fault("lock")

------------------------------------------------------------------------------
(* MailServiceOutbound.                                                      *)

Queued(e) == [email |-> e, table |-> "QUEUED", retries |-> 0, id |-> 0]

\* queueEmail validates before it persists.  A new email is one without a row:
\* no code deletes emails.
QueueEmail(e) ==
    /\ RowsOf(e) = {}
    /\ e \notin Invalid
    /\ rows' = rows \cup {Queued(e)}
    /\ UNCHANGED <<sending, ses, bouncing, faults, broken>>

\* sendEmailNow turns to the next email of its list; after the last one the
\* transaction commits.
Continue(s, list) ==
    /\ sendList' = [sendList EXCEPT ![s] = list]
    /\ sendMail' = [sendMail EXCEPT ![s] = IF list = <<>> THEN NoMail ELSE Head(list)]
    /\ sendResult' = [sendResult EXCEPT ![s] = "none"]
    /\ sendPC' = [sendPC EXCEPT ![s] = IF list = <<>> THEN "commit" ELSE "lock"]

\* The transaction is over, and the sender with it.
Ends(s) ==
    /\ sendList' = [sendList EXCEPT ![s] = <<>>]
    /\ sendMail' = [sendMail EXCEPT ![s] = NoMail]
    /\ sendResult' = [sendResult EXCEPT ![s] = "none"]
    /\ sendPC' = [sendPC EXCEPT ![s] = "idle"]
    /\ merged' = [merged EXCEPT ![s] = {}]

Goto(s, pc, mail, result) ==
    /\ sendPC' = [sendPC EXCEPT ![s] = pc]
    /\ sendMail' = [sendMail EXCEPT ![s] = mail]
    /\ sendResult' = [sendResult EXCEPT ![s] = result]
    /\ UNCHANGED sendList

\* sendQuickMail persists the email, without validating it, and sends it.
SendQuickMail(s, e) ==
    /\ sendPC[s] = "idle"
    /\ RowsOf(e) = {}
    /\ rows' = rows \cup {Queued(e)}
    /\ Continue(s, <<Queued(e)>>)
    /\ UNCHANGED <<merged, ses, bouncing, faults, broken>>

\* The lists of at most BatchSize of these emails, and of all if they are fewer.
ListsOf(queued) ==
    {l \in UNION {[1 .. n -> queued] : n \in 0 .. BatchSize} :
        /\ \A i, j \in DOMAIN l : l[i] = l[j] => i = j
        /\ Len(l) = BatchSize \/ queued = {l[i] : i \in DOMAIN l}}

\* Mutant: emails that were tried before are not selected.
NextNUntried == ListsOf({w \in rows : w.table = "QUEUED" /\ w.retries = 0})

\* getNextNEmailsInQueue: the emails due, by DATETIME_CHANGED; the times are
\* not modelled, so in any order.
NextNEmailsInQueue == ListsOf({w \in rows : w.table = "QUEUED"})

ProcessEmailQueue(s) ==
    /\ sendPC[s] = "idle"
    /\ \E l \in NextNEmailsInQueue : l # <<>> /\ Continue(s, l)
    /\ UNCHANGED <<rows, merged, ses, bouncing, faults, broken>>

\* transitTx to SENT keeps the others off the email.  When it throws, the
\* catch clauses set ERROR and the finally clause runs all the same: "continue"
\* does not skip it, and the sender still holds the QUEUED entity.
Lock(s) ==
    /\ sendPC[s] = "lock"
    /\ \/ /\ Transit(sendMail[s], "SENT")
          /\ Goto(s, "send", [sendMail[s] EXCEPT !.table = "SENT"], "none")
          /\ NoFault
       \/ /\ TransitRefused(sendMail[s])
          /\ Goto(s, "conclude", sendMail[s], "ERROR")
       \/ /\ Fault("db")
          /\ Goto(s, "conclude", sendMail[s], "ERROR")
          /\ UNCHANGED rows
    /\ UNCHANGED <<merged, ses, bouncing>>

\* Mutant: the email is left in the SENT table to be sent again.
RetryInPlace(mail) == "SENT"

\* Mutant: an email that is given up is labelled as ErrorEmail labels it.
RetryBounced(mail) == IF mail.retries >= NumRetries THEN "BOUNCED" ELSE "QUEUED"

\* After an AmazonClientException: once more, or give up.
Retry(mail) == IF mail.retries >= NumRetries THEN "ERROR" ELSE "QUEUED"

Accept(e) == accepted' = [accepted EXCEPT ![e] = @ + 1]

Send(s) ==
    /\ sendPC[s] = "send"
    /\ LET mail == sendMail[s]
           again == [mail EXCEPT !.retries = @ + 1]
       IN  \/ /\ mail.email \in Invalid
              /\ Goto(s, "conclude", mail, "ERROR")
              /\ NoFault /\ UNCHANGED ses
           \/ /\ mail.email \notin Invalid
              /\ Accept(mail.email)
              /\ Goto(s, "conclude", [mail EXCEPT !.id = accepted'[mail.email]], "SENT")
              /\ NoFault /\ UNCHANGED timeouts
           \/ /\ mail.email \notin Invalid
              /\ Goto(s, "conclude", again, Retry(again))
              /\ \/ Fault("ses") /\ UNCHANGED ses
                 \/ /\ Fault("timeout")
                    /\ Accept(mail.email)
                    /\ timeouts' = [timeouts EXCEPT ![mail.email] = @ + 1]
    /\ UNCHANGED <<rows, merged, bouncing>>

\* The finally clause: a SENT entity is merged into the open transaction, any
\* other result is one more transitTx, whose TransactionLockingException is
\* ignored.  Another exception leaves sendEmailNow: the transaction rolls back
\* and the rest of the list waits.
Conclude(s) ==
    /\ sendPC[s] = "conclude"
    /\ LET mail == sendMail[s]
       IN  \/ /\ sendResult[s] = "SENT"
              /\ merged' = [merged EXCEPT ![s] = @ \cup {mail}]
              /\ Continue(s, Tail(sendList[s]))
              /\ NoFault /\ UNCHANGED rows
           \/ /\ sendResult[s] # "SENT"
              /\ \/ Transit(mail, sendResult[s]) /\ NoFault
                 \/ TransitRefused(mail)
              /\ Continue(s, Tail(sendList[s]))
              /\ UNCHANGED merged
           \/ /\ Fault("db")
              /\ Ends(s)
              /\ UNCHANGED rows
    /\ UNCHANGED <<ses, bouncing>>

\* The transaction of processEmailQueue or sendQuickMail writes the message ids.
Commit(s) ==
    /\ sendPC[s] = "commit"
    /\ \/ /\ rows' = (rows \ UNION {Stored(mail) : mail \in merged[s]}) \cup merged[s]
          /\ NoFault
       \/ Fault("db") /\ UNCHANGED rows
    /\ Ends(s)
    /\ UNCHANGED <<ses, bouncing>>

SenderCrash(s) ==
    /\ sendPC[s] # "idle"
    /\ Fault("crash")
    /\ Ends(s)
    /\ UNCHANGED <<rows, ses, bouncing>>

------------------------------------------------------------------------------
(* MailServiceInbound.processAllBounce, of one verified sender.              *)

\* SES reports, once, that an email it accepted bounced.
Bounce(e, n) ==
    /\ n \in 1 .. accepted[e]
    /\ <<e, n>> \notin bounced
    /\ sqs' = sqs \cup {<<e, n>>}
    /\ bounced' = bounced \cup {<<e, n>>}
    /\ UNCHANGED <<rows, sending, ses, reading, suspended, faults, broken>>

\* getEmailsBySESMessageId: SENT emails whose stored message id a bounce names.
EmailsBySESMessageId(msgs) == {w \in rows : w.table = "SENT" /\ <<w.email, w.id>> \in msgs}

\* The do loop: one receiveMessage and the emails of its messages, until a call
\* brings no email; what has been received is invisible to the next call.  (The
\* limits of 50 and 100 emails are not reached with so few.)
Receive ==
    /\ bouncePC \in {"idle", "receive"}
    /\ \E inc \in SUBSET (sqs \ messages) :
         /\ Cardinality(inc) <= MaxRead
         /\ inc = {} => sqs = messages /\ bouncePC = "receive"
         /\ messages' = messages \cup inc
         /\ found' = found \cup EmailsBySESMessageId(inc)
         /\ bouncePC' = IF EmailsBySESMessageId(inc) = {} THEN "transit" ELSE "receive"
    /\ UNCHANGED <<rows, sending, ses, sqs, bounced, addresses, suspended, faults, broken>>

\* updateBounceStatusForEmails, one email: a lock that fails is logged.
TransitBounced ==
    /\ bouncePC = "transit"
    /\ \/ /\ found = {}
          /\ bouncePC' = "suspend"
          /\ NoFault /\ UNCHANGED <<rows, found, addresses>>
       \/ \E mail \in found :
            /\ found' = found \ {mail}
            /\ UNCHANGED bouncePC
            /\ \/ /\ Transit(mail, "BOUNCED") /\ NoFault
                  /\ addresses' = addresses \cup {mail.email}
               \/ TransitRefused(mail) /\ UNCHANGED addresses
    /\ UNCHANGED <<sending, ses, sqs, bounced, messages, suspended>>

\* Mutant: the bounces of this round wait for the next one.
SuspendNobody ==
    /\ bouncePC = "suspend"
    /\ bouncePC' = "delete"
    /\ UNCHANGED <<rows, sending, ses, sqs, bounced, messages, found, addresses,
                   suspended, faults, broken>>

\* updateSubscriptionSubscriberBounce for the addresses collected.
Suspend ==
    /\ bouncePC = "suspend"
    /\ suspended' = suspended \cup addresses
    /\ bouncePC' = "delete"
    /\ UNCHANGED <<rows, sending, ses, sqs, bounced, messages, found, addresses,
                   faults, broken>>

BounceEnds ==
    /\ bouncePC' = "idle"
    /\ messages' = {} /\ found' = {} /\ addresses' = {}

\* Mutant: the whole queue is purged.
PurgeMessages ==
    /\ bouncePC = "delete"
    /\ sqs' = {}
    /\ BounceEnds
    /\ UNCHANGED <<rows, sending, ses, bounced, suspended, faults, broken>>

\* deleteSQSMessages: all messages, whether their emails were found or not.
DeleteMessages ==
    /\ bouncePC = "delete"
    /\ sqs' = sqs \ messages
    /\ BounceEnds
    /\ UNCHANGED <<rows, sending, ses, bounced, suspended, faults, broken>>

\* An exception or a crash anywhere: SQS shows the messages again.
BounceFails ==
    /\ bouncePC # "idle"
    /\ Fault("db") \/ Fault("crash")
    /\ BounceEnds
    /\ UNCHANGED <<rows, sending, ses, sqs, bounced, suspended>>

------------------------------------------------------------------------------
SenderRuns(s) == Lock(s) \/ Send(s) \/ Conclude(s) \/ Commit(s)
BounceRuns == Receive \/ TransitBounced \/ Suspend \/ DeleteMessages

Next ==
    \/ \E e \in Emails : QueueEmail(e) \/ \E n \in 1 .. accepted[e] : Bounce(e, n)
    \/ \E s \in Senders, e \in Emails : SendQuickMail(s, e)
    \/ \E s \in Senders : ProcessEmailQueue(s) \/ SenderRuns(s) \/ SenderCrash(s)
    \/ BounceRuns \/ BounceFails

Spec == Init /\ [][Next]_vars

\* The batch jobs that run processEmailQueue and processAllBounce keep coming,
\* and a thread that runs them goes on.
Fairness ==
    /\ \A s \in Senders : WF_vars(SenderRuns(s)) /\ WF_vars(ProcessEmailQueue(s))
    /\ WF_vars(BounceRuns)

FairSpec == Spec /\ Fairness

------------------------------------------------------------------------------
(* Properties.                                                               *)

\* An email is in one table only, and once it was queued in at least one:
\* senders with stale lists, retries and bounces never duplicate or drop it.
OneTable ==
    [][\A e \in Emails : RowsOf(e) # {} => Cardinality(RowsOf(e)') = 1]_vars

\* Whatever senders race for it and wherever one of them dies, SES accepts an
\* email once, and once more for each answer that was lost: the lock, the stale
\* RETRIES and the requeueing never send it twice.
AcceptedOnce == \A e \in Emails : accepted[e] <= 1 + timeouts[e]

\* As long as nodes, database and locks do not fail, an email in the SENT table
\* was accepted, or a sender is just handling it.
InHand(e) == \E s \in Senders : sendMail[s].email = e /\ sendMail[s].table = "SENT"
SentWasAccepted ==
    ~ broken => \A w \in rows : w.table = "SENT" => accepted[w.email] > 0 \/ InHand(w.email)

\* Only recipients of bounced emails are suspended, and without a failure
\* nobody is forgotten: the row is moved before the subscriber is updated, and a
\* message is deleted last.
BouncedIsSuspended ==
    /\ \A e \in suspended : \E w \in RowsOf(e) : w.table = "BOUNCED"
    /\ ~ broken => \A w \in rows : w.table = "BOUNCED" => w.email \in suspended \cup addresses

\* As long as nodes and database live, a queued email ends: SES accepts it or
\* it is given up, and neither a requeue nor a lost race leaves it queued.
QueuedEnds ==
    \A e \in Emails :
        Queued(e) \in rows ~> accepted[e] > 0 \/ broken
                              \/ \E w \in RowsOf(e) : w.table = "ERROR"

\* A bounce that waits in the queue while its message id is stored reaches the
\* subscriber, in whatever order messages are received and others deleted.
BounceWaits(e) ==
    \E w \in RowsOf(e) : w.table = "SENT" /\ <<e, w.id>> \in sqs \ messages
BounceArrives == \A e \in Emails : BounceWaits(e) ~> e \in suspended \/ broken

\* "Retry for NUM_RETRIES times" says a comment of sendEmailNow, and "Don't do
\* anything" when the email is locked: a valid email is given up only then.
GivenUpAfterRetries ==
    \A w \in rows : w.table = "ERROR" => w.email \in Invalid \/ w.retries >= NumRetries
------------------------------------------------------------------------------
(* The inductive invariant behind the safety properties.                     *)

\* The sender has moved e to SENT: it is handling it, or its id is not written yet.
Current(s, e) ==
    sendPC[s] \in {"send", "conclude"} /\ sendMail[s].email = e /\ sendMail[s].table = "SENT"
Merged(s, e) == \E m \in merged[s] : m.email = e
Holds(s, e) == Current(s, e) \/ Merged(s, e)

OneRow == \A v, w \in rows : v.email = w.email => v = w

\* Each sender has what its next step needs.
SenderOK(s) ==
    /\ \A i \in DOMAIN sendList[s] : sendList[s][i].table = "QUEUED" /\ sendList[s][i].id = 0
    /\ sendPC[s] \in {"lock", "send", "conclude"} =>
         sendList[s] # <<>> /\ sendMail[s] \in Row
    /\ sendPC[s] = "lock" => sendMail[s] = Head(sendList[s])
    /\ sendPC[s] = "send" =>
         sendMail[s].table = "SENT" /\ sendMail[s].id = 0 /\ sendResult[s] = "none"
    /\ sendPC[s] = "conclude" =>
         /\ sendResult[s] # "none"
         /\ sendMail[s].table \in {"QUEUED", "SENT"}
         /\ sendResult[s] # "SENT" => sendMail[s].id = 0
         /\ sendResult[s] = "SENT" =>
              sendMail[s].table = "SENT" /\ sendMail[s].id \in 1 .. accepted[sendMail[s].email]
    /\ \A m \in merged[s] : m.table = "SENT" /\ m.id \in 1 .. accepted[m.email]
    /\ \A m, n \in merged[s] : m.email = n.email => m = n

\* An email is in one sender's hand, and then its row is in SENT without an id,
\* where no other sender and no bounce finds it.
HandOK(e) ==
    /\ \A s \in Senders : Holds(s, e) =>
         \E w \in rows : w.email = e /\ w.table = "SENT" /\ w.id = 0
    /\ \A s, t \in Senders : Holds(s, e) /\ Holds(t, e) => s = t
    /\ \A s \in Senders : ~ (Current(s, e) /\ Merged(s, e))

\* What was accepted as often as its answer was lost, and no oftener.
Unsent(e) ==
    \/ RowsOf(e) = {}
    \/ \E w \in RowsOf(e) : w.table = "QUEUED"
    \/ \E s \in Senders : Current(s, e) /\ sendResult[s] # "SENT"
AcceptedOK(e) ==
    /\ Unsent(e) => accepted[e] <= timeouts[e]
    /\ accepted[e] <= 1 + timeouts[e]

\* A bounce names an id that was stored, and the row stays until it is moved.
BounceOK ==
    /\ \A m \in bounced : m[2] # 0
    /\ \A w \in found : w \in rows /\ w.table = "SENT" /\ w.id # 0
    /\ bouncePC = "delete" => addresses \subseteq suspended
    /\ \A e \in suspended \cup addresses : \E w \in rows : w.email = e /\ w.table = "BOUNCED"

QueuedUnsent == \A w \in rows : w.table = "QUEUED" => w.id = 0

\* What the failures of nodes, database and locks may undo.
CalmOK ==
    ~ broken => \A w \in rows :
         /\ w.table = "SENT" => accepted[w.email] > 0 \/ \E s \in Senders : Current(s, w.email)
         /\ w.table = "BOUNCED" => w.email \in suspended \cup addresses

MailInv ==
    /\ TypeOK
    /\ OneRow
    /\ QueuedUnsent
    /\ \A s \in Senders : SenderOK(s)
    /\ \A e \in Emails : HandOK(e) /\ AcceptedOK(e)
    /\ BounceOK
    /\ CalmOK

==============================================================================
