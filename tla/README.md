# SegMail: a verification project

SegMail is a mailing list application: clients build lists, subscribers sign
up, confirm and leave, and campaigns send emails to lists through Amazon SES.
It is a Java EE application (EJB, JPA, JMS, JSF) that runs on several server
nodes over one MySQL database, with a few scripts of its own in the browser. This directory holds TLA+ models of its
concurrent core, the TLC runs that check them on small instances, and theorems
checked by TLAPS. Paths below are relative to `src/src/main/java/`, or to
`src/src/main/webapp/` for scripts.

## 1. The system

### Components

| component | state it keeps | operations | hard behaviour | correct means |
|---|---|---|---|---|
| **Batch engine** `eds/component/batch`, `eds/entity/batch` | a run in one of seven tables, one per status; JMS queue | cron every 10 s per server, `transit`, `BatchJobExecutor.onMessage`, `scheduleNextRun` | two transactions per transition, several executors, redelivery, crashes | one copy of a run, none lost, executed at most once, one successor |
| **Batch scheduling and forms** `BatchSchedulingService`, `seca2/program/batch` | the run kept in the session | create, trigger, cancel, edit, assign a server | stale forms against the running engine | an early cancel is final; edits do not duplicate runs |
| **Outbound mail** `MailServiceOutbound`, `eds/entity/mail` | EMAIL_QUEUED, _SENT, _ERROR, _BOUNCED; retries; message ids | `queueEmail`, `processEmailQueue`, `sendQuickMail`, `sendEmailNow` | senders on several nodes with the same page, lost answers of SES, retry | an email is in one table and accepted once per lost answer; every queued email ends |
| **Inbound mail** `MailServiceInbound` | SQS messages | `processAllBounce` | bounces before their id is stored, redelivery, deletion of messages | bounced and suspended agree; a bounce is not forgotten |
| **Campaign execution** `segmail/component/campaign` | activity status, jobs | start, job run, continue, save | a job committed before the status, second clicks, stale pages, runs that fail | an activity that is EXECUTING has a job; jobs end |
| **Subscriber import** `programs/subscribers/js/import_subscriber_popup.js`, `WSImportSubscribers` | counters and errors of the page, selected lists of the session | count, send chunk after chunk, add up answers, write the error file | calls side by side, answers in any order, a session that changes under them, lost answers | at Done every row is subscribed or reported |
| Campaign definition, links | activities, contents, clicks | create, edit, count clicks | none of note | |
| **Subscription life cycle** `SubscriptionService`, `MassSubscriptionService` | accounts, subscriptions, counts per list | subscribe, upload, confirm, unsubscribe, bounce, recount | concurrent sign-ups, old links, asynchronous recount | one account and one held subscription per address, nobody confirmed who left, the count is right |
| Lists, subscribers | lists, fields | create, query | none of note | |
| **Datasource sync** `subscription/datasource` | indices, cycles, LAST_SYNC | `syncNew`, `syncRemoved` | offsets into a list that shrinks, runs that end in the middle | the list gets in line with the remote table and stays so |
| Autoresponders, mail merge, timeline, reporting | templates | text, queries | none | |
| **User accounts** `eds/component/user` | counter of failures, lock, reset token | login, reset | lost updates of the counter | the account locks in time |
| Web services, client and AWS registration | tokens, queues, topics | authenticate, register | a registration that fails half way | a registration can be completed later |
| Servers, bootstrap chain, JSF programs, layouts, menus, files | configuration, session | one request each | none | |

`GenericObjectService`, `UpdateObjectService` and `TransactionService` come
from the EDS library, which is not in this repository. They are modelled from
how the code here uses them and are marked external in `PROJECT.json`.

### Interaction

    form / web service -> campaign: startSendingCampaignEmail
          -> batch: createSingleStepJob        (a run in SCHEDULED)
    batch: cron -> JMS -> executor -> job step (reflection)
          -> campaign: executeCampaignActivity -> mail: queueEmail
          -> mail: processEmailQueue -> SES ... SNS -> SQS
          -> mail: processAllBounce -> subscription: mark as bounced
    batch: scheduleNextRun -> condition: continueCampaignActivity
    browser: import popup -> WSImportSubscribers -> subscription: massSubscribe
    batch: cron -> syncList -> subscription: massSubscribe, updateSubscription
    subscription: massSubscribe -> updateSubscriberCount (asynchronous)

Nearly everything asynchronous runs as steps of batch jobs, so the batch engine comes
first in the models; what it promises (`JobChain`) is what the others assume. The
transactions of `massSubscribe` come next: the web pages, the import and the
synchronization all go through them.

### Where the code is hard

`PROJECT.json` lists every hazard at its line. The main ones: `transit` deletes
and inserts in two transactions; JMS delivers again after a crash; `QUEUED` rows
are never looked at again; sessions and running jobs merge entities they read long
ago; message ids are stored up to a hundred emails after SES gave them; a statement
with its clauses twice fails every run of a campaign, and a failed run has a
successor; `massSubscribe` reads what exists and inserts what is missing with nothing to
stop another transaction, or a second row of the same call, from doing the same; a count
is stored beside the rows it counts, and recounted by threads of their own; the
answers of the import are added up in counters that every import of the page
shares.

## 2. Modules

| module | what it models |
|---|---|
| `BatchEngine` | crons, JMS queue, executors, cancel forms over one set of rows |
| `JobChain` | what the engine promises: executed at most once, at most one successor |
| `BatchEngineEdit` | `BatchEngine` with the forms that edit and reassign a run |
| `BatchEngineProofs` | lemmas per action and the type theorem |
| `BatchSafetyProofs` | the inductive invariant and the safety theorems: one copy, one execution, linear chains, no run lost without a failure, what undoes a completion, early cancellation, and that the engine implements `JobChain` |
| `BatchEditProofs` | the same invariant with the forms that edit and reassign a run |
| `MailDelivery` | queue, senders, SES, bounces |
| `MailProofs` | the inductive invariant of `MailDelivery` and its theorems |
| `CampaignExecution` | one campaign activity, its jobs and forms |
| `CampaignProofs` | its types, and that an activity which shows EXECUTING has a job |
| `Subscription` | accounts, subscriptions and counts of one list, and the transactions on them |
| `SubscriptionProofs` | the inductive invariant of `Subscription` and its theorems |
| `DatasourceSync` | `syncList`; extends `Subscription` and shares its transactions |
| `SyncProofs` | types of `DatasourceSync`, and that the invariant of `Subscription` survives it |
| `SubscriberImport` | the import popup in the browser and the web service behind it |
| `ImportProofs` | the inductive invariant of `SubscriberImport` and its theorems |
| `MC...` | symmetry and set values for TLC, one for each module that is run |

Definitions that begin with the comment *Mutant* are variations of the
definition below them, one plausible bug each. No specification uses them; they
show, for every property, that it can fail.

### BatchEngine

A row is `[key, table, status, server]`. The *table* is the entity class; the
*status* is its STATUS column, which cancelling and failing change in place.
The same record stands for the detached entity that a process holds, so a stale
entity is simply an old record.

* **Transitions.** `transit` is called on another bean and commits each of its
  statements, so it is two actions of its caller (`TransitDelete`, then
  `TransitInsert`, `TransitFallBack` or `TransitLost`). `removeRun2` deletes
  only if table *and* STATUS are what the caller believes. When the new row is
  refused and the old one is put back, `transit` returns normally: the caller
  goes on as if it had worked. The ghost `unlocked` collects the runs this
  happened to under the executor that locks them, and properties except them.
* **Cron.** `processBatchJobQueue` is called on `this`, so its
  `NOT_SUPPORTED` has no effect: messages join the transaction of the timer
  callback and are published at its end (`CronCommit`). A singleton's write
  lock keeps one server's crons apart; other servers have their own.
* **Executor.** The bean declares no transaction attribute, so `onMessage` runs in a
  container transaction. A runtime exception returns the message, or drops it
  when the attempts are used up (`Rethrow`); a `BatchProcessingException`
  consumes it. `scheduleNextRun` means to read the run again, but its
  `em.find` may be answered from the persistence context of that transaction:
  `RereadsRow` chooses, and both values are checked and covered by the proofs.
* **Cancel.** `cancelBatchJobRun` reads the run and commits CANCELLED in place
  (`CancelRead`, `CancelCommit`), without looking at its status.
* **Environment.** `FaultKinds` names the failures (a refused DELETE, INSERT or
  merge, a JMS exception, a node that dies), and `MaxFaults` bounds their
  number. Times are abstracted to `due`. Several rows of one key make Hibernate's `find`
  throw.

### BatchEngineEdit

`ProgramBatch` keeps the run it edits in the session; `updateBatchJobRun`
merges it over whatever happened since: a missing row is inserted again. The
row becomes SCHEDULED, or WAITING when the form's time is blank; it stays in
the table it is in, and no cron selects a WAITING row until somebody edits it
again. `updateEditable` has no case for QUEUED, so the flag keeps its last
value. The ghost `reinserted` collects the runs whose row had left its table
when they were saved.

### MailDelivery

An email moves between tables like a run, by `TransactionService.transitTx`,
assumed to be atomic, to throw `TransactionLockingException` when the row has
left the caller's table, and to write the caller's values. The move to SENT
*before* SES is called is the lock; a refusal moves the email back to QUEUED or,
after `NumRetries`, to ERROR. The `continue` of the catch clauses does not skip the finally
clause, so the sender that lost the race goes through `Conclude` as well. SES
answers its n-th acceptance of an email with message id n; the ids are merged in the
open transaction and become visible at `Commit`. The persist of
`sendQuickMail` is taken as committed when the lock sees it. A duplicate delivery
by SQS is not modelled; redelivery after a failure is (`BounceFails`).
`broken` records that a failure other than a refusal or a lost answer occurred.

### CampaignExecution

`createTargetSubscriberQueryString` appends its ORDER BY and LIMIT clauses twice
(`CampaignService.java:1048-1054` and 1055-1061). MySQL rejects the statement, so
`getTargetedSubscribers` throws at the first page of every run, and
`executeCampaignActivity` has written nothing by then. What follows the first page in the
code (batches, the bounce rate, emails and their trigger rows, LAST_INDEX, COMPLETED,
SUSPENDED) belongs to no state the program can reach, and the module leaves it out.

What remains is the life of the jobs. `startSendingCampaignEmail` is not in a transaction: it
commits a job (`StartSendingCampaignEmail`) and sets EXECUTING in another transaction
(`SetExecuting`), which may fail or come after the job's first run; nothing looks
at the status before, so there may be several jobs. `ExecuteCampaignActivity` is a run
that throws; `scheduleNextRun` stops for cancelled runs only, so the condition is asked all
the same (`ContinueCampaignActivity`). Saving sets EDITING whatever was
stored. Jobs behave as `JobChain` promises: one run at a time, and a failure may end the chain.

### Subscription

The tables hold, for each address, its accounts and its subscription rows to one list. A
transaction of `massSubscribe` is two actions: `MassSubscribe` is everything it
reads, and `Commit` is everything it writes; other transactions come in between.
A transaction that replaces the count holds `lock`: `updateSubscriberCount`
removes the row it has read, so that of two at a time one fails
(`RecountFails`, and the guard of `UpdateSubscriberCount`). Recounts that
`massSubscribe` starts wait in `due` for a thread, before or after the commit.
`sendConfirmationEmail` loads a subscription and merges it later (`resend`).

A call is given rows, and `mergeDuplicates` merges those whose addresses agree but for
case. The blanks around an address are cut off only afterwards, so an address may be in
the call twice: `Spaced` are the addresses a file may have in two spellings, `twice` those
this call has so. Both rows look into the tables and not at one another; a new address gets two accounts
with a subscription each, an account that exists gets two subscriptions, or the transaction is
rolled back because both rows insert the same field value. Sign-ups and the
synchronization (which trims what it reads) pass each address once.

What the database does is assumed: each transaction reads one snapshot (repeatable
read); a subscription row is identified by target, source and a sequence number
(`db patches/#159 Dashboard and Wizard.sql:23`), so that one account may have
several; accounts are sorted and the first is used. `History` switches the
history variables (`overlapped`, `readded`, `left`, `missed`), which record
what the properties except; `DatasourceSync` needs none of them.

What the model has to except is what the code does not prevent:

* two transactions at one new address make two accounts, as do two spellings of it in one
  file (`overlapped` has the address in both cases), and each sign-up after
  leaving adds a row with the same key. The confirmation link of an address with
  two rows always fails (`SubscriptionService.java:563-565`, although the comment
  at 636-637 calls a duplicate impossible), and restoring sets both rows CONFIRMED;
* unsubscribing by key reaches the rows of one account, when an address has two;
* resending the confirmation email writes back the status that was loaded and
  makes an old link work again;
* a recount that runs before the commit it was started for leaves the count as it
  was, and nobody counts again.

### DatasourceSync

A run of `syncList` takes the indices saved by the last one, subscribes pages of
the remote table (one transaction of `Subscription` for each page), then walks the
local list by offset and unsubscribes who is not in the remote table, one update
transaction each, and saves where it stopped. The list shrinks under the offset; a page that
is empty starts the next cycle. A failed query ends the phase, an exception of an
update (another recount under way) ends the run, a crash loses the indices. The removal
index moves after the updates of a page, so a run that fails there takes the page again. The
remote addresses are taken to be there, valid, and spelled as they are stored: a NULL
address is an exception of every run that reads its page (`DatasourceQueryService.java:121`), and one
with a blank in front is subscribed and unsubscribed again in every cycle. One
synchronization of a list runs at a time: the check of LAST_SYNC that should keep
a second node away is a hazard listed without a property. The finally clause
writes COMPLETE over every message the catch clauses set, which nothing reads.

### SubscriberImport

The browser side is one page with its shared counters (`PanelUpdater`,
`checkedErrorsCollector`), any number of clicks on *Import* up to
`MaxAttempts`, and the calls under way; the server side is the list selection of
the session and the transactions of each call, one for each selected list.
Callbacks of the browser are atomic; between them answers arrive in any order, and
the user may choose another file or other columns, select other lists, click again or leave
(`disturbed`). A row is known by its address and how that is spelled; a line of `Short`
may end before a column that is selected (`cut`), and then has no value for the lists
whose e-mail field names it. What the module makes plain, and its properties except:

* an import is never resumed: LAST_PROCESSING_POSITION is written once, as -1
  (`WSImportSubscribers`, although comments there and in the script promise to
  start from it);
* the rows of a failed call are neither counted nor sent again, so Done never appears;
* one row without a value for the e-mail field of the last list is a
  NullPointerException (`SubscriptionService.java:1264`): the call fails with all its
  rows, the good ones too. A value that is there and empty is reported as an error;
* the columns can be changed while an import runs, and the chunks read later go by them;
* a second click resets the counters while answers of the first import are still
  to come, and the Done button of an earlier import stays;
* a new selection clears and refills the session's lists under the calls: some fail,
  and a call that meets the empty selection in its loop is answered as a success;
* a second list that is rolled back fails the call although the first is committed;
* an empty last chunk writes the error file twice; an unreadable file while lines
  are counted, or a failed refresh, leaves the form covered.

`programs/list/js/import.js` is nearly the same code, older, and not modelled twice.

## 3. Runs

| run | shows |
|---|---|
| `batch_chain` | three runs, two servers, two executors, any two failures except a refused first insert: `SingleCopy`, `NothingLost`, `ExecutedAtMostOnce`, `LinearChain`, and `ImplementsChain` (refinement) |
| `batch_live` | an administrator who cancels at any moment, messages delivered again: the inductive invariant `IInv`, every run ends (`EveryRunEnds`), an early cancel is final (`EarlyCancelIsFinal`), and only a cancel form undoes a completion (`OnlyCancelUndoesCompletion`) |
| `batch_edit` | edits and reassignment: a run is duplicated or executed twice only after a save that inserted it again |
| `batch_cancel_chain` (violation) | finding: cancelling an executing run does not stop its chain |
| `mail_delivery` | two senders, bounces, any two failures: `OneTable`, `AcceptedOnce`, `SentWasAccepted`, `BouncedIsSuspended`, the inductive invariant `MailInv`, and, while nothing but SES fails, `QueuedEnds` and `BounceArrives` |
| `mail_given_up` (violation) | finding: a lost race moves a valid email to ERROR |
| `campaign_job` | two sessions, three jobs, one failure: `ExecutingHasJob` with its invariant `CampaignInv`, and saving an activity ends its jobs (`SavedJobsEnd`) |
| `campaign_lists` (violation) | finding: the job of an activity never comes to an end |
| `subscription_twice` (violation) | finding: one import makes two accounts and two subscriptions of an address in two spellings |
| `subscription` | two callers, two addresses (one in two spellings), three acts, one failure or bounce: `OneSubscription`, `LeavingHolds`, `CountRight`, and the inductive invariant `SubInv` |
| `datasource_sync` | one act and one failure at any place of the cycles: `SyncConverges` |
| `subscriber_import` | three rows in two chunks, one invalid, two of one address in two spellings, of which one may be short, any selection of two lists, two clicks: `DoneMeansSubscribed`, `NoRowCountedTwice`, `ErrorFileComplete`, `OverlayIsBusy`, the inductive invariant `ImportInv`, and `ImportEnds` |

**Bounds.** The races are between two processes over one row: two servers,
two executors, two senders or two callers make each of them happen, and a third would only
repeat a role. Three run keys give a chain of three, or a chain and a second
job; two emails give overlapping lists in different orders. Two failures allow
a failure during the handling of another. Three jobs and two sessions give a second
click, a job of another session, and one to start after a save. `RunKeys` bounds the chains: without a fresh
key a condition "does not hold". `MaxMessages` and `MaxSaves` exist only in `BatchEngineEdit`,
where a SCHEDULED and a QUEUED row of one run make every cron send one more
message. In `Subscription`, `MaxAct` 3 is a sign-up, leaving and a second
sign-up, with links, resent emails, bounces and recounts in between; `MaxDue` bounds the
recounts that wait. A synchronization with pages of one address and two batches
needs two runs for a cycle over two addresses. Three rows in chunks of three lines (the
header is one) are a full and a short chunk. Where the bounds of the safety
runs could hide something, the theorems of section 4 do without them. Keys,
servers, executors and callers are interchangeable, and safety runs use
that as symmetry; no run with a liveness property does.

**Deadlock** is checked in the batch runs, the campaign runs and in
`datasource_sync`. The other models may stop: all emails may have ended and no
bounce be left, and users owe a list or an import nothing.

**Fairness.** `BatchEngine`: time passes (`BecomeDue`), each server's timer
fires and its loop goes on (`CronRuns`), JMS delivers a pending message to some
idle executor (`Deliver`, one fairness condition per key, because JMS does not
starve a message), and an executor goes on (`ExecRuns`). Administrators and
failures are not fair. `EveryRunEnds` is checked with `FaultKinds = {"next"}`
only: after a refused insert, a lost commit of the cron or a crash between
DELETE and INSERT a run stays where it is for ever, because no code looks at it
again (hazards list). `MailDelivery`: the jobs that run `processEmailQueue` and
`processAllBounce` come again and again, and their threads go on. `CampaignExecution`: a
job's runs are executed and its condition is asked, as `EveryRunEnds` says of runs; users
owe nothing. `SubscriberImport`: the
browser calls its callbacks, the server's threads go on, and answers that are not lost
arrive; users owe nothing. `DatasourceSync`: the cron starts the job again and
again, transactions commit or fail, and recounts get a thread.

### Findings

1. *A cancellation during execution does not stop the chain*
   (`BatchJobExecutorHelper.java:63`; the promise is at
   `BATCH_JOB_RUN_STATUS.java:72-74`). FAILED overwrites CANCELLED and
   `scheduleNextRun` stops for CANCELLED only.
2. *A valid email is given up after one attempt*
   (`MailServiceOutbound.java:140` against its comments at 132 and 141).
3. *A campaign job never ends and sends nothing*
   (`CampaignService.java:1055`; the comment at 472-473 has the runs end when "the lists are
   done"). The statement for a page has its ORDER BY and LIMIT twice, each run throws,
   the status stays EXECUTING, and the next run is scheduled.
4. *Duplicates of an address are not filtered off*
   (`SubscriptionService.java:1264` against `MassSubscriptionService.java:131`): rows are
   compared before their blanks are cut off.

Two more divergences have no run of their own. `massSubscribe` means not to add
back who unsubscribed or bounced (comment at `MassSubscriptionService.java:197`), and
`DatasourceService.java:200-201` says that a record of any status is not synced over;
but the look-up selects NEW and CONFIRMED only, and what it does not find is
inserted: an address that left is subscribed again by the next import, and again
and CONFIRMED by the next synchronization whose remote table has it. The modules have this
(`Exists` in `Subscription`), and `SyncConverges` states its end.

A cancel form also takes a run out of COMPLETED (`BatchSchedulingService.java:403`,
where `BATCH_JOB_RUN_STATUS.java:55-59` documents no transition); it has no run of
its own, because `OnlyCancelUndoesCompletion` states exactly this exception.

## 4. Proofs

The theorems hold for all values of the constants under the assumptions of the
modules: any number of keys, servers, executors, administrators, emails, senders,
subscribers, jobs, sessions, addresses and callers, any failures, any bounds,
pages, batches and chunks of any size, and files and lists of any length.

| theorem | statement |
|---|---|
| `TypeCorrect` | `Spec => []TypeOK` (`BatchEngine`) |
| `Invariant` | `Spec => []IInv` |
| `OneTable` | `Spec => []SingleCopy` |
| `AtMostOnce` | `Spec => []ExecutedAtMostOnce` |
| `Linear` | `Spec => []LinearChain` |
| `EarlyCancel` | `Spec => EarlyCancelIsFinal` |
| `Implements` | `"insert" \notin FaultKinds => (Spec => ImplementsChain)` |
| `NoneLost` | `Spec => []NothingLost` |
| `CompletionStays` | `Spec => OnlyCancelUndoesCompletion` |
| `EditTypes` | `EditSpec => []EditTypeOK` (`BatchEngineEdit`) |
| `EditedSingleCopy` | `EditSpec => []SingleCopyUnlessReinserted` |
| `EditedAtMostOnce` | `EditSpec => []ExecutedAtMostOnceUnlessReinserted` |
| `EditedLinear` | `EditSpec => [](no chain of a run that was not reinserted forks or skips)` |
| `MailIsSafe`, `MailTypes` | `Spec => []MailInv`, `Spec => []TypeOK` (`MailDelivery`) |
| `MailAcceptedOnce` | `Spec => []AcceptedOnce` |
| `MailSentWasAccepted` | `Spec => []SentWasAccepted` |
| `MailBouncedIsSuspended` | `Spec => []BouncedIsSuspended` |
| `MailOneTable` | `Spec => OneTable` |
| `CampaignTypes` | `Spec => []TypeOK` (`CampaignExecution`) |
| `CampaignIsSafe` | `Spec => []CampaignInv` |
| `ExecutingIsServed` | `Spec => []ExecutingHasJob` |
| `SubscriptionTypes` | `Spec => []TypeOK` (`Subscription`) |
| `SubscriptionIsSafe` | `History => (Spec => []SubInv)` |
| `OneSubscriptionEach` | `History => (Spec => []OneSubscription)` |
| `LeavingStands` | `History => (Spec => []LeavingHolds)` |
| `CountIsRight` | `History => (Spec => []CountRight)` |
| `SyncTypes` | `SyncSpec => [](TypeOK /\ SyncTypeOK)` (`DatasourceSync`) |
| `SyncIsSafe` | `History => (SyncSpec => []SubInv)` |
| `SyncKeepsSubscriptions` | `History => (SyncSpec => [](OneSubscription /\ LeavingHolds /\ CountRight))` |
| `ImportTypes` | `Spec => [](TypeOK /\ Sound)` (`SubscriberImport`) |
| `ImportOverlay` | `Spec => []OverlayIsBusy` |
| `ImportIsSafe` | `Spec => []ImportInv` |
| `NoRowTwice` | `Spec => []NoRowCountedTwice` |
| `ErrorFile` | `Spec => []ErrorFileComplete` |
| `DoneIsDone` | `Spec => []DoneMeansSubscribed` |

**Batch engine.** None of the properties is inductive. That a run is executed once
depends on where every process stands: an executor that is past the lock must
own the run, and no stale list, message or entity may match the row
again. `IInv` says so in parts: each process holds what its next step
needs (`ProcessOK`); a key not yet generated appears nowhere
(`FreshKeysUnused`); what an executor finishes was executed (`Executed`); and for
each run that did not fall back (`KeyOK`) there is one copy, and none while somebody carries it (`OneCopy`),
one process that moves it (`OneMover`), no executor past the lock while it is still in front
of the lock, and one at most after (`OneLock`), and the
executor past the lock has an IN_PROCESS entity and has not scheduled a
successor before the end (`LockedRun`). The heart is that a DELETE that removed
a row entitles exactly one process to insert it again, and that the three
things that could bring a run back in front of its lock (cron, executor,
form) all need its row in SCHEDULED or QUEUED with that STATUS.

`BatchEngineProofs` proves the first two parts, one lemma per action;
`BatchSafetyProofs` proves `KeyOK` per action, for one key from that key's `KeyOK`
and from what is shared (`BaseInv`); the theorems follow.
`EarlyCancel` and `Implements` are step properties: from `IInv`, each step of
the engine is the abstract step or leaves `created`, `parent` and `starts`
alone. `Implements` needs that no first insert is refused: after the fallback
two executors may execute one run, which the abstract specification forbids.
`NoneLost` has an invariant of its own: a created run has a row, or a process
stands at the second half of its transition and will insert it. `CompletionStays`
is a step property again: a row in COMPLETED can be matched by no DELETE of a
process with a stale entity, because the row is in that table alone.

**Edit forms.** That `KeyOK` of a key needs `KeyOK` of no other key is what carries
over to `BatchEngineEdit`: a save that inserts a run again breaks everything that
holds of that run, and of no other. For the rest, `KeyOK` speaks of the *tables* of
rows and never of their status, server or time. A save that finds the row
in the entity's table changes just those, so it keeps `KeyOK` at any moment, also
when it undoes a cancellation or leaves a row SCHEDULED in the table of the
QUEUED ones; reassigning a server does so always. The theorems need nothing of
`editable`: that the button is shown too long (no case for QUEUED) harms no run that
was not reinserted.

**Mail.** `MailInv` says that an email in a sender's hand has its row in SENT
without a message id. There neither another sender's list (its move needs the
row in QUEUED) nor a bounce (its look-up needs an id) finds it, so a sender has it
alone (`HandOK`), and it can be accepted only once before it is requeued.
`AcceptedOK` counts: while an email is queued, or handled and not accepted, SES has
accepted it at most as often as an answer was lost. `BounceOK` says that what
the bounce reader has found stays in SENT until it is moved.

**Campaign.** That an activity which shows EXECUTING has a job is not inductive: the status is set
after the job was committed. `CampaignInv` adds that the job of a session
between its two transactions is still alive. A job ends by `ContinueCampaignActivity` only
when the status is not EXECUTING, and then `outran` records the case that its session
has still to set it; so while nothing failed and no job outran its session, the last job of
an EXECUTING activity stays.

**Subscription.** `SubInv` is stated per address that no two transactions, and no two rows
of one call, were at together: one transaction at a time is there (`OneAtATime`), it has one account
(`OneAccount`), what the transaction has read is still the row
and not in the call twice if it is new (`ReadIsCurrent`, `LoadedIsCurrent`), an update reaches all rows
(`LockReachesAll`), and so at most one is held (`HeldOnce`) and none is CONFIRMED
after leaving (`NotConfirmed`). For the count (`CountOK`): a recount was missed, one is
still due, or the stored count and what an update is about to store are right. The history
variables are part of the statement, hence `History`.

**Synchronization.** A step of `DatasourceSync` is, on the tables, a step of
`Subscription`, a `massSubscribe` or an update started by the run without the
bound on acts, a change of the bounds alone, or a crash that rolls back what the
run had open (`SubscriptionStep`). `SubInv` survives each of them, by the lemmas of
`SubscriptionProofs`. The type invariant says in addition that the keys
collected from a page stay keys of accounts, because no account is ever removed, and that a run
which waits for its update holds the lock.

**Import.** `ImportInv` has a part that holds whatever the user does: an import reads on where a
chunk ended, and one reason at a time covers the form (`OneCover`), which is
what makes the toggle of `block_refresh` right. The rest holds while
nothing disturbs the import. A row is unread, in one call, or behind (`RowsOnce`); for each
list, a call has subscribed its rows or keeps an error for their address
(`CallsHandle`); and the rows behind that are settled for every list are at least as
many as the panel counts (`CountedAreSettled`). At 100 % that are all rows, hence
`DoneIsDone`. `NoRowTwice` follows by counting disjoint sets
of rows: unread, in a call, settled. An induction over the set of calls is avoided by stating the
invariant with the union of their rows. The error file (`FilesWritten`): every file holds the
errors of the panel, and there is a second one only for the call without rows that
a file ending with a chunk provokes.

**Only model-checked.** Liveness (`EveryRunEnds`, `QueuedEnds`, `BounceArrives`,
`SavedJobsEnd`, `ImportEnds`, `SyncConverges`), which needs fairness and ENABLED. Every
safety property of the passing runs is a theorem; `Implements` with a condition the
runs also make, that no first insert is refused. The
findings are counterexamples of TLC.

## 5. Not modelled

* Job logs and error rows, wording, e-mail content, mail merge, layouts: nothing
  the properties tell apart depends on them.
* Clock values: `due` and the order of lists are free choices.
* `deleteBatchJobRun` and the definition of jobs, steps and schedules: plain
  statements of one transaction. `deleteBatchJob` always throws.
* Many verified senders in `processAllBounce`, and its look-up in the old EMAIL table.
* What `executeCampaignActivity` does behind its first page, which no run reaches: a model of
  it would be of another program. Link clicks, previews and filters of campaigns;
  `deleteCampaignActivity`, which no page calls. The link rewriting in
  `edit_campaign_activity.js` and `edit_email.js` is not called.
* Remote addresses that are missing or have blanks in front (section 2, `DatasourceSync`).
* Other lists of an account, which an unsubscribe key reaches as well; two
  synchronizations of one list at a time.
* The login counter and the registration of a client: the first is one number that
  parallel attempts overwrite, the second a sequence of calls of AWS that nothing
  resumes; a model would restate the code.
* JavaScript: of some 128,000 lines nearly all are vendored libraries (chart,
  editor, table and layout plug-ins). The scripts of the application besides the
  import are one request each.
* Components without a module in the table of section 1; `PROJECT.json` gives
  the reason for each.

## 6. What is left

1. **Composition**: `CampaignExecution` over `JobChain` (INSTANCE), replacing
   the job life cycle it now assumes; and, once a page query can succeed, what a run does
   with its pages.
2. **Abstract mail**: a specification of what mail delivery promises (queued,
   accepted, given up, bounced), refined by `MailDelivery`.
3. **Two synchronizations** of one list at a time, and the recounts of two lists.
4. **Proofs**: the refinements that the first two will need, and what
   `EarlyCancelIsFinal` becomes under `BatchEngineEdit`, where a save may undo a
   cancellation.
