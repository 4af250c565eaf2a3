------------------------------ MODULE BatchEngine ------------------------------
(***************************************************************************)
(* The batch job engine of eds/component/batch and eds/entity/batch: the   *)
(* cron of every server that reads due runs and queues them, the JMS queue *)
(* between the servers, the message driven beans that lock, execute and    *)
(* finish a run and schedule the next one, and the administrator's forms   *)
(* that cancel a run.                                                      *)
(*                                                                         *)
(* A run lives in one of seven tables, one per status (TABLE_PER_CLASS):   *)
(* a transition DELETEs the row from the old table in one transaction and  *)
(* INSERTs it into the new one in another.  A row is [key, table, status,  *)
(* server]; cancelling and failing change "status" in place and leave the  *)
(* row in its table.  Jobs are not told apart: a run knows only the run    *)
(* whose executor scheduled it.                                            *)
(***************************************************************************)
EXTENDS Naturals, Sequences, FiniteSets

CONSTANTS RunKeys,     \* RUN_KEYs that BatchJobRunListener may generate
          Servers,     \* server nodes, each with its BatchProcessingService
          Executors,   \* pooled BatchJobExecutor instances of all servers
          Admins,      \* sessions of the administrator's /batch program
          NoRun,       \* "no run", outside RunKeys
          MaxJobs,     \* system property MAX_JOBS_PER_CRON
          RereadsRow,  \* whether scheduleNextRun's em.find goes to the database
          FaultKinds,  \* failures the environment may inject
          MaxFaults    \* bound: how many failures it injects in all

\* "delete", "insert", "restore", "merge", "next": the database refuses the
\* statement of that name; "send": JMSException; "crash": a node dies.
AllFaults == {"delete", "insert", "restore", "merge", "next", "send", "crash"}

ASSUME BatchAssumption ==
    /\ NoRun \notin RunKeys
    /\ MaxJobs \in Nat \ {0}
    /\ RereadsRow \in BOOLEAN
    /\ FaultKinds \subseteq AllFaults
    /\ MaxFaults \in Nat

Label == {"SCHEDULED", "QUEUED", "IN_PROCESS", "COMPLETED", "FAILED", "CANCELLED"}

\* A row, and also the detached entity a process holds: "table" is its class.
Row == [key : RunKeys, table : Label, status : Label \cup {"WAITING"}, server : Servers]

VARIABLES
    rows,      \* the seven BATCH_JOB_RUN_* tables together
    created,   \* keys generated so far (RUN_KEY is random and never reused)
    parent,    \* the run whose executor scheduled this one, or NoRun
    due,       \* runs whose SCHEDULED_TIME has passed
    inbox,     \* JMS queue: pending messages per key, in no order
    cronPC, cronList, cronSent,  \* cron and processBatchJobQueue on every server
    execPC, execKey, execRun,    \* onMessage of every executor
    adminPC, adminRun, adminAgain, \* a cancel form being submitted
    starts,    \* how often the steps of a run were executed
    unlocked,  \* runs whose IN_PROCESS insert failed and fell back to QUEUED
    faults     \* failures injected so far

cron == <<cronPC, cronList, cronSent>>
exec == <<execPC, execKey, execRun>>
admin == <<adminPC, adminRun, adminAgain>>

vars == <<rows, created, parent, due, inbox, cron, exec, admin, starts,
          unlocked, faults>>

ghosts == <<created, parent, due, starts, unlocked>>

CronPC == {"idle", "delete", "insert", "send", "commit"}
ExecPC == {"idle", "find", "lockDelete", "lockInsert", "run", "completeDelete",
           "completeInsert", "logErrors", "reread", "insertNext", "ack"}
AdminPC == {"idle", "cancel", "trigger"}

\* A process that holds no entity.
NoRow == [key |-> NoRun]

TypeOK ==
    /\ rows \subseteq Row
    /\ created \subseteq RunKeys
    /\ parent \in [RunKeys -> RunKeys \cup {NoRun}]
    /\ due \subseteq created
    /\ inbox \in [RunKeys -> Nat]
    /\ cronPC \in [Servers -> CronPC]
    /\ cronList \in [Servers -> Seq(Row)]
    /\ cronSent \in [Servers -> SUBSET RunKeys]
    /\ execPC \in [Executors -> ExecPC]
    /\ execKey \in [Executors -> RunKeys \cup {NoRun}]
    /\ execRun \in [Executors -> Row \cup {NoRow}]
    /\ adminPC \in [Admins -> AdminPC]
    /\ adminRun \in [Admins -> Row \cup {NoRow}]
    /\ adminAgain \in [Admins -> BOOLEAN]
    /\ starts \in [RunKeys -> Nat]
    /\ unlocked \subseteq RunKeys
    /\ faults \in 0 .. MaxFaults

Init ==
    /\ rows = {}
    /\ created = {}
    /\ parent = [r \in RunKeys |-> NoRun]
    /\ due = {}
    /\ inbox = [r \in RunKeys |-> 0]
    /\ cronPC = [s \in Servers |-> "idle"]
    /\ cronList = [s \in Servers |-> <<>>]
    /\ cronSent = [s \in Servers |-> {}]
    /\ execPC = [x \in Executors |-> "idle"]
    /\ execKey = [x \in Executors |-> NoRun]
    /\ execRun = [x \in Executors |-> NoRow]
    /\ adminPC = [a \in Admins |-> "idle"]
    /\ adminRun = [a \in Admins |-> NoRow]
    /\ adminAgain = [a \in Admins |-> FALSE]
    /\ starts = [r \in RunKeys |-> 0]
    /\ unlocked = {}
    /\ faults = 0

------------------------------------------------------------------------------
(* Statements on the tables, shared by every process.                       *)

\* A failure of kind k happens now.
Fault(k) ==
    /\ k \in FaultKinds
    /\ faults < MaxFaults
    /\ faults' = faults + 1

RowsOf(k) == {w \in rows : w.key = k}

\* Mutant: the DELETE does not ask for the status.
DoomedInAnyStatus(run) == {w \in rows : w.key = run.key /\ w.table = run.table}

\* The rows that removeRun2(run.getRUN_KEY(), run.STATUS()) deletes: the table
\* is named by the status the caller believes in, and STATUS must still be it.
Doomed(run) ==
    {w \in rows : w.key = run.key /\ w.table = run.status /\ w.status = run.status}

\* BatchJobRun.transit: a new entity of the class of the new status.
Moved(run, status) == [run EXCEPT !.table = status, !.status = status]

\* persist succeeds unless the table already holds the primary key.
CanPersist(w) == ~ \E v \in rows : v.key = w.key /\ v.table = w.table

\* A run scheduled for the first time, or by the executor of run p.
Fresh == RunKeys \ created
InsertScheduled(k, server, p) ==
    /\ rows' = rows \cup {[key |-> k, table |-> "SCHEDULED",
                           status |-> "SCHEDULED", server |-> server]}
    /\ created' = created \cup {k}
    /\ parent' = [parent EXCEPT ![k] = p]

\* Mutant: nobody looks at how many rows the DELETE removed.
TransitDeleteUnchecked(run) == rows' = rows \ Doomed(run) /\ UNCHANGED faults

\* Mutant: the DELETE is not flushed before the INSERT.
TransitDeleteUnflushed(run) == Doomed(run) # {} /\ UNCHANGED <<rows, faults>>

\* transit, first half: removed one row.
TransitDelete(run) ==
    /\ Doomed(run) # {}
    /\ rows' = rows \ Doomed(run)
    /\ UNCHANGED faults

\* transit, first half, with an exception: the run is not in that status
\* anymore, or MAX_DELETE_RETRIES attempts failed.
TransitRefused(run) ==
    /\ UNCHANGED rows
    /\ \/ Doomed(run) = {} /\ UNCHANGED faults
       \/ Fault("delete")

\* transit, second half: the new row is persisted.
TransitInsert(run, status) ==
    /\ CanPersist(Moved(run, status))
    /\ rows' = rows \cup {Moved(run, status)}
    /\ UNCHANGED faults

\* The insert fails and the old row is put back; transit returns normally.
TransitFallBack(run, status) ==
    /\ \/ ~ CanPersist(Moved(run, status)) /\ UNCHANGED faults
       \/ Fault("insert")
    /\ CanPersist(run)
    /\ rows' = rows \cup {run}

\* Both inserts fail: an EJBException, and the row is in no table.
TransitLost(run, status) ==
    /\ \/ ~ CanPersist(Moved(run, status)) /\ ~ CanPersist(run) /\ UNCHANGED faults
       \/ Fault("restore")
    /\ UNCHANGED rows

------------------------------------------------------------------------------
(* Scheduling, and time.                                                     *)

\* createSingleStepJob and createBatchJobRun: a job's first run.
ScheduleJob(k, s) ==
    /\ k \in Fresh
    /\ InsertScheduled(k, s, NoRun)
    /\ UNCHANGED <<due, inbox, cron, exec, admin, starts, unlocked, faults>>

\* SCHEDULED_TIME of a run passes.
BecomeDue(k) ==
    /\ k \in created \ due
    /\ due' = due \cup {k}
    /\ UNCHANGED <<rows, created, parent, inbox, cron, exec, admin, starts,
                   unlocked, faults>>

------------------------------------------------------------------------------
(* BatchProcessingService.cron, every 10 seconds on server s.  It calls       *)
(* processBatchJobQueue on itself, so no interceptor sees NOT_SUPPORTED and  *)
(* the JMS session takes part in the transaction of the timer callback: what *)
(* the loop sends reaches the queue when cron() returns.  transit is called  *)
(* on another bean and commits each of its statements.                       *)

\* getNextNJobRuns: the due runs of this server by SCHEDULED_TIME, at most
\* MaxJobs; the times are not modelled, so in any order.
DueRuns(s) == {w \in rows : /\ w.table = "SCHEDULED"
                            /\ w.status = "SCHEDULED"
                            /\ w.server = s
                            /\ w.key \in due}

NextNJobRuns(s) ==
    {l \in UNION {[1 .. n -> DueRuns(s)] : n \in 0 .. MaxJobs} :
        /\ \A i, j \in DOMAIN l : l[i] = l[j] => i = j
        /\ Len(l) = MaxJobs \/ DueRuns(s) = {l[i] : i \in DOMAIN l}}

\* The loop moves to the next run of the list, or ends.
Continue(s, list) ==
    /\ cronList' = [cronList EXCEPT ![s] = list]
    /\ cronPC' = [cronPC EXCEPT ![s] = IF list = <<>> THEN "commit" ELSE "delete"]

CronGoto(s, pc) == cronPC' = [cronPC EXCEPT ![s] = pc] /\ UNCHANGED cronList

\* An exception leaves the loop, and cron() catches all of them: the rest of
\* the list waits for a later cron.
Abort(s) == Continue(s, <<>>)

\* cron() is over.
CronEnds(s) ==
    /\ cronPC' = [cronPC EXCEPT ![s] = "idle"]
    /\ cronList' = [cronList EXCEPT ![s] = <<>>]
    /\ cronSent' = [cronSent EXCEPT ![s] = {}]

CronRead(s) ==
    /\ cronPC[s] = "idle"
    /\ \E l \in NextNJobRuns(s) :
         \/ l = <<>> /\ UNCHANGED <<cronPC, cronList>>
         \/ l # <<>> /\ Continue(s, l)
    /\ UNCHANGED <<rows, inbox, cronSent, exec, admin, faults>>
    /\ UNCHANGED ghosts

\* Mutant: the row is deleted and not inserted again.
CronDeleteOnly(s) ==
    /\ cronPC[s] = "delete"
    /\ \/ /\ TransitDelete(Head(cronList[s]))
          /\ CronGoto(s, "send")
       \/ /\ TransitRefused(Head(cronList[s]))
          /\ Abort(s)
    /\ UNCHANGED <<inbox, cronSent, exec, admin>>
    /\ UNCHANGED ghosts

CronDelete(s) ==
    /\ cronPC[s] = "delete"
    /\ \/ /\ TransitDelete(Head(cronList[s]))
          /\ CronGoto(s, "insert")
       \/ /\ TransitRefused(Head(cronList[s]))
          /\ Abort(s)
    /\ UNCHANGED <<inbox, cronSent, exec, admin>>
    /\ UNCHANGED ghosts

\* When the old row is put back the message is sent all the same.
CronInsert(s) ==
    /\ cronPC[s] = "insert"
    /\ LET run == Head(cronList[s])
       IN  \/ /\ TransitInsert(run, "QUEUED") \/ TransitFallBack(run, "QUEUED")
              /\ CronGoto(s, "send")
           \/ /\ TransitLost(run, "QUEUED")
              /\ Abort(s)
    /\ UNCHANGED <<inbox, cronSent, exec, admin>>
    /\ UNCHANGED ghosts

CronSend(s) ==
    /\ cronPC[s] = "send"
    /\ \/ /\ cronSent' = [cronSent EXCEPT ![s] = @ \cup {Head(cronList[s]).key}]
          /\ Continue(s, Tail(cronList[s]))
          /\ UNCHANGED faults
       \/ /\ Fault("send")
          /\ Abort(s)
          /\ UNCHANGED cronSent
    /\ UNCHANGED <<rows, inbox, exec, admin>>
    /\ UNCHANGED ghosts

\* The transaction of cron() commits and publishes the messages, or fails.
CronCommit(s) ==
    /\ cronPC[s] = "commit"
    /\ CronEnds(s)
    /\ \/ /\ inbox' = [k \in RunKeys |->
                         IF k \in cronSent[s] THEN inbox[k] + 1 ELSE inbox[k]]
          /\ UNCHANGED faults
       \/ Fault("send") /\ UNCHANGED inbox
    /\ UNCHANGED <<rows, exec, admin>>
    /\ UNCHANGED ghosts

\* The node dies inside cron(): the rows stay as they are, QUEUED ones too,
\* and no message was published.
CronCrash(s) ==
    /\ cronPC[s] # "idle"
    /\ Fault("crash")
    /\ CronEnds(s)
    /\ UNCHANGED <<rows, inbox, exec, admin>>
    /\ UNCHANGED ghosts

------------------------------------------------------------------------------
(* BatchJobExecutor.onMessage.  The bean has no transaction attribute, so    *)
(* the container delivers the message in a transaction: it is consumed when  *)
(* onMessage returns, which it also does after a BatchProcessingException,   *)
(* and returned to the queue when the node dies or onMessage throws anything *)
(* else, unless the delivery attempts are used up.                           *)

Become(x, pc, key, run) ==
    /\ execPC' = [execPC EXCEPT ![x] = pc]
    /\ execKey' = [execKey EXCEPT ![x] = key]
    /\ execRun' = [execRun EXCEPT ![x] = run]

Goto(x, pc) == execPC' = [execPC EXCEPT ![x] = pc] /\ UNCHANGED <<execKey, execRun>>
Hold(x, pc, run) == Become(x, pc, execKey[x], run)
Leave(x) == Become(x, "idle", NoRun, NoRow)

\* Another exception than the two onMessage catches.
Rethrow(x) ==
    /\ Leave(x)
    /\ \/ inbox' = [inbox EXCEPT ![execKey[x]] = @ + 1]
       \/ UNCHANGED inbox

\* Mutant: a key reaches an executor without a message.
DeliverUnsent(x, k) ==
    /\ execPC[x] = "idle"
    /\ inbox' = [inbox EXCEPT ![k] = @ - 1]
    /\ Become(x, "find", k, NoRow)
    /\ UNCHANGED <<rows, cron, admin, faults>>
    /\ UNCHANGED ghosts

Deliver(x, k) ==
    /\ execPC[x] = "idle"
    /\ inbox[k] > 0
    /\ inbox' = [inbox EXCEPT ![k] = @ - 1]
    /\ Become(x, "find", k, NoRow)
    /\ UNCHANGED <<rows, cron, admin, faults>>
    /\ UNCHANGED ghosts

\* Mutant: the run is locked in whatever status it is.
LockFindAnyStatus(x) ==
    /\ execPC[x] = "find"
    /\ LET found == RowsOf(execKey[x])
       IN  \/ \E w \in found : found = {w} /\ Hold(x, "lockDelete", w) /\ UNCHANGED inbox
           \/ (\A w \in found : found # {w}) /\ Rethrow(x)
    /\ UNCHANGED <<rows, cron, admin, faults>>
    /\ UNCHANGED ghosts

\* lockForExecution, em.find: no row, or several, is a runtime exception; a row
\* that is not QUEUED means another executor or an administrator was faster.
LockFind(x) ==
    /\ execPC[x] = "find"
    /\ LET found == RowsOf(execKey[x])
       IN  \/ \E w \in found :
                /\ found = {w}
                /\ UNCHANGED inbox
                /\ IF w.status = "QUEUED" THEN Hold(x, "lockDelete", w)
                                          ELSE Leave(x)
           \/ /\ \A w \in found : found # {w}
              /\ Rethrow(x)
    /\ UNCHANGED <<rows, cron, admin, faults>>
    /\ UNCHANGED ghosts

\* Mutant: the exception of a lock that failed is swallowed.
LockDeleteSwallowed(x) ==
    /\ execPC[x] = "lockDelete"
    /\ \/ TransitDelete(execRun[x]) /\ Goto(x, "lockInsert")
       \/ TransitRefused(execRun[x]) /\ Goto(x, "run")
    /\ UNCHANGED <<inbox, cron, admin>>
    /\ UNCHANGED ghosts

LockDelete(x) ==
    /\ execPC[x] = "lockDelete"
    /\ \/ TransitDelete(execRun[x]) /\ Goto(x, "lockInsert")
       \/ TransitRefused(execRun[x]) /\ Leave(x)
    /\ UNCHANGED <<inbox, cron, admin>>
    /\ UNCHANGED ghosts

\* When the insert falls back the run is executed although its row is QUEUED.
LockInsert(x) ==
    /\ execPC[x] = "lockInsert"
    /\ LET run == execRun[x]
       IN  \/ /\ TransitInsert(run, "IN_PROCESS")
              /\ Hold(x, "run", Moved(run, "IN_PROCESS"))
              /\ UNCHANGED <<unlocked, inbox>>
           \/ /\ TransitFallBack(run, "IN_PROCESS")
              /\ Goto(x, "run")
              /\ unlocked' = unlocked \cup {run.key}
              /\ UNCHANGED inbox
           \/ /\ TransitLost(run, "IN_PROCESS")
              /\ Rethrow(x)
              /\ UNCHANGED unlocked
    /\ UNCHANGED <<created, parent, due, starts, cron, admin>>

\* executeRun: the job's steps, any of which may throw.
Execute(x) ==
    /\ execPC[x] = "run"
    /\ starts' = [starts EXCEPT ![execKey[x]] = @ + 1]
    /\ Goto(x, "completeDelete") \/ Goto(x, "logErrors")
    /\ UNCHANGED <<rows, created, parent, due, inbox, cron, admin, unlocked, faults>>

CompleteDelete(x) ==
    /\ execPC[x] = "completeDelete"
    /\ \/ TransitDelete(execRun[x]) /\ Goto(x, "completeInsert")
       \/ TransitRefused(execRun[x]) /\ Goto(x, "logErrors")
    /\ UNCHANGED <<inbox, cron, admin>>
    /\ UNCHANGED ghosts

CompleteInsert(x) ==
    /\ execPC[x] = "completeInsert"
    /\ LET run == execRun[x]
       IN  \/ /\ TransitInsert(run, "COMPLETED") \/ TransitFallBack(run, "COMPLETED")
              /\ Hold(x, "reread", NoRow)
           \/ TransitLost(run, "COMPLETED") /\ Goto(x, "logErrors")
    /\ UNCHANGED <<inbox, cron, admin>>
    /\ UNCHANGED ghosts

\* Mutant: the run that failed is not saved.
LogErrorsUnsaved(x) ==
    /\ execPC[x] = "logErrors"
    /\ Hold(x, "reread", NoRow)
    /\ UNCHANGED <<rows, inbox, cron, admin, faults>>
    /\ UNCHANGED ghosts

\* logErrors: fail() and merge the entity the executor still holds, whatever
\* has become of its row: a row of its class is overwritten, a missing one is
\* inserted.
LogErrors(x) ==
    /\ execPC[x] = "logErrors"
    /\ LET run == execRun[x]
           stale == {w \in rows : w.key = run.key /\ w.table = run.table}
       IN  \/ /\ rows' = (rows \ stale) \cup {[run EXCEPT !.status = "FAILED"]}
              /\ Hold(x, "reread", NoRow)
              /\ UNCHANGED <<inbox, faults>>
           \/ /\ Fault("merge")
              /\ Rethrow(x)
              /\ UNCHANGED rows
    /\ UNCHANGED <<cron, admin>>
    /\ UNCHANGED ghosts

\* The rows scheduleNextRun's em.find goes by.  The QUEUED entity found by
\* lockForExecution still belongs to the transaction of onMessage, and then the
\* database is not asked again: only RereadsRow lets find see the row as it is.
Stops(found) == \A w \in found : w.status = "CANCELLED"
Several(found) == \E v, w \in found : v # w

\* find throws on several rows; no row or a CANCELLED one ends the chain; the
\* job's conditions (checkConditions) may hold or not.  RunKeys bounds the
\* model: without a fresh key they do not hold.
ScheduleNextRun(x) ==
    /\ execPC[x] = "reread"
    /\ LET found == RowsOf(execKey[x])
       IN  \/ /\ RereadsRow => ~ Several(found) /\ ~ Stops(found)
              /\ Fresh # {}
              /\ Goto(x, "insertNext")
              /\ UNCHANGED inbox
           \/ /\ ~ (RereadsRow /\ Several(found))
              /\ Goto(x, "ack")
              /\ UNCHANGED inbox
           \/ /\ RereadsRow /\ Several(found)
              /\ Rethrow(x)
    /\ UNCHANGED <<rows, cron, admin, faults>>
    /\ UNCHANGED ghosts

\* insertRun on the server the job is assigned to, which administrators change
\* at any time; the time comes from the cron expression, or is now.
InsertNextRun(x) ==
    /\ execPC[x] = "insertNext"
    /\ \/ /\ \E k \in Fresh, s \in Servers :
                /\ InsertScheduled(k, s, execKey[x])
                /\ due' = due \/ due' = due \cup {k}
          /\ Goto(x, "ack")
          /\ UNCHANGED <<inbox, faults>>
       \/ /\ Fault("next")
          /\ Rethrow(x)
          /\ UNCHANGED <<rows, created, parent, due>>
       \/ /\ Fresh = {}  \* only in bounded models
          /\ Goto(x, "ack")
          /\ UNCHANGED <<rows, created, parent, due, inbox, faults>>
    /\ UNCHANGED <<cron, admin, starts, unlocked>>

\* onMessage returned: the delivery is acknowledged.
Acknowledge(x) ==
    /\ execPC[x] = "ack"
    /\ Leave(x)
    /\ UNCHANGED <<rows, inbox, cron, admin, faults>>
    /\ UNCHANGED ghosts

\* The node dies before the acknowledgement: the message is delivered again.
ExecCrash(x) ==
    /\ execPC[x] # "idle"
    /\ Fault("crash")
    /\ Leave(x)
    /\ inbox' = [inbox EXCEPT ![execKey[x]] = @ + 1]
    /\ UNCHANGED <<rows, cron, admin>>
    /\ UNCHANGED ghosts

------------------------------------------------------------------------------
(* The administrator's forms: FormCancelJobFutureRun cancels the run,        *)
(* FormCancelJobRun (again) cancels it and then triggers a new first run.    *)
(* The page that offers the form may be older than the run's present status. *)

AdminBecomes(a, pc, run, again) ==
    /\ adminPC' = [adminPC EXCEPT ![a] = pc]
    /\ adminRun' = [adminRun EXCEPT ![a] = run]
    /\ adminAgain' = [adminAgain EXCEPT ![a] = again]

\* cancelBatchJobRun's find: merge(null) throws when the row is in no table.
CancelRead(a, k, again) ==
    /\ adminPC[a] = "idle"
    /\ k \in created
    /\ \E w \in RowsOf(k) :
         /\ RowsOf(k) = {w}
         /\ AdminBecomes(a, "cancel", w, again)
    /\ UNCHANGED <<rows, inbox, cron, exec, faults>>
    /\ UNCHANGED ghosts

\* The transaction commits its UPDATE if the row is still in that table, in
\* whatever status; otherwise it fails and so does the form.
CancelCommit(a) ==
    /\ adminPC[a] = "cancel"
    /\ LET run == adminRun[a]
           target == {w \in rows : w.key = run.key /\ w.table = run.table}
       IN  IF target = {}
           THEN /\ AdminBecomes(a, "idle", NoRow, FALSE)
                /\ UNCHANGED rows
           ELSE /\ rows' = (rows \ target) \cup {[run EXCEPT !.status = "CANCELLED"]}
                /\ AdminBecomes(a, IF adminAgain[a] THEN "trigger" ELSE "idle", NoRow, FALSE)
    /\ UNCHANGED <<inbox, cron, exec, faults>>
    /\ UNCHANGED ghosts

\* triggerFirstBatchJobRun: a new run, due now, in a transaction of its own.
TriggerFirst(a) ==
    /\ adminPC[a] = "trigger"
    /\ AdminBecomes(a, "idle", NoRow, FALSE)
    /\ \/ /\ \E k \in Fresh, s \in Servers :
                /\ InsertScheduled(k, s, NoRun)
                /\ due' = due \cup {k}
          /\ UNCHANGED faults
       \/ /\ Fault("next") \/ (Fresh = {} /\ UNCHANGED faults)
          /\ UNCHANGED <<rows, created, parent, due>>
    /\ UNCHANGED <<inbox, cron, exec, starts, unlocked>>

------------------------------------------------------------------------------
CronRuns(s) ==
    CronRead(s) \/ CronDelete(s) \/ CronInsert(s) \/ CronSend(s) \/ CronCommit(s)
CronStep(s) == CronRuns(s) \/ CronCrash(s)

ExecRuns(x) ==
    \/ LockFind(x) \/ LockDelete(x) \/ LockInsert(x) \/ Execute(x)
    \/ CompleteDelete(x) \/ CompleteInsert(x) \/ LogErrors(x)
    \/ ScheduleNextRun(x) \/ InsertNextRun(x) \/ Acknowledge(x)
ExecStep(x) == ExecRuns(x) \/ ExecCrash(x)

Next ==
    \/ \E k \in RunKeys, s \in Servers : ScheduleJob(k, s)
    \/ \E k \in RunKeys : BecomeDue(k)
    \/ \E s \in Servers : CronStep(s)
    \/ \E x \in Executors, k \in RunKeys : Deliver(x, k)
    \/ \E x \in Executors : ExecStep(x)
    \/ \E a \in Admins, k \in RunKeys, again \in BOOLEAN : CancelRead(a, k, again)
    \/ \E a \in Admins : CancelCommit(a) \/ TriggerFirst(a)

Spec == Init /\ [][Next]_vars

\* Time passes, every cron fires every ten seconds and its loop goes on, the
\* queue delivers its messages to idle executors and an executor goes on; no
\* failure and no administrator is bound to come.
Fairness ==
    /\ \A k \in RunKeys : WF_vars(BecomeDue(k)) /\ WF_vars(\E x \in Executors : Deliver(x, k))
    /\ \A s \in Servers : WF_vars(CronRuns(s))
    /\ \A x \in Executors : WF_vars(ExecRuns(x))

FairSpec == Spec /\ Fairness

------------------------------------------------------------------------------
(* Properties.                                                               *)

\* The processes that deleted the row of k and have not inserted it again.
CronMoves(s, k) == cronPC[s] = "insert" /\ Head(cronList[s]).key = k
ExecMoves(x, k) == execPC[x] \in {"lockInsert", "completeInsert"} /\ execKey[x] = k

InTransit(k) ==
    \/ \E s \in Servers : CronMoves(s, k)
    \/ \E x \in Executors : ExecMoves(x, k)

\* A run whose lock took effect is in one table only, or on its way from one
\* to another and in none: two crons, several messages for the key and forms
\* submitted at the wrong moment cannot duplicate it (the comment in
\* BatchJobTransitionService.transit says why this needed care).
SingleCopy ==
    \A k \in RunKeys \ unlocked :
        /\ \A v, w \in RowsOf(k) : v = w
        /\ InTransit(k) => RowsOf(k) = {}

\* Without a failure no run is ever lost: it is in a table or in transit.
NothingLost ==
    faults = 0 => \A k \in created : RowsOf(k) # {} \/ InTransit(k)

\* The steps of a run are executed at most once, although its key may be in
\* the queue twice and its message is redelivered after a crash.
ExecutedAtMostOnce == \A k \in RunKeys \ unlocked : starts[k] <= 1

\* A run is followed by at most one run its own executor scheduled, and only
\* after its steps were executed: the chain of a job neither forks nor skips.
LinearChain ==
    /\ \A k, l \in created : parent[k] = parent[l] /\ parent[k] \notin unlocked \cup {NoRun}
                              => k = l
    /\ \A k \in created : parent[k] # NoRun => starts[parent[k]] > 0

\* Cancelling a run before it is locked is final: whatever list, message or
\* entity about it is still in flight, it stays CANCELLED in its table, it is
\* not executed and it has no successor.
CancelledEarly(k) ==
    \E w \in rows : w.key = k /\ w.status = "CANCELLED" /\ w.table \in {"SCHEDULED", "QUEUED"}
NewChildren(k) == {c \in RunKeys : parent[c] # k /\ parent'[c] = k}
EarlyCancelIsFinal ==
    [][\A k \in RunKeys \ unlocked : CancelledEarly(k) =>
          CancelledEarly(k)' /\ starts'[k] = starts[k] /\ NewChildren(k) = {}]_vars

\* Without a failure, and whatever administrators cancel meanwhile, every run
\* ends: an aborted cron loop, a message that arrives early or a second
\* message for the key never leaves it waiting for ever.
Ended(k) == \E w \in rows : w.key = k /\ w.status \in {"COMPLETED", "FAILED", "CANCELLED"}
EveryRunEnds == \A k \in RunKeys : k \in created ~> Ended(k)

\* The engine implements JobChain as long as no run executes without its lock.
Chain == INSTANCE JobChain WITH executed <- starts
ImplementsChain == Chain!Spec

\* BATCH_JOB_RUN_STATUS says of a run cancelled while IN_PROCESS, here while its
\* steps execute, that "there will not be any future executions after the
\* current one".
CancelledInProcess(k) ==
    /\ \E w \in rows : w.key = k /\ w.table = "IN_PROCESS" /\ w.status = "CANCELLED"
    /\ \E x \in Executors : execPC[x] = "run" /\ execKey[x] = k
Childless(k) == \A c \in RunKeys : parent[c] # k
CancelStopsChain ==
    \A k \in RunKeys : [](CancelledInProcess(k) /\ Childless(k) => []Childless(k))

\* BATCH_JOB_RUN_STATUS documents no transition out of COMPLETED.  Neither a message
\* delivered again nor a stale entity takes a run out of it; what does is
\* cancelBatchJobRun, which looks at no status, from a form as old as it may be.
CancelledNow(v) ==
    /\ [v EXCEPT !.status = "CANCELLED"] \in rows'
    /\ \E a \in Admins : adminPC[a] = "cancel" /\ adminRun[a].key = v.key /\ adminPC'[a] # "cancel"
OnlyCancelUndoesCompletion ==
    [][\A v \in rows : v.status = "COMPLETED" /\ v.key \notin unlocked =>
          v \in rows' \/ CancelledNow(v)]_vars

------------------------------------------------------------------------------
(* The inductive invariant behind SingleCopy, ExecutedAtMostOnce and         *)
(* LinearChain.                                                              *)

\* Every process holds what its next step needs.
ProcessOK ==
    /\ \A s \in Servers :
         /\ cronPC[s] \in {"delete", "insert", "send"} => cronList[s] # <<>>
         /\ \A i \in DOMAIN cronList[s] :
              cronList[s][i].status = "SCHEDULED" /\ cronList[s][i].key \in created
    /\ \A x \in Executors :
         /\ execPC[x] # "idle" => execKey[x] \in created
         /\ execPC[x] \in {"lockDelete", "lockInsert", "run", "completeDelete",
                            "completeInsert", "logErrors"} =>
              /\ execRun[x] \in Row
              /\ execRun[x].key = execKey[x]
              /\ execRun[x].status \in {"QUEUED", "IN_PROCESS"}
         /\ execPC[x] \in {"lockDelete", "lockInsert"} => execRun[x].status = "QUEUED"
    /\ \A a \in Admins :
         adminPC[a] = "cancel" => adminRun[a] \in Row /\ adminRun[a].key \in created

\* A key that was never generated appears nowhere.
FreshKeysUnused ==
    /\ \A w \in rows : w.key \in created
    /\ \A k \in RunKeys : inbox[k] > 0 => k \in created
    /\ \A s \in Servers : cronSent[s] \subseteq created
    /\ \A k \in Fresh : starts[k] = 0 /\ parent[k] = NoRun
    /\ \A k \in RunKeys : parent[k] # NoRun => parent[k] \in created

\* The run has not been locked for execution yet.
BeforeLock(k) ==
    \/ \E w \in rows : w.key = k /\ w.table \in {"SCHEDULED", "QUEUED"}
    \/ \E s \in Servers : CronMoves(s, k)
    \/ \E x \in Executors : execPC[x] = "lockInsert" /\ execKey[x] = k

\* The executor has locked the run it was given.
PastLock(x) ==
    execPC[x] \in {"run", "completeDelete", "completeInsert", "logErrors",
                    "reread", "insertNext", "ack"}

\* At most one process moves a run.
OneMover(k) ==
    /\ \A s, t \in Servers : CronMoves(s, k) /\ CronMoves(t, k) => s = t
    /\ \A x, y \in Executors : ExecMoves(x, k) /\ ExecMoves(y, k) => x = y
    /\ \A s \in Servers, x \in Executors : ~ (CronMoves(s, k) /\ ExecMoves(x, k))

\* A run not yet locked has not been executed, and one executor at most has
\* locked it.
OneLock(k) ==
    /\ BeforeLock(k) =>
         /\ starts[k] = 0
         /\ \A x \in Executors : PastLock(x) => execKey[x] # k
    /\ \A x, y \in Executors :
         PastLock(x) /\ PastLock(y) /\ execKey[x] = k /\ execKey[y] = k => x = y

\* The executor x that locked k holds its IN_PROCESS row, executes it once, and
\* schedules its successor last.
LockedRun(x, k) ==
    /\ execPC[x] = "run" => starts[k] = 0
    /\ execPC[x] \in {"run", "completeDelete", "logErrors"} =>
         /\ ~ InTransit(k)
         /\ \A w \in RowsOf(k) : w.table = "IN_PROCESS"
    /\ execPC[x] \in {"run", "completeDelete", "completeInsert", "logErrors"} =>
         execRun[x].table = "IN_PROCESS" /\ execRun[x].status = "IN_PROCESS"
    /\ execPC[x] # "ack" => \A c \in RunKeys : parent[c] # k

\* The steps of the run an executor is finishing have been executed.
Executed(x) ==
    execPC[x] \in {"completeDelete", "completeInsert", "logErrors", "reread",
                   "insertNext", "ack"} => starts[execKey[x]] > 0

OneCopy(k) ==
    /\ \A v, w \in RowsOf(k) : v = w
    /\ InTransit(k) => RowsOf(k) = {}

KeyOK(k) ==
    /\ OneCopy(k)
    /\ OneMover(k)
    /\ OneLock(k)
    /\ starts[k] <= 1
    /\ \A c, d \in RunKeys : parent[c] = k /\ parent[d] = k => c = d
    /\ \A x \in Executors : PastLock(x) /\ execKey[x] = k => LockedRun(x, k)

IInv ==
    /\ TypeOK /\ ProcessOK /\ FreshKeysUnused
    /\ \A x \in Executors : Executed(x)
    /\ \A k \in RunKeys : parent[k] # NoRun => starts[parent[k]] > 0
    /\ \A k \in RunKeys \ unlocked : KeyOK(k)

==============================================================================
