--------------------------- MODULE BatchSafetyProofs ---------------------------
(* The inductive invariant of BatchEngine: what holds of one run key, and why *)
(* every step of every process keeps it.  Then what follows for the row of a  *)
(* run: without a failure it is never lost, nothing but a cancel form takes   *)
(* it out of COMPLETED, an early cancellation is final, and the engine        *)
(* implements JobChain.                                                       *)
EXTENDS BatchEngineProofs

\* What was executed stays executed.
Counts ==
    /\ \A x \in Executors : Executed(x)
    /\ \A k \in RunKeys : parent[k] # NoRun => starts[parent[k]] > 0

\* IInv but for what it says of single keys.
BaseInv == TypeInv /\ Counts

\* The executor has a part in KeyOK of the key it was given.
Engaged(x, k) == execKey[x] = k /\ (PastLock(x) \/ execPC[x] = "lockInsert")

\* The rows of k are the rows it had, perhaps with another status.
RowsKept(k) ==
    /\ \A w \in RowsOf(k)' : \E v \in RowsOf(k) : v.table = w.table
    /\ \A v, w \in RowsOf(k)' : v = w

\* No process takes a part in k it did not have.
RolesKept(k) ==
    /\ \A s \in Servers : CronMoves(s, k)' => CronMoves(s, k)
    /\ \A x \in Executors : Engaged(x, k)' =>
         Engaged(x, k) /\ execPC'[x] = execPC[x] /\ execRun'[x] = execRun[x]

CountsKept(k) ==
    /\ starts'[k] = starts[k]
    /\ \A c \in RunKeys : parent'[c] = k => parent[c] = k

\* A step that leaves the rows of k where they are and gives no process a new
\* part in it keeps what holds of k.
LEMMA KeyFrame ==
  ASSUME NEW k \in RunKeys, KeyOK(k), RowsKept(k), RolesKept(k), CountsKept(k)
  PROVE  KeyOK(k)'
<1>1. InTransit(k)' => InTransit(k)
  BY DEF InTransit, ExecMoves, RolesKept, Engaged, PastLock
<1>2. OneCopy(k)'
  BY <1>1 DEF KeyOK, OneCopy, RowsKept
<1>3. OneMover(k)'
  BY DEF KeyOK, OneMover, ExecMoves, RolesKept, Engaged, PastLock
<1>4. BeforeLock(k)' => BeforeLock(k)
  <2>1. (\E w \in rows' : w.key = k /\ w.table \in {"SCHEDULED", "QUEUED"}) =>
           \E w \in rows : w.key = k /\ w.table \in {"SCHEDULED", "QUEUED"}
    BY DEF RowsKept, RowsOf
  <2> QED
    BY <2>1 DEF BeforeLock, RolesKept, Engaged
<1>5. \A x \in Executors : PastLock(x)' /\ execKey'[x] = k =>
         PastLock(x) /\ execKey[x] = k /\ execPC'[x] = execPC[x] /\ execRun'[x] = execRun[x]
  BY DEF RolesKept, Engaged, PastLock
<1>6. OneLock(k)'
  BY <1>4, <1>5 DEF KeyOK, OneLock, CountsKept
<1>7. ASSUME NEW x \in Executors, PastLock(x)', execKey'[x] = k
      PROVE  LockedRun(x, k)'
  <2>1. LockedRun(x, k) /\ execPC'[x] = execPC[x] /\ execRun'[x] = execRun[x]
    BY <1>5, <1>7 DEF KeyOK
  <2>2. (\A w \in RowsOf(k) : w.table = "IN_PROCESS") => \A w \in RowsOf(k)' : w.table = "IN_PROCESS"
    BY DEF RowsKept
  <2> QED
    BY <1>1, <2>1, <2>2 DEF LockedRun, CountsKept
<1> QED
  BY <1>2, <1>3, <1>6, <1>7 DEF KeyOK, CountsKept

\* A step of the executor that has locked k, up to the acknowledgement.
LEMMA LockedStep ==
  ASSUME NEW k \in RunKeys, KeyOK(k), NEW x \in Executors,
         PastLock(x), execKey[x] = k, PastLock(x)', execKey'[x] = k, execPC'[x] # "run",
         UNCHANGED cron,
         \A y \in Executors \ {x} :
            execPC'[y] = execPC[y] /\ execKey'[y] = execKey[y] /\ execRun'[y] = execRun[y],
         \A v, w \in RowsOf(k)' : v = w,
         execPC'[x] = "completeInsert" => RowsOf(k)' = {},
         \A w \in RowsOf(k)' : w.table \notin {"SCHEDULED", "QUEUED"},
         execPC'[x] \in {"completeDelete", "logErrors"} => \A w \in RowsOf(k)' : w.table = "IN_PROCESS",
         execPC'[x] \in {"completeDelete", "completeInsert", "logErrors"} =>
            execRun'[x].table = "IN_PROCESS" /\ execRun'[x].status = "IN_PROCESS",
         execPC'[x] # "ack" => \A c \in RunKeys : parent'[c] # k,
         \A c, d \in RunKeys : parent'[c] = k /\ parent'[d] = k => c = d,
         starts'[k] <= 1
  PROVE  KeyOK(k)'
<1>1. ~ BeforeLock(k)
  BY DEF KeyOK, OneLock
<1>2. \A s \in Servers : ~ CronMoves(s, k)'
  BY <1>1 DEF BeforeLock, CronMoves, cron
<1>3. \A y \in Executors : y # x => ~ ExecMoves(y, k)' /\ ~ (PastLock(y)' /\ execKey'[y] = k)
  BY <1>1 DEF BeforeLock, ExecMoves, KeyOK, OneLock, PastLock
<1>4. InTransit(k)' => execPC'[x] = "completeInsert"
  BY <1>2, <1>3 DEF InTransit, ExecMoves, PastLock
<1>5. OneCopy(k)'
  BY <1>4 DEF OneCopy
<1>6. OneMover(k)'
  BY <1>2, <1>3 DEF OneMover
<1>7. ~ BeforeLock(k)'
  <2>1. \A w \in rows' : w.key = k => w.table \notin {"SCHEDULED", "QUEUED"}
    BY DEF RowsOf
  <2>2. \A y \in Executors : ~ (execPC'[y] = "lockInsert" /\ execKey'[y] = k)
    BY <1>3 DEF ExecMoves, PastLock
  <2> QED
    BY <1>2, <2>1, <2>2 DEF BeforeLock
<1>8. OneLock(k)'
  BY <1>3, <1>7 DEF OneLock
<1>9. LockedRun(x, k)'
  BY <1>4 DEF LockedRun
<1> QED
  BY <1>3, <1>5, <1>6, <1>8, <1>9 DEF KeyOK

------------------------------------------------------------------------------
(* A run under a fresh key.                                                  *)

LEMMA NewRun ==
  ASSUME TypeInv, NEW k \in Fresh, NEW s \in Servers, NEW p \in created \cup {NoRun},
         InsertScheduled(k, s, p), UNCHANGED <<cron, starts>>,
         \A x \in Executors : execPC'[x] # "idle" =>
            execPC[x] # "idle" /\ execKey'[x] = execKey[x]
  PROVE  KeyOK(k)'
<1> DEFINE new == [key |-> k, table |-> "SCHEDULED", status |-> "SCHEDULED", server |-> s]
<1>1. k \in RunKeys /\ k \notin created
  BY DEF Fresh
<1>2. \A w \in RowsOf(k)' : w = new
  BY <1>1 DEF RowsOf, InsertScheduled, TypeInv, FreshKeysUnused
<1>3. \A t \in Servers : ~ CronMoves(t, k)'
  BY <1>1, ListType DEF CronMoves, cron, TypeInv
<1>4. \A x \in Executors : execPC'[x] # "idle" => execKey'[x] # k
  BY <1>1 DEF TypeInv, ProcessOK
<1>5. \A x \in Executors : ~ ExecMoves(x, k)' /\ ~ (PastLock(x)' /\ execKey'[x] = k)
  BY <1>4 DEF ExecMoves, PastLock
<1>6. starts'[k] = 0
  BY <1>1 DEF TypeInv, FreshKeysUnused, Fresh
<1>7. \A c \in RunKeys : parent'[c] # k
  BY <1>1, BatchAssumption DEF InsertScheduled, TypeInv, TypeOK, FreshKeysUnused
<1>8. ~ InTransit(k)'
  BY <1>3, <1>5 DEF InTransit
<1> QED
  BY <1>2, <1>3, <1>5, <1>6, <1>7, <1>8 DEF KeyOK, OneCopy, OneMover, OneLock

\* Inserting it leaves the other keys alone, except that it is a child of p.
LEMMA OtherRuns ==
  ASSUME TypeInv, NEW k \in RunKeys, KeyOK(k), NEW n \in Fresh, n # k,
         NEW s \in Servers, NEW p \in created \cup {NoRun}, p # k,
         InsertScheduled(n, s, p), UNCHANGED starts, RolesKept(k)
  PROVE  KeyOK(k)'
<1>1. RowsOf(k)' = RowsOf(k)
  BY DEF RowsOf, InsertScheduled
<1>2. RowsKept(k)
  BY <1>1 DEF RowsKept, KeyOK, OneCopy
<1>3. CountsKept(k)
  BY DEF CountsKept, InsertScheduled, TypeInv, TypeOK
<1> QED
  BY <1>2, <1>3, KeyFrame

LEMMA ScheduleJobKey ==
  ASSUME BaseInv, NEW n \in RunKeys, NEW s \in Servers, ScheduleJob(n, s),
         NEW k \in RunKeys \ unlocked, KeyOK(k)
  PROVE  KeyOK(k)'
<1> USE DEF BaseInv, TypeInv
<1>1. n \in Fresh /\ InsertScheduled(n, s, NoRun) /\ UNCHANGED <<cron, exec, starts>>
  BY DEF ScheduleJob
<1>2. CASE k = n
  BY <1>1, <1>2, NewRun DEF exec
<1>3. CASE k # n
  <2>1. RolesKept(k)
    BY <1>1 DEF RolesKept, Engaged, PastLock, CronMoves, cron, exec
  <2> QED
    BY <1>1, <1>3, <2>1, OtherRuns, BatchAssumption
<1> QED
  BY <1>2, <1>3

LEMMA TriggerFirstKey ==
  ASSUME BaseInv, NEW a \in Admins, TriggerFirst(a), NEW k \in RunKeys \ unlocked, KeyOK(k)
  PROVE  KeyOK(k)'
<1> USE DEF BaseInv, TypeInv
<1>1. UNCHANGED <<cron, exec, starts>>
  BY DEF TriggerFirst
<1>2. RolesKept(k)
  BY <1>1 DEF RolesKept, Engaged, PastLock, CronMoves, cron, exec
<1>3. ASSUME NEW n \in Fresh, NEW s \in Servers, InsertScheduled(n, s, NoRun)
      PROVE  KeyOK(k)'
  <2>1. CASE k = n
    BY <1>1, <1>3, <2>1, NewRun DEF exec
  <2>2. CASE k # n
    BY <1>1, <1>2, <1>3, <2>2, OtherRuns, BatchAssumption
  <2> QED
    BY <2>1, <2>2
<1>4. ASSUME UNCHANGED <<rows, parent>> PROVE KeyOK(k)'
  BY <1>1, <1>2, <1>4, KeyFrame DEF RowsKept, CountsKept, RowsOf, KeyOK, OneCopy
<1> QED
  BY <1>3, <1>4 DEF TriggerFirst

------------------------------------------------------------------------------
(* Steps that touch no row: time, and the administrator's form being read.   *)

LEMMA StillKey ==
  ASSUME NEW k \in RunKeys, KeyOK(k), UNCHANGED <<rows, parent, starts, cron, exec>>
  PROVE  KeyOK(k)'
<1>1. RowsKept(k) /\ CountsKept(k)
  BY DEF RowsKept, CountsKept, RowsOf, KeyOK, OneCopy
<1>2. RolesKept(k)
  BY DEF RolesKept, Engaged, PastLock, CronMoves, cron, exec
<1> QED
  BY <1>1, <1>2, KeyFrame

\* Cancelling changes a row in place.
LEMMA CancelCommitKey ==
  ASSUME BaseInv, NEW a \in Admins, CancelCommit(a), NEW k \in RunKeys \ unlocked, KeyOK(k)
  PROVE  KeyOK(k)'
<1> DEFINE run == adminRun[a]
           new == [run EXCEPT !.status = "CANCELLED"]
           target == {w \in rows : w.key = run.key /\ w.table = run.table}
<1> USE DEF BaseInv, TypeInv
<1>1. run \in Row
  BY DEF CancelCommit, ProcessOK
<1>2. new.key = run.key /\ new.table = run.table
  BY <1>1, RestatusType DEF Label
<1>3. KeyOK(k) /\ \A v, w \in RowsOf(k) : v = w
  BY DEF KeyOK, OneCopy
<1>4. rows' = rows \/ (target # {} /\ rows' = (rows \ target) \cup {new})
  BY DEF CancelCommit
<1>5. RowsKept(k)
  <2>1. CASE rows' = rows
    BY <1>3, <2>1 DEF RowsKept, RowsOf
  <2>2. CASE target # {} /\ rows' = (rows \ target) \cup {new} /\ run.key = k
    <3>1. PICK v \in rows : v.key = k /\ v.table = run.table
      BY <2>2
    <3>2. RowsOf(k) = {v} /\ v \in target
      BY <1>3, <2>2, <3>1 DEF RowsOf
    <3>3. RowsOf(k)' = {new}
      BY <1>2, <2>2, <3>2 DEF RowsOf
    <3> QED
      BY <1>2, <3>1, <3>2, <3>3 DEF RowsKept
  <2>3. CASE rows' = (rows \ target) \cup {new} /\ run.key # k
    <3>1. RowsOf(k)' = RowsOf(k)
      BY <1>2, <2>3 DEF RowsOf
    <3> QED
      BY <1>3, <3>1 DEF RowsKept
  <2> QED
    BY <1>4, <2>1, <2>2, <2>3
<1>6. RolesKept(k)
  BY DEF RolesKept, Engaged, PastLock, CronMoves, cron, exec, CancelCommit
<1>7. CountsKept(k)
  BY DEF CountsKept, CancelCommit, ghosts
<1> QED
  BY <1>3, <1>5, <1>6, <1>7, KeyFrame

------------------------------------------------------------------------------
(* The cron.                                                                 *)

\* A cron step that moves no row.
LEMMA CronQuiet ==
  ASSUME NEW k \in RunKeys, KeyOK(k), UNCHANGED <<rows, parent, starts, exec>>,
         \A t \in Servers : CronMoves(t, k)' => CronMoves(t, k)
  PROVE  KeyOK(k)'
<1>1. RowsKept(k) /\ CountsKept(k)
  BY DEF RowsKept, CountsKept, RowsOf, KeyOK, OneCopy
<1>2. RolesKept(k)
  BY DEF RolesKept, Engaged, PastLock, exec
<1> QED
  BY <1>1, <1>2, KeyFrame

\* Of the crons, only s can get a part in a run, and none when its loop goes on.
LEMMA CronParts ==
  ASSUME TypeOK, NEW s \in Servers, NEW k \in RunKeys,
         \/ \E l : Continue(s, l)
         \/ CronEnds(s)
         \/ \E pc \in CronPC \ {"insert"} : CronGoto(s, pc)
  PROVE  \A t \in Servers : CronMoves(t, k)' => t # s /\ CronMoves(t, k)
  BY DEF CronMoves, Continue, CronEnds, CronGoto, TypeOK

LEMMA CronReadKey ==
  ASSUME BaseInv, NEW s \in Servers, CronRead(s), NEW k \in RunKeys \ unlocked, KeyOK(k)
  PROVE  KeyOK(k)'
<1>1. \A t \in Servers : CronMoves(t, k)' => CronMoves(t, k)
  <2>1. CASE UNCHANGED <<cronPC, cronList>>
    BY <2>1 DEF CronMoves
  <2>2. ASSUME NEW l, Continue(s, l) PROVE \A t \in Servers : CronMoves(t, k)' => CronMoves(t, k)
    BY <2>2, CronParts DEF BaseInv, TypeInv
  <2> QED
    BY <2>1, <2>2 DEF CronRead
<1> QED
  BY <1>1, CronQuiet DEF BaseInv, TypeInv, CronRead, ghosts

\* The removed row was the only one of its run, and nobody else moved it.
LEMMA CronDeleteKey ==
  ASSUME BaseInv, NEW s \in Servers, CronDelete(s), NEW k \in RunKeys \ unlocked, KeyOK(k)
  PROVE  KeyOK(k)'
<1> USE DEF BaseInv, TypeInv
<1> DEFINE run == Head(cronList[s])
<1>1. run.status = "SCHEDULED" /\ UNCHANGED <<parent, starts, exec>>
  BY ListType DEF CronDelete, ghosts
<1>2. KeyOK(k) /\ \A v, w \in RowsOf(k) : v = w
  BY DEF KeyOK, OneCopy
<1>3. CASE Abort(s) /\ UNCHANGED rows
  BY <1>1, <1>2, <1>3, CronParts, CronQuiet DEF Abort
<1>4. CASE TransitDelete(run) /\ CronGoto(s, "insert") /\ run.key # k
  <2>1. \A t \in Servers : CronMoves(t, k)' => CronMoves(t, k)
    BY <1>4 DEF CronMoves, CronGoto, TypeOK
  <2>2. RowsOf(k)' = RowsOf(k)
    BY <1>4 DEF TransitDelete, Doomed, RowsOf
  <2>3. RowsKept(k) /\ CountsKept(k) /\ RolesKept(k)
    BY <1>1, <1>2, <2>1, <2>2 DEF RowsKept, CountsKept, RolesKept, Engaged, PastLock, exec
  <2> QED
    BY <1>2, <2>3, KeyFrame
<1>5. CASE TransitDelete(run) /\ CronGoto(s, "insert") /\ run.key = k
  <2>1. PICK v \in rows : v.key = k /\ v.table = "SCHEDULED"
    BY <1>1, <1>5 DEF TransitDelete, Doomed
  <2>2. BeforeLock(k) /\ ~ InTransit(k)
    BY <1>2, <2>1 DEF BeforeLock, KeyOK, OneCopy, RowsOf
  <2>3. RowsOf(k)' = {}
    BY <1>2, <1>5 DEF TransitDelete, Doomed, RowsOf
  <2>4. \A t \in Servers : CronMoves(t, k)' => t = s
    BY <1>5, <2>2 DEF CronMoves, InTransit, CronGoto, TypeOK
  <2>5. \A x \in Executors : ~ ExecMoves(x, k)'
    BY <1>1, <2>2 DEF InTransit, ExecMoves, exec
  <2>6. starts'[k] = 0 /\ \A x \in Executors : PastLock(x)' => execKey'[x] # k
    BY <1>1, <1>2, <2>2 DEF KeyOK, OneLock, PastLock, exec
  <2>7. \A c, d \in RunKeys : parent'[c] = k /\ parent'[d] = k => c = d
    BY <1>1, <1>2 DEF KeyOK
  <2> QED
    BY <2>3, <2>4, <2>5, <2>6, <2>7 DEF KeyOK, OneCopy, OneMover, OneLock
<1> QED
  BY <1>3, <1>4, <1>5 DEF CronDelete, TransitRefused

\* A moved row is inserted, where it was or where it goes.
LEMMA InsertedRow ==
  ASSUME NEW run \in Row, NEW status \in Label, NEW k \in RunKeys,
         TransitInsert(run, status) \/ TransitFallBack(run, status)
  PROVE  /\ run.key # k => RowsOf(k)' = RowsOf(k)
         /\ run.key = k /\ RowsOf(k) = {} =>
              \A v, w \in RowsOf(k)' : v = w /\ v \in {run, Moved(run, status)}
<1>1. Moved(run, status).key = run.key
  BY MovedType
<1>2. rows' = rows \cup {run} \/ rows' = rows \cup {Moved(run, status)}
  BY DEF TransitInsert, TransitFallBack
<1> QED
  BY <1>1, <1>2 DEF RowsOf

LEMMA CronInsertKey ==
  ASSUME BaseInv, NEW s \in Servers, CronInsert(s), NEW k \in RunKeys \ unlocked, KeyOK(k)
  PROVE  KeyOK(k)'
<1> USE DEF BaseInv, TypeInv
<1> DEFINE run == Head(cronList[s])
<1>1. run \in Row /\ UNCHANGED <<parent, starts, exec>>
  BY ListType DEF CronInsert, ghosts
<1>2. KeyOK(k) /\ \A v, w \in RowsOf(k) : v = w
  BY DEF KeyOK, OneCopy
<1>3. CASE Abort(s) /\ UNCHANGED rows
  BY <1>1, <1>2, <1>3, CronParts, CronQuiet DEF Abort
<1>4. ASSUME TransitInsert(run, "QUEUED") \/ TransitFallBack(run, "QUEUED"), CronGoto(s, "send")
      PROVE  KeyOK(k)'
  <2>1. \A t \in Servers : CronMoves(t, k)' => t # s /\ CronMoves(t, k)
    BY <1>4, CronParts DEF CronPC
  <2>2. CASE run.key # k
    <3>1. RowsOf(k)' = RowsOf(k)
      BY <1>1, <1>4, <2>2, InsertedRow DEF Label
    <3>2. RowsKept(k) /\ CountsKept(k) /\ RolesKept(k)
      BY <1>1, <1>2, <2>1, <3>1 DEF RowsKept, CountsKept, RolesKept, Engaged, PastLock, exec
    <3> QED
      BY <1>2, <3>2, KeyFrame
  <2>3. CASE run.key = k
    <3>1. CronMoves(s, k) /\ BeforeLock(k) /\ RowsOf(k) = {}
      BY <1>2, <2>3 DEF CronInsert, CronMoves, BeforeLock, InTransit, KeyOK, OneCopy
    <3>2. \A v, w \in RowsOf(k)' : v = w
      BY <1>1, <1>4, <2>3, <3>1, InsertedRow DEF Label
    <3>3. \A t \in Servers : ~ CronMoves(t, k)'
      BY <1>2, <2>1, <3>1 DEF KeyOK, OneMover
    <3>4. \A x \in Executors : ~ ExecMoves(x, k)'
      BY <1>1, <1>2, <3>1 DEF KeyOK, OneMover, ExecMoves, exec
    <3>5. starts'[k] = 0 /\ \A x \in Executors : PastLock(x)' => execKey'[x] # k
      BY <1>1, <1>2, <3>1 DEF KeyOK, OneLock, PastLock, exec
    <3>6. \A c, d \in RunKeys : parent'[c] = k /\ parent'[d] = k => c = d
      BY <1>1, <1>2 DEF KeyOK
    <3> QED
      BY <3>2, <3>3, <3>4, <3>5, <3>6 DEF KeyOK, OneCopy, OneMover, OneLock, InTransit
  <2> QED
    BY <2>2, <2>3
<1> QED
  BY <1>3, <1>4 DEF CronInsert, TransitLost

LEMMA CronOtherKey ==
  ASSUME BaseInv, NEW s \in Servers, CronSend(s) \/ CronCommit(s) \/ CronCrash(s),
         NEW k \in RunKeys \ unlocked, KeyOK(k)
  PROVE  KeyOK(k)'
<1>1. \A t \in Servers : CronMoves(t, k)' => CronMoves(t, k)
  BY CronParts DEF BaseInv, TypeInv, CronSend, CronCommit, CronCrash, Abort
<1> QED
  BY <1>1, CronQuiet DEF BaseInv, TypeInv, CronSend, CronCommit, CronCrash, ghosts

------------------------------------------------------------------------------
(* The executors.                                                            *)

\* The other executors keep their parts when x makes a step.
LEMMA ExecParts ==
  ASSUME TypeOK, NEW x \in Executors,
         (\E pc \in ExecPC : \E key, run : Become(x, pc, key, run)) \/ (\E pc \in ExecPC : Goto(x, pc))
  PROVE  \A y \in Executors \ {x} :
            execPC'[y] = execPC[y] /\ execKey'[y] = execKey[y] /\ execRun'[y] = execRun[y]
  BY DEF Become, Goto, TypeOK

LEMMA LeaveParts ==
  ASSUME TypeOK, NEW x \in Executors, Leave(x)
  PROVE  /\ \A y \in Executors \ {x} :
               execPC'[y] = execPC[y] /\ execKey'[y] = execKey[y] /\ execRun'[y] = execRun[y]
         /\ execPC'[x] = "idle"
<1>1. "idle" \in ExecPC /\ Become(x, "idle", NoRun, NoRow)
  BY DEF Leave, ExecPC
<1> QED
  BY <1>1, ExecParts DEF Become, TypeOK

\* A step of x that moves no row and gives it no part in k.
LEMMA ExecQuiet ==
  ASSUME NEW k \in RunKeys, KeyOK(k), NEW x \in Executors,
         UNCHANGED <<rows, parent, starts, cron>>,
         \A y \in Executors \ {x} :
            execPC'[y] = execPC[y] /\ execKey'[y] = execKey[y] /\ execRun'[y] = execRun[y],
         ~ Engaged(x, k)'
  PROVE  KeyOK(k)'
<1>1. RowsKept(k) /\ CountsKept(k)
  BY DEF RowsKept, CountsKept, RowsOf, KeyOK, OneCopy
<1>2. RolesKept(k)
  BY DEF RolesKept, Engaged, PastLock, CronMoves, cron
<1> QED
  BY <1>1, <1>2, KeyFrame

\* A step of x about another run.
LEMMA ExecOther ==
  ASSUME NEW k \in RunKeys, KeyOK(k), NEW x \in Executors, RowsOf(k)' = RowsOf(k),
         starts'[k] = starts[k], \A c \in RunKeys : parent'[c] = k => parent[c] = k,
         UNCHANGED cron,
         \A y \in Executors \ {x} :
            execPC'[y] = execPC[y] /\ execKey'[y] = execKey[y] /\ execRun'[y] = execRun[y],
         ~ Engaged(x, k)'
  PROVE  KeyOK(k)'
<1>1. RowsKept(k) /\ CountsKept(k)
  BY DEF RowsKept, CountsKept, RowsOf, KeyOK, OneCopy
<1>2. RolesKept(k)
  BY DEF RolesKept, Engaged, PastLock, CronMoves, cron
<1> QED
  BY <1>1, <1>2, KeyFrame

LEMMA DeliverKey ==
  ASSUME BaseInv, NEW x \in Executors, NEW n \in RunKeys, Deliver(x, n),
         NEW k \in RunKeys \ unlocked, KeyOK(k)
  PROVE  KeyOK(k)'
<1>1. "find" \in ExecPC /\ Become(x, "find", n, NoRow)
  BY DEF Deliver, ExecPC
<1>2. execPC'[x] = "find"
  BY <1>1 DEF Become, BaseInv, TypeInv, TypeOK
<1> QED
  BY <1>1, <1>2, ExecParts, ExecQuiet DEF BaseInv, TypeInv, Deliver, ghosts, Engaged, PastLock

LEMMA LeaveKey ==
  ASSUME BaseInv, NEW x \in Executors, Leave(x), UNCHANGED <<rows, parent, starts, cron>>,
         NEW k \in RunKeys \ unlocked, KeyOK(k)
  PROVE  KeyOK(k)'
  BY LeaveParts, ExecQuiet DEF BaseInv, TypeInv, Engaged, PastLock

LEMMA LockFindKey ==
  ASSUME BaseInv, NEW x \in Executors, LockFind(x), NEW k \in RunKeys \ unlocked, KeyOK(k)
  PROVE  KeyOK(k)'
<1>1. UNCHANGED <<rows, parent, starts, cron>>
  BY DEF LockFind, ghosts
<1>2. CASE Leave(x)
  BY <1>1, <1>2, LeaveKey
<1>3. ASSUME NEW w, Hold(x, "lockDelete", w) PROVE KeyOK(k)'
  <2>1. "lockDelete" \in ExecPC /\ Become(x, "lockDelete", execKey[x], w)
    BY <1>3 DEF Hold, ExecPC
  <2>2. execPC'[x] = "lockDelete"
    BY <2>1 DEF Become, BaseInv, TypeInv, TypeOK
  <2> QED
    BY <1>1, <2>1, <2>2, ExecParts, ExecQuiet DEF BaseInv, TypeInv, Engaged, PastLock
<1> QED
  BY <1>2, <1>3 DEF LockFind, Rethrow

\* The removed QUEUED row was the only one, and nobody had locked the run.
LEMMA LockDeleteKey ==
  ASSUME BaseInv, NEW x \in Executors, LockDelete(x), NEW k \in RunKeys \ unlocked, KeyOK(k)
  PROVE  KeyOK(k)'
<1> USE DEF BaseInv, TypeInv
<1> DEFINE run == execRun[x]
<1>1. /\ run \in Row /\ run.key = execKey[x] /\ run.status = "QUEUED"
      /\ UNCHANGED <<parent, starts, cron>>
  BY DEF LockDelete, ProcessOK, ghosts
<1>2. KeyOK(k) /\ \A v, w \in RowsOf(k) : v = w
  BY DEF KeyOK, OneCopy
<1>3. CASE Leave(x) /\ UNCHANGED rows
  BY <1>1, <1>3, LeaveKey
<1>4. ASSUME TransitDelete(run), Goto(x, "lockInsert") PROVE KeyOK(k)'
  <2>0. /\ \A y \in Executors \ {x} :
             execPC'[y] = execPC[y] /\ execKey'[y] = execKey[y] /\ execRun'[y] = execRun[y]
        /\ execPC'[x] = "lockInsert" /\ execKey'[x] = execKey[x]
    BY <1>4, ExecParts DEF Goto, ExecPC, TypeOK
  <2>1. CASE execKey[x] # k
    <3>1. RowsOf(k)' = RowsOf(k)
      BY <1>1, <1>4, <2>1 DEF TransitDelete, Doomed, RowsOf
    <3>2. ~ Engaged(x, k)'
      BY <2>0, <2>1 DEF Engaged
    <3> QED
      BY <1>1, <1>2, <2>0, <3>1, <3>2, ExecOther
  <2>2. CASE execKey[x] = k
    <3>1. PICK v \in rows : v.key = k /\ v.table = "QUEUED"
      BY <1>1, <1>4, <2>2 DEF TransitDelete, Doomed
    <3>2. BeforeLock(k) /\ ~ InTransit(k)
      BY <1>2, <3>1 DEF BeforeLock, KeyOK, OneCopy, RowsOf
    <3>3. RowsOf(k)' = {}
      BY <1>1, <1>2, <1>4, <2>2 DEF TransitDelete, Doomed, RowsOf
    <3>4. \A t \in Servers : ~ CronMoves(t, k)'
      BY <1>1, <3>2 DEF CronMoves, InTransit, cron
    <3>5. \A y \in Executors : ExecMoves(y, k)' => y = x
      BY <2>0, <3>2 DEF InTransit, ExecMoves
    <3>6. starts'[k] = 0 /\ \A y \in Executors : PastLock(y)' => execKey'[y] # k
      BY <1>1, <1>2, <2>0, <3>2 DEF KeyOK, OneLock, PastLock
    <3>7. \A c, d \in RunKeys : parent'[c] = k /\ parent'[d] = k => c = d
      BY <1>1, <1>2 DEF KeyOK
    <3> QED
      BY <3>3, <3>4, <3>5, <3>6, <3>7 DEF KeyOK, OneCopy, OneMover, OneLock
  <2> QED
    BY <2>1, <2>2
<1> QED
  BY <1>3, <1>4 DEF LockDelete, TransitRefused

\* The executor that inserts the IN_PROCESS row is the one that has locked the
\* run; when it falls back the run is one of the unlocked.
LEMMA LockInsertKey ==
  ASSUME BaseInv, NEW x \in Executors, LockInsert(x),
         NEW k \in RunKeys, k \notin unlocked', KeyOK(k)
  PROVE  KeyOK(k)'
<1> USE DEF BaseInv, TypeInv, Counts
<1> DEFINE run == execRun[x]
           new == Moved(run, "IN_PROCESS")
<1>1. /\ run \in Row /\ run.key = execKey[x] /\ run.status = "QUEUED"
      /\ UNCHANGED <<parent, starts, cron>> /\ k \notin unlocked
  BY DEF LockInsert, ProcessOK
<1>2. KeyOK(k) /\ \A v, w \in RowsOf(k) : v = w
  BY <1>1 DEF KeyOK, OneCopy
<1>3. new \in Row /\ new.key = run.key /\ new.table = "IN_PROCESS" /\ new.status = "IN_PROCESS"
  BY <1>1, MovedType DEF Label
<1>4. CASE Leave(x) /\ UNCHANGED rows
  BY <1>1, <1>4, LeaveKey
<1>5. ASSUME TransitFallBack(run, "IN_PROCESS"), Goto(x, "run"), run.key # k PROVE KeyOK(k)'
  <2>1. /\ \A y \in Executors \ {x} :
             execPC'[y] = execPC[y] /\ execKey'[y] = execKey[y] /\ execRun'[y] = execRun[y]
        /\ execKey'[x] = execKey[x]
    BY <1>5, ExecParts DEF Goto, ExecPC, TypeOK
  <2>2. RowsOf(k)' = RowsOf(k)
    BY <1>1, <1>5, InsertedRow DEF Label
  <2>3. ~ Engaged(x, k)'
    BY <1>1, <1>5, <2>1 DEF Engaged
  <2> QED
    BY <1>1, <1>2, <2>1, <2>2, <2>3, ExecOther
<1>6. ASSUME TransitInsert(run, "IN_PROCESS"), Hold(x, "run", new) PROVE KeyOK(k)'
  <2>0. "run" \in ExecPC /\ Become(x, "run", execKey[x], new)
    BY <1>6 DEF Hold, ExecPC
  <2>1. /\ \A y \in Executors \ {x} :
             execPC'[y] = execPC[y] /\ execKey'[y] = execKey[y] /\ execRun'[y] = execRun[y]
        /\ execPC'[x] = "run" /\ execKey'[x] = execKey[x] /\ execRun'[x] = new
    BY <2>0, ExecParts DEF Become, TypeOK
  <2>2. CASE run.key # k
    <3>1. RowsOf(k)' = RowsOf(k)
      BY <1>1, <1>6, <2>2, InsertedRow DEF Label
    <3>2. ~ Engaged(x, k)'
      BY <1>1, <2>1, <2>2 DEF Engaged
    <3> QED
      BY <1>1, <1>2, <2>1, <3>1, <3>2, ExecOther
  <2>3. CASE run.key = k
    <3>1. execPC[x] = "lockInsert" /\ execKey[x] = k
      BY <1>1, <2>3 DEF LockInsert
    <3>2. BeforeLock(k) /\ InTransit(k) /\ RowsOf(k) = {} /\ ExecMoves(x, k)
      BY <1>2, <3>1 DEF BeforeLock, InTransit, ExecMoves, KeyOK, OneCopy
    <3>3. RowsOf(k)' = {new}
      BY <1>3, <1>6, <2>3, <3>2 DEF TransitInsert, RowsOf
    <3>4. starts[k] = 0 /\ \A y \in Executors : PastLock(y) => execKey[y] # k
      BY <1>2, <3>2 DEF KeyOK, OneLock
    <3>5. \A y \in Executors \ {x} : ~ (PastLock(y)' /\ execKey'[y] = k)
      BY <2>1, <3>4 DEF PastLock
    <3>6. \A t \in Servers : ~ CronMoves(t, k)'
      BY <1>1, <1>2, <3>2 DEF KeyOK, OneMover, CronMoves, cron
    <3>7. \A y \in Executors : ~ ExecMoves(y, k)'
      BY <1>2, <2>1, <3>2 DEF KeyOK, OneMover, ExecMoves
    <3>8. ~ BeforeLock(k)'
      <4>1. \A w \in rows' : w.key = k => w.table = "IN_PROCESS"
        BY <1>3, <3>3 DEF RowsOf
      <4> QED
        BY <3>6, <3>7, <4>1 DEF BeforeLock, ExecMoves
    <3>9. ~ InTransit(k)'
      BY <3>6, <3>7 DEF InTransit
    <3>10. \A c \in RunKeys : parent'[c] # k
      <4>1. \A c \in RunKeys : parent[c] = k => starts[k] > 0
        BY BatchAssumption
      <4>2. parent' = parent
        BY <1>1
      <4> QED
        BY <3>4, <4>1, <4>2
    <3>11. LockedRun(x, k)'
      BY <1>1, <1>3, <2>1, <3>3, <3>4, <3>9, <3>10 DEF LockedRun
    <3>12. OneCopy(k)'
      BY <3>3, <3>9 DEF OneCopy
    <3>13. OneMover(k)'
      BY <3>6, <3>7 DEF OneMover
    <3>14. OneLock(k)'
      BY <3>5, <3>8 DEF OneLock
    <3>15. \A y \in Executors : PastLock(y)' /\ execKey'[y] = k => LockedRun(y, k)'
      BY <3>5, <3>11
    <3>16. starts'[k] <= 1
      BY <1>1, <3>4
    <3> QED
      BY <3>10, <3>12, <3>13, <3>14, <3>15, <3>16 DEF KeyOK
  <2> QED
    BY <2>2, <2>3
<1> QED
  BY <1>1, <1>4, <1>5, <1>6 DEF LockInsert, TransitLost, Rethrow

\* A locked run is executed once.
LEMMA ExecuteKey ==
  ASSUME BaseInv, NEW x \in Executors, Execute(x), NEW k \in RunKeys \ unlocked, KeyOK(k)
  PROVE  KeyOK(k)'
<1> USE DEF BaseInv, TypeInv
<1>1. PICK pc \in {"completeDelete", "logErrors"} : Goto(x, pc)
  BY DEF Execute
<1>2. /\ \A y \in Executors \ {x} :
           execPC'[y] = execPC[y] /\ execKey'[y] = execKey[y] /\ execRun'[y] = execRun[y]
      /\ execPC'[x] = pc /\ execKey'[x] = execKey[x] /\ execRun'[x] = execRun[x]
  BY <1>1, ExecParts DEF Goto, ExecPC, TypeOK
<1>3. KeyOK(k) /\ UNCHANGED <<rows, parent, cron>> /\ RowsOf(k)' = RowsOf(k)
  BY DEF Execute, RowsOf
<1>4. CASE execKey[x] # k
  <2>1. starts'[k] = starts[k]
    BY <1>4 DEF Execute, TypeOK
  <2> QED
    BY <1>2, <1>3, <1>4, <2>1, ExecOther DEF Engaged
<1>5. CASE execKey[x] = k
  <2>1. PastLock(x) /\ LockedRun(x, k) /\ execPC[x] = "run"
    BY <1>3, <1>5 DEF Execute, PastLock, KeyOK
  <2>2. starts'[k] = 1
    BY <1>5, <2>1 DEF Execute, LockedRun, TypeOK
  <2>3. \A w \in RowsOf(k) : w.table = "IN_PROCESS"
    BY <2>1 DEF LockedRun
  <2>4. \A v, w \in RowsOf(k) : v = w
    BY <1>3 DEF KeyOK, OneCopy
  <2>5. \A c \in RunKeys : parent'[c] # k
    BY <1>3, <2>1 DEF LockedRun
  <2>6. execRun'[x].table = "IN_PROCESS" /\ execRun'[x].status = "IN_PROCESS"
    BY <1>2, <2>1 DEF LockedRun
  <2>7. PastLock(x)' /\ execPC'[x] \notin {"run", "completeInsert"}
    BY <1>2 DEF PastLock
  <2> QED
    BY <1>2, <1>3, <1>5, <2>1, <2>2, <2>3, <2>4, <2>5, <2>6, <2>7, LockedStep
<1> QED
  BY <1>4, <1>5

LEMMA CompleteDeleteKey ==
  ASSUME BaseInv, NEW x \in Executors, CompleteDelete(x), NEW k \in RunKeys \ unlocked, KeyOK(k)
  PROVE  KeyOK(k)'
<1> USE DEF BaseInv, TypeInv
<1> DEFINE run == execRun[x]
<1>1. /\ run \in Row /\ run.key = execKey[x]
      /\ UNCHANGED <<parent, starts, cron>> /\ KeyOK(k)
  BY DEF CompleteDelete, ProcessOK, ghosts
<1>2. PICK pc \in {"completeInsert", "logErrors"} : Goto(x, pc)
  BY DEF CompleteDelete
<1>3. /\ \A y \in Executors \ {x} :
           execPC'[y] = execPC[y] /\ execKey'[y] = execKey[y] /\ execRun'[y] = execRun[y]
      /\ execPC'[x] = pc /\ execKey'[x] = execKey[x] /\ execRun'[x] = execRun[x]
  BY <1>2, ExecParts DEF Goto, ExecPC, TypeOK
<1>4. \/ rows' = rows /\ pc = "logErrors"
      \/ rows' = rows \ Doomed(run) /\ Doomed(run) # {} /\ pc = "completeInsert"
  <2>1. execPC'[x] = "completeInsert" \/ execPC'[x] = "logErrors"
    BY <1>3
  <2> QED
    BY <1>3 DEF CompleteDelete, TransitDelete, TransitRefused, Goto, TypeOK
<1>5. CASE execKey[x] # k
  <2>1. RowsOf(k)' = RowsOf(k)
    BY <1>1, <1>4, <1>5 DEF Doomed, RowsOf
  <2> QED
    BY <1>1, <1>3, <1>5, <2>1, ExecOther DEF Engaged
<1>6. CASE execKey[x] = k
  <2>1. PastLock(x) /\ LockedRun(x, k) /\ execPC[x] = "completeDelete"
    BY <1>1, <1>6 DEF CompleteDelete, PastLock, KeyOK
  <2>2. \A v, w \in RowsOf(k) : v = w /\ w.table = "IN_PROCESS"
    BY <1>1, <2>1 DEF KeyOK, OneCopy, LockedRun
  <2>3. /\ \A v, w \in RowsOf(k)' : v = w /\ w.table = "IN_PROCESS"
        /\ pc = "completeInsert" => RowsOf(k)' = {}
    BY <1>1, <1>4, <1>6, <2>2 DEF Doomed, RowsOf
  <2>4. \A c \in RunKeys : parent'[c] # k
    BY <1>1, <2>1 DEF LockedRun
  <2>5. execRun'[x].table = "IN_PROCESS" /\ execRun'[x].status = "IN_PROCESS"
    BY <1>3, <2>1 DEF LockedRun
  <2>6. PastLock(x)' /\ execPC'[x] # "run" /\ starts'[k] <= 1
    BY <1>1, <1>3 DEF PastLock, KeyOK
  <2> QED
    BY <1>1, <1>3, <1>6, <2>1, <2>3, <2>4, <2>5, <2>6, LockedStep
<1> QED
  BY <1>5, <1>6

LEMMA CompleteInsertKey ==
  ASSUME BaseInv, NEW x \in Executors, CompleteInsert(x), NEW k \in RunKeys \ unlocked, KeyOK(k)
  PROVE  KeyOK(k)'
<1> USE DEF BaseInv, TypeInv
<1> DEFINE run == execRun[x]
<1>1. /\ run \in Row /\ run.key = execKey[x]
      /\ UNCHANGED <<parent, starts, cron>> /\ KeyOK(k)
  BY DEF CompleteInsert, ProcessOK, ghosts
<1>2. \/ Hold(x, "reread", NoRow) /\ (TransitInsert(run, "COMPLETED") \/ TransitFallBack(run, "COMPLETED"))
      \/ Goto(x, "logErrors") /\ UNCHANGED rows
  BY DEF CompleteInsert, TransitLost
<1>3. /\ \A y \in Executors \ {x} :
           execPC'[y] = execPC[y] /\ execKey'[y] = execKey[y] /\ execRun'[y] = execRun[y]
      /\ execKey'[x] = execKey[x]
      /\ execPC'[x] = "reread" \/ (execPC'[x] = "logErrors" /\ execRun'[x] = execRun[x])
  <2>1. CASE Hold(x, "reread", NoRow)
    <3>1. "reread" \in ExecPC /\ Become(x, "reread", execKey[x], NoRow)
      BY <2>1 DEF Hold, ExecPC
    <3> QED
      BY <3>1, ExecParts DEF Become, TypeOK
  <2>2. CASE Goto(x, "logErrors")
    BY <2>2, ExecParts DEF Goto, ExecPC, TypeOK
  <2> QED
    BY <1>2, <2>1, <2>2
<1>4. /\ execKey[x] # k => RowsOf(k)' = RowsOf(k)
      /\ execKey[x] = k /\ RowsOf(k) = {} =>
            \A v, w \in RowsOf(k)' : v = w /\ v \in {run, Moved(run, "COMPLETED")}
      /\ execPC'[x] = "logErrors" => RowsOf(k)' = RowsOf(k)
  <2>1. CASE UNCHANGED rows
    BY <2>1 DEF RowsOf
  <2>2. CASE Hold(x, "reread", NoRow) /\ (TransitInsert(run, "COMPLETED") \/ TransitFallBack(run, "COMPLETED"))
    <3>1. execPC'[x] = "reread"
      BY <2>2 DEF Hold, Become, TypeOK
    <3> QED
      BY <1>1, <2>2, <3>1, InsertedRow DEF Label
  <2> QED
    BY <1>2, <2>1, <2>2
<1>5. CASE execKey[x] # k
  BY <1>1, <1>3, <1>4, <1>5, ExecOther DEF Engaged
<1>6. CASE execKey[x] = k
  <2>1. PastLock(x) /\ LockedRun(x, k) /\ execPC[x] = "completeInsert" /\ RowsOf(k) = {}
    BY <1>1, <1>6 DEF CompleteInsert, PastLock, KeyOK, OneCopy, InTransit, ExecMoves
  <2>2. run.table = "IN_PROCESS" /\ run.status = "IN_PROCESS" /\ Moved(run, "COMPLETED").table = "COMPLETED"
    BY <1>1, <2>1, MovedType DEF LockedRun, Label
  <2>3. /\ \A v, w \in RowsOf(k)' : v = w /\ v.table \in {"IN_PROCESS", "COMPLETED"}
        /\ execPC'[x] = "logErrors" => RowsOf(k)' = {}
    BY <1>4, <1>6, <2>1, <2>2
  <2>4. \A c \in RunKeys : parent'[c] # k
    BY <1>1, <2>1 DEF LockedRun
  <2>5. PastLock(x)' /\ execPC'[x] \notin {"run", "completeInsert", "completeDelete"} /\ starts'[k] <= 1
    BY <1>1, <1>3 DEF PastLock, KeyOK
  <2>6. execPC'[x] = "logErrors" => execRun'[x].table = "IN_PROCESS" /\ execRun'[x].status = "IN_PROCESS"
    BY <1>3, <2>2
  <2> QED
    BY <1>1, <1>3, <1>6, <2>1, <2>3, <2>4, <2>5, <2>6, LockedStep
<1> QED
  BY <1>5, <1>6

LEMMA LogErrorsKey ==
  ASSUME BaseInv, NEW x \in Executors, LogErrors(x), NEW k \in RunKeys \ unlocked, KeyOK(k)
  PROVE  KeyOK(k)'
<1> USE DEF BaseInv, TypeInv
<1> DEFINE run == execRun[x]
           new == [run EXCEPT !.status = "FAILED"]
           stale == {w \in rows : w.key = run.key /\ w.table = run.table}
<1>1. /\ run \in Row /\ run.key = execKey[x]
      /\ UNCHANGED <<parent, starts, cron>> /\ KeyOK(k)
  BY DEF LogErrors, ProcessOK, ghosts
<1>2. new.key = run.key /\ new.table = run.table
  BY <1>1, RestatusType DEF Label
<1>3. CASE Leave(x) /\ UNCHANGED rows
  BY <1>1, <1>3, LeaveKey
<1>4. ASSUME Hold(x, "reread", NoRow), rows' = (rows \ stale) \cup {new} PROVE KeyOK(k)'
  <2>0. "reread" \in ExecPC /\ Become(x, "reread", execKey[x], NoRow)
    BY <1>4 DEF Hold, ExecPC
  <2>1. /\ \A y \in Executors \ {x} :
             execPC'[y] = execPC[y] /\ execKey'[y] = execKey[y] /\ execRun'[y] = execRun[y]
        /\ execPC'[x] = "reread" /\ execKey'[x] = execKey[x]
    BY <2>0, ExecParts DEF Become, TypeOK
  <2>2. CASE execKey[x] # k
    <3>1. RowsOf(k)' = RowsOf(k)
      BY <1>1, <1>2, <1>4, <2>2 DEF RowsOf
    <3> QED
      BY <1>1, <2>1, <2>2, <3>1, ExecOther DEF Engaged
  <2>3. CASE execKey[x] = k
    <3>1. PastLock(x) /\ LockedRun(x, k) /\ execPC[x] = "logErrors"
      BY <1>1, <2>3 DEF LogErrors, PastLock, KeyOK
    <3>2. run.table = "IN_PROCESS" /\ \A w \in RowsOf(k) : w.table = "IN_PROCESS"
      BY <3>1 DEF LockedRun
    <3>3. RowsOf(k)' = {new}
      BY <1>1, <1>2, <1>4, <2>3, <3>2 DEF RowsOf
    <3>4. new.table = "IN_PROCESS"
      BY <1>2, <3>2
    <3>5. \A c \in RunKeys : parent'[c] # k
      BY <1>1, <3>1 DEF LockedRun
    <3>6. PastLock(x)' /\ starts'[k] <= 1
      BY <1>1, <2>1 DEF PastLock, KeyOK
    <3> QED
      BY <1>1, <2>1, <2>3, <3>1, <3>3, <3>4, <3>5, <3>6, LockedStep
  <2> QED
    BY <2>2, <2>3
<1> QED
  BY <1>3, <1>4 DEF LogErrors, Rethrow

LEMMA ScheduleNextRunKey ==
  ASSUME BaseInv, NEW x \in Executors, ScheduleNextRun(x), NEW k \in RunKeys \ unlocked, KeyOK(k)
  PROVE  KeyOK(k)'
<1> USE DEF BaseInv, TypeInv
<1>1. UNCHANGED <<rows, parent, starts, cron>> /\ RowsOf(k)' = RowsOf(k) /\ KeyOK(k)
  BY DEF ScheduleNextRun, ghosts, RowsOf
<1>2. CASE Leave(x)
  BY <1>1, <1>2, LeaveKey
<1>3. ASSUME NEW pc \in {"insertNext", "ack"}, Goto(x, pc) PROVE KeyOK(k)'
  <2>1. /\ \A y \in Executors \ {x} :
             execPC'[y] = execPC[y] /\ execKey'[y] = execKey[y] /\ execRun'[y] = execRun[y]
        /\ execPC'[x] = pc /\ execKey'[x] = execKey[x]
    BY <1>3, ExecParts DEF Goto, ExecPC, TypeOK
  <2>2. CASE execKey[x] # k
    BY <1>1, <2>1, <2>2, ExecOther DEF Engaged
  <2>3. CASE execKey[x] = k
    <3>1. PastLock(x) /\ LockedRun(x, k) /\ ~ BeforeLock(k) /\ execPC[x] = "reread"
      BY <1>1, <2>3 DEF ScheduleNextRun, PastLock, KeyOK, OneLock
    <3>2. \A v, w \in RowsOf(k) : v = w /\ w.table \notin {"SCHEDULED", "QUEUED"}
      BY <1>1, <3>1 DEF BeforeLock, RowsOf, KeyOK, OneCopy
    <3>3. \A c \in RunKeys : parent'[c] # k
      BY <1>1, <3>1 DEF LockedRun
    <3>4. PastLock(x)' /\ starts'[k] <= 1
      BY <1>1, <2>1 DEF PastLock, KeyOK
    <3> QED
      BY <1>1, <2>1, <2>3, <3>1, <3>2, <3>3, <3>4, LockedStep
  <2> QED
    BY <2>2, <2>3
<1> QED
  BY <1>2, <1>3 DEF ScheduleNextRun, Rethrow

\* The first successor of a run is the last thing its executor does.
LEMMA InsertNextRunKey ==
  ASSUME BaseInv, NEW x \in Executors, InsertNextRun(x), NEW k \in RunKeys \ unlocked, KeyOK(k)
  PROVE  KeyOK(k)'
<1> USE DEF BaseInv, TypeInv
<1>1. UNCHANGED <<starts, cron>> /\ KeyOK(k) /\ execKey[x] \in created /\ execKey[x] # NoRun
  BY BatchAssumption DEF InsertNextRun, ProcessOK, TypeOK
<1>2. CASE Leave(x) /\ UNCHANGED <<rows, parent>>
  BY <1>1, <1>2, LeaveKey
<1>3. ASSUME Goto(x, "ack") PROVE
        /\ \A y \in Executors \ {x} :
             execPC'[y] = execPC[y] /\ execKey'[y] = execKey[y] /\ execRun'[y] = execRun[y]
        /\ execPC'[x] = "ack" /\ execKey'[x] = execKey[x]
  BY <1>3, ExecParts DEF Goto, ExecPC, TypeOK
<1>4. ASSUME Goto(x, "ack"), execKey[x] = k
      PROVE  PastLock(x) /\ PastLock(x)' /\ LockedRun(x, k) /\ ~ BeforeLock(k)
             /\ \A c \in RunKeys : parent[c] # k
             /\ \A v, w \in RowsOf(k) : v = w /\ w.table \notin {"SCHEDULED", "QUEUED"}
  <2>1. PastLock(x) /\ LockedRun(x, k) /\ ~ BeforeLock(k) /\ execPC[x] = "insertNext"
    BY <1>1, <1>4 DEF InsertNextRun, PastLock, KeyOK, OneLock
  <2>2. \A v, w \in RowsOf(k) : v = w /\ w.table \notin {"SCHEDULED", "QUEUED"}
    BY <1>1, <2>1 DEF BeforeLock, RowsOf, KeyOK, OneCopy
  <2> QED
    BY <1>3, <1>4, <2>1, <2>2 DEF PastLock, LockedRun
<1>5. ASSUME Goto(x, "ack"), UNCHANGED <<rows, parent>> PROVE KeyOK(k)'
  <2>1. RowsOf(k)' = RowsOf(k)
    BY <1>5 DEF RowsOf
  <2>2. CASE execKey[x] # k
    BY <1>1, <1>3, <1>5, <2>1, <2>2, ExecOther DEF Engaged
  <2>3. CASE execKey[x] = k
    BY <1>1, <1>3, <1>4, <1>5, <2>1, <2>3, LockedStep DEF KeyOK
  <2> QED
    BY <2>2, <2>3
<1>6. ASSUME Goto(x, "ack"), NEW n \in Fresh, NEW s \in Servers, InsertScheduled(n, s, execKey[x])
      PROVE  KeyOK(k)'
  <2>1. CASE k = n
    <3>1. \A y \in Executors : execPC'[y] # "idle" =>
             execPC[y] # "idle" /\ execKey'[y] = execKey[y]
      BY <1>3, <1>6 DEF InsertNextRun
    <3> QED
      BY <1>1, <1>6, <2>1, <3>1, NewRun DEF TypeInv
  <2>2. CASE k # n
    <3>1. RowsOf(k)' = RowsOf(k)
      BY <1>6, <2>2 DEF InsertScheduled, RowsOf
    <3>2. \A c \in RunKeys : parent'[c] = k =>
             parent[c] = k \/ (c = n /\ k = execKey[x])
      BY <1>6 DEF InsertScheduled, TypeOK
    <3>3. CASE execKey[x] # k
      BY <1>1, <1>3, <1>6, <3>1, <3>2, <3>3, ExecOther DEF Engaged
    <3>4. CASE execKey[x] = k
      <4>1. \A c, d \in RunKeys : parent'[c] = k /\ parent'[d] = k => c = d
        BY <1>4, <1>6, <3>2, <3>4
      <4>2. starts'[k] <= 1
        BY <1>1 DEF KeyOK
      <4> QED
        BY <1>1, <1>3, <1>4, <1>6, <3>1, <3>4, <4>1, <4>2, LockedStep
    <3> QED
      BY <3>3, <3>4
  <2> QED
    BY <2>1, <2>2
<1> QED
  BY <1>2, <1>5, <1>6 DEF InsertNextRun, Rethrow

------------------------------------------------------------------------------
(* What was executed stays executed.                                         *)

LEMMA NextCounts ==
  ASSUME BaseInv, [Next]_vars
  PROVE  Counts'
<1> USE DEF BaseInv, TypeInv, Counts
<1>1. TypeOK /\ ProcessOK /\ TypeOK'
  BY NextType DEF TypeInv
<1>0. \A y \in Executors : execPC[y] # "idle" => execKey[y] \in RunKeys
  BY <1>1 DEF ProcessOK, TypeOK
<1>2. \A k \in RunKeys : starts'[k] >= starts[k] /\ starts[k] \in Nat /\ starts'[k] \in Nat
  <2>1. UNCHANGED starts \/ \E x \in Executors : Execute(x)
    BY DEF Next, ScheduleJob, BecomeDue, CronStep, CronRuns, CronRead, CronDelete,
       CronInsert, CronSend, CronCommit, CronCrash, Deliver, ExecStep, ExecRuns,
       LockFind, LockDelete, LockInsert, CompleteDelete, CompleteInsert,
       LogErrors, ScheduleNextRun, InsertNextRun, Acknowledge, ExecCrash,
       CancelRead, CancelCommit, TriggerFirst, ghosts, vars
  <2>2. \A k \in RunKeys : starts[k] \in Nat /\ starts'[k] \in Nat
    BY <1>1 DEF TypeOK
  <2>3. ASSUME NEW x \in Executors, Execute(x) PROVE \A k \in RunKeys : starts'[k] >= starts[k]
    BY <1>1, <2>2, <2>3 DEF Execute, TypeOK
  <2> QED
    BY <2>1, <2>2, <2>3
<1>3. CASE \E x \in Executors : ExecStep(x)
  <2>1. PICK x \in Executors : ExecStep(x)
    BY <1>3
  <2>2. execPC[x] # "idle" /\ execKey[x] \in RunKeys
    BY <2>1, <1>1 DEF ExecStep, ExecRuns, ExecCrash, LockFind, LockDelete, LockInsert,
       Execute, CompleteDelete, CompleteInsert, LogErrors, ScheduleNextRun,
       InsertNextRun, Acknowledge, TypeOK, ProcessOK
  <2>3. \A y \in Executors : y # x => execPC'[y] = execPC[y] /\ execKey'[y] = execKey[y]
    BY <2>1, <1>1 DEF ExecStep, ExecRuns, ExecCrash, LockFind, LockDelete, LockInsert,
       Execute, CompleteDelete, CompleteInsert, LogErrors, ScheduleNextRun,
       InsertNextRun, Acknowledge, Rethrow, Leave, Hold, Goto, Become, TypeOK
  <2>4. Executed(x)'
    BY <2>1, <2>2, <1>1, <1>2 DEF ExecStep, ExecRuns, ExecCrash, LockFind, LockDelete,
       LockInsert, Execute, CompleteDelete, CompleteInsert, LogErrors,
       ScheduleNextRun, InsertNextRun, Acknowledge, Rethrow, Leave, Hold, Goto,
       Become, Executed, TypeOK
  <2>5. \A y \in Executors : Executed(y)'
    BY <2>3, <2>4, <1>0, <1>2 DEF Executed
  <2>6. \A k \in RunKeys : parent'[k] # parent[k] =>
          parent'[k] = execKey[x] /\ starts[execKey[x]] > 0
    BY <2>1, <2>2, <1>1 DEF ExecStep, ExecRuns, ExecCrash, LockFind, LockDelete,
       LockInsert, Execute, CompleteDelete, CompleteInsert, LogErrors,
       ScheduleNextRun, InsertNextRun, Acknowledge, InsertScheduled, Executed,
       ghosts, TypeOK
  <2>7. \A k \in RunKeys : parent'[k] # NoRun => starts'[parent'[k]] > 0
    BY <2>2, <2>6, <1>1, <1>2 DEF TypeOK
  <2> QED
    BY <2>5, <2>7 DEF Counts
<1>4. CASE ~ \E x \in Executors : ExecStep(x)
  <2>1. \A x \in Executors :
          \/ execPC'[x] = execPC[x] /\ execKey'[x] = execKey[x]
          \/ execPC'[x] = "find"
    BY <1>4, <1>1 DEF Next, ScheduleJob, BecomeDue, CronStep, CronRuns, CronRead,
       CronDelete, CronInsert, CronSend, CronCommit, CronCrash, Deliver, CancelRead,
       CancelCommit, TriggerFirst, Become, exec, vars, TypeOK
  <2>2. \A k \in RunKeys : parent'[k] = parent[k] \/ parent'[k] = NoRun
    BY <1>4, <1>1 DEF Next, ScheduleJob, BecomeDue, CronStep, CronRuns, CronRead,
       CronDelete, CronInsert, CronSend, CronCommit, CronCrash, Deliver, CancelRead,
       CancelCommit, TriggerFirst, InsertScheduled, ghosts, vars, TypeOK
  <2>3. \A x \in Executors : Executed(x)'
    BY <2>1, <1>0, <1>2 DEF Executed
  <2>4. \A k \in RunKeys : parent'[k] # NoRun => starts'[parent'[k]] > 0
    BY <2>2, <1>1, <1>2 DEF TypeOK
  <2> QED
    BY <2>3, <2>4 DEF Counts
<1> QED
  BY <1>3, <1>4

------------------------------------------------------------------------------
(* The invariant is inductive.                                               *)

LEMMA UnlockedGrows ==
  ASSUME [Next]_vars
  PROVE  unlocked \subseteq unlocked'
<1>1. UNCHANGED unlocked \/ \E x \in Executors : LockInsert(x)
  BY DEF Next, ScheduleJob, BecomeDue, CronStep, CronRuns, CronRead, CronDelete,
     CronInsert, CronSend, CronCommit, CronCrash, Deliver, ExecStep, ExecRuns,
     LockFind, LockDelete, Execute, CompleteDelete, CompleteInsert,
     LogErrors, ScheduleNextRun, InsertNextRun, Acknowledge, ExecCrash,
     CancelRead, CancelCommit, TriggerFirst, ghosts, vars
<1> QED
  BY <1>1 DEF LockInsert

LEMMA CronStepKey ==
  ASSUME BaseInv, NEW s \in Servers, CronStep(s), NEW k \in RunKeys \ unlocked, KeyOK(k)
  PROVE  KeyOK(k)'
BY CronReadKey, CronDeleteKey, CronInsertKey, CronOtherKey DEF CronStep, CronRuns

LEMMA ExecStepKey ==
  ASSUME BaseInv, NEW x \in Executors, ExecStep(x), NEW k \in RunKeys \ unlocked, KeyOK(k),
         k \notin unlocked'
  PROVE  KeyOK(k)'
<1>1. CASE Acknowledge(x) \/ ExecCrash(x)
  BY <1>1, LeaveKey DEF Acknowledge, ExecCrash, ghosts
<1>2. CASE LockFind(x) \/ LockDelete(x) \/ LockInsert(x) \/ Execute(x)
  BY <1>2, LockFindKey, LockDeleteKey, LockInsertKey, ExecuteKey
<1>3. CASE CompleteDelete(x) \/ CompleteInsert(x) \/ LogErrors(x)
  BY <1>3, CompleteDeleteKey, CompleteInsertKey, LogErrorsKey
<1>4. CASE ScheduleNextRun(x) \/ InsertNextRun(x)
  BY <1>4, ScheduleNextRunKey, InsertNextRunKey
<1> QED
  BY <1>1, <1>2, <1>3, <1>4 DEF ExecStep, ExecRuns

LEMMA NextKeys ==
  ASSUME BaseInv, [Next]_vars, NEW k \in RunKeys, k \notin unlocked', KeyOK(k)
  PROVE  KeyOK(k)'
<1>1. k \in RunKeys \ unlocked /\ KeyOK(k)
  BY UnlockedGrows
<1>2. ASSUME NEW n \in RunKeys, NEW s \in Servers, ScheduleJob(n, s) PROVE KeyOK(k)'
  BY <1>1, <1>2, ScheduleJobKey
<1>3. ASSUME UNCHANGED <<rows, parent, starts, cron, exec>> PROVE KeyOK(k)'
  BY <1>1, <1>3, StillKey
<1>4. ASSUME NEW s \in Servers, CronStep(s) PROVE KeyOK(k)'
  BY <1>1, <1>4, CronStepKey
<1>5. ASSUME NEW x \in Executors, NEW n \in RunKeys, Deliver(x, n) PROVE KeyOK(k)'
  BY <1>1, <1>5, DeliverKey
<1>6. ASSUME NEW x \in Executors, ExecStep(x) PROVE KeyOK(k)'
  BY <1>1, <1>6, ExecStepKey
<1>7. ASSUME NEW a \in Admins, CancelCommit(a) \/ TriggerFirst(a) PROVE KeyOK(k)'
  BY <1>1, <1>7, CancelCommitKey, TriggerFirstKey
<1>8. CASE \/ UNCHANGED vars
           \/ \E n \in RunKeys : BecomeDue(n)
           \/ \E a \in Admins, n \in RunKeys, again \in BOOLEAN : CancelRead(a, n, again)
  <2>1. UNCHANGED <<rows, parent, starts, cron, exec>>
    BY <1>8 DEF vars, BecomeDue, CancelRead, ghosts
  <2> QED
    BY <2>1, <1>3
<1> QED
  BY <1>2, <1>4, <1>5, <1>6, <1>7, <1>8 DEF Next

LEMMA InitIInv == Init => IInv
<1> SUFFICES ASSUME Init PROVE IInv
  OBVIOUS
<1>1. TypeInv
  BY InitType
<1>2. (\A x \in Executors : Executed(x)) /\ \A k \in RunKeys : parent[k] = NoRun
  BY DEF Init, Executed
<1>3. ASSUME NEW k \in RunKeys PROVE KeyOK(k)
  <2>1. RowsOf(k) = {} /\ starts[k] = 0 /\ \A c \in RunKeys : parent[c] # k
    BY BatchAssumption DEF Init, RowsOf
  <2>2. /\ \A s \in Servers : ~ CronMoves(s, k)
        /\ \A x \in Executors : ~ ExecMoves(x, k) /\ ~ PastLock(x) /\ execPC[x] = "idle"
    BY DEF Init, CronMoves, ExecMoves, PastLock
  <2> QED
    BY <2>1, <2>2 DEF KeyOK, OneCopy, OneMover, OneLock, BeforeLock, InTransit, RowsOf, Init
<1> QED
  BY <1>1, <1>2, <1>3 DEF IInv, TypeInv

LEMMA NextIInv == IInv /\ [Next]_vars => IInv'
<1> SUFFICES ASSUME IInv, [Next]_vars PROVE IInv'
  OBVIOUS
<1>0. BaseInv /\ \A k \in RunKeys \ unlocked : KeyOK(k)
  BY DEF IInv, BaseInv, TypeInv, Counts
<1>1. TypeInv'
  BY <1>0, NextType DEF BaseInv
<1>2. Counts'
  BY <1>0, NextCounts
<1>3. \A k \in RunKeys : k \notin unlocked' => KeyOK(k)'
  BY <1>0, NextKeys, UnlockedGrows
<1> QED
  BY <1>1, <1>2, <1>3 DEF IInv, TypeInv, Counts

\* IInv holds in every state: the facts that SingleCopy, ExecutedAtMostOnce and
\* LinearChain need of each other, for any number of processes and failures.
THEOREM Invariant == Spec => []IInv
BY InitIInv, NextIInv, PTL DEF Spec

------------------------------------------------------------------------------
(* What the invariant gives.                                                 *)

\* For any number of servers, executors, administrators and failures, a run
\* that was locked properly is never in two tables, nor in one table while
\* somebody still carries it to another (BatchJobTransitionService.transit).
THEOREM OneTable == Spec => []SingleCopy
<1>1. IInv => SingleCopy
  BY DEF IInv, KeyOK, OneCopy, SingleCopy
<1> QED
  BY <1>1, Invariant, PTL

\* The steps of a run that was locked properly are executed at most once, for
\* any number of messages, redeliveries and executors (lockForExecution).
THEOREM AtMostOnce == Spec => []ExecutedAtMostOnce
<1>1. IInv => ExecutedAtMostOnce
  BY DEF IInv, KeyOK, ExecutedAtMostOnce
<1> QED
  BY <1>1, Invariant, PTL

\* scheduleNextRun never gives a run two successors, nor one before its steps
\* were executed.
THEOREM Linear == Spec => []LinearChain
<1>1. IInv => LinearChain
  <2>1. SUFFICES ASSUME IInv PROVE LinearChain
    OBVIOUS
  <2>2. created \subseteq RunKeys /\ \A k \in RunKeys : parent[k] \in RunKeys \cup {NoRun}
    BY <2>1 DEF IInv, TypeOK
  <2>3. ASSUME NEW k \in created, NEW l \in created, parent[k] = parent[l],
               parent[k] \notin unlocked \cup {NoRun}
        PROVE  k = l
    BY <2>1, <2>2, <2>3 DEF IInv, KeyOK
  <2> QED
    BY <2>1, <2>2, <2>3 DEF IInv, LinearChain
<1> QED
  BY <1>1, Invariant, PTL

------------------------------------------------------------------------------
(* No row is lost.                                                           *)

Has(k) == \E w \in rows : w.key = k
Kept(k) == Has(k) \/ InTransit(k)

\* A step that drops no row of k and interrupts nobody who moves it.
LEMMA KeptFrame ==
  ASSUME NEW k \in RunKeys, Kept(k), Has(k) => Has(k)',
         \A s \in Servers : CronMoves(s, k) => CronMoves(s, k)',
         \A x \in Executors : ExecMoves(x, k) => ExecMoves(x, k)'
  PROVE  Kept(k)'
BY DEF Kept, InTransit

\* The second half of transit, without a failure, leaves the run in a table.
LEMMA SecondHalf ==
  ASSUME TypeOK, faults' = 0, NEW run \in Row, NEW status \in Label,
         TransitInsert(run, status) \/ TransitFallBack(run, status) \/ TransitLost(run, status)
  PROVE  /\ \E w \in rows' : w.key = run.key
         /\ rows \subseteq rows'
<1>1. \A f : ~ Fault(f)
  BY DEF Fault, TypeOK
<1>2. Moved(run, status).key = run.key
  BY MovedType
<1>3. CASE TransitInsert(run, status) \/ TransitFallBack(run, status)
  BY <1>2, <1>3 DEF TransitInsert, TransitFallBack
<1>4. CASE TransitLost(run, status)
  BY <1>1, <1>4 DEF TransitLost, CanPersist
<1> QED BY <1>3, <1>4

LEMMA CronKept ==
  ASSUME IInv, NEW s \in Servers, CronStep(s), faults' = 0, NEW k \in RunKeys, Kept(k)
  PROVE  Kept(k)'
<1>1. TypeOK /\ ProcessOK /\ \A f : ~ Fault(f)
  BY DEF IInv, Fault, TypeOK
<1>2. \A x \in Executors : ExecMoves(x, k) => ExecMoves(x, k)'
  BY DEF CronStep, CronRuns, CronRead, CronDelete, CronInsert, CronSend, CronCommit,
     CronCrash, ExecMoves, exec
<1>3. \A t \in Servers \ {s} : CronMoves(t, k) => CronMoves(t, k)'
  BY <1>1 DEF CronStep, CronRuns, CronRead, CronDelete, CronInsert, CronSend, CronCommit,
     CronCrash, Continue, CronGoto, Abort, CronEnds, CronMoves, TypeOK
<1>4. CASE CronRead(s) \/ CronSend(s) \/ CronCommit(s)
  <2>1. rows' = rows /\ ~ CronMoves(s, k)
    BY <1>4 DEF CronRead, CronSend, CronCommit, CronMoves
  <2> QED BY <1>2, <1>3, <2>1, KeptFrame DEF Has
<1>5. CASE CronDelete(s)
  <2>1. ~ CronMoves(s, k)
    BY <1>5 DEF CronDelete, CronMoves
  <2>2. CASE UNCHANGED rows
    BY <1>2, <1>3, <2>1, <2>2, KeptFrame DEF Has
  <2>3. CASE TransitDelete(Head(cronList[s])) /\ CronGoto(s, "insert")
    <3>1. CASE Head(cronList[s]).key = k
      BY <1>1, <2>3, <3>1 DEF Kept, InTransit, CronMoves, CronGoto, TypeOK
    <3>2. CASE Head(cronList[s]).key # k
      <4>1. Has(k) => Has(k)'
        BY <2>3, <3>2 DEF TransitDelete, Doomed, Has
      <4> QED BY <1>2, <1>3, <2>1, <4>1, KeptFrame
    <3> QED BY <3>1, <3>2
  <2> QED BY <1>5, <2>2, <2>3 DEF CronDelete, TransitRefused
<1>6. CASE CronInsert(s)
  <2>1. Head(cronList[s]) \in Row /\ "QUEUED" \in Label
    BY <1>1, <1>6, ListType DEF CronInsert, Label
  <2>2. rows \subseteq rows' /\ \E w \in rows' : w.key = Head(cronList[s]).key
    BY <1>1, <1>6, <2>1, SecondHalf DEF CronInsert
  <2>3. CASE Head(cronList[s]).key = k
    BY <2>2, <2>3 DEF Kept, Has
  <2>4. CASE Head(cronList[s]).key # k
    <3>1. ~ CronMoves(s, k) /\ (Has(k) => Has(k)')
      BY <2>2, <2>4 DEF CronMoves, Has
    <3> QED BY <1>2, <1>3, <3>1, KeptFrame
  <2> QED BY <2>3, <2>4
<1> QED BY <1>1, <1>4, <1>5, <1>6 DEF CronStep, CronRuns, CronCrash

LEMMA ExecKept ==
  ASSUME IInv, NEW x \in Executors, ExecStep(x), faults' = 0, NEW k \in RunKeys, Kept(k)
  PROVE  Kept(k)'
<1>1. TypeOK /\ ProcessOK /\ \A f : ~ Fault(f)
  BY DEF IInv, Fault, TypeOK
<1>2. \A s \in Servers : CronMoves(s, k) => CronMoves(s, k)'
  BY DEF ExecStep, ExecRuns, LockFind, LockDelete, LockInsert, Execute, CompleteDelete,
     CompleteInsert, LogErrors, ScheduleNextRun, InsertNextRun, Acknowledge, ExecCrash,
     CronMoves, cron
<1>3. \A y \in Executors \ {x} : ExecMoves(y, k) => ExecMoves(y, k)'
  BY <1>1 DEF ExecStep, ExecRuns, LockFind, LockDelete, LockInsert, Execute, CompleteDelete,
     CompleteInsert, LogErrors, ScheduleNextRun, InsertNextRun, Acknowledge, ExecCrash,
     Rethrow, Leave, Hold, Goto, Become, ExecMoves, TypeOK
<1>4. CASE LockFind(x) \/ Execute(x) \/ ScheduleNextRun(x) \/ InsertNextRun(x) \/ Acknowledge(x)
  <2>1. rows \subseteq rows' /\ ~ ExecMoves(x, k)
    BY <1>4 DEF LockFind, Execute, ScheduleNextRun, InsertNextRun, Acknowledge,
       InsertScheduled, ExecMoves
  <2> QED BY <1>2, <1>3, <2>1, KeptFrame DEF Has
<1>5. CASE LockDelete(x) \/ CompleteDelete(x)
  <2>1. ~ ExecMoves(x, k) /\ execRun[x].key = execKey[x]
    BY <1>1, <1>5 DEF LockDelete, CompleteDelete, ExecMoves, ProcessOK
  <2>2. CASE UNCHANGED rows
    BY <1>2, <1>3, <2>1, <2>2, KeptFrame DEF Has
  <2>3. CASE TransitDelete(execRun[x]) /\ (Goto(x, "lockInsert") \/ Goto(x, "completeInsert"))
    <3>1. CASE execKey[x] = k
      BY <1>1, <2>3, <3>1 DEF Kept, InTransit, ExecMoves, Goto, TypeOK
    <3>2. CASE execKey[x] # k
      <4>1. Has(k) => Has(k)'
        BY <2>1, <2>3, <3>2 DEF TransitDelete, Doomed, Has
      <4> QED BY <1>2, <1>3, <2>1, <4>1, KeptFrame
    <3> QED BY <3>1, <3>2
  <2> QED BY <1>5, <2>2, <2>3 DEF LockDelete, CompleteDelete, TransitRefused
<1>6. CASE LockInsert(x) \/ CompleteInsert(x)
  <2>1. execRun[x] \in Row /\ execRun[x].key = execKey[x] /\ {"IN_PROCESS", "COMPLETED"} \subseteq Label
    BY <1>1, <1>6 DEF LockInsert, CompleteInsert, ProcessOK, Label
  <2>2. rows \subseteq rows' /\ \E w \in rows' : w.key = execKey[x]
    <3>1. CASE LockInsert(x)
      BY <1>1, <2>1, <3>1, SecondHalf DEF LockInsert
    <3>2. CASE CompleteInsert(x)
      BY <1>1, <2>1, <3>2, SecondHalf DEF CompleteInsert
    <3> QED BY <1>6, <3>1, <3>2
  <2>3. CASE execKey[x] = k
    BY <2>2, <2>3 DEF Kept, Has
  <2>4. CASE execKey[x] # k
    <3>1. ~ ExecMoves(x, k) /\ (Has(k) => Has(k)')
      BY <2>2, <2>4 DEF ExecMoves, Has
    <3> QED BY <1>2, <1>3, <3>1, KeptFrame
  <2> QED BY <2>3, <2>4
<1>7. CASE LogErrors(x)
  <2>1. execRun[x] \in Row /\ ~ ExecMoves(x, k)
    BY <1>1, <1>7 DEF LogErrors, ProcessOK, ExecMoves
  <2>2. [execRun[x] EXCEPT !.status = "FAILED"].key = execRun[x].key
    BY <2>1 DEF Row
  <2>3. Has(k) => Has(k)'
    BY <1>1, <1>7, <2>2 DEF LogErrors, Has
  <2> QED BY <1>2, <1>3, <2>1, <2>3, KeptFrame
<1> QED BY <1>1, <1>4, <1>5, <1>6, <1>7 DEF ExecStep, ExecRuns, ExecCrash

\* A step of nobody who moves rows, or of an administrator.
LEMMA OtherKept ==
  ASSUME IInv, NEW k \in RunKeys, Kept(k), UNCHANGED <<cron, exec>>, Has(k) => Has(k)'
  PROVE  Kept(k)'
BY KeptFrame DEF CronMoves, ExecMoves, cron, exec

LEMMA NextKept ==
  ASSUME IInv, [Next]_vars, faults' = 0, NEW k \in created', k \in created => Kept(k)
  PROVE  Kept(k)'
<1>1. TypeOK /\ ProcessOK /\ TypeOK' /\ k \in RunKeys
  BY NextIInv DEF IInv, TypeOK
<1>2. CASE k \notin created
  <2>1. \/ UNCHANGED created
        \/ \E n \in RunKeys, s \in Servers : ScheduleJob(n, s)
        \/ \E x \in Executors : InsertNextRun(x)
        \/ \E a \in Admins : TriggerFirst(a)
    BY DEF Next, BecomeDue, CronStep, CronRuns, CronRead, CronDelete,
       CronInsert, CronSend, CronCommit, CronCrash, Deliver, ExecStep, ExecRuns, LockFind,
       LockDelete, LockInsert, Execute, CompleteDelete, CompleteInsert, LogErrors,
       ScheduleNextRun, Acknowledge, ExecCrash, CancelRead, CancelCommit, ghosts, vars
  <2>2. \E n \in RunKeys, s \in Servers :
           /\ created' = created \cup {n}
           /\ [key |-> n, table |-> "SCHEDULED", status |-> "SCHEDULED", server |-> s] \in rows'
    <3>1. ASSUME NEW n, NEW s, NEW p, InsertScheduled(n, s, p)
          PROVE  /\ created' = created \cup {n}
                 /\ [key |-> n, table |-> "SCHEDULED", status |-> "SCHEDULED", server |-> s] \in rows'
      BY <3>1 DEF InsertScheduled
    <3>2. created' # created
      BY <1>2
    <3> QED BY <2>1, <3>1, <3>2 DEF ScheduleJob, InsertNextRun, TriggerFirst, Fresh
  <2>3. Has(k)'
    BY <1>2, <2>2 DEF Has
  <2> QED BY <2>3 DEF Kept
<1>3. CASE k \in created
  <2>1. ASSUME NEW s \in Servers, CronStep(s) PROVE Kept(k)'
    BY <1>1, <1>3, <2>1, CronKept
  <2>2. ASSUME NEW x \in Executors, ExecStep(x) PROVE Kept(k)'
    BY <1>1, <1>3, <2>2, ExecKept
  <2>3. ASSUME NEW x \in Executors, NEW n \in RunKeys, Deliver(x, n) PROVE Kept(k)'
    <3>1. rows' = rows /\ UNCHANGED cron /\ execPC[x] = "idle"
          /\ \A y \in Executors \ {x} : execPC'[y] = execPC[y] /\ execKey'[y] = execKey[y]
      BY <1>1, <2>3 DEF Deliver, Become, TypeOK
    <3>2. \A s \in Servers : CronMoves(s, k) => CronMoves(s, k)'
      BY <3>1 DEF CronMoves, cron
    <3>3. \A y \in Executors : ExecMoves(y, k) => ExecMoves(y, k)'
      BY <3>1 DEF ExecMoves
    <3> QED BY <1>1, <1>3, <3>1, <3>2, <3>3, KeptFrame DEF Has
  <2>4. ASSUME NEW a \in Admins, CancelCommit(a) PROVE Kept(k)'
    <3>1. [adminRun[a] EXCEPT !.status = "CANCELLED"].key = adminRun[a].key
      BY <1>1, <2>4 DEF CancelCommit, ProcessOK, Row
    <3>2. Has(k) => Has(k)'
      BY <2>4, <3>1 DEF CancelCommit, Has
    <3> QED BY <1>1, <1>3, <2>4, <3>2, OtherKept DEF CancelCommit
  <2>5. CASE \/ UNCHANGED vars
             \/ \E n \in RunKeys : BecomeDue(n) \/ \E s \in Servers : ScheduleJob(n, s)
             \/ \E a \in Admins : TriggerFirst(a)
             \/ \E a \in Admins, n \in RunKeys, again \in BOOLEAN : CancelRead(a, n, again)
    <3>1. UNCHANGED <<cron, exec>> /\ rows \subseteq rows'
      BY <2>5 DEF vars, BecomeDue, ScheduleJob, TriggerFirst, CancelRead, InsertScheduled
    <3> QED BY <1>1, <1>3, <3>1, OtherKept DEF Has
  <2> QED BY <2>1, <2>2, <2>3, <2>4, <2>5 DEF Next
<1> QED BY <1>2, <1>3

LEMMA FaultsGrow ==
  ASSUME IInv, [Next]_vars, faults' = 0
  PROVE  faults = 0
<1>1. faults \in Nat
  BY DEF IInv, TypeOK
<1>2. \A f : ~ Fault(f)
  BY <1>1 DEF Fault
<1> QED
  BY <1>2 DEF Next, ScheduleJob, BecomeDue, CronStep, CronRuns, CronRead, CronDelete,
     CronInsert, CronSend, CronCommit, CronCrash, Deliver, ExecStep, ExecRuns, LockFind,
     LockDelete, LockInsert, Execute, CompleteDelete, CompleteInsert, LogErrors,
     ScheduleNextRun, InsertNextRun, Acknowledge, ExecCrash, CancelRead, CancelCommit,
     TriggerFirst, TransitDelete, TransitRefused, TransitInsert, TransitFallBack,
     TransitLost, vars

\* Without a failure a run is never lost: the first half of transit leaves it to
\* the process that carries on with the second, which finds the table free or
\* another copy there (BatchJobTransitionService.transit).
THEOREM NoneLost == Spec => []NothingLost
<1>1. Init => NothingLost
  BY DEF Init, NothingLost
<1>2. IInv /\ NothingLost /\ [Next]_vars => NothingLost'
  <2> SUFFICES ASSUME IInv, NothingLost, [Next]_vars, faults' = 0, NEW k \in created'
               PROVE  (RowsOf(k) # {} \/ InTransit(k))'
    BY DEF NothingLost
  <2>1. k \in created => Kept(k)
    BY FaultsGrow DEF NothingLost, Kept, Has, RowsOf
  <2>2. Kept(k)'
    BY <2>1, NextKept
  <2> QED BY <2>2 DEF Kept, Has, RowsOf
<1> QED BY <1>1, <1>2, Invariant, PTL DEF Spec

------------------------------------------------------------------------------
(* A run stays with its server, and COMPLETED is a table.                    *)

\* The rows, and the entities that processes hold and may write back.
Entity(w) ==
    /\ w \in Row
    /\ \/ w \in rows
       \/ \E x \in Executors : execRun[x] = w
       \/ \E s \in Servers : \E i \in DOMAIN cronList[s] : cronList[s][i] = w
       \/ \E a \in Admins : adminRun[a] = w

OneServer ==
    /\ \A v, w : Entity(v) /\ Entity(w) /\ v.key = w.key => v.server = w.server
    /\ \A w : Entity(w) => w.key \in created

CompletedTable == \A w \in rows : w.status = "COMPLETED" => w.table = "COMPLETED"

\* The new entity w is a copy of one there was, or of a run that is new.
Copy(w) == \E v \in Row : Entity(v) /\ v.key = w.key /\ v.server = w.server
Written(w) == Copy(w) /\ (w.status = "COMPLETED" => w.table = "COMPLETED")

\* What processes other than cron and executor x hold stays.
LEMMA WriteRows ==
  ASSUME TypeOK, NEW run \in Row, Entity(run), run.status # "COMPLETED", NEW status \in Label,
         rows' \subseteq rows \cup {run, Moved(run, status)}
  PROVE  \A w \in rows' : w \in rows \/ Written(w)
<1>1. /\ Moved(run, status).key = run.key /\ Moved(run, status).server = run.server
      /\ Moved(run, status).table = status /\ Moved(run, status).status = status
  BY DEF Moved, Row
<1> QED BY <1>1 DEF Written, Copy

LEMMA OldEntities ==
  ASSUME TypeOK,
         \A w \in rows' : w \in rows \/ Written(w),
         \A x \in Executors : execRun'[x] \in Row => Copy(execRun'[x]),
         \A s \in Servers : \A i \in DOMAIN cronList'[s] : Copy(cronList'[s][i]),
         \A a \in Admins : adminRun'[a] \in Row => Copy(adminRun'[a]),
         created \subseteq created', OneServer, CompletedTable
  PROVE  OneServer' /\ CompletedTable'
<1>1. CompletedTable'
  BY DEF CompletedTable, Written
<1>2. \A w \in rows : Copy(w)
  BY DEF Copy, Entity, TypeOK
<1>3. \A w : Entity(w)' => Copy(w)
  BY <1>2 DEF Entity, Written
<1>4. OneServer'
  BY <1>3 DEF OneServer, Copy
<1> QED BY <1>1, <1>4

\* An entity that is held already is its own copy.
LEMMA HeldCopies ==
  ASSUME TypeOK
  PROVE  /\ \A w \in rows : Copy(w)
         /\ \A x \in Executors : execRun[x] \in Row => Copy(execRun[x])
         /\ \A s \in Servers : \A i \in DOMAIN cronList[s] : Copy(cronList[s][i])
         /\ \A a \in Admins : adminRun[a] \in Row => Copy(adminRun[a])
<1>1. \A s \in Servers : \A i \in DOMAIN cronList[s] : cronList[s][i] \in Row
  BY DEF TypeOK
<1> QED BY <1>1 DEF Copy, Entity, TypeOK

LEMMA CronServer ==
  ASSUME IInv, OneServer, CompletedTable, NEW s \in Servers, CronStep(s)
  PROVE  OneServer' /\ CompletedTable'
<1>1. TypeOK /\ ProcessOK
  BY DEF IInv
<1>2. UNCHANGED <<exec, admin, created>>
  BY DEF CronStep, CronRuns, CronRead, CronDelete, CronInsert, CronSend, CronCommit,
     CronCrash, ghosts
<1>3. /\ \A x \in Executors : execRun'[x] \in Row => Copy(execRun'[x])
      /\ \A a \in Admins : adminRun'[a] \in Row => Copy(adminRun'[a])
  BY <1>1, <1>2, HeldCopies DEF exec, admin
<1>4. \A w \in rows' : w \in rows \/ Written(w)
  <2>1. CASE CronInsert(s)
    <3> DEFINE run == Head(cronList[s])
    <3>1. run \in Row /\ run.status = "SCHEDULED" /\ "QUEUED" \in Label
      BY <1>1, <2>1, ListType DEF CronInsert, Label
    <3>2. run = cronList[s][1] /\ 1 \in DOMAIN cronList[s]
      BY <1>1, <2>1, ListType DEF CronInsert
    <3>3. Entity(run)
      BY <3>1, <3>2 DEF Entity
    <3>4. rows' \subseteq rows \cup {run, Moved(run, "QUEUED")}
      BY <2>1 DEF CronInsert, TransitInsert, TransitFallBack, TransitLost
    <3> HIDE DEF run
    <3> QED BY <1>1, <3>1, <3>3, <3>4, WriteRows
  <2>2. CASE ~ CronInsert(s)
    BY <2>2 DEF CronStep, CronRuns, CronRead, CronDelete, CronSend, CronCommit,
       CronCrash, TransitDelete, TransitRefused
  <2> QED BY <2>1, <2>2
<1>5. \A t \in Servers : \A i \in DOMAIN cronList'[t] : Copy(cronList'[t][i])
  <2>1. \A t \in Servers \ {s} : cronList'[t] = cronList[t]
    BY <1>1 DEF CronStep, CronRuns, CronRead, CronDelete, CronInsert, CronSend, CronCommit,
       CronCrash, Continue, CronGoto, Abort, CronEnds, TypeOK
  <2>2. CASE cronList'[s] \in {<<>>, cronList[s]}
    BY <1>1, <2>1, <2>2, HeldCopies
  <2>3. CASE CronRead(s) /\ cronList'[s] # cronList[s]
    <3>1. PICK l \in NextNJobRuns(s) : cronList'[s] = l
      BY <1>1, <2>3 DEF CronRead, Continue, TypeOK
    <3>2. \A i \in DOMAIN l : l[i] \in rows
      BY <1>1, PageType DEF TypeOK
    <3> QED BY <1>1, <2>1, <3>1, <3>2, HeldCopies
  <2>4. CASE cronList'[s] = Tail(cronList[s]) /\ cronPC[s] = "send"
    <3>1. \A i \in DOMAIN Tail(cronList[s]) :
             i + 1 \in DOMAIN cronList[s] /\ Tail(cronList[s])[i] = cronList[s][i + 1]
      BY <1>1, <2>4, ListType
    <3>2. \A i \in DOMAIN cronList[s] : Copy(cronList[s][i])
      BY <1>1, HeldCopies
    <3>3. \A i \in DOMAIN Tail(cronList[s]) : Copy(Tail(cronList[s])[i])
      BY <3>1, <3>2
    <3>4. \A t \in Servers \ {s} : \A i \in DOMAIN cronList[t] : Copy(cronList[t][i])
      BY <1>1, HeldCopies
    <3> QED BY <2>1, <2>4, <3>3, <3>4
  <2>5. CASE ~ CronRead(s)
    <3>1. cronList'[s] \in {<<>>, cronList[s]} \/ (cronPC[s] = "send" /\ cronList'[s] = Tail(cronList[s]))
      BY <1>1, <2>5 DEF CronStep, CronRuns, CronDelete, CronInsert, CronSend, CronCommit,
         CronCrash, Continue, CronGoto, Abort, CronEnds, TypeOK
    <3> QED BY <2>2, <2>4, <3>1
  <2> QED BY <2>2, <2>3, <2>5
<1> QED BY <1>1, <1>2, <1>3, <1>4, <1>5, OldEntities

LEMMA ExecServer ==
  ASSUME IInv, OneServer, CompletedTable, NEW x \in Executors, ExecStep(x), ~ InsertNextRun(x)
  PROVE  OneServer' /\ CompletedTable'
<1>1. TypeOK /\ ProcessOK
  BY DEF IInv
<1>2. UNCHANGED <<cron, admin, created>>
  BY DEF ExecStep, ExecRuns, LockFind, LockDelete, LockInsert, Execute, CompleteDelete,
     CompleteInsert, LogErrors, ScheduleNextRun, Acknowledge, ExecCrash, ghosts
<1>3. /\ \A s \in Servers : \A i \in DOMAIN cronList'[s] : Copy(cronList'[s][i])
      /\ \A a \in Admins : adminRun'[a] \in Row => Copy(adminRun'[a])
  BY <1>1, <1>2, HeldCopies DEF cron, admin
<1>4. \A w \in rows' : w \in rows \/ Written(w)
  <2> DEFINE run == execRun[x]
  <2>1. CASE LockInsert(x) \/ CompleteInsert(x)
    <3>1. run \in Row /\ run.status # "COMPLETED" /\ {"IN_PROCESS", "COMPLETED"} \subseteq Label
      BY <1>1, <2>1 DEF LockInsert, CompleteInsert, ProcessOK, Label
    <3>2. Entity(run)
      BY <3>1 DEF Entity
    <3>3. \/ rows' \subseteq rows \cup {run, Moved(run, "IN_PROCESS")}
          \/ rows' \subseteq rows \cup {run, Moved(run, "COMPLETED")}
      BY <2>1 DEF LockInsert, CompleteInsert, TransitInsert, TransitFallBack, TransitLost
    <3> HIDE DEF run
    <3> QED BY <1>1, <3>1, <3>2, <3>3, WriteRows
  <2>2. CASE LogErrors(x)
    <3>1. run \in Row
      BY <1>1, <2>2 DEF LogErrors, ProcessOK
    <3>2. /\ [run EXCEPT !.status = "FAILED"].key = run.key
          /\ [run EXCEPT !.status = "FAILED"].server = run.server
          /\ [run EXCEPT !.status = "FAILED"].status = "FAILED"
      BY <3>1 DEF Row
    <3>3. Entity(run)
      BY <3>1 DEF Entity
    <3>4. Written([run EXCEPT !.status = "FAILED"])
      BY <3>1, <3>2, <3>3 DEF Written, Copy
    <3> QED BY <2>2, <3>4 DEF LogErrors
  <2>3. CASE ~ (LockInsert(x) \/ CompleteInsert(x) \/ LogErrors(x))
    BY <2>3 DEF ExecStep, ExecRuns, LockFind, LockDelete, Execute, CompleteDelete,
       ScheduleNextRun, Acknowledge, ExecCrash, TransitDelete, TransitRefused
  <2> QED BY <2>1, <2>2, <2>3
<1>5. \A y \in Executors : execRun'[y] \in Row => Copy(execRun'[y])
  <2>1. \A y \in Executors \ {x} : execRun'[y] = execRun[y]
    BY <1>1 DEF ExecStep, ExecRuns, LockFind, LockDelete, LockInsert, Execute, CompleteDelete,
       CompleteInsert, LogErrors, ScheduleNextRun, Acknowledge, ExecCrash,
       Rethrow, Leave, Hold, Goto, Become, TypeOK
  <2>2. NoRow \notin Row
    BY BatchAssumption DEF NoRow, Row
  <2>3. execRun'[x] \in {NoRow, execRun[x]} \cup rows
        \/ (LockInsert(x) /\ execRun'[x] = Moved(execRun[x], "IN_PROCESS"))
    BY <1>1 DEF ExecStep, ExecRuns, LockFind, LockDelete, LockInsert, Execute, CompleteDelete,
       CompleteInsert, LogErrors, ScheduleNextRun, Acknowledge, ExecCrash,
       Rethrow, Leave, Hold, Goto, Become, RowsOf, TypeOK
  <2>4. CASE LockInsert(x) /\ execRun'[x] = Moved(execRun[x], "IN_PROCESS")
    <3>1. execRun[x] \in Row
      BY <1>1, <2>4 DEF LockInsert, ProcessOK
    <3>2. execRun'[x].key = execRun[x].key /\ execRun'[x].server = execRun[x].server
      BY <2>4, <3>1 DEF Moved, Row
    <3>3. Copy(execRun[x])
      BY <1>1, <3>1, HeldCopies
    <3> QED BY <1>1, <2>1, <3>2, <3>3, HeldCopies DEF Copy
  <2>5. CASE execRun'[x] \in {NoRow, execRun[x]} \cup rows
    BY <1>1, <2>1, <2>2, <2>5, HeldCopies
  <2> QED BY <2>3, <2>4, <2>5
<1> QED BY <1>1, <1>2, <1>3, <1>4, <1>5, OldEntities

\* A new run is the only entity of its key.
LEMMA NewRunServer ==
  ASSUME IInv, OneServer, CompletedTable, NEW k \in Fresh, NEW s \in Servers, NEW p,
         InsertScheduled(k, s, p), UNCHANGED cron,
         \A x \in Executors : execRun'[x] \in {NoRow, execRun[x]},
         \A a \in Admins : adminRun'[a] \in {NoRow, adminRun[a]}
  PROVE  OneServer' /\ CompletedTable'
<1> DEFINE new == [key |-> k, table |-> "SCHEDULED", status |-> "SCHEDULED", server |-> s]
<1>1. NoRow \notin Row
  BY BatchAssumption DEF NoRow, Row
<1>2. \A w : Entity(w)' => Entity(w) \/ w = new
  BY <1>1 DEF Entity, InsertScheduled, cron
<1>3. \A w : Entity(w) => w.key # k
  BY DEF OneServer, Fresh
<1>4. created' = created \cup {k}
  BY DEF InsertScheduled
<1>5. OneServer'
  BY <1>2, <1>3, <1>4 DEF OneServer
<1>6. CompletedTable'
  BY DEF CompletedTable, InsertScheduled
<1> QED BY <1>5, <1>6

LEMMA OtherServer ==
  ASSUME IInv, OneServer, CompletedTable, UNCHANGED <<cron, exec>>, created' = created,
         \A w \in rows' : w \in rows \/ Written(w),
         \A a \in Admins : adminRun'[a] \in {NoRow, adminRun[a]} \cup rows
  PROVE  OneServer' /\ CompletedTable'
<1>1. TypeOK
  BY DEF IInv
<1>2. NoRow \notin Row
  BY BatchAssumption DEF NoRow, Row
<1> QED BY <1>1, <1>2, HeldCopies, OldEntities DEF cron, exec

LEMMA CancelServer ==
  ASSUME IInv, OneServer, CompletedTable, NEW a \in Admins, CancelCommit(a)
  PROVE  OneServer' /\ CompletedTable'
<1> DEFINE run == adminRun[a]
<1>1. run \in Row /\ TypeOK
  BY DEF IInv, CancelCommit, ProcessOK
<1>2. /\ [run EXCEPT !.status = "CANCELLED"].key = run.key
      /\ [run EXCEPT !.status = "CANCELLED"].server = run.server
      /\ [run EXCEPT !.status = "CANCELLED"].status = "CANCELLED"
  BY <1>1 DEF Row
<1>3. Written([run EXCEPT !.status = "CANCELLED"])
  BY <1>1, <1>2 DEF Written, Copy, Entity
<1>4. \A w \in rows' : w \in rows \/ Written(w)
  BY <1>3 DEF CancelCommit
<1>5. \A b \in Admins : adminRun'[b] \in {NoRow, adminRun[b]}
  BY <1>1 DEF CancelCommit, AdminBecomes, TypeOK
<1>6. UNCHANGED <<cron, exec>> /\ created' = created
  BY DEF CancelCommit, ghosts
<1> QED BY <1>4, <1>5, <1>6, OtherServer

LEMMA NextServer ==
  ASSUME IInv, OneServer, CompletedTable, [Next]_vars
  PROVE  OneServer' /\ CompletedTable'
<1>1. TypeOK
  BY DEF IInv
<1>2. ASSUME NEW n \in RunKeys, NEW s \in Servers, ScheduleJob(n, s)
      PROVE  OneServer' /\ CompletedTable'
  BY <1>2, NewRunServer DEF ScheduleJob, exec, admin
<1>3. ASSUME NEW x \in Executors, InsertNextRun(x)
      PROVE  OneServer' /\ CompletedTable'
  <2>1. /\ UNCHANGED cron /\ UNCHANGED admin
        /\ \A y \in Executors : execRun'[y] \in {NoRow, execRun[y]}
    BY <1>1, <1>3 DEF InsertNextRun, Rethrow, Leave, Goto, Become, TypeOK
  <2>2. CASE \E k \in Fresh, s \in Servers : InsertScheduled(k, s, execKey[x])
    BY <2>1, <2>2, NewRunServer DEF admin
  <2>3. CASE UNCHANGED <<rows, created>>
    <3>1. NoRow \notin Row
      BY BatchAssumption DEF NoRow, Row
    <3> QED BY <1>1, <2>1, <2>3, <3>1, HeldCopies, OldEntities DEF cron, admin
  <2> QED BY <1>3, <2>2, <2>3 DEF InsertNextRun
<1>4. ASSUME NEW x \in Executors, NEW n \in RunKeys, Deliver(x, n)
      PROVE  OneServer' /\ CompletedTable'
  <2>1. /\ UNCHANGED <<rows, cron, admin, created>>
        /\ \A y \in Executors : execRun'[y] \in {NoRow, execRun[y]}
    BY <1>1, <1>4 DEF Deliver, Become, ghosts, TypeOK
  <2>2. NoRow \notin Row
    BY BatchAssumption DEF NoRow, Row
  <2> QED BY <1>1, <2>1, <2>2, HeldCopies, OldEntities DEF cron, admin
<1>5. ASSUME NEW a \in Admins, TriggerFirst(a)
      PROVE  OneServer' /\ CompletedTable'
  <2>1. /\ UNCHANGED <<cron, exec>>
        /\ \A b \in Admins : adminRun'[b] \in {NoRow, adminRun[b]}
    BY <1>1, <1>5 DEF TriggerFirst, AdminBecomes, TypeOK
  <2>2. CASE \E k \in Fresh, s \in Servers : InsertScheduled(k, s, NoRun)
    BY <2>1, <2>2, NewRunServer DEF exec
  <2>3. CASE UNCHANGED <<rows, created>>
    BY <2>1, <2>3, OtherServer
  <2> QED BY <1>5, <2>2, <2>3 DEF TriggerFirst
<1>6. ASSUME NEW a \in Admins, NEW n \in RunKeys, NEW again \in BOOLEAN, CancelRead(a, n, again)
      PROVE  OneServer' /\ CompletedTable'
  <2>1. \A b \in Admins : adminRun'[b] \in {NoRow, adminRun[b]} \cup rows
    BY <1>1, <1>6 DEF CancelRead, AdminBecomes, RowsOf, TypeOK
  <2> QED BY <1>6, <2>1, OtherServer DEF CancelRead, ghosts
<1>7. CASE UNCHANGED vars \/ \E n \in RunKeys : BecomeDue(n)
  <2>1. UNCHANGED <<rows, created, cron, exec, admin>>
    BY <1>7 DEF vars, BecomeDue
  <2> QED BY <2>1, OtherServer DEF admin
<1> QED
  BY <1>2, <1>3, <1>4, <1>5, <1>6, <1>7, CronServer, ExecServer, CancelServer DEF Next

------------------------------------------------------------------------------
(* COMPLETED is final, but for the cancel forms.                             *)

LEMMA CompletedStays ==
  ASSUME IInv, OneServer, CompletedTable, [Next]_vars,
         NEW v \in rows, v.status = "COMPLETED", v.key \notin unlocked
  PROVE  v \in rows' \/ CancelledNow(v)
<1>1. TypeOK /\ ProcessOK /\ v \in Row /\ v.table = "COMPLETED"
  BY DEF IInv, TypeOK, CompletedTable
<1>2. ASSUME NEW s \in Servers, CronStep(s) PROVE v \in rows'
  <2>1. CASE CronDelete(s)
    <3>1. Head(cronList[s]).status = "SCHEDULED"
      BY <1>1, <2>1, ListType DEF CronDelete
    <3> QED BY <2>1, <3>1 DEF CronDelete, TransitDelete, TransitRefused, Doomed
  <2>2. CASE ~ CronDelete(s)
    BY <1>2, <2>2 DEF CronStep, CronRuns, CronRead, CronInsert, CronSend, CronCommit, CronCrash,
       TransitInsert, TransitFallBack, TransitLost
  <2> QED BY <2>1, <2>2
<1>3. ASSUME NEW x \in Executors, ExecStep(x) PROVE v \in rows'
  <2>1. CASE LockDelete(x) \/ CompleteDelete(x)
    <3>1. execRun[x].status \in {"QUEUED", "IN_PROCESS"}
      BY <1>1, <2>1 DEF LockDelete, CompleteDelete, ProcessOK
    <3> QED BY <2>1, <3>1 DEF LockDelete, CompleteDelete, TransitDelete, TransitRefused, Doomed
  <2>2. CASE LogErrors(x)
    <3>1. execRun[x].key = execKey[x] /\ execKey[x] \in RunKeys /\ PastLock(x) /\ execPC[x] = "logErrors"
      BY <1>1, <2>2 DEF LogErrors, ProcessOK, TypeOK, PastLock
    <3>2. CASE v.key = execKey[x]
      <4>1. KeyOK(execKey[x])
        BY <3>1, <3>2 DEF IInv
      <4>2. \A w \in RowsOf(execKey[x]) : w.table = "IN_PROCESS"
        BY <3>1, <4>1 DEF KeyOK, LockedRun
      <4> QED BY <1>1, <3>2, <4>2 DEF RowsOf
    <3>3. CASE v.key # execKey[x]
      BY <2>2, <3>1, <3>3 DEF LogErrors
    <3> QED BY <3>2, <3>3
  <2>3. CASE ~ (LockDelete(x) \/ CompleteDelete(x) \/ LogErrors(x))
    BY <1>3, <2>3 DEF ExecStep, ExecRuns, LockFind, LockInsert, Execute, CompleteInsert,
       ScheduleNextRun, InsertNextRun, Acknowledge, ExecCrash, InsertScheduled,
       TransitInsert, TransitFallBack, TransitLost
  <2> QED BY <2>1, <2>2, <2>3
<1>4. ASSUME NEW a \in Admins, CancelCommit(a), v \notin rows' PROVE CancelledNow(v)
  <2> DEFINE run == adminRun[a]
             new == [run EXCEPT !.status = "CANCELLED"]
  <2>1. run \in Row /\ adminPC[a] = "cancel"
    BY <1>1, <1>4 DEF CancelCommit, ProcessOK
  <2>2. v.key = run.key /\ v.table = run.table /\ new \in rows'
    BY <1>4 DEF CancelCommit
  <2>3. v.server = run.server
    BY <1>1, <2>1, <2>2 DEF OneServer, Entity
  <2>4. [v EXCEPT !.status = "CANCELLED"] = new
    BY <1>1, <2>1, <2>2, <2>3 DEF Row
  <2>5. adminPC'[a] # "cancel"
    BY <1>1, <1>4 DEF CancelCommit, AdminBecomes, TypeOK
  <2> QED BY <2>1, <2>2, <2>4, <2>5 DEF CancelledNow
<1>5. CASE \/ UNCHANGED vars
           \/ \E n \in RunKeys : BecomeDue(n) \/ \E s \in Servers : ScheduleJob(n, s)
           \/ \E x \in Executors, n \in RunKeys : Deliver(x, n)
           \/ \E a \in Admins : TriggerFirst(a)
           \/ \E a \in Admins, n \in RunKeys, again \in BOOLEAN : CancelRead(a, n, again)
  BY <1>5 DEF vars, BecomeDue, ScheduleJob, Deliver, TriggerFirst, CancelRead, InsertScheduled
<1> QED BY <1>2, <1>3, <1>4, <1>5 DEF Next

\* Neither a message delivered again nor an entity a process still holds takes
\* a run out of COMPLETED; a cancel form does, and it leaves the run CANCELLED in
\* the same table (cancelBatchJobRun).
THEOREM CompletionStays == Spec => OnlyCancelUndoesCompletion
<1>1. Init => OneServer /\ CompletedTable
  <2>1. NoRow \notin Row
    BY BatchAssumption DEF NoRow, Row
  <2> QED BY <2>1 DEF Init, OneServer, CompletedTable, Entity
<1>2. IInv /\ OneServer /\ CompletedTable /\ [Next]_vars => OneServer' /\ CompletedTable'
  BY NextServer
<1>3. IInv /\ OneServer /\ CompletedTable /\ [Next]_vars =>
        [\A v \in rows : v.status = "COMPLETED" /\ v.key \notin unlocked =>
            v \in rows' \/ CancelledNow(v)]_vars
  BY CompletedStays
<1> QED BY <1>1, <1>2, <1>3, Invariant, PTL DEF Spec, OnlyCancelUndoesCompletion
------------------------------------------------------------------------------
(* An early cancellation is final.                                           *)

\* Only a step of the executor that has locked a run touches what is counted
\* of it.
LEMMA StartsStep ==
  ASSUME IInv, [Next]_vars
  PROVE  UNCHANGED starts \/ \E x \in Executors : Execute(x)
BY DEF Next, ScheduleJob, BecomeDue, CronStep, CronRuns, CronRead, CronDelete,
   CronInsert, CronSend, CronCommit, CronCrash, Deliver, ExecStep, ExecRuns,
   LockFind, LockDelete, LockInsert, CompleteDelete, CompleteInsert,
   LogErrors, ScheduleNextRun, InsertNextRun, Acknowledge, ExecCrash,
   CancelRead, CancelCommit, TriggerFirst, ghosts, vars

\* A new run is the first of its chain or follows the run of an executor.
LEMMA CreateStep ==
  ASSUME [Next]_vars
  PROVE  \/ UNCHANGED <<created, parent>>
         \/ /\ UNCHANGED starts
            /\ \E n \in Fresh, s \in Servers :
                 \/ InsertScheduled(n, s, NoRun)
                 \/ \E x \in Executors : execPC[x] = "insertNext" /\ InsertScheduled(n, s, execKey[x])
<1>1. CASE \E k \in RunKeys, s \in Servers : ScheduleJob(k, s)
  BY <1>1 DEF ScheduleJob
<1>2. CASE \E a \in Admins : TriggerFirst(a)
  BY <1>2 DEF TriggerFirst
<1>3. CASE \E x \in Executors : InsertNextRun(x)
  BY <1>3 DEF InsertNextRun
<1>4. CASE ~ \/ \E k \in RunKeys, s \in Servers : ScheduleJob(k, s)
             \/ \E a \in Admins : TriggerFirst(a)
             \/ \E x \in Executors : InsertNextRun(x)
  BY <1>4 DEF Next, BecomeDue, CronStep, CronRuns, CronRead, CronDelete,
     CronInsert, CronSend, CronCommit, CronCrash, Deliver, ExecStep, ExecRuns,
     LockFind, LockDelete, LockInsert, Execute, CompleteDelete, CompleteInsert,
     LogErrors, ScheduleNextRun, Acknowledge, ExecCrash,
     CancelRead, CancelCommit, ghosts, vars
<1> QED
  BY <1>1, <1>2, <1>3, <1>4

------------------------------------------------------------------------------
(* Early cancellation.                                                       *)

\* Rows leave a table by a transition, by a cancellation or by a failure.
LEMMA RowsStep ==
  ASSUME [Next]_vars
  PROVE  \/ rows \subseteq rows'
         \/ \E s \in Servers : CronDelete(s)
         \/ \E x \in Executors : LockDelete(x) \/ CompleteDelete(x) \/ LogErrors(x)
         \/ \E a \in Admins : CancelCommit(a)
BY DEF Next, ScheduleJob, BecomeDue, CronStep, CronRuns, CronRead,
   CronInsert, CronSend, CronCommit, CronCrash, Deliver, ExecStep, ExecRuns,
   LockFind, LockInsert, Execute, CompleteInsert, ScheduleNextRun, InsertNextRun,
   Acknowledge, ExecCrash, CancelRead, TriggerFirst, InsertScheduled,
   TransitInsert, TransitFallBack, TransitLost, ghosts, vars

LEMMA EarlyCancelStep ==
  ASSUME IInv, [Next]_vars, NEW k \in RunKeys \ unlocked, CancelledEarly(k)
  PROVE  CancelledEarly(k)' /\ starts'[k] = starts[k] /\ NewChildren(k) = {}
<1>1. PICK w \in rows : w.key = k /\ w.status = "CANCELLED" /\ w.table \in {"SCHEDULED", "QUEUED"}
  BY DEF CancelledEarly
<1>2. \A x \in Executors : PastLock(x) => execKey[x] # k
  BY <1>1 DEF IInv, KeyOK, OneLock, BeforeLock
<1>3. starts'[k] = starts[k]
  <2>1. ASSUME NEW x \in Executors, Execute(x) PROVE starts'[k] = starts[k]
    BY <1>2, <2>1 DEF Execute, PastLock, IInv, TypeOK
  <2> QED
    BY <2>1, StartsStep
<1>4. NewChildren(k) = {}
  <2>1. \A x \in Executors : execPC[x] = "insertNext" => execKey[x] # k
    BY <1>2 DEF PastLock
  <2>2. \A n \in Fresh : \A p : p # k /\ parent' = [parent EXCEPT ![n] = p] =>
           \A c \in RunKeys : parent'[c] = k => parent[c] = k
    BY DEF IInv, TypeOK
  <2>3. \A c \in RunKeys : parent'[c] = k => parent[c] = k
    BY <2>1, <2>2, CreateStep, BatchAssumption DEF InsertScheduled
  <2> QED
    BY <2>3 DEF NewChildren
<1>5. CancelledEarly(k)'
  <2>1. CASE w \in rows'
    BY <1>1, <2>1 DEF CancelledEarly
  <2>2. ASSUME NEW run, run.status # "CANCELLED", rows' = rows \ Doomed(run)
        PROVE  w \in rows'
    BY <1>1, <2>2 DEF Doomed
  <2>3. ASSUME NEW s \in Servers, CronDelete(s) PROVE w \in rows'
    <3>1. cronPC[s] = "delete" /\ Head(cronList[s]).status = "SCHEDULED"
      BY <2>3, ListType DEF CronDelete, IInv
    <3> QED
      BY <2>2, <2>3, <3>1, <1>1 DEF CronDelete, TransitDelete, TransitRefused
  <2>4. ASSUME NEW x \in Executors, LockDelete(x) \/ CompleteDelete(x) PROVE w \in rows'
    <3>1. execRun[x].status # "CANCELLED"
      BY <2>4 DEF LockDelete, CompleteDelete, IInv, ProcessOK
    <3> QED
      BY <2>2, <2>4, <3>1, <1>1 DEF LockDelete, CompleteDelete, TransitDelete, TransitRefused
  <2>5. ASSUME NEW x \in Executors, LogErrors(x) PROVE w \in rows'
    <3>1. execRun[x].key # k
      BY <1>2, <2>5 DEF LogErrors, PastLock, IInv, ProcessOK
    <3> QED
      BY <2>5, <3>1, <1>1 DEF LogErrors
  <2>6. ASSUME NEW a \in Admins, CancelCommit(a), w \notin rows' PROVE CancelledEarly(k)'
    <3> DEFINE run == adminRun[a]
               new == [run EXCEPT !.status = "CANCELLED"]
    <3>1. run \in Row /\ new \in rows' /\ run.key = k /\ run.table = w.table
      BY <2>6, <1>1 DEF CancelCommit, IInv, ProcessOK
    <3>2. new.key = k /\ new.table = w.table /\ new.status = "CANCELLED"
      BY <3>1 DEF Row
    <3> QED
      BY <1>1, <3>1, <3>2 DEF CancelledEarly
  <2> QED
    BY <1>1, <2>1, <2>3, <2>4, <2>5, <2>6, RowsStep
<1> QED
  BY <1>3, <1>4, <1>5

\* A run cancelled before it is locked stays CANCELLED in its table, is not
\* executed and gets no successor, whatever lists, messages and entities about
\* it are in flight (removeRun2 and lockForExecution check the status).
THEOREM EarlyCancel == Spec => EarlyCancelIsFinal
<1>1. IInv /\ [Next]_vars =>
        [\A k \in RunKeys \ unlocked : CancelledEarly(k) =>
           CancelledEarly(k)' /\ starts'[k] = starts[k] /\ NewChildren(k) = {}]_vars
  BY EarlyCancelStep
<1> QED
  BY <1>1, Invariant, PTL DEF Spec, EarlyCancelIsFinal

------------------------------------------------------------------------------
(* The engine implements JobChain, when every first insert of a transition    *)
(* succeeds: then no run falls back to QUEUED under the executor that locks it.*)

LEMMA NoFallBack ==
  ASSUME IInv, unlocked = {}, [Next]_vars, "insert" \notin FaultKinds
  PROVE  unlocked' = {}
<1>1. ASSUME NEW x \in Executors, LockInsert(x) PROVE unlocked' = {}
  <2>1. execRun[x] \in Row /\ execRun[x].key = execKey[x] /\ execPC[x] = "lockInsert"
    BY <1>1 DEF LockInsert, IInv, ProcessOK
  <2>2. execRun[x].key \in RunKeys
    BY <2>1 DEF Row
  <2>3. RowsOf(execRun[x].key) = {}
    BY <2>1, <2>2 DEF IInv, KeyOK, OneCopy, InTransit, ExecMoves
  <2>4. Moved(execRun[x], "IN_PROCESS").key = execRun[x].key
    BY <2>1, MovedType DEF Label
  <2>5. CanPersist(Moved(execRun[x], "IN_PROCESS"))
    BY <2>3, <2>4 DEF CanPersist, RowsOf
  <2> QED
    BY <1>1, <2>5 DEF LockInsert, TransitFallBack, Fault
<1>2. CASE ~ \E x \in Executors : LockInsert(x)
  BY <1>2 DEF Next, ScheduleJob, BecomeDue, CronStep, CronRuns, CronRead, CronDelete,
     CronInsert, CronSend, CronCommit, CronCrash, Deliver, ExecStep, ExecRuns,
     LockFind, LockDelete, Execute, CompleteDelete, CompleteInsert,
     LogErrors, ScheduleNextRun, InsertNextRun, Acknowledge, ExecCrash,
     CancelRead, CancelCommit, TriggerFirst, ghosts, vars
<1> QED
  BY <1>1, <1>2

LEMMA ChainStep ==
  ASSUME IInv, unlocked = {}, [Next]_vars
  PROVE  [Chain!Next]_(Chain!vars)
<1>1. CASE UNCHANGED starts /\ UNCHANGED <<created, parent>>
  BY <1>1 DEF Chain!vars
<1>2. ASSUME NEW x \in Executors, Execute(x) PROVE Chain!Next
  <2>1. /\ execKey[x] \in created /\ execKey[x] \in RunKeys
        /\ PastLock(x) /\ execPC[x] = "run"
    BY <1>2 DEF Execute, IInv, ProcessOK, TypeOK, PastLock
  <2>2. starts[execKey[x]] = 0
    BY <2>1 DEF IInv, KeyOK, LockedRun
  <2>3. Chain!Execute(execKey[x])
    BY <1>2, <2>1, <2>2 DEF Execute, Chain!Execute
  <2> QED
    BY <2>1, <2>3 DEF Chain!Next
<1>3. ASSUME NEW n \in Fresh, NEW s \in Servers, InsertScheduled(n, s, NoRun), UNCHANGED starts
      PROVE  Chain!Next
  <2>1. n \in RunKeys /\ n \notin created /\ parent[n] = NoRun
    BY DEF Fresh, IInv, FreshKeysUnused
  <2>2. parent' = parent
    BY <1>3, <2>1 DEF InsertScheduled, IInv, TypeOK
  <2>3. Chain!First(n)
    BY <1>3, <2>1, <2>2 DEF InsertScheduled, Chain!First
  <2> QED
    BY <2>1, <2>3 DEF Chain!Next
<1>4. ASSUME NEW n \in Fresh, NEW s \in Servers, NEW x \in Executors,
             execPC[x] = "insertNext", InsertScheduled(n, s, execKey[x]), UNCHANGED starts
      PROVE  Chain!Next
  <2>1. /\ execKey[x] \in created /\ execKey[x] \in RunKeys /\ PastLock(x)
        /\ n \in RunKeys /\ n \notin created
    BY <1>4 DEF IInv, ProcessOK, TypeOK, PastLock, Fresh
  <2>2. KeyOK(execKey[x]) /\ starts[execKey[x]] \in Nat
    BY <2>1 DEF IInv, TypeOK
  <2>3. starts[execKey[x]] > 0
    BY <1>4 DEF IInv, Executed
  <2>4. starts[execKey[x]] = 1
    BY <2>2, <2>3 DEF KeyOK
  <2>5. \A c \in RunKeys : parent[c] # execKey[x]
    BY <1>4, <2>1, <2>2 DEF KeyOK, LockedRun
  <2>6. Chain!Follow(execKey[x], n)
    BY <1>4, <2>1, <2>4, <2>5 DEF InsertScheduled, Chain!Follow
  <2> QED
    BY <2>1, <2>6 DEF Chain!Next
<1>5. ASSUME NEW x \in Executors, Execute(x) PROVE UNCHANGED <<created, parent>>
  BY <1>5 DEF Execute
<1> QED
  BY <1>1, <1>2, <1>3, <1>4, StartsStep, CreateStep

\* For any number of servers, executors, administrators, crashes and lost
\* messages, runs behave as JobChain promises.
THEOREM Implements == "insert" \notin FaultKinds => (Spec => ImplementsChain)
<1> DEFINE Locked == "insert" \notin FaultKinds /\ IInv /\ unlocked = {}
<1>1. "insert" \notin FaultKinds /\ Init => Locked /\ Chain!Init
  BY InitIInv DEF Init, Chain!Init
<1>2. Locked /\ [Next]_vars => Locked'
  BY NextIInv, NoFallBack
<1>3. Locked /\ [Next]_vars => [Chain!Next]_(Chain!vars)
  BY ChainStep
<1> HIDE DEF Locked
<1> QED
  BY <1>1, <1>2, <1>3, PTL DEF Spec, ImplementsChain, Chain!Spec
==============================================================================
