--------------------------- MODULE BatchEngineProofs ---------------------------
(* Theorems about BatchEngine, for any number of keys, servers and executors. *)
EXTENDS BatchEngine, TLAPS

\* What getNextNJobRuns returns is a list of rows of the SCHEDULED table.
LEMMA PageType ==
  ASSUME NEW s \in Servers, NEW l \in NextNJobRuns(s), rows \subseteq Row
  PROVE  /\ l \in Seq(Row)
         /\ \A i \in DOMAIN l : l[i] \in rows /\ l[i].status = "SCHEDULED"
<1>1. PICK n \in 0 .. MaxJobs : l \in [1 .. n -> DueRuns(s)]
  BY DEF NextNJobRuns
<1>2. DueRuns(s) \subseteq rows
  BY DEF DueRuns
<1>3. l \in [1 .. n -> Row]
  BY <1>1, <1>2
<1>4. n \in Nat
  BY <1>1, BatchAssumption
<1>5. l \in Seq(Row)
  BY <1>3, <1>4
<1>6. \A i \in DOMAIN l : l[i] \in DueRuns(s)
  BY <1>1
<1> QED
  BY <1>5, <1>6 DEF DueRuns

\* The run a cron is working on, and the rest of its list.
LEMMA ListType ==
  ASSUME TypeOK, ProcessOK, NEW s \in Servers, cronPC[s] \in {"delete", "insert", "send"}
  PROVE  /\ cronList[s] \in Seq(Row) /\ cronList[s] # <<>>
         /\ Head(cronList[s]) \in Row
         /\ Head(cronList[s]).status = "SCHEDULED"
         /\ Head(cronList[s]).key \in created
         /\ Tail(cronList[s]) \in Seq(Row)
         /\ \A i \in DOMAIN Tail(cronList[s]) :
              /\ Tail(cronList[s])[i].status = "SCHEDULED"
              /\ Tail(cronList[s])[i].key \in created
<1> DEFINE l == cronList[s]
<1>1. l \in Seq(Row) /\ l # <<>>
  BY DEF TypeOK, ProcessOK
<1>2. Len(l) \in Nat /\ Len(l) > 0 /\ DOMAIN l = 1 .. Len(l)
  BY <1>1
<1>3. Head(l) = l[1] /\ 1 \in DOMAIN l /\ l[1] \in Row
  BY <1>1, <1>2
<1>4. Tail(l) \in Seq(Row) /\ \A i \in DOMAIN Tail(l) : i + 1 \in DOMAIN l /\ Tail(l)[i] = l[i + 1]
  BY <1>1, <1>2
<1> QED
  BY <1>1, <1>3, <1>4 DEF ProcessOK

\* A run that moves is a row again, of the same key.
LEMMA MovedType ==
  ASSUME NEW run \in Row, NEW status \in Label
  PROVE  Moved(run, status) \in Row /\ Moved(run, status).key = run.key
         /\ Moved(run, status).table = status /\ Moved(run, status).status = status
  BY DEF Moved, Row

LEMMA RestatusType ==
  ASSUME NEW run \in Row, NEW st \in Label
  PROVE  [run EXCEPT !.status = st] \in Row /\ [run EXCEPT !.status = st].key = run.key
         /\ [run EXCEPT !.status = st].table = run.table
         /\ [run EXCEPT !.status = st].status = st
  BY DEF Row

------------------------------------------------------------------------------
(* Types, and what each process holds.                                       *)

TypeInv == TypeOK /\ ProcessOK /\ FreshKeysUnused

LEMMA InitType == Init => TypeInv
<1> SUFFICES ASSUME Init PROVE TypeInv
  OBVIOUS
<1>1. TypeOK
  BY BatchAssumption DEF Init, TypeOK, CronPC, ExecPC, AdminPC
<1>2. ProcessOK
  BY DEF Init, ProcessOK
<1>3. FreshKeysUnused
  BY DEF Init, FreshKeysUnused, Fresh
<1> QED
  BY <1>1, <1>2, <1>3 DEF TypeInv

LEMMA ScheduleJobType ==
  ASSUME TypeInv, NEW k \in RunKeys, NEW s \in Servers, ScheduleJob(k, s)
  PROVE  TypeInv'
<1> USE DEF TypeInv, exec, cron, admin
<1>1. [key |-> k, table |-> "SCHEDULED", status |-> "SCHEDULED", server |-> s] \in Row
  BY DEF Row, Label
<1>2. TypeOK'
  BY <1>1 DEF ScheduleJob, InsertScheduled, TypeOK
<1>3. ProcessOK'
  BY DEF ScheduleJob, InsertScheduled, ProcessOK
<1>4. FreshKeysUnused'
  BY BatchAssumption DEF ScheduleJob, InsertScheduled, Fresh, FreshKeysUnused, TypeOK
<1> QED
  BY <1>2, <1>3, <1>4

LEMMA BecomeDueType ==
  ASSUME TypeInv, NEW k \in RunKeys, BecomeDue(k)
  PROVE  TypeInv'
<1> USE DEF TypeInv, exec, cron, admin
<1>1. TypeOK'
  BY DEF BecomeDue, TypeOK
<1>2. ProcessOK'
  BY DEF BecomeDue, ProcessOK
<1>3. FreshKeysUnused'
  BY DEF BecomeDue, FreshKeysUnused, Fresh
<1> QED
  BY <1>1, <1>2, <1>3

\* A cron that ends, leaves its loop, stays on the same run, or takes a new
\* list of SCHEDULED runs holds what it needs.
CronOK(pc, list) ==
    /\ pc \in [Servers -> CronPC] /\ list \in [Servers -> Seq(Row)]
    /\ \A s \in Servers :
         /\ pc[s] \in {"delete", "insert", "send"} => list[s] # <<>>
         /\ \A i \in DOMAIN list[s] : list[s][i].status = "SCHEDULED" /\ list[s][i].key \in created

LEMMA NoList == <<>> \in Seq(Row) /\ DOMAIN <<>> = {}
  OBVIOUS

LEMMA CronContinue ==
  ASSUME TypeOK, ProcessOK, NEW s \in Servers, NEW l \in Seq(Row), Continue(s, l),
         \A i \in DOMAIN l : l[i].status = "SCHEDULED" /\ l[i].key \in created
  PROVE  CronOK(cronPC', cronList')
  BY DEF Continue, CronOK, TypeOK, ProcessOK, CronPC

LEMMA CronAbort ==
  ASSUME TypeOK, ProcessOK, NEW s \in Servers, Abort(s)
  PROVE  CronOK(cronPC', cronList')
  BY NoList, CronContinue DEF Abort

LEMMA CronStays ==
  ASSUME TypeOK, ProcessOK, NEW s \in Servers, NEW pc \in CronPC, CronGoto(s, pc),
         cronPC[s] \in {"delete", "insert", "send"}
  PROVE  CronOK(cronPC', cronList')
  BY DEF CronGoto, CronOK, TypeOK, ProcessOK

LEMMA CronLeaves ==
  ASSUME TypeOK, ProcessOK, FreshKeysUnused, NEW s \in Servers, CronEnds(s)
  PROVE  /\ CronOK(cronPC', cronList')
         /\ cronSent' \in [Servers -> SUBSET RunKeys]
         /\ \A t \in Servers : cronSent'[t] \subseteq created
  BY NoList DEF CronEnds, CronOK, TypeOK, ProcessOK, FreshKeysUnused, CronPC

LEMMA CronReadType ==
  ASSUME TypeInv, NEW s \in Servers, CronRead(s)
  PROVE  TypeInv'
<1> USE DEF TypeInv, exec, admin
<1>1. PICK l \in NextNJobRuns(s) :
             (l = <<>> /\ UNCHANGED <<cronPC, cronList>>) \/ Continue(s, l)
  BY DEF CronRead
<1>2. l \in Seq(Row) /\ \A i \in DOMAIN l : l[i] \in rows /\ l[i].status = "SCHEDULED"
  BY PageType DEF TypeOK
<1>0. CronOK(cronPC', cronList')
  <2>1. CASE Continue(s, l)
    BY <1>2, <2>1, CronContinue DEF FreshKeysUnused
  <2>2. CASE UNCHANGED <<cronPC, cronList>>
    BY <2>2 DEF CronOK, TypeOK, ProcessOK
  <2> QED
    BY <1>1, <2>1, <2>2
<1>3. TypeOK'
  BY <1>0 DEF CronRead, ghosts, TypeOK, CronOK
<1>4. ProcessOK'
  BY <1>0 DEF CronRead, ghosts, ProcessOK, CronOK
<1>5. FreshKeysUnused'
  BY DEF CronRead, ghosts, Fresh, FreshKeysUnused
<1> QED
  BY <1>3, <1>4, <1>5

LEMMA CronDeleteType ==
  ASSUME TypeInv, NEW s \in Servers, CronDelete(s)
  PROVE  TypeInv'
<1> USE DEF TypeInv, exec, admin
<1>0. CronOK(cronPC', cronList')
  BY CronAbort, CronStays DEF CronDelete, CronPC
<1>1. rows' \subseteq rows /\ faults' \in 0 .. MaxFaults
  BY BatchAssumption DEF CronDelete, TransitDelete, TransitRefused, Fault, TypeOK
<1>2. TypeOK'
  BY <1>0, <1>1 DEF CronDelete, ghosts, TypeOK, CronOK
<1>3. ProcessOK'
  BY <1>0 DEF CronDelete, ghosts, ProcessOK, CronOK
<1>4. FreshKeysUnused'
  BY <1>1 DEF CronDelete, ghosts, Fresh, FreshKeysUnused
<1> QED
  BY <1>2, <1>3, <1>4

LEMMA CronInsertType ==
  ASSUME TypeInv, NEW s \in Servers, CronInsert(s)
  PROVE  TypeInv'
<1> USE DEF TypeInv, exec, admin
<1> DEFINE run == Head(cronList[s])
<1>0. CronOK(cronPC', cronList')
  BY CronAbort, CronStays DEF CronInsert, CronPC
<1>1. run \in Row /\ run.key \in created
  BY ListType DEF CronInsert
<1>2. Moved(run, "QUEUED") \in Row /\ Moved(run, "QUEUED").key = run.key
  BY <1>1, MovedType DEF Label
<1>3. rows' \subseteq rows \cup {run, Moved(run, "QUEUED")} /\ faults' \in 0 .. MaxFaults
  BY BatchAssumption DEF CronInsert, TransitInsert, TransitFallBack, TransitLost, Fault, TypeOK
<1>4. TypeOK'
  BY <1>0, <1>1, <1>2, <1>3 DEF CronInsert, ghosts, TypeOK, CronOK
<1>5. ProcessOK'
  BY <1>0 DEF CronInsert, ghosts, ProcessOK, CronOK
<1>6. FreshKeysUnused'
  BY <1>1, <1>2, <1>3 DEF CronInsert, ghosts, Fresh, FreshKeysUnused
<1> QED
  BY <1>4, <1>5, <1>6

LEMMA CronSendType ==
  ASSUME TypeInv, NEW s \in Servers, CronSend(s)
  PROVE  TypeInv'
<1> USE DEF TypeInv, exec, admin
<1> DEFINE l == cronList[s]
<1>1. /\ Head(l) \in Row /\ Head(l).key \in created /\ Tail(l) \in Seq(Row)
      /\ \A i \in DOMAIN Tail(l) : Tail(l)[i].status = "SCHEDULED" /\ Tail(l)[i].key \in created
  BY ListType DEF CronSend
<1>2. faults' \in 0 .. MaxFaults
  BY BatchAssumption DEF CronSend, Fault, TypeOK
<1>0. CronOK(cronPC', cronList')
  BY <1>1, CronAbort, CronContinue DEF CronSend
<1>6. /\ cronSent' \in [Servers -> SUBSET RunKeys]
      /\ \A t \in Servers : cronSent'[t] \subseteq cronSent[t] \cup {Head(l).key}
  <2>1. Head(l).key \in RunKeys
    BY <1>1 DEF TypeOK
  <2>2. cronSent \in [Servers -> SUBSET RunKeys]
    BY DEF TypeOK
  <2>3. CASE cronSent' = [cronSent EXCEPT ![s] = @ \cup {Head(l).key}]
    BY <2>1, <2>2, <2>3
  <2>4. CASE cronSent' = cronSent
    BY <2>2, <2>4
  <2> QED
    BY <2>3, <2>4 DEF CronSend
<1>3. TypeOK'
  BY <1>0, <1>2, <1>6 DEF CronSend, ghosts, TypeOK, CronOK
<1>4. ProcessOK'
  BY <1>0 DEF CronSend, ghosts, ProcessOK, CronOK
<1>5. FreshKeysUnused'
  BY <1>1, <1>6 DEF CronSend, ghosts, Fresh, FreshKeysUnused, TypeOK
<1> QED
  BY <1>3, <1>4, <1>5

LEMMA CronCommitType ==
  ASSUME TypeInv, NEW s \in Servers, CronCommit(s)
  PROVE  TypeInv'
<1> USE DEF TypeInv, exec, admin
<1>0. /\ CronOK(cronPC', cronList')
      /\ cronSent' \in [Servers -> SUBSET RunKeys]
      /\ \A t \in Servers : cronSent'[t] \subseteq created
  BY CronLeaves DEF CronCommit
<1>1. inbox' \in [RunKeys -> Nat] /\ \A k \in RunKeys : inbox'[k] > 0 => k \in created
  <2>1. inbox \in [RunKeys -> Nat] /\ cronSent[s] \subseteq created
        /\ \A k \in RunKeys : inbox[k] > 0 => k \in created
    BY DEF TypeOK, FreshKeysUnused
  <2>2. CASE inbox' = inbox
    BY <2>1, <2>2
  <2>3. CASE inbox' = [k \in RunKeys |-> IF k \in cronSent[s] THEN inbox[k] + 1 ELSE inbox[k]]
    BY <2>1, <2>3
  <2> QED
    BY <2>2, <2>3 DEF CronCommit
<1>2. TypeOK'
  BY <1>0, <1>1, BatchAssumption DEF CronCommit, Fault, ghosts, TypeOK, CronOK
<1>3. ProcessOK'
  BY <1>0 DEF CronCommit, ghosts, ProcessOK, CronOK
<1>4. FreshKeysUnused'
  BY <1>0, <1>1 DEF CronCommit, ghosts, Fresh, FreshKeysUnused
<1> QED
  BY <1>2, <1>3, <1>4

LEMMA CronCrashType ==
  ASSUME TypeInv, NEW s \in Servers, CronCrash(s)
  PROVE  TypeInv'
<1> USE DEF TypeInv, exec, admin
<1>0. /\ CronOK(cronPC', cronList')
      /\ cronSent' \in [Servers -> SUBSET RunKeys]
      /\ \A t \in Servers : cronSent'[t] \subseteq created
  BY CronLeaves DEF CronCrash
<1>1. TypeOK'
  BY <1>0, BatchAssumption DEF CronCrash, Fault, ghosts, TypeOK, CronOK
<1>2. ProcessOK'
  BY <1>0 DEF CronCrash, ghosts, ProcessOK, CronOK
<1>3. FreshKeysUnused'
  BY <1>0 DEF CronCrash, ghosts, Fresh, FreshKeysUnused
<1> QED
  BY <1>1, <1>2, <1>3

\* What an executor needs at step pc.
Fits(pc, key, run, known) ==
    /\ pc # "idle" => key \in known
    /\ pc \in {"lockDelete", "lockInsert", "run", "completeDelete",
               "completeInsert", "logErrors"} =>
         run \in Row /\ run.key = key /\ run.status \in {"QUEUED", "IN_PROCESS"}
    /\ pc \in {"lockDelete", "lockInsert"} => run.status = "QUEUED"

ExecOK(pc, key, run, known) ==
    /\ pc \in [Executors -> ExecPC]
    /\ key \in [Executors -> RunKeys \cup {NoRun}]
    /\ run \in [Executors -> Row \cup {NoRow}]
    /\ \A x \in Executors : Fits(pc[x], key[x], run[x], known)

LEMMA ExecNow == TypeOK /\ ProcessOK => ExecOK(execPC, execKey, execRun, created)
  BY DEF ExecOK, Fits, TypeOK, ProcessOK

LEMMA ExecBecomes ==
  ASSUME TypeOK, ProcessOK, NEW x \in Executors, NEW pc \in ExecPC,
         NEW key \in RunKeys \cup {NoRun}, NEW run \in Row \cup {NoRow},
         Become(x, pc, key, run), Fits(pc, key, run, created)
  PROVE  ExecOK(execPC', execKey', execRun', created)
<1>1. ExecOK(execPC, execKey, execRun, created)
  BY ExecNow
<1> QED
  BY <1>1 DEF Become, ExecOK

LEMMA ExecLeaves ==
  ASSUME TypeOK, ProcessOK, NEW x \in Executors, Leave(x)
  PROVE  ExecOK(execPC', execKey', execRun', created)
  BY ExecBecomes DEF Leave, Fits, ExecPC

LEMMA ExecGoes ==
  ASSUME TypeOK, ProcessOK, NEW x \in Executors, NEW pc \in ExecPC, Goto(x, pc),
         Fits(pc, execKey[x], execRun[x], created)
  PROVE  ExecOK(execPC', execKey', execRun', created)
<1>1. ExecOK(execPC, execKey, execRun, created)
  BY ExecNow
<1> QED
  BY <1>1 DEF Goto, ExecOK

\* Messages are only about keys that exist.
LEMMA RequeueType ==
  ASSUME TypeInv, NEW x \in Executors, execPC[x] # "idle",
         inbox' = inbox \/ inbox' = [inbox EXCEPT ![execKey[x]] = @ + 1]
  PROVE  inbox' \in [RunKeys -> Nat] /\ \A k \in RunKeys : inbox'[k] > 0 => k \in created
<1>1. inbox \in [RunKeys -> Nat] /\ execKey[x] \in created /\ execKey[x] \in RunKeys
  BY DEF TypeInv, TypeOK, ProcessOK
<1>2. \A k \in RunKeys : inbox[k] > 0 => k \in created
  BY DEF TypeInv, FreshKeysUnused
<1>3. CASE inbox' = inbox
  BY <1>1, <1>2, <1>3
<1>4. CASE inbox' = [inbox EXCEPT ![execKey[x]] = @ + 1]
  BY <1>1, <1>2, <1>4
<1> QED
  BY <1>3, <1>4

LEMMA DeliverType ==
  ASSUME TypeInv, NEW x \in Executors, NEW k \in RunKeys, Deliver(x, k)
  PROVE  TypeInv'
<1> USE DEF TypeInv, cron, admin
<1>0. ExecOK(execPC', execKey', execRun', created)
  <2>1. k \in created
    BY DEF Deliver, FreshKeysUnused
  <2>2. Fits("find", k, NoRow, created)
    BY <2>1 DEF Fits
  <2> QED
    BY <2>2, ExecBecomes DEF Deliver, ExecPC
<1>1. inbox' \in [RunKeys -> Nat] /\ \A l \in RunKeys : inbox'[l] > 0 => inbox[l] > 0
  BY DEF Deliver, TypeOK
<1>2. TypeOK'
  BY <1>0, <1>1 DEF Deliver, ghosts, TypeOK, ExecOK
<1>3. ProcessOK'
  BY <1>0 DEF Deliver, ghosts, ProcessOK, ExecOK, Fits
<1>4. FreshKeysUnused'
  BY <1>1 DEF Deliver, ghosts, Fresh, FreshKeysUnused
<1> QED
  BY <1>2, <1>3, <1>4

LEMMA LockFindType ==
  ASSUME TypeInv, NEW x \in Executors, LockFind(x)
  PROVE  TypeInv'
<1> USE DEF TypeInv, cron, admin
<1>0. ExecOK(execPC', execKey', execRun', created)
  <2>1. CASE \E w \in RowsOf(execKey[x]) : w.status = "QUEUED" /\ Hold(x, "lockDelete", w)
    BY <2>1, ExecBecomes DEF LockFind, Hold, RowsOf, Fits, ExecPC, TypeOK, ProcessOK
  <2>2. CASE Leave(x)
    BY <2>2, ExecLeaves
  <2> QED
    BY <2>1, <2>2 DEF LockFind, Rethrow
<1>1. inbox' \in [RunKeys -> Nat] /\ \A k \in RunKeys : inbox'[k] > 0 => k \in created
  BY RequeueType DEF LockFind, Rethrow
<1>2. TypeOK'
  BY <1>0, <1>1 DEF LockFind, ghosts, TypeOK, ExecOK
<1>3. ProcessOK'
  BY <1>0 DEF LockFind, ghosts, ProcessOK, ExecOK, Fits
<1>4. FreshKeysUnused'
  BY <1>1 DEF LockFind, ghosts, Fresh, FreshKeysUnused
<1> QED
  BY <1>2, <1>3, <1>4

LEMMA LockDeleteType ==
  ASSUME TypeInv, NEW x \in Executors, LockDelete(x)
  PROVE  TypeInv'
<1> USE DEF TypeInv, cron, admin
<1>0. ExecOK(execPC', execKey', execRun', created)
  BY ExecLeaves, ExecGoes DEF LockDelete, Fits, ExecPC, ProcessOK
<1>1. rows' \subseteq rows /\ faults' \in 0 .. MaxFaults
  BY BatchAssumption DEF LockDelete, TransitDelete, TransitRefused, Fault, TypeOK
<1>2. TypeOK'
  BY <1>0, <1>1 DEF LockDelete, ghosts, TypeOK, ExecOK
<1>3. ProcessOK'
  BY <1>0 DEF LockDelete, ghosts, ProcessOK, ExecOK, Fits
<1>4. FreshKeysUnused'
  BY <1>1 DEF LockDelete, ghosts, Fresh, FreshKeysUnused
<1> QED
  BY <1>2, <1>3, <1>4

LEMMA LockInsertType ==
  ASSUME TypeInv, NEW x \in Executors, LockInsert(x)
  PROVE  TypeInv'
<1> USE DEF TypeInv, cron, admin
<1> DEFINE run == execRun[x]
           new == Moved(run, "IN_PROCESS")
<1>1. run \in Row /\ run.key \in created /\ run.key = execKey[x]
  BY DEF LockInsert, ProcessOK
<1>2. new \in Row /\ new.key = run.key /\ new.status = "IN_PROCESS"
  BY <1>1, MovedType DEF Label
<1>3. rows' \subseteq rows \cup {run, new} /\ faults' \in 0 .. MaxFaults
  BY BatchAssumption DEF LockInsert, TransitInsert, TransitFallBack, TransitLost, Fault, TypeOK
<1>4. ExecOK(execPC', execKey', execRun', created)
  <2>1. CASE Hold(x, "run", new)
    BY <2>1, <1>1, <1>2, ExecBecomes DEF Hold, Fits, ExecPC, TypeOK
  <2>2. CASE Goto(x, "run")
    BY <2>2, <1>1, ExecGoes DEF LockInsert, Fits, ExecPC, ProcessOK
  <2>3. CASE Leave(x)
    BY <2>3, ExecLeaves
  <2> QED
    BY <2>1, <2>2, <2>3 DEF LockInsert, Rethrow
<1>5. inbox' \in [RunKeys -> Nat] /\ \A k \in RunKeys : inbox'[k] > 0 => k \in created
  BY RequeueType DEF LockInsert, Rethrow
<1>6. unlocked' \subseteq RunKeys
  BY <1>1 DEF LockInsert, TypeOK
<1>7. TypeOK'
  BY <1>1, <1>2, <1>3, <1>4, <1>5, <1>6 DEF LockInsert, TypeOK, ExecOK
<1>8. ProcessOK'
  BY <1>4 DEF LockInsert, ProcessOK, ExecOK, Fits
<1>9. FreshKeysUnused'
  BY <1>1, <1>2, <1>3, <1>5 DEF LockInsert, Fresh, FreshKeysUnused
<1> QED
  BY <1>7, <1>8, <1>9

LEMMA ExecuteType ==
  ASSUME TypeInv, NEW x \in Executors, Execute(x)
  PROVE  TypeInv'
<1> USE DEF TypeInv, cron, admin
<1>0. ExecOK(execPC', execKey', execRun', created)
  BY ExecGoes DEF Execute, Fits, ExecPC, ProcessOK
<1>1. execKey[x] \in created /\ starts' \in [RunKeys -> Nat]
  BY DEF Execute, TypeOK, ProcessOK
<1>2. TypeOK'
  BY <1>0, <1>1 DEF Execute, TypeOK, ExecOK
<1>3. ProcessOK'
  BY <1>0 DEF Execute, ProcessOK, ExecOK, Fits
<1>4. FreshKeysUnused'
  BY <1>1 DEF Execute, Fresh, FreshKeysUnused, TypeOK
<1> QED
  BY <1>2, <1>3, <1>4

LEMMA CompleteDeleteType ==
  ASSUME TypeInv, NEW x \in Executors, CompleteDelete(x)
  PROVE  TypeInv'
<1> USE DEF TypeInv, cron, admin
<1>0. ExecOK(execPC', execKey', execRun', created)
  BY ExecGoes DEF CompleteDelete, Fits, ExecPC, ProcessOK
<1>1. rows' \subseteq rows /\ faults' \in 0 .. MaxFaults
  BY BatchAssumption DEF CompleteDelete, TransitDelete, TransitRefused, Fault, TypeOK
<1>2. TypeOK'
  BY <1>0, <1>1 DEF CompleteDelete, ghosts, TypeOK, ExecOK
<1>3. ProcessOK'
  BY <1>0 DEF CompleteDelete, ghosts, ProcessOK, ExecOK, Fits
<1>4. FreshKeysUnused'
  BY <1>1 DEF CompleteDelete, ghosts, Fresh, FreshKeysUnused
<1> QED
  BY <1>2, <1>3, <1>4

LEMMA CompleteInsertType ==
  ASSUME TypeInv, NEW x \in Executors, CompleteInsert(x)
  PROVE  TypeInv'
<1> USE DEF TypeInv, cron, admin
<1> DEFINE run == execRun[x]
           new == Moved(run, "COMPLETED")
<1>1. run \in Row /\ run.key \in created /\ run.key = execKey[x]
  BY DEF CompleteInsert, ProcessOK
<1>2. new \in Row /\ new.key = run.key
  BY <1>1, MovedType DEF Label
<1>3. rows' \subseteq rows \cup {run, new} /\ faults' \in 0 .. MaxFaults
  BY BatchAssumption
  DEF CompleteInsert, TransitInsert, TransitFallBack, TransitLost, Fault, TypeOK
<1>4. ExecOK(execPC', execKey', execRun', created)
  <2>1. CASE Hold(x, "reread", NoRow)
    BY <2>1, <1>1, ExecBecomes DEF Hold, Fits, ExecPC, TypeOK
  <2>2. CASE Goto(x, "logErrors")
    BY <2>2, <1>1, ExecGoes DEF CompleteInsert, Fits, ExecPC, ProcessOK
  <2> QED
    BY <2>1, <2>2 DEF CompleteInsert
<1>5. TypeOK'
  BY <1>1, <1>2, <1>3, <1>4 DEF CompleteInsert, ghosts, TypeOK, ExecOK
<1>6. ProcessOK'
  BY <1>4 DEF CompleteInsert, ghosts, ProcessOK, ExecOK, Fits
<1>7. FreshKeysUnused'
  BY <1>1, <1>2, <1>3 DEF CompleteInsert, ghosts, Fresh, FreshKeysUnused
<1> QED
  BY <1>5, <1>6, <1>7

LEMMA LogErrorsType ==
  ASSUME TypeInv, NEW x \in Executors, LogErrors(x)
  PROVE  TypeInv'
<1> USE DEF TypeInv, cron, admin
<1> DEFINE run == execRun[x]
           new == [run EXCEPT !.status = "FAILED"]
<1>1. run \in Row /\ run.key \in created /\ run.key = execKey[x]
  BY DEF LogErrors, ProcessOK
<1>2. new \in Row /\ new.key = run.key
  BY <1>1, RestatusType DEF Label
<1>3. rows' \subseteq rows \cup {new} /\ faults' \in 0 .. MaxFaults
  BY BatchAssumption DEF LogErrors, Fault, TypeOK
<1>4. ExecOK(execPC', execKey', execRun', created)
  <2>1. CASE Hold(x, "reread", NoRow)
    BY <2>1, <1>1, ExecBecomes DEF Hold, Fits, ExecPC, TypeOK
  <2>2. CASE Leave(x)
    BY <2>2, ExecLeaves
  <2> QED
    BY <2>1, <2>2 DEF LogErrors, Rethrow
<1>5. inbox' \in [RunKeys -> Nat] /\ \A k \in RunKeys : inbox'[k] > 0 => k \in created
  BY RequeueType DEF LogErrors, Rethrow
<1>6. TypeOK'
  BY <1>2, <1>3, <1>4, <1>5 DEF LogErrors, ghosts, TypeOK, ExecOK
<1>7. ProcessOK'
  BY <1>4 DEF LogErrors, ghosts, ProcessOK, ExecOK, Fits
<1>8. FreshKeysUnused'
  BY <1>1, <1>2, <1>3, <1>5 DEF LogErrors, ghosts, Fresh, FreshKeysUnused
<1> QED
  BY <1>6, <1>7, <1>8

LEMMA ScheduleNextRunType ==
  ASSUME TypeInv, NEW x \in Executors, ScheduleNextRun(x)
  PROVE  TypeInv'
<1> USE DEF TypeInv, cron, admin
<1>0. ExecOK(execPC', execKey', execRun', created)
  BY ExecGoes, ExecLeaves DEF ScheduleNextRun, Rethrow, Fits, ExecPC, ProcessOK
<1>1. inbox' \in [RunKeys -> Nat] /\ \A k \in RunKeys : inbox'[k] > 0 => k \in created
  BY RequeueType DEF ScheduleNextRun, Rethrow
<1>2. TypeOK'
  BY <1>0, <1>1 DEF ScheduleNextRun, ghosts, TypeOK, ExecOK
<1>3. ProcessOK'
  BY <1>0 DEF ScheduleNextRun, ghosts, ProcessOK, ExecOK, Fits
<1>4. FreshKeysUnused'
  BY <1>1 DEF ScheduleNextRun, ghosts, Fresh, FreshKeysUnused
<1> QED
  BY <1>2, <1>3, <1>4

\* A run is added under a fresh key.
LEMMA InsertType ==
  ASSUME TypeInv, NEW k \in Fresh, NEW s \in Servers, NEW p \in created \cup {NoRun},
         InsertScheduled(k, s, p)
  PROVE  /\ rows' \subseteq Row /\ \A w \in rows' : w.key \in created'
         /\ created' = created \cup {k} /\ created' \subseteq RunKeys
         /\ parent' \in [RunKeys -> RunKeys \cup {NoRun}]
         /\ \A l \in RunKeys : l \notin created' => parent'[l] = parent[l]
         /\ \A l \in RunKeys : parent'[l] # NoRun => parent'[l] \in created'
<1> USE DEF TypeInv
<1>1. [key |-> k, table |-> "SCHEDULED", status |-> "SCHEDULED", server |-> s] \in Row
  BY DEF Row, Label, Fresh
<1> QED
  BY <1>1 DEF InsertScheduled, TypeOK, FreshKeysUnused, Fresh

LEMMA InsertNextRunType ==
  ASSUME TypeInv, NEW x \in Executors, InsertNextRun(x)
  PROVE  TypeInv'
<1> USE DEF TypeInv, cron, admin
<1>0. ExecOK(execPC', execKey', execRun', created)
  BY ExecGoes, ExecLeaves DEF InsertNextRun, Rethrow, Fits, ExecPC, ProcessOK
<1>1. inbox' \in [RunKeys -> Nat] /\ \A k \in RunKeys : inbox'[k] > 0 => k \in created
  BY RequeueType DEF InsertNextRun, Rethrow
<1>2. execKey[x] \in created /\ faults' \in 0 .. MaxFaults
  BY BatchAssumption DEF InsertNextRun, Fault, TypeOK, ProcessOK
<1>3. CASE \E k \in Fresh, s \in Servers :
             /\ InsertScheduled(k, s, execKey[x])
             /\ due' = due \/ due' = due \cup {k}
  <2>1. PICK k \in Fresh, s \in Servers :
             /\ InsertScheduled(k, s, execKey[x])
             /\ due' = due \/ due' = due \cup {k}
    BY <1>3
  <2>2. /\ rows' \subseteq Row /\ \A w \in rows' : w.key \in created'
        /\ created' = created \cup {k} /\ created' \subseteq RunKeys
        /\ parent' \in [RunKeys -> RunKeys \cup {NoRun}]
        /\ \A l \in RunKeys : l \notin created' => parent'[l] = parent[l]
        /\ \A l \in RunKeys : parent'[l] # NoRun => parent'[l] \in created'
    BY <1>2, <2>1, InsertType
  <2>3. TypeOK'
    BY <1>0, <1>1, <1>2, <2>1, <2>2 DEF InsertNextRun, TypeOK, ExecOK
  <2>4. ProcessOK'
    BY <1>0, <2>2 DEF InsertNextRun, ProcessOK, ExecOK, Fits
  <2>5. FreshKeysUnused'
    BY <1>1, <2>2 DEF InsertNextRun, FreshKeysUnused, Fresh
  <2> QED
    BY <2>3, <2>4, <2>5
<1>4. CASE UNCHANGED <<rows, created, parent, due>>
  <2>1. TypeOK'
    BY <1>0, <1>1, <1>2, <1>4 DEF InsertNextRun, TypeOK, ExecOK
  <2>2. ProcessOK'
    BY <1>0, <1>4 DEF InsertNextRun, ProcessOK, ExecOK, Fits
  <2>3. FreshKeysUnused'
    BY <1>1, <1>4 DEF InsertNextRun, FreshKeysUnused, Fresh
  <2> QED
    BY <2>1, <2>2, <2>3
<1> QED
  BY <1>3, <1>4 DEF InsertNextRun

LEMMA AcknowledgeType ==
  ASSUME TypeInv, NEW x \in Executors, Acknowledge(x)
  PROVE  TypeInv'
<1> USE DEF TypeInv, cron, admin
<1>0. ExecOK(execPC', execKey', execRun', created)
  BY ExecLeaves DEF Acknowledge
<1>1. TypeOK'
  BY <1>0 DEF Acknowledge, ghosts, TypeOK, ExecOK
<1>2. ProcessOK'
  BY <1>0 DEF Acknowledge, ghosts, ProcessOK, ExecOK, Fits
<1>3. FreshKeysUnused'
  BY DEF Acknowledge, ghosts, Fresh, FreshKeysUnused
<1> QED
  BY <1>1, <1>2, <1>3

LEMMA ExecCrashType ==
  ASSUME TypeInv, NEW x \in Executors, ExecCrash(x)
  PROVE  TypeInv'
<1> USE DEF TypeInv, cron, admin
<1>0. ExecOK(execPC', execKey', execRun', created)
  BY ExecLeaves DEF ExecCrash
<1>1. inbox' \in [RunKeys -> Nat] /\ \A k \in RunKeys : inbox'[k] > 0 => k \in created
  BY RequeueType DEF ExecCrash
<1>2. TypeOK'
  BY <1>0, <1>1, BatchAssumption DEF ExecCrash, Fault, ghosts, TypeOK, ExecOK
<1>3. ProcessOK'
  BY <1>0 DEF ExecCrash, ghosts, ProcessOK, ExecOK, Fits
<1>4. FreshKeysUnused'
  BY <1>1 DEF ExecCrash, ghosts, Fresh, FreshKeysUnused
<1> QED
  BY <1>2, <1>3, <1>4

LEMMA CancelReadType ==
  ASSUME TypeInv, NEW a \in Admins, NEW k \in RunKeys, NEW again \in BOOLEAN,
         CancelRead(a, k, again)
  PROVE  TypeInv'
<1> USE DEF TypeInv, cron, exec
<1>1. PICK w \in rows : w.key = k /\ AdminBecomes(a, "cancel", w, again)
  BY DEF CancelRead, RowsOf
<1>2. TypeOK'
  BY <1>1 DEF CancelRead, AdminBecomes, ghosts, TypeOK, AdminPC
<1>3. ProcessOK'
  BY <1>1 DEF CancelRead, AdminBecomes, ghosts, ProcessOK, TypeOK, FreshKeysUnused
<1>4. FreshKeysUnused'
  BY DEF CancelRead, ghosts, Fresh, FreshKeysUnused
<1> QED
  BY <1>2, <1>3, <1>4

LEMMA CancelCommitType ==
  ASSUME TypeInv, NEW a \in Admins, CancelCommit(a)
  PROVE  TypeInv'
<1> USE DEF TypeInv, cron, exec
<1> DEFINE run == adminRun[a]
           new == [run EXCEPT !.status = "CANCELLED"]
<1>1. run \in Row /\ run.key \in created
  BY DEF CancelCommit, ProcessOK
<1>2. new \in Row /\ new.key = run.key
  BY <1>1, RestatusType DEF Label
<1>3. PICK pc \in {"idle", "trigger"} : AdminBecomes(a, pc, NoRow, FALSE)
  BY DEF CancelCommit
<1>4. rows' \subseteq rows \cup {new}
  BY DEF CancelCommit
<1>5. TypeOK'
  BY <1>2, <1>3, <1>4 DEF CancelCommit, AdminBecomes, ghosts, TypeOK, AdminPC
<1>6. ProcessOK'
  BY <1>3 DEF CancelCommit, AdminBecomes, ghosts, ProcessOK, TypeOK
<1>7. FreshKeysUnused'
  BY <1>1, <1>2, <1>4 DEF CancelCommit, ghosts, Fresh, FreshKeysUnused
<1> QED
  BY <1>5, <1>6, <1>7

LEMMA TriggerFirstType ==
  ASSUME TypeInv, NEW a \in Admins, TriggerFirst(a)
  PROVE  TypeInv'
<1> USE DEF TypeInv, cron, exec
<1>1. /\ adminPC' \in [Admins -> AdminPC] /\ adminRun' \in [Admins -> Row \cup {NoRow}]
      /\ adminAgain' \in [Admins -> BOOLEAN]
      /\ \A b \in Admins : adminPC'[b] = "cancel" => adminPC[b] = "cancel" /\ adminRun'[b] = adminRun[b]
  BY DEF TriggerFirst, AdminBecomes, TypeOK, AdminPC
<1>2. faults' \in 0 .. MaxFaults
  BY BatchAssumption DEF TriggerFirst, Fault, TypeOK
<1>3. CASE \E k \in Fresh, s \in Servers : InsertScheduled(k, s, NoRun) /\ due' = due \cup {k}
  <2>1. PICK k \in Fresh, s \in Servers : InsertScheduled(k, s, NoRun) /\ due' = due \cup {k}
    BY <1>3
  <2>2. /\ rows' \subseteq Row /\ \A w \in rows' : w.key \in created'
        /\ created' = created \cup {k} /\ created' \subseteq RunKeys
        /\ parent' \in [RunKeys -> RunKeys \cup {NoRun}]
        /\ \A l \in RunKeys : l \notin created' => parent'[l] = parent[l]
        /\ \A l \in RunKeys : parent'[l] # NoRun => parent'[l] \in created'
    BY <2>1, InsertType
  <2>3. TypeOK'
    BY <1>1, <1>2, <2>1, <2>2 DEF TriggerFirst, TypeOK
  <2>4. ProcessOK'
    BY <1>1, <2>2 DEF TriggerFirst, ProcessOK
  <2>5. FreshKeysUnused'
    BY <2>2 DEF TriggerFirst, FreshKeysUnused, Fresh
  <2> QED
    BY <2>3, <2>4, <2>5
<1>4. CASE UNCHANGED <<rows, created, parent, due>>
  <2>1. TypeOK'
    BY <1>1, <1>2, <1>4 DEF TriggerFirst, TypeOK
  <2>2. ProcessOK'
    BY <1>1, <1>4 DEF TriggerFirst, ProcessOK
  <2>3. FreshKeysUnused'
    BY <1>4 DEF TriggerFirst, FreshKeysUnused, Fresh
  <2> QED
    BY <2>1, <2>2, <2>3
<1> QED
  BY <1>3, <1>4 DEF TriggerFirst

LEMMA NextType == TypeInv /\ [Next]_vars => TypeInv'
<1> SUFFICES ASSUME TypeInv, [Next]_vars PROVE TypeInv'
  OBVIOUS
<1>1. CASE UNCHANGED vars
  BY <1>1 DEF vars, cron, exec, admin, TypeInv, TypeOK, ProcessOK, FreshKeysUnused, Fresh
<1>2. ASSUME NEW s \in Servers, CronStep(s) PROVE TypeInv'
  BY <1>2, CronReadType, CronDeleteType, CronInsertType, CronSendType, CronCommitType,
     CronCrashType
  DEF CronStep, CronRuns
<1>3. ASSUME NEW x \in Executors, ExecStep(x) PROVE TypeInv'
  BY <1>3, LockFindType, LockDeleteType, LockInsertType, ExecuteType,
     CompleteDeleteType, CompleteInsertType, LogErrorsType, ScheduleNextRunType,
     InsertNextRunType, AcknowledgeType, ExecCrashType
  DEF ExecStep, ExecRuns
<1> QED
  BY <1>1, <1>2, <1>3, ScheduleJobType, BecomeDueType, DeliverType,
     CancelReadType, CancelCommitType, TriggerFirstType
  DEF Next

\* Every variable keeps its type, and every cron, executor and form holds what
\* its next step needs.
THEOREM TypeCorrect == Spec => []TypeOK
<1>1. Init => TypeInv
  BY InitType
<1>2. TypeInv /\ [Next]_vars => TypeInv'
  BY NextType
<1>3. TypeInv => TypeOK
  BY DEF TypeInv
<1> QED
  BY <1>1, <1>2, <1>3, PTL DEF Spec

==============================================================================
