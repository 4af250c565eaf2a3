---------------------------- MODULE BatchEngineEdit ----------------------------
(***************************************************************************)
(* BatchEngine together with the forms that edit a run (FormEditJobRun and *)
(* FormEditJob).  ProgramBatch keeps the run being edited in the session,  *)
(* as it was when the form was opened; saving merges that entity, whatever *)
(* the engine has done with the row since: a row still in the entity's     *)
(* table is overwritten, a missing one is inserted again.                  *)
(***************************************************************************)
EXTENDS BatchEngine

CONSTANTS MaxSaves,    \* bound: how often a form is saved
          MaxMessages  \* bound: messages about one run in the queue

ASSUME EditAssumption == MaxSaves \in Nat /\ MaxMessages \in Nat

VARIABLES
    editing,    \* ProgramBatch.editingBatchJobRun of every session
    editable,   \* ProgramBatch.editable
    assigning,  \* sessions between the two transactions of saveAndContinue
    reinserted, \* runs that a save inserted again
    saves       \* saves so far

edit == <<editing, editable, assigning, reinserted, saves>>
editVars == <<vars, edit>>

EditTypeOK ==
    /\ TypeOK
    /\ editing \in [Admins -> Row \cup {NoRow}]
    /\ editable \in [Admins -> BOOLEAN]
    /\ assigning \subseteq Admins
    /\ reinserted \subseteq created
    /\ saves \in 0 .. MaxSaves

EditInit ==
    /\ Init
    /\ editing = [a \in Admins |-> NoRow]
    /\ editable = [a \in Admins |-> FALSE]
    /\ assigning = {}
    /\ reinserted = {}
    /\ saves = 0

\* updateEditable has no case for QUEUED: the flag keeps its last value.
EditableAs(status, before) ==
    CASE status \in {"WAITING", "SCHEDULED"} -> TRUE
      [] status = "QUEUED"                  -> before
      [] OTHER                              -> FALSE

\* loadBatchJobRun, which keeps the entity it has when the key is the same.
EditLoad(a) ==
    /\ a \notin assigning
    /\ saves < MaxSaves
    /\ \E w \in rows :
         /\ w.key # editing[a].key
         /\ editing' = [editing EXCEPT ![a] = w]
         /\ editable' = [editable EXCEPT ![a] = EditableAs(w.status, @)]
    /\ UNCHANGED <<vars, assigning, reinserted, saves>>

\* updateBatchJobRun: an editable entity has no CANCEL_TIME and no START_TIME, so
\* updateBatchJobRunStatus makes it SCHEDULED, and WAITING when the form's time is
\* blank: such a row stays in its table and no cron selects it.  A time that was
\* given may lie in the past or in the future.
\* FormEditJobRun then assigns a server, FormEditJob leaves the run alone.
EditSave(a) ==
    /\ editing[a] # NoRow
    /\ editable[a]
    /\ a \notin assigning
    /\ saves < MaxSaves
    /\ saves' = saves + 1
    /\ \E status \in {"SCHEDULED", "WAITING"} :
         LET run == [editing[a] EXCEPT !.status = status]
             target == {w \in rows : w.key = run.key /\ w.table = run.table}
         IN  /\ rows' = (rows \ target) \cup {run}
             /\ editing' = [editing EXCEPT ![a] = run]
             /\ due' \in {due \ {run.key}} \cup
                         (IF status = "SCHEDULED" THEN {due \cup {run.key}} ELSE {})
             /\ reinserted' = IF target = {} THEN reinserted \cup {run.key} ELSE reinserted
    /\ assigning' \in {assigning, assigning \cup {a}}
    /\ UNCHANGED <<created, parent, inbox, cron, exec, admin, starts, unlocked, faults>>
    /\ UNCHANGED editable

\* assignServerToBatchJobRun: an UPDATE of the row in whatever table; no row
\* is a BatchProcessingException, which the form reports.
EditAssign(a, s) ==
    /\ a \in assigning
    /\ LET old == RowsOf(editing[a].key)
       IN  rows' = (rows \ old) \cup {[w EXCEPT !.server = s] : w \in old}
    /\ assigning' = assigning \ {a}
    /\ UNCHANGED <<inbox, cron, exec, admin, faults>>
    /\ UNCHANGED <<ghosts, editing, editable, reinserted, saves>>

\* closeWithoutSaving: clearVariables forgets the entity and not the flag.
EditClose(a) ==
    /\ editing[a] # NoRow
    /\ a \notin assigning
    /\ editing' = [editing EXCEPT ![a] = NoRow]
    /\ UNCHANGED <<vars, editable, assigning, reinserted, saves>>

\* With a QUEUED and a reinserted SCHEDULED row of one run, every cron puts the
\* SCHEDULED row back and sends one more message: MaxMessages bounds that.
EditNext ==
    \/ Next /\ UNCHANGED edit /\ \A k \in RunKeys : inbox'[k] <= MaxMessages
    \/ \E a \in Admins : EditLoad(a) \/ EditSave(a) \/ EditClose(a)
    \/ \E a \in Admins, s \in Servers : EditAssign(a, s)

EditSpec == EditInit /\ [][EditNext]_editVars

------------------------------------------------------------------------------
\* Edits are harmless to the life of a run as long as they hit the table the
\* row is in, even when the row moves to another server's cron or its time
\* changes while a cron or an executor holds it.
Harmed == unlocked \cup reinserted
SingleCopyUnlessReinserted ==
    \A k \in RunKeys \ Harmed : OneCopy(k)
ExecutedAtMostOnceUnlessReinserted ==
    \A k \in RunKeys \ Harmed : starts[k] <= 1
==============================================================================
