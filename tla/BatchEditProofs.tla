---------------------------- MODULE BatchEditProofs ----------------------------
(* BatchEngineEdit for any number of sessions, saves and processes: types, and  *)
(* that a save which hits the row where it is breaks nothing of what holds of a *)
(* run.  The invariant of single keys, KeyOK, is the one of BatchSafetyProofs:  *)
(* it speaks of the tables of rows and never of their status, server or time,  *)
(* which is all that such a save changes.                                      *)
EXTENDS BatchEngineEdit, BatchSafetyProofs

\* The entity of a session was read from a row.
EditorOK == \A a \in Admins : editing[a] # NoRow => editing[a].key \in created

EditInv ==
    /\ EditTypeOK
    /\ BaseInv
    /\ EditorOK
    /\ \A k \in RunKeys \ Harmed : KeyOK(k)

\* What a save and an assignment leave alone.
EditsOnly == UNCHANGED <<created, parent, inbox, cron, exec, admin, starts, unlocked, faults>>

------------------------------------------------------------------------------
(* Steps of the engine.                                                      *)

LEMMA CreatedGrows ==
  ASSUME [Next]_vars
  PROVE  created \subseteq created'
BY CreateStep DEF InsertScheduled

LEMMA EngineEdit ==
  ASSUME EditInv, [Next]_vars, UNCHANGED edit
  PROVE  EditInv'
<1>1. created \subseteq created' /\ unlocked \subseteq unlocked'
  BY CreatedGrows, UnlockedGrows
<1>2. BaseInv'
  BY NextType, NextCounts DEF EditInv, BaseInv
<1>3. EditTypeOK'
  BY <1>1, <1>2 DEF EditInv, EditTypeOK, BaseInv, TypeInv, edit
<1>4. EditorOK'
  BY <1>1 DEF EditInv, EditorOK, edit
<1>5. ASSUME NEW k \in RunKeys \ Harmed'
      PROVE  KeyOK(k)'
  <2>1. k \in RunKeys \ Harmed /\ k \notin unlocked'
    BY <1>1 DEF Harmed, edit
  <2> QED BY <2>1, NextKeys DEF EditInv
<1> QED BY <1>2, <1>3, <1>4, <1>5 DEF EditInv

------------------------------------------------------------------------------
(* Steps of the forms.                                                       *)

LEMMA FormsOnly ==
  ASSUME EditInv, UNCHANGED vars, reinserted' = reinserted
  PROVE  BaseInv' /\ \A k \in RunKeys \ Harmed' : KeyOK(k)'
<1>1. BaseInv'
  BY NextType, NextCounts DEF EditInv, BaseInv
<1>2. unlocked' = unlocked /\ UNCHANGED <<rows, parent, starts, cron, exec>>
  BY DEF vars
<1> QED BY <1>1, <1>2, StillKey DEF EditInv, Harmed

LEMMA EditLoadKept ==
  ASSUME EditInv, NEW a \in Admins, EditLoad(a)
  PROVE  EditInv'
<1>1. PICK w \in rows :
        /\ editing' = [editing EXCEPT ![a] = w]
        /\ editable' = [editable EXCEPT ![a] = EditableAs(w.status, @)]
  BY DEF EditLoad
<1>2. UNCHANGED <<vars, assigning, reinserted, saves>> /\ created' = created
  BY DEF EditLoad, vars
<1>3. BaseInv' /\ \A k \in RunKeys \ Harmed' : KeyOK(k)'
  BY <1>2, FormsOnly
<1>4. w \in Row /\ w.key \in created /\ EditableAs(w.status, editable[a]) \in BOOLEAN
  BY DEF EditInv, EditTypeOK, BaseInv, TypeInv, TypeOK, FreshKeysUnused, EditableAs
<1>5. EditTypeOK'
  BY <1>1, <1>2, <1>3, <1>4 DEF EditInv, EditTypeOK, BaseInv, TypeInv
<1>6. EditorOK'
  BY <1>1, <1>2, <1>4 DEF EditInv, EditTypeOK, EditorOK
<1> QED BY <1>3, <1>5, <1>6 DEF EditInv

LEMMA EditCloseKept ==
  ASSUME EditInv, NEW a \in Admins, EditClose(a)
  PROVE  EditInv'
<1>1. /\ editing' = [editing EXCEPT ![a] = NoRow]
      /\ UNCHANGED <<vars, editable, assigning, reinserted, saves>> /\ created' = created
  BY DEF EditClose, vars
<1>2. BaseInv' /\ \A k \in RunKeys \ Harmed' : KeyOK(k)'
  BY <1>1, FormsOnly
<1>3. EditTypeOK'
  BY <1>1, <1>2 DEF EditInv, EditTypeOK, BaseInv, TypeInv
<1>4. EditorOK'
  BY <1>1 DEF EditInv, EditTypeOK, EditorOK
<1> QED BY <1>2, <1>3, <1>4 DEF EditInv

\* Rows that stay those of generated keys keep the types and counts.
LEMMA EditBase ==
  ASSUME BaseInv, EditsOnly, rows' \subseteq Row, \A w \in rows' : w.key \in created,
         due' \subseteq created
  PROVE  BaseInv'
<1>1. TypeOK'
  BY DEF BaseInv, TypeInv, TypeOK, EditsOnly, cron, exec, admin
<1>2. ProcessOK'
  BY DEF BaseInv, TypeInv, ProcessOK, EditsOnly, cron, exec, admin
<1>3. FreshKeysUnused'
  BY DEF BaseInv, TypeInv, FreshKeysUnused, Fresh, EditsOnly, cron
<1>4. Counts'
  BY DEF BaseInv, Counts, Executed, EditsOnly, exec
<1> QED BY <1>1, <1>2, <1>3, <1>4 DEF BaseInv, TypeInv

LEMMA EditKey ==
  ASSUME EditsOnly, NEW k \in RunKeys, KeyOK(k), RowsKept(k)
  PROVE  KeyOK(k)'
<1>1. RolesKept(k)
  BY DEF EditsOnly, RolesKept, Engaged, PastLock, CronMoves, cron, exec
<1>2. CountsKept(k)
  BY DEF EditsOnly, CountsKept
<1> QED BY <1>1, <1>2, KeyFrame

\* A save replaces the row in the entity's table, or the run counts as reinserted.
LEMMA EditSaveKept ==
  ASSUME EditInv, NEW a \in Admins, EditSave(a)
  PROVE  EditInv'
<1>0. PICK status \in {"SCHEDULED", "WAITING"} :
        LET run == [editing[a] EXCEPT !.status = status]
            target == {w \in rows : w.key = run.key /\ w.table = run.table}
        IN  /\ rows' = (rows \ target) \cup {run}
            /\ editing' = [editing EXCEPT ![a] = run]
            /\ due' \in {due \cup {run.key}, due \ {run.key}}
            /\ reinserted' = IF target = {} THEN reinserted \cup {run.key} ELSE reinserted
  BY DEF EditSave
<1> DEFINE run == [editing[a] EXCEPT !.status = status]
           target == {w \in rows : w.key = run.key /\ w.table = run.table}
<1>1. /\ editing[a] # NoRow /\ saves < MaxSaves /\ saves' = saves + 1
      /\ rows' = (rows \ target) \cup {run}
      /\ editing' = [editing EXCEPT ![a] = run]
      /\ due' \in {due \cup {run.key}, due \ {run.key}}
      /\ reinserted' = IF target = {} THEN reinserted \cup {run.key} ELSE reinserted
      /\ assigning' \in {assigning, assigning \cup {a}}
      /\ EditsOnly /\ UNCHANGED editable
  BY <1>0 DEF EditSave, EditsOnly
<1>2. TypeOK /\ rows \subseteq Row /\ due \subseteq created /\ (\A w \in rows : w.key \in created)
      /\ created' = created /\ created \subseteq RunKeys
  BY <1>1 DEF EditInv, BaseInv, TypeInv, TypeOK, FreshKeysUnused, EditsOnly
<1>3. editing[a] \in Row /\ editing[a].key \in created
  BY <1>1 DEF EditInv, EditTypeOK, EditorOK
<1>4. run \in Row /\ run.key \in created /\ run.key = editing[a].key /\ run.table = editing[a].table
  BY <1>0, <1>3 DEF Row, Label
<1> HIDE DEF run
<1>5. BaseInv'
  BY <1>1, <1>2, <1>4, EditBase DEF EditInv
<1>6. EditTypeOK'
  <2>1. MaxSaves \in Nat
    BY EditAssumption
  <2>2. saves' \in 0 .. MaxSaves
    BY <1>1, <2>1 DEF EditInv, EditTypeOK
  <2>3. reinserted' \subseteq created'
    BY <1>1, <1>2, <1>4 DEF EditInv, EditTypeOK
  <2> QED BY <1>1, <1>4, <1>5, <2>2, <2>3 DEF EditInv, EditTypeOK, BaseInv, TypeInv
<1>7. EditorOK'
  BY <1>1, <1>2, <1>4 DEF EditInv, EditTypeOK, EditorOK
<1>8. ASSUME NEW k \in RunKeys \ Harmed'
      PROVE  KeyOK(k)'
  <2>1. k \in RunKeys \ Harmed /\ (k = run.key => target # {})
    BY <1>1, <1>8 DEF Harmed, EditsOnly
  <2>2. KeyOK(k)
    BY <2>1 DEF EditInv
  <2>3. CASE k = run.key
    <3>1. PICK v \in rows : v.key = k /\ v.table = run.table
      BY <2>1, <2>3
    <3>2. RowsOf(k) = {v}
      BY <2>2, <3>1 DEF KeyOK, OneCopy, RowsOf
    <3>3. RowsOf(k)' = {run}
      BY <1>1, <2>3, <3>1, <3>2 DEF RowsOf
    <3> QED BY <1>1, <2>2, <3>1, <3>2, <3>3, EditKey DEF RowsKept
  <2>4. CASE k # run.key
    <3>1. RowsOf(k)' = RowsOf(k)
      BY <1>1, <2>4 DEF RowsOf
    <3> QED BY <1>1, <2>2, <3>1, EditKey DEF RowsKept, KeyOK, OneCopy
  <2> QED BY <2>3, <2>4
<1> QED BY <1>5, <1>6, <1>7, <1>8 DEF EditInv

\* Another server for the row, in whatever table it is.
LEMMA EditAssignKept ==
  ASSUME EditInv, NEW a \in Admins, NEW s \in Servers, EditAssign(a, s)
  PROVE  EditInv'
<1> DEFINE moved(w) == [w EXCEPT !.server = s]
<1>1. PICK key : key = editing[a].key
  OBVIOUS
<1>2. /\ rows' = (rows \ RowsOf(key)) \cup {moved(w) : w \in RowsOf(key)}
      /\ assigning' = assigning \ {a}
      /\ EditsOnly /\ UNCHANGED <<due, created, editing, editable, reinserted, saves>>
  BY <1>1 DEF EditAssign, EditsOnly, ghosts
<1>3. TypeOK /\ rows \subseteq Row /\ due \subseteq created /\ \A w \in rows : w.key \in created
  BY DEF EditInv, BaseInv, TypeInv, TypeOK, FreshKeysUnused
<1>4. \A w \in rows : moved(w) \in Row /\ moved(w).key = w.key /\ moved(w).table = w.table
  BY <1>3 DEF Row
<1> HIDE DEF moved
<1>5. BaseInv'
  <2>1. rows' \subseteq Row /\ \A w \in rows' : w.key \in created
    BY <1>2, <1>3, <1>4 DEF RowsOf
  <2> QED BY <1>2, <1>3, <2>1, EditBase DEF EditInv
<1>6. EditTypeOK' /\ EditorOK'
  BY <1>2, <1>5 DEF EditInv, EditTypeOK, EditorOK, BaseInv, TypeInv
<1>7. ASSUME NEW k \in RunKeys \ Harmed'
      PROVE  KeyOK(k)'
  <2>1. KeyOK(k)
    BY <1>2, <1>7 DEF EditInv, Harmed, EditsOnly
  <2>2. CASE k = key
    <3>1. RowsOf(k)' = {moved(w) : w \in RowsOf(k)}
      BY <1>2, <1>4, <2>2 DEF RowsOf
    <3>2. RowsKept(k)
      BY <1>4, <2>1, <3>1 DEF RowsKept, RowsOf, KeyOK, OneCopy
    <3> QED BY <1>2, <2>1, <3>2, EditKey
  <2>3. CASE k # key
    <3>1. RowsOf(k)' = RowsOf(k)
      BY <1>2, <1>4, <2>3 DEF RowsOf
    <3> QED BY <1>2, <2>1, <3>1, EditKey DEF RowsKept, KeyOK, OneCopy
  <2> QED BY <2>2, <2>3
<1> QED BY <1>5, <1>6, <1>7 DEF EditInv

------------------------------------------------------------------------------
(* The invariant is inductive.                                               *)

LEMMA EditInitInv == EditInit => EditInv
<1> SUFFICES ASSUME EditInit PROVE EditInv
  OBVIOUS
<1>1. IInv
  BY InitIInv DEF EditInit
<1>2. BaseInv /\ \A k \in RunKeys : k \notin unlocked => KeyOK(k)
  BY <1>1 DEF IInv, BaseInv, TypeInv, Counts
<1>3. 0 \in 0 .. MaxSaves
  BY EditAssumption
<1>4. EditTypeOK
  BY <1>2, <1>3 DEF EditInit, EditTypeOK, BaseInv, TypeInv
<1> QED BY <1>2, <1>4 DEF EditInit, EditInv, EditorOK, Harmed

LEMMA EditStepInv == EditInv /\ [EditNext]_editVars => EditInv'
<1> SUFFICES ASSUME EditInv, [EditNext]_editVars PROVE EditInv'
  OBVIOUS
<1>1. CASE UNCHANGED editVars
  BY <1>1, EngineEdit DEF editVars
<1>2. CASE EditNext
  BY <1>2, EngineEdit, EditLoadKept, EditSaveKept, EditCloseKept, EditAssignKept DEF EditNext
<1> QED BY <1>1, <1>2

LEMMA EditInvariant == EditSpec => []EditInv
BY EditInitInv, EditStepInv, PTL DEF EditSpec

\* Whatever sessions load, save and assign while the engine works on the run,
\* every variable keeps its type (FormEditJobRun, FormEditJob).
THEOREM EditTypes == EditSpec => []EditTypeOK
<1>1. EditInv => EditTypeOK
  BY DEF EditInv
<1> QED BY <1>1, EditInvariant, PTL

\* A save while a cron or an executor holds the run does not duplicate it, unless it
\* inserted the run again; so many sessions may edit at once (updateBatchJobRun).
THEOREM EditedSingleCopy == EditSpec => []SingleCopyUnlessReinserted
<1>1. EditInv => SingleCopyUnlessReinserted
  BY DEF EditInv, KeyOK, SingleCopyUnlessReinserted
<1> QED BY <1>1, EditInvariant, PTL

\* Nor is an edited run executed twice, unless a save inserted it again.
THEOREM EditedAtMostOnce == EditSpec => []ExecutedAtMostOnceUnlessReinserted
<1>1. EditInv => ExecutedAtMostOnceUnlessReinserted
  BY DEF EditInv, KeyOK, ExecutedAtMostOnceUnlessReinserted
<1> QED BY <1>1, EditInvariant, PTL

\* Editing forks no chain: a run that no save inserted again has one successor at most,
\* and only after its steps were executed (scheduleNextRun).
THEOREM EditedLinear ==
  EditSpec => [](/\ \A k, l \in created :
                      parent[k] = parent[l] /\ parent[k] \notin Harmed \cup {NoRun} => k = l
                 /\ \A k \in created : parent[k] # NoRun => starts[parent[k]] > 0)
<1> DEFINE Chains ==
        /\ \A k, l \in created :
             parent[k] = parent[l] /\ parent[k] \notin Harmed \cup {NoRun} => k = l
        /\ \A k \in created : parent[k] # NoRun => starts[parent[k]] > 0
<1>1. EditInv => Chains
  <2> SUFFICES ASSUME EditInv PROVE Chains
    OBVIOUS
  <2>1. created \subseteq RunKeys /\ \A k \in RunKeys : parent[k] \in RunKeys \cup {NoRun}
    BY DEF EditInv, BaseInv, TypeInv, TypeOK
  <2>2. ASSUME NEW k \in created, NEW l \in created, parent[k] = parent[l],
               parent[k] \notin Harmed \cup {NoRun}
        PROVE  k = l
    BY <2>1, <2>2 DEF EditInv, KeyOK
  <2> QED BY <2>1, <2>2 DEF EditInv, BaseInv, Counts
<1> QED BY <1>1, EditInvariant, PTL
=============================================================================
