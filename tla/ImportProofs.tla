------------------------------ MODULE ImportProofs ------------------------------
(* Proofs about SubscriberImport: files, chunks and lists of any size.         *)
EXTENDS SubscriberImport, FiniteSetTheorems, WellFoundedInduction, TLAPS

------------------------------------------------------------------------------
(* Rows and chunks.                                                          *)

LEMMA Constants ==
  /\ NumRows \in Nat /\ NumRows >= 1
  /\ LinesPerChunk \in Nat /\ LinesPerChunk >= 1
  /\ Rows \subseteq Nat /\ IsFiniteSet(Rows) /\ Cardinality(Rows) = NumRows
<1>1. NumRows \in Nat \ {0} /\ LinesPerChunk \in Nat \ {0}
  BY ImportAssumption
<1>2. IsFiniteSet(1 .. NumRows) /\ Cardinality(1 .. NumRows) = NumRows
  BY <1>1, FS_Interval
<1> QED BY <1>1, <1>2 DEF Rows

\* A set of rows is finite and no larger than the file.
LEMMA RowSets ==
  ASSUME NEW R \in SUBSET Rows
  PROVE  /\ IsFiniteSet(R) /\ Cardinality(R) \in Nat /\ Cardinality(R) <= NumRows
         /\ Cardinality(R) = NumRows => R = Rows
         /\ Cardinality(R) = 0 <=> R = {}
         /\ \A T \in SUBSET R : Cardinality(T) <= Cardinality(R)
         /\ \A T \in SUBSET Rows : T \cap R = {} =>
               Cardinality(T \cup R) = Cardinality(T) + Cardinality(R)
<1>1. /\ IsFiniteSet(R) /\ Cardinality(R) \in Nat /\ Cardinality(R) <= NumRows
      /\ Cardinality(R) = NumRows => R = Rows
  BY Constants, FS_Subset, FS_CardinalityType
<1>2. \A T \in SUBSET R : Cardinality(T) <= Cardinality(R)
  BY <1>1, FS_Subset
<1>3. ASSUME NEW T \in SUBSET Rows, T \cap R = {}
      PROVE  Cardinality(T \cup R) = Cardinality(T) + Cardinality(R)
  <2>1. IsFiniteSet(T) /\ Cardinality(T) \in Nat
    BY Constants, FS_Subset, FS_CardinalityType
  <2>2. Cardinality(T \cup R) = Cardinality(T) + Cardinality(R) - Cardinality(T \cap R)
    BY <1>1, <2>1, FS_Union
  <2>3. Cardinality(T \cap R) = 0
    BY <1>3, FS_EmptySet
  <2> QED BY <1>1, <2>1, <2>2, <2>3
<1> QED BY <1>1, <1>2, <1>3, FS_EmptySet

\* Of the rows of a call with one spelling of an address, one is the last.
LEMMA LastOfAddress ==
  ASSUME NEW R \in SUBSET Rows, NEW r \in R
  PROVE  \E s \in MergeDuplicates(R) : EmailOf[s] = EmailOf[r]
<1> DEFINE same == {s \in R : SpellingOf[s] = SpellingOf[r]}
           behind == {k \in Nat : \E s \in same : k = NumRows - s}
<1>1. \A s \in Rows : s \in Nat /\ NumRows - s \in Nat
  BY Constants DEF Rows
<1>2. NumRows - r \in behind
  BY <1>1
<1>3. PICK k \in behind : \A j \in behind : ~ <<j, k>> \in OpToRel(<, Nat)
  BY <1>2, WFMin, NatLessThanWellFounded
<1>4. \A j \in behind : ~ (j < k)
  BY <1>3 DEF OpToRel
<1>5. PICK s \in same : k = NumRows - s
  BY <1>3
<1>6. ASSUME NEW t \in R, SpellingOf[t] = SpellingOf[s]
      PROVE  t <= s
  <2>1. NumRows - t \in behind
    BY <1>1, <1>5, <1>6
  <2>2. t \in Nat /\ s \in Nat /\ NumRows \in Nat
    BY <1>1, <1>5, <1>6, Constants
  <2> QED BY <1>4, <1>5, <2>1, <2>2
<1>7. s \in MergeDuplicates(R)
  BY <1>5, <1>6 DEF MergeDuplicates
<1>8. EmailOf[s] = EmailOf[r]
  BY <1>5, ImportAssumption
<1> QED BY <1>7, <1>8

\* A chunk begins where the one before ended; the last one may be empty.
LEMMA Chunks ==
  ASSUME NEW i, ReadsOn(i)
  PROVE  LET chunk == ReadSomeLines(i)
         IN  /\ chunk.lines \subseteq {r \in Rows : r >= i}
             /\ chunk.eof => chunk.lines = {r \in Rows : r >= i}
             /\ ~chunk.eof =>
                   /\ i <= NumRows /\ i + Cardinality(chunk.lines) \in Nat
                   /\ ReadsOn(i + Cardinality(chunk.lines))
                   /\ \A r \in Rows : r >= i => r \in chunk.lines
                                               \/ r >= i + Cardinality(chunk.lines)
                   /\ \A r \in chunk.lines : r < i + Cardinality(chunk.lines)
             /\ chunk.lines = {} => i > NumRows
             /\ i > NumRows => chunk.eof /\ EmptyChunk = 1 /\ chunk.lines = {}
<1> DEFINE L == LinesPerChunk
           q == i \div L
           last == (q + 1) * L - 1
           chunk == ReadSomeLines(i)
<1>1. L \in Nat /\ L >= 1 /\ NumRows \in Nat /\ NumRows >= 1 /\ i \in Nat /\ i >= 1 /\ i <= NumRows + 1
  BY Constants DEF ReadsOn
<1>2. q \in Nat /\ i = q * L + (i % L) /\ i % L \in Nat /\ i % L < L
  BY <1>1
<1>3. last = q * L + L - 1 /\ q * L \in Nat
  BY <1>1, <1>2
<1>4. last \in Nat /\ last >= i /\ (i % L = 0 => last = i + L - 1)
  BY <1>1, <1>2, <1>3
<1>5. chunk.lines = {r \in i .. last : r <= NumRows} /\ (chunk.eof <=> NumRows < last)
  BY DEF ReadSomeLines
<1> HIDE DEF chunk, last, q, L
<1>6. chunk.lines \subseteq {r \in Rows : r >= i}
  BY <1>1, <1>4, <1>5 DEF Rows
<1>7. chunk.eof => chunk.lines = {r \in Rows : r >= i}
  BY <1>1, <1>4, <1>5 DEF Rows
<1>8. CASE ~chunk.eof
  <2>1. last <= NumRows
    BY <1>1, <1>4, <1>5, <1>8
  <2>2. chunk.lines = i .. last
    BY <1>1, <1>4, <1>5, <2>1
  <2>3. Cardinality(chunk.lines) = last - i + 1
    BY <1>1, <1>4, <2>2, FS_Interval
  <2>4. i + Cardinality(chunk.lines) = last + 1
    BY <1>1, <1>4, <2>3
  <2>5. last + 1 = (q + 1) * L
    BY <1>1, <1>2, <1>4 DEF last
  <2>6. (last + 1) % L = 0
    BY <1>1, <1>2, <2>5
  <2>7. ReadsOn(last + 1)
    BY <1>1, <1>4, <2>1, <2>6 DEF ReadsOn, L
  <2>8. \A r \in Rows : r >= i => r \in chunk.lines \/ r >= last + 1
    BY <1>1, <1>4, <2>2 DEF Rows
  <2>9. \A r \in chunk.lines : r < last + 1
    BY <1>1, <1>4, <2>2
  <2>10. i <= NumRows /\ i \in chunk.lines
    BY <1>1, <1>4, <2>1, <2>2
  <2> QED BY <1>1, <1>4, <1>6, <1>8, <2>4, <2>7, <2>8, <2>9, <2>10 DEF chunk
<1>9. CASE chunk.eof
  <2>1. chunk.lines = {} => i > NumRows
    BY <1>1, <1>7, <1>9 DEF Rows
  <2>2. ASSUME i > NumRows
        PROVE  EmptyChunk = 1 /\ chunk.lines = {}
    <3>1. i = NumRows + 1 /\ i # 1
      BY <1>1, <2>2
    <3>2. (NumRows + 1) % LinesPerChunk = 0
      BY <3>1 DEF ReadsOn
    <3>3. chunk.lines = {}
      BY <1>1, <1>5, <2>2
    <3> QED BY <3>2, <3>3 DEF EmptyChunk
  <2> QED BY <1>6, <1>7, <1>9, <2>1, <2>2 DEF chunk
<1> QED BY <1>8, <1>9
------------------------------------------------------------------------------
(* What becomes of a call at the server.                                     *)

LEMMA FaultedCall ==
  ASSUME NEW c \in Call
  PROVE  /\ Fault(c) \in Call /\ Fault(c).id = c.id /\ Fault(c).rows = c.rows
         /\ Fault(c).pc = "faulted" /\ Fault(c).bad = {}
BY DEF Fault, Call

LEMMA AdvancedCall ==
  ASSUME NEW c \in Call, NEW l \in Lists, NEW R \in SUBSET c.rows
  PROVE  LET d == Advance(c, l, R)
         IN  /\ d \in Call /\ d.id = c.id /\ d.rows = c.rows
             /\ d.todo = c.todo \ {l}
             /\ d.pc = IF c.todo = {l} THEN "answered" ELSE "lists"
             /\ c.bad \subseteq d.bad
             /\ \A r \in R : \E e \in d.bad : e[2] = r /\ e[3] = l
             /\ \A e \in d.bad : e \in c.bad \/ e[2] \in R
<1> DEFINE new == {c.id} \X R \X {l}
           d == Advance(c, l, R)
<1>1. c.id \in CallId /\ R \subseteq Rows /\ c.bad \subseteq ErrorLine
  BY DEF Call
<1>2. new \subseteq ErrorLine
  BY <1>1 DEF ErrorLine
<1>3. \A r \in R : <<c.id, r, l>> \in new
  OBVIOUS
<1>4. \A e \in new : e[2] \in R /\ e[3] = l
  OBVIOUS
<1>5. \A r \in R : \E e \in new : e[2] = r /\ e[3] = l
  BY <1>3
<1> HIDE DEF new
<1>6. d = [c EXCEPT !.todo = @ \ {l},
                    !.pc = IF c.todo = {l} THEN "answered" ELSE "lists",
                    !.bad = @ \cup new]
  BY DEF Advance, new
<1> HIDE DEF d
<1>7. /\ d \in Call /\ d.id = c.id /\ d.rows = c.rows
      /\ d.todo = c.todo \ {l}
      /\ d.pc = IF c.todo = {l} THEN "answered" ELSE "lists"
      /\ d.bad = c.bad \cup new
  BY <1>1, <1>2, <1>6 DEF Call
<1> QED BY <1>4, <1>5, <1>7 DEF d

\* A step of the call c at the server makes d of it; only subscriptions are added.
CallStep(c, d) ==
    /\ calls' = (calls \ {c}) \cup {d}
    /\ d \in Call /\ d.id = c.id /\ d.rows = c.rows
    /\ \A e \in d.bad : e \in c.bad \/ e[2] \in c.rows
    /\ stored \subseteq stored'
    /\ stored' \in SUBSET ({EmailOf[r] : r \in Rows} \X Lists)
    /\ trouble' \in Nat
    /\ UNCHANGED <<selected, form, shown, blocked, attempt, panel, disturbed, toggled>>

\* The call has handled its rows for the lists in its past.
Handles(c) ==
    c.pc \in {"lists", "answered"} =>
        \A l \in pageLists : \/ c.pc = "lists" /\ l \in c.todo
                             \/ \A r \in c.rows : Handled(r, l, c.bad)

LEMMA StrikeTypes ==
  ASSUME TypeOK, Strike \/ UNCHANGED trouble
  PROVE  trouble' \in Nat
BY DEF TypeOK, Strike

\* massSubscribe, for the lists of the form.
LEMMA MassSubscribeStep ==
  ASSUME TypeOK, NEW c \in calls, NEW l \in Lists, MassSubscribe(c, l)
  PROVE  \E d : /\ CallStep(c, d)
                /\ selected = pageLists /\ Handles(c) => Handles(d)'
<1> DEFINE subscribed == {EmailOf[r] : r \in Survivors(c)} \X {l}
<1>1. c \in Call /\ c.pc = "lists"
  BY DEF TypeOK, MassSubscribe
<1>2. /\ MergeDuplicates(c.rows) \subseteq c.rows /\ c.rows \subseteq Rows
      /\ Rejected(c) \subseteq MergeDuplicates(c.rows)
      /\ Survivors(c) = MergeDuplicates(c.rows) \ Rejected(c)
  BY <1>1 DEF Survivors, Rejected, MergeDuplicates, Call
<1>3. UNCHANGED <<selected, form, shown, blocked, attempt, panel, disturbed, toggled>>
  BY DEF MassSubscribe
<1>4. stored \in SUBSET ({EmailOf[r] : r \in Rows} \X Lists)
  BY DEF TypeOK
<1>5. subscribed \in SUBSET ({EmailOf[r] : r \in Rows} \X Lists)
  BY <1>2
<1>6. \A r \in Survivors(c) : <<EmailOf[r], l>> \in subscribed
  OBVIOUS
<1> HIDE DEF subscribed
<1>7. CASE stored' = stored /\ Becomes(c, Fault(c)) /\ (Strike \/ UNCHANGED trouble)
  <2>1. CallStep(c, Fault(c))
    BY <1>1, <1>3, <1>4, <1>7, FaultedCall, StrikeTypes DEF CallStep, Becomes
  <2>2. Handles(Fault(c))'
    BY <1>1, FaultedCall DEF Handles
  <2> QED BY <2>1, <2>2
<1>8. ASSUME NEW R \in SUBSET MergeDuplicates(c.rows), Rejected(c) \subseteq R,
             stored' = stored \cup subscribed, Becomes(c, Advance(c, l, R)),
             Strike \/ UNCHANGED trouble
      PROVE  \E d : CallStep(c, d) /\ (Handles(c) => Handles(d)')
  <2> DEFINE d == Advance(c, l, R)
  <2>1. R \in SUBSET c.rows
    BY <1>2
  <2>2. /\ d \in Call /\ d.id = c.id /\ d.rows = c.rows
        /\ d.todo = c.todo \ {l}
        /\ d.pc = IF c.todo = {l} THEN "answered" ELSE "lists"
        /\ c.bad \subseteq d.bad
        /\ \A r \in R : \E e \in d.bad : e[2] = r /\ e[3] = l
        /\ \A e \in d.bad : e \in c.bad \/ e[2] \in R
    BY <1>1, <2>1, AdvancedCall
  <2>3. calls' = (calls \ {c}) \cup {d}
    BY <1>8 DEF Becomes
  <2> HIDE DEF d
  <2>4. trouble' \in Nat
    BY <1>8, StrikeTypes
  <2>5. CallStep(c, d)
    BY <1>3, <1>4, <1>5, <1>8, <2>1, <2>2, <2>3, <2>4 DEF CallStep
  <2>6. ASSUME NEW r \in c.rows
        PROVE  Handled(r, l, d.bad)'
    <3>1. PICK s \in MergeDuplicates(c.rows) : EmailOf[s] = EmailOf[r]
      BY <1>2, LastOfAddress
    <3>2. CASE s \in R
      BY <2>2, <3>1, <3>2 DEF Handled
    <3>3. CASE s \in Survivors(c)
      BY <1>6, <1>8, <3>1, <3>3 DEF Handled
    <3> QED BY <1>2, <1>8, <3>1, <3>2, <3>3
  <2>7. ASSUME Handles(c)
        PROVE  Handles(d)'
    <3> SUFFICES ASSUME NEW k \in pageLists
                 PROVE  \/ d.pc = "lists" /\ k \in d.todo
                        \/ \A r \in d.rows : Handled(r, k, d.bad)'
      BY <1>3 DEF Handles, form
    <3>1. \/ k \in c.todo
          \/ \A r \in c.rows : Handled(r, k, c.bad)
      BY <1>1, <2>7 DEF Handles
    <3>2. CASE \A r \in c.rows : Handled(r, k, c.bad)
      BY <1>8, <2>2, <3>2 DEF Handled
    <3>3. CASE k = l
      BY <2>2, <2>6, <3>3
    <3>4. CASE k \in c.todo /\ k # l
      BY <2>2, <3>4
    <3> QED BY <3>1, <3>2, <3>3, <3>4
  <2> QED BY <2>5, <2>7
<1>9. CASE /\ stored' = stored \cup subscribed
           /\ Becomes(c, Advance(c, l, Rejected(c))) /\ UNCHANGED trouble
  BY <1>2, <1>8, <1>9
<1>10. CASE /\ stored' = stored \cup subscribed /\ Strike
            /\ Becomes(c, Advance(c, l, MergeDuplicates(c.rows)))
  BY <1>2, <1>8, <1>10
<1> QED BY <1>7, <1>9, <1>10 DEF MassSubscribe, subscribed

\* The other steps of a call; the loop begins with the lists of the form.
LEMMA CallSteps ==
  ASSUME TypeOK, NEW c \in calls, Serve(c) \/ CallLost(c)
  PROVE  \E d : /\ CallStep(c, d)
                /\ selected = pageLists /\ Handles(c) => Handles(d)'
<1>1. c \in Call /\ selected \in SUBSET Lists
      /\ stored \in SUBSET ({EmailOf[r] : r \in Rows} \X Lists) /\ trouble \in Nat
  BY DEF TypeOK
<1>2. CASE AddSubscribers(c)
  <2>1. PICK d : /\ calls' = (calls \ {c}) \cup {d}
                 /\ d = IF selected = {} THEN Fault(c)
                        ELSE [c EXCEPT !.pc = "checked", !.fields = selected]
    BY <1>2 DEF AddSubscribers, Becomes
  <2>2. /\ d \in Call /\ d.id = c.id /\ d.rows = c.rows
        /\ d.bad \subseteq c.bad /\ d.pc \in {"faulted", "checked"}
    BY <1>1, <2>1, FaultedCall DEF Call
  <2>3. CallStep(c, d)
    BY <1>1, <1>2, <2>1, <2>2 DEF CallStep, AddSubscribers, server, history
  <2>4. Handles(d)'
    BY <2>2 DEF Handles
  <2> QED BY <2>3, <2>4
<1>3. CASE IterateLists(c)
  <2>1. PICK d : /\ calls' = (calls \ {c}) \cup {d}
                 /\ d = [c EXCEPT !.pc = IF selected = {} THEN "answered" ELSE "lists",
                                  !.todo = selected]
    BY <1>3 DEF IterateLists, Becomes
  <2>2. /\ d \in Call /\ d.id = c.id /\ d.rows = c.rows /\ d.bad = c.bad
        /\ d.pc = (IF selected = {} THEN "answered" ELSE "lists") /\ d.todo = selected
    BY <1>1, <2>1 DEF Call
  <2>3. CallStep(c, d)
    BY <1>1, <1>3, <2>1, <2>2 DEF CallStep, IterateLists, server, history
  <2>4. pageLists' = pageLists
    BY <1>3 DEF IterateLists, form
  <2>5. selected = pageLists => Handles(d)'
    BY <2>2, <2>4 DEF Handles
  <2> QED BY <2>3, <2>5
<1>4. ASSUME NEW l \in Lists, MassSubscribe(c, l)
      PROVE  \E d : /\ CallStep(c, d)
                    /\ selected = pageLists /\ Handles(c) => Handles(d)'
  BY <1>4, MassSubscribeStep
<1>5. CASE CallLost(c)
  <2>1. CallStep(c, Fault(c))
    BY <1>1, <1>5, FaultedCall, StrikeTypes DEF CallStep, CallLost, Becomes, server
  <2>2. Handles(Fault(c))'
    BY <1>1, FaultedCall DEF Handles
  <2> QED BY <2>1, <2>2
<1> QED BY <1>2, <1>3, <1>4, <1>5 DEF Serve
------------------------------------------------------------------------------
(* The types.                                                                *)

LEMMA TypesInit ==
  ASSUME Init
  PROVE  TypeOK
<1>1. <<>> \in Seq(SUBSET ErrorLine)
  OBVIOUS
<1> QED BY <1>1, Constants DEF Init, TypeOK

LEMMA DisturbsTypes ==
  ASSUME TypeOK, NEW what \in {"overlap", "selection", "mapping"}, Disturbs(what)
  PROVE  trouble' \in Nat /\ disturbed' \in SUBSET {"overlap", "selection", "mapping"}
BY StrikeTypes DEF Disturbs, TypeOK

LEMMA FormTypes ==
  ASSUME TypeOK,
         \/ \E S \in SUBSET Lists : OpenPopup(S)
         \/ Select \/ RefreshFails \/ BindFileInput
         \/ \E l \in Lists : SelectColumn(l)
         \/ ReloadPage
  PROVE  TypeOK'
<1>1. ASSUME NEW S \in SUBSET Lists, OpenPopup(S)
      PROVE  TypeOK'
  <2>1. trouble' \in Nat /\ disturbed' \in SUBSET {"overlap", "selection", "mapping"}
    BY <1>1, DisturbsTypes DEF OpenPopup
  <2> QED BY <1>1, <2>1 DEF OpenPopup, TypeOK, server, panel
<1>2. CASE ClearSelection \/ FillSelection
  BY <1>2 DEF ClearSelection, FillSelection, TypeOK, panel, history
<1>3. CASE RefreshImport
  BY <1>3 DEF RefreshImport, NewForm, TypeOK, server, history
<1>4. CASE RefreshFails
  <2>1. trouble' \in Nat
    BY <1>4, StrikeTypes DEF RefreshFails
  <2> QED BY <1>4, <2>1 DEF RefreshFails, TypeOK, server, panel
<1>5. CASE BindFileInput
  <2>1. trouble' \in Nat /\ disturbed' \in SUBSET {"overlap", "selection", "mapping"}
    BY <1>5, DisturbsTypes DEF BindFileInput
  <2> QED BY <1>5, <2>1 DEF BindFileInput, TypeOK, server, panel
<1>6. ASSUME NEW l \in Lists, SelectColumn(l)
      PROVE  TypeOK'
  <2>1. trouble' \in Nat /\ disturbed' \in SUBSET {"overlap", "selection", "mapping"}
    BY <1>6, DisturbsTypes DEF SelectColumn, TypeOK
  <2>2. mapped' \in SUBSET Lists
    BY <1>6 DEF SelectColumn, TypeOK
  <2> QED BY <1>6, <2>1, <2>2 DEF SelectColumn, TypeOK, server, panel
<1>7. CASE ReloadPage
  <2>1. trouble' \in Nat
    BY <1>7, StrikeTypes DEF ReloadPage
  <2>2. <<>> \in Seq(SUBSET ErrorLine)
    OBVIOUS
  <2>3. attempt' \in [Attempts -> [pc : {"none", "counting", "asking", "reading",
                                         "hung", "ended", "gone"}, next : Nat]]
    BY <1>7 DEF ReloadPage, TypeOK
  <2> QED BY <1>7, <2>1, <2>2, <2>3 DEF ReloadPage, TypeOK, server
<1> QED BY <1>1, <1>2, <1>3, <1>4, <1>5, <1>6, <1>7 DEF Select

LEMMA AttemptTypes ==
  ASSUME TypeOK, Sound, NEW a \in Attempts,
         \/ StartFileUpload(a) \/ Import(a) \/ CheckFileStatusFails(a) \/ ReadFails(a)
  PROVE  TypeOK'
<1>1. CASE StartFileUpload(a)
  <2>1. <<>> \in Seq(SUBSET ErrorLine)
    OBVIOUS
  <2> QED BY <1>1, <2>1 DEF StartFileUpload, StartFrom, Goto, TypeOK, server, form
<1>2. CASE CountLines(a)
  BY <1>2 DEF CountLines, Counted, Goto, TypeOK, server, form, history
<1>3. CASE SuccessAndStart(a)
  BY <1>3 DEF SuccessAndStart, LastProcessingPosition, TypeOK, server, form, panel, history
<1>4. CASE SendBatchToWS(a)
  <2> DEFINE i == attempt[a].next
             chunk == ReadSomeLines(i)
             c(cut) == [id |-> <<a, i>>, rows |-> chunk.lines, keys |-> mapped, cut |-> cut,
                        pc |-> "sent", fields |-> {}, todo |-> {}, bad |-> {}]
  <2>1. ReadsOn(i) /\ i \in Nat
    BY <1>4 DEF SendBatchToWS, Sound, TypeOK
  <2>2. chunk.lines \in SUBSET Rows /\ (~chunk.eof => i + Cardinality(chunk.lines) \in Nat)
    BY <2>1, Chunks
  <2> HIDE DEF i, chunk
  <2>3. \A cut \in SUBSET Lists : c(cut) \in Call
    BY <2>1, <2>2 DEF Call, CallId, TypeOK
  <2>4. PICK cut \in SUBSET Lists : calls' = calls \cup {c(cut)}
    BY <1>4 DEF SendBatchToWS, i, chunk, TypeOK
  <2>5. attempt' = [attempt EXCEPT ![a] =
                       IF chunk.eof THEN [pc |-> "ended", next |-> 0]
                       ELSE [pc |-> "reading", next |-> i + Cardinality(chunk.lines)]]
    BY <1>4 DEF SendBatchToWS, i, chunk
  <2> HIDE DEF c
  <2>6. attempt' \in [Attempts -> [pc : {"none", "counting", "asking", "reading",
                                         "hung", "ended", "gone"}, next : Nat]]
    BY <2>2, <2>5 DEF TypeOK
  <2> QED BY <1>4, <2>3, <2>4, <2>6 DEF SendBatchToWS, TypeOK, server, form, panel, history
<1>5. CASE CheckFileStatusFails(a)
  <2>1. trouble' \in Nat
    BY <1>5, StrikeTypes DEF CheckFileStatusFails
  <2> QED BY <1>5, <2>1 DEF CheckFileStatusFails, Goto, TypeOK, server, form, panel
<1>6. CASE ReadFails(a)
  <2>1. trouble' \in Nat
    BY <1>6, StrikeTypes DEF ReadFails
  <2> QED BY <1>6, <2>1 DEF ReadFails, TypeOK, server, form, panel
<1> QED BY <1>1, <1>2, <1>3, <1>4, <1>5, <1>6 DEF Import

LEMMA AppendTypes ==
  ASSUME NEW S, NEW s \in Seq(S), NEW x \in S
  PROVE  Append(s, x) \in Seq(S)
OBVIOUS

LEMMA ReplyTypes ==
  ASSUME TypeOK, (\E c \in calls : Reply(c)) \/ WriteErrorFile
  PROVE  TypeOK'
<1>1. ASSUME NEW c \in calls, LogCheckedErrors(c)
      PROVE  TypeOK'
  <2>1. c.rows \in SUBSET Rows /\ c.bad \in SUBSET ErrorLine
    BY DEF TypeOK, Call
  <2>2. processed' \in Nat
    BY <1>1, <2>1, RowSets DEF LogCheckedErrors, Count, TypeOK
  <2>3. errorLines' \in SUBSET ErrorLine
    BY <1>1, <2>1 DEF LogCheckedErrors, Count, TypeOK
  <2>4. passes' = passes \/ passes' = Append(passes, errorLines')
    BY <1>1 DEF LogCheckedErrors, Count, GenerateErrorFile, GenerateIf
  <2>5. passes' \in Seq(SUBSET ErrorLine)
    <3>1. passes \in Seq(SUBSET ErrorLine)
      BY DEF TypeOK
    <3> QED BY <2>3, <2>4, <3>1, AppendTypes
  <2>6. link' = FALSE /\ shown' \in SUBSET {"import", "cancel", "done"}
    BY <1>1 DEF LogCheckedErrors, Count, GenerateErrorFile, GenerateIf, TypeOK
  <2> QED BY <1>1, <2>2, <2>3, <2>5, <2>6
          DEF LogCheckedErrors, Count, TypeOK, server, form, history
<1>2. ASSUME NEW c \in calls, LogSOAPErrors(c) \/ ReplyToNobody(c)
      PROVE  TypeOK'
  BY <1>2 DEF LogSOAPErrors, ReplyToNobody, TypeOK, server, form, panel, history
<1>3. CASE WriteErrorFile
  <2>1. Head(passes) \in SUBSET ErrorLine /\ Tail(passes) \in Seq(SUBSET ErrorLine)
    BY <1>3 DEF WriteErrorFile, TypeOK
  <2>2. written' \in Seq(SUBSET ErrorLine)
    BY <1>3, <2>1 DEF WriteErrorFile, TypeOK
  <2> QED BY <1>3, <2>1, <2>2 DEF WriteErrorFile, TypeOK, server, form, history
<1> QED BY <1>1, <1>2, <1>3 DEF Reply

LEMMA CallTypes ==
  ASSUME TypeOK, NEW c \in calls, NEW d, CallStep(c, d)
  PROVE  TypeOK'
BY DEF CallStep, TypeOK, form, panel
------------------------------------------------------------------------------
(* What an import does to the attempts.                                      *)

Pcs == {"none", "counting", "asking", "reading", "hung", "ended", "gone"}

\* The attempt a is now at p; only one that reads has a next line.
MovesTo(a, p) ==
    /\ \A b \in Attempts \ {a} : attempt'[b] = attempt[b]
    /\ attempt'[a].pc = p

LEMMA Moves ==
  ASSUME TypeOK, NEW a \in Attempts
  PROVE  /\ StartFileUpload(a) => attempt[a].pc = "none" /\ MovesTo(a, "counting")
         /\ CountLines(a) => attempt[a].pc = "counting" /\ MovesTo(a, "asking")
         /\ SuccessAndStart(a) => /\ attempt[a].pc = "asking" /\ MovesTo(a, "reading")
                                  /\ attempt'[a].next = 1
         /\ SendBatchToWS(a) =>
               LET i == attempt[a].next
                   chunk == ReadSomeLines(i)
               IN  /\ attempt[a].pc = "reading"
                   /\ MovesTo(a, IF chunk.eof THEN "ended" ELSE "reading")
                   /\ ~chunk.eof => attempt'[a].next = i + Cardinality(chunk.lines)
         /\ CheckFileStatusFails(a) => attempt[a].pc = "asking" /\ MovesTo(a, "ended")
         /\ ReadFails(a) => \/ attempt[a].pc = "counting" /\ MovesTo(a, "hung")
                            \/ attempt[a].pc = "reading" /\ MovesTo(a, "ended")
<1>1. attempt \in [Attempts -> [pc : Pcs, next : Nat]]
  BY DEF TypeOK, Pcs
<1>2. StartFileUpload(a) => attempt[a].pc = "none" /\ MovesTo(a, "counting")
  BY <1>1 DEF StartFileUpload, StartFrom, Fresh, Goto, MovesTo
<1>3. CountLines(a) => attempt[a].pc = "counting" /\ MovesTo(a, "asking")
  BY <1>1 DEF CountLines, Counted, Goto, MovesTo
<1>4. SuccessAndStart(a) => /\ attempt[a].pc = "asking" /\ MovesTo(a, "reading")
                            /\ attempt'[a].next = 1
  BY <1>1 DEF SuccessAndStart, LastProcessingPosition, MovesTo
<1>5. SendBatchToWS(a) =>
         LET i == attempt[a].next
             chunk == ReadSomeLines(i)
         IN  /\ attempt[a].pc = "reading"
             /\ MovesTo(a, IF chunk.eof THEN "ended" ELSE "reading")
             /\ ~chunk.eof => attempt'[a].next = i + Cardinality(chunk.lines)
  BY <1>1 DEF SendBatchToWS, MovesTo
<1>6. CheckFileStatusFails(a) => attempt[a].pc = "asking" /\ MovesTo(a, "ended")
  BY <1>1 DEF CheckFileStatusFails, Goto, MovesTo
<1>7. ReadFails(a) => \/ attempt[a].pc = "counting" /\ MovesTo(a, "hung")
                      \/ attempt[a].pc = "reading" /\ MovesTo(a, "ended")
  BY <1>1 DEF ReadFails, MovesTo
<1> QED BY <1>2, <1>3, <1>4, <1>5, <1>6, <1>7

LEMMA MovedSets ==
  ASSUME NEW a \in Attempts, NEW p, MovesTo(a, p), NEW pcs
  PROVE  At(pcs)' = IF p \in pcs THEN At(pcs) \cup {a} ELSE At(pcs) \ {a}
BY DEF MovesTo, At

\* A step keeps the attempts, moves one of them, or loads the page again.
LEMMA StepMoves ==
  ASSUME TypeOK, [Next]_vars
  PROVE  \/ UNCHANGED attempt
         \/ ReloadPage
         \/ \E a \in Attempts :
               StartFileUpload(a) \/ Import(a) \/ CheckFileStatusFails(a) \/ ReadFails(a)
<1>1. ASSUME NEW c \in calls, Serve(c) \/ CallLost(c)
      PROVE  UNCHANGED attempt
  BY <1>1, CallSteps DEF CallStep
<1> QED BY <1>1 DEF Next, vars, OpenPopup, Select, ClearSelection, FillSelection, RefreshImport,
              NewForm, RefreshFails, BindFileInput, SelectColumn, Reply, LogCheckedErrors,
              Count, LogSOAPErrors, ReplyToNobody, WriteErrorFile

------------------------------------------------------------------------------
(* What holds whatever the user does.                                        *)

LEMMA SoundInit ==
  ASSUME Init
  PROVE  Sound
BY DEF Init, Sound

LEMMA ReadsOnNext ==
  ASSUME TypeOK, Sound, [Next]_vars, NEW b \in Attempts, attempt'[b].pc = "reading"
  PROVE  ReadsOn(attempt'[b].next)
<1>1. CASE UNCHANGED attempt
  BY <1>1 DEF Sound
<1>2. CASE ReloadPage
  BY <1>2 DEF ReloadPage, TypeOK
<1>3. ASSUME NEW a \in Attempts,
             StartFileUpload(a) \/ Import(a) \/ CheckFileStatusFails(a) \/ ReadFails(a)
      PROVE  ReadsOn(attempt'[b].next)
  <2>1. CASE b # a
    BY <1>3, <2>1, Moves DEF Import, MovesTo, Sound
  <2>2. CASE b = a /\ SuccessAndStart(a)
    BY <2>2, Moves, Constants DEF ReadsOn
  <2>3. CASE b = a /\ SendBatchToWS(a)
    <3> DEFINE i == attempt[a].next
               chunk == ReadSomeLines(i)
    <3>1. ReadsOn(i)
      BY <2>3 DEF SendBatchToWS, Sound
    <3>2. ~chunk.eof /\ attempt'[a].next = i + Cardinality(chunk.lines)
      BY <2>3, Moves DEF MovesTo
    <3> QED BY <2>3, <3>1, <3>2, Chunks
  <2> QED BY <1>3, <2>1, <2>2, <2>3, Moves DEF Import, MovesTo
<1> QED BY <1>1, <1>2, <1>3, StepMoves

\* An attempt that has begun stays begun.
LEMMA BegunStays ==
  ASSUME TypeOK, [Next]_vars, NEW b \in Attempts, attempt[b].pc # "none"
  PROVE  attempt'[b].pc # "none"
<1>1. CASE UNCHANGED attempt
  BY <1>1
<1>2. CASE ReloadPage
  BY <1>2 DEF ReloadPage, TypeOK
<1>3. ASSUME NEW a \in Attempts,
             StartFileUpload(a) \/ Import(a) \/ CheckFileStatusFails(a) \/ ReadFails(a)
      PROVE  attempt'[b].pc # "none"
  BY <1>3, Moves DEF Import, MovesTo
<1> QED BY <1>1, <1>2, <1>3, StepMoves

LEMMA SoundCalls ==
  ASSUME TypeOK, Sound, [Next]_vars, NEW d \in calls'
  PROVE  attempt'[d.id[1]].pc # "none" /\ \A e \in d.bad : e[2] \in d.rows
<1>1. \A c \in calls : c.id[1] \in Attempts
  BY DEF TypeOK, Call, CallId
<1>2. ASSUME NEW c \in calls, Serve(c) \/ CallLost(c)
      PROVE  attempt'[d.id[1]].pc # "none" /\ \A e \in d.bad : e[2] \in d.rows
  BY <1>2, CallSteps DEF CallStep, Sound
<1>3. ASSUME NEW a \in Attempts, SendBatchToWS(a), d \notin calls
      PROVE  attempt'[d.id[1]].pc # "none" /\ \A e \in d.bad : e[2] \in d.rows
  <2>1. d.id[1] = a /\ d.bad = {}
    BY <1>3 DEF SendBatchToWS
  <2> QED BY <1>3, <2>1, BegunStays, Moves
<1>4. d \in calls => attempt'[d.id[1]].pc # "none" /\ \A e \in d.bad : e[2] \in d.rows
  BY <1>1, BegunStays DEF Sound
<1>5. \/ d \in calls
      \/ \E c \in calls : Serve(c) \/ CallLost(c)
      \/ \E a \in Attempts : SendBatchToWS(a)
  BY DEF Next, vars, OpenPopup, Select, ClearSelection, FillSelection, RefreshImport,
         NewForm, RefreshFails, BindFileInput, SelectColumn, ReloadPage, StartFileUpload,
         StartFrom, Import, CountLines, Counted, SuccessAndStart, CheckFileStatusFails,
         ReadFails, Reply, LogCheckedErrors, Count, LogSOAPErrors, ReplyToNobody, WriteErrorFile
<1> QED BY <1>2, <1>3, <1>4, <1>5

LEMMA SoundForm ==
  ASSUME TypeOK, Sound, [Next]_vars
  PROVE  /\ refresh' = "filled" => selected' = choice'
         /\ refresh' = "idle" => selected' = pageLists'
         /\ link' => written' # <<>>
<1>1. ASSUME NEW c \in calls, Serve(c) \/ CallLost(c)
      PROVE  UNCHANGED <<refresh, selected, choice, pageLists, link, written>>
  BY <1>1, CallSteps DEF CallStep, form, panel
<1>2. CASE WriteErrorFile
  <2>1. written' = Append(written, Head(passes)) /\ written \in Seq(SUBSET ErrorLine)
    BY <1>2 DEF WriteErrorFile, TypeOK
  <2>2. written' # <<>>
    BY <2>1
  <2> QED BY <1>2, <2>2 DEF WriteErrorFile, Sound, server, form
<1>3. CASE \E c \in calls : Reply(c)
  BY <1>3 DEF Sound, Reply, LogCheckedErrors, Count, GenerateErrorFile, GenerateIf,
              LogSOAPErrors, ReplyToNobody, server, form, panel
<1>4. CASE \E a \in Attempts :
              StartFileUpload(a) \/ Import(a) \/ CheckFileStatusFails(a) \/ ReadFails(a)
  BY <1>4 DEF Sound, StartFileUpload, StartFrom, Import, CountLines, Counted, SuccessAndStart,
              SendBatchToWS, CheckFileStatusFails, ReadFails, server, form, panel
<1>5. CASE \/ \E S \in SUBSET Lists : OpenPopup(S)
           \/ Select \/ RefreshFails \/ BindFileInput
           \/ \E l \in Lists : SelectColumn(l)
           \/ ReloadPage
  BY <1>5 DEF Sound, OpenPopup, Select, ClearSelection, FillSelection, RefreshImport, NewForm,
              RefreshFails, BindFileInput, SelectColumn, ReloadPage, server, panel
<1> QED BY <1>1, <1>2, <1>3, <1>4, <1>5 DEF Next, vars, Sound, server, form, panel

LEMMA SoundStep ==
  ASSUME TypeOK, Sound, [Next]_vars
  PROVE  Sound'
<1>1. \A b \in Attempts : attempt'[b].pc = "reading" => ReadsOn(attempt'[b].next)
  BY ReadsOnNext
<1>2. \A d \in calls' : attempt'[d.id[1]].pc # "none" /\ \A e \in d.bad : e[2] \in d.rows
  BY SoundCalls
<1> QED BY <1>1, <1>2, SoundForm DEF Sound, ReadsOn

LEMMA TypesStep ==
  ASSUME TypeOK, Sound, [Next]_vars
  PROVE  TypeOK'
<1>1. ASSUME NEW c \in calls, Serve(c) \/ CallLost(c)
      PROVE  TypeOK'
  BY <1>1, CallSteps, CallTypes
<1>2. CASE UNCHANGED vars
  BY <1>2 DEF vars, TypeOK, server, form, panel, history
<1> QED BY <1>1, <1>2, FormTypes, AttemptTypes, ReplyTypes DEF Next

\* Every variable keeps its type, and an import reads on at the beginning of a chunk
\* (readSomeLines).
THEOREM ImportTypes == Spec => [](TypeOK /\ Sound)
<1>1. Init => TypeOK /\ Sound
  BY TypesInit, SoundInit
<1>2. TypeOK /\ Sound /\ [Next]_vars => TypeOK' /\ Sound'
  BY SoundStep, TypesStep
<1> QED BY <1>1, <1>2, PTL DEF Spec
------------------------------------------------------------------------------
(* The cover of the form.                                                    *)

Uncovered == ~blocked /\ ~FormAwaited /\ Covering = {}
CoveredForForm == blocked /\ FormAwaited /\ Covering = {}
CoveredBy(a) == blocked /\ ~FormAwaited /\ Covering = {a}

LEMMA OneCoverCases ==
  OneCover <=> (~toggled => Uncovered \/ CoveredForForm \/ \E a \in Attempts : CoveredBy(a))
BY DEF OneCover, Uncovered, CoveredForForm, CoveredBy

LEMMA OneCoverInit ==
  ASSUME Init
  PROVE  OneCover
<1>1. Covering = {}
  BY DEF Init, Covering, At
<1> QED BY <1>1 DEF Init, OneCover, FormAwaited

\* Most steps neither toggle the cover nor move an attempt that wants it.
LEMMA OneCoverKept ==
  ASSUME OneCover, blocked' = blocked, toggled' = toggled, Covering' = Covering,
         FormAwaited' = FormAwaited
  PROVE  OneCover'
BY DEF OneCover

LEMMA OneCoverForms ==
  ASSUME TypeOK, OneCover,
         \/ \E S \in SUBSET Lists : OpenPopup(S)
         \/ Select \/ RefreshFails \/ BindFileInput
         \/ \E l \in Lists : SelectColumn(l)
         \/ ReloadPage
  PROVE  OneCover'
<1>1. CASE ~ReloadPage
  <2>1. Covering' = Covering
    BY <1>1 DEF Covering, At, OpenPopup, Select, ClearSelection, FillSelection, RefreshImport,
                NewForm, RefreshFails, BindFileInput, SelectColumn
  <2>2. ASSUME NEW S \in SUBSET Lists, OpenPopup(S)
        PROVE  OneCover'
    BY <2>1, <2>2 DEF OpenPopup, OneCover, FormAwaited, Pending, TypeOK
  <2>3. CASE ClearSelection \/ FillSelection \/ RefreshFails
    BY <2>1, <2>3, OneCoverKept DEF ClearSelection, FillSelection, RefreshFails, FormAwaited,
                                    history
  <2>4. CASE RefreshImport
    BY <2>1, <2>4 DEF RefreshImport, NewForm, OneCover, FormAwaited, history
  <2>5. CASE BindFileInput \/ \E l \in Lists : SelectColumn(l)
    BY <2>1, <2>5, OneCoverKept DEF BindFileInput, SelectColumn, FormAwaited, history
  <2> QED BY <1>1, <2>2, <2>3, <2>4, <2>5 DEF Select
<1>2. CASE ReloadPage
  <2>1. Covering' = {}
    BY <1>2 DEF ReloadPage, Covering, At, TypeOK
  <2> QED BY <1>2, <2>1 DEF ReloadPage, OneCover, FormAwaited
<1> QED BY <1>1, <1>2

LEMMA OneCoverAttempts ==
  ASSUME TypeOK, OneCover, NEW a \in Attempts,
         \/ StartFileUpload(a) \/ Import(a) \/ CheckFileStatusFails(a) \/ ReadFails(a)
  PROVE  OneCover'
<1> DEFINE busy == {"counting", "asking", "hung"}
<1>1. \A p : MovesTo(a, p) => Covering' = IF p \in busy THEN Covering \cup {a} ELSE Covering \ {a}
  BY DEF MovesTo, Covering, At
<1>2. attempt[a].pc \in busy <=> a \in Covering
  BY DEF Covering, At
<1>3. CASE StartFileUpload(a)
  BY <1>1, <1>3, Moves DEF StartFileUpload, StartFrom, OneCover, FormAwaited, Usable, form
<1>4. CASE CountLines(a)
  <2>1. Covering' = Covering
    BY <1>1, <1>2, <1>4, Moves
  <2> QED BY <1>4, <2>1, OneCoverKept DEF CountLines, Counted, FormAwaited, form, history
<1> DEFINE uncovers == SuccessAndStart(a) \/ CheckFileStatusFails(a)
<1>5. ASSUME uncovers, ~toggled
      PROVE  blocked /\ ~FormAwaited /\ Covering' = {}
  <2>1. a \in Covering /\ Covering' = Covering \ {a}
    BY <1>1, <1>2, <1>5, Moves
  <2>2. PICK b \in Attempts : blocked /\ ~FormAwaited /\ Covering = {b}
    BY <1>5, <2>1 DEF OneCover
  <2> QED BY <2>1, <2>2
<1>6. CASE SuccessAndStart(a)
  BY <1>6, <1>5 DEF SuccessAndStart, OneCover, FormAwaited, form, history
<1>7. CASE SendBatchToWS(a)
  <2>1. Covering' = Covering
    BY <1>1, <1>2, <1>7, Moves
  <2> QED BY <1>7, <2>1, OneCoverKept DEF SendBatchToWS, FormAwaited, form, history
<1>8. CASE CheckFileStatusFails(a)
  BY <1>8, <1>5 DEF CheckFileStatusFails, OneCover, FormAwaited, form
<1>9. CASE ReadFails(a)
  <2>1. Covering' = Covering
    BY <1>1, <1>2, <1>9, Moves
  <2> QED BY <1>9, <2>1, OneCoverKept DEF ReadFails, FormAwaited, form
<1> QED BY <1>3, <1>4, <1>6, <1>7, <1>8, <1>9 DEF Import

LEMMA OneCoverStep ==
  ASSUME TypeOK, OneCover, [Next]_vars
  PROVE  OneCover'
<1>1. CASE UNCHANGED <<blocked, toggled, attempt, refresh>>
  BY <1>1, OneCoverKept DEF Covering, At, FormAwaited
<1>2. ASSUME NEW c \in calls, Serve(c) \/ CallLost(c)
      PROVE  UNCHANGED <<blocked, toggled, attempt, refresh>>
  BY <1>2, CallSteps DEF CallStep, form
<1>3. CASE (\E c \in calls : Reply(c)) \/ WriteErrorFile \/ UNCHANGED vars
  BY <1>1, <1>3 DEF Reply, LogCheckedErrors, Count, LogSOAPErrors, ReplyToNobody,
                    WriteErrorFile, vars, form, history
<1> QED BY <1>1, <1>2, <1>3, OneCoverForms, OneCoverAttempts DEF Next

LEMMA OneCoverIsOverlay ==
  ASSUME OneCover
  PROVE  OverlayIsBusy
BY DEF OneCover, OverlayIsBusy, FormAwaited, Covering

\* The form is covered exactly while the file is checked or a form is awaited, unless
\* the popup is opened again while it is covered (block_refresh toggles).
THEOREM ImportOverlay == Spec => []OverlayIsBusy
<1>1. Init => OneCover
  BY OneCoverInit
<1>2. TypeOK /\ OneCover /\ [Next]_vars => OneCover'
  BY OneCoverStep
<1> QED BY <1>1, <1>2, ImportTypes, OneCoverIsOverlay, PTL DEF Spec
------------------------------------------------------------------------------
(* An import that nothing disturbs.                                          *)

Undisturbed == OneImport /\ RowsOnce /\ CallsHandle /\ CountedAreSettled /\ FilesWritten

LEMMA CallsHandled == CallsHandle <=> \A c \in calls : Mine(c) => Handles(c)
BY DEF CallsHandle, Handles

\* Rows under way and unread are rows of the file.
LEMMA RowsWithin ==
  ASSUME TypeOK
  PROVE  /\ \A c \in calls : c.rows \subseteq Rows
         /\ RowsInFlight \subseteq Rows /\ RowsUnread \subseteq Rows
         /\ RowsSettled \subseteq Rows \ (RowsInFlight \cup RowsUnread)
         /\ \A c \in calls : Mine(c) => c.rows \subseteq RowsInFlight
BY DEF TypeOK, Call, RowsInFlight, RowsUnread, RowsSettled

\* What is settled stays so.
LEMMA SettledGrows ==
  ASSUME RowsInFlight' \cup RowsUnread' \subseteq RowsInFlight \cup RowsUnread,
         stored \subseteq stored', errorLines \subseteq errorLines', pageLists' = pageLists
  PROVE  RowsSettled \subseteq RowsSettled'
BY DEF RowsSettled, Handled

LEMMA CountKept ==
  ASSUME TypeOK, TypeOK', CountedAreSettled,
         RowsInFlight' \cup RowsUnread' \subseteq RowsInFlight \cup RowsUnread,
         stored \subseteq stored', errorLines \subseteq errorLines',
         pageLists' = pageLists, processed' = processed,
         "cancel" \in shown' => "cancel" \in shown
  PROVE  CountedAreSettled'
<1>1. RowsSettled \subseteq RowsSettled'
  BY SettledGrows
<1>2. RowsSettled' \in SUBSET Rows
  BY RowsWithin DEF RowsSettled
<1>3. Cardinality(RowsSettled) \in Nat /\ Cardinality(RowsSettled') \in Nat
      /\ Cardinality(RowsSettled) <= Cardinality(RowsSettled')
  BY <1>1, <1>2, RowSets
<1> QED BY <1>3 DEF CountedAreSettled, TypeOK

\* The page is loaded again: it has no import.
LEMMA UndisturbedReload ==
  ASSUME TypeOK, Sound, ReloadPage, TypeOK'
  PROVE  Undisturbed'
<1>1. \A b \in Attempts : attempt'[b].pc \in {"none", "gone"}
  BY DEF ReloadPage, TypeOK
<1>2. ASSUME NEW c \in calls'
      PROVE  ~ Mine(c)'
  <2>1. c \in calls /\ c.id[1] \in Attempts /\ attempt[c.id[1]].pc # "none"
    BY DEF ReloadPage, Sound, TypeOK, Call, CallId
  <2> QED BY <2>1 DEF ReloadPage, Mine
<1>3. At({"counting", "asking", "reading"})' = {} /\ At({"counting", "asking"})' = {}
      /\ At({"reading"})' = {}
  BY <1>1 DEF At
<1>4. ~Running'
  BY <1>2, <1>3 DEF Running, ReloadPage
<1>5. OneImport'
  BY <1>3, <1>4 DEF OneImport, ReloadPage
<1>6. EmptyCalls' = {} /\ AtEnd' = {}
  BY <1>2, <1>3 DEF EmptyCalls, AtEnd
<1>7. CountedAreSettled'
  BY Constants DEF CountedAreSettled, ReloadPage
<1>8. FilesWritten'
  <2>1. Len(<<>>) = 0 /\ EmptyChunk \in {0, 1} /\ DOMAIN <<>> = {}
    BY DEF EmptyChunk
  <2>2. passes' = <<>> /\ written' = <<>>
    BY DEF ReloadPage
  <2>3. EmptyChunk' = EmptyChunk
    BY DEF EmptyChunk
  <2> QED BY <1>6, <2>1, <2>2, <2>3 DEF FilesWritten
<1> QED BY <1>2, <1>5, <1>7, <1>8 DEF Undisturbed, RowsOnce, CallsHandle

\* An import begins when none runs.
LEMMA UndisturbedStart ==
  ASSUME TypeOK, Sound, NEW a \in Attempts, StartFileUpload(a), disturbed' = {}, TypeOK'
  PROVE  Undisturbed'
<1>1. ~Running /\ refresh = "idle"
  BY DEF StartFileUpload, StartFrom
<1>2. MovesTo(a, "counting") /\ attempt[a].pc = "none"
  BY Moves
<1>3. ASSUME NEW c \in calls'
      PROVE  ~ Mine(c)'
  <2>1. c \in calls /\ c.id[1] \in Attempts /\ attempt[c.id[1]].pc # "none"
    BY DEF StartFileUpload, StartFrom, Sound, TypeOK, Call, CallId
  <2>2. ~ Mine(c)
    BY <1>1, <2>1 DEF Running
  <2> QED BY <1>2, <2>1, <2>2 DEF Mine, MovesTo
<1>4. /\ At({"counting", "asking", "reading"}) = {} /\ passes = <<>>
      /\ \A b \in Attempts \ {a} : attempt'[b] = attempt[b]
      /\ attempt'[a].pc = "counting"
  BY <1>1, <1>2 DEF Running, MovesTo
<1>5. At({"counting", "asking", "reading"})' = {a} /\ At({"reading"})' = {}
  BY <1>4 DEF At
<1>6. /\ processed' = 0 /\ errorLines' = {} /\ passes' = <<>> /\ written' = <<>>
      /\ "cancel" \in shown' /\ refresh' = "idle"
  BY <1>1, <1>4 DEF StartFileUpload, StartFrom, form
<1>7. OneImport'
  BY <1>3, <1>5, <1>6 DEF OneImport
<1>8. EmptyCalls' = {} /\ AtEnd' = {}
  BY <1>3, <1>5 DEF EmptyCalls, AtEnd
<1>9. CountedAreSettled'
  <2>1. RowsSettled' \in SUBSET Rows
    BY DEF RowsSettled
  <2>2. Cardinality(RowsSettled') >= 0
    BY <2>1, RowSets
  <2> QED BY <1>6, <2>2, Constants DEF CountedAreSettled
<1>10. FilesWritten'
  <2>1. Len(<<>>) = 0 /\ EmptyChunk \in {0, 1} /\ DOMAIN <<>> = {}
    BY DEF EmptyChunk
  <2>2. EmptyChunk' = EmptyChunk
    BY DEF EmptyChunk
  <2> QED BY <1>6, <1>8, <2>1, <2>2 DEF FilesWritten
<1> QED BY <1>3, <1>7, <1>9, <1>10 DEF Undisturbed, RowsOnce, CallsHandle

\* What the steps of the form do to an import that nothing disturbs: the form of a
\* running one stays, and another one has no results to show.
FormStep ==
    /\ UNCHANGED <<attempt, calls, stored, total, processed, errorLines, passes, written>>
    /\ "cancel" \in shown' => "cancel" \in shown /\ pageLists' = pageLists
    /\ "done" \in shown' => "cancel" \in shown'
    /\ Running => refresh' = "idle" /\ "cancel" \in shown' /\ pageLists' = pageLists

LEMMA FormSteps ==
  ASSUME TypeOK, Undisturbed, disturbed' = {},
         \/ \E S \in SUBSET Lists : OpenPopup(S)
         \/ Select \/ RefreshFails \/ BindFileInput
         \/ \E l \in Lists : SelectColumn(l)
         \/ UNCHANGED vars
  PROVE  FormStep
<1>1. /\ Running => "cancel" \in shown /\ refresh = "idle"
      /\ "done" \in shown => "cancel" \in shown
  BY DEF Undisturbed, OneImport
<1>2. ASSUME NEW S \in SUBSET Lists, OpenPopup(S)
      PROVE  FormStep
  <2>1. ~Running
    BY <1>2 DEF OpenPopup, Disturbs
  <2> QED BY <1>1, <1>2, <2>1 DEF OpenPopup, FormStep, server, panel
<1>3. CASE Select \/ RefreshFails
  BY <1>1, <1>3 DEF Select, ClearSelection, FillSelection, RefreshImport, NewForm, RefreshFails,
                    FormStep, server, panel
<1>4. CASE BindFileInput
  BY <1>1, <1>4 DEF BindFileInput, FormStep, server, panel
<1>5. CASE \E l \in Lists : SelectColumn(l)
  BY <1>1, <1>5 DEF SelectColumn, FormStep, server, panel
<1>6. CASE UNCHANGED vars
  BY <1>1, <1>6 DEF FormStep, vars, server, form, panel
<1> QED BY <1>2, <1>3, <1>4, <1>5, <1>6

LEMMA UndisturbedForm ==
  ASSUME TypeOK, Undisturbed, FormStep, TypeOK'
  PROVE  Undisturbed'
<1>1. /\ \A c : Mine(c)' <=> Mine(c)
      /\ \A pcs : At(pcs)' = At(pcs)
      /\ calls' = calls /\ passes' = passes
  BY DEF FormStep, Mine, At
<1>2. Running' <=> Running
  BY DEF Running, FormStep, Mine, At
<1>3. At({"counting", "asking", "reading"})' = At({"counting", "asking", "reading"})
      /\ At({"counting", "asking"})' = At({"counting", "asking"})
      /\ At({"reading"})' = At({"reading"})
  BY DEF FormStep, At
<1>4. OneImport'
  BY <1>1, <1>2, <1>3 DEF Undisturbed, OneImport, FormStep
<1>5. RowsUnread' = RowsUnread /\ RowsInFlight' = RowsInFlight
  BY DEF FormStep, RowsUnread, RowsInFlight, Mine
<1>6. RowsOnce'
  BY <1>1, <1>5 DEF Undisturbed, RowsOnce
<1>7. CallsHandle'
  <2> SUFFICES ASSUME NEW c \in calls', Mine(c)'
               PROVE  Handles(c)'
    BY CallsHandled DEF CallsHandle, Handles
  <2>1. c \in calls /\ Mine(c) /\ Handles(c)
    BY <1>1, CallsHandled DEF Undisturbed
  <2>2. pageLists' = pageLists
    BY <2>1 DEF FormStep, Running
  <2> QED BY <2>1, <2>2 DEF Handles, Handled, FormStep
<1>8. CountedAreSettled'
  <2>1. CASE pageLists' = pageLists
    BY <1>5, <2>1, CountKept DEF FormStep, Undisturbed
  <2>2. CASE "cancel" \notin shown'
    BY <2>2 DEF CountedAreSettled, FormStep, Undisturbed
  <2> QED BY <2>1, <2>2 DEF FormStep
<1>9. EmptyCalls' = EmptyCalls /\ AtEnd' = AtEnd
  BY <1>1, <1>3 DEF EmptyCalls, AtEnd, FormStep
<1>10. FilesWritten'
  BY <1>1, <1>3, <1>9 DEF FilesWritten, EmptyChunk, FormStep, Undisturbed
<1> QED BY <1>4, <1>6, <1>7, <1>8, <1>10 DEF Undisturbed

\* A call goes on at the server, for the lists of the form.
LEMMA UndisturbedCall ==
  ASSUME TypeOK, Sound, Undisturbed, NEW c \in calls, NEW d, CallStep(c, d),
         selected = pageLists /\ Handles(c) => Handles(d)',
         TypeOK'
  PROVE  Undisturbed'
<1>1. /\ calls' = (calls \ {c}) \cup {d} /\ d.id = c.id /\ d.rows = c.rows
      /\ UNCHANGED <<attempt, refresh, pageLists, shown, total, processed, errorLines, passes,
                     written>>
      /\ stored \subseteq stored'
  BY DEF CallStep, form, panel
<1>2. \A x : Mine(x)' <=> Mine(x)
  BY <1>1 DEF Mine
<1>3. Mine(d) <=> Mine(c)
  BY <1>1 DEF Mine
<1>4. At({"counting", "asking", "reading"})' = At({"counting", "asking", "reading"})
      /\ At({"counting", "asking"})' = At({"counting", "asking"})
      /\ At({"reading"})' = At({"reading"})
  BY <1>1 DEF At
<1>5. (\E x \in calls' : Mine(x)') <=> \E x \in calls : Mine(x)
  BY <1>1, <1>2, <1>3
<1>6. Running' <=> Running
  BY <1>1, <1>4, <1>5 DEF Running
<1>7. OneImport'
  BY <1>1, <1>4, <1>5, <1>6 DEF Undisturbed, OneImport
<1>8. RowsUnread' = RowsUnread
  BY <1>1 DEF RowsUnread
<1>9. RowsInFlight' = RowsInFlight
  BY <1>1, <1>2, <1>3 DEF RowsInFlight
<1>10. RowsOnce'
  BY <1>1, <1>2, <1>3, <1>8 DEF Undisturbed, RowsOnce
<1>11. CallsHandle'
  <2> SUFFICES ASSUME NEW x \in calls', Mine(x)'
               PROVE  Handles(x)'
    BY CallsHandled DEF CallsHandle, Handles
  <2>1. CASE x = d
    <3>1. Mine(c) /\ Handles(c)
      BY <1>2, <1>3, <2>1, CallsHandled DEF Undisturbed
    <3>2. selected = pageLists
      BY <3>1 DEF Undisturbed, OneImport, Running, Sound
    <3> QED BY <2>1, <3>1, <3>2
  <2>2. CASE x \in calls
    <3>1. Handles(x)
      BY <1>2, <2>2, CallsHandled DEF Undisturbed
    <3> QED BY <1>1, <3>1 DEF Handles, Handled
  <2> QED BY <1>1, <2>1, <2>2
<1>12. CountedAreSettled'
  BY <1>1, <1>8, <1>9, CountKept DEF Undisturbed
<1>13. FilesWritten'
  <2>1. \A x \in EmptyCalls' : \/ x = d /\ c \in EmptyCalls
                               \/ x \in EmptyCalls /\ x # c
    BY <1>1, <1>2, <1>3 DEF EmptyCalls
  <2>2. \A x \in EmptyCalls : x # c => x \in EmptyCalls'
    BY <1>1, <1>2 DEF EmptyCalls
  <2>3. c \in EmptyCalls => d \in EmptyCalls'
    BY <1>1, <1>2, <1>3 DEF EmptyCalls
  <2>4. EmptyCalls' # {} <=> EmptyCalls # {}
    BY <2>1, <2>2, <2>3
  <2>5. \A x, y \in EmptyCalls' : x = y
    BY <2>1 DEF Undisturbed, FilesWritten
  <2>6. AtEnd' = AtEnd
    BY <1>1, <1>4 DEF AtEnd
  <2> QED BY <1>1, <1>4, <2>4, <2>5, <2>6 DEF FilesWritten, EmptyChunk, Undisturbed
<1> QED BY <1>7, <1>10, <1>11, <1>12, <1>13 DEF Undisturbed

\* The steps of an attempt leave its page where it is.
LEMMA MineKept ==
  ASSUME TypeOK, NEW a \in Attempts, NEW p \in Pcs \ {"gone"}, MovesTo(a, p),
         attempt[a].pc # "gone", NEW c \in Call
  PROVE  Mine(c)' <=> Mine(c)
<1>1. c.id[1] \in Attempts
  BY DEF Call, CallId
<1> QED BY <1>1 DEF Mine, MovesTo

\* The import that is busy is the only one.
LEMMA BusyOne ==
  ASSUME OneImport, NEW a \in Attempts, attempt[a].pc \in {"counting", "asking", "reading"}
  PROVE  /\ At({"counting", "asking", "reading"}) = {a}
         /\ Running /\ "cancel" \in shown /\ refresh = "idle"
         /\ \A b \in Attempts \ {a} : attempt[b].pc \notin {"counting", "asking", "reading"}
         /\ attempt[a].pc # "reading" =>
               /\ \A c \in calls : ~Mine(c)
               /\ processed = 0 /\ errorLines = {} /\ passes = <<>> /\ written = <<>>
<1>1. a \in At({"counting", "asking", "reading"})
  BY DEF At
<1>2. At({"counting", "asking", "reading"}) = {a}
  BY <1>1 DEF OneImport
<1>3. \A b \in Attempts \ {a} : attempt[b].pc \notin {"counting", "asking", "reading"}
  BY <1>2 DEF At
<1>4. attempt[a].pc # "reading" => a \in At({"counting", "asking"})
  BY DEF At
<1>5. Running
  BY <1>1 DEF Running
<1> QED BY <1>2, <1>3, <1>4, <1>5 DEF OneImport

\* Before it reads, and when it has failed, an attempt has no rows unread.
LEMMA UndisturbedChecks ==
  ASSUME TypeOK, Undisturbed, NEW a \in Attempts,
         \/ CountLines(a) \/ CheckFileStatusFails(a) \/ ReadFails(a),
         TypeOK'
  PROVE  Undisturbed'
<1>1. PICK p \in {"asking", "ended", "hung"} :
         /\ MovesTo(a, p) /\ attempt[a].pc \in {"counting", "asking", "reading"}
         /\ p = "asking" => attempt[a].pc = "counting"
         /\ total' # total => p = "asking"
  <2>1. CASE CountLines(a)
    BY <2>1, Moves
  <2>2. CASE CheckFileStatusFails(a)
    BY <2>2, Moves DEF CheckFileStatusFails, panel
  <2>3. CASE ReadFails(a)
    BY <2>3, Moves DEF ReadFails, panel
  <2> QED BY <2>1, <2>2, <2>3
<1>2. /\ UNCHANGED <<calls, stored, processed, errorLines, passes, written, shown, refresh,
                     pageLists>>
  BY DEF CountLines, Counted, CheckFileStatusFails, ReadFails, server, form, panel, history
<1>3. \A c \in calls : Mine(c)' <=> Mine(c)
  BY <1>1, MineKept DEF TypeOK, Pcs
<1>4. /\ At({"counting", "asking", "reading"}) = {a}
      /\ Running /\ "cancel" \in shown /\ refresh = "idle"
      /\ \A b \in Attempts \ {a} : attempt[b].pc \notin {"counting", "asking", "reading"}
      /\ attempt[a].pc # "reading" =>
            /\ \A c \in calls : ~Mine(c)
            /\ processed = 0 /\ errorLines = {} /\ passes = <<>> /\ written = <<>>
  BY <1>1, BusyOne DEF Undisturbed
<1>5. /\ \A b \in Attempts : attempt'[b].pc \in {"counting", "asking", "reading"}
                                 => b = a /\ p = "asking"
      /\ attempt'[a].pc = p
  BY <1>1, <1>4 DEF MovesTo
<1>6. At({"reading"})' = {}
  BY <1>5 DEF At
<1>7. OneImport'
  <2>1. \A b, d \in At({"counting", "asking", "reading"})' : b = d
    BY <1>5 DEF At
  <2>2. At({"counting", "asking"})' # {} => p = "asking"
    BY <1>5 DEF At
  <2> QED BY <1>1, <1>2, <1>3, <1>4, <2>1, <2>2 DEF OneImport
<1>8. RowsUnread' = {} /\ RowsInFlight' = RowsInFlight
  BY <1>2, <1>3, <1>6 DEF RowsUnread, RowsInFlight, At
<1>9. RowsOnce'
  BY <1>2, <1>3, <1>8 DEF Undisturbed, RowsOnce
<1>10. CallsHandle'
  BY <1>2, <1>3 DEF Undisturbed, CallsHandle, Handled
<1>11. CountedAreSettled'
  BY <1>2, <1>8, CountKept DEF Undisturbed
<1>12. FilesWritten'
  <2>1. EmptyCalls' = EmptyCalls /\ AtEnd' = {}
    BY <1>2, <1>3, <1>6 DEF EmptyCalls, AtEnd
  <2>2. EmptyChunk \in {0, 1} /\ EmptyChunk' = EmptyChunk /\ Len(<<>>) = 0 /\ DOMAIN <<>> = {}
    BY DEF EmptyChunk
  <2>3. CASE p = "asking"
    BY <1>1, <1>2, <1>4, <2>1, <2>2, <2>3 DEF FilesWritten, EmptyCalls
  <2>4. CASE p # "asking"
    <3>1. total' = total
      BY <1>1, <2>4
    <3>2. Len(passes) + Len(written) <= IF EmptyCalls # {} THEN 1 ELSE 1 + EmptyChunk
      BY <2>2 DEF Undisturbed, FilesWritten
    <3> QED BY <1>2, <1>6, <2>1, <2>2, <3>1, <3>2 DEF Undisturbed, FilesWritten
  <2> QED BY <2>3, <2>4
<1> QED BY <1>7, <1>9, <1>10, <1>11, <1>12 DEF Undisturbed

\* checkFileStatus answers: all rows are unread, nothing is counted yet.
LEMMA UndisturbedSuccess ==
  ASSUME TypeOK, Undisturbed, NEW a \in Attempts, SuccessAndStart(a), TypeOK'
  PROVE  Undisturbed'
<1>1. MovesTo(a, "reading") /\ attempt[a].pc = "asking" /\ attempt'[a].next = 1
  BY Moves
<1>2. UNCHANGED <<calls, stored, total, processed, errorLines, passes, written, shown, refresh,
                  pageLists>>
  BY DEF SuccessAndStart, server, form, panel
<1>3. \A c \in calls : Mine(c)' <=> Mine(c)
  BY <1>1, MineKept DEF TypeOK, Pcs
<1>4. /\ "cancel" \in shown /\ refresh = "idle"
      /\ \A b \in Attempts \ {a} : attempt[b].pc \notin {"counting", "asking", "reading"}
      /\ \A c \in calls : ~Mine(c)
      /\ processed = 0 /\ errorLines = {} /\ passes = <<>> /\ written = <<>>
  BY <1>1, BusyOne DEF Undisturbed
<1>5. \A c \in calls' : ~Mine(c)'
  BY <1>2, <1>3, <1>4
<1>6. \A b \in Attempts : attempt'[b].pc \in {"counting", "asking", "reading"}
                             => b = a /\ attempt'[b].pc = "reading"
  BY <1>1, <1>4 DEF MovesTo
<1>7. OneImport'
  <2>1. \A b, d \in At({"counting", "asking", "reading"})' : b = d
    BY <1>6 DEF At
  <2>2. At({"counting", "asking"})' = {}
    BY <1>6 DEF At
  <2> QED BY <1>2, <1>4, <2>1, <2>2 DEF OneImport
<1>8. CountedAreSettled'
  <2>1. RowsSettled' \in SUBSET Rows
    BY DEF RowsSettled
  <2>2. Cardinality(RowsSettled') >= 0
    BY <2>1, RowSets
  <2> QED BY <1>2, <1>4, <2>2, Constants DEF CountedAreSettled
<1>9. FilesWritten'
  <2>1. EmptyCalls' = {}
    BY <1>5 DEF EmptyCalls
  <2>2. AtEnd' = {}
    BY <1>1, <1>6, Constants DEF AtEnd, At
  <2>3. EmptyChunk \in {0, 1} /\ Len(<<>>) = 0 /\ DOMAIN <<>> = {} /\ EmptyChunk' = EmptyChunk
    BY DEF EmptyChunk
  <2> QED BY <1>2, <1>4, <2>1, <2>2, <2>3 DEF FilesWritten
<1> QED BY <1>5, <1>7, <1>8, <1>9 DEF Undisturbed, RowsOnce, CallsHandle

\* As long as a row is not settled, the import is not complete and writes no file.
LEMMA IncompleteWritesNothing ==
  ASSUME TypeOK, Undisturbed, "cancel" \in shown, NEW r \in RowsInFlight \cup RowsUnread
  PROVE  ~Complete(total, processed) /\ passes = <<>> /\ written = <<>>
<1>1. RowsSettled \in SUBSET Rows /\ RowsSettled # Rows
  BY RowsWithin
<1>2. Cardinality(RowsSettled) \in Nat /\ Cardinality(RowsSettled) < NumRows
  BY <1>1, RowSets, Constants
<1>3. processed < NumRows /\ total \in {0, NumRows}
  BY <1>2, Constants DEF Undisturbed, CountedAreSettled, TypeOK
<1>4. ~Complete(total, processed)
  BY <1>3, Constants DEF Complete, TypeOK
<1> QED BY <1>4 DEF Undisturbed, FilesWritten

\* sendBatchToWS: the rows of the chunk are no longer unread but under way.
LEMMA UndisturbedSend ==
  ASSUME TypeOK, Sound, Undisturbed, NEW a \in Attempts, SendBatchToWS(a), TypeOK'
  PROVE  Undisturbed'
<1> DEFINE i == attempt[a].next
           chunk == ReadSomeLines(i)
           p == IF chunk.eof THEN "ended" ELSE "reading"
<1>1. /\ attempt[a].pc = "reading" /\ MovesTo(a, p)
      /\ ~chunk.eof => attempt'[a].next = i + Cardinality(chunk.lines)
  BY Moves
<1>2. ReadsOn(i) /\ i \in Nat
  BY <1>1 DEF Sound, TypeOK
<1>3. /\ chunk.lines \subseteq {r \in Rows : r >= i}
      /\ chunk.eof => chunk.lines = {r \in Rows : r >= i}
      /\ ~chunk.eof =>
            /\ i <= NumRows /\ i + Cardinality(chunk.lines) \in Nat
            /\ \A r \in Rows : r >= i => r \in chunk.lines
                                        \/ r >= i + Cardinality(chunk.lines)
            /\ \A r \in chunk.lines : r < i + Cardinality(chunk.lines)
      /\ chunk.lines = {} => i > NumRows
      /\ i > NumRows => chunk.eof /\ EmptyChunk = 1 /\ chunk.lines = {}
  BY <1>2, Chunks
<1>4. PICK c : /\ calls' = calls \cup {c} /\ c.id[1] = a
               /\ c.rows = chunk.lines /\ c.pc = "sent"
  <2> DEFINE d(cut) == [id |-> <<a, i>>, rows |-> chunk.lines, keys |-> mapped, cut |-> cut,
                        pc |-> "sent", fields |-> {}, todo |-> {}, bad |-> {}]
  <2>1. PICK cut : calls' = calls \cup {d(cut)}
    BY DEF SendBatchToWS
  <2>2. d(cut).id[1] = a /\ d(cut).rows = chunk.lines /\ d(cut).pc = "sent"
    OBVIOUS
  <2> HIDE DEF d, chunk
  <2> QED BY <2>1, <2>2
<1>5. p \in {"ended", "reading"}
  OBVIOUS
<1>6. UNCHANGED <<stored, total, processed, errorLines, passes, written, shown, refresh,
                  pageLists>>
  BY DEF SendBatchToWS, server, form, panel
<1> DEFINE next == attempt'[a].next
           lines == chunk.lines
           eof == chunk.eof
<1>7. /\ lines \subseteq Rows
      /\ \A r \in lines : r >= i
      /\ eof => \A r \in Rows : r >= i => r \in lines
      /\ ~eof => /\ i <= NumRows /\ next \in Nat /\ p = "reading" /\ \A r \in lines : ~ (r >= next)
                 /\ \A r \in Rows : r >= i => r \in lines \/ r >= next
      /\ eof => p = "ended"
      /\ lines = {} => i > NumRows
      /\ i > NumRows => eof /\ EmptyChunk = 1 /\ lines = {}
  <2>1. \A r \in Rows : r \in Nat
    BY Constants
  <2> QED BY <1>1, <1>3, <2>1
<1>8. i \in Nat /\ i = attempt[a].next /\ NumRows \in Nat
  BY <1>2, Constants
<1> HIDE DEF chunk, i, p, next, lines, eof
<1>9. \A x \in Call : Mine(x)' <=> Mine(x)
  <2>1. p \in Pcs \ {"gone"} /\ attempt[a].pc # "gone"
    BY <1>1, <1>5 DEF Pcs
  <2> QED BY <1>1, <2>1, MineKept
<1>10. c.rows = lines /\ c.id[1] = a /\ c.pc = "sent" /\ Mine(c)'
  BY <1>1, <1>4, <1>5 DEF Mine, MovesTo, lines
<1>11. /\ \A b \in Attempts \ {a} : attempt[b].pc \notin {"counting", "asking", "reading"}
       /\ Running /\ "cancel" \in shown /\ refresh = "idle"
  BY <1>1, BusyOne DEF Undisturbed
<1>12. /\ \A b \in Attempts : attempt'[b].pc \in {"counting", "asking", "reading"}
                                  => b = a /\ p = "reading"
       /\ attempt'[a].pc = p
  BY <1>1, <1>5, <1>11 DEF MovesTo
<1>13. OneImport'
  <2>1. \A b, d \in At({"counting", "asking", "reading"})' : b = d
    BY <1>12 DEF At
  <2>2. At({"counting", "asking"})' = {}
    BY <1>12 DEF At
  <2> QED BY <1>6, <1>11, <2>1, <2>2 DEF OneImport
<1>14. RowsUnread = {r \in Rows : r >= i}
  BY <1>1, <1>8, <1>11 DEF RowsUnread
<1>15. RowsUnread' = {r \in Rows : p = "reading" /\ r >= next}
  BY <1>12 DEF RowsUnread, next
<1>16. lines \subseteq RowsUnread /\ lines \cap RowsUnread' = {} /\ RowsUnread' \cup lines = RowsUnread
  <2>1. \A r \in Rows : r \in Nat
    BY Constants
  <2>2. ASSUME NEW r \in RowsUnread'
        PROVE  r \in RowsUnread
    <3>1. r \in Rows /\ p = "reading" /\ r >= next
      BY <1>15
    <3>2. ~eof
      BY <1>7, <3>1
    <3>3. next = i + Cardinality(lines) /\ Cardinality(lines) \in Nat
      BY <1>1, <1>7, <3>2, RowSets DEF next, lines, eof
    <3> QED BY <1>8, <1>14, <2>1, <3>1, <3>3
  <2>3. lines \cap RowsUnread' = {}
    BY <1>7, <1>15
  <2>4. RowsUnread \subseteq RowsUnread' \cup lines
    BY <1>7, <1>14, <1>15
  <2> QED BY <1>7, <1>14, <2>2, <2>3, <2>4
<1>17. \A x \in calls : x \in Call /\ x.rows \subseteq Rows
  BY DEF TypeOK, Call
<1>18. RowsInFlight' = RowsInFlight \cup lines
  BY <1>4, <1>9, <1>10, <1>17 DEF RowsInFlight
<1>19. RowsOnce'
  BY <1>4, <1>9, <1>10, <1>16, <1>17 DEF Undisturbed, RowsOnce
<1>20. CallsHandle'
  BY <1>4, <1>6, <1>9, <1>10, <1>17 DEF Undisturbed, CallsHandle, Handled
<1>21. CountedAreSettled'
  BY <1>6, <1>16, <1>18, CountKept DEF Undisturbed
<1>22. FilesWritten'
  <2>1. EmptyChunk \in {0, 1} /\ EmptyChunk' = EmptyChunk /\ Len(<<>>) = 0 /\ DOMAIN <<>> = {}
    BY DEF EmptyChunk
  <2>2. EmptyCalls = {}
    BY <1>1 DEF Undisturbed, FilesWritten, At
  <2>3. \A x \in EmptyCalls' : x = c /\ lines = {}
    BY <1>4, <1>9, <1>10, <1>17, <2>2 DEF EmptyCalls
  <2>4. CASE lines = {}
    <3>1. i > NumRows /\ eof /\ EmptyChunk = 1 /\ p = "ended"
      BY <1>7, <2>4
    <3>2. At({"reading"})' = {}
      BY <1>12, <3>1 DEF At
    <3>3. AtEnd # {}
      BY <1>1, <1>8, <3>1 DEF AtEnd, At
    <3>4. Len(passes) + Len(written) <= 1
      BY <3>3 DEF Undisturbed, FilesWritten
    <3> QED BY <1>6, <2>1, <2>3, <3>1, <3>2, <3>4 DEF Undisturbed, FilesWritten
  <2>5. CASE lines # {}
    <3>1. passes = <<>> /\ written = <<>>
      BY <1>11, <1>16, <2>5, IncompleteWritesNothing
    <3>2. EmptyCalls' = {}
      BY <2>3, <2>5
    <3> QED BY <1>6, <2>1, <3>1, <3>2 DEF FilesWritten
  <2> QED BY <2>4, <2>5
<1> QED BY <1>13, <1>19, <1>20, <1>21, <1>22 DEF Undisturbed

\* A call is taken off: nothing new is under way.
LEMMA CallRemoved ==
  ASSUME TypeOK, Undisturbed, NEW c \in calls, calls' = calls \ {c}, attempt' = attempt
  PROVE  /\ \A x : Mine(x)' <=> Mine(x)
         /\ RowsUnread' = RowsUnread /\ RowsInFlight' \subseteq RowsInFlight
         /\ Mine(c) => c.rows \cap (RowsInFlight' \cup RowsUnread') = {}
         /\ RowsOnce'
         /\ At({"counting", "asking", "reading"})' = At({"counting", "asking", "reading"})
         /\ At({"counting", "asking"})' = At({"counting", "asking"})
         /\ At({"reading"})' = At({"reading"})
         /\ AtEnd' = AtEnd
         /\ EmptyCalls' = EmptyCalls \ {c} /\ \A x, y \in EmptyCalls : x = y
         /\ EmptyChunk \in {0, 1} /\ EmptyChunk' = EmptyChunk
<1>1. \A x : Mine(x)' <=> Mine(x)
  BY DEF Mine
<1>2. RowsUnread' = RowsUnread
  BY DEF RowsUnread
<1>3. RowsInFlight' \subseteq RowsInFlight
  BY <1>1 DEF RowsInFlight
<1>4. Mine(c) => c.rows \cap (RowsInFlight' \cup RowsUnread') = {}
  BY <1>1, <1>2 DEF Undisturbed, RowsOnce, RowsInFlight
<1>5. RowsOnce'
  BY <1>1, <1>2 DEF Undisturbed, RowsOnce
<1>6. /\ At({"counting", "asking", "reading"})' = At({"counting", "asking", "reading"})
      /\ At({"counting", "asking"})' = At({"counting", "asking"})
      /\ At({"reading"})' = At({"reading"})
  BY DEF At
<1>7. AtEnd' = AtEnd
  BY <1>6 DEF AtEnd
<1>8. EmptyCalls' = EmptyCalls \ {c} /\ \A x, y \in EmptyCalls : x = y
  BY <1>1 DEF EmptyCalls, Undisturbed, FilesWritten
<1>9. EmptyChunk \in {0, 1} /\ EmptyChunk' = EmptyChunk
  BY DEF EmptyChunk
<1> QED BY <1>1, <1>2, <1>3, <1>4, <1>5, <1>6, <1>7, <1>8, <1>9

\* logSOAPErrors, and an answer to a page that is gone.
LEMMA UndisturbedIgnored ==
  ASSUME TypeOK, Undisturbed, NEW c \in calls, LogSOAPErrors(c) \/ ReplyToNobody(c), TypeOK'
  PROVE  Undisturbed'
<1>1. /\ calls' = calls \ {c}
      /\ UNCHANGED <<attempt, stored, total, processed, errorLines, passes, written, shown,
                     refresh, pageLists>>
  BY DEF LogSOAPErrors, ReplyToNobody, server, form, panel
<1>2. OneImport'
  BY <1>1, CallRemoved DEF Undisturbed, OneImport, Running
<1>3. RowsOnce'
  BY <1>1, CallRemoved
<1>4. CallsHandle'
  BY <1>1, CallRemoved DEF Undisturbed, CallsHandle, Handled
<1>5. CountedAreSettled'
  BY <1>1, CallRemoved, CountKept DEF Undisturbed
<1>6. FilesWritten'
  <2>1. /\ \A x, y \in EmptyCalls' : x = y
        /\ EmptyCalls' # {} => EmptyCalls # {}
        /\ EmptyChunk \in {0, 1} /\ EmptyChunk' = EmptyChunk /\ AtEnd' = AtEnd
        /\ At({"reading"})' = At({"reading"})
    BY <1>1, CallRemoved
  <2>2. Len(passes) + Len(written) <= IF EmptyCalls' # {} \/ AtEnd # {} THEN 1 ELSE 1 + EmptyChunk
    <3>1. Len(passes) \in Nat /\ Len(written) \in Nat
      BY DEF TypeOK
    <3> QED BY <2>1, <3>1 DEF Undisturbed, FilesWritten
  <2> QED BY <1>1, <2>1, <2>2 DEF Undisturbed, FilesWritten
<1> QED BY <1>2, <1>3, <1>4, <1>5, <1>6 DEF Undisturbed

\* logCheckedErrors: the rows of the call are counted, and settled; when all are counted
\* the errors are complete, and are written once more at most.
LEMMA UndisturbedCounted ==
  ASSUME TypeOK, Sound, Undisturbed, NEW c \in calls, LogCheckedErrors(c), TypeOK'
  PROVE  Undisturbed'
<1> DEFINE complete == Complete(total, processed')
<1>1. /\ calls' = calls \ {c} /\ c.pc = "answered" /\ Mine(c)
      /\ UNCHANGED <<attempt, stored, total, written, refresh, pageLists>>
      /\ processed' = processed + Cardinality(c.rows)
      /\ errorLines' = errorLines \cup c.bad
  BY DEF LogCheckedErrors, Count, server, form
<1>2. /\ shown' = IF complete THEN shown \cup {"done"} ELSE shown
      /\ passes' = IF complete /\ errorLines' # {} THEN Append(passes, errorLines') ELSE passes
  BY DEF LogCheckedErrors, Count, GenerateErrorFile, GenerateIf
<1>3. Running /\ "cancel" \in shown /\ refresh = "idle"
  BY <1>1 DEF Undisturbed, OneImport, Running
<1>4. At({"counting", "asking"}) = {}
  BY <1>1 DEF Undisturbed, OneImport
<1>5. OneImport'
  <2>1. "cancel" \in shown' /\ refresh' = "idle"
    BY <1>1, <1>2, <1>3
  <2> QED BY <1>1, <1>4, <2>1, CallRemoved DEF Undisturbed, OneImport
<1>6. RowsOnce'
  BY <1>1, CallRemoved
<1>7. CallsHandle'
  BY <1>1, CallRemoved DEF Undisturbed, CallsHandle, Handled
<1>8. c.rows \in SUBSET Rows /\ c.rows \subseteq RowsInFlight
  BY <1>1, RowsWithin
<1>9. RowsSettled \cup c.rows \subseteq RowsSettled'
  <2>1. RowsSettled \subseteq RowsSettled'
    BY <1>1, CallRemoved, SettledGrows
  <2>2. ASSUME NEW r \in c.rows
        PROVE  r \in RowsSettled'
    <3>1. r \notin RowsInFlight' \cup RowsUnread'
      BY <1>1, CallRemoved
    <3>2. \A l \in pageLists : Handled(r, l, c.bad)
      BY <1>1 DEF Undisturbed, CallsHandle
    <3>3. \A l \in pageLists' : Handled(r, l, errorLines)'
      BY <1>1, <3>2 DEF Handled
    <3> QED BY <1>8, <3>1, <3>3 DEF RowsSettled
  <2> QED BY <2>1, <2>2
<1>10. /\ Cardinality(RowsSettled) + Cardinality(c.rows) <= Cardinality(RowsSettled')
       /\ Cardinality(RowsSettled') <= NumRows
       /\ {Cardinality(RowsSettled), Cardinality(c.rows), Cardinality(RowsSettled')} \subseteq Nat
  <2>1. RowsSettled \in SUBSET Rows /\ RowsSettled \cap c.rows = {}
    BY <1>8, RowsWithin
  <2>2. RowsSettled' \in SUBSET Rows
    BY DEF RowsSettled
  <2>3. Cardinality(RowsSettled \cup c.rows) = Cardinality(RowsSettled) + Cardinality(c.rows)
    BY <1>8, <2>1, RowSets
  <2>4. Cardinality(RowsSettled \cup c.rows) <= Cardinality(RowsSettled')
    BY <1>9, <2>2, RowSets
  <2> QED BY <1>8, <2>1, <2>2, <2>3, <2>4, RowSets
<1>11. processed <= Cardinality(RowsSettled) /\ processed \in Nat
  BY <1>3 DEF Undisturbed, CountedAreSettled, TypeOK
<1>12. CountedAreSettled'
  BY <1>1, <1>10, <1>11, Constants DEF CountedAreSettled
<1>13. FilesWritten'
  <2>1. /\ EmptyCalls' = EmptyCalls \ {c} /\ \A x, y \in EmptyCalls : x = y
        /\ AtEnd' = AtEnd /\ At({"reading"})' = At({"reading"})
        /\ EmptyChunk \in {0, 1} /\ EmptyChunk' = EmptyChunk
    BY <1>1, CallRemoved
  <2>2. /\ passes \in Seq(SUBSET ErrorLine) /\ written \in Seq(SUBSET ErrorLine)
        /\ errorLines' \in SUBSET ErrorLine
    BY DEF TypeOK
  <2>3. CASE Complete(total, processed)
    <3>1. c.rows = {}
      BY <1>3, <1>8, <2>3, IncompleteWritesNothing
    <3>2. c.bad = {}
      BY <3>1 DEF Sound
    <3>3. errorLines' = errorLines
      BY <1>1, <3>2
    <3>4. c \in EmptyCalls /\ EmptyCalls' = {}
      BY <1>1, <2>1, <3>1 DEF EmptyCalls
    <3>5. EmptyChunk = 1 /\ At({"reading"}) = {} /\ Len(passes) + Len(written) <= 1
      BY <3>4 DEF Undisturbed, FilesWritten
    <3>6. AtEnd' = {}
      BY <2>1, <3>5 DEF AtEnd
    <3>7. complete
      BY <1>10, <1>11, <1>1, <2>3 DEF Complete, TypeOK
    <3>8. Len(passes') + Len(written') <= 2 /\ \A k \in DOMAIN passes' : passes'[k] = errorLines'
      <4>1. \A k \in DOMAIN passes : passes[k] = errorLines'
        BY <3>3 DEF Undisturbed, FilesWritten
      <4>2. passes' = passes \/ passes' = Append(passes, errorLines')
        BY <1>2
      <4>3. Len(passes) \in Nat /\ Len(written) \in Nat /\ DOMAIN passes = 1 .. Len(passes)
        BY <2>2
      <4>4. CASE passes' = Append(passes, errorLines')
        <5>1. Len(passes') = Len(passes) + 1
          BY <2>2, <4>4
        <5>2. \A k \in 1 .. Len(passes') :
                 passes'[k] = IF k <= Len(passes) THEN passes[k] ELSE errorLines'
          BY <2>2, <4>4
        <5>3. DOMAIN passes' = 1 .. Len(passes')
          BY <2>2, <4>4
        <5> QED BY <1>1, <3>5, <4>1, <4>3, <5>1, <5>2, <5>3
      <4> QED BY <1>1, <3>5, <4>1, <4>2, <4>3, <4>4
    <3>9. \A k \in DOMAIN written' : written'[k] = errorLines'
      BY <1>1, <3>3 DEF Undisturbed, FilesWritten
    <3>10. Complete(total', processed')
      BY <1>1, <3>7
    <3> QED BY <2>1, <3>4, <3>5, <3>6, <3>8, <3>9, <3>10 DEF FilesWritten
  <2>4. CASE ~Complete(total, processed)
    <3>1. passes = <<>> /\ written = <<>>
      BY <2>4 DEF Undisturbed, FilesWritten
    <3>2. \/ passes' = <<>>
          \/ complete /\ passes' = <<errorLines'>>
      BY <1>2, <3>1
    <3>3. /\ \A k \in DOMAIN passes' : passes'[k] = errorLines'
          /\ Len(passes') <= 1 /\ (~complete => passes' = <<>>)
      BY <1>2, <3>1, <3>2
    <3>4. written' = <<>> /\ Len(<<>>) = 0 /\ DOMAIN <<>> = {} /\ total' = total
      BY <1>1, <3>1
    <3>5. /\ \A x, y \in EmptyCalls' : x = y
          /\ EmptyCalls' # {} => EmptyChunk = 1 /\ At({"reading"}) = {}
      BY <2>1 DEF Undisturbed, FilesWritten
    <3>6. Len(passes') \in Nat
      BY DEF TypeOK
    <3> QED BY <2>1, <3>3, <3>4, <3>5, <3>6 DEF FilesWritten
  <2> QED BY <2>3, <2>4
<1> QED BY <1>5, <1>6, <1>7, <1>12, <1>13 DEF Undisturbed

\* A pass over the file ends: what it writes are all the errors there are.
LEMMA UndisturbedWrite ==
  ASSUME TypeOK, Undisturbed, WriteErrorFile, TypeOK'
  PROVE  Undisturbed'
<1>1. /\ passes # <<>> /\ passes' = Tail(passes) /\ written' = Append(written, Head(passes))
      /\ UNCHANGED <<attempt, calls, stored, total, processed, errorLines, shown, refresh,
                     pageLists>>
  BY DEF WriteErrorFile, server, form
<1>2. Running
  BY <1>1 DEF Running
<1>3. /\ \A x : Mine(x)' <=> Mine(x)
      /\ At({"counting", "asking", "reading"})' = At({"counting", "asking", "reading"})
      /\ At({"counting", "asking"})' = At({"counting", "asking"})
      /\ At({"reading"})' = At({"reading"})
      /\ RowsUnread' = RowsUnread
  BY <1>1 DEF Mine, At, RowsUnread
<1>4. RowsInFlight' = RowsInFlight /\ EmptyCalls' = EmptyCalls /\ AtEnd' = AtEnd
  BY <1>1, <1>3 DEF RowsInFlight, EmptyCalls, AtEnd
<1>5. At({"counting", "asking"}) = {} /\ "cancel" \in shown /\ refresh = "idle"
  BY <1>1, <1>2 DEF Undisturbed, OneImport
<1>6. OneImport'
  BY <1>1, <1>3, <1>5 DEF Undisturbed, OneImport
<1>7. RowsOnce' /\ CallsHandle'
  <2>1. RowsOnce'
    BY <1>1, <1>3 DEF Undisturbed, RowsOnce
  <2>2. CallsHandle'
    BY <1>1, <1>3 DEF Undisturbed, CallsHandle, Handled
  <2> QED BY <2>1, <2>2
<1>8. CountedAreSettled'
  BY <1>1, <1>3, <1>4, CountKept DEF Undisturbed
<1>9. FilesWritten'
  <2>1. passes \in Seq(SUBSET ErrorLine) /\ written \in Seq(SUBSET ErrorLine)
    BY DEF TypeOK
  <2>2. /\ Len(passes) \in Nat \ {0} /\ Len(passes') = Len(passes) - 1
        /\ DOMAIN passes = 1 .. Len(passes) /\ DOMAIN passes' = 1 .. Len(passes')
        /\ \A k \in 1 .. Len(passes') : passes'[k] = passes[k + 1]
        /\ Head(passes) = passes[1]
    BY <1>1, <2>1
  <2>3. /\ Len(written) \in Nat /\ Len(written') = Len(written) + 1
        /\ DOMAIN written = 1 .. Len(written) /\ DOMAIN written' = 1 .. Len(written')
        /\ \A k \in 1 .. Len(written') :
              written'[k] = IF k <= Len(written) THEN written[k] ELSE Head(passes)
    BY <1>1, <2>1
  <2>4. /\ \A k \in DOMAIN passes : passes[k] = errorLines
        /\ \A k \in DOMAIN written : written[k] = errorLines
        /\ Complete(total, processed)
    BY <1>1 DEF Undisturbed, FilesWritten
  <2>5. \A k \in DOMAIN passes' : passes'[k] = errorLines'
    BY <1>1, <2>2, <2>4
  <2>6. \A k \in DOMAIN written' : written'[k] = errorLines'
    BY <1>1, <2>2, <2>3, <2>4
  <2>7. Len(passes') + Len(written') = Len(passes) + Len(written)
    BY <2>2, <2>3
  <2>8. Complete(total', processed') /\ EmptyChunk' = EmptyChunk
    BY <1>1, <2>4 DEF EmptyChunk
  <2> QED BY <1>3, <1>4, <2>5, <2>6, <2>7, <2>8 DEF Undisturbed, FilesWritten
<1> QED BY <1>6, <1>7, <1>8, <1>9 DEF Undisturbed

LEMMA UndisturbedStep ==
  ASSUME TypeOK, Sound, disturbed = {} => Undisturbed, [Next]_vars, disturbed' = {}, TypeOK'
  PROVE  Undisturbed'
<1>1. CASE ReloadPage
  BY <1>1, UndisturbedReload
<1>2. CASE \E a \in Attempts : StartFileUpload(a)
  BY <1>2, UndisturbedStart
<1>3. CASE \/ \E S \in SUBSET Lists : OpenPopup(S)
           \/ Select \/ RefreshFails \/ BindFileInput
           \/ \E l \in Lists : SelectColumn(l)
           \/ UNCHANGED vars
  <2>1. disturbed = {}
    BY <1>3 DEF OpenPopup, Disturbs, Select, ClearSelection, FillSelection, RefreshImport, NewForm,
                RefreshFails, BindFileInput, SelectColumn, vars, history
  <2> QED BY <1>3, <2>1, FormSteps, UndisturbedForm
<1>4. ASSUME NEW a \in Attempts, Import(a) \/ CheckFileStatusFails(a) \/ ReadFails(a)
      PROVE  Undisturbed'
  <2>1. disturbed = {}
    BY <1>4 DEF Import, CountLines, Counted, SuccessAndStart, SendBatchToWS,
                CheckFileStatusFails, ReadFails, history
  <2> QED BY <1>4, <2>1, UndisturbedChecks, UndisturbedSuccess, UndisturbedSend DEF Import
<1>5. ASSUME NEW c \in calls, Serve(c) \/ CallLost(c)
      PROVE  Undisturbed'
  <2>1. PICK d : CallStep(c, d) /\ (selected = pageLists /\ Handles(c) => Handles(d)')
    BY <1>5, CallSteps
  <2>2. disturbed = {}
    BY <2>1 DEF CallStep
  <2> QED BY <2>1, <2>2, UndisturbedCall
<1>6. ASSUME NEW c \in calls, Reply(c)
      PROVE  Undisturbed'
  <2>1. disturbed = {}
    BY <1>6 DEF Reply, LogCheckedErrors, Count, LogSOAPErrors, ReplyToNobody, history
  <2> QED BY <1>6, <2>1, UndisturbedCounted, UndisturbedIgnored DEF Reply
<1>7. CASE WriteErrorFile
  <2>1. disturbed = {}
    BY <1>7 DEF WriteErrorFile, history
  <2> QED BY <1>7, <2>1, UndisturbedWrite
<1> QED BY <1>1, <1>2, <1>3, <1>4, <1>5, <1>6, <1>7 DEF Next

LEMMA UndisturbedInit ==
  ASSUME Init
  PROVE  Undisturbed
<1>1. /\ calls = {} /\ passes = <<>> /\ written = <<>> /\ shown = {} /\ processed = 0
      /\ \A b \in Attempts : attempt[b].pc = "none"
  BY DEF Init
<1>2. \A pcs : "none" \notin pcs => At(pcs) = {}
  BY <1>1 DEF At
<1>3. At({"counting", "asking", "reading"}) = {} /\ At({"counting", "asking"}) = {}
      /\ At({"reading"}) = {}
  BY <1>2
<1>4. ~Running
  BY <1>1, <1>3 DEF Running
<1>5. EmptyCalls = {} /\ AtEnd = {}
  BY <1>1, <1>3 DEF EmptyCalls, AtEnd
<1>6. EmptyChunk \in {0, 1} /\ Len(<<>>) = 0 /\ DOMAIN <<>> = {}
  BY DEF EmptyChunk
<1>7. FilesWritten
  BY <1>1, <1>5, <1>6 DEF FilesWritten
<1> QED BY <1>1, <1>3, <1>4, <1>7, Constants
        DEF Undisturbed, OneImport, RowsOnce, CallsHandle, CountedAreSettled

\* What holds of every import, and of one that nothing disturbs.
THEOREM ImportIsSafe == Spec => []ImportInv
<1> DEFINE Inv == TypeOK /\ Sound /\ OneCover /\ (disturbed = {} => Undisturbed)
<1>1. Init => Inv
  BY TypesInit, SoundInit, OneCoverInit, UndisturbedInit
<1>2. Inv /\ [Next]_vars => Inv'
  BY TypesStep, SoundStep, OneCoverStep, UndisturbedStep
<1>3. Inv => ImportInv
  BY DEF ImportInv, Undisturbed
<1> QED BY <1>1, <1>2, <1>3, PTL DEF Spec
------------------------------------------------------------------------------
(* What the invariant says to the user.                                      *)

\* No row is counted twice by PanelUpdater: what is processed, under way and unread never
\* adds up to more than the file.
THEOREM NoRowTwice == Spec => []NoRowCountedTwice
<1>1. ASSUME ImportInv, disturbed = {}
      PROVE  processed + Cardinality(RowsInFlight) + Cardinality(RowsUnread) <= NumRows
  <2>1. TypeOK /\ OneImport /\ RowsOnce /\ CountedAreSettled
    BY <1>1 DEF ImportInv
  <2>2. /\ RowsInFlight \in SUBSET Rows /\ RowsUnread \in SUBSET Rows /\ RowsSettled \in SUBSET Rows
        /\ RowsSettled \cap (RowsInFlight \cup RowsUnread) = {}
    BY <2>1, RowsWithin
  <2>3. RowsInFlight \cap RowsUnread = {}
    BY <2>1 DEF RowsOnce, RowsInFlight
  <2>4. /\ {Cardinality(RowsInFlight), Cardinality(RowsUnread), Cardinality(RowsSettled)} \subseteq Nat
        /\ Cardinality({}) = 0
    BY <2>2, RowSets, FS_EmptySet
  <2>5. CASE "cancel" \in shown
    <3>1. Cardinality(RowsInFlight \cup RowsUnread)
             = Cardinality(RowsInFlight) + Cardinality(RowsUnread)
      BY <2>2, <2>3, RowSets
    <3>2. Cardinality(RowsSettled \cup (RowsInFlight \cup RowsUnread))
             = Cardinality(RowsSettled) + Cardinality(RowsInFlight \cup RowsUnread)
      BY <2>2, RowSets
    <3>3. Cardinality(RowsSettled \cup (RowsInFlight \cup RowsUnread)) <= NumRows
      BY <2>2, RowSets
    <3>4. processed <= Cardinality(RowsSettled) /\ processed \in Nat
      BY <2>1, <2>5 DEF CountedAreSettled, TypeOK
    <3> QED BY <2>4, <3>1, <3>2, <3>3, <3>4, Constants
  <2>6. CASE "cancel" \notin shown
    <3>1. ~Running
      BY <2>1, <2>6 DEF OneImport
    <3>2. RowsInFlight = {} /\ RowsUnread = {}
      BY <3>1 DEF Running, RowsInFlight, RowsUnread, At
    <3>3. processed <= NumRows /\ processed \in Nat
      BY <2>1 DEF CountedAreSettled, TypeOK
    <3> QED BY <2>4, <3>2, <3>3, Constants
  <2> QED BY <2>5, <2>6
<1>2. ImportInv => NoRowCountedTwice
  BY <1>1 DEF NoRowCountedTwice
<1> QED BY <1>2, ImportIsSafe, PTL

\* The error file offered after an undisturbed import has every error of the panel, once,
\* or twice when the last chunk is empty.
THEOREM ErrorFile == Spec => []ErrorFileComplete
<1>1. ASSUME ImportInv, link, passes = <<>>, disturbed = {}
      PROVE  /\ written # <<>>
             /\ \A i \in 1 .. Len(written) : written[i] = errorLines
             /\ Len(written) <= 1 + EmptyChunk
  <2>1. /\ TypeOK /\ Sound /\ FilesWritten /\ EmptyChunk \in {0, 1}
    BY <1>1 DEF ImportInv, EmptyChunk
  <2>2. Len(written) \in Nat /\ DOMAIN written = 1 .. Len(written) /\ Len(<<>>) = 0
    BY <2>1 DEF TypeOK
  <2>3. Len(passes) + Len(written) <= 1 + EmptyChunk
    BY <2>1 DEF FilesWritten
  <2> QED BY <1>1, <2>1, <2>2, <2>3 DEF FilesWritten, Sound
<1>2. ImportInv => ErrorFileComplete
  BY <1>1 DEF ErrorFileComplete, EmptyChunk
<1> QED BY <1>2, ImportIsSafe, PTL

\* Done at 100 % of an undisturbed import: each row is subscribed to each list of the form,
\* or the panel lists an error for its address.
THEOREM DoneIsDone == Spec => []DoneMeansSubscribed
<1>1. ASSUME ImportInv, Done, disturbed = {}
      PROVE  \A r \in Rows, l \in pageLists : Handled(r, l, errorLines)
  <2>1. TypeOK /\ CountedAreSettled /\ "cancel" \in shown
    BY <1>1 DEF ImportInv, OneImport, Done
  <2>2. processed >= NumRows /\ processed \in Nat
    BY <1>1, <2>1 DEF Done, Complete, TypeOK
  <2>3. RowsSettled \in SUBSET Rows /\ processed <= Cardinality(RowsSettled)
    BY <2>1 DEF RowsSettled, CountedAreSettled
  <2>4. RowsSettled = Rows
    BY <2>2, <2>3, RowSets, Constants
  <2> QED BY <2>4 DEF RowsSettled
<1>2. ImportInv => DoneMeansSubscribed
  BY <1>1 DEF DoneMeansSubscribed, Handled
<1> QED BY <1>2, ImportIsSafe, PTL
=============================================================================
