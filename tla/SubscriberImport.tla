---------------------------- MODULE SubscriberImport ----------------------------
(***************************************************************************)
(* The import of subscribers from a file.  The browser side is             *)
(* programs/subscribers/js/import_subscriber_popup.js: it counts the lines *)
(* of the file, asks the server where to start, then reads chunk after      *)
(* chunk and sends each to the web service without waiting for the answer   *)
(* to the one before.  Answers come in any order and are added up in        *)
(* counters the whole page shares.  The server side is WSImportSubscribers: *)
(* one call of massSubscribe, one transaction, for each list selected in    *)
(* the session at that moment.                                              *)
(*                                                                         *)
(* Line 0 is the header, lines 1 .. NumRows are subscribers.  A line is     *)
(* known by its address and how that is spelled, and by whether it reaches  *)
(* the columns selected; chunks end at line ends.  The file holds at least  *)
(* one subscriber.  What massSubscribe does to subscriptions that exist, to *)
(* two spellings of an address, and in parallel calls, is in Subscription.  *)
(***************************************************************************)
EXTENDS Integers, Sequences, FiniteSets, FiniteSetsExt

CONSTANTS
    NumRows,       \* subscribers in the file
    LinesPerChunk, \* lines in a chunk of 2 KB
    EmailOf,       \* address of each row, trimmed and in lower case
    SpellingOf,    \* ... as the line has it, in lower case
    Invalid,       \* rows whose address is not valid
    Short,         \* rows whose line may end before a column that is selected
    Lists,         \* lists the client owns, numbered in the order they are shown
    MaxAttempts,   \* bound: clicks on Import
    MaxTrouble     \* bound: failed reads, calls and transactions, and what the
                   \* user does to the form and the page while calls are under way

Rows == 1 .. NumRows
Attempts == 1 .. MaxAttempts

ASSUME ImportAssumption ==
    /\ {NumRows, LinesPerChunk, MaxAttempts} \subseteq Nat \ {0}
    /\ DOMAIN EmailOf = Rows
    /\ \A r, s \in Rows : SpellingOf[r] = SpellingOf[s] => EmailOf[r] = EmailOf[s]
    /\ Invalid \subseteq Rows /\ Short \subseteq Rows
    /\ Lists \subseteq Nat /\ IsFiniteSet(Lists)
    /\ MaxTrouble \in Nat

VARIABLES
    selected,   \* program.selectedLists, of the session
    stored,     \* <<address, list>> subscribed by a committed call
    refresh, choice, \* an ajax request that selects lists and renders the form
    pageLists,  \* lists whose field selectors the form shows
    mapped,     \* ... of which the e-mail selector names a column
    shown,      \* buttons shown
    blocked,    \* block_refresh: the form is covered
    attempt,    \* where an import is, and the next line it reads
    total, processed, \* PanelUpdater
    errorLines, \* checkedErrorsCollector: <<call, row, list>>
    passes, written, link, \* error files under way, written, offered
    calls,      \* calls of addSubscribers and their answers
    trouble, disturbed, toggled \* what happened so far

server == <<selected, stored>>
form == <<refresh, choice, pageLists, mapped>>
panel == <<total, processed, errorLines, passes, written, link>>
history == <<trouble, disturbed, toggled>>

vars == <<server, form, shown, blocked, attempt, panel, calls, history>>

CallId == Attempts \X Nat
ErrorLine == CallId \X Rows \X Lists
\* cut: lists whose e-mail column the short rows do not reach.
Call == [id : CallId, rows : SUBSET Rows, keys : SUBSET Lists, cut : SUBSET Lists,
         pc : {"sent", "checked", "lists", "answered", "faulted"},
         fields : SUBSET Lists, todo : SUBSET Lists, bad : SUBSET ErrorLine]

TypeOK ==
    /\ selected \in SUBSET Lists
    /\ stored \in SUBSET ({EmailOf[r] : r \in Rows} \X Lists)
    /\ refresh \in {"closed", "idle", "sent", "cleared", "filled", "failed"}
    /\ choice \in SUBSET Lists
    /\ pageLists \in SUBSET Lists
    /\ mapped \in SUBSET Lists
    /\ shown \in SUBSET {"import", "cancel", "done"}
    /\ blocked \in BOOLEAN
    /\ attempt \in [Attempts -> [pc : {"none", "counting", "asking", "reading",
                                       "hung", "ended", "gone"}, next : Nat]]
    /\ total \in {0, NumRows}
    /\ processed \in Nat
    /\ errorLines \in SUBSET ErrorLine
    /\ passes \in Seq(SUBSET ErrorLine)
    /\ written \in Seq(SUBSET ErrorLine)
    /\ link \in BOOLEAN
    /\ calls \in SUBSET Call
    /\ trouble \in Nat
    /\ disturbed \in SUBSET {"overlap", "selection", "mapping"}
    /\ toggled \in BOOLEAN

Init ==
    /\ selected = {} /\ stored = {}
    /\ refresh = "closed" /\ choice = {} /\ pageLists = {} /\ mapped = {}
    /\ shown = {} /\ blocked = FALSE
    /\ attempt = [a \in Attempts |-> [pc |-> "none", next |-> 0]]
    /\ total = 0 /\ processed = 0 /\ errorLines = {}
    /\ passes = <<>> /\ written = <<>> /\ link = FALSE
    /\ calls = {}
    /\ trouble = 0 /\ disturbed = {} /\ toggled = FALSE

Strike == trouble < MaxTrouble /\ trouble' = trouble + 1

\* Attempts of the page as it is loaded now, and their calls.
At(pcs) == {a \in Attempts : attempt[a].pc \in pcs}
Mine(c) == attempt[c.id[1]].pc # "gone"
Running == \/ At({"counting", "asking", "reading"}) # {}
           \/ \E c \in calls : Mine(c)
           \/ passes # <<>>

Pending == refresh \in {"sent", "cleared", "filled"}

\* The user does something that a running import notices.
Disturbs(what) ==
    IF Running \/ calls # {}
    THEN Strike /\ disturbed' = disturbed \cup {what}
    ELSE UNCHANGED <<trouble, disturbed>>

------------------------------------------------------------------------------
(* The form and the selection of lists.                                      *)

\* refreshImport, "begin": the popup is opened, or another selection made in it.
\* The link that opens it is outside the part that block_refresh covers.
OpenPopup(S) ==
    /\ ~Pending
    /\ refresh' = "sent"
    /\ choice' = S
    /\ blocked' = ~blocked
    /\ toggled' = (toggled \/ blocked)
    /\ Disturbs("selection")
    /\ UNCHANGED <<server, pageLists, mapped, shown, attempt, panel, calls>>

\* setupImport: new lists for the session ...
ClearSelection ==
    /\ refresh = "sent"
    /\ selected' = {}
    /\ refresh' = "cleared"
    /\ UNCHANGED <<stored, choice, pageLists, mapped, shown, blocked, attempt, panel,
                   calls, history>>

\* ... which are then filled.
FillSelection ==
    /\ refresh = "cleared"
    /\ selected' = choice
    /\ refresh' = "filled"
    /\ UNCHANGED <<stored, choice, pageLists, mapped, shown, blocked, attempt, panel,
                   calls, history>>

NewForm(covered) ==
    /\ refresh = "filled"
    /\ refresh' = "idle"
    /\ pageLists' = choice /\ mapped' = {} /\ choice' = {}
    /\ shown' = {} /\ blocked' = covered /\ link' = FALSE
    /\ UNCHANGED <<server, attempt, total, processed, errorLines, passes, written,
                   calls, history>>

\* Mutant: block_refresh is called for the new form, as the comment in the code has it.
RefreshAndToggle == NewForm(TRUE)

\* refreshImport, "success": the form is another one, nothing covers it.
RefreshImport == NewForm(FALSE)

\* The answer never comes: no handler uncovers the form.
RefreshFails ==
    /\ refresh = "filled"
    /\ Strike
    /\ refresh' = "failed" /\ choice' = {}
    /\ UNCHANGED <<server, pageLists, mapped, shown, blocked, attempt, panel,
                   calls, disturbed, toggled>>

Usable == refresh # "closed"

\* bindFileInput: a file is chosen, the selectors are filled again.
BindFileInput ==
    /\ Usable /\ ~blocked
    /\ mapped' = {}
    /\ shown' = shown \cup {"import"}
    /\ Disturbs("mapping")
    /\ UNCHANGED <<server, refresh, choice, pageLists, blocked, attempt, panel, calls,
                   toggled>>

\* The user selects a column for the e-mail field of a list, another one, or none.
\* startFileUpload hides the button only: the selectors can be changed while it runs.
SelectColumn(l) ==
    /\ Usable /\ ~blocked /\ shown \cap {"import", "cancel"} # {}
    /\ l \in pageLists
    /\ mapped' \in {mapped \cup {l}, mapped \ {l}}
    /\ IF "mapping" \in disturbed THEN UNCHANGED <<trouble, disturbed>>
       ELSE Disturbs("mapping")
    /\ UNCHANGED <<server, refresh, choice, pageLists, shown, blocked, attempt, panel,
                   calls, toggled>>

\* FormImportSubscribers.done and .cancel: the page is loaded again and forgets
\* its imports; what was sent goes on.
ReloadPage ==
    /\ refresh \in {"idle", "failed"}
    /\ refresh' = "closed" /\ pageLists' = {} /\ mapped' = {}
    /\ shown' = {} /\ blocked' = FALSE /\ toggled' = FALSE
    /\ attempt' = [a \in Attempts |-> IF attempt[a].pc = "none" THEN attempt[a]
                                      ELSE [pc |-> "gone", next |-> 0]]
    /\ total' = 0 /\ processed' = 0 /\ errorLines' = {}
    /\ passes' = <<>> /\ written' = <<>> /\ link' = FALSE
    /\ IF Running THEN Strike ELSE UNCHANGED trouble
    /\ disturbed' = {}
    /\ UNCHANGED <<server, choice, calls>>

------------------------------------------------------------------------------
(* One import, in the browser.                                               *)

Fresh(a) == attempt[a].pc = "none" /\ \A b \in 1 .. (a - 1) : attempt[b].pc # "none"

Goto(a, pc) == attempt' = [attempt EXCEPT ![a].pc = pc]

\* validateFields: every mandatory field has a column.
ValidateFields == pageLists \subseteq mapped

StartFrom(a, count) ==
    /\ Usable /\ ~blocked /\ "import" \in shown
    /\ Fresh(a)
    /\ ValidateFields
    /\ total' = 0 /\ processed' = count
    /\ errorLines' = {} /\ written' = <<>> /\ link' = FALSE
    /\ shown' = (shown \ {"import"}) \cup {"cancel"}
    /\ blocked' = ~blocked
    /\ Goto(a, "counting")
    /\ disturbed' = (IF Running THEN {"overlap"} ELSE {})
                    \cup (IF refresh = "idle" THEN {} ELSE {"selection"})
    /\ UNCHANGED <<server, form, passes, calls, trouble, toggled>>

\* Mutant: the counters go on from the import before.
StartWithoutReset(a) == StartFrom(a, processed)

\* startFileUpload: PanelUpdater and checkedErrorsCollector are reset whatever
\* import may still report to them; checkFileHash covers the form.
StartFileUpload(a) == StartFrom(a, 0)

Counted(a, lines) ==
    /\ attempt[a].pc = "counting"
    /\ total' = lines
    /\ Goto(a, "asking")
    /\ UNCHANGED <<server, form, shown, blocked, processed, errorLines, passes, written,
                   link, calls, history>>

\* Mutant: the header counts as well.
CountHeaderToo(a) == Counted(a, NumRows + 1)

\* checkFileHash: the lines are counted, checkFileStatus is called.
CountLines(a) == Counted(a, NumRows)

\* WSImportSubscribers.checkFileStatus: the position of a file is written once, at
\* its creation, by createOrGetFileTransaction.
LastProcessingPosition == -1

\* checkFileStatus answers: successAndStart.
SuccessAndStart(a) ==
    /\ attempt[a].pc = "asking"
    /\ attempt' = [attempt EXCEPT ![a] =
          [pc |-> "reading",
           next |-> IF LastProcessingPosition >= 0 THEN LastProcessingPosition ELSE 1]]
    /\ blocked' = ~blocked
    /\ UNCHANGED <<server, form, shown, panel, calls, history>>

\* checkFileStatus fails: the message is shown and the import is over.
CheckFileStatusFails(a) ==
    /\ attempt[a].pc = "asking"
    /\ Strike
    /\ Goto(a, "ended")
    /\ blocked' = ~blocked
    /\ UNCHANGED <<server, form, shown, panel, calls, disturbed, toggled>>

\* The file cannot be read any more: no handler uncovers the form.
ReadFails(a) ==
    /\ attempt[a].pc \in {"counting", "reading"}
    /\ Strike
    /\ attempt' = [attempt EXCEPT ![a] =
          [pc |-> IF attempt[a].pc = "counting" THEN "hung" ELSE "ended", next |-> 0]]
    /\ UNCHANGED <<server, form, shown, blocked, panel, calls, disturbed, toggled>>

\* LineNavigator.readSomeLines: the rest of the chunk line i is in; eof when the
\* chunk is not full, so that a file may end with an empty one.
ReadSomeLines(i) ==
    LET last == (i \div LinesPerChunk + 1) * LinesPerChunk - 1
    IN  [lines |-> {r \in i .. last : r <= NumRows}, eof |-> NumRows < last]

\* linesReadHandler: constructSubscribers takes the columns selected now, a line
\* that ends before one of them has no value there, and sendBatchToWS does not wait.
SendBatchToWS(a) ==
    /\ attempt[a].pc = "reading"
    /\ LET i == attempt[a].next
           chunk == ReadSomeLines(i)
       IN  /\ \E cut \in SUBSET (IF chunk.lines \cap Short = {} THEN {} ELSE mapped) :
                 calls' = calls \cup
                    {[id |-> <<a, i>>, rows |-> chunk.lines, keys |-> mapped, cut |-> cut,
                      pc |-> "sent", fields |-> {}, todo |-> {}, bad |-> {}]}
           /\ attempt' = [attempt EXCEPT ![a] =
                 IF chunk.eof THEN [pc |-> "ended", next |-> 0]
                 ELSE [pc |-> "reading", next |-> i + Cardinality(chunk.lines)]]
    /\ UNCHANGED <<server, form, shown, blocked, panel, history>>

------------------------------------------------------------------------------
(* addSubscribers, at the server: calls run side by side.                    *)

Becomes(c, d) == calls' = (calls \ {c}) \cup {d}

Fault(c) == [c EXCEPT !.pc = "faulted", !.fields = {}, !.todo = {}, !.bad = {}]

\* No list selected is an exception; the fields are those of the selection.
AddSubscribers(c) ==
    /\ c.pc = "sent"
    /\ Becomes(c, IF selected = {} THEN Fault(c)
                  ELSE [c EXCEPT !.pc = "checked", !.fields = selected])
    /\ UNCHANGED <<server, form, shown, blocked, attempt, panel, history>>

\* The loop over the selected lists reads the selection again.
IterateLists(c) ==
    /\ c.pc = "checked"
    /\ Becomes(c, [c EXCEPT !.pc = IF selected = {} THEN "answered" ELSE "lists",
                            !.todo = selected])
    /\ UNCHANGED <<server, form, shown, blocked, attempt, panel, history>>

\* The lists for which a row of the call has an e-mail value.
Keys(c, r) == c.keys \ (IF r \in Short THEN c.cut ELSE {})

\* mergeDuplicates: of the rows of a call with one spelling the last stays, with
\* the values of all.
MergeDuplicates(R) == {r \in R : \A s \in R : SpellingOf[s] = SpellingOf[r] => s <= r}
MergedKeys(c, r) == UNION {Keys(c, s) : s \in {q \in c.rows : SpellingOf[q] = SpellingOf[r]}}

\* mergeDuplicates looks a row up under the e-mail field of the last list: one row
\* of the call without a value there is a NullPointerException.
KeyMissing(c) == \E r \in c.rows : Max(c.fields) \notin Keys(c, r)

\* massSubscribe, validation: every list's e-mail field is mandatory.
Rejected(c) ==
    {r \in MergeDuplicates(c.rows) : r \in Invalid \/ ~(c.fields \subseteq MergedKeys(c, r))}
Survivors(c) == MergeDuplicates(c.rows) \ Rejected(c)

\* The call goes on with the next list, or answers after the last.
Advance(c, l, R) ==
    [c EXCEPT !.todo = @ \ {l},
              !.pc = IF c.todo = {l} THEN "answered" ELSE "lists",
              !.bad = @ \cup ({c.id} \X R \X {l})]

\* massSubscribe for one list, a transaction.  One that is rolled back ends the
\* call; an exception behind the inserts reports the rows it stored as errors.
MassSubscribe(c, l) ==
    /\ c.pc = "lists" /\ l = Min(c.todo)
    /\ LET subscribed == {EmailOf[r] : r \in Survivors(c)} \X {l}
       IN  \/ /\ KeyMissing(c)
              /\ Becomes(c, Fault(c))
              /\ UNCHANGED <<stored, trouble>>
           \/ /\ ~KeyMissing(c)
              /\ stored' = stored \cup subscribed
              /\ Becomes(c, Advance(c, l, Rejected(c)))
              /\ UNCHANGED trouble
           \/ /\ ~KeyMissing(c) /\ Survivors(c) # {} /\ Strike
              /\ stored' = stored \cup subscribed
              /\ Becomes(c, Advance(c, l, MergeDuplicates(c.rows)))
           \/ /\ ~KeyMissing(c) /\ Survivors(c) # {} /\ Strike
              /\ Becomes(c, Fault(c))
              /\ UNCHANGED stored
    /\ UNCHANGED <<selected, form, shown, blocked, attempt, panel, disturbed, toggled>>

\* The connection fails before the call arrives, or before the answer does.
CallLost(c) ==
    /\ c.pc \in {"sent", "answered"}
    /\ Strike
    /\ Becomes(c, Fault(c))
    /\ UNCHANGED <<server, form, shown, blocked, attempt, panel, disturbed, toggled>>

------------------------------------------------------------------------------
(* The answers, in the browser.                                              *)

\* PanelUpdater.getProgress reaches 100.
Complete(t, p) == t > 0 /\ p >= t

GenerateIf(finished, lines) ==
    /\ link' = FALSE
    /\ shown' = IF finished THEN shown \cup {"done"} ELSE shown
    /\ passes' = IF finished /\ lines # {} THEN Append(passes, lines) ELSE passes

\* Mutant: the file is written before 100 % are reached.
GenerateAtOnce(lines) == GenerateIf(TRUE, lines)

\* generateErrorFile: the link is removed; at 100 % the Done button appears and
\* the file is read again to write the lines with errors.
GenerateErrorFile(lines) == GenerateIf(Complete(total, processed'), lines)

Count(c, n) ==
    /\ c.pc = "answered" /\ Mine(c)
    /\ processed' = processed + n
    /\ errorLines' = errorLines \cup c.bad
    /\ GenerateErrorFile(errorLines')
    /\ calls' = calls \ {c}
    /\ UNCHANGED <<server, form, blocked, attempt, total, written, history>>

\* Mutant: rows with an error are not counted as processed.
LogSuccessOnly(c) == Count(c, Cardinality({r \in c.rows : \A e \in c.bad : e[2] # r}))

\* logCheckedErrors and the callback of sendBatchToWS.
LogCheckedErrors(c) == Count(c, Cardinality(c.rows))

\* Mutant: the rows of a failed call are counted.
CountFaulted(c) ==
    /\ c.pc = "faulted" /\ Mine(c)
    /\ processed' = processed + Cardinality(c.rows)
    /\ GenerateErrorFile(errorLines)
    /\ calls' = calls \ {c}
    /\ UNCHANGED <<server, form, blocked, attempt, total, errorLines, written, history>>

\* logSOAPErrors: a message; the rows are neither counted nor sent again.
LogSOAPErrors(c) ==
    /\ c.pc = "faulted" /\ Mine(c)
    /\ calls' = calls \ {c}
    /\ UNCHANGED <<server, form, shown, blocked, attempt, panel, history>>

\* The page that sent the call is gone.
ReplyToNobody(c) ==
    /\ c.pc \in {"answered", "faulted"} /\ ~Mine(c)
    /\ calls' = calls \ {c}
    /\ UNCHANGED <<server, form, shown, blocked, attempt, panel, history>>

\* generateErrorFile, when the file has been read: outputErrorFileContent grows
\* and the link offers all of it.
WriteErrorFile ==
    /\ passes # <<>>
    /\ written' = Append(written, Head(passes))
    /\ passes' = Tail(passes)
    /\ link' = TRUE
    /\ UNCHANGED <<server, form, shown, blocked, attempt, total, processed, errorLines,
                   calls, history>>

Import(a) == \/ CountLines(a) \/ SuccessAndStart(a) \/ SendBatchToWS(a)
Serve(c) == \/ AddSubscribers(c) \/ IterateLists(c) \/ \E l \in Lists : MassSubscribe(c, l)
Reply(c) == \/ LogCheckedErrors(c) \/ LogSOAPErrors(c) \/ ReplyToNobody(c)
Select == \/ ClearSelection \/ FillSelection \/ RefreshImport

Next ==
    \/ \E S \in SUBSET Lists : OpenPopup(S)
    \/ Select
    \/ RefreshFails
    \/ BindFileInput
    \/ \E l \in Lists : SelectColumn(l)
    \/ ReloadPage
    \/ \E a \in Attempts :
          \/ StartFileUpload(a)
          \/ Import(a)
          \/ CheckFileStatusFails(a)
          \/ ReadFails(a)
    \/ \E c \in calls : Serve(c) \/ CallLost(c) \/ Reply(c)
    \/ WriteErrorFile

Spec == Init /\ [][Next]_vars

\* The browser's callbacks and the server's threads go on; users need not.
Fairness ==
    /\ WF_vars(Select)
    /\ WF_vars(\E a \in Attempts : Import(a))
    /\ WF_vars(\E c \in calls : Serve(c) \/ Reply(c))
    /\ WF_vars(WriteErrorFile)

FairSpec == Spec /\ Fairness

------------------------------------------------------------------------------
(* Properties.                                                               *)

Done == "done" \in shown /\ Complete(total, processed)

\* While one import runs undisturbed, Done at 100 % (generateErrorFile) means that
\* every row of the file is subscribed to every selected list, or that the panel
\* lists an error for its address.
DoneMeansSubscribed ==
    Done /\ disturbed = {} =>
        \A r \in Rows, l \in pageLists :
            \/ <<EmailOf[r], l>> \in stored
            \/ \E e \in errorLines : EmailOf[e[2]] = EmailOf[r] /\ e[3] = l

RowsUnread ==
    {r \in Rows : \E a \in Attempts :
        attempt[a].pc = "reading" /\ r >= attempt[a].next}
RowsInFlight == UNION {c.rows : c \in {d \in calls : Mine(d)}}

\* The counters of PanelUpdater count no row of an undisturbed import twice:
\* what is processed, under way and unread never adds up to more than the file.
NoRowCountedTwice ==
    disturbed = {} =>
        processed + Cardinality(RowsInFlight) + Cardinality(RowsUnread) <= NumRows

\* The error file offered after an undisturbed import (generateErrorFile) has every
\* error of the panel, once, or twice when the last chunk of the file was empty.
ErrorFileComplete ==
    link /\ passes = <<>> /\ disturbed = {} =>
        /\ written # <<>>
        /\ \A i \in 1 .. Len(written) : written[i] = errorLines
        /\ Len(written) <= 1 + (IF (NumRows + 1) % LinesPerChunk = 0 THEN 1 ELSE 0)

\* block_refresh toggles: as long as nobody opens the popup again while it is
\* covered, it is covered exactly while the file is checked or a form is awaited.
OverlayIsBusy ==
    ~toggled => (blocked <=> \/ At({"counting", "asking", "hung"}) # {}
                             \/ refresh \notin {"closed", "idle"})

\* An import into some list that nothing disturbs gets to Done (successAndStart,
\* sendBatchToWS), unless the user leaves the page or a row without an e-mail value
\* makes massSubscribe fail (mergeDuplicates).
ImportEnds ==
    (At({"counting"}) # {} /\ pageLists # {})
        ~> \/ Done \/ refresh = "closed" \/ disturbed # {} \/ trouble > 0
           \/ \E c \in calls : c.pc = "lists" /\ KeyMissing(c)

------------------------------------------------------------------------------
(* The invariant that the safety properties follow from.                     *)

\* An attempt reads on where a chunk ended, at most to the end of the file.
ReadsOn(i) == i \in 1 .. NumRows + 1 /\ (i = 1 \/ i % LinesPerChunk = 0)

\* What holds whatever the user does.
Sound ==
    /\ \A a \in Attempts : attempt[a].pc = "reading" => ReadsOn(attempt[a].next)
    /\ \A c \in calls : /\ attempt[c.id[1]].pc # "none"
                       /\ \A e \in c.bad : e[2] \in c.rows
    /\ refresh = "filled" => selected = choice
    /\ refresh = "idle" => selected = pageLists
    /\ link => written # <<>>

\* One reason at a time covers the form, so that a toggle uncovers it.
Covering == At({"counting", "asking", "hung"})
FormAwaited == refresh \notin {"closed", "idle"}
OneCover ==
    ~toggled => \/ ~blocked /\ ~FormAwaited /\ Covering = {}
                \/ blocked /\ FormAwaited /\ Covering = {}
                \/ blocked /\ ~FormAwaited /\ \E a \in Attempts : Covering = {a}

\* One import at a time, for the lists of the form; before it reads, nothing is counted.
OneImport ==
    /\ \A a, b \in At({"counting", "asking", "reading"}) : a = b
    /\ At({"counting", "asking"}) # {} =>
          /\ \A c \in calls : ~Mine(c)
          /\ processed = 0 /\ errorLines = {} /\ passes = <<>> /\ written = <<>>
    /\ Running => "cancel" \in shown /\ refresh = "idle"
    /\ "done" \in shown => "cancel" \in shown

\* A row is unread, or under way in one call, or behind.
RowsOnce ==
    \A c \in calls : Mine(c) =>
        /\ \A d \in calls \ {c} : Mine(d) => c.rows \cap d.rows = {}
        /\ c.rows \cap RowsUnread = {}

\* The address of a row is subscribed to a list, or one of these errors names it.
Handled(r, l, errors) ==
    \/ <<EmailOf[r], l>> \in stored
    \/ \E e \in errors : EmailOf[e[2]] = EmailOf[r] /\ e[3] = l

\* A call has handled its rows for the lists it is done with.
CallsHandle ==
    \A c \in calls : Mine(c) /\ c.pc \in {"lists", "answered"} =>
        \A l \in pageLists : \/ c.pc = "lists" /\ l \in c.todo
                             \/ \A r \in c.rows : Handled(r, l, c.bad)

\* As many rows as are counted are behind, with a result for every list.
RowsSettled ==
    {r \in Rows \ (RowsInFlight \cup RowsUnread) :
        \A l \in pageLists : Handled(r, l, errorLines)}
CountedAreSettled ==
    /\ processed <= NumRows
    /\ "cancel" \in shown => processed <= Cardinality(RowsSettled)

\* The error file is written when all rows are counted, and once more for a call
\* without rows, the chunk behind the last line.
EmptyChunk == IF (NumRows + 1) % LinesPerChunk = 0 THEN 1 ELSE 0
EmptyCalls == {c \in calls : Mine(c) /\ c.rows = {}}
AtEnd == {a \in At({"reading"}) : attempt[a].next > NumRows}
FilesWritten ==
    /\ \A c, d \in EmptyCalls : c = d
    /\ EmptyCalls # {} => EmptyChunk = 1 /\ At({"reading"}) = {}
    /\ \A i \in DOMAIN passes : passes[i] = errorLines
    /\ \A i \in DOMAIN written : written[i] = errorLines
    /\ ~Complete(total, processed) => passes = <<>> /\ written = <<>>
    /\ Len(passes) + Len(written)
          <= IF EmptyCalls # {} \/ AtEnd # {} THEN 1 ELSE 1 + EmptyChunk

ImportInv ==
    /\ TypeOK /\ Sound /\ OneCover
    /\ disturbed = {} =>
          OneImport /\ RowsOnce /\ CallsHandle /\ CountedAreSettled /\ FilesWritten

=============================================================================
