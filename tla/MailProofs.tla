------------------------------- MODULE MailProofs -------------------------------
(* The safety of MailDelivery for any number of emails and senders and any     *)
(* failures: MailInv is inductive, and the safety properties follow from it.    *)
EXTENDS MailDelivery, SequenceTheorems, FiniteSetTheorems, TLAPS

------------------------------------------------------------------------------
(* What the shared operators do to the variables.                            *)

\* A row that Transit moves is the only one of its email.
LEMMA TransitRows ==
  ASSUME OneRow, TypeOK, NEW mail \in Row, NEW table \in Table, Transit(mail, table)
  PROVE  /\ \E v \in rows : v.email = mail.email /\ v.table = mail.table
         /\ rows' = {w \in rows : w.email # mail.email} \cup {[mail EXCEPT !.table = table]}
         /\ [mail EXCEPT !.table = table] \in Row
<1>1. PICK v \in rows : v.email = mail.email /\ v.table = mail.table
  BY DEF Transit, Stored
<1>2. Stored(mail) = {w \in rows : w.email = mail.email}
  BY <1>1 DEF Stored, OneRow
<1>3. rows \ Stored(mail) = {w \in rows : w.email # mail.email}
  BY <1>2
<1>4. [mail EXCEPT !.table = table] \in Row
  BY DEF Row
<1> QED BY <1>1, <1>3, <1>4 DEF Transit

LEMMA ListTypes ==
  ASSUME TypeOK, NEW l \in NextNEmailsInQueue
  PROVE  l \in Seq(Row) /\ \A i \in DOMAIN l : l[i] \in rows /\ l[i].table = "QUEUED"
<1> DEFINE queued == {w \in rows : w.table = "QUEUED"}
<1>1. PICK n \in 0 .. BatchSize : l \in [1 .. n -> queued]
  BY DEF NextNEmailsInQueue, ListsOf
<1>2. BatchSize \in Nat /\ n \in Nat
  BY MailAssumption
<1>3. l \in [1 .. n -> Row]
  BY <1>1 DEF TypeOK
<1>4. l \in Seq(Row)
  BY <1>2, <1>3
<1>5. DOMAIN l = 1 .. n /\ \A i \in 1 .. n : l[i] \in queued
  BY <1>1
<1> QED BY <1>4, <1>5

LEMMA ContinueTypes ==
  ASSUME TypeOK, NEW s \in Senders, NEW l \in Seq(Row), Continue(s, l)
  PROVE  /\ sendList' = [sendList EXCEPT ![s] = l]
         /\ sendList' \in [Senders -> Seq(Row)]
         /\ sendMail' \in [Senders -> Row \cup {NoMail}]
         /\ sendPC' \in [Senders -> {"idle", "lock", "send", "conclude", "commit"}]
         /\ sendResult' \in [Senders -> {"none", "SENT", "ERROR", "QUEUED"}]
         /\ \A t \in Senders \ {s} : /\ sendList'[t] = sendList[t]
                                     /\ sendMail'[t] = sendMail[t]
                                     /\ sendPC'[t] = sendPC[t]
                                     /\ sendResult'[t] = sendResult[t]
         /\ sendList'[s] = l
         /\ sendPC'[s] \in {"lock", "commit"}
         /\ sendPC'[s] = "lock" => l # <<>> /\ sendMail'[s] = Head(l) /\ sendMail'[s] \in Row
<1>1. l # <<>> => Head(l) \in Row
  BY HeadTailProperties
<1> QED BY <1>1 DEF Continue, TypeOK

LEMMA EndsTypes ==
  ASSUME TypeOK, NEW s \in Senders, Ends(s)
  PROVE  /\ sendList' \in [Senders -> Seq(Row)]
         /\ sendMail' \in [Senders -> Row \cup {NoMail}]
         /\ sendPC' \in [Senders -> {"idle", "lock", "send", "conclude", "commit"}]
         /\ sendResult' \in [Senders -> {"none", "SENT", "ERROR", "QUEUED"}]
         /\ merged' \in [Senders -> SUBSET Row]
         /\ \A t \in Senders \ {s} : /\ sendList'[t] = sendList[t]
                                     /\ sendMail'[t] = sendMail[t]
                                     /\ sendPC'[t] = sendPC[t]
                                     /\ sendResult'[t] = sendResult[t]
                                     /\ merged'[t] = merged[t]
         /\ sendList'[s] = <<>> /\ sendPC'[s] = "idle" /\ merged'[s] = {}
<1>1. <<>> \in Seq(Row)
  BY EmptySeq
<1> QED BY <1>1 DEF Ends, TypeOK

LEMMA FaultTypes ==
  ASSUME TypeOK, NEW k, Fault(k)
  PROVE  /\ faults' \in 0 .. MaxFaults
         /\ broken' \in BOOLEAN
         /\ ~ broken' => ~ broken /\ k \notin {"lock", "db", "crash"}
<1>1. faults' \in 0 .. MaxFaults
  BY MailAssumption DEF Fault, TypeOK
<1>2. broken' = (broken \/ k \in {"lock", "db", "crash"})
  BY DEF Fault
<1> QED BY <1>1, <1>2, Zenon DEF TypeOK

------------------------------------------------------------------------------
(* What a step leaves alone.                                                 *)

\* The step is not one of sender t.
Same(t) ==
    /\ sendPC'[t] = sendPC[t] /\ sendList'[t] = sendList[t]
    /\ sendMail'[t] = sendMail[t] /\ sendResult'[t] = sendResult[t]
    /\ merged'[t] = merged[t]

\* What SES accepted it never takes back.
Accepts == \A e \in Emails : accepted[e] <= accepted'[e]

LEMMA OtherSender ==
  ASSUME TypeOK, TypeOK', Accepts, NEW t \in Senders, SenderOK(t), Same(t)
  PROVE  /\ SenderOK(t)'
         /\ \A e : (Current(t, e)' <=> Current(t, e)) /\ (Merged(t, e)' <=> Merged(t, e))
<1>1. \A e : (Current(t, e)' <=> Current(t, e)) /\ (Merged(t, e)' <=> Merged(t, e))
  BY DEF Same, Current, Merged
<1>2. \A e \in Emails : accepted[e] \in Nat /\ accepted'[e] \in Nat
  BY DEF TypeOK
<1>3. \A e \in Emails : \A n \in 1 .. accepted[e] : n \in 1 .. accepted'[e]
  BY <1>2 DEF Accepts
<1>4. merged[t] \subseteq Row
  BY DEF TypeOK
<1>5. \A m \in merged[t] : m.id \in 1 .. accepted'[m.email]
  BY <1>3, <1>4 DEF SenderOK, Row
<1>6. sendPC[t] = "conclude" /\ sendResult[t] = "SENT" =>
         sendMail[t].id \in 1 .. accepted'[sendMail[t].email]
  BY <1>3 DEF SenderOK, Row
<1> QED BY <1>1, <1>5, <1>6 DEF SenderOK, Same

\* Nobody takes e in hand, and its row stays while somebody has it.
LEMMA HandFrame ==
  ASSUME NEW e \in Emails, HandOK(e),
         \A t \in Senders : Holds(t, e)' => Holds(t, e),
         \A t \in Senders : ~ (Current(t, e)' /\ Merged(t, e)'),
         \A t \in Senders : Holds(t, e)' =>
            \A w \in rows : w.email = e /\ w.table = "SENT" /\ w.id = 0 => w \in rows'
  PROVE  HandOK(e)'
BY DEF HandOK

\* SES is not asked to send e.
LEMMA AcceptedFrame ==
  ASSUME NEW e \in Emails, AcceptedOK(e),
         accepted'[e] = accepted[e], timeouts'[e] = timeouts[e], Unsent(e)' => Unsent(e)
  PROVE  AcceptedOK(e)'
BY DEF AcceptedOK

\* The parts of MailInv that depend on the rows and on what SES said only.
LEMMA RowsFrame ==
  ASSUME MailInv, UNCHANGED <<rows, bouncing, accepted>>,
         ~ broken' => ~ broken,
         ~ broken' => \A e \in Emails : accepted[e] = 0 =>
            \A s \in Senders : Current(s, e) => Current(s, e)'
  PROVE  OneRow' /\ QueuedUnsent' /\ BounceOK' /\ CalmOK'
<1>1. OneRow' /\ QueuedUnsent' /\ BounceOK'
  BY DEF MailInv, OneRow, QueuedUnsent, BounceOK, bouncing, reading
<1>2. \A w \in rows : w.email \in Emails /\ accepted[w.email] \in Nat
  BY DEF MailInv, TypeOK, Row
<1>3. CalmOK'
  BY <1>2 DEF MailInv, CalmOK, bouncing, reading
<1> QED BY <1>1, <1>3

\* A sender that turns to its next email handles none at this moment.
LEMMA ContinueSender ==
  ASSUME TypeOK, TypeOK', NEW s \in Senders, NEW l \in Seq(Row), Continue(s, l),
         \A i \in DOMAIN l : l[i].table = "QUEUED" /\ l[i].id = 0,
         \A m \in merged'[s] : m.table = "SENT" /\ m.id \in 1 .. accepted'[m.email],
         \A m, n \in merged'[s] : m.email = n.email => m = n
  PROVE  SenderOK(s)' /\ \A e : ~ Current(s, e)'
BY ContinueTypes DEF SenderOK, Current

LEMMA EndsSender ==
  ASSUME TypeOK, TypeOK', NEW s \in Senders, Ends(s)
  PROVE  SenderOK(s)' /\ \A e : ~ Holds(s, e)'
BY EndsTypes DEF SenderOK, Holds, Current, Merged

\* The emails of a tail are emails of the list.
LEMMA TailQueued ==
  ASSUME NEW l \in Seq(Row), l # <<>>,
         \A i \in DOMAIN l : l[i].table = "QUEUED" /\ l[i].id = 0
  PROVE  /\ Tail(l) \in Seq(Row)
         /\ \A i \in DOMAIN Tail(l) : Tail(l)[i].table = "QUEUED" /\ Tail(l)[i].id = 0
<1>1. /\ Len(l) \in Nat /\ DOMAIN l = 1 .. Len(l)
      /\ Tail(l) \in Seq(Row) /\ Len(Tail(l)) = Len(l) - 1
      /\ \A i \in 1 .. Len(Tail(l)) : Tail(l)[i] = l[i + 1]
  BY HeadTailProperties, LenProperties
<1>2. DOMAIN Tail(l) = 1 .. Len(Tail(l))
  BY <1>1, LenProperties
<1>3. \A i \in 1 .. Len(Tail(l)) : i + 1 \in 1 .. Len(l)
  BY <1>1
<1> QED BY <1>1, <1>2, <1>3

\* A step that is not a sender's leaves what the senders hold.
LEMMA NoSender ==
  ASSUME TypeOK, TypeOK', UNCHANGED <<sending, accepted>>, \A s \in Senders : SenderOK(s)
  PROVE  /\ \A s \in Senders : SenderOK(s)'
         /\ \A s \in Senders : \A e : (Current(s, e)' <=> Current(s, e)) /\ (Merged(s, e)' <=> Merged(s, e))
<1>1. Accepts
  BY DEF Accepts, TypeOK
<1>2. \A s \in Senders : Same(s)
  BY DEF Same, sending
<1> QED BY <1>1, <1>2, OtherSender

\* The sender s holds no email it did not hold, and keeps its own.
LEMMA OthersHold ==
  ASSUME MailInv, TypeOK', Accepts, NEW s \in Senders, \A t \in Senders \ {s} : Same(t), SenderOK(s)'
  PROVE  /\ \A t \in Senders : SenderOK(t)'
         /\ \A t \in Senders \ {s} : \A e : /\ (Current(t, e)' <=> Current(t, e))
                                             /\ (Merged(t, e)' <=> Merged(t, e))
                                             /\ (Holds(t, e)' <=> Holds(t, e))
BY OtherSender DEF MailInv, Holds

------------------------------------------------------------------------------
(* New emails.                                                               *)

\* A row for an email that had none.
LEMMA NewRow ==
  ASSUME MailInv, NEW q \in Emails, RowsOf(q) = {}, rows' = rows \cup {Queued(q)},
         TypeOK', UNCHANGED <<ses, bouncing, faults, broken>>,
         \A s \in Senders : \A e : (Current(s, e)' <=> Current(s, e)) /\ (Merged(s, e)' <=> Merged(s, e)),
         \A s \in Senders : \A e : Current(s, e)' => sendResult'[s] = sendResult[s],
         \A s \in Senders : SenderOK(s)'
  PROVE  MailInv'
<1>1. OneRow' /\ QueuedUnsent'
  BY DEF MailInv, OneRow, QueuedUnsent, RowsOf, Queued
<1>2. ASSUME NEW e \in Emails
      PROVE  HandOK(e)' /\ AcceptedOK(e)'
  <2>1. HandOK(e)'
    BY HandFrame DEF MailInv, HandOK, Holds
  <2>2. Unsent(e)' => Unsent(e)
    <3>1. CASE e = q
      BY <3>1 DEF Unsent
    <3>2. CASE e # q
      <4>1. RowsOf(e)' = RowsOf(e)
        BY <3>2 DEF RowsOf, Queued
      <4> QED BY <4>1 DEF Unsent
    <3> QED BY <3>1, <3>2
  <2> QED BY <2>1, <2>2, AcceptedFrame DEF MailInv, ses
<1>3. BounceOK'
  BY DEF MailInv, BounceOK, bouncing, reading
<1>4. CalmOK'
  BY DEF MailInv, CalmOK, Queued, ses, bouncing, reading
<1> QED BY <1>1, <1>2, <1>3, <1>4 DEF MailInv

LEMMA QueueEmailStep ==
  ASSUME MailInv, NEW e \in Emails, QueueEmail(e)
  PROVE  MailInv'
<1>1. TypeOK'
  <2>1. Queued(e) \in Row
    BY DEF Queued, Row, Table
  <2> QED BY <2>1 DEF MailInv, TypeOK, QueueEmail, sending, ses, bouncing, reading
<1>2. /\ \A s \in Senders : SenderOK(s)'
      /\ \A s \in Senders : \A f : (Current(s, f)' <=> Current(s, f)) /\ (Merged(s, f)' <=> Merged(s, f))
  BY <1>1, NoSender DEF MailInv, QueueEmail, ses
<1> QED BY <1>1, <1>2, NewRow DEF QueueEmail, sending

LEMMA SendQuickMailStep ==
  ASSUME MailInv, NEW s \in Senders, NEW e \in Emails, SendQuickMail(s, e)
  PROVE  MailInv'
<1> DEFINE l == <<Queued(e)>>
<1>1. Queued(e) \in Row /\ Queued(e).table = "QUEUED" /\ Queued(e).id = 0
  BY DEF Queued, Row, Table
<1>2. l \in Seq(Row) /\ \A i \in DOMAIN l : l[i].table = "QUEUED" /\ l[i].id = 0
  BY <1>1
<1>3. Continue(s, l) /\ UNCHANGED <<merged, ses, bouncing, faults, broken>>
  BY DEF SendQuickMail
<1> HIDE DEF l
<1>4. TypeOK'
  <2>1. rows' \subseteq Row
    BY <1>1 DEF MailInv, TypeOK, SendQuickMail
  <2> QED BY <1>2, <1>3, <2>1, ContinueTypes DEF MailInv, TypeOK, ses, bouncing, reading
<1>5. SenderOK(s)' /\ \A f : ~ Current(s, f)' /\ ~ Current(s, f)
  <2>1. SenderOK(s)
    BY DEF MailInv
  <2>2. sendPC[s] = "idle"
    BY DEF SendQuickMail
  <2> QED BY <1>2, <1>3, <1>4, <2>1, <2>2, ContinueSender DEF MailInv, SenderOK, Current, ses
<1>6. \A t \in Senders \ {s} : Same(t)
  BY <1>2, <1>3, ContinueTypes DEF MailInv, Same
<1>7. Accepts
  BY <1>3 DEF Accepts, ses, MailInv, TypeOK
<1>8. \A t \in Senders : SenderOK(t)'
  BY <1>4, <1>5, <1>6, <1>7, OthersHold
<1>9. \A t \in Senders : \A f : (Current(t, f)' <=> Current(t, f)) /\ (Merged(t, f)' <=> Merged(t, f))
  <2>1. \A f : Merged(s, f)' <=> Merged(s, f)
    BY <1>3 DEF Merged
  <2> QED BY <1>4, <1>5, <1>6, <1>7, <2>1, OthersHold
<1>10. \A t \in Senders : \A f : Current(t, f)' => sendResult'[t] = sendResult[t]
  BY <1>5, <1>6 DEF Same
<1> QED BY <1>3, <1>4, <1>8, <1>9, <1>10, NewRow DEF SendQuickMail

------------------------------------------------------------------------------
(* The steps of a sender that leave the rows alone.                          *)

\* They keep the invariant when the sender s takes no email in hand, asks SES
\* for nothing, and a failure accounts for what it drops.
LEMMA SenderFrame ==
  ASSUME MailInv, TypeOK', NEW s \in Senders, SenderOK(s)', \A t \in Senders \ {s} : Same(t),
         UNCHANGED <<rows, ses, bouncing>>, ~ broken' => ~ broken,
         \A e : Holds(s, e)' => Holds(s, e),
         \A e : ~ (Current(s, e)' /\ Merged(s, e)'),
         \A e \in Emails : Current(s, e)' /\ sendResult'[s] # "SENT" => Unsent(e),
         ~ broken' => \A e \in Emails : accepted[e] = 0 => (Current(s, e) => Current(s, e)')
  PROVE  MailInv'
<1>1. Accepts
  BY DEF Accepts, ses, MailInv, TypeOK
<1>2. /\ \A t \in Senders : SenderOK(t)'
      /\ \A t \in Senders \ {s} : \A e : /\ (Current(t, e)' <=> Current(t, e))
                                          /\ (Merged(t, e)' <=> Merged(t, e))
                                          /\ (Holds(t, e)' <=> Holds(t, e))
  BY <1>1, OthersHold
<1>3. OneRow' /\ QueuedUnsent' /\ BounceOK' /\ CalmOK'
  <2>1. ~ broken' => \A e \in Emails : accepted[e] = 0 =>
            \A t \in Senders : Current(t, e) => Current(t, e)'
    BY <1>2
  <2> QED BY <2>1, RowsFrame DEF ses
<1>4. ASSUME NEW e \in Emails
      PROVE  HandOK(e)' /\ AcceptedOK(e)'
  <2>1. HandOK(e)'
    <3>1. \A t \in Senders : Holds(t, e)' => Holds(t, e)
      BY <1>2
    <3>2. \A t \in Senders : ~ (Current(t, e)' /\ Merged(t, e)')
      BY <1>2 DEF MailInv, HandOK
    <3> QED BY <3>1, <3>2, HandFrame DEF MailInv
  <2>2. Unsent(e)' => Unsent(e)
    <3>1. RowsOf(e)' = RowsOf(e)
      BY DEF RowsOf
    <3>2. \A t \in Senders \ {s} : Current(t, e)' /\ sendResult'[t] # "SENT" => Unsent(e)
      BY <1>2 DEF Same, Unsent
    <3> QED BY <3>1, <3>2 DEF Unsent
  <2> QED BY <2>1, <2>2, AcceptedFrame DEF MailInv, ses
<1> QED BY <1>2, <1>3, <1>4 DEF MailInv

LEMMA ProcessEmailQueueStep ==
  ASSUME MailInv, NEW s \in Senders, ProcessEmailQueue(s)
  PROVE  MailInv'
<1>1. /\ sendPC[s] = "idle"
      /\ UNCHANGED <<rows, merged, ses, bouncing, faults, broken>>
  BY DEF ProcessEmailQueue
<1>2. PICK l \in NextNEmailsInQueue : Continue(s, l)
  BY DEF ProcessEmailQueue
<1>3. l \in Seq(Row) /\ \A i \in DOMAIN l : l[i].table = "QUEUED" /\ l[i].id = 0
  BY ListTypes DEF MailInv, QueuedUnsent
<1>4. TypeOK'
  BY <1>1, <1>2, <1>3, ContinueTypes DEF MailInv, TypeOK, ses, bouncing, reading
<1>5. SenderOK(s)' /\ \A e : ~ Current(s, e)'
  <2>1. SenderOK(s)
    BY DEF MailInv
  <2> QED BY <1>1, <1>2, <1>3, <1>4, <2>1, ContinueSender DEF MailInv, SenderOK, ses
<1>6. \A t \in Senders \ {s} : Same(t)
  BY <1>1, <1>2, <1>3, ContinueTypes DEF MailInv, Same
<1>7. \A e : Holds(s, e)' => Holds(s, e)
  BY <1>1, <1>5 DEF Holds, Merged
<1>8. \A e : ~ Current(s, e)
  BY <1>1 DEF Current
<1> QED BY <1>1, <1>4, <1>5, <1>6, <1>7, <1>8, SenderFrame

LEMMA SenderCrashStep ==
  ASSUME MailInv, NEW s \in Senders, SenderCrash(s)
  PROVE  MailInv'
<1>1. Fault("crash") /\ Ends(s) /\ UNCHANGED <<rows, ses, bouncing>>
  BY DEF SenderCrash
<1>2. TypeOK'
  BY <1>1, EndsTypes, FaultTypes DEF MailInv, TypeOK, ses, bouncing, reading
<1>3. SenderOK(s)' /\ \A e : ~ Holds(s, e)'
  BY <1>1, <1>2, EndsSender DEF MailInv
<1>4. \A t \in Senders \ {s} : Same(t)
  BY <1>1, EndsTypes DEF MailInv, Same
<1>5. broken'
  BY <1>1, FaultTypes DEF MailInv
<1> QED BY <1>1, <1>2, <1>3, <1>4, <1>5, SenderFrame DEF Holds

\* A sender that has locked or not locked its email concludes with it.
LEMMA GotoTypes ==
  ASSUME TypeOK, NEW s \in Senders, NEW pc \in {"send", "conclude"}, NEW mail \in Row,
         NEW result \in {"none", "SENT", "ERROR", "QUEUED"}, Goto(s, pc, mail, result)
  PROVE  /\ sendList' \in [Senders -> Seq(Row)]
         /\ sendMail' \in [Senders -> Row \cup {NoMail}]
         /\ sendPC' \in [Senders -> {"idle", "lock", "send", "conclude", "commit"}]
         /\ sendResult' \in [Senders -> {"none", "SENT", "ERROR", "QUEUED"}]
         /\ \A t \in Senders \ {s} : /\ sendList'[t] = sendList[t]
                                     /\ sendMail'[t] = sendMail[t]
                                     /\ sendPC'[t] = sendPC[t]
                                     /\ sendResult'[t] = sendResult[t]
         /\ sendList'[s] = sendList[s] /\ sendPC'[s] = pc
         /\ sendMail'[s] = mail /\ sendResult'[s] = result
BY DEF Goto, TypeOK

------------------------------------------------------------------------------
(* The steps that move a row.                                                *)

\* An email whose row is not in SENT without an id is in nobody's hand.
LEMMA NotHeld ==
  ASSUME MailInv, NEW v \in rows, v.table # "SENT" \/ v.id # 0
  PROVE  \A t \in Senders : ~ Holds(t, v.email)
BY DEF MailInv, TypeOK, Row, HandOK, OneRow

\* A row that Transit moves, and all the others.
LEMMA MoveRow ==
  ASSUME MailInv, NEW mail \in Row, NEW table \in Table, Transit(mail, table),
         table = "QUEUED" => mail.id = 0
  PROVE  /\ rows' \subseteq Row /\ OneRow' /\ QueuedUnsent'
         /\ [mail EXCEPT !.table = table] \in rows'
         /\ \A w \in rows' : w.email = mail.email => w = [mail EXCEPT !.table = table]
         /\ \A e : e # mail.email => RowsOf(e)' = RowsOf(e)
         /\ \A w \in rows : w.email # mail.email => w \in rows'
         /\ \A w \in rows' : w.email # mail.email => w \in rows
         /\ \E v \in rows : v.email = mail.email /\ v.table = mail.table
<1> DEFINE new == [mail EXCEPT !.table = table]
<1>1. /\ \E v \in rows : v.email = mail.email /\ v.table = mail.table
      /\ rows' = {w \in rows : w.email # mail.email} \cup {new}
      /\ new \in Row
  BY TransitRows DEF MailInv
<1>2. new.email = mail.email /\ new.table = table /\ new.id = mail.id
  BY DEF Row
<1> HIDE DEF new
<1>3. rows' \subseteq Row
  BY <1>1 DEF MailInv, TypeOK
<1>4. OneRow'
  BY <1>1, <1>2 DEF MailInv, OneRow
<1>5. QueuedUnsent'
  BY <1>1, <1>2 DEF MailInv, QueuedUnsent
<1>6. new \in rows' /\ \A w \in rows' : w.email = mail.email => w = new
  BY <1>1
<1>7. \A e : e # mail.email => RowsOf(e)' = RowsOf(e)
  BY <1>1, <1>2 DEF RowsOf
<1> QED BY <1>1, <1>2, <1>3, <1>4, <1>5, <1>6, <1>7 DEF new

\* The emails whose rows stay where they are.
LEMMA OtherEmail ==
  ASSUME MailInv, NEW e \in Emails, RowsOf(e)' = RowsOf(e),
         accepted'[e] = accepted[e], timeouts'[e] = timeouts[e],
         \A t \in Senders : Holds(t, e)' => Holds(t, e),
         \A t \in Senders : ~ (Current(t, e)' /\ Merged(t, e)'),
         \A t \in Senders : Current(t, e)' /\ sendResult'[t] # "SENT" => Unsent(e)
  PROVE  HandOK(e)' /\ AcceptedOK(e)'
<1>1. HandOK(e)'
  <2>1. \A w \in rows : w.email = e => w \in rows'
    BY DEF RowsOf
  <2> QED BY <2>1, HandFrame DEF MailInv
<1>2. Unsent(e)' => Unsent(e)
  BY DEF Unsent
<1> QED BY <1>1, <1>2, AcceptedFrame DEF MailInv

\* The email of a sender about to lock it is a new one, as it was selected.
LEMMA LockMail ==
  ASSUME MailInv, NEW s \in Senders, sendPC[s] = "lock"
  PROVE  /\ sendMail[s] \in Row /\ sendMail[s].table = "QUEUED" /\ sendMail[s].id = 0
         /\ sendList[s] # <<>>
<1>1. SenderOK(s)
  BY DEF MailInv
<1>2. sendList[s] # <<>> /\ sendMail[s] \in Row /\ sendMail[s] = Head(sendList[s])
  BY <1>1 DEF SenderOK
<1>3. sendMail[s] = sendList[s][1] /\ 1 \in DOMAIN sendList[s]
  BY <1>2, EmptySeq, LenProperties DEF MailInv, TypeOK
<1> QED BY <1>1, <1>2, <1>3 DEF SenderOK

LEMMA LockMoves ==
  ASSUME MailInv, NEW s \in Senders, sendPC[s] = "lock", Transit(sendMail[s], "SENT"),
         Goto(s, "send", [sendMail[s] EXCEPT !.table = "SENT"], "none"),
         NoFault, UNCHANGED <<merged, ses, bouncing>>
  PROVE  MailInv'
<1> DEFINE m == sendMail[s]
           new == [m EXCEPT !.table = "SENT"]
<1>1. m \in Row /\ m.table = "QUEUED" /\ m.id = 0
  BY LockMail
<1>2. new \in Row /\ new.email = m.email /\ new.table = "SENT" /\ new.id = 0
  BY <1>1 DEF Row, Table
<1>3. /\ rows' \subseteq Row /\ OneRow' /\ QueuedUnsent'
      /\ new \in rows' /\ \A w \in rows' : w.email = m.email => w = new
      /\ \A e : e # m.email => RowsOf(e)' = RowsOf(e)
      /\ \A w \in rows : w.email # m.email => w \in rows'
      /\ \A w \in rows' : w.email # m.email => w \in rows
      /\ \E v \in rows : v.email = m.email /\ v.table = m.table
  BY <1>1, MoveRow DEF Table
<1>4. Goto(s, "send", new, "none") /\ m.email \in Emails
  BY <1>1 DEF Row
<1> HIDE DEF new
<1>5. TypeOK'
  BY <1>2, <1>3, <1>4, GotoTypes DEF MailInv, TypeOK, ses, bouncing, reading, NoFault
<1>6. sendPC'[s] = "send" /\ sendMail'[s] = new /\ sendResult'[s] = "none"
      /\ sendList'[s] = sendList[s]
  BY <1>2, <1>4, GotoTypes DEF MailInv
<1>7. SenderOK(s)' /\ \A t \in Senders \ {s} : Same(t)
  <2>1. \A t \in Senders \ {s} : Same(t)
    BY <1>2, <1>4, GotoTypes DEF MailInv, Same
  <2>2. SenderOK(s)
    BY DEF MailInv
  <2> QED BY <1>2, <1>6, <2>1, <2>2 DEF SenderOK, ses
<1>8. Accepts
  BY DEF Accepts, ses, MailInv, TypeOK
<1>9. /\ \A t \in Senders : SenderOK(t)'
      /\ \A t \in Senders \ {s} : \A e : /\ (Current(t, e)' <=> Current(t, e))
                                          /\ (Merged(t, e)' <=> Merged(t, e))
                                          /\ (Holds(t, e)' <=> Holds(t, e))
  BY <1>5, <1>7, <1>8, OthersHold
<1>10. \A e : /\ Current(s, e)' <=> e = m.email
              /\ ~ Current(s, e)
              /\ Merged(s, e)' <=> Merged(s, e)
  BY <1>2, <1>6 DEF Current, Merged
<1>11. \A t \in Senders : ~ Holds(t, m.email)
  BY <1>1, <1>3, NotHeld
<1>12. ASSUME NEW e \in Emails
       PROVE  HandOK(e)' /\ AcceptedOK(e)'
  <2>1. CASE e = m.email
    <3>1. \A t \in Senders : Holds(t, e)' => t = s
      BY <1>9, <1>11, <2>1
    <3>2. \A t \in Senders : ~ (Current(t, e)' /\ Merged(t, e)')
      BY <1>9, <1>10, <1>11, <2>1 DEF Holds
    <3>3. HandOK(e)'
      BY <1>2, <1>3, <2>1, <3>1, <3>2 DEF HandOK
    <3>4. Unsent(e)
      BY <1>1, <1>3, <2>1 DEF Unsent, RowsOf
    <3> QED BY <3>3, <3>4 DEF MailInv, AcceptedOK, ses
  <2>2. CASE e # m.email
    <3>1. \A t \in Senders : Holds(t, e)' => Holds(t, e)
      BY <1>9, <1>10, <2>2 DEF Holds
    <3>2. \A t \in Senders : ~ (Current(t, e)' /\ Merged(t, e)')
      BY <1>9, <1>10, <2>2 DEF MailInv, HandOK
    <3>3. \A t \in Senders : Current(t, e)' /\ sendResult'[t] # "SENT" => Unsent(e)
      BY <1>7, <1>9, <1>10, <2>2 DEF Same, Unsent
    <3> QED BY <1>3, <2>2, <3>1, <3>2, <3>3, OtherEmail DEF ses
  <2> QED BY <2>1, <2>2
<1>13. BounceOK'
  <2>1. \A w \in rows : w.table # "QUEUED" => w \in rows'
    BY <1>1, <1>3 DEF MailInv, OneRow
  <2> QED BY <2>1 DEF MailInv, BounceOK, bouncing, reading
<1>14. CalmOK'
  BY <1>2, <1>3, <1>9, <1>10 DEF MailInv, CalmOK, NoFault, ses, bouncing, reading
<1> QED BY <1>3, <1>5, <1>9, <1>12, <1>13, <1>14 DEF MailInv

\* A row that could not be locked leaves the sender with the QUEUED entity.
LEMMA LockFails ==
  ASSUME MailInv, NEW s \in Senders, sendPC[s] = "lock",
         Goto(s, "conclude", sendMail[s], "ERROR"), UNCHANGED <<rows, merged, ses, bouncing>>,
         faults' \in 0 .. MaxFaults, broken' \in BOOLEAN, ~ broken' => ~ broken
  PROVE  MailInv'
<1>1. sendMail[s] \in Row /\ sendMail[s].table = "QUEUED" /\ sendMail[s].id = 0 /\ sendList[s] # <<>>
  BY LockMail
<1>2. TypeOK'
  BY <1>1, GotoTypes DEF MailInv, TypeOK, ses, bouncing, reading
<1>3. /\ sendPC'[s] = "conclude" /\ sendMail'[s] = sendMail[s] /\ sendResult'[s] = "ERROR"
      /\ sendList'[s] = sendList[s]
      /\ \A t \in Senders \ {s} : Same(t)
  BY <1>1, GotoTypes DEF MailInv, Same
<1>4. SenderOK(s)'
  <2>1. SenderOK(s)
    BY DEF MailInv
  <2> QED BY <1>1, <1>3, <2>1 DEF SenderOK, ses
<1>5. \A e : /\ ~ Current(s, e)' /\ ~ Current(s, e)
             /\ Holds(s, e)' => Holds(s, e)
  BY <1>1, <1>3 DEF Current, Holds, Merged
<1> QED BY <1>2, <1>3, <1>4, <1>5, SenderFrame

\* The failures of an action leave what a step without one leaves.
LEMMA MayFail ==
  ASSUME TypeOK, NoFault \/ (\E k \in AllFaults : Fault(k))
  PROVE  faults' \in 0 .. MaxFaults /\ broken' \in BOOLEAN /\ (~ broken' => ~ broken)
<1>1. CASE NoFault
  BY <1>1 DEF NoFault, TypeOK
<1>2. CASE \E k \in AllFaults : Fault(k)
  BY <1>2, FaultTypes
<1> QED BY <1>1, <1>2

LEMMA LockStep ==
  ASSUME MailInv, NEW s \in Senders, Lock(s)
  PROVE  MailInv'
<1>1. sendPC[s] = "lock" /\ UNCHANGED <<merged, ses, bouncing>>
  BY DEF Lock
<1>2. CASE /\ Transit(sendMail[s], "SENT")
           /\ Goto(s, "send", [sendMail[s] EXCEPT !.table = "SENT"], "none")
           /\ NoFault
  BY <1>1, <1>2, LockMoves
<1>3. CASE TransitRefused(sendMail[s]) /\ Goto(s, "conclude", sendMail[s], "ERROR")
  <2>1. UNCHANGED rows /\ (NoFault \/ \E k \in AllFaults : Fault(k))
    BY <1>3 DEF TransitRefused, AllFaults
  <2> QED BY <1>1, <1>3, <2>1, LockFails, MayFail DEF MailInv
<1>4. CASE Fault("db") /\ Goto(s, "conclude", sendMail[s], "ERROR") /\ UNCHANGED rows
  <2>1. \E k \in AllFaults : Fault(k)
    BY <1>4 DEF AllFaults
  <2> QED BY <1>1, <1>4, <2>1, LockFails, MayFail DEF MailInv
<1> QED BY <1>2, <1>3, <1>4 DEF Lock

------------------------------------------------------------------------------
(* SES answers, or does not.                                                 *)

\* SES accepted mail n more times, its answer was lost l of them.
LEMMA SendAnswer ==
  ASSUME MailInv, NEW s \in Senders, sendPC[s] = "send", UNCHANGED <<rows, merged, bouncing>>,
         NEW mail \in Row, NEW result \in {"SENT", "ERROR", "QUEUED"},
         mail.email = sendMail[s].email, mail.table = "SENT",
         Goto(s, "conclude", mail, result),
         faults' \in 0 .. MaxFaults, broken' \in BOOLEAN, ~ broken' => ~ broken,
         accepted' \in [Emails -> Nat], timeouts' \in [Emails -> Nat],
         \A e \in Emails : e # mail.email => accepted'[e] = accepted[e] /\ timeouts'[e] = timeouts[e],
         accepted[mail.email] <= accepted'[mail.email],
         result = "SENT" =>
            /\ mail.id \in 1 .. accepted'[mail.email]
            /\ accepted'[mail.email] = accepted[mail.email] + 1
            /\ timeouts'[mail.email] = timeouts[mail.email],
         result # "SENT" =>
            /\ mail.id = 0
            /\ \E n \in {0, 1} : /\ accepted'[mail.email] = accepted[mail.email] + n
                                 /\ timeouts'[mail.email] = timeouts[mail.email] + n
  PROVE  MailInv'
<1> DEFINE q == mail.email
<1>1. q \in Emails
  BY DEF Row
<1>2. TypeOK'
  BY GotoTypes DEF MailInv, TypeOK, bouncing, reading
<1>3. /\ sendPC'[s] = "conclude" /\ sendMail'[s] = mail /\ sendResult'[s] = result
      /\ sendList'[s] = sendList[s] /\ merged'[s] = merged[s]
      /\ \A t \in Senders \ {s} : Same(t)
  BY GotoTypes DEF MailInv, Same
<1>4. SenderOK(s) /\ sendMail[s].table = "SENT" /\ sendResult[s] = "none"
  BY DEF MailInv, SenderOK
<1>5. Accepts
  <2> SUFFICES ASSUME NEW e \in Emails PROVE accepted[e] <= accepted'[e]
    BY DEF Accepts
  <2>1. accepted[e] \in Nat
    BY DEF MailInv, TypeOK
  <2>2. CASE e = mail.email
    BY <2>2
  <2>3. CASE e # mail.email
    BY <2>1, <2>3
  <2> QED BY <2>2, <2>3
<1>6. \A m \in merged[s] : m.id \in 1 .. accepted'[m.email]
  <2>1. \A m \in merged[s] : m.email \in Emails
    BY DEF MailInv, TypeOK, Row
  <2>2. \A e \in Emails : accepted[e] \in Nat /\ accepted'[e] \in Nat
    BY DEF MailInv, TypeOK
  <2>3. \A e \in Emails : \A n \in 1 .. accepted[e] : n \in 1 .. accepted'[e]
    BY <1>5, <2>2 DEF Accepts
  <2> QED BY <1>4, <2>1, <2>3 DEF SenderOK
<1>7. SenderOK(s)'
  BY <1>3, <1>4, <1>6 DEF SenderOK
<1>8. /\ \A t \in Senders : SenderOK(t)'
      /\ \A t \in Senders \ {s} : \A e : /\ (Current(t, e)' <=> Current(t, e))
                                          /\ (Merged(t, e)' <=> Merged(t, e))
                                          /\ (Holds(t, e)' <=> Holds(t, e))
  BY <1>2, <1>3, <1>5, <1>7, OthersHold
<1>9. \A e : (Current(s, e)' <=> Current(s, e)) /\ (Merged(s, e)' <=> Merged(s, e))
  BY <1>3, <1>4 DEF Current, Merged
<1>10. OneRow' /\ QueuedUnsent' /\ BounceOK'
  BY DEF MailInv, OneRow, QueuedUnsent, BounceOK, bouncing, reading
<1>11. CalmOK'
  <2>1. \A w \in rows : w.email \in Emails /\ (accepted[w.email] > 0 => accepted'[w.email] > 0)
    BY <1>5 DEF Accepts, MailInv, TypeOK, Row
  <2> QED BY <1>8, <1>9, <2>1 DEF MailInv, CalmOK, bouncing, reading
<1>12. ASSUME NEW e \in Emails
       PROVE  HandOK(e)' /\ AcceptedOK(e)'
  <2>1. HandOK(e)'
    BY <1>8, <1>9, HandFrame DEF MailInv, HandOK, Holds
  <2>2. CASE e # q
    <3>1. \A t \in Senders : Current(t, e)' /\ sendResult'[t] # "SENT" => Unsent(e)
      BY <1>3, <1>4, <1>8, <1>9 DEF Same, Unsent
    <3>2. Unsent(e)' => Unsent(e)
      BY <3>1 DEF Unsent, RowsOf
    <3> QED BY <2>1, <2>2, <3>2, AcceptedFrame DEF MailInv
  <2>3. CASE e = q
    <3>1. Current(s, e) /\ Unsent(e)
      BY <1>4, <2>3 DEF Current, Unsent
    <3>2. accepted[e] <= timeouts[e] /\ accepted[e] \in Nat /\ timeouts[e] \in Nat
      BY <3>1 DEF MailInv, AcceptedOK, TypeOK
    <3>3. CASE result # "SENT"
      <4>1. accepted'[e] <= timeouts'[e] /\ accepted'[e] \in Nat /\ timeouts'[e] \in Nat
        BY <2>3, <3>2, <3>3
      <4> QED BY <2>1, <4>1 DEF AcceptedOK
    <3>4. CASE result = "SENT"
      <4>1. \E w \in rows : w.email = e /\ w.table = "SENT"
        BY <3>1 DEF MailInv, HandOK, Holds
      <4>2. \A t \in Senders : Current(t, e)' => t = s
        BY <1>8, <1>9, <3>1 DEF MailInv, HandOK, Holds
      <4>3. ~ Unsent(e)'
        BY <1>3, <3>4, <4>1, <4>2 DEF MailInv, Unsent, RowsOf, OneRow
      <4> QED BY <2>1, <2>3, <3>2, <3>4, <4>3 DEF AcceptedOK
    <3> QED BY <3>3, <3>4
  <2> QED BY <2>2, <2>3
<1> QED BY <1>2, <1>8, <1>10, <1>11, <1>12 DEF MailInv

LEMMA SendStep ==
  ASSUME MailInv, NEW s \in Senders, Send(s)
  PROVE  MailInv'
<1> DEFINE mail == sendMail[s]
           again == [mail EXCEPT !.retries = @ + 1]
           known == [mail EXCEPT !.id = accepted'[mail.email]]
<1>1. sendPC[s] = "send" /\ UNCHANGED <<rows, merged, bouncing>>
  BY DEF Send
<1>2. mail \in Row /\ mail.table = "SENT" /\ mail.id = 0
  BY <1>1 DEF MailInv, SenderOK
<1>3. mail.email \in Emails /\ accepted[mail.email] \in Nat /\ timeouts[mail.email] \in Nat
  BY <1>2 DEF Row, MailInv, TypeOK
<1>4. accepted \in [Emails -> Nat] /\ timeouts \in [Emails -> Nat]
  BY DEF MailInv, TypeOK
<1>5. again \in Row /\ again.email = mail.email /\ again.table = "SENT" /\ again.id = 0
  BY <1>2 DEF Row
<1>6. Retry(again) \in {"ERROR", "QUEUED"}
  BY DEF Retry
<1>7. CASE mail.email \in Invalid /\ Goto(s, "conclude", mail, "ERROR") /\ NoFault /\ UNCHANGED ses
  <2>1. faults' \in 0 .. MaxFaults /\ broken' \in BOOLEAN /\ (~ broken' => ~ broken)
    BY <1>7, MayFail DEF MailInv
  <2>2. accepted' = accepted /\ timeouts' = timeouts
    BY <1>7 DEF ses
  <2>3. \E n \in {0, 1} : /\ accepted'[mail.email] = accepted[mail.email] + n
                         /\ timeouts'[mail.email] = timeouts[mail.email] + n
    BY <1>3, <2>2
  <2>4. Goto(s, "conclude", mail, "ERROR") /\ accepted[mail.email] <= accepted'[mail.email]
    BY <1>3, <1>7, <2>2
  <2> HIDE DEF mail
  <2> QED BY <1>1, <1>2, <1>4, <2>1, <2>2, <2>3, <2>4, SendAnswer DEF mail
<1>8. CASE /\ Accept(mail.email)
           /\ Goto(s, "conclude", known, "SENT")
           /\ NoFault /\ UNCHANGED timeouts
  <2>1. faults' \in 0 .. MaxFaults /\ broken' \in BOOLEAN /\ (~ broken' => ~ broken)
    BY <1>8, MayFail DEF MailInv
  <2>2. accepted' = [accepted EXCEPT ![mail.email] = accepted[mail.email] + 1]
    BY <1>8 DEF Accept
  <2>3. /\ accepted' \in [Emails -> Nat] /\ timeouts' = timeouts
        /\ accepted'[mail.email] = accepted[mail.email] + 1
        /\ \A e \in Emails : e # mail.email => accepted'[e] = accepted[e]
    BY <1>3, <1>4, <1>8, <2>2
  <2>4. known \in Row /\ known.email = mail.email /\ known.table = "SENT"
        /\ known.id = accepted'[mail.email]
    BY <1>2, <1>3, <2>3 DEF Row
  <2>5. known.id \in 1 .. accepted'[mail.email] /\ accepted[mail.email] <= accepted'[mail.email]
    BY <1>3, <2>3, <2>4
  <2>6. Goto(s, "conclude", known, "SENT")
    BY <1>8
  <2> HIDE DEF known
  <2> QED BY <1>1, <1>4, <2>1, <2>3, <2>4, <2>5, <2>6, SendAnswer
<1>9. CASE /\ Goto(s, "conclude", again, Retry(again))
           /\ \/ Fault("ses") /\ UNCHANGED ses
              \/ /\ Fault("timeout")
                 /\ Accept(mail.email)
                 /\ timeouts' = [timeouts EXCEPT ![mail.email] = @ + 1]
  <2>1. faults' \in 0 .. MaxFaults /\ broken' \in BOOLEAN /\ (~ broken' => ~ broken)
    BY <1>9, MayFail DEF MailInv, AllFaults
  <2>2. PICK n \in {0, 1} :
           /\ accepted' \in [Emails -> Nat] /\ timeouts' \in [Emails -> Nat]
           /\ accepted'[mail.email] = accepted[mail.email] + n
           /\ timeouts'[mail.email] = timeouts[mail.email] + n
           /\ \A e \in Emails : e # mail.email => accepted'[e] = accepted[e] /\ timeouts'[e] = timeouts[e]
    <3>1. CASE UNCHANGED ses
      BY <1>3, <1>4, <3>1 DEF ses
    <3>2. CASE Accept(mail.email) /\ timeouts' = [timeouts EXCEPT ![mail.email] = @ + 1]
      BY <1>3, <1>4, <3>2 DEF Accept
    <3> QED BY <1>9, <3>1, <3>2
  <2>3. accepted[mail.email] <= accepted'[mail.email]
    BY <1>3, <2>2
  <2>4. Goto(s, "conclude", again, Retry(again))
    BY <1>9
  <2> HIDE DEF again
  <2> QED BY <1>1, <1>5, <1>6, <2>1, <2>2, <2>3, <2>4, SendAnswer
<1> QED BY <1>7, <1>8, <1>9 DEF Send

------------------------------------------------------------------------------
(* The finally clause.                                                       *)

LEMMA ConcludeMail ==
  ASSUME MailInv, NEW s \in Senders, sendPC[s] = "conclude"
  PROVE  /\ sendMail[s] \in Row /\ sendMail[s].table \in {"QUEUED", "SENT"}
         /\ sendResult[s] \in {"SENT", "ERROR", "QUEUED"}
         /\ sendResult[s] # "SENT" => sendMail[s].id = 0
         /\ sendResult[s] = "SENT" =>
              sendMail[s].table = "SENT" /\ sendMail[s].id \in 1 .. accepted[sendMail[s].email]
         /\ Tail(sendList[s]) \in Seq(Row)
         /\ \A i \in DOMAIN Tail(sendList[s]) :
              Tail(sendList[s])[i].table = "QUEUED" /\ Tail(sendList[s])[i].id = 0
<1>1. SenderOK(s) /\ sendList[s] \in Seq(Row) /\ sendResult[s] \in {"none", "SENT", "ERROR", "QUEUED"}
  BY DEF MailInv, TypeOK
<1>2. sendList[s] # <<>>
  BY <1>1 DEF SenderOK
<1>3. \A i \in DOMAIN sendList[s] : sendList[s][i].table = "QUEUED" /\ sendList[s][i].id = 0
  BY <1>1 DEF SenderOK
<1> QED BY <1>1, <1>2, <1>3, TailQueued DEF SenderOK

\* SES accepted the email: its id waits for the commit.
LEMMA ConcludeSent ==
  ASSUME MailInv, NEW s \in Senders, sendPC[s] = "conclude", sendResult[s] = "SENT",
         merged' = [merged EXCEPT ![s] = @ \cup {sendMail[s]}],
         Continue(s, Tail(sendList[s])), NoFault, UNCHANGED <<rows, ses, bouncing>>
  PROVE  MailInv'
<1> DEFINE mail == sendMail[s]
           l == Tail(sendList[s])
<1>1. /\ mail \in Row /\ mail.table = "SENT" /\ mail.id \in 1 .. accepted[mail.email]
      /\ l \in Seq(Row) /\ \A i \in DOMAIN l : l[i].table = "QUEUED" /\ l[i].id = 0
  BY ConcludeMail
<1>2. Continue(s, l)
  OBVIOUS
<1> HIDE DEF l
<1>3. /\ merged' \in [Senders -> SUBSET Row] /\ merged'[s] = merged[s] \cup {mail}
      /\ \A t \in Senders \ {s} : merged'[t] = merged[t]
  BY <1>1 DEF MailInv, TypeOK
<1>4. TypeOK'
  BY <1>1, <1>2, <1>3, ContinueTypes DEF MailInv, TypeOK, NoFault, ses, bouncing, reading
<1>5. \A t \in Senders \ {s} : Same(t)
  BY <1>1, <1>2, <1>3, ContinueTypes DEF MailInv, Same
<1>6. Current(s, mail.email) /\ \A e : Current(s, e) => e = mail.email
  BY <1>1 DEF Current
<1>7. mail.email \in Emails /\ ~ Merged(s, mail.email)
  BY <1>1, <1>6 DEF Row, MailInv, HandOK
<1>8. SenderOK(s)' /\ \A e : ~ Current(s, e)'
  <2>1. SenderOK(s) /\ TypeOK
    BY DEF MailInv
  <2>2. \A m \in merged'[s] : m.table = "SENT" /\ m.id \in 1 .. accepted'[m.email]
    BY <1>1, <1>3, <2>1 DEF SenderOK, ses
  <2>3. \A m, n \in merged'[s] : m.email = n.email => m = n
    BY <1>3, <1>7, <2>1 DEF SenderOK, Merged
  <2> QED BY <1>1, <1>2, <1>4, <2>1, <2>2, <2>3, ContinueSender
<1>9. \A e : Holds(s, e)' => Holds(s, e)
  BY <1>3, <1>6, <1>8 DEF Holds, Merged
<1>10. \A e \in Emails : accepted[e] = 0 => ~ Current(s, e)
  BY <1>1, <1>6 DEF Row, MailInv, TypeOK
<1> QED BY <1>4, <1>5, <1>8, <1>9, <1>10, SenderFrame DEF NoFault

\* The email was not accepted and its row is not where the sender left it, or
\* is locked.
LEMMA ConcludeRefused ==
  ASSUME MailInv, NEW s \in Senders, sendPC[s] = "conclude", TransitRefused(sendMail[s]),
         Continue(s, Tail(sendList[s])), UNCHANGED <<merged, ses, bouncing>>
  PROVE  MailInv'
<1> DEFINE mail == sendMail[s]
           l == Tail(sendList[s])
<1>1. l \in Seq(Row) /\ \A i \in DOMAIN l : l[i].table = "QUEUED" /\ l[i].id = 0
  BY ConcludeMail
<1>2. Continue(s, l) /\ UNCHANGED rows
  BY DEF TransitRefused
<1> HIDE DEF l
<1>3. faults' \in 0 .. MaxFaults /\ broken' \in BOOLEAN /\ (~ broken' => ~ broken)
  BY MayFail DEF MailInv, TransitRefused, AllFaults
<1>4. TypeOK'
  BY <1>1, <1>2, <1>3, ContinueTypes DEF MailInv, TypeOK, ses, bouncing, reading
<1>5. \A t \in Senders \ {s} : Same(t)
  BY <1>1, <1>2, ContinueTypes DEF MailInv, Same
<1>6. SenderOK(s)' /\ \A e : ~ Current(s, e)'
  <2>1. SenderOK(s) /\ TypeOK
    BY DEF MailInv
  <2> QED BY <1>1, <1>2, <1>4, <2>1, ContinueSender DEF SenderOK, ses
<1>7. \A e : Holds(s, e)' => Holds(s, e)
  BY <1>6 DEF Holds, Merged
<1>8. ~ broken' => \A e \in Emails : ~ Current(s, e)
  <2>1. CASE Fault("lock")
    BY <2>1, FaultTypes DEF MailInv
  <2>2. CASE Stored(mail) = {}
    <3>1. \A w \in rows : ~ (w.email = mail.email /\ w.table = mail.table)
      BY <2>2 DEF Stored
    <3> QED BY <3>1 DEF MailInv, HandOK, Holds, Current
  <2> QED BY <2>1, <2>2 DEF TransitRefused
<1> QED BY <1>2, <1>3, <1>4, <1>5, <1>6, <1>7, <1>8, SenderFrame

\* The email was not accepted and goes to EMAIL_ERROR or back to EMAIL_QUEUED.
LEMMA ConcludeMoves ==
  ASSUME MailInv, NEW s \in Senders, sendPC[s] = "conclude", sendResult[s] # "SENT",
         NEW mail \in Row, mail = sendMail[s],
         NEW table \in {"ERROR", "QUEUED"}, table = sendResult[s], Transit(mail, table), NoFault,
         Continue(s, Tail(sendList[s])), UNCHANGED <<merged, ses, bouncing>>
  PROVE  MailInv'
<1> DEFINE l == Tail(sendList[s])
           new == [mail EXCEPT !.table = table]
<1>1. /\ mail.table \in {"QUEUED", "SENT"} /\ mail.id = 0 /\ mail.email \in Emails
      /\ l \in Seq(Row) /\ \A i \in DOMAIN l : l[i].table = "QUEUED" /\ l[i].id = 0
  BY ConcludeMail DEF Row
<1>2. Continue(s, l)
  OBVIOUS
<1>3. new.email = mail.email /\ new.table = table
  BY <1>1 DEF Row
<1>4. /\ rows' \subseteq Row /\ OneRow' /\ QueuedUnsent'
      /\ new \in rows' /\ \A w \in rows' : w.email = mail.email => w = new
      /\ \A e : e # mail.email => RowsOf(e)' = RowsOf(e)
      /\ \A w \in rows : w.email # mail.email => w \in rows'
      /\ \A w \in rows' : w.email # mail.email => w \in rows
      /\ \E v \in rows : v.email = mail.email /\ v.table = mail.table
  <2>1. table \in Table /\ (table = "QUEUED" => mail.id = 0)
    BY <1>1 DEF Table
  <2> HIDE DEF l
  <2> QED BY <2>1, MoveRow
<1> HIDE DEF l, new
<1>5. TypeOK'
  BY <1>1, <1>2, <1>4, ContinueTypes DEF MailInv, TypeOK, NoFault, ses, bouncing, reading
<1>6. \A t \in Senders \ {s} : Same(t)
  BY <1>1, <1>2, ContinueTypes DEF MailInv, Same
<1>7. SenderOK(s)' /\ \A e : ~ Current(s, e)'
  <2>1. SenderOK(s) /\ TypeOK
    BY DEF MailInv
  <2> QED BY <1>1, <1>2, <1>5, <2>1, ContinueSender DEF SenderOK, ses
<1>8. Accepts
  BY DEF Accepts, ses, MailInv, TypeOK
<1>9. /\ \A t \in Senders : SenderOK(t)'
      /\ \A t \in Senders \ {s} : \A e : /\ (Current(t, e)' <=> Current(t, e))
                                          /\ (Merged(t, e)' <=> Merged(t, e))
                                          /\ (Holds(t, e)' <=> Holds(t, e))
  BY <1>5, <1>6, <1>7, <1>8, OthersHold
<1>10. \A e : (Merged(s, e)' <=> Merged(s, e)) /\ (Holds(s, e)' => Holds(s, e))
  BY <1>7 DEF Merged, Holds
<1>11. /\ Unsent(mail.email)
       /\ \A v \in rows : v.email = mail.email => v.table = mail.table /\ v.id = 0
       /\ \A t \in Senders : ~ Holds(t, mail.email)'
  <2>1. PICK v \in rows : v.email = mail.email /\ v.table = mail.table
    BY <1>4
  <2>2. \A w \in rows : w.email = mail.email => w = v
    BY <2>1 DEF MailInv, OneRow
  <2>3. CASE mail.table = "QUEUED"
    <3>1. v.id = 0 /\ Unsent(mail.email)
      BY <2>1, <2>3 DEF MailInv, QueuedUnsent, Unsent, RowsOf
    <3>2. \A t \in Senders : ~ Holds(t, mail.email)
      BY <2>1, <2>3, NotHeld
    <3> QED BY <1>9, <1>10, <2>1, <2>2, <3>1, <3>2
  <2>4. CASE mail.table = "SENT"
    <3>1. Current(s, mail.email)
      BY <2>4 DEF Current
    <3>2. v.id = 0 /\ Unsent(mail.email)
      BY <1>1, <2>2, <3>1 DEF MailInv, HandOK, Holds, Unsent
    <3>3. \A t \in Senders : Holds(t, mail.email) => t = s
      BY <1>1, <3>1 DEF MailInv, HandOK, Holds
    <3>4. ~ Merged(s, mail.email)
      BY <1>1, <3>1 DEF MailInv, HandOK
    <3>5. ~ Holds(s, mail.email)'
      BY <1>7, <1>10, <3>4 DEF Holds
    <3> QED BY <1>9, <2>1, <2>2, <3>2, <3>3, <3>5
  <2> QED BY <1>1, <2>3, <2>4
<1>12. ASSUME NEW e \in Emails
       PROVE  HandOK(e)' /\ AcceptedOK(e)'
  <2>1. \A t \in Senders : ~ (Current(t, e)' /\ Merged(t, e)')
    BY <1>7, <1>9 DEF MailInv, HandOK
  <2>2. CASE e = mail.email
    <3>1. HandOK(e)'
      BY <1>11, <2>1, <2>2 DEF HandOK
    <3> QED BY <1>11, <2>2, <3>1 DEF MailInv, AcceptedOK, ses
  <2>3. CASE e # mail.email
    <3>1. \A t \in Senders : Holds(t, e)' => Holds(t, e)
      BY <1>9, <1>10
    <3>2. \A t \in Senders : Current(t, e)' /\ sendResult'[t] # "SENT" => Unsent(e)
      BY <1>6, <1>7, <1>9 DEF Same, Unsent
    <3> QED BY <1>4, <2>1, <2>3, <3>1, <3>2, OtherEmail DEF ses
  <2> QED BY <2>2, <2>3
<1>13. BounceOK'
  <2>1. \A w \in rows : w.table = "BOUNCED" \/ w.id # 0 => w \in rows'
    BY <1>1, <1>4, <1>11
  <2> QED BY <2>1 DEF MailInv, BounceOK, bouncing, reading
<1>14. CalmOK'
  <2>1. \A w \in rows' : w.table \in {"SENT", "BOUNCED"} => w \in rows /\ w.email # mail.email
    BY <1>1, <1>3, <1>4
  <2>2. \A e : Current(s, e) => e = mail.email
    BY DEF Current
  <2> QED BY <1>9, <2>1, <2>2 DEF MailInv, CalmOK, NoFault, ses, bouncing, reading
<1> QED BY <1>4, <1>5, <1>9, <1>12, <1>13, <1>14 DEF MailInv

LEMMA ConcludeStep ==
  ASSUME MailInv, NEW s \in Senders, Conclude(s)
  PROVE  MailInv'
<1>1. sendPC[s] = "conclude" /\ UNCHANGED <<ses, bouncing>>
  BY DEF Conclude
<1>2. CASE /\ sendResult[s] = "SENT"
           /\ merged' = [merged EXCEPT ![s] = @ \cup {sendMail[s]}]
           /\ Continue(s, Tail(sendList[s]))
           /\ NoFault /\ UNCHANGED rows
  BY <1>1, <1>2, ConcludeSent
<1>3. CASE /\ sendResult[s] # "SENT"
           /\ \/ Transit(sendMail[s], sendResult[s]) /\ NoFault
              \/ TransitRefused(sendMail[s])
           /\ Continue(s, Tail(sendList[s]))
           /\ UNCHANGED merged
  <2>1. CASE TransitRefused(sendMail[s])
    BY <1>1, <1>3, <2>1, ConcludeRefused
  <2>2. CASE Transit(sendMail[s], sendResult[s]) /\ NoFault
    <3>1. sendMail[s] \in Row /\ sendResult[s] \in {"ERROR", "QUEUED"}
      BY <1>1, <1>3, ConcludeMail
    <3> QED BY <1>1, <1>3, <2>2, <3>1, ConcludeMoves
  <2> QED BY <1>3, <2>1, <2>2
<1>4. CASE Fault("db") /\ Ends(s) /\ UNCHANGED rows
  <2>1. TypeOK'
    BY <1>1, <1>4, EndsTypes, FaultTypes DEF MailInv, TypeOK, ses, bouncing, reading
  <2>2. SenderOK(s)' /\ \A e : ~ Holds(s, e)'
    BY <1>4, <2>1, EndsSender DEF MailInv
  <2>3. \A t \in Senders \ {s} : Same(t)
    BY <1>4, EndsTypes DEF MailInv, Same
  <2>4. broken'
    BY <1>4, FaultTypes DEF MailInv
  <2> QED BY <1>1, <1>4, <2>1, <2>2, <2>3, <2>4, SenderFrame DEF Holds
<1> QED BY <1>2, <1>3, <1>4 DEF Conclude

------------------------------------------------------------------------------
(* The sender's transaction ends.                                            *)

\* The merged entities take the place of the rows of their emails.
LEMMA CommitRows ==
  ASSUME MailInv, NEW s \in Senders,
         rows' = (rows \ UNION {Stored(mail) : mail \in merged[s]}) \cup merged[s]
  PROVE  /\ \A w \in rows : Merged(s, w.email) => w.table = "SENT" /\ w.id = 0
         /\ \A w \in rows : ~ Merged(s, w.email) => w \in rows'
         /\ \A w \in rows' : ~ Merged(s, w.email) => w \in rows
         /\ \A w \in rows' : Merged(s, w.email) => w \in merged[s]
         /\ merged[s] \subseteq rows'
         /\ rows' \subseteq Row /\ OneRow'
<1>1. \A w \in rows : Merged(s, w.email) => w.table = "SENT" /\ w.id = 0
  <2>1. \A w \in rows : w.email \in Emails
    BY DEF MailInv, TypeOK, Row
  <2> QED BY <2>1 DEF MailInv, HandOK, Holds, OneRow
<1>2. \A m \in merged[s] : m.table = "SENT"
  BY DEF MailInv, SenderOK
<1>3. \A w \in rows : Merged(s, w.email) <=> \E m \in merged[s] : w \in Stored(m)
  BY <1>1, <1>2 DEF Merged, Stored
<1>4. \A m \in merged[s] : Merged(s, m.email)
  BY DEF Merged
<1>5. \A w \in rows : w \in UNION {Stored(m) : m \in merged[s]} <=> Merged(s, w.email)
  BY <1>3
<1>6. /\ \A w \in rows : ~ Merged(s, w.email) => w \in rows'
      /\ \A w \in rows' : ~ Merged(s, w.email) => w \in rows
      /\ \A w \in rows' : Merged(s, w.email) => w \in merged[s]
      /\ merged[s] \subseteq rows'
  BY <1>4, <1>5
<1>7. rows' \subseteq Row
  BY DEF MailInv, TypeOK
<1>8. OneRow'
  <2>1. \A m, n \in merged[s] : m.email = n.email => m = n
    BY DEF MailInv, SenderOK
  <2> QED BY <1>6, <2>1 DEF MailInv, OneRow
<1> QED BY <1>1, <1>6, <1>7, <1>8

LEMMA CommitWrites ==
  ASSUME MailInv, NEW s \in Senders, sendPC[s] = "commit", Ends(s), NoFault,
         rows' = (rows \ UNION {Stored(mail) : mail \in merged[s]}) \cup merged[s],
         UNCHANGED <<ses, bouncing>>
  PROVE  MailInv'
<1>1. /\ \A w \in rows : Merged(s, w.email) => w.table = "SENT" /\ w.id = 0
      /\ \A w \in rows : ~ Merged(s, w.email) => w \in rows'
      /\ \A w \in rows' : ~ Merged(s, w.email) => w \in rows
      /\ \A w \in rows' : Merged(s, w.email) => w \in merged[s]
      /\ merged[s] \subseteq rows'
      /\ rows' \subseteq Row /\ OneRow'
  BY CommitRows
<1>2. \A m \in merged[s] : m.table = "SENT" /\ m.id \in 1 .. accepted[m.email]
  BY DEF MailInv, SenderOK
<1>3. TypeOK'
  BY <1>1, EndsTypes DEF MailInv, TypeOK, NoFault, ses, bouncing, reading
<1>4. SenderOK(s)' /\ \A e : ~ Holds(s, e)' /\ ~ Current(s, e)
  BY <1>3, EndsSender DEF MailInv, Current
<1>5. \A t \in Senders \ {s} : Same(t)
  BY EndsTypes DEF MailInv, Same
<1>6. Accepts
  BY DEF Accepts, ses, MailInv, TypeOK
<1>7. /\ \A t \in Senders : SenderOK(t)'
      /\ \A t \in Senders \ {s} : \A e : /\ (Current(t, e)' <=> Current(t, e))
                                          /\ (Merged(t, e)' <=> Merged(t, e))
                                          /\ (Holds(t, e)' <=> Holds(t, e))
  BY <1>3, <1>4, <1>5, <1>6, OthersHold
<1>8. QueuedUnsent'
  BY <1>1, <1>2 DEF MailInv, QueuedUnsent
<1>9. ASSUME NEW e \in Emails
      PROVE  HandOK(e)' /\ AcceptedOK(e)'
  <2>1. HandOK(e)'
    <3>1. \A t \in Senders : Holds(t, e)' => t # s /\ Holds(t, e)
      BY <1>4, <1>7
    <3>2. \A t \in Senders : ~ (Current(t, e)' /\ Merged(t, e)')
      BY <1>4, <1>7 DEF MailInv, HandOK, Holds
    <3>3. \A t \in Senders : Holds(t, e)' => ~ Merged(s, e)
      BY <3>1 DEF MailInv, HandOK, Holds
    <3> QED BY <1>1, <3>1, <3>2, <3>3, HandFrame DEF MailInv
  <2>2. Unsent(e)' => Unsent(e)
    <3>1. RowsOf(e)' = {} => RowsOf(e) = {}
      <4>1. Merged(s, e) => \E w \in rows' : w.email = e
        BY <1>1 DEF Merged
      <4> QED BY <1>1, <4>1 DEF RowsOf
    <3>2. \A w \in rows' : w.email = e /\ w.table = "QUEUED" => w \in rows
      BY <1>1, <1>2
    <3>3. \A t \in Senders : Current(t, e)' /\ sendResult'[t] # "SENT" => Unsent(e)
      BY <1>4, <1>5, <1>7 DEF Same, Unsent, Holds
    <3> QED BY <3>1, <3>2, <3>3 DEF Unsent, RowsOf
  <2> QED BY <2>1, <2>2, AcceptedFrame DEF MailInv, ses
<1>10. BounceOK'
  <2>1. \A w \in rows : w.table # "SENT" \/ w.id # 0 => w \in rows'
    BY <1>1
  <2> QED BY <2>1 DEF MailInv, BounceOK, bouncing, reading
<1>11. CalmOK'
  <2>1. \A m \in merged[s] : accepted[m.email] > 0
    <3>1. \A m \in merged[s] : m.email \in Emails
      BY DEF MailInv, TypeOK, Row
    <3>2. \A e \in Emails : accepted[e] \in Nat
      BY DEF MailInv, TypeOK
    <3> QED BY <1>2, <3>1, <3>2
  <2>2. \A e : \A t \in Senders : Current(t, e) => Current(t, e)'
    BY <1>4, <1>7
  <2>3. \A w \in rows' : w \in rows \/ (w.table = "SENT" /\ accepted[w.email] > 0)
    BY <1>1, <1>2, <2>1
  <2> QED BY <2>2, <2>3 DEF MailInv, CalmOK, NoFault, ses, bouncing, reading
<1> QED BY <1>1, <1>3, <1>7, <1>8, <1>9, <1>10, <1>11 DEF MailInv

LEMMA CommitStep ==
  ASSUME MailInv, NEW s \in Senders, Commit(s)
  PROVE  MailInv'
<1>1. sendPC[s] = "commit" /\ Ends(s) /\ UNCHANGED <<ses, bouncing>>
  BY DEF Commit
<1>2. CASE /\ rows' = (rows \ UNION {Stored(mail) : mail \in merged[s]}) \cup merged[s]
           /\ NoFault
  BY <1>1, <1>2, CommitWrites
<1>3. CASE Fault("db") /\ UNCHANGED rows
  <2>1. TypeOK'
    BY <1>1, <1>3, EndsTypes, FaultTypes DEF MailInv, TypeOK, ses, bouncing, reading
  <2>2. SenderOK(s)' /\ \A e : ~ Holds(s, e)'
    BY <1>1, <2>1, EndsSender DEF MailInv
  <2>3. \A t \in Senders \ {s} : Same(t)
    BY <1>1, EndsTypes DEF MailInv, Same
  <2>4. broken'
    BY <1>3, FaultTypes DEF MailInv
  <2> QED BY <1>1, <1>3, <2>1, <2>2, <2>3, <2>4, SenderFrame DEF Holds
<1> QED BY <1>2, <1>3 DEF Commit

------------------------------------------------------------------------------
(* The bounces.                                                              *)

\* A step of SES or of processAllBounce that moves no row.
LEMMA BounceFrame ==
  ASSUME MailInv, TypeOK', UNCHANGED <<rows, sending, ses>>, BounceOK', CalmOK'
  PROVE  MailInv'
<1>1. /\ \A s \in Senders : SenderOK(s)'
      /\ \A s \in Senders : \A e : (Current(s, e)' <=> Current(s, e)) /\ (Merged(s, e)' <=> Merged(s, e))
  BY NoSender DEF MailInv, ses
<1>2. ASSUME NEW e \in Emails
      PROVE  HandOK(e)' /\ AcceptedOK(e)'
  <2>1. \A t \in Senders : Holds(t, e)' => Holds(t, e)
    BY <1>1 DEF Holds
  <2>2. \A t \in Senders : ~ (Current(t, e)' /\ Merged(t, e)')
    BY <1>1 DEF MailInv, HandOK
  <2>3. \A t \in Senders : Current(t, e)' /\ sendResult'[t] # "SENT" => Unsent(e)
    BY <1>1 DEF Unsent, sending
  <2> QED BY <2>1, <2>2, <2>3, OtherEmail DEF RowsOf, ses
<1>3. OneRow' /\ QueuedUnsent'
  BY DEF MailInv, OneRow, QueuedUnsent
<1> QED BY <1>1, <1>2, <1>3 DEF MailInv

\* The senders are where they were for CalmOK.
LEMMA CalmFrame ==
  ASSUME MailInv, UNCHANGED <<rows, sending, ses>>, ~ broken' => ~ broken,
         ~ broken' => suspended \cup addresses \subseteq suspended' \cup addresses'
  PROVE  CalmOK'
<1>1. \A s \in Senders : \A e : Current(s, e) => Current(s, e)'
  BY DEF Current, sending
<1> QED BY <1>1 DEF MailInv, CalmOK, ses

LEMMA BounceStep ==
  ASSUME MailInv, NEW e \in Emails, NEW n \in 1 .. accepted[e], Bounce(e, n)
  PROVE  MailInv'
<1>1. n \in Nat /\ n # 0
  BY DEF MailInv, TypeOK
<1>2. /\ sqs' = sqs \cup {<<e, n>>} /\ bounced' = bounced \cup {<<e, n>>}
      /\ UNCHANGED <<rows, sending, ses, reading, suspended, faults, broken>>
  BY DEF Bounce
<1>3. TypeOK'
  BY <1>1, <1>2 DEF MailInv, TypeOK, Message, sending, ses, reading
<1>4. BounceOK'
  BY <1>1, <1>2 DEF MailInv, BounceOK, reading
<1>5. CalmOK'
  BY <1>2, CalmFrame DEF reading
<1> QED BY <1>2, <1>3, <1>4, <1>5, BounceFrame

LEMMA ReceiveStep ==
  ASSUME MailInv, Receive
  PROVE  MailInv'
<1>1. PICK inc \in SUBSET (sqs \ messages) :
         /\ messages' = messages \cup inc
         /\ found' = found \cup EmailsBySESMessageId(inc)
         /\ bouncePC' = IF EmailsBySESMessageId(inc) = {} THEN "transit" ELSE "receive"
  BY DEF Receive
<1>2. UNCHANGED <<rows, sending, ses, sqs, bounced, addresses, suspended, faults, broken>>
  BY DEF Receive
<1>3. \A w \in EmailsBySESMessageId(inc) : w \in rows /\ w.table = "SENT" /\ w.id # 0
  BY DEF EmailsBySESMessageId, MailInv, TypeOK, BounceOK
<1>4. TypeOK'
  BY <1>1, <1>2, <1>3 DEF MailInv, TypeOK, sending, ses
<1>5. BounceOK'
  BY <1>1, <1>2, <1>3 DEF MailInv, BounceOK
<1>6. CalmOK'
  BY <1>2, CalmFrame
<1> QED BY <1>2, <1>4, <1>5, <1>6, BounceFrame

LEMMA SuspendStep ==
  ASSUME MailInv, Suspend
  PROVE  MailInv'
<1>1. TypeOK'
  BY DEF MailInv, TypeOK, Suspend, sending, ses
<1>2. BounceOK'
  BY DEF MailInv, BounceOK, Suspend
<1>3. CalmOK'
  BY CalmFrame DEF Suspend
<1> QED BY <1>1, <1>2, <1>3, BounceFrame DEF Suspend

LEMMA DeleteMessagesStep ==
  ASSUME MailInv, DeleteMessages
  PROVE  MailInv'
<1>1. TypeOK'
  BY DEF MailInv, TypeOK, DeleteMessages, BounceEnds, sending, ses
<1>2. addresses \subseteq suspended
  BY DEF MailInv, BounceOK, DeleteMessages
<1>3. BounceOK'
  BY <1>2 DEF MailInv, BounceOK, DeleteMessages, BounceEnds
<1>4. CalmOK'
  BY <1>2, CalmFrame DEF DeleteMessages
<1> QED BY <1>1, <1>3, <1>4, BounceFrame DEF DeleteMessages

LEMMA BounceFailsStep ==
  ASSUME MailInv, BounceFails
  PROVE  MailInv'
<1>1. Fault("db") \/ Fault("crash")
  BY DEF BounceFails
<1>2. broken' /\ broken' \in BOOLEAN /\ faults' \in 0 .. MaxFaults
  BY <1>1, FaultTypes DEF MailInv
<1>3. TypeOK'
  BY <1>2 DEF MailInv, TypeOK, BounceFails, BounceEnds, sending, ses
<1>4. BounceOK'
  BY DEF MailInv, BounceOK, BounceFails, BounceEnds
<1>5. CalmOK'
  BY <1>2 DEF CalmOK
<1> QED BY <1>3, <1>4, <1>5, BounceFrame DEF BounceFails

\* The row of a found email moves to EMAIL_BOUNCED; no sender has it in hand.
LEMMA BounceMoves ==
  ASSUME MailInv, bouncePC = "transit", NEW mail \in found, found' = found \ {mail},
         Transit(mail, "BOUNCED"), addresses' = addresses \cup {mail.email}, NoFault,
         UNCHANGED <<bouncePC, sending, ses, sqs, bounced, messages, suspended>>
  PROVE  MailInv'
<1> DEFINE new == [mail EXCEPT !.table = "BOUNCED"]
<1>1. mail \in rows /\ mail \in Row /\ mail.table = "SENT" /\ mail.id # 0 /\ mail.email \in Emails
  BY DEF MailInv, TypeOK, BounceOK, Row
<1>2. new.email = mail.email /\ new.table = "BOUNCED"
  BY <1>1 DEF Row
<1>3. /\ rows' \subseteq Row /\ OneRow' /\ QueuedUnsent'
      /\ new \in rows' /\ \A w \in rows' : w.email = mail.email => w = new
      /\ \A e : e # mail.email => RowsOf(e)' = RowsOf(e)
      /\ \A w \in rows : w.email # mail.email => w \in rows'
      /\ \A w \in rows' : w.email # mail.email => w \in rows
  <2>1. "BOUNCED" \in Table
    BY DEF Table
  <2> QED BY <1>1, <2>1, MoveRow
<1> HIDE DEF new
<1>4. TypeOK'
  BY <1>1, <1>3 DEF MailInv, TypeOK, sending, ses, NoFault
<1>5. /\ \A s \in Senders : SenderOK(s)'
      /\ \A s \in Senders : \A e : (Current(s, e)' <=> Current(s, e)) /\ (Merged(s, e)' <=> Merged(s, e))
  BY <1>4, NoSender DEF MailInv, ses
<1>6. \A t \in Senders : ~ Holds(t, mail.email) /\ ~ Holds(t, mail.email)'
  BY <1>1, <1>5, NotHeld DEF Holds
<1>7. ASSUME NEW e \in Emails
      PROVE  HandOK(e)' /\ AcceptedOK(e)'
  <2>1. \A t \in Senders : ~ (Current(t, e)' /\ Merged(t, e)')
    BY <1>5 DEF MailInv, HandOK
  <2>2. CASE e = mail.email
    <3>1. HandOK(e)'
      BY <1>6, <2>1, <2>2 DEF HandOK
    <3>2. ~ Unsent(e)'
      BY <1>2, <1>3, <1>6, <2>2 DEF Unsent, RowsOf, Holds
    <3> QED BY <2>2, <3>1, <3>2 DEF MailInv, AcceptedOK, ses
  <2>3. CASE e # mail.email
    <3>1. \A t \in Senders : Holds(t, e)' => Holds(t, e)
      BY <1>5 DEF Holds
    <3>2. \A t \in Senders : Current(t, e)' /\ sendResult'[t] # "SENT" => Unsent(e)
      BY <1>5 DEF Unsent, sending
    <3> QED BY <1>3, <2>1, <2>3, <3>1, <3>2, OtherEmail DEF ses
  <2> QED BY <2>2, <2>3
<1>8. BounceOK'
  <2>1. \A w \in rows : w # mail => w \in rows'
    BY <1>1, <1>3 DEF MailInv, OneRow
  <2>2. \A w \in rows : w.table = "BOUNCED" => w \in rows'
    BY <1>1, <2>1
  <2>3. new \in rows' /\ new.email = mail.email /\ new.table = "BOUNCED"
    BY <1>2, <1>3
  <2> QED BY <2>1, <2>2, <2>3 DEF MailInv, BounceOK
<1>9. CalmOK'
  <2>1. \A w \in rows' : w \in rows \/ (w.email = mail.email /\ w.table = "BOUNCED")
    BY <1>2, <1>3
  <2> QED BY <1>5, <2>1 DEF MailInv, CalmOK, NoFault, ses
<1> QED BY <1>3, <1>4, <1>5, <1>7, <1>8, <1>9 DEF MailInv

LEMMA TransitBouncedStep ==
  ASSUME MailInv, TransitBounced
  PROVE  MailInv'
<1>1. bouncePC = "transit" /\ UNCHANGED <<sending, ses, sqs, bounced, messages, suspended>>
  BY DEF TransitBounced
<1>2. CASE found = {} /\ bouncePC' = "suspend" /\ NoFault /\ UNCHANGED <<rows, found, addresses>>
  <2>1. TypeOK'
    BY <1>1, <1>2 DEF MailInv, TypeOK, NoFault, sending, ses
  <2>2. BounceOK'
    BY <1>1, <1>2 DEF MailInv, BounceOK
  <2>3. CalmOK'
    BY <1>1, <1>2, CalmFrame DEF NoFault
  <2> QED BY <1>1, <1>2, <2>1, <2>2, <2>3, BounceFrame
<1>3. ASSUME NEW mail \in found, found' = found \ {mail}, UNCHANGED bouncePC,
             Transit(mail, "BOUNCED"), NoFault, addresses' = addresses \cup {mail.email}
      PROVE  MailInv'
  BY <1>1, <1>3, BounceMoves
<1>4. ASSUME NEW mail \in found, found' = found \ {mail}, UNCHANGED bouncePC,
             TransitRefused(mail), UNCHANGED addresses
      PROVE  MailInv'
  <2>1. UNCHANGED rows /\ faults' \in 0 .. MaxFaults /\ broken' \in BOOLEAN /\ (~ broken' => ~ broken)
    BY <1>4, MayFail DEF MailInv, TransitRefused, AllFaults
  <2>2. TypeOK'
    BY <1>1, <1>4, <2>1 DEF MailInv, TypeOK, sending, ses
  <2>3. BounceOK'
    BY <1>1, <1>4, <2>1 DEF MailInv, BounceOK
  <2>4. CalmOK'
    BY <1>1, <1>4, <2>1, CalmFrame
  <2> QED BY <1>1, <2>1, <2>2, <2>3, <2>4, BounceFrame
<1> QED BY <1>2, <1>3, <1>4 DEF TransitBounced

------------------------------------------------------------------------------
(* The theorems.                                                             *)

LEMMA InitMail == Init => MailInv
<1> SUFFICES ASSUME Init PROVE MailInv
  OBVIOUS
<1>1. TypeOK
  <2>1. <<>> \in Seq(Row) /\ 0 \in 0 .. MaxFaults
    BY MailAssumption, EmptySeq
  <2> QED BY <2>1 DEF Init, TypeOK
<1>2. OneRow /\ QueuedUnsent /\ BounceOK /\ CalmOK
  BY DEF Init, OneRow, QueuedUnsent, BounceOK, CalmOK
<1>3. \A s \in Senders : SenderOK(s)
  BY DEF Init, SenderOK
<1>4. \A s \in Senders : \A e : ~ Holds(s, e)
  BY DEF Init, Holds, Current, Merged
<1>5. \A e \in Emails : HandOK(e) /\ AcceptedOK(e)
  BY <1>4 DEF Init, HandOK, AcceptedOK, Holds
<1> QED BY <1>1, <1>2, <1>3, <1>5 DEF MailInv

LEMMA NextMail == MailInv /\ [Next]_vars => MailInv'
<1> SUFFICES ASSUME MailInv, [Next]_vars PROVE MailInv'
  OBVIOUS
<1>1. CASE \E e \in Emails : QueueEmail(e) \/ \E n \in 1 .. accepted[e] : Bounce(e, n)
  BY <1>1, QueueEmailStep, BounceStep
<1>2. CASE \E s \in Senders, e \in Emails : SendQuickMail(s, e)
  BY <1>2, SendQuickMailStep
<1>3. CASE \E s \in Senders : ProcessEmailQueue(s) \/ SenderRuns(s) \/ SenderCrash(s)
  BY <1>3, ProcessEmailQueueStep, LockStep, SendStep, ConcludeStep, CommitStep, SenderCrashStep
     DEF SenderRuns
<1>4. CASE BounceRuns \/ BounceFails
  BY <1>4, ReceiveStep, TransitBouncedStep, SuspendStep, DeleteMessagesStep, BounceFailsStep
     DEF BounceRuns
<1>5. CASE UNCHANGED vars
  <2>1. UNCHANGED <<rows, sending, ses, bouncing, faults, broken>>
    BY <1>5 DEF vars
  <2>2. TypeOK'
    BY <2>1 DEF MailInv, TypeOK, sending, ses, bouncing, reading
  <2>3. BounceOK'
    BY <2>1 DEF MailInv, BounceOK, bouncing, reading
  <2>4. CalmOK'
    BY <2>1, CalmFrame DEF bouncing, reading
  <2> QED BY <2>1, <2>2, <2>3, <2>4, BounceFrame
<1> QED BY <1>1, <1>2, <1>3, <1>4, <1>5 DEF Next

\* MailInv holds in every state, whatever fails: a sender that has an email in
\* hand keeps it alone, whichever list another sender selected before.
THEOREM MailIsSafe == Spec => []MailInv
BY InitMail, NextMail, PTL DEF Spec

\* The variables keep their types.
THEOREM MailTypes == Spec => []TypeOK
<1>1. MailInv => TypeOK
  BY DEF MailInv
<1> QED BY <1>1, MailIsSafe, PTL

\* SES accepts an email once, and once more for each answer that was lost.
THEOREM MailAcceptedOnce == Spec => []AcceptedOnce
<1>1. MailInv => AcceptedOnce
  BY DEF MailInv, AcceptedOK, AcceptedOnce
<1> QED BY <1>1, MailIsSafe, PTL

\* While nodes, database and locks do not fail, an email in the SENT table was
\* accepted or is being handled.
THEOREM MailSentWasAccepted == Spec => []SentWasAccepted
<1>1. MailInv => SentWasAccepted
  BY DEF MailInv, CalmOK, SentWasAccepted, InHand, Current
<1> QED BY <1>1, MailIsSafe, PTL

\* Only recipients of bounced emails are suspended, and without a failure all.
THEOREM MailBouncedIsSuspended == Spec => []BouncedIsSuspended
<1>1. MailInv => BouncedIsSuspended
  BY DEF MailInv, CalmOK, BounceOK, BouncedIsSuspended, RowsOf
<1> QED BY <1>1, MailIsSafe, PTL

\* No step takes the last row of an email.
LEMMA TransitKeeps ==
  ASSUME MailInv, NEW mail \in Row, NEW table \in Table, Transit(mail, table),
         NEW e \in Emails, \E w \in rows : w.email = e
  PROVE  \E w \in rows' : w.email = e
<1>1. [mail EXCEPT !.table = table].email = mail.email
  BY DEF Row
<1>2. rows' = {w \in rows : w.email # mail.email} \cup {[mail EXCEPT !.table = table]}
  BY TransitRows DEF MailInv
<1>3. CASE e = mail.email
  BY <1>1, <1>2, <1>3
<1>4. CASE e # mail.email
  BY <1>2, <1>4
<1> QED BY <1>3, <1>4

LEMMA RowsStay ==
  ASSUME MailInv, [Next]_vars, NEW e \in Emails, \E w \in rows : w.email = e
  PROVE  \E w \in rows' : w.email = e
<1>1. CASE rows \subseteq rows'
  BY <1>1
<1>2. ASSUME NEW s \in Senders, Lock(s), ~ (rows \subseteq rows')
      PROVE  \E w \in rows' : w.email = e
  <2>1. Transit(sendMail[s], "SENT") /\ sendMail[s] \in Row
    BY <1>2, LockMail DEF Lock, TransitRefused
  <2>2. "SENT" \in Table
    BY DEF Table
  <2> QED BY <2>1, <2>2, TransitKeeps
<1>3. ASSUME NEW s \in Senders, Conclude(s), ~ (rows \subseteq rows')
      PROVE  \E w \in rows' : w.email = e
  <2>1. Transit(sendMail[s], sendResult[s]) /\ sendPC[s] = "conclude"
    BY <1>3 DEF Conclude, TransitRefused
  <2>2. sendMail[s] \in Row /\ sendResult[s] \in Table
    BY <2>1, ConcludeMail DEF Table
  <2> QED BY <2>1, <2>2, TransitKeeps
<1>4. ASSUME NEW s \in Senders, Commit(s), ~ (rows \subseteq rows')
      PROVE  \E w \in rows' : w.email = e
  <2>1. rows' = (rows \ UNION {Stored(mail) : mail \in merged[s]}) \cup merged[s]
    BY <1>4 DEF Commit
  <2>2. Merged(s, e) => \E w \in merged[s] : w.email = e
    BY DEF Merged
  <2> QED BY <2>1, <2>2, CommitRows
<1>5. ASSUME TransitBounced, ~ (rows \subseteq rows')
      PROVE  \E w \in rows' : w.email = e
  <2>1. PICK mail \in found : Transit(mail, "BOUNCED")
    BY <1>5 DEF TransitBounced, TransitRefused
  <2>2. mail \in Row /\ "BOUNCED" \in Table
    BY DEF MailInv, TypeOK, Table
  <2> QED BY <2>1, <2>2, TransitKeeps
<1>6. CASE Next
  <2>1. ASSUME NEW f \in Emails, QueueEmail(f) \/ \E n \in 1 .. accepted[f] : Bounce(f, n)
        PROVE  rows \subseteq rows'
    BY <2>1 DEF QueueEmail, Bounce
  <2>2. ASSUME NEW s \in Senders, NEW f \in Emails, SendQuickMail(s, f)
        PROVE  rows \subseteq rows'
    BY <2>2 DEF SendQuickMail
  <2>3. ASSUME NEW s \in Senders, ProcessEmailQueue(s) \/ Send(s) \/ SenderCrash(s)
        PROVE  rows \subseteq rows'
    BY <2>3 DEF ProcessEmailQueue, Send, SenderCrash
  <2>4. ASSUME Receive \/ Suspend \/ DeleteMessages \/ BounceFails
        PROVE  rows \subseteq rows'
    BY <2>4 DEF Receive, Suspend, DeleteMessages, BounceFails
  <2>5. \/ rows \subseteq rows'
        \/ \E s \in Senders : Lock(s) \/ Conclude(s) \/ Commit(s)
        \/ TransitBounced
    BY <1>6, <2>1, <2>2, <2>3, <2>4 DEF Next, SenderRuns, BounceRuns
  <2> QED BY <1>1, <1>2, <1>3, <1>4, <1>5, <2>5
<1>7. CASE UNCHANGED vars
  BY <1>1, <1>7 DEF vars
<1> QED BY <1>6, <1>7

\* An email is in one table only, and once it has a row it keeps one.
THEOREM MailOneTable == Spec => OneTable
<1>1. MailInv /\ [Next]_vars =>
         [\A e \in Emails : RowsOf(e) # {} => Cardinality(RowsOf(e)') = 1]_vars
  <2> SUFFICES ASSUME MailInv, [Next]_vars, NEW e \in Emails, RowsOf(e) # {}
               PROVE  Cardinality(RowsOf(e)') = 1
    OBVIOUS
  <2>1. PICK w \in rows' : w.email = e
    BY RowsStay DEF RowsOf
  <2>2. \A v \in rows' : v.email = e => v = w
    BY <2>1, NextMail DEF MailInv, OneRow
  <2>3. RowsOf(e)' = {w}
    BY <2>1, <2>2 DEF RowsOf
  <2> QED BY <2>3, FS_Singleton
<1> QED BY <1>1, MailIsSafe, PTL DEF Spec, OneTable

=============================================================================
