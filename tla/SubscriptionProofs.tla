-------------------------- MODULE SubscriptionProofs --------------------------
(* The safety of Subscription for any number of addresses and callers: SubInv   *)
(* is inductive when the history is kept, and the properties follow from it.    *)
EXTENDS Subscription, SequenceTheorems, FiniteSetTheorems, TLAPS

------------------------------------------------------------------------------
(* The tables.                                                               *)

\* A row is known by its address and position.
LEMMA IdsOf ==
  ASSUME NEW t
  PROVE  /\ \A e, i : <<e, i>> \in Ids(t) <=> e \in Emails /\ i \in DOMAIN t[e]
         /\ \A r \in Ids(t) : r = <<r[1], r[2]>> /\ r[1] \in Emails /\ r[2] \in DOMAIN t[r[1]]
BY DEF Ids

\* A table of a finite number of addresses has a finite number of rows.
LEMMA CountsAreNumbers ==
  ASSUME NEW t \in [Emails -> Seq(Row)]
  PROVE  SubscriptionCounts(t) \in [Status -> Nat]
<1>1. IsFiniteSet(Emails)
  BY SubscriptionAssumption
<1>2. \A e \in Emails : IsFiniteSet({e} \X DOMAIN t[e])
  <2> TAKE e \in Emails
  <2>1. DOMAIN t[e] = 1 .. Len(t[e]) /\ Len(t[e]) \in Nat
    BY LenProperties
  <2>2. IsFiniteSet(DOMAIN t[e])
    BY <2>1, FS_Interval
  <2>3. IsFiniteSet({e})
    BY FS_Singleton
  <2> QED BY <2>2, <2>3, FS_Product
<1> DEFINE part == [e \in Emails |-> {e} \X DOMAIN t[e]]
           parts == {{e} \X DOMAIN t[e] : e \in Emails}
<1>3. IsFiniteSet(parts)
  <2>1. part \in Surjection(Emails, parts)
    BY DEF Surjection
  <2> QED BY <1>1, <2>1, FS_Surjection
<1>4. IsFiniteSet(UNION parts)
  BY <1>2, <1>3, FS_UNION
<1>5. \A s : IsFiniteSet({r \in Ids(t) : t[r[1]][r[2]].status = s})
  BY <1>4, FS_Subset DEF Ids
<1>6. \A s : Cardinality({r \in Ids(t) : t[r[1]][r[2]].status = s}) \in Nat
  BY <1>5, FS_CardinalityType
<1> QED BY <1>6 DEF SubscriptionCounts

LEMMA ChangedTable ==
  ASSUME subs \in [Emails -> Seq(Row)], NEW rows, NEW status \in Status
  PROVE  /\ Changed(rows, status) \in [Emails -> Seq(Row)]
         /\ \A e \in Emails :
              /\ DOMAIN Changed(rows, status)[e] = DOMAIN subs[e]
              /\ \A i \in DOMAIN subs[e] :
                   /\ Changed(rows, status)[e][i].acc = subs[e][i].acc
                   /\ <<e, i>> \in rows => Changed(rows, status)[e][i].status = status
                   /\ <<e, i>> \notin rows => Changed(rows, status)[e][i] = subs[e][i]
<1> DEFINE t == Changed(rows, status)
<1>1. ASSUME NEW e \in Emails
      PROVE  t[e] \in Seq(Row)
  <2>1. DOMAIN subs[e] = 1 .. Len(subs[e]) /\ Len(subs[e]) \in Nat
    BY LenProperties
  <2>2. \A i \in 1 .. Len(subs[e]) : subs[e][i] \in Row
    BY ElementOfSeq
  <2>3. t[e] \in [1 .. Len(subs[e]) -> Row]
    BY <2>1, <2>2 DEF Changed, Row
  <2> QED BY <2>1, <2>3, SeqDef
<1>2. \A e \in Emails : \A i \in DOMAIN subs[e] : subs[e][i] \in Row
  BY ElementOfSeq, LenProperties
<1> QED BY <1>1, <1>2 DEF Changed, Row

\* A link that works again changes no account's place.
LEMMA LinkedAccounts ==
  ASSUME NEW accs \in Seq(Account), NEW a \in 1 .. Len(accs)
  PROVE  LET linked == [accs EXCEPT ![a].link = "UNPROCESSED"]
         IN  linked \in Seq(Account) /\ Len(linked) = Len(accs)
<1> DEFINE account == [accs[a] EXCEPT !.link = "UNPROCESSED"]
<1>1. accs[a] \in Account
  BY ElementOfSeq
<1>2. account \in Account
  BY <1>1 DEF Account
<1> HIDE DEF account
<1>3. [accs EXCEPT ![a] = account] \in Seq(Account) /\ Len([accs EXCEPT ![a] = account]) = Len(accs)
  BY <1>2, ExceptSeq
<1> QED BY <1>3 DEF account

LEMMA LinkType ==
  ASSUME NEW t, t.optin \in BOOLEAN, NEW accs \in Seq(Account), NEW a \in 1 .. Len(accs)
  PROVE  Link(t, accs, a) \in Seq(Account) /\ Len(Link(t, accs, a)) = Len(accs)
BY LinkedAccounts DEF Link

LEMMA AppendRow ==
  ASSUME NEW s \in Seq(Row), NEW r \in Row
  PROVE  /\ Append(s, r) \in Seq(Row) /\ Len(Append(s, r)) = Len(s) + 1
         /\ \A i \in DOMAIN s : Append(s, r)[i] = s[i]
         /\ Append(s, r)[Len(s) + 1] = r
<1>1. Len(s) \in Nat /\ DOMAIN s = 1 .. Len(s)
  BY LenProperties
<1> QED BY <1>1

\* The account that a transaction's row for e belongs to.
AccountFor(t, e) == IF t.acc[e] = 0 THEN Len(accounts[e]) + 1 ELSE t.acc[e]

\* An address that the call has twice gets one element more in a table.
LEMMA AddedRows ==
  ASSUME NEW R, NEW s \in Seq(R), NEW t, NEW e, NEW what \in R
  PROVE  /\ s \o Again(t, e, what) \in Seq(R)
         /\ e \notin t.twice => s \o Again(t, e, what) = s
         /\ e \in t.twice => Len(s \o Again(t, e, what)) = Len(s) + 1
         /\ \A i \in 1 .. Len(s) : (s \o Again(t, e, what))[i] = s[i]
         /\ e \in t.twice => (s \o Again(t, e, what))[Len(s) + 1] = what
<1>1. Len(s) \in Nat
  BY LenProperties
<1>2. CASE e \notin t.twice
  BY <1>2, ConcatEmptySeq DEF Again
<1>3. CASE e \in t.twice
  <2>1. Again(t, e, what) = <<what>> /\ <<what>> \in Seq(R) /\ Len(<<what>>) = 1 /\ <<what>>[1] = what
    BY <1>3 DEF Again
  <2>2. /\ s \o <<what>> \in Seq(R) /\ Len(s \o <<what>>) = Len(s) + 1
        /\ \A i \in 1 .. Len(s) + 1 :
             (s \o <<what>>)[i] = IF i <= Len(s) THEN s[i] ELSE <<what>>[i - Len(s)]
    BY <2>1, ConcatProperties
  <2>3. (s \o <<what>>)[Len(s) + 1] = what
    BY <1>1, <2>1, <2>2
  <2> QED BY <1>1, <1>3, <2>1, <2>2, <2>3
<1> QED BY <1>2, <1>3

\* A commit keeps the rows of an address, and those that it adds belong to accounts
\* that are there.  An address that the call has once gets at most one account, and
\* one row of the account found or just made.
LEMMA CommitTables ==
  ASSUME TypeOK, NEW c \in Callers, Commit(c)
  PROVE  /\ accounts' \in [Emails -> Seq(Account)]
         /\ subs' \in [Emails -> Seq(Row)]
         /\ \A e \in Emails \ tx[c].fresh : accounts'[e] = accounts[e] /\ subs'[e] = subs[e]
         /\ \A e \in tx[c].fresh :
              /\ Len(accounts'[e]) >= Len(accounts[e])
              /\ \A i \in DOMAIN subs[e] : i \in DOMAIN subs'[e] /\ subs'[e][i] = subs[e][i]
              /\ \A i \in DOMAIN subs'[e] \ DOMAIN subs[e] :
                   subs'[e][i].acc \in 1 .. Len(accounts'[e])
         /\ \A e \in tx[c].fresh \ tx[c].twice :
              /\ Len(accounts'[e]) = IF tx[c].acc[e] = 0 THEN Len(accounts[e]) + 1
                                     ELSE Len(accounts[e])
              /\ Len(subs'[e]) = Len(subs[e]) + 1
              /\ subs'[e][Len(subs[e]) + 1].acc = AccountFor(tx[c], e)
              /\ subs'[e][Len(subs[e]) + 1].status = IF tx[c].optin THEN "NEW" ELSE "CONFIRMED"
<1> DEFINE t == tx[c]
<1>1. t.optin \in BOOLEAN /\ t.fresh \subseteq Emails /\ t.fresh \subseteq t.emails
  BY DEF TypeOK
<1>2. \A e \in Emails : /\ accounts[e] \in Seq(Account) /\ Len(accounts[e]) \in Nat
                        /\ DOMAIN accounts[e] = 1 .. Len(accounts[e])
                        /\ subs[e] \in Seq(Row) /\ Len(subs[e]) \in Nat
                        /\ DOMAIN subs[e] = 1 .. Len(subs[e])
  BY LenProperties DEF TypeOK
<1>3. \A e \in t.fresh : t.acc[e] \in {0} \cup 1 .. Len(accounts[e])
  BY <1>1, <1>2 DEF TypeOK
<1>4. \A e \in Emails \ t.fresh : accounts'[e] = accounts[e] /\ subs'[e] = subs[e]
  BY DEF Commit
<1>5. ASSUME NEW e \in t.fresh
      PROVE  /\ accounts'[e] \in Seq(Account)
             /\ t.acc[e] = 0 => Len(accounts'[e]) =
                  IF e \in t.twice THEN Len(accounts[e]) + 2 ELSE Len(accounts[e]) + 1
             /\ t.acc[e] # 0 => Len(accounts'[e]) = Len(accounts[e])
  <2>1. CASE t.acc[e] = 0
    <3> DEFINE account == NewAccount(t.optin)
               more == Append(accounts[e], account)
               linked == Link(t, more, Len(accounts[e]) + 1)
    <3>1. account \in Account
      BY DEF NewAccount, Account
    <3>2. more \in Seq(Account) /\ Len(more) = Len(accounts[e]) + 1
      BY <1>1, <1>2, <3>1
    <3>3. accounts'[e] = linked \o Again(t, e, account)
      BY <1>1, <2>1 DEF Commit
    <3> HIDE DEF more, account
    <3>4. Len(accounts[e]) + 1 \in 1 .. Len(more)
      BY <1>1, <1>2, <3>2
    <3>5. linked \in Seq(Account) /\ Len(linked) = Len(accounts[e]) + 1
      BY <1>1, <3>2, <3>4, LinkType
    <3> HIDE DEF linked
    <3>6. /\ linked \o Again(t, e, account) \in Seq(Account)
          /\ e \notin t.twice => linked \o Again(t, e, account) = linked
          /\ e \in t.twice => Len(linked \o Again(t, e, account)) = Len(linked) + 1
      BY <3>1, <3>5, AddedRows
    <3>7. Len(accounts[e]) \in Nat
      BY <1>1, <1>2
    <3> QED BY <2>1, <3>3, <3>5, <3>6, <3>7
  <2>2. CASE t.acc[e] # 0
    <3>1. accounts'[e] = Link(t, accounts[e], t.acc[e])
      BY <1>1, <2>2 DEF Commit
    <3>2. t.acc[e] \in 1 .. Len(accounts[e])
      BY <1>3, <2>2
    <3> QED BY <1>1, <1>2, <2>2, <3>1, <3>2, LinkType
  <2> QED BY <2>1, <2>2
<1>6. ASSUME NEW e \in t.fresh
      PROVE  /\ NewRow(t, e) \in Row /\ NewRow(t, e).acc = AccountFor(t, e)
             /\ NewRow(t, e).acc \in 1 .. Len(accounts'[e])
             /\ NewRow(t, e).status = (IF t.optin THEN "NEW" ELSE "CONFIRMED")
             /\ SecondRow(t, e) \in Row
             /\ e \in t.twice => SecondRow(t, e).acc \in 1 .. Len(accounts'[e])
  <2>1. Len(accounts[e]) \in Nat /\ t.acc[e] \in {0} \cup 1 .. Len(accounts[e])
    BY <1>1, <1>2, <1>3
  <2>2. AccountFor(t, e) \in 1 .. Len(accounts'[e]) /\ AccountFor(t, e) \in Nat \ {0}
    BY <1>5, <2>1 DEF AccountFor
  <2>3. /\ NewRow(t, e) = [acc |-> AccountFor(t, e),
                           status |-> IF t.optin THEN "NEW" ELSE "CONFIRMED"]
        /\ SecondRow(t, e) = [acc |-> IF t.acc[e] = 0 THEN AccountFor(t, e) + 1 ELSE AccountFor(t, e),
                              status |-> IF t.optin THEN "NEW" ELSE "CONFIRMED"]
    BY DEF NewRow, SecondRow, AccountFor
  <2>4. e \in t.twice => SecondRow(t, e).acc \in 1 .. Len(accounts'[e])
    BY <1>5, <2>1, <2>3 DEF AccountFor
  <2> QED BY <2>2, <2>3, <2>4 DEF Row, Status
<1>7. ASSUME NEW e \in t.fresh
      PROVE  /\ subs'[e] \in Seq(Row)
             /\ Len(subs'[e]) = IF e \in t.twice THEN Len(subs[e]) + 2 ELSE Len(subs[e]) + 1
             /\ \A i \in DOMAIN subs[e] : i \in DOMAIN subs'[e] /\ subs'[e][i] = subs[e][i]
             /\ subs'[e][Len(subs[e]) + 1] = NewRow(t, e)
             /\ e \in t.twice => subs'[e][Len(subs[e]) + 2] = SecondRow(t, e)
  <2> DEFINE more == Append(subs[e], NewRow(t, e))
             n == Len(subs[e])
  <2>1. /\ more \in Seq(Row) /\ Len(more) = n + 1 /\ more[n + 1] = NewRow(t, e)
        /\ \A i \in DOMAIN subs[e] : more[i] = subs[e][i]
    BY <1>1, <1>2, <1>6, AppendRow
  <2>2. subs'[e] = more \o Again(t, e, SecondRow(t, e))
    BY <1>1 DEF Commit
  <2>3. n \in Nat /\ DOMAIN subs[e] = 1 .. n
    BY <1>1, <1>2
  <2> HIDE DEF more, n
  <2>4. /\ subs'[e] \in Seq(Row)
        /\ e \notin t.twice => subs'[e] = more
        /\ e \in t.twice => Len(subs'[e]) = Len(more) + 1
        /\ \A i \in 1 .. Len(more) : subs'[e][i] = more[i]
        /\ e \in t.twice => subs'[e][Len(more) + 1] = SecondRow(t, e)
    BY <1>6, <2>1, <2>2, AddedRows
  <2>5. Len(subs'[e]) = IF e \in t.twice THEN n + 2 ELSE n + 1
    BY <2>1, <2>3, <2>4
  <2>6. DOMAIN subs'[e] = 1 .. Len(subs'[e])
    BY <2>4, LenProperties
  <2>7. \A i \in DOMAIN subs[e] : i \in DOMAIN subs'[e] /\ subs'[e][i] = subs[e][i]
    BY <2>1, <2>3, <2>4, <2>5, <2>6
  <2>8. subs'[e][n + 1] = NewRow(t, e)
    BY <2>1, <2>3, <2>4
  <2>9. e \in t.twice => subs'[e][n + 2] = SecondRow(t, e)
    BY <2>1, <2>3, <2>4
  <2> QED BY <2>4, <2>5, <2>7, <2>8, <2>9 DEF n
<1>8. accounts' \in [Emails -> Seq(Account)]
  <2>1. \A e \in Emails : accounts'[e] \in Seq(Account)
    BY <1>2, <1>4, <1>5
  <2> QED BY <2>1 DEF Commit
<1>9. subs' \in [Emails -> Seq(Row)]
  <2>1. \A e \in Emails : subs'[e] \in Seq(Row)
    BY <1>2, <1>4, <1>7
  <2> QED BY <2>1 DEF Commit
<1>10. ASSUME NEW e \in t.fresh
       PROVE  /\ Len(accounts'[e]) >= Len(accounts[e])
              /\ \A i \in DOMAIN subs'[e] \ DOMAIN subs[e] :
                   subs'[e][i].acc \in 1 .. Len(accounts'[e])
  <2>1. Len(accounts[e]) \in Nat /\ Len(subs[e]) \in Nat /\ DOMAIN subs[e] = 1 .. Len(subs[e])
    BY <1>1, <1>2
  <2>2. DOMAIN subs'[e] = 1 .. Len(subs'[e])
    BY <1>7, LenProperties
  <2>3. \A i \in DOMAIN subs'[e] \ DOMAIN subs[e] :
          \/ i = Len(subs[e]) + 1
          \/ i = Len(subs[e]) + 2 /\ e \in t.twice
    BY <1>7, <2>1, <2>2
  <2>4. Len(accounts'[e]) >= Len(accounts[e])
    BY <1>5, <2>1
  <2> QED BY <1>6, <1>7, <2>3, <2>4
<1>11. ASSUME NEW e \in t.fresh \ t.twice
       PROVE  /\ Len(accounts'[e]) = IF t.acc[e] = 0 THEN Len(accounts[e]) + 1 ELSE Len(accounts[e])
              /\ Len(subs'[e]) = Len(subs[e]) + 1
              /\ subs'[e][Len(subs[e]) + 1].acc = AccountFor(t, e)
              /\ subs'[e][Len(subs[e]) + 1].status = IF t.optin THEN "NEW" ELSE "CONFIRMED"
  BY <1>5, <1>6, <1>7
<1> QED BY <1>4, <1>7, <1>8, <1>9, <1>10, <1>11

\* The table of a step that gives these rows another status.
Restated(rs, status) ==
    /\ subs' \in [Emails -> Seq(Row)]
    /\ \A e \in Emails :
         /\ DOMAIN subs'[e] = DOMAIN subs[e]
         /\ \A i \in DOMAIN subs[e] :
              /\ subs'[e][i].acc = subs[e][i].acc
              /\ <<e, i>> \in rs => subs'[e][i].status = status
              /\ <<e, i>> \notin rs => subs'[e][i] = subs[e][i]

LEMMA ChangedNext ==
  ASSUME TypeOK, NEW rs, NEW status \in Status, subs' = Changed(rs, status)
  PROVE  Restated(rs, status)
<1>1. subs \in [Emails -> Seq(Row)]
  BY DEF TypeOK
<1> QED BY <1>1, ChangedTable DEF Restated

------------------------------------------------------------------------------
(* Types.                                                                    *)

\* The parts of TypeOK.
TablesTyped ==
    /\ accounts \in [Emails -> Seq(Account)]
    /\ subs \in [Emails -> Seq(Row)]
    /\ \A e \in Emails : \A i \in DOMAIN subs[e] : subs[e][i].acc \in DOMAIN accounts[e]

TxTyped(t, accs) ==
    /\ t.pc \in {"idle", "open"}
    /\ t.optin \in BOOLEAN
    /\ t.asks \subseteq t.fresh /\ t.fresh \subseteq t.emails
    /\ t.twice \subseteq t.emails /\ t.emails \subseteq Emails
    /\ t.acc \in [t.emails -> Nat]
    /\ \A e \in t.emails : t.acc[e] \in {0} \cup DOMAIN accs[e]

TxsTyped == DOMAIN tx = Callers /\ \A c \in Callers : TxTyped(tx[c], accounts)

ResendTyped ==
    /\ Cardinality(resend) <= 1
    /\ \A r \in resend : /\ r.email \in Emails /\ r.row \in DOMAIN subs[r.email]
                         /\ r.status \in Status

LockTyped ==
    /\ lock.pc \in {"free", "recount", "update", "confirm"}
    /\ lock.rows \subseteq Ids(subs)
    /\ lock.accs \subseteq Ids(accounts)
    /\ lock.status \in Status
    /\ lock.tally \in [Status -> Nat]

NumbersTyped == due \in Nat /\ count \in [Status -> Nat] /\ acts \in Nat /\ trouble \in Nat

HistoryTyped ==
    /\ overlapped \subseteq Emails /\ readded \subseteq Emails /\ left \subseteq Emails
    /\ missed \in BOOLEAN

LEMMA TypeParts ==
  TypeOK <=> TablesTyped /\ TxsTyped /\ ResendTyped /\ LockTyped /\ NumbersTyped /\ HistoryTyped
<1>1. (\A r \in Ids(subs) : subs[r[1]][r[2]].acc \in DOMAIN accounts[r[1]])
        <=> (\A e \in Emails : \A i \in DOMAIN subs[e] : subs[e][i].acc \in DOMAIN accounts[e])
  <2>1. \A e, i : <<e, i>>[1] = e /\ <<e, i>>[2] = i
    OBVIOUS
  <2>2. ASSUME \A r \in Ids(subs) : subs[r[1]][r[2]].acc \in DOMAIN accounts[r[1]],
               NEW e \in Emails, NEW i \in DOMAIN subs[e]
        PROVE  subs[e][i].acc \in DOMAIN accounts[e]
    <3>1. <<e, i>> \in Ids(subs)
      BY IdsOf
    <3> QED BY <2>1, <2>2, <3>1
  <2>3. ASSUME \A e \in Emails : \A i \in DOMAIN subs[e] : subs[e][i].acc \in DOMAIN accounts[e],
               NEW r \in Ids(subs)
        PROVE  subs[r[1]][r[2]].acc \in DOMAIN accounts[r[1]]
    BY <2>3, IdsOf
  <2> QED BY <2>2, <2>3
<1>2. \A r \in resend : <<r.email, r.row>> \in Ids(subs)
                          <=> r.email \in Emails /\ r.row \in DOMAIN subs[r.email]
  BY IdsOf
<1> QED BY <1>1, <1>2 DEF TypeOK, TablesTyped, TxsTyped, TxTyped, ResendTyped, LockTyped,
                          NumbersTyped, HistoryTyped

LEMMA TypePartsNext ==
  TypeOK' <=> TablesTyped' /\ TxsTyped' /\ ResendTyped' /\ LockTyped' /\ NumbersTyped'
              /\ HistoryTyped'
BY TypeParts, PTL

\* Tables only grow.
Grows == \A e \in Emails : /\ DOMAIN accounts[e] \subseteq DOMAIN accounts'[e]
                           /\ DOMAIN subs[e] \subseteq DOMAIN subs'[e]

LEMMA GrowingIds ==
  ASSUME Grows
  PROVE  Ids(subs) \subseteq Ids(subs') /\ Ids(accounts) \subseteq Ids(accounts')
BY DEF Grows, Ids

\* What the callers, the form and the lock hold stays well typed.
LEMMA HeldTypes ==
  ASSUME TypeOK, Grows
  PROVE  /\ \A c \in Callers : tx'[c] = tx[c] => TxTyped(tx'[c], accounts')
         /\ UNCHANGED tx => TxsTyped'
         /\ UNCHANGED resend => ResendTyped'
         /\ UNCHANGED lock => LockTyped'
<1>1. TxsTyped /\ ResendTyped /\ LockTyped
  BY TypeParts
<1>2. ASSUME NEW c \in Callers, tx'[c] = tx[c]
      PROVE  TxTyped(tx'[c], accounts')
  BY <1>1, <1>2 DEF TxsTyped, TxTyped, Grows
<1>3. UNCHANGED tx => TxsTyped'
  BY <1>1, <1>2 DEF TxsTyped
<1>4. UNCHANGED resend => ResendTyped'
  BY <1>1 DEF ResendTyped, Grows
<1>5. UNCHANGED lock => LockTyped'
  BY <1>1, GrowingIds DEF LockTyped
<1> QED BY <1>2, <1>3, <1>4, <1>5

LEMMA TablesStay ==
  ASSUME TypeOK, UNCHANGED tables
  PROVE  Grows /\ TablesTyped'
BY TypeParts DEF Grows, TablesTyped, tables

\* A transaction that ends.
LEMMA TxEnds ==
  ASSUME TypeOK, Grows, NEW c \in Callers, NEW t, tx' = [tx EXCEPT ![c] = t], TxTyped(t, accounts')
  PROVE  TxsTyped'
<1>1. DOMAIN tx = Callers
  BY DEF TypeOK
<1>2. \A d \in Callers \ {c} : tx'[d] = tx[d]
  BY <1>1
<1>3. \A d \in Callers \ {c} : TxTyped(tx'[d], accounts')
  BY <1>2, HeldTypes
<1>4. tx'[c] = t
  BY <1>1
<1>5. TxTyped(tx'[c], accounts')
  BY <1>4 DEF TxTyped
<1> QED BY <1>1, <1>3, <1>5 DEF TxsTyped

LEMMA TypeIdleTx ==
  ASSUME NEW accs PROVE TxTyped(NoTx, accs)
BY DEF TxTyped, NoTx

LEMMA TypeInit ==
  Init => TypeOK
<1> SUFFICES ASSUME Init PROVE TypeOK
  OBVIOUS
<1>1. \A x, y : [status |-> x, link |-> y].status = x /\ [status |-> x, link |-> y].link = y
  OBVIOUS
<1>2. [status |-> "VERIFIED", link |-> "none"] \in Account
  BY DEF Account
<1>3. <<[status |-> "VERIFIED", link |-> "none"]>> \in Seq(Account) /\ <<>> \in Seq(Account)
      /\ <<>> \in Seq(Row)
  BY <1>2, EmptySeq
<1>4. accounts \in [Emails -> Seq(Account)] /\ subs \in [Emails -> Seq(Row)]
  BY <1>3 DEF Init
<1>5. \A e \in Emails : subs[e] = <<>> /\ DOMAIN subs[e] = {}
  BY DEF Init
<1>6. TablesTyped
  BY <1>4, <1>5 DEF TablesTyped
<1>7. TxsTyped
  BY TypeIdleTx DEF Init, TxsTyped, TxTyped, NoTx
<1>8. Cardinality(resend) = 0 /\ resend = {}
  BY FS_EmptySet DEF Init
<1>9. Tally0 \in [Status -> Nat] /\ "NEW" \in Status
  BY DEF Tally0, Status
<1>10. LockTyped /\ NumbersTyped /\ HistoryTyped
  BY <1>9 DEF Init, LockTyped, NumbersTyped, HistoryTyped, Free, Note
<1> QED BY <1>6, <1>7, <1>8, <1>10, TypeParts DEF ResendTyped

LEMMA TypeMassSubscribe ==
  ASSUME TypeOK, NEW c \in Callers, NEW S \in SUBSET Emails, NEW twice \in SUBSET S,
         NEW optin \in BOOLEAN, MassSubscribe(c, S, twice, optin), acts' \in Nat, trouble' \in Nat
  PROVE  TypeOK'
<1> DEFINE acc == [e \in S |-> AccountOf(e)]
           t == tx'[c]
<1>1. UNCHANGED tables /\ UNCHANGED resend /\ UNCHANGED lock
  BY DEF MassSubscribe
<1>2. Grows /\ TablesTyped'
  BY <1>1, TablesStay
<1>3. DOMAIN tx = Callers /\ acts \in Nat /\ trouble \in Nat /\ due \in Nat
  BY DEF TypeOK
<1>4. \A e \in S : acc[e] \in Nat /\ acc[e] \in {0} \cup DOMAIN accounts[e]
  <2> TAKE e \in S
  <2>1. accounts[e] \in Seq(Account) /\ DOMAIN accounts[e] = 1 .. Len(accounts[e])
    BY LenProperties DEF TypeOK
  <2>2. accounts[e] # <<>> => 1 \in DOMAIN accounts[e]
    BY <2>1, EmptySeq
  <2> QED BY <2>2 DEF AccountOf
<1>5. TxsTyped'
  <2> DEFINE fresh == {e \in S : ~Exists(e, acc[e])}
             u == [pc |-> "open", optin |-> optin, emails |-> S, twice |-> twice,
                   fresh |-> fresh, asks |-> Asks(fresh, acc, optin), acc |-> acc]
  <2>1. tx' = [tx EXCEPT ![c] = u]
    BY DEF MassSubscribe
  <2>2. \A e \in S : DOMAIN accounts[e] \subseteq DOMAIN accounts'[e]
    BY <1>2 DEF Grows
  <2>3. Asks(fresh, acc, optin) \subseteq fresh /\ fresh \subseteq S
    BY DEF Asks
  <2>4. acc \in [S -> Nat]
    BY <1>4
  <2> HIDE DEF acc, fresh
  <2>5. TxTyped(u, accounts')
    BY <1>4, <2>2, <2>3, <2>4 DEF TxTyped
  <2> QED BY <1>2, <2>1, <2>5, TxEnds
<1>6. ResendTyped' /\ LockTyped'
  BY <1>1, <1>2, HeldTypes
<1>7. NumbersTyped'
  BY <1>1, <1>3 DEF MassSubscribe, NumbersTyped, TypeOK
<1>8. HistoryTyped'
  BY DEF MassSubscribe, HistoryTyped, Note, TypeOK
<1> QED BY <1>2, <1>5, <1>6, <1>7, <1>8, TypePartsNext

LEMMA TypeCommit ==
  ASSUME TypeOK, NEW c \in Callers, Commit(c)
  PROVE  TypeOK'
<1> DEFINE t == tx[c]
<1>1. \A e \in Emails : /\ accounts[e] \in Seq(Account) /\ Len(accounts[e]) \in Nat
                        /\ DOMAIN accounts[e] = 1 .. Len(accounts[e])
                        /\ subs[e] \in Seq(Row) /\ Len(subs[e]) \in Nat
                        /\ DOMAIN subs[e] = 1 .. Len(subs[e])
  BY LenProperties DEF TypeOK
<1>2. accounts' \in [Emails -> Seq(Account)] /\ subs' \in [Emails -> Seq(Row)]
  BY CommitTables
<1>3. \A e \in Emails : /\ DOMAIN accounts'[e] = 1 .. Len(accounts'[e])
                        /\ DOMAIN subs'[e] = 1 .. Len(subs'[e])
                        /\ Len(accounts'[e]) \in Nat /\ Len(subs'[e]) \in Nat
  BY <1>2, LenProperties
<1>4. t.fresh \subseteq Emails
  BY DEF TypeOK
<1>5. ASSUME NEW e \in Emails
      PROVE  /\ DOMAIN accounts[e] \subseteq DOMAIN accounts'[e]
             /\ DOMAIN subs[e] \subseteq DOMAIN subs'[e]
             /\ \A i \in DOMAIN subs'[e] : subs'[e][i].acc \in DOMAIN accounts'[e]
  <2>1. CASE e \notin t.fresh
    <3>1. accounts'[e] = accounts[e] /\ subs'[e] = subs[e]
      BY <2>1, CommitTables
    <3> QED BY <3>1, TypeParts DEF TablesTyped
  <2>2. CASE e \in t.fresh
    <3>1. DOMAIN accounts[e] \subseteq DOMAIN accounts'[e]
      BY <1>1, <1>3, <2>2, CommitTables
    <3>2. \A i \in DOMAIN subs[e] : /\ i \in DOMAIN subs'[e]
                                   /\ subs'[e][i].acc \in DOMAIN accounts[e]
      BY <2>2, CommitTables, TypeParts DEF TablesTyped
    <3>3. \A i \in DOMAIN subs'[e] \ DOMAIN subs[e] : subs'[e][i].acc \in DOMAIN accounts'[e]
      BY <1>3, <2>2, CommitTables
    <3> QED BY <3>1, <3>2, <3>3
  <2> QED BY <2>1, <2>2
<1>6. Grows /\ TablesTyped'
  BY <1>2, <1>5 DEF Grows, TablesTyped
<1>7. TxTyped(NoTx, accounts')
  BY TypeIdleTx
<1>8. TxsTyped'
  BY <1>6, <1>7, TxEnds DEF Commit
<1>9. ResendTyped' /\ LockTyped' /\ NumbersTyped'
  BY <1>6, HeldTypes, TypeParts DEF Commit, counting, NumbersTyped
<1>10. HistoryTyped'
  BY DEF Commit, HistoryTyped, TypeOK
<1> QED BY <1>6, <1>8, <1>9, <1>10, TypePartsNext

LEMMA TypeRolledBack ==
  ASSUME TypeOK, NEW c \in Callers, RolledBack(c)
  PROVE  TypeOK'
<1>1. Grows /\ TablesTyped'
  BY TablesStay DEF RolledBack
<1>2. TxTyped(NoTx, accounts')
  BY TypeIdleTx
<1>3. TxsTyped'
  BY <1>1, <1>2, TxEnds DEF RolledBack
<1>4. ResendTyped' /\ LockTyped'
  BY <1>1, HeldTypes DEF RolledBack, counting
<1>5. NumbersTyped' /\ HistoryTyped'
  BY TypeParts DEF RolledBack, Trouble, Unbounded, counting, NumbersTyped, HistoryTyped
<1> QED BY <1>1, <1>3, <1>4, <1>5, TypePartsNext

LEMMA TypeResend ==
  ASSUME TypeOK, NEW e \in Emails, NEW i \in DOMAIN subs[e], Resend(e, i)
  PROVE  TypeOK'
<1>1. Grows /\ TablesTyped'
  BY TablesStay DEF Resend
<1>2. TxsTyped' /\ LockTyped'
  BY <1>1, HeldTypes DEF Resend, counting
<1>3. ResendTyped'
  <2>1. subs[e][i].status \in Status
    <3>1. subs[e][i] \in Row
      BY LenProperties, ElementOfSeq DEF TypeOK
    <3> QED BY <3>1 DEF Row
  <2>2. Cardinality(resend') <= 1
    <3>1. PICK x : resend' = {x}
      BY DEF Resend
    <3>2. Cardinality({x}) = 1
      BY FS_Singleton
    <3> QED BY <3>1, <3>2
  <2> QED BY <2>1, <2>2 DEF Resend, tables, ResendTyped
<1>4. NumbersTyped' /\ HistoryTyped'
  BY TypeParts DEF Resend, Act, counting, Note, NumbersTyped, HistoryTyped
<1> QED BY <1>1, <1>2, <1>3, <1>4, TypePartsNext

LEMMA TypeSendConfirmationEmail ==
  ASSUME TypeOK, SendConfirmationEmail
  PROVE  TypeOK'
<1>1. PICK r \in resend :
        /\ accounts' = [accounts EXCEPT ![r.email][subs[r.email][r.row].acc].link = "UNPROCESSED"]
        /\ subs' = Changed({<<r.email, r.row>>}, r.status)
        /\ resend' = {}
        /\ missed' = (missed \/ (History /\ subs' # subs))
        /\ UNCHANGED <<tx, counting, acts, trouble, overlapped, readded, left>>
  BY DEF SendConfirmationEmail
<1> DEFINE a == subs[r.email][r.row].acc
<1>2. /\ r.email \in Emails /\ r.row \in DOMAIN subs[r.email] /\ r.status \in Status
      /\ a \in DOMAIN accounts[r.email]
  BY TypeParts DEF ResendTyped, TablesTyped
<1>3. /\ accounts[r.email] \in Seq(Account)
      /\ DOMAIN accounts[r.email] = 1 .. Len(accounts[r.email])
  BY <1>2, LenProperties DEF TypeOK
<1> DEFINE linked == [accounts[r.email] EXCEPT ![a].link = "UNPROCESSED"]
<1>4. linked \in Seq(Account) /\ Len(linked) = Len(accounts[r.email])
  BY <1>2, <1>3, LinkedAccounts
<1>5. DOMAIN linked = DOMAIN accounts[r.email]
  BY <1>3, <1>4, LenProperties
<1>6. accounts' = [accounts EXCEPT ![r.email] = linked]
  BY <1>1
<1> HIDE DEF linked
<1>7. accounts' \in [Emails -> Seq(Account)]
      /\ \A e \in Emails : DOMAIN accounts'[e] = DOMAIN accounts[e]
  BY <1>2, <1>4, <1>5, <1>6 DEF TypeOK
<1>8. /\ subs' \in [Emails -> Seq(Row)]
      /\ \A e \in Emails : DOMAIN subs'[e] = DOMAIN subs[e]
      /\ \A e \in Emails : \A i \in DOMAIN subs[e] : subs'[e][i].acc = subs[e][i].acc
  <2>1. Restated({<<r.email, r.row>>}, r.status)
    BY <1>1, <1>2, ChangedNext
  <2> QED BY <2>1 DEF Restated
<1>9. TablesTyped' /\ Grows
  BY <1>7, <1>8, TypeParts DEF TablesTyped, Grows
<1>10. TxsTyped' /\ LockTyped'
  BY <1>1, <1>9, HeldTypes DEF counting
<1>11. ResendTyped'
  <2>1. Cardinality({}) = 0
    BY FS_EmptySet
  <2>2. resend' = {}
    BY <1>1
  <2>3. Cardinality(resend') = 0
    BY <2>1, <2>2
  <2> QED BY <2>2, <2>3 DEF ResendTyped
<1>12. NumbersTyped' /\ HistoryTyped'
  BY <1>1, TypeParts DEF counting, NumbersTyped, HistoryTyped
<1> QED BY <1>9, <1>10, <1>11, <1>12, TypePartsNext

LEMMA TypeUpdateSubscriberCount ==
  ASSUME TypeOK, NEW pc \in {"recount", "update", "confirm"}, NEW rs \in SUBSET Ids(subs),
         NEW as \in SUBSET Ids(accounts), NEW status \in Status,
         UpdateSubscriberCount(pc, rs, as, status),
         due' \in Nat, acts' \in Nat, trouble' \in Nat,
         overlapped' \subseteq Emails, readded' \subseteq Emails
  PROVE  TypeOK'
<1>1. Grows /\ TablesTyped'
  BY TablesStay DEF UpdateSubscriberCount
<1>2. TxsTyped' /\ ResendTyped'
  BY <1>1, HeldTypes DEF UpdateSubscriberCount
<1>3. SubscriptionCounts(Changed(rs, status)) \in [Status -> Nat]
  <2>1. Changed(rs, status) \in [Emails -> Seq(Row)]
    BY ChangedTable DEF TypeOK
  <2> QED BY <2>1, CountsAreNumbers
<1>4. LockTyped'
  BY <1>3 DEF UpdateSubscriberCount, LockTyped, tables
<1>5. NumbersTyped' /\ HistoryTyped'
  BY TypeParts DEF UpdateSubscriberCount, NumbersTyped, HistoryTyped
<1> QED BY <1>1, <1>2, <1>4, <1>5, TypePartsNext

LEMMA TypeRecount ==
  ASSUME TypeOK, Recount
  PROVE  TypeOK'
<1>1. due' \in Nat
  BY DEF Recount, TypeOK
<1>2. acts' \in Nat /\ trouble' \in Nat /\ overlapped' \subseteq Emails /\ readded' \subseteq Emails
  BY DEF Recount, Unbounded, TypeOK
<1>3. "NEW" \in Status
  BY DEF Status
<1> QED BY <1>1, <1>2, <1>3, TypeUpdateSubscriberCount DEF Recount

LEMMA TypeUpdate ==
  ASSUME TypeOK, NEW e \in Emails, NEW a, NEW status \in Status, Update(e, a, status),
         acts' \in Nat, trouble' \in Nat
  PROVE  TypeOK'
<1>1. {e} \X RowsOf(e, a) \in SUBSET Ids(subs)
  BY DEF Ids, RowsOf
<1>2. due' \in Nat
  BY DEF Update, TypeOK
<1>3. overlapped' \subseteq Emails /\ readded' \subseteq Emails
  BY DEF Update, Note, TypeOK
<1> QED BY <1>1, <1>2, <1>3, TypeUpdateSubscriberCount DEF Update

LEMMA TypeConfirmSubscriber ==
  ASSUME TypeOK, NEW e \in Emails, NEW a \in DOMAIN accounts[e], ConfirmSubscriber(e, a)
  PROVE  TypeOK'
<1>1. {e} \X RowsOf(e, a) \in SUBSET Ids(subs) /\ {<<e, a>>} \in SUBSET Ids(accounts)
  BY IdsOf DEF Ids, RowsOf
<1>2. due' \in Nat /\ acts' \in Nat /\ trouble' \in Nat
  BY DEF ConfirmSubscriber, Unbounded, TypeOK
<1>3. overlapped' \subseteq Emails /\ readded' \subseteq Emails
  BY DEF ConfirmSubscriber, Note, TypeOK
<1>4. "CONFIRMED" \in Status
  BY DEF Status
<1> QED BY <1>1, <1>2, <1>3, <1>4, TypeUpdateSubscriberCount DEF ConfirmSubscriber

LEMMA TypeRecountFails ==
  ASSUME TypeOK, RecountFails
  PROVE  TypeOK'
<1>1. Grows /\ TablesTyped'
  BY TablesStay DEF RecountFails
<1>2. TxsTyped' /\ ResendTyped' /\ LockTyped'
  BY <1>1, HeldTypes DEF RecountFails
<1>3. due' \in Nat
  BY DEF RecountFails, TypeOK
<1>4. NumbersTyped' /\ HistoryTyped'
  BY <1>3, TypeParts, SubscriptionAssumption DEF RecountFails, NumbersTyped, HistoryTyped
<1> QED BY <1>1, <1>2, <1>4, TypePartsNext

LEMMA TypeFree ==
  ASSUME NEW t1, NEW t2
  PROVE  /\ Free.rows \subseteq Ids(t1) /\ Free.accs \subseteq Ids(t2)
         /\ Free.pc = "free" /\ Free.status \in Status /\ Free.tally \in [Status -> Nat]
BY DEF Free, Tally0, Status

LEMMA TypeCommitUpdate ==
  ASSUME TypeOK, CommitUpdate
  PROVE  TypeOK'
<1>1. /\ subs' \in [Emails -> Seq(Row)]
      /\ \A e \in Emails : /\ DOMAIN subs'[e] = DOMAIN subs[e]
                           /\ \A i \in DOMAIN subs[e] : subs'[e][i].acc = subs[e][i].acc
  <2>1. lock.status \in Status /\ subs' = Changed(lock.rows, lock.status)
    BY DEF CommitUpdate, TypeOK
  <2>2. Restated(lock.rows, lock.status)
    BY <2>1, ChangedNext
  <2> QED BY <2>2 DEF Restated
<1>2. ASSUME NEW e \in Emails
      PROVE  accounts'[e] \in Seq(Account) /\ DOMAIN accounts'[e] = DOMAIN accounts[e]
  <2> DEFINE accs == [a \in DOMAIN accounts[e] |->
                        IF <<e, a>> \in lock.accs THEN Confirmed(accounts[e][a])
                        ELSE accounts[e][a]]
  <2>1. accounts'[e] = accs
    BY DEF CommitUpdate
  <2>2. DOMAIN accounts[e] = 1 .. Len(accounts[e]) /\ Len(accounts[e]) \in Nat
        /\ accounts[e] \in Seq(Account)
    BY LenProperties DEF TypeOK
  <2>3. \A a \in 1 .. Len(accounts[e]) : accounts[e][a] \in Account
    BY <2>2, ElementOfSeq
  <2>4. \A x \in Account : Confirmed(x) \in Account
    BY DEF Confirmed, Account
  <2>5. accs \in [1 .. Len(accounts[e]) -> Account]
    BY <2>2, <2>3, <2>4
  <2> QED BY <2>1, <2>2, <2>5, SeqDef
<1>3. accounts' \in [Emails -> Seq(Account)]
  BY <1>2 DEF CommitUpdate
<1>4. TablesTyped' /\ Grows
  BY <1>1, <1>2, <1>3, TypeParts DEF TablesTyped, Grows
<1>5. TxsTyped' /\ ResendTyped'
  BY <1>4, HeldTypes DEF CommitUpdate
<1>6. LockTyped'
  BY TypeFree DEF CommitUpdate, LockTyped
<1>7. NumbersTyped'
  BY TypeParts DEF CommitUpdate, NumbersTyped, LockTyped
<1>8. HistoryTyped'
  <2>1. {r[1] : r \in lock.rows} \subseteq Emails
    BY IdsOf DEF TypeOK
  <2> QED BY <2>1, TypeParts DEF CommitUpdate, Note, HistoryTyped
<1> QED BY <1>4, <1>5, <1>6, <1>7, <1>8, TypePartsNext

LEMMA TypeRollBackUpdate ==
  ASSUME TypeOK, RollBackUpdate
  PROVE  TypeOK'
<1>1. Grows /\ TablesTyped'
  BY TablesStay DEF RollBackUpdate
<1>2. TxsTyped' /\ ResendTyped'
  BY <1>1, HeldTypes DEF RollBackUpdate
<1>3. LockTyped'
  BY TypeFree DEF RollBackUpdate, LockTyped
<1>4. NumbersTyped' /\ HistoryTyped'
  BY TypeParts, SubscriptionAssumption DEF RollBackUpdate, Trouble, NumbersTyped, HistoryTyped
<1> QED BY <1>1, <1>2, <1>3, <1>4, TypePartsNext

LEMMA TypeBounce ==
  ASSUME TypeOK, NEW e \in Emails, Bounce(e)
  PROVE  TypeOK'
<1> DEFINE accs == [a \in DOMAIN accounts[e] |-> [accounts[e][a] EXCEPT !.status = "BOUNCED"]]
<1>1. accounts' = [accounts EXCEPT ![e] = accs]
  BY DEF Bounce, TypeOK
<1>2. accs \in Seq(Account) /\ DOMAIN accs = DOMAIN accounts[e]
  <2>1. DOMAIN accounts[e] = 1 .. Len(accounts[e]) /\ Len(accounts[e]) \in Nat
        /\ accounts[e] \in Seq(Account)
    BY LenProperties DEF TypeOK
  <2>2. \A a \in 1 .. Len(accounts[e]) : accounts[e][a] \in Account
    BY <2>1, ElementOfSeq
  <2>3. accs \in [1 .. Len(accounts[e]) -> Account]
    BY <2>1, <2>2 DEF Account
  <2> QED BY <2>1, <2>3, SeqDef
<1> HIDE DEF accs
<1>3. accounts' \in [Emails -> Seq(Account)]
      /\ \A f \in Emails : DOMAIN accounts'[f] = DOMAIN accounts[f]
  BY <1>1, <1>2 DEF TypeOK
<1>4. /\ subs' \in [Emails -> Seq(Row)]
      /\ \A f \in Emails : /\ DOMAIN subs'[f] = DOMAIN subs[f]
                           /\ \A i \in DOMAIN subs[f] : subs'[f][i].acc = subs[f][i].acc
  <2>1. "BOUNCED" \in Status /\ subs' = Changed({e} \X DOMAIN subs[e], "BOUNCED")
    BY DEF Status, Bounce
  <2>2. Restated({e} \X DOMAIN subs[e], "BOUNCED")
    BY <2>1, ChangedNext
  <2> QED BY <2>2 DEF Restated
<1>5. TablesTyped' /\ Grows
  BY <1>3, <1>4, TypeParts DEF TablesTyped, Grows
<1>6. TxsTyped' /\ ResendTyped' /\ LockTyped'
  BY <1>5, HeldTypes DEF Bounce
<1>7. NumbersTyped' /\ HistoryTyped'
  BY TypeParts DEF Bounce, Trouble, Note, NumbersTyped, HistoryTyped
<1> QED BY <1>5, <1>6, <1>7, TypePartsNext

\* Every step keeps the types.
LEMMA TypeStep ==
  ASSUME TypeOK, [Next]_vars
  PROVE  TypeOK'
<1>1. CASE UNCHANGED vars
  BY <1>1 DEF vars, tables, counting, history, TypeOK
<1>2. Act => acts' \in Nat /\ trouble' \in Nat
  BY DEF Act, TypeOK
<1>3. ASSUME NEW c \in Callers, NEW e \in Emails, Subscribe(c, e)
      PROVE  TypeOK'
  BY <1>2, <1>3, TypeMassSubscribe DEF Subscribe
<1>4. ASSUME NEW c \in Callers, NEW S \in SUBSET Emails, NEW twice \in SUBSET S,
             ImportSubscribers(c, S, twice)
      PROVE  TypeOK'
  BY <1>2, <1>4, TypeMassSubscribe DEF ImportSubscribers
<1>5. ASSUME NEW e \in Emails, NEW a, NEW status \in Status, UpdateSubscription(e, a, status)
      PROVE  TypeOK'
  BY <1>2, <1>5, TypeUpdate DEF UpdateSubscription
<1> QED BY <1>1, <1>3, <1>4, <1>5, TypeCommit, TypeRolledBack, TypeConfirmSubscriber,
           TypeResend, TypeSendConfirmationEmail, TypeBounce,
           TypeRecount, TypeRecountFails, TypeCommitUpdate, TypeRollBackUpdate
        DEF Next, SubscribeStep, UserStep

------------------------------------------------------------------------------
(* The count.                                                                *)

\* A step that leaves everything the count depends on.
LEMMA CountFrame ==
  ASSUME TypeOK, CountOK, UNCHANGED <<subs, lock, count, missed>>, due' \in Nat, due' >= due
  PROVE  CountOK'
BY DEF CountOK, TypeOK, Changed

LEMMA CountCommit ==
  ASSUME History, TypeOK, CountOK, NEW c \in Callers, Commit(c)
  PROVE  CountOK'
<1>1. CASE tx[c].fresh = {}
  <2>1. \A e \in Emails : subs'[e] = subs[e]
    BY <1>1, CommitTables
  <2>2. subs \in [Emails -> Seq(Row)] /\ subs' \in [Emails -> Seq(Row)]
    BY CommitTables DEF TypeOK
  <2>3. subs' = subs
    BY <2>1, <2>2
  <2>4. UNCHANGED <<lock, count, due>> /\ missed' = (missed \/ (History /\ tx[c].fresh # {} /\ due = 0))
    BY DEF Commit, counting
  <2>5. missed' = missed
    BY <1>1, <2>4 DEF TypeOK
  <2> QED BY <2>3, <2>4, <2>5, CountFrame DEF TypeOK
<1>2. CASE tx[c].fresh # {}
  <2>1. missed' = (missed \/ (History /\ tx[c].fresh # {} /\ due = 0)) /\ due' = due
    BY DEF Commit, counting
  <2>2. due = 0 => missed'
    BY <1>2, <2>1
  <2>3. due # 0 => due' > 0
    BY <2>1 DEF TypeOK
  <2> QED BY <2>2, <2>3 DEF CountOK
<1> QED BY <1>1, <1>2

\* A recount takes the count of the table as its transaction is going to leave it.
LEMMA CountUpdate ==
  ASSUME NEW pc \in {"recount", "update", "confirm"}, NEW rs, NEW as, NEW status,
         UpdateSubscriberCount(pc, rs, as, status)
  PROVE  CountOK'
<1>1. /\ lock'.pc = pc /\ lock'.rows = rs /\ lock'.status = status
      /\ lock'.tally = SubscriptionCounts(Changed(rs, status)) /\ subs' = subs
  BY DEF UpdateSubscriberCount, tables
<1>2. lock'.tally = SubscriptionCounts(Changed(lock.rows, lock.status))'
  BY <1>1 DEF Changed
<1>3. lock'.pc # "free"
  BY <1>1
<1> QED BY <1>2, <1>3 DEF CountOK

LEMMA CountCommitUpdate ==
  ASSUME TypeOK, CountOK, CommitUpdate
  PROVE  CountOK'
<1>1. missed' = missed /\ due' = due /\ lock'.pc = "free"
  BY DEF CommitUpdate, Free
<1>2. lock.tally = SubscriptionCounts(Changed(lock.rows, lock.status)) => count' = SubscriptionCounts(subs')
  BY DEF CommitUpdate
<1>3. lock.pc # "free"
  BY DEF CommitUpdate
<1> QED BY <1>1, <1>2, <1>3 DEF CountOK

LEMMA CountStep ==
  ASSUME History, TypeOK, CountOK, [Next]_vars
  PROVE  CountOK'
<1>1. CASE UNCHANGED vars
  BY <1>1, CountFrame DEF vars, tables, counting, history, TypeOK
<1>2. ASSUME NEW c \in Callers, NEW S, NEW twice, NEW optin, MassSubscribe(c, S, twice, optin)
      PROVE  CountOK'
  <2>1. due' = due \/ due' = due + 1
    BY <1>2 DEF MassSubscribe
  <2>2. due \in Nat
    BY DEF TypeOK
  <2>3. due' \in Nat /\ due' >= due
    BY <2>1, <2>2
  <2> QED BY <1>2, <2>3, CountFrame DEF MassSubscribe, tables
<1>3. ASSUME NEW c \in Callers, RolledBack(c)
      PROVE  CountOK'
  BY <1>3, CountFrame DEF RolledBack, tables, counting, TypeOK
<1>4. ASSUME NEW e \in Emails, NEW i \in DOMAIN subs[e], Resend(e, i)
      PROVE  CountOK'
  BY <1>4, CountFrame DEF Resend, tables, counting, TypeOK
<1>5. CASE SendConfirmationEmail
  <2>1. missed' = (missed \/ (History /\ subs' # subs)) /\ UNCHANGED <<due, lock, count>>
    BY <1>5 DEF SendConfirmationEmail, counting
  <2>2. CASE subs' # subs
    <3>1. missed'
      BY <2>1, <2>2
    <3> QED BY <3>1 DEF CountOK
  <2>3. CASE subs' = subs
    <3>1. missed' = missed
      BY <2>1, <2>3 DEF TypeOK
    <3> QED BY <2>1, <2>3, <3>1, CountFrame DEF TypeOK
  <2> QED BY <2>2, <2>3
<1>6. CASE RecountFails \/ RollBackUpdate
  <2>1. missed'
    BY <1>6 DEF RecountFails, RollBackUpdate
  <2> QED BY <2>1 DEF CountOK
<1>7. ASSUME NEW e \in Emails, Bounce(e)
      PROVE  CountOK'
  <2>1. due' > 0
    BY <1>7 DEF Bounce, TypeOK
  <2> QED BY <2>1 DEF CountOK
<1>8. CASE Recount
  BY <1>8, CountUpdate DEF Recount
<1>9. ASSUME NEW e \in Emails, NEW a, NEW s, UpdateSubscription(e, a, s) \/ ConfirmSubscriber(e, a)
      PROVE  CountOK'
  BY <1>9, CountUpdate DEF UpdateSubscription, Update, ConfirmSubscriber
<1> QED BY <1>1, <1>2, <1>3, <1>4, <1>5, <1>6, <1>7, <1>8, <1>9, CountCommit, CountCommitUpdate
        DEF Next, SubscribeStep, UserStep, Subscribe, ImportSubscribers

------------------------------------------------------------------------------
(* One address.                                                              *)

\* A step that touches nothing of the address, or frees it.
Untouched(e) ==
    /\ AccountOf(e)' = AccountOf(e)
    /\ Len(accounts'[e]) = Len(accounts[e])
    /\ subs'[e] = subs[e]
    /\ \A c \in Callers : InTx(c, e)' => /\ InTx(c, e)
                                         /\ tx'[c].acc[e] = tx[c].acc[e]
                                         /\ e \in tx'[c].fresh => e \in tx[c].fresh
                                         /\ e \in tx'[c].twice => e \in tx[c].twice
    /\ InLock(e)' => lock' = lock
    /\ \A r \in resend' : r.email = e => r \in resend
    /\ e \in left' => e \in left
    /\ e \in readded => e \in readded'

LEMMA AddressFrame ==
  ASSUME NEW e \in Emails, AddressOK(e), Untouched(e)
  PROVE  AddressOK(e)'
<1>1. ActiveRows(e)' = ActiveRows(e)
  BY DEF Untouched, ActiveRows
<1>2. (InResend(e)' => InResend(e)) /\ (InLock(e)' => InLock(e))
  BY DEF Untouched, InResend, InLock
<1>3. OneAtATime(e)'
  BY <1>2 DEF AddressOK, OneAtATime, Untouched
<1>4. OneAccount(e)'
  BY DEF AddressOK, OneAccount, Untouched
<1>5. \A c \in Callers : ReadIsCurrent(c, e)'
  BY <1>1 DEF AddressOK, ReadIsCurrent, Untouched
<1>6. LockReachesAll(e)'
  BY <1>2 DEF AddressOK, LockReachesAll, Untouched
<1>7. LoadedIsCurrent(e)'
  BY DEF AddressOK, LoadedIsCurrent, Untouched
<1>8. HeldOnce(e)' /\ NotConfirmed(e)'
  BY <1>1 DEF AddressOK, HeldOnce, NotConfirmed, Untouched
<1> QED BY <1>3, <1>4, <1>5, <1>6, <1>7, <1>8 DEF AddressOK

LEMMA NobodyThere ==
  ASSUME NEW e, e \notin Busy
  PROVE  /\ \A c \in Callers : ~InTx(c, e)
         /\ ~InLock(e) /\ ~InResend(e)
BY DEF Busy, InTx, InLock, InResend

\* The rows of an address with one account are those of account 1.
LEMMA OneAccountRows ==
  ASSUME TypeOK, NEW e \in Emails, OneAccount(e)
  PROVE  /\ RowsOf(e, 1) = DOMAIN subs[e]
         /\ AccountOf(e) = 0 => DOMAIN subs[e] = {}
         /\ \A a : RowsOf(e, a) # {} => a = 1
<1>1. \A i \in DOMAIN subs[e] : subs[e][i].acc = 1 /\ subs[e][i].acc \in DOMAIN accounts[e]
  BY TypeParts DEF OneAccount, TablesTyped
<1>2. AccountOf(e) = 0 => accounts[e] = <<>>
  BY DEF AccountOf
<1>3. accounts[e] = <<>> => DOMAIN accounts[e] = {}
  OBVIOUS
<1> QED BY <1>1, <1>2, <1>3 DEF RowsOf

LEMMA AddressMassSubscribe ==
  ASSUME History, TypeOK, NEW e \in Emails, e \notin overlapped', AddressOK(e),
         NEW c \in Callers, NEW S \in SUBSET Emails, NEW twice \in SUBSET S,
         NEW optin \in BOOLEAN, MassSubscribe(c, S, twice, optin)
  PROVE  AddressOK(e)'
<1> DEFINE acc == [f \in S |-> AccountOf(f)]
           fresh == {f \in S : ~Exists(f, acc[f])}
<1>1. /\ tx' = [tx EXCEPT ![c] = [pc |-> "open", optin |-> optin, emails |-> S,
                                   twice |-> twice, fresh |-> fresh, asks |-> Asks(fresh, acc, optin), acc |-> acc]]
      /\ UNCHANGED <<accounts, subs, resend, lock, readded, left>>
      /\ overlapped' = overlapped \cup (S \cap Busy) \cup (twice \cap fresh)
  BY DEF MassSubscribe, tables, Note
<1>2. DOMAIN tx = Callers
  BY DEF TypeOK
<1>3. /\ tx'[c].emails = S /\ tx'[c].acc = acc /\ tx'[c].fresh = fresh
      /\ tx'[c].twice = twice
      /\ \A d \in Callers \ {c} : tx'[d] = tx[d]
  BY <1>1, <1>2
<1>4. CASE e \notin S
  <2>1. Untouched(e)
    BY <1>1, <1>3, <1>4 DEF Untouched, InTx, AccountOf
  <2> QED BY <2>1, AddressFrame
<1>5. CASE e \in S
  <2>1. e \notin Busy
    BY <1>1, <1>5
  <2>2. /\ \A d \in Callers : InTx(d, e)' => d = c
        /\ ~InLock(e)' /\ ~InResend(e)'
    BY <1>1, <1>3, <2>1, NobodyThere DEF InTx, InLock, InResend
  <2>3. e \in fresh => ActiveRows(e) = {}
    <3>1. AccountOf(e) \in {0, 1} /\ acc[e] = AccountOf(e)
      BY <1>5 DEF AccountOf
    <3>2. e \in fresh => RowsOf(e, AccountOf(e)) \cap ActiveRows(e) = {}
      BY <3>1 DEF Exists
    <3> HIDE DEF acc, fresh
    <3>3. ActiveRows(e) \subseteq DOMAIN subs[e]
      BY DEF ActiveRows
    <3>4. AccountOf(e) = 0 => DOMAIN subs[e] = {}
      BY OneAccountRows DEF AddressOK
    <3>5. AccountOf(e) = 1 => RowsOf(e, AccountOf(e)) = DOMAIN subs[e]
      BY OneAccountRows DEF AddressOK
    <3> QED BY <3>1, <3>2, <3>3, <3>4, <3>5
  <2>4. ActiveRows(e)' = ActiveRows(e) /\ AccountOf(e)' = AccountOf(e)
    BY <1>1 DEF ActiveRows, AccountOf
  <2>5. tx'[c].acc[e] = AccountOf(e)
    BY <1>3, <1>5
  <2>6. OneAtATime(e)'
    BY <2>2 DEF OneAtATime
  <2>7. OneAccount(e)'
    BY <1>1 DEF AddressOK, OneAccount
  <2> HIDE DEF fresh, acc
  <2>8. \A d \in Callers : ReadIsCurrent(d, e)'
    BY <1>1, <1>3, <2>2, <2>3, <2>4, <2>5 DEF ReadIsCurrent
  <2>9. LockReachesAll(e)' /\ LoadedIsCurrent(e)'
    BY <2>2 DEF LockReachesAll, LoadedIsCurrent, InResend
  <2>10. HeldOnce(e)' /\ NotConfirmed(e)'
    BY <1>1, <2>4 DEF AddressOK, HeldOnce, NotConfirmed
  <2> QED BY <2>6, <2>7, <2>8, <2>9, <2>10 DEF AddressOK
<1> QED BY <1>4, <1>5

LEMMA AddressCommit ==
  ASSUME History, TypeOK, TypeOK', NEW e \in Emails, e \notin overlapped', AddressOK(e),
         NEW c \in Callers, Commit(c)
  PROVE  AddressOK(e)'
<1> DEFINE t == tx[c]
<1>1. /\ tx' = [tx EXCEPT ![c] = NoTx]
      /\ UNCHANGED <<resend, lock, readded>>
      /\ left' = IF t.optin THEN left ELSE left \ t.fresh
  BY DEF Commit, counting
<1>2. DOMAIN tx = Callers /\ t.fresh \subseteq t.emails /\ t.optin \in BOOLEAN
  BY DEF TypeOK
<1>3. tx'[c].emails = {} /\ \A d \in Callers \ {c} : tx'[d] = tx[d]
  BY <1>1, <1>2 DEF NoTx
<1>4. CASE e \notin t.fresh
  <2>1. accounts'[e] = accounts[e] /\ subs'[e] = subs[e]
    BY <1>4, CommitTables
  <2>2. Untouched(e)
    BY <1>1, <1>3, <2>1 DEF Untouched, InTx, AccountOf
  <2> QED BY <2>2, AddressFrame
<1>5. CASE e \in t.fresh
  <2>1. InTx(c, e)
    BY <1>2, <1>5 DEF InTx
  <2>2. ~InLock(e) /\ ~InResend(e) /\ \A d \in Callers : InTx(d, e) => d = c
    BY <2>1 DEF AddressOK, OneAtATime
  <2>3. t.acc[e] = AccountOf(e) /\ ActiveRows(e) = {} /\ e \in t.fresh \ t.twice
    BY <1>5, <2>1 DEF AddressOK, ReadIsCurrent
  <2>4. ~InLock(e)' /\ ~InResend(e)' /\ \A d \in Callers : ~InTx(d, e)'
    BY <1>1, <1>3, <2>2 DEF InLock, InResend, InTx
  <2>5. /\ subs[e] \in Seq(Row) /\ Len(subs[e]) \in Nat /\ DOMAIN subs[e] = 1 .. Len(subs[e])
        /\ DOMAIN subs'[e] = 1 .. Len(subs'[e])
        /\ accounts[e] \in Seq(Account) /\ Len(accounts[e]) \in Nat
    BY LenProperties DEF TypeOK
  <2> DEFINE n == Len(subs[e]) + 1
  <2>6. /\ DOMAIN subs'[e] = DOMAIN subs[e] \cup {n}
        /\ \A i \in DOMAIN subs[e] : subs'[e][i] = subs[e][i]
        /\ subs'[e][n].acc = AccountFor(t, e)
        /\ subs'[e][n].status = IF t.optin THEN "NEW" ELSE "CONFIRMED"
    <3>1. /\ Len(subs'[e]) = Len(subs[e]) + 1
          /\ \A i \in DOMAIN subs[e] : subs'[e][i] = subs[e][i]
          /\ subs'[e][n].acc = AccountFor(t, e)
          /\ subs'[e][n].status = IF t.optin THEN "NEW" ELSE "CONFIRMED"
      BY <2>3, CommitTables
    <3> QED BY <2>5, <3>1
  <2>7. Len(accounts'[e]) <= 1 /\ AccountFor(t, e) = 1
    <3>1. Len(accounts[e]) <= 1
      BY DEF AddressOK, OneAccount
    <3>2. Len(accounts'[e]) = IF t.acc[e] = 0 THEN Len(accounts[e]) + 1 ELSE Len(accounts[e])
      BY <2>3, CommitTables
    <3>3. CASE t.acc[e] = 0
      <4>1. accounts[e] = <<>>
        BY <2>3, <3>3 DEF AccountOf
      <4>2. Len(accounts[e]) = 0
        BY <4>1
      <4> QED BY <3>2, <3>3, <4>2 DEF AccountFor
    <3>4. CASE t.acc[e] # 0
      <4>1. t.acc[e] = 1
        BY <2>3, <3>4 DEF AccountOf
      <4> QED BY <3>1, <3>2, <4>1 DEF AccountFor
    <3> QED BY <3>3, <3>4
  <2> HIDE DEF n
  <2>8. OneAccount(e)'
    BY <2>6, <2>7 DEF AddressOK, OneAccount
  <2>9. ActiveRows(e)' = {n}
    <3>1. subs'[e][n].status \in Active
      BY <2>6 DEF Active
    <3>2. \A i \in DOMAIN subs[e] : subs'[e][i].status \notin Active
      BY <2>3, <2>6 DEF ActiveRows
    <3> QED BY <2>6, <3>1, <3>2 DEF ActiveRows
  <2>10. HeldOnce(e)'
    <3>1. Cardinality({n}) = 1
      BY FS_Singleton
    <3>2. Cardinality(ActiveRows(e)') = 1
      BY <2>9, <3>1
    <3> QED BY <3>2 DEF HeldOnce
  <2>11. NotConfirmed(e)'
    <3>1. CASE t.optin
      <4>1. e \in left => \A i \in DOMAIN subs[e] : subs[e][i].status # "CONFIRMED"
        BY DEF AddressOK, NotConfirmed
      <4> QED BY <1>1, <2>6, <3>1, <4>1 DEF NotConfirmed
    <3>2. CASE ~t.optin
      BY <1>1, <1>5, <3>2 DEF NotConfirmed
    <3> QED BY <3>1, <3>2
  <2> QED BY <2>4, <2>8, <2>10, <2>11
          DEF AddressOK, OneAtATime, ReadIsCurrent, LockReachesAll, LoadedIsCurrent, InResend
<1> QED BY <1>4, <1>5

LEMMA AddressRolledBack ==
  ASSUME TypeOK, NEW e \in Emails, AddressOK(e), NEW c \in Callers, RolledBack(c)
  PROVE  AddressOK(e)'
<1>1. /\ tx' = [tx EXCEPT ![c] = NoTx]
      /\ UNCHANGED <<accounts, subs, resend, lock, readded, left>>
  BY DEF RolledBack, tables, counting
<1>2. DOMAIN tx = Callers
  BY DEF TypeOK
<1>3. tx'[c].emails = {} /\ \A d \in Callers \ {c} : tx'[d] = tx[d]
  BY <1>1, <1>2 DEF NoTx
<1>4. Untouched(e)
  BY <1>1, <1>3 DEF Untouched, InTx, AccountOf
<1> QED BY <1>4, AddressFrame

LEMMA AddressResend ==
  ASSUME History, TypeOK, NEW e \in Emails, e \notin overlapped', AddressOK(e),
         NEW f \in Emails, NEW i \in DOMAIN subs[f], Resend(f, i)
  PROVE  AddressOK(e)'
<1>1. /\ resend = {}
      /\ resend' = {[email |-> f, row |-> i, status |-> subs[f][i].status]}
      /\ overlapped' = overlapped \cup ({f} \cap Busy)
      /\ UNCHANGED <<accounts, subs, tx, lock, readded, left>>
  BY DEF Resend, tables, counting, Note
<1>2. CASE e # f
  <2>1. Untouched(e)
    BY <1>1, <1>2 DEF Untouched, InTx, AccountOf
  <2> QED BY <2>1, AddressFrame
<1>3. CASE e = f
  <2>1. e \notin Busy
    BY <1>1, <1>3
  <2>2. (\A c \in Callers : ~InTx(c, e)') /\ ~InLock(e)'
    BY <1>1, <2>1, NobodyThere DEF InTx, InLock
  <2>3. LoadedIsCurrent(e)'
    BY <1>1, <1>3 DEF LoadedIsCurrent
  <2>4. OneAccount(e)'
    BY <1>1 DEF AddressOK, OneAccount
  <2>5. HeldOnce(e)' /\ NotConfirmed(e)'
    BY <1>1 DEF AddressOK, HeldOnce, NotConfirmed, ActiveRows
  <2> QED BY <2>2, <2>3, <2>4, <2>5 DEF AddressOK, OneAtATime, ReadIsCurrent, LockReachesAll
<1> QED BY <1>2, <1>3

LEMMA AddressSendConfirmationEmail ==
  ASSUME TypeOK, NEW e \in Emails, AddressOK(e), SendConfirmationEmail
  PROVE  AddressOK(e)'
<1>1. PICK r \in resend :
        /\ accounts' = [accounts EXCEPT ![r.email][subs[r.email][r.row].acc].link = "UNPROCESSED"]
        /\ subs' = Changed({<<r.email, r.row>>}, r.status)
        /\ resend' = {}
        /\ UNCHANGED <<tx, lock, readded, left>>
  BY DEF SendConfirmationEmail, counting
<1> DEFINE a == subs[r.email][r.row].acc
           linked == [accounts[r.email] EXCEPT ![a].link = "UNPROCESSED"]
<1>2. /\ r.email \in Emails /\ r.row \in DOMAIN subs[r.email] /\ r.status \in Status
      /\ a \in DOMAIN accounts[r.email]
  BY TypeParts DEF ResendTyped, TablesTyped
<1>3. /\ accounts \in [Emails -> Seq(Account)] /\ accounts[r.email] \in Seq(Account)
      /\ DOMAIN accounts[r.email] = 1 .. Len(accounts[r.email])
  BY <1>2, LenProperties DEF TypeOK
<1>4. linked \in Seq(Account) /\ Len(linked) = Len(accounts[r.email])
  BY <1>2, <1>3, LinkedAccounts
<1>5. accounts' = [accounts EXCEPT ![r.email] = linked]
  BY <1>1
<1> HIDE DEF linked
<1>6. accounts'[e] \in Seq(Account) /\ accounts[e] \in Seq(Account)
      /\ Len(accounts'[e]) = Len(accounts[e])
  BY <1>2, <1>3, <1>4, <1>5
<1>7. accounts'[e] = <<>> <=> accounts[e] = <<>>
  <2>1. \A s \in Seq(Account) : s = <<>> <=> Len(s) = 0
    BY EmptySeq
  <2> QED BY <1>6, <2>1
<1>8. Restated({<<r.email, r.row>>}, r.status)
  BY <1>1, <1>2, ChangedNext
<1>9. subs'[e] = subs[e]
  <2>1. \A i \in DOMAIN subs[e] : subs'[e][i] = subs[e][i]
    <3> TAKE i \in DOMAIN subs[e]
    <3>1. CASE <<e, i>> \notin {<<r.email, r.row>>}
      BY <1>8, <3>1 DEF Restated
    <3>2. CASE <<e, i>> \in {<<r.email, r.row>>}
      <4>1. e = r.email /\ i = r.row
        BY <3>2
      <4>2. subs'[e][i].acc = subs[e][i].acc /\ subs'[e][i].status = r.status
        BY <1>8, <3>2 DEF Restated
      <4>3. subs[e][i].status = r.status
        BY <4>1 DEF AddressOK, LoadedIsCurrent
      <4>4. subs[e][i] \in Row
        BY LenProperties, ElementOfSeq DEF TypeOK
      <4>5. subs'[e][i] \in Row
        <5>1. subs'[e] \in Seq(Row) /\ DOMAIN subs'[e] = DOMAIN subs[e]
          BY <1>8 DEF Restated
        <5> QED BY <5>1, LenProperties, ElementOfSeq
      <4> QED BY <4>2, <4>3, <4>4, <4>5 DEF Row
    <3> QED BY <3>1, <3>2
  <2>2. subs[e] \in Seq(Row) /\ subs'[e] \in Seq(Row) /\ DOMAIN subs'[e] = DOMAIN subs[e]
    BY <1>8 DEF Restated, TypeOK
  <2>3. /\ DOMAIN subs[e] = 1 .. Len(subs[e]) /\ Len(subs[e]) \in Nat
        /\ DOMAIN subs'[e] = 1 .. Len(subs'[e]) /\ Len(subs'[e]) \in Nat
    BY <2>2, LenProperties
  <2>4. Len(subs'[e]) = Len(subs[e])
    BY <2>2, <2>3
  <2> QED BY <2>1, <2>2, <2>3, <2>4, SeqEqual
<1>10. Untouched(e)
  BY <1>1, <1>6, <1>7, <1>9 DEF Untouched, InTx, AccountOf
<1> QED BY <1>10, AddressFrame

LEMMA AddressRecount ==
  ASSUME TypeOK, NEW e \in Emails, AddressOK(e), Recount
  PROVE  AddressOK(e)'
<1>1. /\ lock'.rows = {} /\ UNCHANGED <<accounts, subs, tx, resend, readded, left>>
  BY DEF Recount, UpdateSubscriberCount, tables
<1>2. Untouched(e)
  BY <1>1 DEF Untouched, InTx, InLock, AccountOf
<1> QED BY <1>2, AddressFrame

\* Another transaction takes the rows of an address at which nobody is.
LEMMA AddressTaken ==
  ASSUME TypeOK, NEW e \in Emails, AddressOK(e), NEW f \in Emails, NEW a,
         NEW pc, NEW as, NEW status,
         UpdateSubscriberCount(pc, {f} \X RowsOf(f, a), as, status),
         f = e => e \notin Busy,
         status \in Active => status = "CONFIRMED",
         f = e /\ status = "CONFIRMED" /\ e \notin readded' => Cardinality(RowsOf(e, a)) <= 1,
         readded \subseteq readded'
  PROVE  AddressOK(e)'
<1>1. /\ lock'.rows = {f} \X RowsOf(f, a) /\ lock'.status = status
      /\ UNCHANGED <<accounts, subs, tx, resend, left>>
  BY DEF UpdateSubscriberCount, tables
<1>2. CASE f # e
  <2>1. ~InLock(e)'
    BY <1>1, <1>2 DEF InLock
  <2>2. Untouched(e)
    BY <1>1, <2>1 DEF Untouched, InTx, AccountOf
  <2> QED BY <2>2, AddressFrame
<1>3. CASE f = e
  <2>1. (\A c \in Callers : ~InTx(c, e)') /\ ~InResend(e)'
    BY <1>1, <1>3, NobodyThere DEF InTx, InResend
  <2>2. LockReachesAll(e)'
    <3>1. ASSUME InLock(e)'
          PROVE  RowsOf(e, a) = DOMAIN subs[e]
      <4>1. RowsOf(e, a) # {}
        BY <1>1, <1>3, <3>1 DEF InLock
      <4> QED BY <4>1, OneAccountRows DEF AddressOK
    <3> QED BY <1>1, <1>3, <3>1 DEF LockReachesAll
  <2>3. OneAccount(e)'
    BY <1>1 DEF AddressOK, OneAccount
  <2>4. ActiveRows(e)' = ActiveRows(e)
    BY <1>1 DEF ActiveRows
  <2>5. HeldOnce(e)' /\ NotConfirmed(e)'
    BY <1>1, <2>4 DEF AddressOK, HeldOnce, NotConfirmed
  <2> QED BY <2>1, <2>2, <2>3, <2>5 DEF AddressOK, OneAtATime, ReadIsCurrent, LoadedIsCurrent, InResend
<1> QED BY <1>2, <1>3

LEMMA AddressUpdate ==
  ASSUME History, TypeOK, NEW e \in Emails, e \notin overlapped', AddressOK(e),
         NEW f \in Emails, NEW a, NEW status \in {"UNSUBSCRIBED", "REMOVED", "CONFIRMED"},
         Update(f, a, status)
  PROVE  AddressOK(e)'
<1>1. /\ UpdateSubscriberCount("update", {f} \X RowsOf(f, a), {}, status)
      /\ overlapped' = overlapped \cup ({f} \cap Busy)
      /\ readded' = readded \cup (IF status = "CONFIRMED" /\ Cardinality(RowsOf(f, a)) > 1
                                   THEN {f} ELSE {})
  BY DEF Update, Note
<1>2. f = e => e \notin Busy
  BY <1>1
<1>3. status \in Active => status = "CONFIRMED"
  BY <1>1 DEF Active
<1>4. f = e /\ status = "CONFIRMED" /\ e \notin readded' => Cardinality(RowsOf(e, a)) <= 1
  <2>1. DOMAIN subs[e] = 1 .. Len(subs[e]) /\ Len(subs[e]) \in Nat
    BY LenProperties DEF TypeOK
  <2>2. IsFiniteSet(RowsOf(e, a))
    <3>1. IsFiniteSet(DOMAIN subs[e])
      <4>1. IsFiniteSet(1 .. Len(subs[e]))
        BY <2>1, FS_Interval
      <4> QED BY <2>1, <4>1
    <3>2. RowsOf(e, a) \subseteq DOMAIN subs[e]
      BY DEF RowsOf
    <3> QED BY <3>1, <3>2, FS_Subset
  <2>3. Cardinality(RowsOf(e, a)) \in Nat
    BY <2>2, FS_CardinalityType
  <2> QED BY <1>1, <2>3
<1>5. readded \subseteq readded'
  BY <1>1
<1> QED BY <1>1, <1>2, <1>3, <1>4, <1>5, AddressTaken

LEMMA AddressConfirmSubscriber ==
  ASSUME History, TypeOK, NEW e \in Emails, e \notin overlapped', AddressOK(e),
         NEW f \in Emails, NEW a \in DOMAIN accounts[f], ConfirmSubscriber(f, a)
  PROVE  AddressOK(e)'
<1>1. /\ Cardinality(RowsOf(f, a)) = 1
      /\ UpdateSubscriberCount("confirm", {f} \X RowsOf(f, a), {<<f, a>>}, "CONFIRMED")
      /\ overlapped' = overlapped \cup ({f} \cap Busy)
      /\ readded' = readded
  BY DEF ConfirmSubscriber, Note
<1>2. f = e => e \notin Busy
  BY <1>1
<1> QED BY <1>1, <1>2, AddressTaken

LEMMA AddressCommitUpdate ==
  ASSUME History, TypeOK, TypeOK', NEW e \in Emails, AddressOK(e), CommitUpdate
  PROVE  AddressOK(e)'
<1>1. /\ subs' = Changed(lock.rows, lock.status) /\ lock' = Free
      /\ left' = (IF lock.status = "CONFIRMED" THEN left \ {r[1] : r \in lock.rows}
                  ELSE left \cup {r[1] : r \in lock.rows})
      /\ UNCHANGED <<tx, resend, readded>>
  BY DEF CommitUpdate, Note
<1>2. Restated(lock.rows, lock.status)
  BY <1>1, ChangedNext DEF TypeOK
<1>3. Len(accounts'[e]) = Len(accounts[e]) /\ AccountOf(e)' = AccountOf(e)
  <2>1. accounts[e] \in Seq(Account) /\ accounts'[e] \in Seq(Account)
    BY DEF TypeOK
  <2>2. DOMAIN accounts'[e] = DOMAIN accounts[e]
    BY DEF CommitUpdate
  <2>3. /\ DOMAIN accounts[e] = 1 .. Len(accounts[e]) /\ Len(accounts[e]) \in Nat
        /\ DOMAIN accounts'[e] = 1 .. Len(accounts'[e]) /\ Len(accounts'[e]) \in Nat
    BY <2>1, LenProperties
  <2>4. Len(accounts'[e]) = Len(accounts[e])
    BY <2>2, <2>3
  <2>5. \A s \in Seq(Account) : s = <<>> <=> Len(s) = 0
    BY EmptySeq
  <2> QED BY <2>1, <2>4, <2>5 DEF AccountOf
<1>4. ~InLock(e)'
  BY <1>1 DEF InLock, Free
<1>5. CASE ~InLock(e)
  <2>1. \A i \in DOMAIN subs[e] : <<e, i>> \notin lock.rows
    BY <1>5 DEF InLock
  <2>2. \A i \in DOMAIN subs[e] : subs'[e][i] = subs[e][i]
    BY <1>2, <2>1 DEF Restated
  <2>3. subs[e] \in Seq(Row) /\ subs'[e] \in Seq(Row) /\ DOMAIN subs'[e] = DOMAIN subs[e]
    BY <1>2 DEF Restated, TypeOK
  <2>4. /\ DOMAIN subs[e] = 1 .. Len(subs[e]) /\ Len(subs[e]) \in Nat
        /\ DOMAIN subs'[e] = 1 .. Len(subs'[e]) /\ Len(subs'[e]) \in Nat
    BY <2>3, LenProperties
  <2>5. subs'[e] = subs[e]
    <3>1. Len(subs'[e]) = Len(subs[e])
      BY <2>3, <2>4
    <3> QED BY <2>2, <2>3, <2>4, <3>1, SeqEqual
  <2>6. e \notin {r[1] : r \in lock.rows}
    BY <1>5 DEF InLock
  <2>7. Untouched(e)
    BY <1>1, <1>3, <1>4, <2>5, <2>6 DEF Untouched, InTx
  <2> QED BY <2>7, AddressFrame
<1>6. CASE InLock(e)
  <2>1. (\A c \in Callers : ~InTx(c, e)) /\ ~InResend(e)
    BY <1>6 DEF AddressOK, OneAtATime
  <2>2. /\ \A i \in DOMAIN subs[e] : <<e, i>> \in lock.rows
        /\ lock.status \in Active => /\ lock.status = "CONFIRMED"
                                     /\ e \notin readded => Cardinality(DOMAIN subs[e]) <= 1
    BY <1>6 DEF AddressOK, LockReachesAll
  <2>3. /\ DOMAIN subs'[e] = DOMAIN subs[e]
        /\ \A i \in DOMAIN subs[e] : /\ subs'[e][i].acc = subs[e][i].acc
                                     /\ subs'[e][i].status = lock.status
    BY <1>2, <2>2 DEF Restated
  <2>4. (\A c \in Callers : ~InTx(c, e)') /\ ~InResend(e)'
    BY <1>1, <2>1 DEF InTx, InResend
  <2>5. OneAccount(e)'
    BY <1>3, <2>3 DEF AddressOK, OneAccount
  <2>6. HeldOnce(e)'
    <3>1. CASE lock.status \in Active
      <4>1. ActiveRows(e)' = DOMAIN subs[e]
        BY <2>3, <3>1 DEF ActiveRows
      <4> QED BY <1>1, <2>2, <3>1, <4>1 DEF HeldOnce
    <3>2. CASE lock.status \notin Active
      <4>1. ActiveRows(e)' = {}
        BY <2>3, <3>2 DEF ActiveRows
      <4>2. Cardinality({}) = 0
        BY FS_EmptySet
      <4>3. Cardinality(ActiveRows(e)') = 0
        BY <4>1, <4>2
      <4> QED BY <4>3 DEF HeldOnce
    <3> QED BY <3>1, <3>2
  <2>7. NotConfirmed(e)'
    <3>1. e \in {r[1] : r \in lock.rows}
      BY <1>6 DEF InLock
    <3> QED BY <1>1, <2>3, <3>1 DEF NotConfirmed
  <2> QED BY <1>4, <2>4, <2>5, <2>6, <2>7
          DEF AddressOK, OneAtATime, ReadIsCurrent, LockReachesAll, LoadedIsCurrent, InResend
<1> QED BY <1>5, <1>6

LEMMA AddressBounce ==
  ASSUME History, TypeOK, TypeOK', NEW e \in Emails, e \notin overlapped', AddressOK(e),
         NEW f \in Emails, Bounce(f)
  PROVE  AddressOK(e)'
<1>1. /\ subs' = Changed({f} \X DOMAIN subs[f], "BOUNCED")
      /\ left' = left \cup {f}
      /\ overlapped' = overlapped \cup ({f} \cap Busy)
      /\ UNCHANGED <<tx, resend, lock, readded>>
  BY DEF Bounce, Note
<1>2. Restated({f} \X DOMAIN subs[f], "BOUNCED")
  <2>1. "BOUNCED" \in Status
    BY DEF Status
  <2> QED BY <1>1, <2>1, ChangedNext
<1>3. Len(accounts'[e]) = Len(accounts[e]) /\ AccountOf(e)' = AccountOf(e)
  <2>1. accounts[e] \in Seq(Account) /\ accounts'[e] \in Seq(Account)
    BY DEF TypeOK
  <2>2. DOMAIN accounts'[e] = DOMAIN accounts[e]
    BY DEF Bounce, TypeOK
  <2>3. /\ DOMAIN accounts[e] = 1 .. Len(accounts[e]) /\ Len(accounts[e]) \in Nat
        /\ DOMAIN accounts'[e] = 1 .. Len(accounts'[e]) /\ Len(accounts'[e]) \in Nat
    BY <2>1, LenProperties
  <2>4. Len(accounts'[e]) = Len(accounts[e])
    BY <2>2, <2>3
  <2>5. \A s \in Seq(Account) : s = <<>> <=> Len(s) = 0
    BY EmptySeq
  <2> QED BY <2>1, <2>4, <2>5 DEF AccountOf
<1>4. CASE f # e
  <2>1. \A i \in DOMAIN subs[e] : subs'[e][i] = subs[e][i]
    BY <1>2, <1>4 DEF Restated
  <2>2. subs[e] \in Seq(Row) /\ subs'[e] \in Seq(Row) /\ DOMAIN subs'[e] = DOMAIN subs[e]
    BY <1>2 DEF Restated, TypeOK
  <2>3. /\ DOMAIN subs[e] = 1 .. Len(subs[e]) /\ Len(subs[e]) \in Nat
        /\ DOMAIN subs'[e] = 1 .. Len(subs'[e]) /\ Len(subs'[e]) \in Nat
    BY <2>2, LenProperties
  <2>4. subs'[e] = subs[e]
    <3>1. Len(subs'[e]) = Len(subs[e])
      BY <2>2, <2>3
    <3> QED BY <2>1, <2>2, <2>3, <3>1, SeqEqual
  <2>5. Untouched(e)
    BY <1>1, <1>3, <1>4, <2>4 DEF Untouched, InTx
  <2> QED BY <2>5, AddressFrame
<1>5. CASE f = e
  <2>1. e \notin Busy
    BY <1>1, <1>5
  <2>2. (\A c \in Callers : ~InTx(c, e)') /\ ~InLock(e)' /\ ~InResend(e)'
    BY <1>1, <2>1, NobodyThere DEF InTx, InLock, InResend
  <2>3. /\ DOMAIN subs'[e] = DOMAIN subs[e]
        /\ \A i \in DOMAIN subs[e] : /\ subs'[e][i].acc = subs[e][i].acc
                                     /\ subs'[e][i].status = "BOUNCED"
    BY <1>2, <1>5 DEF Restated
  <2>4. OneAccount(e)'
    BY <1>3, <2>3 DEF AddressOK, OneAccount
  <2>5. ActiveRows(e)' = {}
    BY <2>3 DEF ActiveRows, Active
  <2>6. HeldOnce(e)'
    <3>1. Cardinality({}) = 0
      BY FS_EmptySet
    <3>2. Cardinality(ActiveRows(e)') = 0
      BY <2>5, <3>1
    <3> QED BY <3>2 DEF HeldOnce
  <2>7. NotConfirmed(e)'
    BY <2>3 DEF NotConfirmed
  <2> QED BY <2>2, <2>4, <2>6, <2>7
          DEF AddressOK, OneAtATime, ReadIsCurrent, LockReachesAll, LoadedIsCurrent, InResend
<1> QED BY <1>4, <1>5

LEMMA AddressStep ==
  ASSUME History, TypeOK, TypeOK', NEW e \in Emails, e \notin overlapped', AddressOK(e), Next
  PROVE  AddressOK(e)'
<1>1. ASSUME NEW c \in Callers, NEW f \in Emails, Subscribe(c, f)
      PROVE  AddressOK(e)'
  BY <1>1, AddressMassSubscribe DEF Subscribe
<1>2. ASSUME NEW c \in Callers, NEW S \in SUBSET Emails, NEW twice \in SUBSET S,
             ImportSubscribers(c, S, twice)
      PROVE  AddressOK(e)'
  BY <1>2, AddressMassSubscribe DEF ImportSubscribers
<1>3. CASE RecountFails
  <2>1. Untouched(e)
    BY <1>3 DEF RecountFails, tables, Untouched, InTx, AccountOf
  <2> QED BY <2>1, AddressFrame
<1>4. CASE RollBackUpdate
  <2>1. UNCHANGED <<accounts, subs, tx, resend, left, readded>> /\ lock' = Free
    BY <1>4 DEF RollBackUpdate, tables
  <2>2. ~InLock(e)'
    BY <2>1 DEF InLock, Free
  <2>3. Untouched(e)
    BY <2>1, <2>2 DEF Untouched, InTx, AccountOf
  <2> QED BY <2>3, AddressFrame
<1> QED BY <1>1, <1>2, <1>3, <1>4, AddressCommit, AddressRolledBack, AddressResend,
           AddressSendConfirmationEmail, AddressRecount, AddressUpdate,
           AddressConfirmSubscriber, AddressCommitUpdate, AddressBounce
        DEF Next, SubscribeStep, UserStep, UpdateSubscription

LEMMA AddressInit ==
  ASSUME Init, NEW e \in Emails
  PROVE  AddressOK(e)
<1> DEFINE account == [status |-> "VERIFIED", link |-> "none"]
<1>1. /\ subs[e] = <<>> /\ resend = {} /\ lock = Free
      /\ accounts[e] = IF e \in Known THEN <<account>> ELSE <<>>
      /\ \A c \in Callers : tx[c].emails = {}
  BY DEF Init, NoTx
<1>2. DOMAIN subs[e] = {} /\ ActiveRows(e) = {}
  BY <1>1 DEF ActiveRows
<1>3. Len(accounts[e]) <= 1
  <2>1. Len(<<account>>) = 1 /\ Len(<<>>) = 0
    OBVIOUS
  <2> QED BY <1>1, <2>1
<1>4. Cardinality(ActiveRows(e)) <= 1
  <2>1. Cardinality({}) = 0
    BY FS_EmptySet
  <2>2. Cardinality(ActiveRows(e)) = 0
    BY <1>2, <2>1
  <2> QED BY <2>2
<1>5. ~InLock(e) /\ ~InResend(e) /\ \A c \in Callers : ~InTx(c, e)
  BY <1>1 DEF InLock, InResend, InTx, Free
<1> QED BY <1>2, <1>3, <1>4, <1>5
        DEF AddressOK, OneAtATime, OneAccount, ReadIsCurrent, LockReachesAll, LoadedIsCurrent,
            InResend, HeldOnce, NotConfirmed

LEMMA SubInit ==
  ASSUME Init PROVE SubInv
<1>1. CountOK
  <2>1. SubscriptionCounts(subs) = Tally0
    <3>1. \A e \in Emails : DOMAIN subs[e] = {}
      BY DEF Init
    <3>2. Ids(subs) = {}
      BY <3>1 DEF Ids
    <3>3. \A s : {r \in Ids(subs) : subs[r[1]][r[2]].status = s} = {}
      BY <3>2
    <3>4. Cardinality({}) = 0
      BY FS_EmptySet
    <3>5. \A s \in Status : Cardinality({r \in Ids(subs) : subs[r[1]][r[2]].status = s}) = 0
      BY <3>3, <3>4
    <3> QED BY <3>5 DEF SubscriptionCounts, Tally0
  <2> QED BY <2>1 DEF Init, Free, CountOK
<1> QED BY <1>1, TypeInit, AddressInit DEF SubInv

\* Every step keeps the invariant.
LEMMA SubStep ==
  ASSUME History, SubInv, [Next]_vars
  PROVE  SubInv'
<1>1. TypeOK' /\ CountOK'
  BY TypeStep, CountStep DEF SubInv
<1>2. ASSUME NEW e \in Emails, e \notin overlapped'
      PROVE  AddressOK(e)'
  <2>1. CASE UNCHANGED vars
    <3>1. AddressOK(e)
      BY <1>2, <2>1 DEF SubInv, vars, history
    <3>2. Untouched(e)
      BY <2>1 DEF vars, tables, counting, history, Untouched, InTx, AccountOf
    <3> QED BY <3>1, <3>2, AddressFrame
  <2>2. CASE Next
    <3>1. overlapped \subseteq overlapped'
      BY <2>2 DEF Next, SubscribeStep, UserStep, Subscribe, ImportSubscribers, MassSubscribe,
                  Commit, RolledBack, UpdateSubscription, Update, ConfirmSubscriber, Resend,
                  SendConfirmationEmail, Bounce, Recount, RecountFails, CommitUpdate,
                  RollBackUpdate, Unbounded
    <3>2. AddressOK(e)
      BY <1>2, <3>1 DEF SubInv
    <3> QED BY <1>1, <1>2, <2>2, <3>2, AddressStep DEF SubInv
  <2> QED BY <2>1, <2>2
<1> QED BY <1>1, <1>2 DEF SubInv

\* What the invariant says about the properties.
LEMMA SubInvImplies ==
  ASSUME SubInv
  PROVE  OneSubscription /\ LeavingHolds /\ CountRight
<1>1. OneSubscription
  BY DEF SubInv, OneSubscription, AddressOK, OneAccount, HeldOnce
<1>2. LeavingHolds
  BY DEF SubInv, LeavingHolds, AddressOK, NotConfirmed, TypeOK
<1>3. CountRight
  BY DEF SubInv, CountRight, CountOK, TypeOK
<1> QED BY <1>1, <1>2, <1>3

------------------------------------------------------------------------------
(* The theorems.                                                             *)

\* The types are those of SubscriptionService, whatever the bounds.
THEOREM SubscriptionTypes == Spec => []TypeOK
<1>1. TypeOK /\ [Next]_vars => TypeOK'
  BY TypeStep
<1> QED BY <1>1, TypeInit, PTL DEF Spec

\* The inductive invariant: an address at which transactions met only one after
\* the other has one account and rows that agree with what each of them has read,
\* and a count that is not up to date is one that a recount has missed or is
\* going to replace.
THEOREM SubscriptionIsSafe == History => (Spec => []SubInv)
<1> SUFFICES ASSUME History PROVE Spec => []SubInv
  OBVIOUS
<1>1. Init => SubInv
  BY SubInit
<1>2. SubInv /\ [Next]_vars => SubInv'
  BY SubStep
<1> QED BY <1>1, <1>2, PTL DEF Spec

\* An address has one account and one subscription that is held, unless two
\* transactions were at it together or its owner restored several rows.
THEOREM OneSubscriptionEach == History => (Spec => []OneSubscription)
<1>1. SubInv => OneSubscription
  BY SubInvImplies
<1> QED BY <1>1, SubscriptionIsSafe, PTL

\* Who left stays out until a link is opened, an import or a restore.
THEOREM LeavingStands == History => (Spec => []LeavingHolds)
<1>1. SubInv => LeavingHolds
  BY SubInvImplies
<1> QED BY <1>1, SubscriptionIsSafe, PTL

\* In a quiet moment the stored count is right, or a recount was missed.
THEOREM CountIsRight == History => (Spec => []CountRight)
<1>1. SubInv => CountRight
  BY SubInvImplies
<1> QED BY <1>1, SubscriptionIsSafe, PTL
===============================================================================
