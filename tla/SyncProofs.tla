------------------------------- MODULE SyncProofs -------------------------------
(* Proofs about DatasourceSync.  The transactions of the synchronization are    *)
(* those of Subscription, so what is proved there of a step is used here: what   *)
(* the invariant of Subscription says survives the pages, updates and crashes of *)
(* the batch job.                                                               *)
EXTENDS DatasourceSync, SubscriptionProofs

OnlyBounds ==
    /\ UNCHANGED <<tables, tx, resend, counting, overlapped, readded, left, missed>>
    /\ acts' \in Nat /\ trouble' \in Nat

\* What the steps of the run and of its surroundings do to the tables.
SubscriptionStep ==
    \/ [Next]_vars
    \/ \E S \in SUBSET Emails : MassSubscribe(Sync, S, {}, FALSE) /\ Unbounded
    \/ \E e \in Emails : \E a : Update(e, a, "UNSUBSCRIBED") /\ Unbounded
    \/ OnlyBounds
    \/ SyncCrash

LEMMA SyncConstants ==
  /\ Sync \in Callers /\ Emails \subseteq Nat
  /\ PageSize \in Nat \ {0} /\ Batches \in Nat \ {0}
BY SyncAssumption

\* Each step of the composition is one of these.
LEMMA SubscriptionSteps ==
  ASSUME TypeOK, SyncTypeOK, [SyncNext]_allVars
  PROVE  SubscriptionStep
<1>1. ASSUME NEW k \in run.todo, SyncUnsubscribe(k)
      PROVE  SubscriptionStep
  <2>1. k[1] \in Emails
    BY IdsOf DEF SyncTypeOK
  <2> QED BY <1>1, <2>1 DEF SyncUnsubscribe, SubscriptionStep
<1>2. CASE SyncNew
  <2>1. Page(remote, saved.new + PageSize * run.batch) \in SUBSET Emails
    BY DEF Page, SyncTypeOK
  <2>2. CASE UNCHANGED vars
    BY <2>2 DEF SubscriptionStep
  <2>3. CASE MassSubscribe(Sync, Page(remote, saved.new + PageSize * run.batch), {}, FALSE) /\ Unbounded
    BY <2>1, <2>3 DEF SubscriptionStep
  <2> QED BY <1>2, <2>2, <2>3 DEF SyncNew
<1>3. CASE QueryFails
  <2>1. acts' \in Nat /\ trouble' \in Nat
    BY <1>3 DEF QueryFails, Trouble, TypeOK
  <2> QED BY <1>3, <2>1 DEF QueryFails, OnlyBounds, SubscriptionStep
<1>4. ASSUME NEW S, RemoteChanges(S)
      PROVE  SubscriptionStep
  <2>1. acts' \in Nat /\ trouble' \in Nat
    BY <1>4 DEF RemoteChanges, Act, TypeOK
  <2> QED BY <1>4, <2>1 DEF RemoteChanges, OnlyBounds, SubscriptionStep
<1>5. CASE SyncList \/ SyncNewEnds \/ SyncRemoved \/ SyncRemovedEnds \/ SyncEnds \/ SyncRefused
  BY <1>5 DEF SyncList, SyncNewEnds, SyncRemoved, SyncRemovedEnds, SyncEnds, SyncRefused,
              SubscriptionStep
<1>6. CASE SyncRolledBack
  BY <1>6, SyncConstants DEF SyncRolledBack, Next, SubscriptionStep
<1>7. CASE CommitLock \/ RollBackLock
  BY <1>7 DEF CommitLock, RollBackLock, Next, SubscriptionStep
<1>8. CASE /\ \/ \E c \in Callers \ {Sync} : SubscribeStep(c) \/ RolledBack(c)
              \/ \E c \in Callers : Commit(c)
              \/ UserStep
              \/ Recount \/ RecountFails
           /\ UNCHANGED <<remote, saved, run>>
  BY <1>8 DEF Next, SubscriptionStep
<1>9. CASE UNCHANGED allVars
  BY <1>9 DEF allVars, SubscriptionStep
<1> QED BY <1>1, <1>2, <1>3, <1>4, <1>5, <1>6, <1>7, <1>8, <1>9 DEF SyncNext, SyncStep, SubscriptionStep
------------------------------------------------------------------------------
(* The types.                                                                *)

LEMMA TypeSyncCrash ==
  ASSUME TypeOK, SyncCrash
  PROVE  TypeOK'
<1>1. Grows /\ TablesTyped'
  BY TablesStay DEF SyncCrash
<1>2. TxsTyped'
  <2>1. TxTyped(NoTx, accounts') /\ tx' = [tx EXCEPT ![Sync] = NoTx]
    BY TypeIdleTx DEF SyncCrash
  <2> QED BY <1>1, <2>1, SyncConstants, TxEnds
<1>3. ResendTyped'
  BY <1>1, HeldTypes DEF SyncCrash
<1>4. LockTyped'
  <2>1. CASE lock' = lock
    BY <1>1, <2>1, HeldTypes
  <2>2. CASE lock' = Free
    BY <2>2, TypeFree DEF LockTyped
  <2> QED BY <2>1, <2>2 DEF SyncCrash
<1>5. acts' \in Nat /\ trouble' \in Nat
  BY DEF SyncCrash, Trouble, TypeOK
<1>6. NumbersTyped'
  BY <1>5, TypeParts DEF SyncCrash, NumbersTyped
<1>7. HistoryTyped'
  BY TypeParts, SubscriptionAssumption DEF SyncCrash, HistoryTyped
<1> QED BY <1>1, <1>2, <1>3, <1>4, <1>6, <1>7, TypePartsNext

LEMMA TypeSubscriptionStep ==
  ASSUME TypeOK, SubscriptionStep
  PROVE  TypeOK'
<1>1. ASSUME NEW S \in SUBSET Emails, MassSubscribe(Sync, S, {}, FALSE), Unbounded
      PROVE  TypeOK'
  <2>1. acts' \in Nat /\ trouble' \in Nat
    BY <1>1 DEF Unbounded, TypeOK
  <2> QED BY <1>1, <2>1, SyncConstants, TypeMassSubscribe
<1>2. ASSUME NEW e \in Emails, NEW a, Update(e, a, "UNSUBSCRIBED"), Unbounded
      PROVE  TypeOK'
  <2>1. acts' \in Nat /\ trouble' \in Nat
    BY <1>2 DEF Unbounded, TypeOK
  <2>2. "UNSUBSCRIBED" \in Status
    BY DEF Status
  <2> QED BY <1>2, <2>1, <2>2, TypeUpdate
<1>3. CASE OnlyBounds
  BY <1>3 DEF OnlyBounds, tables, counting, TypeOK
<1> QED BY <1>1, <1>2, <1>3, TypeStep, TypeSyncCrash DEF SubscriptionStep

\* No step removes an account.
LEMMA AccountsStay ==
  ASSUME TypeOK, SubscriptionStep
  PROVE  Ids(accounts) \subseteq Ids(accounts')
<1> SUFFICES \A e \in Emails : DOMAIN accounts[e] \subseteq DOMAIN accounts'[e]
  BY DEF Ids
<1>1. CASE UNCHANGED accounts
  BY <1>1
<1>2. ASSUME NEW c \in Callers, Commit(c)
      PROVE  \A e \in Emails : DOMAIN accounts[e] \subseteq DOMAIN accounts'[e]
  <2> TAKE e \in Emails
  <2>1. CASE e \notin tx[c].fresh
    BY <1>2, <2>1, CommitTables
  <2>2. CASE e \in tx[c].fresh
    <3>1. accounts[e] \in Seq(Account) /\ accounts'[e] \in Seq(Account)
      BY <1>2, CommitTables DEF TypeOK
    <3>2. /\ DOMAIN accounts[e] = 1 .. Len(accounts[e]) /\ Len(accounts[e]) \in Nat
          /\ DOMAIN accounts'[e] = 1 .. Len(accounts'[e]) /\ Len(accounts'[e]) \in Nat
      BY <3>1, LenProperties
    <3>3. Len(accounts'[e]) >= Len(accounts[e])
      BY <1>2, <2>2, CommitTables
    <3> QED BY <3>2, <3>3
  <2> QED BY <2>1, <2>2
<1>3. CASE CommitUpdate
  BY <1>3 DEF CommitUpdate
<1>4. CASE SendConfirmationEmail
  <2>1. PICK r \in resend :
          accounts' = [accounts EXCEPT ![r.email][subs[r.email][r.row].acc].link = "UNPROCESSED"]
    BY <1>4 DEF SendConfirmationEmail
  <2> QED BY <2>1 DEF TypeOK
<1>5. ASSUME NEW e \in Emails, Bounce(e)
      PROVE  \A f \in Emails : DOMAIN accounts[f] \subseteq DOMAIN accounts'[f]
  BY <1>5 DEF Bounce, TypeOK
<1>6. CASE SubscriptionStep /\ ~ (\/ \E c \in Callers : Commit(c)
                                  \/ CommitUpdate \/ SendConfirmationEmail
                                  \/ \E e \in Emails : Bounce(e))
  <2>1. UNCHANGED tables
    BY <1>6 DEF SubscriptionStep, OnlyBounds, SyncCrash, MassSubscribe, Update, UpdateSubscriberCount,
                Next, SubscribeStep, UserStep, Subscribe, ImportSubscribers, RolledBack,
                UpdateSubscription, ConfirmSubscriber, Resend, Recount, RecountFails,
                RollBackUpdate, vars
  <2> QED BY <2>1 DEF tables
<1> QED BY <1>2, <1>3, <1>4, <1>5, <1>6

LEMMA SyncTypeInit ==
  SyncInit => SyncTypeOK
<1> SUFFICES ASSUME SyncInit PROVE SyncTypeOK
  OBVIOUS
<1>1. NoRun \in [pc : {"idle", "new", "subscribing", "removed", "removing", "updating", "ending"},
                 batch : 0 .. Batches, next : Indices, todo : SUBSET Ids(accounts)]
  BY SyncConstants DEF NoRun, Indices
<1>2. saved \in Indices
  BY DEF SyncInit, Indices
<1> QED BY <1>1, <1>2 DEF SyncInit, SyncTypeOK, NoRun

\* The page counters stay numbers.
LEMMA IndicesStay ==
  ASSUME SyncTypeOK, NEW page
  PROVE  /\ NextIndex("new", page) \in Indices
         /\ NextIndex("removed", page) \in Indices
<1>1. saved \in Indices /\ run.next \in Indices /\ run.batch \in Nat /\ PageSize \in Nat
  BY SyncConstants DEF SyncTypeOK
<1>2. /\ saved.new + PageSize * (run.batch + 1) \in Nat
      /\ saved.removed + PageSize * (run.batch + 1) \in Nat
  BY <1>1 DEF Indices
<1> QED BY <1>1, <1>2 DEF NextIndex, Indices

LEMMA LoopTyped ==
  ASSUME SyncTypeOK, NEW pc, NEW after, NEW page
  PROVE  /\ Loop(pc, after, page).pc \in {pc, after}
         /\ Loop(pc, after, page).batch \in 0 .. Batches
<1>1. run.batch \in 0 .. Batches /\ Batches \in Nat
  BY SyncConstants DEF SyncTypeOK
<1> QED BY <1>1 DEF Loop

\* While the run waits for its update, only the end of the update frees the lock.
LEMMA LockHeld ==
  ASSUME TypeOK, SyncTypeOK, SyncNext, run.pc = "updating", run'.pc = "updating"
  PROVE  lock'.pc = "update"
<1>1. lock.pc = "update"
  BY DEF SyncTypeOK
<1>2. \A pc : [run EXCEPT !.pc = pc].pc = pc
  BY DEF SyncTypeOK
<1>3. lock' = lock
  <2>1. CASE CommitLock \/ RollBackLock
    BY <1>2, <2>1 DEF CommitLock, RollBackLock
  <2>2. CASE SyncStep \/ QueryFails \/ SyncRefused \/ \E S : RemoteChanges(S)
    BY <1>1, <1>2, <2>2
       DEF SyncStep, SyncList, SyncNew, SyncNewEnds, SyncRemoved, SyncUnsubscribe,
           SyncRemovedEnds, SyncEnds, QueryFails, SyncRefused, RemoteChanges, counting
  <2>3. CASE SyncCrash
    BY <2>3 DEF SyncCrash, NoRun
  <2>4. CASE SyncRolledBack \/ (\E c \in Callers : RolledBack(c) \/ Commit(c) \/ SubscribeStep(c))
             \/ RecountFails
    BY <2>4 DEF SyncRolledBack, RolledBack, Commit, SubscribeStep, Subscribe, ImportSubscribers,
                MassSubscribe, RecountFails, counting
  <2>5. CASE UserStep \/ Recount
    BY <1>1, <2>5 DEF UserStep, UpdateSubscription, Update, UpdateSubscriberCount, ConfirmSubscriber,
                Resend, SendConfirmationEmail, Bounce, Recount, counting
  <2> QED BY <2>1, <2>2, <2>3, <2>4, <2>5 DEF SyncNext
<1> QED BY <1>1, <1>3

\* Every step keeps the types of the run.
LEMMA SyncTypeStep ==
  ASSUME TypeOK, SyncTypeOK, [SyncNext]_allVars
  PROVE  SyncTypeOK'
<1> DEFINE PC == {"idle", "new", "subscribing", "removed", "removing", "updating", "ending"}
           Runs == [pc : PC, batch : 0 .. Batches, next : Indices, todo : SUBSET Ids(accounts)]
<1>1. run \in Runs /\ saved \in Indices /\ remote \subseteq Emails
  BY DEF SyncTypeOK
<1>2. 0 \in 0 .. Batches
  BY SyncConstants
<1>3. NoRun \in Runs /\ NoRun.pc = "idle"
  BY <1>2 DEF NoRun, Indices
<1>4. \A pc \in PC : [run EXCEPT !.pc = pc] \in Runs /\ [run EXCEPT !.pc = pc].pc = pc
  BY <1>1
<1>5. SyncNew => run' \in Runs /\ run'.pc # "updating"
  <2> SUFFICES ASSUME SyncNew PROVE run' \in Runs /\ run'.pc # "updating"
    OBVIOUS
  <2>1. PICK page : \/ run' = [run EXCEPT !.next = NextIndex("new", page), !.pc = "removed",
                                         !.batch = 0]
                    \/ run' = [run EXCEPT !.pc = "subscribing"]
    BY DEF SyncNew, Goto
  <2>2. NextIndex("new", page) \in Indices
    BY IndicesStay
  <2>3. CASE run' = [run EXCEPT !.next = NextIndex("new", page), !.pc = "removed", !.batch = 0]
    BY <1>1, <1>2, <2>2, <2>3
  <2>4. CASE run' = [run EXCEPT !.pc = "subscribing"]
    BY <1>1, <2>4
  <2> QED BY <2>1, <2>3, <2>4
<1>6. SyncNewEnds => run' \in Runs /\ run'.pc # "updating"
  <2> SUFFICES ASSUME SyncNewEnds PROVE run' \in Runs /\ run'.pc # "updating"
    OBVIOUS
  <2>1. PICK step : /\ run' = [run EXCEPT !.next = NextIndex("new", Emails), !.pc = step.pc,
                                         !.batch = step.batch]
                    /\ step.pc \in {"new", "removed"} /\ step.batch \in 0 .. Batches
    BY LoopTyped DEF SyncNewEnds
  <2> QED BY <1>1, <2>1, IndicesStay
<1>7. SyncRemoved => run' \in Runs /\ run'.pc # "updating"
  <2> SUFFICES ASSUME SyncRemoved PROVE run' \in Runs /\ run'.pc # "updating"
    OBVIOUS
  <2> DEFINE page == LocalPage(saved.removed + PageSize * run.batch)
             gone == {r[1] : r \in page} \ remote
             rows == {r \in Ids(subs) : r[1] \in gone /\ subs[r[1]][r[2]].status = "CONFIRMED"}
             todo == {<<r[1], subs[r[1]][r[2]].acc>> : r \in rows}
  <2>1. todo \subseteq Ids(accounts)
    <3>1. \A r \in Ids(subs) : r[1] \in Emails /\ subs[r[1]][r[2]].acc \in DOMAIN accounts[r[1]]
      BY IdsOf DEF TypeOK
    <3> QED BY <3>1, IdsOf
  <2>2. PICK step : /\ run' = [run EXCEPT !.next = IF rows # {} THEN @ ELSE NextIndex("removed", page),
                                          !.todo = todo,
                                          !.pc = IF rows # {} THEN "removing" ELSE step.pc,
                                          !.batch = IF rows # {} THEN @ ELSE step.batch]
                    /\ step.pc \in {"removed", "ending"} /\ step.batch \in 0 .. Batches
    BY LoopTyped DEF SyncRemoved
  <2>3. NextIndex("removed", page) \in Indices
    BY IndicesStay
  <2> HIDE DEF todo, rows, page
  <2> QED BY <1>1, <2>1, <2>2, <2>3
<1>8. SyncRemovedEnds => run' \in Runs /\ run'.pc # "updating"
  <2> SUFFICES ASSUME SyncRemovedEnds PROVE run' \in Runs /\ run'.pc # "updating"
    OBVIOUS
  <2>1. PICK step : /\ run' = [run EXCEPT !.next = NextIndex("removed", Emails), !.pc = step.pc,
                                         !.batch = step.batch]
                    /\ step.pc \in {"removed", "ending"} /\ step.batch \in 0 .. Batches
    BY LoopTyped DEF SyncRemovedEnds
  <2> QED BY <1>1, <2>1, IndicesStay
<1>9. SyncList \/ SyncEnds \/ SyncCrash => run' \in Runs /\ run'.pc # "updating"
  BY <1>1, <1>2, <1>3 DEF SyncList, SyncEnds, SyncCrash, NoRun
<1>10. QueryFails \/ SyncRefused \/ CommitLock \/ RollBackLock \/ SyncRolledBack
         => \/ run' = run
            \/ run' \in Runs /\ run'.pc # "updating"
  BY <1>1, <1>4 DEF QueryFails, SyncRefused, SyncRolledBack, CommitLock, RollBackLock, Goto
<1>11. ASSUME NEW k, SyncUnsubscribe(k)
       PROVE  run' \in Runs /\ lock'.pc = "update"
  BY <1>1, <1>11 DEF SyncUnsubscribe, Update, UpdateSubscriberCount
<1>12. [SyncNext]_allVars => \/ run' = run
                             \/ run' \in Runs /\ run'.pc # "updating"
                             \/ run' \in Runs /\ lock'.pc = "update"
  BY <1>5, <1>6, <1>7, <1>8, <1>9, <1>10, <1>11 DEF SyncNext, SyncStep, RemoteChanges, allVars
<1>13. Ids(accounts) \subseteq Ids(accounts')
  BY SubscriptionSteps, AccountsStay
<1>14. saved' \in Indices /\ remote' \subseteq Emails
  <2>1. CASE SyncEnds
    BY <1>1, <2>1 DEF SyncEnds
  <2>2. ASSUME NEW S \in SUBSET Emails, RemoteChanges(S) PROVE saved' \in Indices /\ remote' \subseteq Emails
    BY <1>1, <2>2 DEF RemoteChanges
  <2>3. CASE UNCHANGED <<saved, remote>>
    BY <1>1, <2>3
  <2> QED BY <2>1, <2>2, <2>3
          DEF SyncNext, SyncStep, SyncList, SyncNew, SyncNewEnds, SyncRemoved, SyncUnsubscribe,
              SyncRemovedEnds, QueryFails, SyncRefused, SyncRolledBack, SyncCrash, CommitLock,
              RollBackLock, allVars
<1>15. run'.pc = "updating" => lock'.pc = "update"
  <2>1. CASE UNCHANGED allVars
    BY <2>1 DEF allVars, vars, counting, SyncTypeOK
  <2>2. CASE SyncNext /\ run.pc = "updating"
    BY <2>2, LockHeld
  <2>3. CASE run.pc # "updating"
    BY <1>12, <2>3
  <2> QED BY <2>1, <2>2, <2>3
<1> QED BY <1>1, <1>12, <1>13, <1>14, <1>15 DEF SyncTypeOK

------------------------------------------------------------------------------
(* The invariant of Subscription.                                            *)

LEMMA AddressSubscriptionStep ==
  ASSUME History, TypeOK, TypeOK', NEW e \in Emails, e \notin overlapped', AddressOK(e),
         SubscriptionStep, ~ [Next]_vars
  PROVE  AddressOK(e)'
<1>1. ASSUME NEW S \in SUBSET Emails, MassSubscribe(Sync, S, {}, FALSE)
      PROVE  AddressOK(e)'
  BY <1>1, SyncConstants, AddressMassSubscribe
<1>2. ASSUME NEW f \in Emails, NEW a, Update(f, a, "UNSUBSCRIBED")
      PROVE  AddressOK(e)'
  BY <1>2, AddressUpdate
<1>3. CASE OnlyBounds
  <2>1. Untouched(e)
    BY <1>3 DEF OnlyBounds, tables, counting, Untouched, InTx, AccountOf
  <2> QED BY <2>1, AddressFrame
<1>4. CASE SyncCrash
  <2>1. /\ tx' = [tx EXCEPT ![Sync] = NoTx]
        /\ UNCHANGED <<accounts, subs, resend, readded, left>>
        /\ lock' = lock \/ lock' = Free
    BY <1>4 DEF SyncCrash, tables
  <2>2. tx'[Sync].emails = {} /\ \A d \in Callers \ {Sync} : tx'[d] = tx[d]
    BY <2>1, SyncConstants DEF NoTx, TypeOK
  <2>3. InLock(e)' => lock' = lock
    BY <2>1 DEF InLock, Free
  <2>4. Untouched(e)
    BY <2>1, <2>2, <2>3 DEF Untouched, InTx, AccountOf
  <2> QED BY <2>4, AddressFrame
<1> QED BY <1>1, <1>2, <1>3, <1>4 DEF SubscriptionStep

LEMMA CountSubscriptionStep ==
  ASSUME History, TypeOK, CountOK, SubscriptionStep, ~ [Next]_vars
  PROVE  CountOK'
<1>1. ASSUME NEW S \in SUBSET Emails, MassSubscribe(Sync, S, {}, FALSE)
      PROVE  CountOK'
  <2>1. due' \in Nat /\ due' >= due
    BY <1>1 DEF MassSubscribe, TypeOK
  <2> QED BY <1>1, <2>1, CountFrame DEF MassSubscribe, tables
<1>2. ASSUME NEW f \in Emails, NEW a, Update(f, a, "UNSUBSCRIBED")
      PROVE  CountOK'
  BY <1>2, CountUpdate DEF Update
<1>3. CASE OnlyBounds
  BY <1>3, CountFrame DEF OnlyBounds, tables, counting, TypeOK
<1>4. CASE SyncCrash
  <2>1. CASE missed'
    BY <2>1 DEF CountOK
  <2>2. CASE ~ missed'
    <3>1. missed \in BOOLEAN /\ missed' = (missed \/ run.pc = "updating")
      BY <1>4 DEF SyncCrash, TypeOK
    <3>2. missed' = missed /\ run.pc # "updating"
      BY <2>2, <3>1
    <3>3. due \in Nat /\ due' = due
      BY <1>4 DEF SyncCrash, TypeOK
    <3> QED BY <1>4, <3>2, <3>3, CountFrame DEF SyncCrash, tables
  <2> QED BY <2>1, <2>2
<1> QED BY <1>1, <1>2, <1>3, <1>4 DEF SubscriptionStep

LEMMA SubSyncStep ==
  ASSUME History, SubInv, SyncTypeOK, [SyncNext]_allVars
  PROVE  SubInv'
<1>1. TypeOK /\ CountOK /\ SubscriptionStep
  BY SubscriptionSteps DEF SubInv
<1>2. CASE [Next]_vars
  BY <1>2, SubStep
<1>3. CASE ~ [Next]_vars
  <2>1. TypeOK' /\ CountOK'
    BY <1>1, <1>3, TypeSubscriptionStep, CountSubscriptionStep
  <2>2. overlapped \subseteq overlapped'
    BY <1>1, <1>3 DEF SubscriptionStep, MassSubscribe, Update, OnlyBounds, SyncCrash
  <2>3. ASSUME NEW e \in Emails \ overlapped'
        PROVE  AddressOK(e)'
    <3>1. AddressOK(e)
      BY <2>2, <2>3 DEF SubInv
    <3> QED BY <1>1, <1>3, <2>1, <3>1, AddressSubscriptionStep
  <2> QED BY <2>1, <2>3 DEF SubInv
<1> QED BY <1>2, <1>3

------------------------------------------------------------------------------
(* The theorems.                                                             *)

\* The types of the run and of the tables hold whatever else subscribes and
\* leaves (DatasourceService.syncList): the keys that a page has collected stay keys
\* of accounts, and a run that waits for its update is the one that holds the lock.
THEOREM SyncTypes == SyncSpec => [](TypeOK /\ SyncTypeOK)
<1>1. SyncInit => TypeOK /\ SyncTypeOK
  BY SyncTypeInit, TypeInit DEF SyncInit
<1>2. TypeOK /\ SyncTypeOK /\ [SyncNext]_allVars => TypeOK' /\ SyncTypeOK'
  BY SubscriptionSteps, TypeSubscriptionStep, SyncTypeStep
<1> QED BY <1>1, <1>2, PTL DEF SyncSpec

\* The invariant of Subscription survives a synchronization that runs among the
\* other callers, stops anywhere and starts again.
THEOREM SyncIsSafe == History => (SyncSpec => []SubInv)
<1> SUFFICES ASSUME History PROVE SyncSpec => []SubInv
  OBVIOUS
<1>1. SyncInit => SubInv
  BY SubInit DEF SyncInit
<1>2. SubInv /\ SyncTypeOK /\ [SyncNext]_allVars => SubInv'
  BY SubSyncStep
<1>3. SyncSpec => []SyncTypeOK
  BY SyncTypes, PTL
<1> QED BY <1>1, <1>2, <1>3, PTL DEF SyncSpec

\* So an address that is synchronized has one account and one subscription that is
\* held, who left stays out until the remote table or a link brings the address back, and
\* a quiet count is right.
THEOREM SyncKeepsSubscriptions ==
  History => (SyncSpec => [](OneSubscription /\ LeavingHolds /\ CountRight))
<1>1. SubInv => OneSubscription /\ LeavingHolds /\ CountRight
  BY SubInvImplies
<1> QED BY <1>1, SyncIsSafe, PTL
================================================================================
