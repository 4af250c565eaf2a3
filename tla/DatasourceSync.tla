----------------------------- MODULE DatasourceSync -----------------------------
(***************************************************************************)
(* DatasourceService.syncList: one list is brought in line with a table of  *)
(* another database.  A run of the batch job adds some pages of the remote   *)
(* table (syncNew), then takes some pages of the local subscribers and       *)
(* unsubscribes those that the remote does not have (syncRemoved).  Where it *)
(* stops is saved at the end of the run, and an empty page starts over.      *)
(* Pages are offsets into what the tables hold at that moment, so a change   *)
(* between two pages moves subscribers past the offset.                     *)
(*                                                                         *)
(* The remote addresses are ones that massSubscribe accepts, and spelled as  *)
(* it stores them: a NULL ends every run at its page, and one with blanks in  *)
(* front is subscribed by syncNew and taken off again by syncRemoved.        *)
(*                                                                         *)
(* Users go on subscribing and leaving as in Subscription.  Both use the     *)
(* transactions of that module.                                             *)
(***************************************************************************)
EXTENDS Subscription

CONSTANTS
    Sync,      \* the thread of the batch job, one of the Callers
    PageSize,  \* SYNC_REC_BATCH_SIZE
    Batches    \* NUM_BATCHES_SUB

ASSUME SyncAssumption ==
    /\ Sync \in Callers
    /\ Emails \subseteq Nat  \* numbered in alphabetical order
    /\ {PageSize, Batches} \subseteq Nat \ {0}

VARIABLES
    remote,  \* addresses in the remote table
    saved,   \* ListDatasource: NEXT_SYNC_NEW_INDEX, NEXT_SYNC_REMOVE_INDEX
    run      \* syncList: its step, batch, indices, and the keys to unsubscribe

allVars == <<vars, remote, saved, run>>

Indices == [new : Nat, removed : Nat]
NoRun == [pc |-> "idle", batch |-> 0, next |-> [new |-> 0, removed |-> 0], todo |-> {}]

SyncTypeOK ==
    /\ remote \subseteq Emails
    /\ saved \in Indices
    /\ run \in [pc : {"idle", "new", "subscribing", "removed", "removing", "updating", "ending"},
               batch : 0 .. Batches, next : Indices, todo : SUBSET Ids(accounts)]
    /\ run.pc = "updating" => lock.pc = "update"

SyncInit ==
    /\ Init
    /\ remote \in SUBSET Emails
    /\ saved = [new |-> 0, removed |-> 0]
    /\ run = NoRun

\* The members of a set of addresses at positions start, start + 1, ...
Page(S, start) ==
    {e \in S : Cardinality({f \in S : f < e}) \in start .. start + PageSize - 1}

\* getNextNSubscribers: rows NEW or CONFIRMED by address, those of one address in
\* the order of their accounts.
LocalPage(start) ==
    LET rows == UNION {{e} \X ActiveRows(e) : e \in Emails}
        before(r) == {q \in rows : q[1] < r[1] \/ (q[1] = r[1] /\ q[2] < r[2])}
    IN  {r \in rows : Cardinality(before(r)) \in start .. start + PageSize - 1}

Goto(pc) == run' = [run EXCEPT !.pc = pc]

\* syncList takes the datasource (LAST_SYNC) with its indices.
SyncList ==
    /\ run.pc = "idle"
    /\ run' = [NoRun EXCEPT !.pc = "new", !.next = saved]
    /\ UNCHANGED <<vars, remote, saved>>

\* Mutant: after an empty page the index stays where it is.
StayAtEnd(field, page) ==
    [run.next EXCEPT ![field] = IF page = {} THEN saved[field]
                                ELSE saved[field] + PageSize * (run.batch + 1)]

\* The next index after a page: it starts over if the page is empty.
NextIndex(field, page) ==
    [run.next EXCEPT ![field] = IF page = {} THEN 0
                                ELSE saved[field] + PageSize * (run.batch + 1)]

\* One more batch, unless the page was empty or the batches are done.
Loop(pc, after, page) ==
    IF page # {} /\ run.batch + 1 < Batches
    THEN [pc |-> pc, batch |-> run.batch + 1]
    ELSE [pc |-> after, batch |-> 0]

\* syncNew, one page: helper.subscribe is one transaction of massSubscribe,
\* without double opt-in; with no addresses it does nothing.  The page has cut the
\* blanks around the addresses off, so none of them is in the call twice.
SyncNew ==
    LET page == Page(remote, saved.new + PageSize * run.batch)
    IN  /\ run.pc = "new"
        /\ IF page = {}
           THEN /\ run' = [run EXCEPT !.next = NextIndex("new", page), !.pc = "removed",
                                      !.batch = 0]
                /\ UNCHANGED vars
           ELSE /\ MassSubscribe(Sync, page, {}, FALSE)
                /\ Goto("subscribing")
                /\ Unbounded
        /\ UNCHANGED <<remote, saved>>

\* The call is back.
SyncNewEnds ==
    /\ run.pc = "subscribing"
    /\ tx[Sync].pc = "idle"
    /\ LET step == Loop("new", "removed", Emails)
       IN  run' = [run EXCEPT !.next = NextIndex("new", Emails),
                              !.pc = step.pc, !.batch = step.batch]
    /\ UNCHANGED <<vars, remote, saved>>

\* syncRemoved, one page: the CONFIRMED subscriptions of addresses of the page
\* that the remote does not have.  The index moves after their updates.
SyncRemoved ==
    LET page == LocalPage(saved.removed + PageSize * run.batch)
        gone == {r[1] : r \in page} \ remote
        rows == {r \in Ids(subs) : r[1] \in gone /\ subs[r[1]][r[2]].status = "CONFIRMED"}
        step == Loop("removed", "ending", page)
    IN  /\ run.pc = "removed"
        /\ run' = [run EXCEPT !.next = IF rows # {} THEN @ ELSE NextIndex("removed", page),
                              !.todo = {<<r[1], subs[r[1]][r[2]].acc>> : r \in rows},
                              !.pc = IF rows # {} THEN "removing" ELSE step.pc,
                              !.batch = IF rows # {} THEN @ ELSE step.batch]
        /\ UNCHANGED <<vars, remote, saved>>

\* updateSubscription by key, whatever the subscription is now.
SyncUnsubscribe(k) ==
    /\ run.pc = "removing"
    /\ k \in run.todo
    /\ Update(k[1], k[2], "UNSUBSCRIBED")
    /\ run' = [run EXCEPT !.pc = "updating", !.todo = @ \ {k}]
    /\ Unbounded /\ UNCHANGED <<remote, saved>>

SyncRemovedEnds ==
    /\ run.pc = "removing"
    /\ run.todo = {}
    /\ LET step == Loop("removed", "ending", Emails)
       IN  run' = [run EXCEPT !.next = NextIndex("removed", Emails),
                              !.pc = step.pc, !.batch = step.batch]
    /\ UNCHANGED <<vars, remote, saved>>

\* The finally clause saves the indices.
SyncEnds ==
    /\ run.pc = "ending"
    /\ saved' = run.next
    /\ run' = NoRun
    /\ UNCHANGED <<vars, remote>>

\* The remote database does not answer (SQLException).
QueryFails ==
    /\ run.pc \in {"new", "removed"}
    /\ Trouble
    /\ Goto("ending")
    /\ UNCHANGED <<tables, tx, resend, counting, overlapped, readded, left, missed,
                   remote, saved>>

\* An update that meets another recount fails, and its exception ends the run.
SyncRefused ==
    /\ run.pc = "removing"
    /\ run.todo # {}
    /\ lock.pc # "free"
    /\ Goto("ending")
    /\ UNCHANGED <<vars, remote, saved>>

\* The transaction of a page is rolled back: the container may throw, or return
\* the errors that massSubscribe found, which syncNew only counts.
SyncRolledBack ==
    /\ RolledBack(Sync)
    /\ \/ Goto("ending")
       \/ UNCHANGED run
    /\ UNCHANGED <<remote, saved>>

\* Mutant: the run does not learn that its update is done.
CommitUnnoticed == CommitUpdate /\ UNCHANGED <<run, remote, saved>>

\* The transaction under way for an update is that of the run, if it waits for one.
CommitLock ==
    /\ CommitUpdate
    /\ run' = IF run.pc = "updating" THEN [run EXCEPT !.pc = "removing"] ELSE run
    /\ UNCHANGED <<remote, saved>>

RollBackLock ==
    /\ RollBackUpdate
    /\ run' = IF run.pc = "updating" THEN [run EXCEPT !.pc = "ending"] ELSE run
    /\ UNCHANGED <<remote, saved>>

\* The node dies: the indices are not saved.
SyncCrash ==
    /\ run.pc # "idle"
    /\ Trouble
    /\ run' = NoRun
    /\ tx' = [tx EXCEPT ![Sync] = NoTx]
    /\ lock' = IF run.pc = "updating" THEN Free ELSE lock
    /\ missed' = (missed \/ (History /\ run.pc = "updating"))
    /\ UNCHANGED <<tables, resend, due, count, overlapped, readded, left, remote, saved>>

\* The other application changes its table.
RemoteChanges(S) ==
    /\ S # remote
    /\ remote' = S
    /\ Act
    /\ UNCHANGED <<tables, tx, resend, counting, overlapped, readded, left, missed,
                   saved, run>>

SyncStep ==
    \/ SyncList
    \/ SyncNew \/ SyncNewEnds
    \/ SyncRemoved \/ (\E k \in run.todo : SyncUnsubscribe(k)) \/ SyncRemovedEnds
    \/ SyncEnds

SyncNext ==
    \/ SyncStep
    \/ QueryFails \/ SyncRefused \/ SyncRolledBack \/ SyncCrash
    \/ CommitLock \/ RollBackLock
    \/ \E S \in SUBSET Emails : RemoteChanges(S)
    \/ /\ \/ \E c \in Callers \ {Sync} : SubscribeStep(c) \/ RolledBack(c)
          \/ \E c \in Callers : Commit(c)
          \/ UserStep
          \/ Recount \/ RecountFails
       /\ UNCHANGED <<remote, saved, run>>

SyncSpec == SyncInit /\ [][SyncNext]_allVars

\* The cron starts the job again and again, and threads go on; users need not.
SyncFairness ==
    /\ WF_allVars(SyncStep)
    /\ WF_allVars(\E c \in Callers : Commit(c) /\ UNCHANGED <<remote, saved, run>>)
    /\ WF_allVars(Recount /\ UNCHANGED <<remote, saved, run>>)
    /\ WF_allVars(CommitLock)

FairSyncSpec == SyncSpec /\ SyncFairness

------------------------------------------------------------------------------

\* Once users, the remote table and failures are quiet, runs of the sync bring the
\* list in line and keep it so, wherever earlier runs stopped and whatever moved
\* between their pages: nobody is CONFIRMED whom the remote does not have, and
\* whoever the remote has is subscribed.
SyncConverges ==
    <>[](\A e \in Emails :
            /\ e \in remote => ActiveRows(e) # {}
            /\ e \notin remote => \A i \in DOMAIN subs[e] : subs[e][i].status # "CONFIRMED")

=============================================================================
