--------------------------- MODULE CampaignExecution ---------------------------
(***************************************************************************)
(* segmail/component/campaign: the batch job that sends one campaign         *)
(* activity (CampaignExecutionService.executeCampaignActivity) and the forms *)
(* that start and save the activity.                                        *)
(*                                                                         *)
(* A job is what BatchEngine and JobChain promise: one run at a time, then   *)
(* another one as long as continueCampaignActivity says so, also after a run *)
(* that failed.  And every run fails: the statement for a page of            *)
(* subscribers, from createTargetSubscriberQueryString, has its ORDER BY and *)
(* LIMIT clauses twice, which the database rejects.  So a run writes         *)
(* nothing.  LAST_INDEX, the triggers and emails of the subscribers, and the *)
(* statuses COMPLETED and SUSPENDED, all written after the first page, are    *)
(* not part of any reachable state.                                         *)
(***************************************************************************)
EXTENDS Naturals

CONSTANTS Jobs,     \* jobs that may be created for the activity
          NoJob,    \* the job of a session that has started none
          Users,    \* sessions of the /campaign program
          MaxFaults \* bound: jobs cancelled or lost in a crash, transactions that fail

ASSUME CampaignAssumption == NoJob \notin Jobs /\ MaxFaults \in Nat

Status == {"NEW", "EDITING", "EXECUTING"}

VARIABLES
    status,  \* STATUS of the CampaignActivity
    jobPC,   \* each job: a run waits or has been executed
    formPC,  \* a session with the activity: "started" between its two transactions
    formJob, \* the job that the session has started last
    faults,  \* jobs cancelled or lost, and transactions failed, so far
    outran   \* whether a job was over before its session had set EXECUTING

job == <<jobPC, faults, outran>>
forms == <<formPC, formJob>>
vars == <<status, job, forms>>

TypeOK ==
    /\ status \in Status
    /\ jobPC \in [Jobs -> {"none", "waiting", "executed", "ended"}]
    /\ formPC \in [Users -> {"closed", "open", "started"}]
    /\ formJob \in [Users -> Jobs \cup {NoJob}]
    /\ \A u \in Users : formPC[u] = "started" => formJob[u] # NoJob
    /\ \A u \in Users : formJob[u] # NoJob => jobPC[formJob[u]] # "none"
    /\ faults \in 0 .. MaxFaults
    /\ outran \in BOOLEAN

Init ==
    /\ status = "NEW"
    /\ jobPC = [j \in Jobs |-> "none"]
    /\ formPC = [u \in Users |-> "closed"]
    /\ formJob = [u \in Users |-> NoJob]
    /\ faults = 0 /\ outran = FALSE

------------------------------------------------------------------------------
(* The forms.  Buttons are shown by the status a page was rendered with, and *)
(* no service method looks at the status the activity has now.               *)

Show(u, pc) == formPC' = [formPC EXCEPT ![u] = pc]

OpenActivity(u) ==
    /\ formPC[u] = "closed"
    /\ Show(u, "open")
    /\ UNCHANGED <<status, job, formJob>>

\* updateCampaignActivity: whatever was stored meanwhile becomes EDITING.
UpdateCampaignActivity(u) ==
    /\ formPC[u] = "open"
    /\ status' = "EDITING"
    /\ UNCHANGED <<job, forms>>

Alive(j) == jobPC[j] \in {"waiting", "executed"}

\* The next job; jobs are interchangeable.
IsNewJob(j) ==
    LET unused == {i \in Jobs : jobPC[i] = "none"}
    IN  unused # {} /\ j = CHOOSE i \in unused : TRUE

StartsJob(u, j) ==
    /\ formPC[u] = "open"
    /\ IsNewJob(j)
    /\ formJob' = [formJob EXCEPT ![u] = j]
    /\ Show(u, "started")
    /\ UNCHANGED <<status, faults, outran>>

\* Mutant: the session goes on without having created the job.
StartWithoutJob(u, j) == StartsJob(u, j) /\ UNCHANGED jobPC

\* startSendingCampaignEmail: createSingleStepJob commits a job, also if another
\* one is under way for the activity ...
StartSendingCampaignEmail(u, j) ==
    StartsJob(u, j) /\ jobPC' = [jobPC EXCEPT ![j] = "waiting"]

\* ... and then, in a transaction of its own, the activity becomes EXECUTING.
SetExecuting(u) ==
    /\ formPC[u] = "started"
    /\ status' = "EXECUTING"
    /\ Show(u, "open")
    /\ UNCHANGED <<job, formJob>>

\* That transaction fails: the job is there all the same.
SetExecutingFails(u) ==
    /\ formPC[u] = "started"
    /\ faults < MaxFaults
    /\ faults' = faults + 1
    /\ Show(u, "open")
    /\ UNCHANGED <<status, jobPC, outran, formJob>>

------------------------------------------------------------------------------
(* The job.                                                                  *)

\* The session that started the job has not set EXECUTING yet.
Ends(j) ==
    /\ jobPC' = [jobPC EXCEPT ![j] = "ended"]
    /\ outran' = (outran \/ \E u \in Users : formPC[u] = "started" /\ formJob[u] = j)

\* Mutant: a run that fails has no successor.
FailedRunIsLast(j) ==
    /\ jobPC[j] = "waiting"
    /\ Ends(j)
    /\ UNCHANGED <<status, faults, forms>>

\* executeCampaignActivity: getTargetedSubscribers throws at the first page, before
\* anything is written.
ExecuteCampaignActivity(j) ==
    /\ jobPC[j] = "waiting"
    /\ jobPC' = [jobPC EXCEPT ![j] = "executed"]
    /\ UNCHANGED <<status, faults, outran, forms>>

\* Mutant: the job goes on whatever the status is.
AlwaysContinue(j) ==
    /\ jobPC[j] = "executed"
    /\ jobPC' = [jobPC EXCEPT ![j] = "waiting"]
    /\ UNCHANGED <<status, faults, outran, forms>>

\* continueCampaignActivity, the condition of the job for one more run.
ContinueCampaignActivity(j) ==
    /\ jobPC[j] = "executed"
    /\ IF status = "EXECUTING"
       THEN jobPC' = [jobPC EXCEPT ![j] = "waiting"] /\ UNCHANGED outran
       ELSE Ends(j)
    /\ UNCHANGED <<status, faults, forms>>

\* The run is cancelled, or a crash ends the chain.
JobFails(j) ==
    /\ Alive(j)
    /\ faults < MaxFaults
    /\ faults' = faults + 1
    /\ Ends(j)
    /\ UNCHANGED <<status, forms>>

------------------------------------------------------------------------------
JobRuns(j) == ExecuteCampaignActivity(j) \/ ContinueCampaignActivity(j)

Next ==
    \/ \E u \in Users : \/ OpenActivity(u) \/ UpdateCampaignActivity(u)
                        \/ SetExecuting(u) \/ SetExecutingFails(u)
                        \/ \E j \in Jobs : StartSendingCampaignEmail(u, j)
    \/ \E j \in Jobs : JobRuns(j) \/ JobFails(j)

Spec == Init /\ [][Next]_vars

\* BatchEngine keeps executing the runs of a job; users owe nothing.
FairSpec == Spec /\ \A j \in Jobs : WF_vars(JobRuns(j))

------------------------------------------------------------------------------
(* Properties.                                                               *)

\* An activity that shows EXECUTING has a job, however many sessions start and save
\* it, unless a job was cancelled or lost, or was over before the session that
\* created it had set EXECUTING (startSendingCampaignEmail commits the job first):
\* then the activity looks busy and nothing comes.
Undisturbed == faults = 0 /\ ~ outran
ExecutingHasJob ==
    Undisturbed /\ status = "EXECUTING" => \E j \in Jobs : Alive(j)

\* Saving stops the sending: when the activity is in the end not EXECUTING any more,
\* all of its jobs end, those of a second click and of old pages included.
SavedJobsEnd ==
    <>[](status # "EXECUTING") => <>[](\A j \in Jobs : ~ Alive(j))

\* "... let the subsequent ones keep scheduling the subsequent ones until the lists
\* are done" (startSendingCampaignEmail): every job comes to an end by itself.
JobsEnd == []<>(\A j \in Jobs : ~ Alive(j))

\* The invariant that ExecutingHasJob follows from: also the job of a session that
\* has not set EXECUTING yet is still there.
CampaignInv ==
    /\ TypeOK
    /\ ExecutingHasJob
    /\ Undisturbed => \A u \in Users : formPC[u] = "started" => Alive(formJob[u])
==============================================================================
