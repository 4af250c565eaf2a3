----------------------------- MODULE CampaignProofs -----------------------------
(* CampaignExecution for any number of jobs and sessions: the types, and that an *)
(* activity which shows EXECUTING has a job.                                    *)
EXTENDS CampaignExecution, TLAPS

\* Every step of the system is one of these.
LEMMA Steps ==
  ASSUME [Next]_vars
  PROVE  \/ UNCHANGED vars
         \/ \E u \in Users : OpenActivity(u) \/ UpdateCampaignActivity(u) \/ SetExecuting(u)
                             \/ SetExecutingFails(u)
         \/ \E u \in Users, j \in Jobs : StartSendingCampaignEmail(u, j)
         \/ \E j \in Jobs : ExecuteCampaignActivity(j) \/ ContinueCampaignActivity(j) \/ JobFails(j)
BY DEF Next, JobRuns

LEMMA TypeStep ==
  ASSUME TypeOK, [Next]_vars
  PROVE  TypeOK'
<1> USE DEF TypeOK, Status
<1>1. CASE UNCHANGED vars
  BY <1>1 DEF vars, job, forms
<1>2. ASSUME NEW u \in Users, OpenActivity(u) \/ UpdateCampaignActivity(u) \/ SetExecuting(u)
      PROVE  TypeOK'
  BY <1>2 DEF OpenActivity, UpdateCampaignActivity, SetExecuting, Show, job, forms
<1>3. ASSUME NEW u \in Users, SetExecutingFails(u)
      PROVE  TypeOK'
  BY <1>3, CampaignAssumption DEF SetExecutingFails, Show
<1>4. ASSUME NEW u \in Users, NEW j \in Jobs, StartSendingCampaignEmail(u, j)
      PROVE  TypeOK'
  BY <1>4, CampaignAssumption DEF StartSendingCampaignEmail, StartsJob, Show
<1>5. ASSUME NEW j \in Jobs, ExecuteCampaignActivity(j)
      PROVE  TypeOK'
  BY <1>5 DEF ExecuteCampaignActivity, forms
<1>6. ASSUME NEW j \in Jobs, ContinueCampaignActivity(j)
      PROVE  TypeOK'
  BY <1>6 DEF ContinueCampaignActivity, Ends, forms
<1>7. ASSUME NEW j \in Jobs, JobFails(j)
      PROVE  TypeOK'
  BY <1>7, CampaignAssumption DEF JobFails, Ends, forms
<1> QED BY <1>1, <1>2, <1>3, <1>4, <1>5, <1>6, <1>7, Steps

\* A job stays alive, unless it ends where EXECUTING was not set, or is disturbed.
StaysAlive(j) == Alive(j) => Alive(j)'

LEMMA JobStep ==
  ASSUME CampaignInv, NEW i \in Jobs, ExecuteCampaignActivity(i) \/ ContinueCampaignActivity(i)
  PROVE  CampaignInv'
<1>1. TypeOK /\ TypeOK'
  BY TypeStep DEF CampaignInv, Next, JobRuns
<1>2. UNCHANGED <<status, faults, formPC, formJob>>
  BY DEF ExecuteCampaignActivity, ContinueCampaignActivity, forms
<1>3. CASE jobPC' = [jobPC EXCEPT ![i] = "ended"]
  <2>1. /\ status # "EXECUTING"
        /\ outran' = (outran \/ \E u \in Users : formPC[u] = "started" /\ formJob[u] = i)
    BY <1>1, <1>3 DEF ExecuteCampaignActivity, ContinueCampaignActivity, Ends, TypeOK
  <2>2. ExecutingHasJob'
    BY <1>2, <2>1 DEF ExecutingHasJob
  <2>3. ASSUME Undisturbed', NEW u \in Users, formPC'[u] = "started"
        PROVE  Alive(formJob[u])'
    <3>1. Undisturbed /\ formPC[u] = "started" /\ formJob[u] # i
      BY <1>2, <2>1, <2>3 DEF Undisturbed
    <3>2. Alive(formJob[u]) /\ formJob[u] \in Jobs
      BY <1>1, <3>1 DEF CampaignInv, TypeOK
    <3> QED BY <1>1, <1>2, <1>3, <3>1, <3>2 DEF Alive, TypeOK
  <2> QED BY <1>1, <2>2, <2>3 DEF CampaignInv
<1>4. CASE jobPC' \in {[jobPC EXCEPT ![i] = "waiting"], [jobPC EXCEPT ![i] = "executed"]}
  <2>1. outran' = outran
    BY <1>1, <1>4 DEF ExecuteCampaignActivity, ContinueCampaignActivity, Ends, TypeOK
  <2>2. \A j \in Jobs : StaysAlive(j)
    BY <1>1, <1>4 DEF StaysAlive, Alive, TypeOK
  <2>3. ExecutingHasJob'
    BY <1>2, <2>1, <2>2 DEF CampaignInv, ExecutingHasJob, Undisturbed, StaysAlive
  <2>4. ASSUME Undisturbed', NEW u \in Users, formPC'[u] = "started"
        PROVE  Alive(formJob[u])'
    <3>1. Undisturbed /\ formPC[u] = "started"
      BY <1>2, <2>1, <2>4 DEF Undisturbed
    <3>2. Alive(formJob[u]) /\ formJob[u] \in Jobs
      BY <1>1, <3>1 DEF CampaignInv, TypeOK
    <3> QED BY <1>2, <2>2, <3>2 DEF StaysAlive, Alive
  <2> QED BY <1>1, <2>3, <2>4 DEF CampaignInv
<1> QED BY <1>3, <1>4 DEF ExecuteCampaignActivity, ContinueCampaignActivity, Ends

LEMMA StartStep ==
  ASSUME CampaignInv, NEW v \in Users, NEW i \in Jobs, StartSendingCampaignEmail(v, i)
  PROVE  CampaignInv'
<1>1. TypeOK /\ TypeOK'
  BY TypeStep DEF CampaignInv, Next
<1>2. /\ UNCHANGED <<status, faults, outran>>
      /\ jobPC' = [jobPC EXCEPT ![i] = "waiting"]
      /\ formJob' = [formJob EXCEPT ![v] = i] /\ formPC' = [formPC EXCEPT ![v] = "started"]
  BY DEF StartSendingCampaignEmail, StartsJob, Show
<1>3. Alive(i)' /\ \A j \in Jobs : StaysAlive(j)
  BY <1>1, <1>2 DEF StaysAlive, Alive, TypeOK
<1>4. ExecutingHasJob'
  BY <1>3 DEF ExecutingHasJob
<1>5. ASSUME Undisturbed', NEW u \in Users, formPC'[u] = "started"
      PROVE  Alive(formJob[u])'
  <2>1. CASE u = v
    <3>1. formJob'[u] = i
      BY <1>1, <1>2, <2>1 DEF TypeOK
    <3> QED BY <1>3, <3>1 DEF Alive
  <2>2. CASE u # v
    <3>1. Undisturbed /\ formPC[u] = "started" /\ formJob'[u] = formJob[u]
      BY <1>1, <1>2, <1>5, <2>2 DEF Undisturbed, TypeOK
    <3>2. Alive(formJob[u]) /\ formJob[u] \in Jobs
      BY <1>1, <3>1 DEF CampaignInv, TypeOK
    <3> QED BY <1>3, <3>1, <3>2 DEF StaysAlive, Alive
  <2> QED BY <2>1, <2>2
<1> QED BY <1>1, <1>4, <1>5 DEF CampaignInv

LEMMA FormStep ==
  ASSUME CampaignInv, NEW v \in Users,
         OpenActivity(v) \/ UpdateCampaignActivity(v) \/ SetExecuting(v)
  PROVE  CampaignInv'
<1>1. TypeOK /\ TypeOK'
  BY TypeStep DEF CampaignInv, Next
<1>2. UNCHANGED <<jobPC, faults, outran, formJob>>
  BY DEF OpenActivity, UpdateCampaignActivity, SetExecuting, job, forms
<1>3. \A u \in Users : formPC'[u] = "started" => formPC[u] = "started"
  BY <1>1 DEF OpenActivity, UpdateCampaignActivity, SetExecuting, Show, forms, TypeOK
<1>4. ExecutingHasJob'
  <2>1. CASE SetExecuting(v)
    <3>1. Undisturbed' => Undisturbed /\ formPC[v] = "started" /\ formJob[v] \in Jobs
      BY <1>1, <1>2, <2>1 DEF SetExecuting, Undisturbed, TypeOK
    <3>2. Undisturbed' => Alive(formJob[v]) /\ formJob[v] \in Jobs
      BY <3>1 DEF CampaignInv
    <3>3. Undisturbed' => \E j \in Jobs : Alive(j)'
      BY <1>2, <3>2 DEF Alive
    <3> QED BY <3>3 DEF ExecutingHasJob
  <2>2. CASE OpenActivity(v) \/ UpdateCampaignActivity(v)
    <3>1. status' = "EXECUTING" => status = "EXECUTING"
      BY <2>2 DEF OpenActivity, UpdateCampaignActivity
    <3> QED BY <1>2, <3>1 DEF CampaignInv, ExecutingHasJob, Undisturbed, Alive
  <2> QED BY <2>1, <2>2
<1> QED BY <1>1, <1>2, <1>3, <1>4 DEF CampaignInv, Undisturbed, Alive

LEMMA CampaignStep ==
  ASSUME CampaignInv, [Next]_vars
  PROVE  CampaignInv'
<1>1. CASE UNCHANGED vars
  BY <1>1 DEF vars, job, forms, CampaignInv, TypeOK, ExecutingHasJob, Undisturbed, Alive
<1>2. ASSUME (\E u \in Users : SetExecutingFails(u)) \/ (\E j \in Jobs : JobFails(j))
      PROVE  CampaignInv'
  <2>1. faults \in Nat /\ faults' = faults + 1
    BY <1>2, CampaignAssumption DEF SetExecutingFails, JobFails, CampaignInv, TypeOK
  <2>2. ~ Undisturbed'
    BY <2>1 DEF Undisturbed
  <2>3. TypeOK'
    BY TypeStep DEF CampaignInv
  <2> QED BY <2>2, <2>3 DEF CampaignInv, ExecutingHasJob
<1> QED BY <1>1, <1>2, Steps, FormStep, StartStep, JobStep

LEMMA InitInv ==
  Init => CampaignInv
<1> SUFFICES ASSUME Init PROVE CampaignInv
  OBVIOUS
<1>1. status = "NEW" /\ \A u \in Users : formPC[u] = "closed" /\ formJob[u] = NoJob
  BY DEF Init
<1>2. faults \in 0 .. MaxFaults
  BY CampaignAssumption DEF Init
<1>3. TypeOK
  BY <1>1, <1>2 DEF Init, TypeOK, Status
<1> QED BY <1>1, <1>3 DEF CampaignInv, ExecutingHasJob

------------------------------------------------------------------------------
(* The theorems.                                                             *)

\* The types, for any number of jobs and sessions: STATUS is one of three, and a
\* session that has not set EXECUTING yet has created a job.
THEOREM CampaignTypes == Spec => []TypeOK
<1>1. Init => TypeOK
  BY InitInv DEF CampaignInv
<1>2. TypeOK /\ [Next]_vars => TypeOK'
  BY TypeStep
<1> QED BY <1>1, <1>2, PTL DEF Spec

\* The inductive invariant, of which ExecutingHasJob is a part.
THEOREM CampaignIsSafe == Spec => []CampaignInv
<1>1. CampaignInv /\ [Next]_vars => CampaignInv'
  BY CampaignStep
<1> QED BY <1>1, InitInv, PTL DEF Spec

\* startSendingCampaignEmail and continueCampaignActivity: an activity that shows
\* EXECUTING has a job, for any number of sessions that start and save it, unless a
\* job failed or was over before EXECUTING was set.
THEOREM ExecutingIsServed == Spec => []ExecutingHasJob
<1>1. CampaignInv => ExecutingHasJob
  BY DEF CampaignInv
<1> QED BY <1>1, CampaignIsSafe, PTL
================================================================================
