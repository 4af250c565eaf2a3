------------------------------- MODULE JobChain -------------------------------
(***************************************************************************)
(* What the batch engine promises about the runs of a job: a run is        *)
(* executed at most once, and a run that was executed is followed by at    *)
(* most one run.  Tables, servers, messages and locks are left out; the    *)
(* promise covers runs that are never executed and chains that stop.       *)
(***************************************************************************)
EXTENDS Naturals

CONSTANTS RunKeys, NoRun

VARIABLES
    created,  \* the runs that were ever scheduled
    parent,   \* the run that each run follows, or NoRun
    executed  \* how often the steps of each run were executed

vars == <<created, parent, executed>>

Init ==
    /\ created = {}
    /\ parent = [r \in RunKeys |-> NoRun]
    /\ executed = [r \in RunKeys |-> 0]

\* A job is created, or an administrator triggers a new first run.
First(k) ==
    /\ k \notin created
    /\ created' = created \cup {k}
    /\ UNCHANGED <<parent, executed>>

Execute(k) ==
    /\ k \in created
    /\ executed[k] = 0
    /\ executed' = [executed EXCEPT ![k] = 1]
    /\ UNCHANGED <<created, parent>>

Follow(p, k) ==
    /\ p \in created
    /\ executed[p] = 1
    /\ \A c \in RunKeys : parent[c] # p
    /\ k \notin created
    /\ created' = created \cup {k}
    /\ parent' = [parent EXCEPT ![k] = p]
    /\ UNCHANGED executed

Next ==
    \/ \E k \in RunKeys : First(k) \/ Execute(k)
    \/ \E p, k \in RunKeys : Follow(p, k)

Spec == Init /\ [][Next]_vars
==============================================================================
