------------------------------ MODULE Admission ------------------------------
(***************************************************************************)
(* What app/jobs/queue.py promises: the jobs in flight are a set that never *)
(* outgrows the global limit, nor the limit of one account.  The counters  *)
(* that implement it are in EnhancementJobs.                               *)
(***************************************************************************)
EXTENDS Naturals, FiniteSets

CONSTANTS Users, Jobs, Owner, MaxQueuedJobs, MaxQueuedJobsPerUser

VARIABLE held   \* the jobs that hold a slot

HeldBy(u) == {j \in held : Owner[j] = u}

Init == held = {}

Admit(j) ==
    /\ j \notin held
    /\ Cardinality(held) < MaxQueuedJobs
    /\ Cardinality(HeldBy(Owner[j])) < MaxQueuedJobsPerUser
    /\ held' = held \cup {j}

Leave(j) ==
    /\ j \in held
    /\ held' = held \ {j}

(* A new process starts with nothing in flight. *)
Restart == held' = {}

Next == (\E j \in Jobs : Admit(j) \/ Leave(j)) \/ Restart

Spec == Init /\ [][Next]_held

=============================================================================
