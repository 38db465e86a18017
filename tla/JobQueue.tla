------------------------------- MODULE JobQueue -------------------------------
(***************************************************************************)
(* What the assignment ledger promises: a queue of jobs of which each is   *)
(* run by at most one Worker at a time, each Worker runs at most one job,  *)
(* and every run of a job is a new one.  Runs may be taken back, and go    *)
(* back to the queue as long as the job has had fewer than RunLimit of     *)
(* them; a finished job may be queued again on demand.                     *)
(***************************************************************************)
EXTENDS Naturals

CONSTANTS Jobs, Workers, RunLimit, Absent, Waiting, Ended

VARIABLES
    owner,   \* the Worker that runs the job, or Absent, Waiting or Ended
    runs     \* how many runs of the job were started

Init ==
    /\ owner = [j \in Jobs |-> Absent]
    /\ runs = [j \in Jobs |-> 0]

Submit(j) ==
    /\ owner[j] = Absent
    /\ owner' = [owner EXCEPT ![j] = Waiting]
    /\ UNCHANGED runs

Free(w) == \A j \in Jobs : owner[j] # w

\* Worker w starts a run of j; damaged jobs D leave the queue on the way.
Start(w, j, D) ==
    /\ owner[j] = Waiting /\ j \notin D
    /\ \A d \in D : owner[d] = Waiting
    /\ Free(w)
    /\ owner' = [i \in Jobs |-> IF i = j THEN w ELSE IF i \in D THEN Ended ELSE owner[i]]
    /\ runs' = [runs EXCEPT ![j] = @ + 1]

\* The jobs D leave the queue without a run.
Drop(D) ==
    /\ \A d \in D : owner[d] = Waiting
    /\ owner' = [j \in Jobs |-> IF j \in D THEN Ended ELSE owner[j]]
    /\ UNCHANGED runs

\* Runs end for good (E) or go back to the queue (B).
Stop(E, B) ==
    /\ \A j \in E \cup B : owner[j] \in Workers
    /\ \A j \in B : runs[j] < RunLimit
    /\ owner' = [j \in Jobs |-> IF j \in E THEN Ended ELSE IF j \in B THEN Waiting ELSE owner[j]]
    /\ UNCHANGED runs

Requeue(j) ==
    /\ owner[j] = Ended
    /\ owner' = [owner EXCEPT ![j] = Waiting]
    /\ UNCHANGED runs

Next ==
    \/ \E j \in Jobs : Submit(j) \/ Requeue(j)
    \/ \E w \in Workers, j \in Jobs, D \in SUBSET Jobs : Start(w, j, D)
    \/ \E D \in SUBSET Jobs : Drop(D)
    \/ \E E, B \in SUBSET Jobs : Stop(E, B)

Spec == Init /\ [][Next]_<<owner, runs>>
=============================================================================
