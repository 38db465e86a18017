-------------------------- MODULE MCMaintenanceRuns --------------------------
(* MaintenanceRuns on small instances. *)
EXTENDS MaintenanceRuns, TLC

CONSTANTS r1, r2, rec, h1, h2

TwoRequests == {r1, r2}
TwoHorses == {h1, h2}

\* Two horses, one request and a fault; one horse, two requests and no fault; one
\* horse, two requests, a fault and a run with one attempt.
Scenario(requests, horses, used, attempts) ==
    /\ {r \in Requests : proc[r].pc = "idle"} = requests
    /\ {h \in Horses : horse[h].pc = "idle"} = horses
    /\ faults = used /\ row.max = attempts

ScenarioInit ==
    /\ Init
    /\ \/ Scenario({r1}, {h1, h2}, 0, 2)
       \/ Scenario({r1, r2}, {h1}, 1, 2)
       \/ Scenario({r1, r2}, {h1}, 0, 1)

ScenarioSpec == ScenarioInit /\ [][Next]_vars /\ Fairness
=============================================================================
