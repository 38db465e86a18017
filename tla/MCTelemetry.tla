----------------------------- MODULE MCTelemetry -----------------------------
(***************************************************************************)
(* The way of a metric on small instances: Telemetry, from the Worker's    *)
(* spool to the Manager's rows, and MlflowOutbox, from the outbox event    *)
(* that is committed with the rows to MLflow.  The outbox never holds up   *)
(* an ingestion and an ingestion never looks at the outbox, so a behaviour *)
(* is about one of them; the other stays in its initial state, in which    *)
(* none of its fair actions is enabled.                                    *)
(***************************************************************************)
EXTENDS Telemetry, MlflowOutbox, TLC

\* File names are hashes: here younger attempts and metrics come first, the
\* order in which a refused record can hold up older ones.
YoungestFirst(b, c) ==
    \/ b[1] > c[1]
    \/ b[1] = c[1] /\ b[2] = "metric" /\ c[2] = "log"
    \/ b[1] = c[1] /\ b[2] = c[2] /\ b[3] > c[3]

AllFailures == {"before", "after"}
MetricOnly == {"metric"}

\* A training event has one metric, a snapshot has two.
OneOrTwo(source) == IF source = "system" THEN 2 ELSE 1

\* Two events in the first attempt, which may arrive during the second, and one there.
TwoThenOne(a, n) ==
    CASE a = 1 /\ n = 1 -> {"event"}
      [] a = 1 /\ n = 2 -> {"system"}
      [] a = 2 /\ n = 1 -> {"event", "bad"}
      [] OTHER -> {}

CONSTANTS p1, p2

TwoProcesses == {p1, p2}
BatchThenEnd == <<"batch", "terminal">>
TwoRequests == <<2, 1>>

\* A process on its own meets more failures than two beside each other.
FewerBesideEachOther(R) == IF R = TwoProcesses THEN 1 ELSE 2

VARIABLE part

PathInit ==
    /\ part \in {"ingestion", "projection"}
    /\ Init /\ OutboxInit
    /\ replicas \in (IF part = "ingestion" THEN {{p1}} ELSE {{p1}, {p1, p2}})

PathNext ==
    \/ part = "ingestion" /\ Next /\ UNCHANGED <<part, outboxVars>>
    \/ part = "projection" /\ OutboxNext /\ UNCHANGED <<part, vars>>

PathSpec == PathInit /\ [][PathNext]_<<vars, outboxVars, part>> /\ Fairness /\ OutboxFairness
=============================================================================
