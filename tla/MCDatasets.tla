------------------------------ MODULE MCDatasets ------------------------------
(***************************************************************************)
(* DatasetUpload over the verdicts of DatasetIngestion, and the pass of    *)
(* DatasetIngestion itself, on small instances.  An upload only uses the   *)
(* verdict, so a behaviour is about one of them and the other stays.       *)
(***************************************************************************)
EXTENDS DatasetUpload, DatasetIngestion, TLC

CONSTANTS p1, p2

VARIABLE part

TwoProcs == {p1, p2}
BothBackends == {"local", "s3"}

Member(path, kind, digest) == [path |-> path, kind |-> kind, digest |-> digest]

\* One archive for each verdict.
OneOfEach == {<<Member(1, "wav", 1)>>, <<Member(2, "wav", 1), Member(1, "mp3", 2)>>, <<Member(1, "empty", 1)>>}

\* All archives of up to two members, and of three members of the kinds that matter to
\* each other.
SomeMembers == [path : 1..3, kind : Kinds, digest : 1..2]
SmallArchives ==
    UNION {[1..n -> SomeMembers] : n \in 0..2}
        \cup [1..3 -> {m \in SomeMembers : m.kind \in {"dir", "empty", "wav", "mp3"}}]

\* The verdict on the source matters alike for both backends: all of them are tried
\* with one.
ScenarioInit ==
    /\ part \in {"upload", "ingestion"}
    /\ Init /\ IngestInit
    /\ backend = "s3" => Outcome(source) = "ready"
    /\ part = "upload" => archive = source
    /\ part = "ingestion" => backend = "s3"

ScenarioNext ==
    \/ part = "upload" /\ Next /\ UNCHANGED <<part, ingestVars>>
    \/ part = "ingestion" /\ IngestNext /\ UNCHANGED <<part, vars>>

ScenarioSpec == ScenarioInit /\ [][ScenarioNext]_<<part, vars, ingestVars>> /\ Fairness
=============================================================================
