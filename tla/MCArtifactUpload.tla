--------------------------- MODULE MCArtifactUpload ---------------------------
(***************************************************************************)
(* What a Worker publishes, on small instances: ArtifactUpload, the        *)
(* Samples that are made of completed artifacts, and StorageAdoption of    *)
(* the sessions of earlier releases.  Samples reads artifacts that do not  *)
(* change any more, ArtifactUpload reads no sample, and adoption is about  *)
(* sessions that neither touches, so a behaviour is about one of the three *)
(* and the others stay as they were.                                       *)
(***************************************************************************)
EXTENDS ArtifactUpload, Samples, StorageAdoption, TLC

CONSTANTS p1, p2, h1, h2, o1, o2, s1, s2

TwoProcs == {p1, p2}
BothBackends == {"local", "s3"}
TwoHandlers == {h1, h2}
TwoItems == {1, 2}

\* Two samples that complete a job, one of another inference run, and one that is too
\* large to be registered with any other.
Output(item, run, size) == [item |-> item, run |-> run, size |-> size]
FourOutputs == {Output(1, 1, 1), Output(2, 1, 1), Output(2, 2, 1), Output(2, 1, 2)}

TwoOperators == {o1, o2}
TwoLegacy == {s1, s2}
Store(n) == [backend |-> "local", name |-> n]
TwoStorages == {Store(1), Store(2)}

\* A completed dataset, of which the second storage lacks the manifest, and an artifact
\* in any state, with its objects in the first storage, or of another backend.
Row(kind, st, b) ==
    [kind |-> kind, status |-> st, backend |-> b, where |-> Unbound, uris |-> TwoStorages]
AtUpgrade ==
    {[upload |-> (s1 :> Row("dataset", "completed", "local")) @@ (s2 :> Row("artifact", x[1], x[2])),
      objects |-> (TwoStorages \X {s1} \X {"original", "prepared_flat", "quality_report"})
                  \cup ({Store(1)} \X {s1} \X {"manifest"}) \cup ({Store(1)} \X {s2} \X {IF x[1] = "completed" THEN "canonical" ELSE "staging"})] :
        x \in {<<"pending", "local">>, <<"failed", "local">>, <<"completed", "local">>, <<"failed", "s3">>}}

\* Bind all that is not bound to either storage, or one session; try the dataset.
Ask(n, d, E, limit) == [storage |-> Store(n), dry |-> d, named |-> E, limit |-> limit]
Asks == {Ask(1, FALSE, {}, 2), Ask(2, FALSE, {}, 2), Ask(1, FALSE, {s2}, 1), Ask(2, TRUE, {s1}, 1)}

VARIABLE part

PublicationInit ==
    /\ part \in {"uploads", "samples", "adoption"}
    /\ Init /\ SamplesInit /\ AdoptionInit
    /\ part # "uploads" => backend = CHOOSE b \in Backends : TRUE
    /\ part # "adoption" => upload[s2].status = "completed"

PublicationNext ==
    \/ part = "uploads" /\ Next /\ UNCHANGED <<part, sampleVars, adoptionVars>>
    \/ part = "samples" /\ SamplesNext /\ UNCHANGED <<part, vars, adoptionVars>>
    \/ part = "adoption" /\ AdoptionNext /\ UNCHANGED <<part, vars, sampleVars>>

PublicationSpec ==
    /\ PublicationInit
    /\ [][PublicationNext]_<<part, vars, sampleVars, adoptionVars>>
    /\ Fairness
=============================================================================
