---------------------------- MODULE MCModelReview ----------------------------
(***************************************************************************)
(* The review of models on small instances: TestSets, the revisions whose  *)
(* samples models are judged by, and ModelRegistry, where the judged       *)
(* models are promoted and revoked.  They share no row and no object, so a *)
(* behaviour is about one of them and the other stays as it was.           *)
(***************************************************************************)
EXTENDS TestSets, ModelRegistry, TLC

CONSTANTS p1, p2, c1, c2, m1, m2

TwoProcs == {p1, p2}
BothBackends == {"local", "s3"}
TwoClients == {c1, c2}
TwoModels == {m1, m2}

VARIABLE part

ReviewInit ==
    /\ part \in {"test_sets", "registry"}
    /\ Init /\ RegistryInit
    /\ part = "test_sets" => version = 0
    /\ part = "registry" => backend = CHOOSE b \in Backends : TRUE

ReviewNext ==
    \/ part = "test_sets" /\ Next /\ UNCHANGED <<part, registryVars>>
    \/ part = "registry" /\ RegistryNext /\ UNCHANGED <<part, vars>>

ReviewSpec == ReviewInit /\ [][ReviewNext]_<<part, vars, registryVars>>

\* Requests, dashboards and models are interchangeable.
Interchangeable ==
    Permutations({p1, p2}) \cup Permutations({c1, c2}) \cup Permutations({m1, m2})
=============================================================================
