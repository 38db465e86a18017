--------------------------- MODULE StorageAdoption ---------------------------
(***************************************************************************)
(* Storage adoption: the operator's command that binds the upload sessions *)
(* of before the namespace column to the namespace the Manager is          *)
(* configured with, after it has verified their objects there.             *)
(*                                                                         *)
(* An operator process lists candidates without a lock, then takes the     *)
(* sessions one at a time: it locks the row, reads it, streams and hashes  *)
(* each of its objects under that lock, and commits the binding or a       *)
(* rejection.  Several operators may run, with the configuration of        *)
(* different storages; meanwhile objects are copied between storages and   *)
(* maintenance expires sessions and deletes the staging objects of those   *)
(* that are bound.                                                         *)
(***************************************************************************)
EXTENDS Naturals, Sequences, FiniteSets

CONSTANTS
    Legacy,          \* the sessions that are not bound
    Storages,        \* configured storages, records with a backend
    Operators,       \* runs of the command
    Arguments,       \* what they are run with: storage, dry, named, limit
    Inherited,       \* what they and the storages may be like at the upgrade
    MaxMishaps,      \* bound: storage errors and killed runs
    NoOne

AllKinds == {"dataset", "artifact"}
Unbound == [backend |-> "unbound"]

\* The objects of a completed session, in the order in which they are verified.
Canonical(kind) ==
    IF kind = "dataset" THEN <<"original", "prepared_flat", "manifest", "quality_report">> ELSE <<"canonical">>
StoredNames == {"staging", "original", "prepared_flat", "manifest", "quality_report", "canonical"}

VARIABLES
    upload,   \* per session: kind, status, backend, where (storage_namespace_sha256) and
              \* uris, the storages for which its rows are complete and have the URIs;
              \* "pending" stands for finalizing as well
    objects,  \* the objects, of the recorded size and hash, in a storage: <<storage, session, name>>
    rowLock,  \* the run that holds FOR UPDATE on the row of a session
    op,       \* the runs of the command
    mishaps,
    swept     \* history: the sessions whose staging object maintenance deleted

adoptionVars == <<upload, objects, rowLock, op, mishaps, swept>>

Settled == {"failed", "expired", "completed"}
Uploads == [kind : AllKinds, status : Settled \cup {"pending"}, backend : {"local", "s3"},
            where : Storages \cup {Unbound}, uris : SUBSET Storages]

NewRun == [at |-> "idle", storage |-> NoOne, dry |-> TRUE, items |-> {}, todo |-> {},
           ses |-> NoOne, seen |-> 0, rejected |-> {}]
Runs == [at : {"idle", "next", "verify", "done", "dead"}, storage : Storages \cup {NoOne}, dry : BOOLEAN,
         items : SUBSET Legacy, todo : SUBSET Legacy, ses : Legacy \cup {NoOne},
         seen : 0..4, rejected : SUBSET Legacy]

ASSUME AdoptionAssumption ==
    /\ \A i \in Inherited : /\ i.upload \in [Legacy -> Uploads]
                            /\ \A s \in Legacy : i.upload[s].where = Unbound
                            /\ i.objects \subseteq Storages \X Legacy \X StoredNames
    /\ Arguments \subseteq [storage : Storages, dry : BOOLEAN, named : SUBSET Legacy, limit : Nat]
    /\ NoOne \notin Operators \cup Legacy \cup Storages /\ Unbound \notin Storages \cup {NoOne}
    /\ MaxMishaps \in Nat

AdoptionInit ==
    /\ \E i \in Inherited : upload = i.upload /\ objects = i.objects
    /\ rowLock = [s \in Legacy |-> NoOne]
    /\ op = [o \in Operators |-> NewRun]
    /\ mishaps = 0 /\ swept = {}

Mishap == mishaps < MaxMishaps /\ mishaps' = mishaps + 1

-----------------------------------------------------------------------------
\* The command

\* _candidate_ids: the sessions that the operator names, all of one kind, or else a
\* batch of the unbound ones, as many as the limit allows (the oldest; any, here).
Candidates(a, E) ==
    /\ Cardinality(E) <= a.limit
    /\ IF a.named # {}
         THEN E = a.named /\ \E k \in AllKinds : \A s \in E : upload[s].kind = k
         ELSE LET open == {s \in Legacy : upload[s].where = Unbound}
              IN  E \subseteq open /\ (E = open \/ Cardinality(E) = a.limit)

List(o, a, E) ==
    /\ op[o].at = "idle" /\ Candidates(a, E)
    /\ op' = [op EXCEPT ![o] = [NewRun EXCEPT !.at = "next", !.storage = a.storage, !.dry = a.dry,
                                              !.items = E, !.todo = E]]
    /\ UNCHANGED <<upload, objects, rowLock, mishaps, swept>>

\* The objects that prove where a session's bytes are.
Evidence(u) == IF u.status = "completed" THEN Canonical(u.kind) ELSE <<"staging">>

\* What _adopt_one decides from the row alone.
BoundHere(o, s) == upload[s].where = op[o].storage
Refused(o, s) ==
    \/ upload[s].status = "pending"
    \/ upload[s].where # Unbound /\ ~BoundHere(o, s)
    \/ /\ upload[s].where = Unbound
       /\ \/ upload[s].backend # op[o].storage.backend
          \/ upload[s].status = "completed" /\ op[o].storage \notin upload[s].uris

\* (mutant) the session is read without FOR UPDATE
TakeUnlocked(o, s) ==
    /\ op[o].at = "next" /\ s \in op[o].todo
    /\ \/ /\ Refused(o, s)
          /\ op' = [op EXCEPT ![o].todo = @ \ {s}, ![o].rejected = @ \cup {s}]
       \/ /\ ~Refused(o, s) /\ BoundHere(o, s)
          /\ op' = [op EXCEPT ![o].todo = @ \ {s}]
       \/ /\ ~Refused(o, s) /\ ~BoundHere(o, s)
          /\ op' = [op EXCEPT ![o].at = "verify", ![o].ses = s, ![o].seen = 0]
    /\ UNCHANGED <<rowLock, upload, objects, mishaps, swept>>

\* _adopt_one up to the first object: the row is locked and then read; a session that is
\* rejected or bound already is left at once.
Take(o, s) ==
    /\ op[o].at = "next" /\ s \in op[o].todo /\ rowLock[s] = NoOne
    /\ \/ /\ Refused(o, s)
          /\ op' = [op EXCEPT ![o].todo = @ \ {s}, ![o].rejected = @ \cup {s}]
          /\ UNCHANGED rowLock
       \/ /\ ~Refused(o, s) /\ BoundHere(o, s)
          /\ op' = [op EXCEPT ![o].todo = @ \ {s}]
          /\ UNCHANGED rowLock
       \/ /\ ~Refused(o, s) /\ ~BoundHere(o, s)
          /\ op' = [op EXCEPT ![o].at = "verify", ![o].ses = s, ![o].seen = 0]
          /\ rowLock' = [rowLock EXCEPT ![s] = o]
    /\ UNCHANGED <<upload, objects, mishaps, swept>>

Objects(o) == Evidence(upload[op[o].ses])
Matches(o, i) == <<op[o].storage, op[o].ses, Objects(o)[i]>> \in objects

\* _object_matches for the next object.
Match(o) ==
    /\ op[o].at = "verify" /\ op[o].seen < Len(Objects(o))
    /\ Matches(o, op[o].seen + 1)
    /\ op' = [op EXCEPT ![o].seen = @ + 1]
    /\ UNCHANGED <<upload, objects, rowLock, mishaps, swept>>

\* The transaction of a session ends and releases its row.
EndSession(o, rejected) ==
    /\ op' = [op EXCEPT ![o].at = "next", ![o].todo = @ \ {op[o].ses}, ![o].ses = NoOne, ![o].seen = 0,
                        ![o].rejected = @ \cup rejected]
    /\ rowLock' = [rowLock EXCEPT ![op[o].ses] = NoOne]

\* An object is missing or differs, or the storage does not answer.
Reject(o) ==
    /\ op[o].at = "verify" /\ op[o].seen < Len(Objects(o))
    /\ \/ ~Matches(o, op[o].seen + 1) /\ UNCHANGED mishaps
       \/ Mishap
    /\ EndSession(o, {op[o].ses})
    /\ UNCHANGED <<upload, objects, swept>>

\* Everything matched: the binding is committed unless this is a dry run.
Bind(o) ==
    /\ op[o].at = "verify" /\ op[o].seen = Len(Objects(o))
    /\ upload' = IF op[o].dry THEN upload ELSE [upload EXCEPT ![op[o].ses].where = op[o].storage]
    /\ EndSession(o, {})
    /\ UNCHANGED <<objects, mishaps, swept>>

Report(o) ==
    /\ op[o].at = "next" /\ op[o].todo = {}
    /\ op' = [op EXCEPT ![o].at = "done"]
    /\ UNCHANGED <<upload, objects, rowLock, mishaps, swept>>

\* The command is killed; the database rolls its transaction back.
KillRun(o) ==
    /\ op[o].at \in {"next", "verify"} /\ Mishap
    /\ op' = [op EXCEPT ![o] = [NewRun EXCEPT !.at = "dead"]]
    /\ rowLock' = [s \in Legacy |-> IF rowLock[s] = o THEN NoOne ELSE rowLock[s]]
    /\ UNCHANGED <<upload, objects, swept>>

-----------------------------------------------------------------------------
\* Everything else

\* Maintenance expires a pending session, whatever its namespace.
ExpirePending(s) ==
    /\ upload[s].status = "pending" /\ rowLock[s] = NoOne
    /\ upload' = [upload EXCEPT ![s].status = "expired"]
    /\ UNCHANGED <<objects, rowLock, op, mishaps, swept>>

\* It deletes staging objects in its own storage, of the sessions bound to that.
DeleteStaging(s) ==
    /\ upload[s].status \in {"failed", "expired"} /\ rowLock[s] = NoOne
    /\ upload[s].where \in Storages
    /\ objects' = objects \ {<<upload[s].where, s, "staging">>}
    /\ swept' = swept \cup {s}
    /\ UNCHANGED <<upload, rowLock, op, mishaps>>

\* The operator copies an object from one storage to another.
CopyObject(c, s, x) ==
    /\ <<c, s, x>> \notin objects /\ s \notin swept
    /\ \E d \in Storages : <<d, s, x>> \in objects
    /\ objects' = objects \cup {<<c, s, x>>}
    /\ UNCHANGED <<upload, rowLock, op, mishaps, swept>>

OperatorStep(o) ==
    \/ \E a \in Arguments : \E E \in SUBSET Legacy : List(o, a, E)
    \/ \E s \in Legacy : Take(o, s)
    \/ Match(o) \/ Reject(o) \/ Bind(o) \/ Report(o) \/ KillRun(o)

AdoptionNext ==
    \/ \E o \in Operators : OperatorStep(o)
    \/ \E s \in Legacy : ExpirePending(s) \/ DeleteStaging(s)
    \/ \E c \in Storages, s \in Legacy, x \in StoredNames : CopyObject(c, s, x)

AdoptionSpec == AdoptionInit /\ [][AdoptionNext]_adoptionVars

-----------------------------------------------------------------------------
\* Properties

AdoptionTypeOK ==
    /\ upload \in [Legacy -> Uploads]
    /\ objects \subseteq Storages \X Legacy \X StoredNames
    /\ rowLock \in [Legacy -> Operators \cup {NoOne}]
    /\ op \in [Operators -> Runs]
    /\ mishaps \in 0..MaxMishaps /\ swept \subseteq Legacy

\* A session is bound to the storage that has its bytes: all of its canonical objects,
\* or the staging object until maintenance deletes it.
BoundToItsBytes ==
    \A s \in Legacy : upload[s].where # Unbound =>
        \A i \in DOMAIN Evidence(upload[s]) :
            LET x == Evidence(upload[s])[i]
            IN  <<upload[s].where, s, x>> \in objects \/ (x = "staging" /\ s \in swept)

\* A run that applied bindings and reports no rejection left every session it examined
\* bound to its storage, also after another operator's run with another storage.
ReportIsTrue ==
    \A o \in Operators : op[o].at = "done" /\ ~op[o].dry =>
        \A s \in op[o].items \ op[o].rejected : upload[s].where = op[o].storage

\* Adoption binds each session once, to a storage that has its bytes, and says so truly.
AdoptionIsSound == BoundToItsBytes /\ ReportIsTrue
=============================================================================
