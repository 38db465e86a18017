----------------------------- MODULE ModelRegistry -----------------------------
(***************************************************************************)
(* The champion registry of one experiment: services/model_registry.py on  *)
(* the Manager, and the dashboard that reads, mutates and reconciles it    *)
(* (experiment-model-governance.tsx, model-registry.ts,                    *)
(* model-registry-reconciliation.ts).                                      *)
(*                                                                         *)
(* A read is several statements under READ COMMITTED, page by page.  A     *)
(* mutation checks the registry once without a lock, hashes the model's    *)
(* bytes for as long as that takes, and then checks and writes everything  *)
(* again in one transaction behind the row lock of the experiment.  The    *)
(* dashboard sends the versions of the snapshot it showed; when it does    *)
(* not learn the outcome it reads the registry again, and resends under    *)
(* the same idempotency key or drops its intent, while the first request   *)
(* may still be running.                                                   *)
(*                                                                         *)
(* What a candidate is built from (a completed attempt, its artifacts) is  *)
(* frozen once the attempt is finished, so the two comparisons of the      *)
(* ledger fingerprint always agree and are left out, as are the reason of  *)
(* a revocation and the audit rows.                                        *)
(***************************************************************************)
EXTENDS Integers, Sequences, SequencesExt, FiniteSets

CONSTANTS
    Absent,      \* NULL, undefined
    Clients,     \* dashboards, each of one signed-in user
    Models,      \* final models of completed attempts of the experiment
    PageSize,    \* MODEL_REGISTRY_PAGE_SIZE
    MaxKeys,     \* bound on the mutations one dashboard begins
    MaxSends,    \* bound on the requests sent under one key
    MaxReads,    \* bound on the times one dashboard reads the registry
    MaxLogouts   \* bound on the sessions that end

VARIABLES
    version,    \* ExperimentModelRegistry.row_version, 0 when there is no row
    created,    \* the models with an entry, by created_at
    entry,      \* ModelRegistryEntry by model
    ops,        \* ModelRegistryOperation: what was answered under a key
    requests,   \* mutation requests that are being handled
    client,     \* dashboards
    signedIn,   \* the user is enabled and its token version is current
    log,        \* history: the registry as it was at each version
    settled     \* history: keys whose intent a reconciliation gave up

registry == <<version, created, entry, ops>>
registryVars == <<registry, requests, client, signedIn, log, settled>>

Keys == Clients \X (1..MaxKeys)
Operations == {"candidate", "promote", "revoke"}
Entries == [status : {"none", "candidate", "approved", "revoked"}, active : BOOLEAN, ver : Nat]

\* The entries that one page or more have shown.
Listings == UNION {[D -> Entries] : D \in SUBSET Models}
Headers == [version : Nat, active : Models \cup {Absent}, total : Nat]

ASSUME RegistryAssumption ==
    /\ IsFiniteSet(Models) /\ PageSize \in Nat /\ MaxKeys \in Nat /\ MaxSends \in Nat
    /\ Absent \notin Models \cup Headers

NoEntry == [status |-> "none", active |-> FALSE, ver |-> 0]

Active == IF \E m \in Models : entry[m].active
          THEN CHOOSE m \in Models : entry[m].active ELSE Absent

\* What a complete read of the registry shows.
Snapshot == [version |-> version, active |-> Active,
             items |-> [m \in Range(created) |-> entry[m]]]

EmptySnapshot == [version |-> 0, active |-> Absent, items |-> [m \in {} |-> NoEntry]]

NoRead == [at |-> "none"]

\* The registry is either untouched or has a champion, a second approved entry
\* or candidate left from earlier reviews.
RegistryInit ==
    /\ \/ /\ version = 0 /\ created = <<>> /\ entry = [m \in Models |-> NoEntry]
       \/ \E m \in Models, s \in {"candidate", "approved"} :
            /\ version = 4
            /\ created \in SetToSeqs(Models)
            /\ entry = [n \in Models |->
                          [status |-> IF n = m THEN "approved" ELSE s, active |-> n = m,
                           ver |-> IF n = m THEN 2 ELSE IF s = "approved" THEN 3 ELSE 1]]
    /\ ops = [k \in Keys |-> Absent]
    /\ requests = {}
    /\ client = [c \in Clients |-> [phase |-> "loading", read |-> NoRead, snap |-> Absent,
                                    intent |-> Absent, keys |-> 0, reads |-> 0, sends |-> 0, waiting |-> 0]]
    /\ signedIn = [c \in Clients |-> TRUE]
    /\ log = [v \in {version} |-> Snapshot]
    /\ settled = {}

Snapshots == [version : Nat, active : Models \cup {Absent}, items : Listings]
Intents == [op : Operations, model : Models, key : Keys, seen : Snapshots, entryVer : Nat]
Reads == {NoRead} \cup
    [at : {"absent", "page", "final", "next"}, version : Nat, active : Models \cup {Absent},
     total : Nat, items : Listings, first : Headers \cup {Absent}]
Dashboards ==
    [phase : {"loading", "stale", "ready", "sent", "uncertain", "reconciling", "retryable", "out"},
     read : Reads, snap : Snapshots \cup {Absent}, intent : Intents \cup {Absent},
     keys : 0..MaxKeys, reads : Nat, sends : Nat, waiting : Nat]
Requests == [intent : Intents, send : Nat, at : {"received", "checked", "verified"}]

RegistryTypeOK ==
    /\ version \in Nat /\ created \in Seq(Models) /\ entry \in [Models -> Entries]
    /\ ops \in [Keys -> [op : Operations, model : Models, version : Nat] \cup {Absent}]
    /\ requests \subseteq Requests
    /\ client \in [Clients -> Dashboards] /\ signedIn \in [Clients -> BOOLEAN]
    /\ \A v \in DOMAIN log : v \in Nat /\ log[v] \in Snapshots
    /\ settled \subseteq Keys

(***************************************************************************)
(* Reading: get_registry, once per page.                                   *)
(***************************************************************************)
Reading(c) == client[c].phase \in {"loading", "reconciling"}

Put(c, r) == client' = [client EXCEPT ![c] = r]

\* A read that failed: the dashboard shows an error, or stays uncertain.
ReadFailed(c) ==
    Put(c, [client[c] EXCEPT
              !.read = NoRead,
              !.phase = IF client[c].phase = "loading" THEN "stale" ELSE "uncertain"])

SignedOut(c) == Put(c, [client[c] EXCEPT !.phase = "out", !.read = NoRead, !.snap = Absent])

registryIntentIsApplied(i, s) ==
    /\ i.model \in DOMAIN s.items
    /\ CASE i.op = "candidate" -> TRUE
         [] i.op = "promote" -> s.active = i.model
         [] i.op = "revoke" -> s.items[i.model].status = "revoked"

\* (mutant) an intent that is not applied is given up at once
VerdictAtOnce(i, s) == IF registryIntentIsApplied(i, s) THEN "applied" ELSE "changed"

\* reconcileRegistryMutation: applied, exactly unchanged, or changed.
Verdict(i, s) ==
    IF registryIntentIsApplied(i, s) THEN "applied"
    ELSE IF s = i.seen THEN "unchanged" ELSE "changed"

\* A complete snapshot arrived: show it, or settle the uncertain intent by it.
Loaded(c, s) ==
    LET i == client[c].intent
        shown == [client[c] EXCEPT !.read = NoRead, !.snap = s]
    IN IF client[c].phase = "reconciling"
       THEN IF Verdict(i, s) = "unchanged"
            THEN Put(c, [shown EXCEPT !.phase = "retryable"]) /\ UNCHANGED settled
            ELSE /\ Put(c, [shown EXCEPT !.phase = "ready", !.intent = Absent])
                 /\ settled' = settled \cup {i.key}
       ELSE Put(c, [shown EXCEPT !.phase = "ready"]) /\ UNCHANGED settled

\* The request is authenticated and reads the version of the registry.
ReadVersion(c) ==
    /\ Reading(c)
    /\ client[c].read.at = "next" \/ (client[c].read.at = "none" /\ client[c].reads < MaxReads)
    /\ IF ~signedIn[c] THEN SignedOut(c)
       ELSE LET got == IF client[c].read.at = "none" THEN [m \in {} |-> NoEntry]
                       ELSE client[c].read.items
                first == IF client[c].read.at = "none" THEN Absent ELSE client[c].read.first
            IN Put(c, [client[c] EXCEPT
                 !.reads = IF client[c].read.at = "none" THEN client[c].reads + 1
                           ELSE client[c].reads,
                 !.read = [at |-> IF version = 0 THEN "absent" ELSE "page", version |-> version,
                           active |-> Absent, total |-> 0, items |-> got, first |-> first]])
    /\ UNCHANGED <<registry, requests, signedIn, log, settled>>

\* There was no registry row: it must still be absent.
ReadAbsent(c) ==
    /\ Reading(c) /\ client[c].read.at = "absent"
    /\ IF version = 0 THEN Loaded(c, EmptySnapshot)
                      ELSE ReadFailed(c) /\ UNCHANGED settled
    /\ UNCHANGED <<registry, requests, signedIn, log>>

\* The models of a page, newest first.
Page(offset) ==
    {Reverse(created)[i] : i \in {j \in DOMAIN created : offset < j /\ j <= offset + PageSize}}

\* The champion, the total, and one page of entries.
ReadPage(c) ==
    LET r == client[c].read
        page == Page(Cardinality(DOMAIN r.items))
    IN /\ Reading(c) /\ r.at = "page"
       /\ Put(c, [client[c] EXCEPT !.read =
            [r EXCEPT !.at = "final", !.active = Active, !.total = Len(created),
                      !.items = [m \in DOMAIN r.items \cup page |->
                                   IF m \in DOMAIN r.items THEN r.items[m] ELSE entry[m]]]])
       /\ UNCHANGED <<registry, requests, signedIn, log, settled>>

\* (mutant) only the champion is compared
ChangedChampion(r) == Active # r.active

\* get_registry reads version and champion again and refuses a page that changed.
ChangedWhileReading(r) == version # r.version \/ Active # r.active

\* fetchModelRegistrySnapshot: a later page must agree with the first one.
PagesDiffer(r) ==
    r.first # Absent /\ r.first # [version |-> r.version, active |-> r.active, total |-> r.total]

FinishPage(c) ==
    LET r == client[c].read
    IN /\ Reading(c) /\ r.at = "final"
       /\ \/ /\ ChangedWhileReading(r) \/ PagesDiffer(r)
             /\ ReadFailed(c) /\ UNCHANGED settled
          \/ /\ ~ChangedWhileReading(r) /\ ~PagesDiffer(r)
             /\ IF Cardinality(DOMAIN r.items) >= r.total
                THEN Loaded(c, [version |-> r.version, active |-> r.active, items |-> r.items])
                ELSE /\ Put(c, [client[c] EXCEPT !.read =
                          [r EXCEPT !.at = "next",
                             !.first = [version |-> r.version, active |-> r.active, total |-> r.total]]])
                     /\ UNCHANGED settled
       /\ UNCHANGED <<registry, requests, signedIn, log>>

\* The user reloads after an error or a conflict, or asks to reconcile.
Reload(c) ==
    /\ client[c].phase \in {"stale", "uncertain"}
    /\ Put(c, [client[c] EXCEPT
                 !.phase = IF client[c].phase = "stale" THEN "loading" ELSE "reconciling"])
    /\ UNCHANGED <<registry, requests, signedIn, log, settled>>

(***************************************************************************)
(* The dashboard's mutations.                                              *)
(***************************************************************************)
\* What the panel offers of the snapshot it shows.
Offered(s, op, m) ==
    CASE op = "candidate" -> m \notin DOMAIN s.items
      [] op = "promote" -> m \in DOMAIN s.items /\ s.items[m].status # "revoked" /\ ~s.items[m].active
      [] op = "revoke" -> m \in DOMAIN s.items /\ s.items[m].status # "revoked"

NewIntent(c, op, m, s) ==
    [op |-> op, model |-> m, key |-> <<c, client[c].keys + 1>>, seen |-> s,
     entryVer |-> IF m \in DOMAIN s.items THEN s.items[m].ver ELSE 0]

Sent(i, n) == [intent |-> i, send |-> n, at |-> "received"]

\* register, promote, revoke: a new key, and a request with the versions shown.
Begin(c, op, m) ==
    LET s == client[c].snap
        i == NewIntent(c, op, m, s)
    IN /\ client[c].phase = "ready" /\ client[c].keys < MaxKeys
       /\ Offered(s, op, m)
       /\ IF signedIn[c]
          THEN /\ Put(c, [client[c] EXCEPT !.phase = "sent", !.intent = i,
                                           !.keys = client[c].keys + 1, !.sends = 1,
                                           !.waiting = 1])
               /\ requests' = requests \cup {Sent(i, 1)}
          ELSE SignedOut(c) /\ UNCHANGED requests
       /\ UNCHANGED <<registry, signedIn, log, settled>>

\* retryUnchangedMutation: the same key and the same body.
Resend(c) ==
    LET n == client[c].sends + 1
    IN /\ client[c].phase = "retryable" /\ n <= MaxSends
       /\ IF signedIn[c]
          THEN /\ Put(c, [client[c] EXCEPT !.phase = "sent", !.sends = n, !.waiting = n])
               /\ requests' = requests \cup {Sent(client[c].intent, n)}
          ELSE SignedOut(c) /\ UNCHANGED requests
       /\ UNCHANGED <<registry, signedIn, log, settled>>

\* abandonUnchangedMutation
Abandon(c) ==
    /\ client[c].phase = "retryable"
    /\ Put(c, [client[c] EXCEPT !.phase = "ready", !.intent = Absent])
    /\ UNCHANGED <<registry, requests, signedIn, log, settled>>

\* No answer, or one that cannot be read.
LoseAnswer(c) ==
    /\ client[c].phase = "sent"
    /\ Put(c, [client[c] EXCEPT !.phase = "uncertain", !.waiting = 0])
    /\ UNCHANGED <<registry, requests, signedIn, log, settled>>

\* handleMutationFailure, finishSuccessfulMutation: what an answer does to the
\* dashboard, if it still waits for this request.
Answered(q, answer) ==
    LET c == q.intent.key[1]
    IN client' = IF client[c].phase # "sent" \/ client[c].waiting # q.send
                    \/ client[c].intent.key # q.intent.key THEN client
       ELSE [client EXCEPT ![c] =
               [client[c] EXCEPT
                  !.waiting = 0, !.snap = Absent,
                  !.phase = CASE answer = "ok" -> "loading"
                              [] answer = "conflict" -> "stale"
                              [] answer = "unavailable" -> "uncertain"
                              [] answer = "unauthorized" -> "out",
                  !.intent = IF answer = "unavailable" THEN client[c].intent ELSE Absent]]

Finish(q, answer) == requests' = requests \ {q} /\ Answered(q, answer)

(***************************************************************************)
(* The Manager's handlers.                                                 *)
(***************************************************************************)
Replayed(i) == ops[i.key] # Absent

\* The checks of promote_entry, revoke_entry and create_candidate on the entry.
EntryAllows(i) ==
    CASE i.op = "candidate" -> entry[i.model].status = "none"
      [] i.op = "promote" -> /\ entry[i.model].ver = i.entryVer
                             /\ entry[i.model].status # "revoked" /\ ~entry[i.model].active
      [] i.op = "revoke" -> /\ entry[i.model].ver = i.entryVer
                            /\ entry[i.model].status # "revoked"

\* The stored answer, or the first, unlocked look; a revocation has no first look.
Preflight(q) ==
    /\ q.at = "received"
    /\ IF Replayed(q.intent) THEN Finish(q, "ok")
       ELSE IF q.intent.op = "revoke" \/ (version = q.intent.seen.version /\ EntryAllows(q.intent))
       THEN /\ requests' = (requests \ {q}) \cup
                 {[q EXCEPT !.at = IF q.intent.op = "revoke" THEN "verified" ELSE "checked"]}
            /\ UNCHANGED client
       ELSE Finish(q, "conflict")
    /\ UNCHANGED <<registry, signedIn, log, settled>>

\* _verify_context_bytes: the bytes match, do not match, or could not be hashed in time.
VerifyBytes(q) ==
    /\ q.at = "checked"
    /\ \/ requests' = (requests \ {q}) \cup {[q EXCEPT !.at = "verified"]} /\ UNCHANGED client
       \/ Finish(q, "conflict")
       \/ Finish(q, "unavailable")
    /\ UNCHANGED <<registry, signedIn, log, settled>>

\* (mutant) the version is left to the preflight
AdmittedByPreflight(i) == EntryAllows(i)

\* The checks under the fence.
Admitted(i) == version = i.seen.version /\ EntryAllows(i)

Written(i) ==
    CASE i.op = "candidate" ->
           [entry EXCEPT ![i.model] = [status |-> "candidate", active |-> FALSE, ver |-> 1]]
      [] i.op = "promote" ->
           [m \in Models |->
              IF m = i.model THEN [status |-> "approved", active |-> TRUE, ver |-> entry[m].ver + 1]
              ELSE IF entry[m].active THEN [entry[m] EXCEPT !.active = FALSE, !.ver = @ + 1]
              ELSE entry[m]]
      [] i.op = "revoke" ->
           [entry EXCEPT ![i.model] = [status |-> "revoked", active |-> FALSE, ver |-> @.ver + 1]]

\* The transaction behind the row lock of the experiment: the actor, a stored answer,
\* the versions, the writes, the operation row and the commit.  A process that dies or
\* rolls back is a request that takes no further step.
Apply(q) ==
    LET i == q.intent
        c == i.key[1]
    IN /\ q.at = "verified"
       /\ \/ /\ ~signedIn[c]
             /\ Finish(q, "unauthorized") /\ UNCHANGED <<registry, log>>
          \/ /\ signedIn[c] /\ Replayed(i)
             /\ Finish(q, "ok") /\ UNCHANGED <<registry, log>>
          \/ /\ signedIn[c] /\ ~Replayed(i) /\ ~Admitted(i)
             /\ Finish(q, "conflict") /\ UNCHANGED <<registry, log>>
          \/ /\ signedIn[c] /\ ~Replayed(i) /\ Admitted(i)
             /\ version' = version + 1
             /\ entry' = Written(i)
             /\ created' = IF i.op = "candidate" THEN Append(created, i.model) ELSE created
             /\ ops' = [ops EXCEPT ![i.key] = [op |-> i.op, model |-> i.model, version |-> version + 1]]
             /\ log' = [v \in DOMAIN log \cup {version'} |->
                          IF v = version' THEN Snapshot' ELSE log[v]]
             /\ Finish(q, "ok")
       /\ UNCHANGED <<signedIn, settled>>

\* The user is disabled, or its tokens are revoked.
EndSession(c) ==
    /\ signedIn[c] /\ Cardinality({d \in Clients : ~signedIn[d]}) < MaxLogouts
    /\ signedIn' = [signedIn EXCEPT ![c] = FALSE]
    /\ UNCHANGED <<registry, requests, client, log, settled>>

RegistryNext ==
    \/ \E c \in Clients :
         \/ ReadVersion(c) \/ ReadAbsent(c) \/ ReadPage(c) \/ FinishPage(c)
         \/ Reload(c) \/ Resend(c) \/ Abandon(c) \/ LoseAnswer(c) \/ EndSession(c)
         \/ \E op \in Operations, m \in Models : Begin(c, op, m)
    \/ \E q \in requests : Preflight(q) \/ VerifyBytes(q) \/ Apply(q)

RegistrySpec == RegistryInit /\ [][RegistryNext]_registryVars

(***************************************************************************)
(* Properties.                                                             *)
(***************************************************************************)
\* The snapshot on a dashboard, put together from several statements and several
\* pages while others write, is the registry as it was at the version it shows.
SnapshotWasReal ==
    \A c \in Clients : client[c].snap # Absent =>
        /\ client[c].snap.version \in DOMAIN log
        /\ client[c].snap = log[client[c].snap.version]

\* A mutation that commits changes exactly the registry its user was looking at: no
\* champion is replaced, and no entry promoted or revoked, unseen, however long the
\* bytes were hashed and however often the request was sent.
MutationReplacesWhatWasSeen ==
    [][\A q \in requests : ops'[q.intent.key] # ops[q.intent.key] => q.intent.seen = Snapshot]_registryVars

\* Once a reconciliation found an intent applied or overtaken and gave it up, a
\* request of it that is still on its way can no longer change the registry.
SettledStaysSettled ==
    [][\A k \in settled : ops'[k] = ops[k]]_registryVars

=============================================================================
