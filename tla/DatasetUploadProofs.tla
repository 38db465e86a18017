-------------------------- MODULE DatasetUploadProofs --------------------------
(***************************************************************************)
(* That a dataset which is offered or used keeps its objects, and that a   *)
(* cleaned staging object stays gone, for any number of concurrent         *)
(* requests, generations, keys and faults.                                 *)
(***************************************************************************)
EXTENDS DatasetUpload, DatasetIngestion, FiniteSetTheorems, TLAPS

Deleting == {"deleteObjects", "deleteRow"}
Over == {"completed", "expired", "failed", "gone"}

\* What a request knows: a finalizer owns its session, or the session has expired, or
\* the finalizer itself has completed it; what an owner has published is there; and a
\* deletion covers generations that are over.
ProcOK(p) ==
    /\ pc[p] \in WriterLabels \cup FinalizerLabels \cup {"clean"} => ses[p] \in Gens
    /\ pc[p] \in {"idle", "verify", "prepare"} => pub[p] = {}
    /\ pc[p] = "commit" => pub[p] = Keys
    /\ pc[p] \in {"publish", "commit"} => Outcome(source) # "unusable"
    /\ pc[p] \in FinalizerLabels =>
          \/ Owns(p) /\ (pc[p] \in {"publish", "commit"} => pub[p] \subseteq canon[ses[p]])
          \/ up[ses[p]].st \in {"expired", "gone"}
          \/ up[ses[p]].st = "completed" /\ pc[p] \in {"unstage", "resolve"}
    /\ pc[p] \in Deleting => /\ ses[p] \in Gens \cup {0}
                             /\ \A g \in Gens : g <= ses[p] => up[g].st \in Over

\* A generation starts when the one before has expired.
OrderOK ==
    \A g, h \in Gens : g < h /\ up[h].st # "none" => up[g].st \in {"expired", "gone"}

\* The cleanup of a session starts after its last write could begin and ends after the
\* last one has ended.
CleanOK(g) ==
    /\ up[g].clean # "wait" => \/ up[g].st \in Ended
                               \/ up[g].clean = "due" /\ up[g].st = "pending" /\ up[g].past
    /\ up[g].clean \in {"confirm", "done"} => ~Writing(g)
    /\ up[g].clean = "done" => staging[g] = "none"

\* The dataset is offered as finalized, or an experiment uses its snapshot.
Kept == dataset.st \in {"ready", "decoder_pending"} \/ (referenced /\ dataset.gen # 0)

\* A kept snapshot is complete and out of reach of every deletion that has begun; a
\* dataset without sessions has no snapshot and no deletion.
DataOK ==
    /\ Kept => /\ dataset.gen \in Gens /\ up[dataset.gen].st = "completed"
               /\ canon[dataset.gen] = Keys
               /\ \A p \in Procs : pc[p] \in Deleting => ses[p] < dataset.gen
    /\ dataset.st \in {"absent", "legacy_imported"} =>
          /\ dataset.gen = 0
          /\ \A g \in Gens : up[g].st = "none"
          /\ \A p \in Procs : pc[p] \notin Deleting
    /\ dataset.gen # 0 => (dataset.usable <=> Outcome(source) = "ready")
    /\ referenced => /\ dataset.usable /\ dataset.st # "deleted"
                     /\ dataset.gen = 0 => dataset.st = "legacy_imported"

DatasetInv ==
    /\ TypeOK
    /\ \A p \in Procs : ProcOK(p)
    /\ OrderOK
    /\ \A g \in Gens : CleanOK(g)
    /\ DataOK
-----------------------------------------------------------------------------
(* Types *)

DatasetType == [st : DatasetStatuses, usable : BOOLEAN, gen : Gens \cup {0}]
Bytes == {"none", "good", "bad"}

LEMMA Typed ==
    TypeOK <=> /\ dataset \in DatasetType /\ up \in [Gens -> Rows]
               /\ staging \in [Gens -> Bytes] /\ canon \in [Gens -> SUBSET Keys]
               /\ pc \in [Procs -> Labels] /\ ses \in [Procs -> Gens \cup {0, None}]
               /\ pub \in [Procs -> SUBSET Keys] /\ referenced \in BOOLEAN
               /\ source \in Sources /\ backend \in Backends /\ faults \in 0..MaxFaults
BY DEF TypeOK, DatasetType, Bytes

\* What a move of a request does.
LEMMA Moved ==
    ASSUME TypeOK, NEW p \in Procs, NEW g, NEW label, label # "idle", Goto(p, g, label)
    PROVE  /\ pc'[p] = label /\ ses'[p] = g /\ pub'[p] = pub[p]
           /\ \A q \in Procs \ {p} : pc'[q] = pc[q] /\ ses'[q] = ses[q] /\ pub'[q] = pub[q]
           /\ g \in Gens \cup {0, None} /\ label \in Labels =>
                /\ pc' \in [Procs -> Labels] /\ ses' \in [Procs -> Gens \cup {0, None}]
                /\ pub' \in [Procs -> SUBSET Keys]
BY Typed DEF Goto

LEMMA Stopped ==
    ASSUME TypeOK, NEW p \in Procs, Stop(p)
    PROVE  /\ pc'[p] = "idle" /\ ses'[p] = None /\ pub'[p] = {}
           /\ \A q \in Procs \ {p} : pc'[q] = pc[q] /\ ses'[q] = ses[q] /\ pub'[q] = pub[q]
           /\ pc' \in [Procs -> Labels] /\ ses' \in [Procs -> Gens \cup {0, None}]
           /\ pub' \in [Procs -> SUBSET Keys]
BY Typed DEF Stop, Goto, Labels

\* A row is left without tokens.
LEMMA WithoutRow ==
    ASSUME TypeOK, NEW g \in Gens, NEW st \in Statuses
    PROVE  /\ Without(g, st) \in [Gens -> Rows]
           /\ Without(g, st)[g].st = st /\ Without(g, st)[g].clean = up[g].clean
           /\ Without(g, st)[g].past = (up[g].past /\ st = "pending")
           /\ \A h \in Gens \ {g} : Without(g, st)[h] = up[h]
BY Typed DEF Without, Rows

\* Changes of the dataset's status keep its type.
LEMMA StatusTyped ==
    ASSUME TypeOK, NEW st \in DatasetStatuses, dataset' = [dataset EXCEPT !.st = st]
    PROVE  /\ dataset' \in DatasetType
           /\ dataset'.st = st /\ dataset'.gen = dataset.gen /\ dataset'.usable = dataset.usable
BY Typed DEF DatasetType
-----------------------------------------------------------------------------
(* What every step does to rows, objects and the request that takes it *)

\* How a step of p, or of nobody, may change a session.
RowStep(p, g) ==
    \/ up'[g].st = up[g].st /\ (up[g].st = "finalizing" => up'[g].ftok = up[g].ftok)
    \/ up[g].st \in {"pending", "finalizing"} /\ up'[g].st = "expired"
    \/ up[g].st = "pending" /\ up'[g].st = "finalizing"
    \/ /\ up[g].st = "finalizing" /\ up[g].ftok = p
       /\ up'[g].st \in {"pending", "failed", "completed"}
    \/ Exists(g) /\ up'[g].st = "gone"
    \/ /\ up[g].st = "none" /\ up'[g].st = "pending"
       /\ \A h \in Gens : h < g => up[h].st \in {"expired", "gone"}

\* How it may change the published objects of a generation.
CanonStep(p, g) ==
    \/ canon'[g] = canon[g]
    \/ /\ p \in Procs /\ pc[p] \in FinalizerLabels /\ ses[p] = g
       /\ up[g].st # "completed" /\ up'[g].st # "completed"
    \/ p \in Procs /\ pc[p] = "deleteObjects" /\ g <= ses[p]

\* How it may change what the cleanup relies on.
CleanStep(g) ==
    /\ up'[g].clean = up[g].clean
    /\ up[g].st \in Ended => up'[g].st \in Ended
    /\ up[g].st = "pending" /\ up[g].past => \/ up'[g].st \in Ended
                                             \/ up'[g].st = "pending" /\ up'[g].past
    /\ staging'[g] \in {staging[g], "none"} \/ up[g].clean \notin {"confirm", "done"}

WriterStep(p) ==
    p \in Procs /\ pc'[p] \in WriterLabels =>
        (pc[p] \in WriterLabels /\ ses'[p] = ses[p]) \/ up'[ses'[p]].clean \notin {"confirm", "done"}

OthersStay(p) ==
    \A q \in Procs \ {p} : pc'[q] = pc[q] /\ ses'[q] = ses[q] /\ pub'[q] = pub[q]

Shape(p) ==
    /\ OthersStay(p) /\ UNCHANGED source
    /\ p \in Procs => ProcOK(p)'
    /\ WriterStep(p)
    /\ \A g \in Gens : RowStep(p, g) /\ CanonStep(p, g) /\ (CleanStep(g) \/ CleanOK(g)')

\* Whatever has that shape keeps what requests know, the order of the generations and
\* what the cleanup relies on.
LEMMA ShapeKeeps ==
    ASSUME DatasetInv, NEW p, Shape(p)
    PROVE  (\A q \in Procs : ProcOK(q)') /\ OrderOK' /\ \A g \in Gens : CleanOK(g)'
<1>t. up \in [Gens -> Rows] /\ (\A g \in Gens : g \in Nat)
  BY Typed, DatasetAssumption DEF DatasetInv, Gens
<1>s. \A g \in Gens : RowStep(p, g) /\ CanonStep(p, g)
  BY DEF Shape
<1>1. ASSUME NEW q \in Procs PROVE ProcOK(q)'
  <2>1. CASE q = p
    BY <2>1 DEF Shape
  <2>2. CASE q # p
    <3>1. pc'[q] = pc[q] /\ ses'[q] = ses[q] /\ pub'[q] = pub[q] /\ source' = source
      BY <2>2 DEF Shape, OthersStay
    <3>2. ProcOK(q)
      BY DEF DatasetInv
    <3>3. ASSUME pc[q] \in FinalizerLabels
          PROVE  \/ Owns(q)' /\ (pc[q] \in {"publish", "commit"} => pub[q] \subseteq canon'[ses[q]])
                 \/ up'[ses[q]].st \in {"expired", "gone"}
                 \/ up'[ses[q]].st = "completed" /\ pc[q] \in {"unstage", "resolve"}
      <4> DEFINE g == ses[q]
      <4>0. g \in Gens
        BY <3>2, <3>3 DEF ProcOK
      <4>1. RowStep(p, g) /\ CanonStep(p, g)
        BY <1>s, <4>0
      <4>2. CASE Owns(q)
        <5>1. up[g].st = "finalizing" /\ up[g].ftok = q
          BY <4>2 DEF Owns
        <5>2. (up'[g].st = "finalizing" /\ up'[g].ftok = q) \/ up'[g].st \in {"expired", "gone"}
          BY <2>2, <4>1, <5>1 DEF RowStep
        <5>3. canon'[g] = canon[g]
          <6>1. ~(p \in Procs /\ pc[p] \in FinalizerLabels /\ ses[p] = g)
            <7> SUFFICES ASSUME p \in Procs, pc[p] \in FinalizerLabels, ses[p] = g PROVE FALSE
              OBVIOUS
            <7>1. ProcOK(p)
              BY DEF DatasetInv
            <7>2. up[ses[p]].st = "finalizing" /\ up[ses[p]].ftok # p
              BY <2>2, <5>1
            <7> QED BY <7>1, <7>2 DEF ProcOK, Owns
          <6>2. ~(p \in Procs /\ pc[p] = "deleteObjects" /\ g <= ses[p])
            <7> SUFFICES ASSUME p \in Procs, pc[p] = "deleteObjects", g <= ses[p] PROVE FALSE
              OBVIOUS
            <7>1. ProcOK(p)
              BY DEF DatasetInv
            <7>2. up[g].st \in Over
              BY <4>0, <7>1 DEF ProcOK, Deleting
            <7> QED BY <5>1, <7>2 DEF Over
          <6> QED BY <4>1, <6>1, <6>2 DEF CanonStep
        <5>4. pc[q] \in {"publish", "commit"} => pub[q] \subseteq canon[g]
          BY <3>2, <3>3, <5>1 DEF ProcOK
        <5> QED BY <3>1, <5>2, <5>3, <5>4 DEF Owns
      <4>3. CASE ~Owns(q)
        <5>1. \/ up[g].st \in {"expired", "gone"}
              \/ up[g].st = "completed" /\ pc[q] \in {"unstage", "resolve"}
          BY <3>2, <3>3, <4>3 DEF ProcOK
        <5> QED BY <4>1, <5>1 DEF RowStep
      <4> QED BY <4>2, <4>3
    <3>4. ASSUME pc[q] \in Deleting
          PROVE  ses[q] \in Gens \cup {0} /\ \A g \in Gens : g <= ses[q] => up'[g].st \in Over
      BY <1>s, <3>2, <3>4 DEF ProcOK, RowStep, Over
    <3> QED BY <3>1, <3>2, <3>3, <3>4 DEF ProcOK, Owns
  <2> QED BY <2>1, <2>2
<1>2. OrderOK'
  <2> SUFFICES ASSUME NEW g \in Gens, NEW h \in Gens, g < h, up'[h].st # "none"
               PROVE  up'[g].st \in {"expired", "gone"}
    BY DEF OrderOK
  <2>1. up[g].st \in {"expired", "gone"}
    <3>1. CASE up[h].st # "none"
      BY <3>1 DEF DatasetInv, OrderOK
    <3>2. CASE up[h].st = "none"
      BY <1>s, <3>2 DEF RowStep, Exists
    <3> QED BY <3>1, <3>2
  <2> QED BY <1>s, <2>1 DEF RowStep, Exists
<1>3. ASSUME NEW g \in Gens PROVE CleanOK(g)'
  <2>1. CASE CleanOK(g)'
    BY <2>1
  <2>2. CASE CleanStep(g)
    <3>0. CleanOK(g)
      BY DEF DatasetInv
    <3>1. up'[g].clean = up[g].clean
      BY <2>2 DEF CleanStep
    <3>2. up'[g].clean # "wait" => \/ up'[g].st \in Ended
                                   \/ up'[g].clean = "due" /\ up'[g].st = "pending" /\ up'[g].past
      BY <2>2, <3>0 DEF CleanStep, CleanOK
    <3>3. up'[g].clean \in {"confirm", "done"} => ~Writing(g)'
      <4> SUFFICES ASSUME up'[g].clean \in {"confirm", "done"}, NEW q \in Procs,
                          ses'[q] = g, pc'[q] \in WriterLabels
                   PROVE  FALSE
        BY DEF Writing
      <4>1. ~Writing(g)
        BY <3>0, <3>1 DEF CleanOK
      <4>2. CASE q = p
        BY <4>1, <4>2 DEF Shape, WriterStep, Writing
      <4>3. CASE q # p
        BY <4>1, <4>3 DEF Shape, OthersStay, Writing
      <4> QED BY <4>2, <4>3
    <3>4. up'[g].clean = "done" => staging'[g] = "none"
      BY <2>2, <3>0, <3>1 DEF CleanStep, CleanOK
    <3> QED BY <3>2, <3>3, <3>4 DEF CleanOK
  <2> QED BY <2>1, <2>2 DEF Shape
<1> QED BY <1>1, <1>2, <1>3

\* How most steps may change the dataset.
DataStep(p) ==
    /\ dataset'.gen = dataset.gen /\ dataset'.usable = dataset.usable /\ UNCHANGED referenced
    /\ \/ dataset'.st = dataset.st
       \/ /\ dataset'.st \in {"upload_pending", "processing", "failed", "deleting", "delete_failed"}
          /\ dataset.st \notin {"absent", "legacy_imported"} \/ ~referenced
       \/ dataset'.st = "deleted" /\ ~referenced
    /\ \A g \in Gens : \/ up[g].st = "completed" => up'[g].st = "completed"
                       \/ dataset'.st = "deleted" /\ ~referenced
    /\ dataset'.st \in {"absent", "legacy_imported"} =>
          \A g \in Gens : up[g].st = "none" => up'[g].st = "none"
    /\ p \in Procs /\ pc'[p] \in Deleting =>
          (pc[p] \in Deleting /\ ses'[p] = ses[p]) \/ (dataset'.st = "deleting" /\ ~referenced)

LEMMA DataKeeps ==
    ASSUME DatasetInv, NEW p, Shape(p), DataStep(p)
    PROVE  DataOK'
<1>t. dataset \in DatasetType /\ (\A g \in Gens : g \in Nat)
  BY Typed, DatasetAssumption DEF DatasetInv, Gens
<1>d. DataOK /\ source' = source
  BY DEF DatasetInv, Shape
<1>1. Kept' => Kept
  BY DEF Kept, DataStep
<1>2. ASSUME Kept'
      PROVE  /\ dataset'.gen \in Gens /\ up'[dataset'.gen].st = "completed"
             /\ canon'[dataset'.gen] = Keys
             /\ \A q \in Procs : pc'[q] \in Deleting => ses'[q] < dataset'.gen
  <2> DEFINE g == dataset.gen
  <2>1. /\ g \in Gens /\ up[g].st = "completed" /\ canon[g] = Keys
        /\ \A q \in Procs : pc[q] \in Deleting => ses[q] < g
    BY <1>d, <1>1, <1>2 DEF DataOK
  <2>2. dataset'.gen = g /\ ~(dataset'.st \in {"deleted", "deleting"} /\ ~referenced)
    BY <1>2 DEF DataStep, Kept
  <2>3. up'[g].st = "completed"
    BY <2>1, <2>2 DEF DataStep
  <2>4. canon'[g] = canon[g]
    <3>1. CanonStep(p, g)
      BY <2>1 DEF Shape
    <3>2. ~(p \in Procs /\ pc[p] = "deleteObjects" /\ g <= ses[p])
      <4> SUFFICES ASSUME p \in Procs, pc[p] = "deleteObjects", g <= ses[p] PROVE FALSE
        OBVIOUS
      <4>1. ses[p] < g /\ ses[p] \in Gens \cup {0}
        BY <2>1 DEF DatasetInv, ProcOK, Deleting
      <4> QED BY <1>t, <2>1, <4>1
    <3> QED BY <2>1, <3>1, <3>2 DEF CanonStep
  <2>5. ASSUME NEW q \in Procs, pc'[q] \in Deleting PROVE ses'[q] < g
    <3>1. CASE q = p
      BY <2>1, <2>2, <2>5, <3>1 DEF DataStep
    <3>2. CASE q # p
      BY <2>1, <2>5, <3>2 DEF Shape, OthersStay
    <3> QED BY <3>1, <3>2
  <2> QED BY <2>1, <2>2, <2>3, <2>4, <2>5
<1>3. ASSUME dataset'.st \in {"absent", "legacy_imported"}
      PROVE  /\ dataset'.gen = 0 /\ \A g \in Gens : up'[g].st = "none"
             /\ \A q \in Procs : pc'[q] \notin Deleting
  <2>1. dataset'.st = dataset.st
    BY <1>3 DEF DataStep
  <2>2. /\ dataset.gen = 0 /\ \A g \in Gens : up[g].st = "none"
        /\ \A q \in Procs : pc[q] \notin Deleting
    BY <1>3, <1>d, <2>1 DEF DataOK
  <2>3. \A g \in Gens : up'[g].st = "none"
    BY <1>3, <2>2 DEF DataStep
  <2>4. ASSUME NEW q \in Procs PROVE pc'[q] \notin Deleting
    <3>1. CASE q = p
      BY <1>3, <2>2, <3>1 DEF DataStep
    <3>2. CASE q # p
      BY <2>2, <3>2 DEF Shape, OthersStay
    <3> QED BY <3>1, <3>2
  <2> QED BY <2>2, <2>3, <2>4 DEF DataStep
<1>4. dataset'.gen # 0 => (dataset'.usable <=> Outcome(source') = "ready")
  BY <1>d DEF DataOK, DataStep
<1>5. referenced' => /\ dataset'.usable /\ dataset'.st # "deleted"
                     /\ dataset'.gen = 0 => dataset'.st = "legacy_imported"
  BY <1>d DEF DataOK, DataStep
<1> QED BY <1>2, <1>3, <1>4, <1>5 DEF DataOK
-----------------------------------------------------------------------------
(* Why the steps have that shape *)

\* A session that a step leaves alone.
LEMMA SameRow ==
    ASSUME NEW p, NEW g, up'[g] = up[g]
    PROVE  /\ RowStep(p, g)
           /\ staging'[g] \in {staging[g], "none"} \/ up[g].clean \notin {"confirm", "done"} => CleanStep(g)
BY DEF RowStep, CleanStep

\* A session whose fields other than the status, the finalizer and the cleanup change.
LEMMA SameStatus ==
    ASSUME NEW p, NEW g, up'[g].st = up[g].st, up'[g].ftok = up[g].ftok,
           up'[g].clean = up[g].clean, up[g].past => up'[g].past, staging'[g] = staging[g]
    PROVE  RowStep(p, g) /\ CleanStep(g)
BY DEF RowStep, CleanStep

\* A request that has ended, or that writes or cleans.
LEMMA SimpleProc ==
    ASSUME NEW p \in Procs,
           \/ pc'[p] = "idle" /\ pub'[p] = {}
           \/ pc'[p] \in WriterLabels \cup {"clean"} /\ ses'[p] \in Gens
    PROVE  ProcOK(p)'
<1> QED BY DEF ProcOK, WriterLabels, FinalizerLabels, Deleting

\* A finalizer that goes on to take back, to settle or to look.
LEMMA FinalizerProc ==
    ASSUME NEW p \in Procs, ProcOK(p), pc[p] \in FinalizerLabels \ {"unstage", "resolve"},
           ses'[p] = ses[p], up' = up,
           pc'[p] \in {"undo", "settle", "settleFailed", "resolve", "lost"}
    PROVE  ProcOK(p)'
BY DEF ProcOK, Owns, WriterLabels, FinalizerLabels, Deleting

\* A dataset with a session is neither absent nor imported.
LEMMA HasSession ==
    ASSUME DatasetInv, NEW g \in Gens, up[g].st # "none"
    PROVE  dataset.st \notin {"absent", "legacy_imported"}
BY DEF DatasetInv, DataOK

\* A step of that shape keeps the invariant.
LEMMA ShapeSuffices ==
    ASSUME DatasetInv, NEW p, TypeOK', Shape(p), DataStep(p) \/ DataOK'
    PROVE  DatasetInv'
<1>1. (\A q \in Procs : ProcOK(q)') /\ OrderOK' /\ \A g \in Gens : CleanOK(g)'
  BY ShapeKeeps
<1>2. DataOK'
  BY DataKeeps
<1> QED BY <1>1, <1>2 DEF DatasetInv

\* The end of a session, whoever ends it.
LEMMA EndStep ==
    ASSUME DatasetInv, NEW g \in Gens, NEW p, up' = End(g),
           up[g].st \in {"pending", "finalizing"}, staging' = staging,
           dataset' = Reopened \/ dataset' = dataset
    PROVE  /\ up' \in [Gens -> Rows] /\ dataset' \in DatasetType
           /\ \A h \in Gens : RowStep(p, h) /\ CleanStep(h)
           /\ \A h \in Gens : up'[h].st = up[h].st \/ (h = g /\ up'[h].st = "expired")
           /\ dataset'.gen = dataset.gen /\ dataset'.usable = dataset.usable
           /\ \/ dataset'.st = dataset.st
              \/ dataset'.st = "upload_pending" /\ dataset.st \notin {"absent", "legacy_imported"}
<1>t. TypeOK
  BY DEF DatasetInv
<1>1. /\ up' \in [Gens -> Rows] /\ up'[g].st = "expired" /\ up'[g].clean = up[g].clean
      /\ \A h \in Gens \ {g} : up'[h] = up[h]
  BY <1>t, WithoutRow DEF End, Statuses
<1>2. RowStep(p, g) /\ CleanStep(g)
  BY <1>1 DEF RowStep, CleanStep, Ended
<1>3. ASSUME NEW h \in Gens \ {g} PROVE RowStep(p, h) /\ CleanStep(h)
  BY <1>1, SameRow
<1>4. dataset.st \notin {"absent", "legacy_imported"}
  BY HasSession
<1>5. dataset \in DatasetType /\ "upload_pending" \in DatasetStatuses
  BY <1>t, Typed DEF DatasetStatuses
<1>6. /\ dataset' \in DatasetType /\ dataset'.gen = dataset.gen /\ dataset'.usable = dataset.usable
      /\ dataset'.st = dataset.st \/ dataset'.st = "upload_pending"
  BY <1>t, <1>5, StatusTyped DEF Reopened
<1> QED BY <1>1, <1>2, <1>3, <1>4, <1>6

\* A failed finalization settles, for the owner or for nobody.
LEMMA FailureStep ==
    ASSUME DatasetInv, NEW p \in Procs, pc[p] \in FinalizerLabels, NEW retryable,
           SetUploadFailure(p, retryable),
           \A h \in Gens : staging'[h] \in {staging[h], "none"}
    PROVE  /\ up' \in [Gens -> Rows] /\ dataset' \in DatasetType
           /\ \A h \in Gens : RowStep(p, h) /\ CleanStep(h)
           /\ \A h \in Gens : up'[h].st # "completed" <=> up[h].st # "completed"
           /\ \A h \in Gens : up'[h].st = "none" <=> up[h].st = "none"
           /\ dataset'.gen = dataset.gen /\ dataset'.usable = dataset.usable
           /\ \/ dataset'.st = dataset.st
              \/ /\ dataset'.st \in {"upload_pending", "failed"}
                 /\ dataset.st \notin {"absent", "legacy_imported"}
<1>t. TypeOK /\ up \in [Gens -> Rows] /\ dataset \in DatasetType
  BY Typed DEF DatasetInv
<1>1. CASE ~Owns(p)
  <2>1. up' = up /\ dataset' = dataset
    BY <1>1 DEF SetUploadFailure, rows
  <2>2. ASSUME NEW h \in Gens PROVE RowStep(p, h) /\ CleanStep(h)
    BY <2>1, SameRow
  <2> QED BY <1>t, <2>1, <2>2
<1>2. CASE Owns(p)
  <2> DEFINE g == ses[p]
             st == IF retryable THEN "pending" ELSE "failed"
             ds == IF retryable THEN "upload_pending" ELSE "failed"
  <2>1. g \in Gens /\ up[g].st = "finalizing" /\ up[g].ftok = p
    BY <1>2 DEF DatasetInv, ProcOK, Owns
  <2>2. st \in {"pending", "failed"} /\ st \in Statuses /\ ds \in {"upload_pending", "failed"}
        /\ ds \in DatasetStatuses
    BY DEF Statuses, DatasetStatuses
  <2>3. up' = Without(g, st) /\ dataset' = [dataset EXCEPT !.st = ds]
    BY <1>2 DEF SetUploadFailure
  <2> HIDE DEF g, st, ds
  <2>4. /\ up' \in [Gens -> Rows] /\ up'[g].st = st /\ up'[g].clean = up[g].clean
        /\ \A h \in Gens \ {g} : up'[h] = up[h]
    BY <1>t, <2>1, <2>2, <2>3, WithoutRow
  <2>5. RowStep(p, g) /\ CleanStep(g)
    BY <2>1, <2>2, <2>4 DEF RowStep, CleanStep, Ended
  <2>6. ASSUME NEW h \in Gens \ {g} PROVE RowStep(p, h) /\ CleanStep(h)
    BY <2>4, SameRow
  <2>7. /\ dataset' \in DatasetType /\ dataset'.st = ds /\ dataset'.gen = dataset.gen
        /\ dataset'.usable = dataset.usable
    BY <1>t, <2>2, <2>3, StatusTyped
  <2>8. dataset.st \notin {"absent", "legacy_imported"}
    BY <2>1, HasSession
  <2> QED BY <2>1, <2>2, <2>4, <2>5, <2>6, <2>7, <2>8
<1> QED BY <1>1, <1>2

\* What a request takes back is what it published in its own generation.
LEMMA RemovedStep ==
    ASSUME TypeOK, NEW p \in Procs, NEW g \in Gens, Removed(p, g)
    PROVE  /\ canon' \in [Gens -> SUBSET Keys] /\ faults' \in 0..MaxFaults
           /\ \A h \in Gens \ {g} : canon'[h] = canon[h]
<1>1. canon \in [Gens -> SUBSET Keys] /\ faults \in 0..MaxFaults /\ MaxFaults \in Nat
  BY Typed, DatasetAssumption
<1> QED BY <1>1 DEF Removed, Fault

\* A fault is counted.
LEMMA FaultTyped == ASSUME TypeOK, Fault PROVE faults' \in 0..MaxFaults
BY Typed, DatasetAssumption DEF Fault
-----------------------------------------------------------------------------
(* The steps *)

\* Steps that belong to no request.
LEMMA SessionSteps ==
    ASSUME DatasetInv, NEW g \in Gens, InitUpload(g) \/ Recover(g) \/ S3Put(g)
    PROVE  DatasetInv'
<1>t. /\ TypeOK /\ up \in [Gens -> Rows] /\ dataset \in DatasetType
      /\ staging \in [Gens -> Bytes] /\ canon \in [Gens -> SUBSET Keys]
      /\ None \notin Procs /\ (\A h \in Gens : h \in Nat)
  BY Typed, DatasetAssumption DEF DatasetInv, Gens
<1>u. /\ UNCHANGED <<procs, referenced, setting, faults>> /\ canon' = canon
      /\ OthersStay(None) /\ WriterStep(None) /\ (\A h \in Gens : CanonStep(None, h))
  BY <1>t DEF InitUpload, Recover, RecoverStaleFinalizing, ExpireUpload, FenceStaleWriter, S3Put,
          objects, procs, OthersStay, WriterStep, CanonStep
<1>q. ASSUME dataset' \in DatasetType, up' \in [Gens -> Rows], staging' \in [Gens -> Bytes],
             \A h \in Gens : RowStep(None, h) /\ CleanStep(h),
             DataStep(None)
      PROVE  DatasetInv'
  <2>1. TypeOK'
    BY <1>t, <1>u, <1>q DEF TypeOK, DatasetType, Bytes, procs, setting
  <2>2. Shape(None)
    BY <1>t, <1>u, <1>q DEF Shape, setting
  <2> QED BY <1>q, <2>1, <2>2, ShapeSuffices
<1>1. CASE InitUpload(g)
  <2>1. /\ up[g].st = "none" /\ up' = [up EXCEPT ![g] = NewRow] /\ staging' = staging
        /\ g # 1 => up[g - 1].st = "expired" /\ dataset' = dataset
        /\ g = 1 => dataset.st = "absent" /\ dataset' = [dataset EXCEPT !.st = "upload_pending"]
    BY <1>1 DEF InitUpload, objects
  <2>2. NewRow \in Rows /\ NewRow.st = "pending" /\ NewRow.clean = "wait"
    BY DEF NewRow, NoRow, Rows, Statuses, Phases
  <2>3. /\ up' \in [Gens -> Rows] /\ up'[g].st = "pending" /\ up'[g].clean = "wait"
        /\ \A h \in Gens \ {g} : up'[h] = up[h]
    BY <1>t, <2>1, <2>2
  <2>4. \A h \in Gens : h < g => up[h].st \in {"expired", "gone"}
    <3> SUFFICES ASSUME NEW h \in Gens, h < g PROVE up[h].st \in {"expired", "gone"}
      OBVIOUS
    <3>1. g # 1 /\ g - 1 \in Gens /\ (h = g - 1 \/ h < g - 1)
      BY DatasetAssumption DEF Gens
    <3>2. up[g - 1].st = "expired"
      BY <2>1, <3>1
    <3> QED BY <3>1, <3>2 DEF DatasetInv, OrderOK
  <2>5. up[g].clean = "wait"
    BY <2>1 DEF DatasetInv, CleanOK, Ended
  <2>6. ASSUME NEW h \in Gens PROVE RowStep(None, h) /\ CleanStep(h)
    <3>1. CASE h = g
      BY <2>1, <2>3, <2>4, <2>5, <3>1 DEF RowStep, CleanStep, Ended
    <3>2. CASE h # g
      BY <2>1, <2>3, <3>2, SameRow
    <3> QED BY <3>1, <3>2
  <2>7. dataset' \in DatasetType /\ DataStep(None)
    <3>1. CASE g = 1
      <4>1. "upload_pending" \in DatasetStatuses
        BY DEF DatasetStatuses
      <4>2. dataset' \in DatasetType /\ dataset'.st = "upload_pending"
            /\ dataset'.gen = dataset.gen /\ dataset'.usable = dataset.usable
        BY <1>t, <2>1, <3>1, <4>1, StatusTyped
      <4>3. ~referenced
        BY <2>1, <3>1 DEF DatasetInv, DataOK
      <4>4. \A h \in Gens : up[h].st # "completed"
        BY <2>1, <3>1 DEF DatasetInv, DataOK
      <4> QED BY <1>t, <1>u, <4>2, <4>3, <4>4 DEF DataStep
    <3>2. CASE g # 1
      <4>1. up[g - 1].st # "none" /\ g - 1 \in Gens
        BY <2>1, <3>2, DatasetAssumption DEF Gens
      <4>2. dataset.st \notin {"absent", "legacy_imported"}
        BY <4>1, HasSession
      <4> QED BY <1>t, <1>u, <2>1, <2>3, <3>2, <4>2 DEF DataStep
    <3> QED BY <3>1, <3>2
  <2> QED BY <1>q, <1>t, <2>1, <2>3, <2>6, <2>7
<1>2. CASE Recover(g)
  <2>1. /\ up' = End(g) /\ dataset' = Reopened /\ staging' = staging
        /\ up[g].st \in {"pending", "finalizing"}
    BY <1>2 DEF Recover, RecoverStaleFinalizing, ExpireUpload, FenceStaleWriter, objects
  <2>2. /\ up' \in [Gens -> Rows] /\ dataset' \in DatasetType
        /\ \A h \in Gens : RowStep(None, h) /\ CleanStep(h)
        /\ \A h \in Gens : up'[h].st = up[h].st \/ (h = g /\ up'[h].st = "expired")
        /\ dataset'.gen = dataset.gen /\ dataset'.usable = dataset.usable
        /\ \/ dataset'.st = dataset.st
           \/ dataset'.st = "upload_pending" /\ dataset.st \notin {"absent", "legacy_imported"}
    BY <2>1, EndStep
  <2>3. DataStep(None)
    BY <1>t, <1>u, <2>1, <2>2 DEF DataStep
  <2> QED BY <1>q, <1>t, <2>1, <2>2, <2>3
<1>3. CASE S3Put(g)
  <2>1. /\ up' = up /\ dataset' = dataset /\ up[g].clean \notin {"confirm", "done"}
        /\ staging' \in [Gens -> Bytes] /\ \A h \in Gens \ {g} : staging'[h] = staging[h]
    BY <1>3, <1>t DEF S3Put, rows, Bytes
  <2>2. ASSUME NEW h \in Gens PROVE RowStep(None, h) /\ CleanStep(h)
    BY <2>1, SameRow
  <2>3. DataStep(None)
    BY <1>t, <1>u, <2>1 DEF DataStep
  <2> QED BY <1>q, <1>t, <2>1, <2>2, <2>3
<1> QED BY <1>1, <1>2, <1>3

\* The dataset is imported, or an experiment takes it.
LEMMA DatasetSteps ==
    ASSUME DatasetInv, LegacyImport \/ CreateExperiment
    PROVE  DatasetInv'
<1>t. TypeOK /\ dataset \in DatasetType /\ None \notin Procs
  BY Typed, DatasetAssumption DEF DatasetInv
<1>u. up' = up /\ UNCHANGED <<objects, procs, setting, faults>>
  BY DEF LegacyImport, CreateExperiment, rows
<1>s. Shape(None)
  <2>1. ASSUME NEW h \in Gens PROVE RowStep(None, h) /\ CleanStep(h) /\ CanonStep(None, h)
    BY <1>u, SameRow DEF objects, CanonStep
  <2> QED BY <1>t, <1>u, <2>1 DEF Shape, procs, setting, OthersStay, WriterStep
<1>1. CASE LegacyImport
  <2>1. PICK u \in BOOLEAN : dataset' = [dataset EXCEPT !.st = "legacy_imported", !.usable = u]
    BY <1>1 DEF LegacyImport
  <2>2. dataset.st = "absent" /\ referenced' = referenced
    BY <1>1 DEF LegacyImport
  <2>3. /\ dataset' \in DatasetType /\ dataset'.st = "legacy_imported" /\ dataset'.gen = dataset.gen
    BY <1>t, <2>1 DEF DatasetType, DatasetStatuses
  <2>4. /\ dataset.gen = 0 /\ (\A g \in Gens : up[g].st = "none")
        /\ (\A p \in Procs : pc[p] \notin Deleting) /\ ~referenced
    BY <2>2 DEF DatasetInv, DataOK
  <2>5. DataOK'
    BY <1>u, <2>2, <2>3, <2>4 DEF DataOK, Kept, procs
  <2>6. TypeOK'
    BY <1>t, <1>u, <2>2, <2>3 DEF TypeOK, DatasetType, objects, procs, setting
  <2> QED BY <1>s, <2>5, <2>6, ShapeSuffices
<1>2. CASE CreateExperiment
  <2>1. /\ dataset' = dataset /\ referenced' = TRUE /\ dataset.usable
        /\ dataset.st \in {"ready", "legacy_imported"}
    BY <1>2 DEF CreateExperiment, rows
  <2>2. DataOK
    BY DEF DatasetInv
  <2>3. dataset.st = "legacy_imported" => dataset.gen = 0
    BY <2>2 DEF DataOK
  <2>4. Kept' <=> Kept
    BY <2>1, <2>3 DEF Kept
  <2>5. dataset.st = "ready" => dataset.gen # 0
    BY <2>2, DatasetAssumption DEF DataOK, Kept, Gens
  <2>6. DataOK'
    BY <1>u, <2>1, <2>2, <2>4, <2>5 DEF DataOK, objects, procs, setting
  <2>7. TypeOK'
    BY <1>t, <1>u, <2>1 DEF TypeOK, objects, procs, setting
  <2> QED BY <1>s, <2>6, <2>7, ShapeSuffices
<1> QED BY <1>1, <1>2

\* Time passes.
LEMMA TimeSteps ==
    ASSUME DatasetInv,
           \/ \E g \in Gens : Pass(g) \/ Stale(g) \/ Grace(g)
           \/ \E p \in Procs : Heartbeat(p)
    PROVE  DatasetInv'
<1>t. /\ TypeOK /\ up \in [Gens -> Rows] /\ faults \in 0..MaxFaults /\ None \notin Procs
  BY Typed, DatasetAssumption DEF DatasetInv
<1>u. UNCHANGED <<dataset, objects, procs, referenced, setting>>
  BY DEF Pass, Stale, Grace, Heartbeat
<1>q. ASSUME up' \in [Gens -> Rows], faults' \in 0..MaxFaults,
             \A h \in Gens : RowStep(None, h) /\ (CleanStep(h) \/ CleanOK(h)'),
             \A h \in Gens : up'[h].st = up[h].st
      PROVE  DatasetInv'
  <2>1. TypeOK'
    BY <1>t, <1>u, <1>q DEF TypeOK, objects, procs, setting
  <2>2. Shape(None)
    BY <1>t, <1>u, <1>q DEF Shape, OthersStay, WriterStep, CanonStep, objects, procs, setting
  <2>3. DataStep(None)
    BY <1>t, <1>u, <1>q DEF DataStep
  <2> QED BY <2>1, <2>2, <2>3, ShapeSuffices
<1>s. staging' = staging
  BY <1>u DEF objects
<1>1. ASSUME NEW g \in Gens, Pass(g) PROVE DatasetInv'
  <2>1. /\ up' \in [Gens -> Rows] /\ faults' = faults
        /\ \A h \in Gens \ {g} : up'[h] = up[h]
        /\ up'[g].st = up[g].st /\ up'[g].ftok = up[g].ftok /\ up'[g].clean = up[g].clean
        /\ up'[g].past
    BY <1>1, <1>t DEF Pass, Rows
  <2>2. ASSUME NEW h \in Gens PROVE RowStep(None, h) /\ CleanStep(h) /\ up'[h].st = up[h].st
    BY <1>s, <2>1, SameStatus
  <2> QED BY <1>q, <1>t, <2>1, <2>2
<1>2. ASSUME NEW g \in Gens, Stale(g) PROVE DatasetInv'
  <2>1. /\ up' \in [Gens -> Rows]
        /\ \A h \in Gens \ {g} : up'[h] = up[h]
        /\ up'[g].st = up[g].st /\ up'[g].ftok = up[g].ftok /\ up'[g].clean = up[g].clean
        /\ up'[g].past = up[g].past
    BY <1>2, <1>t DEF Stale, Rows
  <2>2. faults' \in 0..MaxFaults
    BY <1>2, <1>t, FaultTyped DEF Stale
  <2>3. ASSUME NEW h \in Gens PROVE RowStep(None, h) /\ CleanStep(h) /\ up'[h].st = up[h].st
    BY <1>s, <2>1, SameStatus
  <2> QED BY <1>q, <2>1, <2>2, <2>3
<1>3. ASSUME NEW g \in Gens, Grace(g) PROVE DatasetInv'
  <2>1. faults' = faults
    BY <1>3 DEF Grace
  <2>c. CleanOK(g)
    BY DEF DatasetInv
  <2>2. PICK phase \in {"due", "confirm"} :
           /\ up' = [up EXCEPT ![g].clean = phase]
           /\ phase = "due" => \/ up[g].st \in Ended
                               \/ up[g].st = "pending" /\ up[g].past
           /\ phase = "confirm" => up[g].clean = "first" /\ ~Writing(g)
    BY <1>3 DEF Grace
  <2>3. /\ up' \in [Gens -> Rows]
        /\ \A h \in Gens \ {g} : up'[h] = up[h]
        /\ up'[g].st = up[g].st /\ up'[g].ftok = up[g].ftok /\ up'[g].clean = phase
        /\ up'[g].past = up[g].past
    BY <1>t, <2>2 DEF Rows, Phases
  <2>4. Writing(g)' <=> Writing(g)
    BY <1>u DEF Writing, procs
  <2>5. CleanOK(g)'
    BY <2>2, <2>3, <2>4, <2>c DEF CleanOK, Ended
  <2>6. RowStep(None, g)
    BY <2>3 DEF RowStep
  <2>7. ASSUME NEW h \in Gens \ {g} PROVE RowStep(None, h) /\ CleanStep(h)
    BY <1>s, <2>3, SameRow
  <2> QED BY <1>q, <1>t, <2>1, <2>3, <2>5, <2>6, <2>7
<1>4. ASSUME NEW p \in Procs, Heartbeat(p) PROVE DatasetInv'
  <2>0. faults' = faults /\ ses[p] \in Gens
    BY <1>4 DEF Heartbeat, DatasetInv, ProcOK, WriterLabels, FinalizerLabels
  <2>1. /\ up' \in [Gens -> Rows]
        /\ \A h \in Gens : /\ up'[h].st = up[h].st /\ up'[h].ftok = up[h].ftok
                           /\ up'[h].clean = up[h].clean /\ up'[h].past = up[h].past
    <3>1. up' = [up EXCEPT ![ses[p]].stale = FALSE]
      BY <1>4 DEF Heartbeat
    <3> QED BY ZenonT(40), <1>t, <2>0, <3>1 DEF Rows
  <2>2. ASSUME NEW h \in Gens PROVE RowStep(None, h) /\ CleanStep(h)
    BY <1>s, <2>1, SameStatus
  <2> QED BY <1>q, <1>t, <2>0, <2>1, <2>2
<1> QED BY <1>1, <1>2, <1>3, <1>4

\* A request claims a session, writes, or ends without touching a row.
LEMMA WriterSteps ==
    ASSUME DatasetInv, NEW p \in Procs,
           \/ \E g \in Gens : ClaimWrite(p, g)
           \/ Write(p) \/ WriteFails(p) \/ Wrote(p) \/ WriteTimesOut(p) \/ Unwrite(p) \/ Unstage(p)
           \/ Crash(p)
    PROVE  DatasetInv'
<1>t. /\ TypeOK /\ up \in [Gens -> Rows] /\ faults \in 0..MaxFaults /\ dataset \in DatasetType
      /\ staging \in [Gens -> Bytes]
  BY Typed DEF DatasetInv
<1>u. UNCHANGED <<canon, referenced, setting>>
  BY DEF ClaimWrite, Write, WriteFails, Wrote, WriteTimesOut, Unwrite, Unstage, Crash, objects
<1>p. pc[p] \in WriterLabels \cup {"unstage"} => ses[p] \in Gens
  BY DEF DatasetInv, ProcOK, FinalizerLabels
<1>q. ASSUME up' \in [Gens -> Rows], staging' \in [Gens -> Bytes], dataset' \in DatasetType,
             faults' \in 0..MaxFaults,
             \/ Stop(p)
             \/ \E g \in Gens, label \in WriterLabels :
                   /\ Goto(p, g, label)
                   /\ (pc[p] \in WriterLabels /\ g = ses[p]) \/ up'[g].clean \notin {"confirm", "done"},
             \A h \in Gens : RowStep(p, h) /\ CleanStep(h),
             \A h \in Gens : /\ up[h].st = "completed" => up'[h].st = "completed"
                             /\ up[h].st = "none" => up'[h].st = "none",
             dataset'.gen = dataset.gen /\ dataset'.usable = dataset.usable,
             \/ dataset'.st = dataset.st
             \/ dataset'.st = "upload_pending" /\ dataset.st \notin {"absent", "legacy_imported"}
      PROVE  DatasetInv'
  <2>1. /\ OthersStay(p) /\ WriterStep(p) /\ ProcOK(p)' /\ pc'[p] \notin Deleting
        /\ pc' \in [Procs -> Labels] /\ ses' \in [Procs -> Gens \cup {0, None}]
        /\ pub' \in [Procs -> SUBSET Keys]
    <3>1. CASE Stop(p)
      BY <1>t, <3>1, Stopped, SimpleProc DEF OthersStay, WriterStep, WriterLabels, Deleting
    <3>2. ASSUME NEW g \in Gens, NEW label \in WriterLabels, Goto(p, g, label),
                 (pc[p] \in WriterLabels /\ g = ses[p]) \/ up'[g].clean \notin {"confirm", "done"}
          PROVE  /\ OthersStay(p) /\ WriterStep(p) /\ ProcOK(p)' /\ pc'[p] \notin Deleting
                 /\ pc' \in [Procs -> Labels] /\ ses' \in [Procs -> Gens \cup {0, None}]
                 /\ pub' \in [Procs -> SUBSET Keys]
      <4>1. label # "idle" /\ label \in Labels /\ label \notin Deleting
        BY DEF WriterLabels, Labels, Deleting
      <4>2. /\ pc'[p] = label /\ ses'[p] = g /\ OthersStay(p)
            /\ pc' \in [Procs -> Labels] /\ ses' \in [Procs -> Gens \cup {0, None}]
            /\ pub' \in [Procs -> SUBSET Keys]
        BY <1>t, <3>2, <4>1, Moved DEF OthersStay
      <4>3. ProcOK(p)'
        BY <4>2, SimpleProc
      <4> QED BY <3>2, <4>1, <4>2, <4>3 DEF WriterStep
    <3> QED BY <1>q, <3>1, <3>2
  <2>2. TypeOK'
    BY <1>t, <1>u, <1>q, <2>1 DEF TypeOK, DatasetType, Bytes, setting
  <2>3. Shape(p)
    BY <1>u, <1>q, <2>1 DEF Shape, CanonStep, setting
  <2>4. DataStep(p)
    BY <1>q, <1>u, <2>1 DEF DataStep
  <2> QED BY <2>2, <2>3, <2>4, ShapeSuffices
<1>w. {"write", "wrote", "unwrite"} \subseteq WriterLabels
  BY DEF WriterLabels
<1>1. ASSUME NEW g \in Gens, ClaimWrite(p, g) PROVE DatasetInv'
  <2>1. dataset' = dataset /\ staging' = staging /\ faults' = faults /\ Goto(p, g, "write")
    BY <1>1 DEF ClaimWrite, objects
  <2>2. /\ up' \in [Gens -> Rows]
        /\ \A h \in Gens : /\ up'[h].st = up[h].st /\ up'[h].ftok = up[h].ftok
                           /\ up'[h].clean = up[h].clean /\ up'[h].past = up[h].past
    BY <1>1, <1>t DEF ClaimWrite, Rows
  <2>3. ASSUME NEW h \in Gens PROVE RowStep(p, h) /\ CleanStep(h)
    BY <2>1, <2>2, SameStatus
  <2>4. up[g].st = "pending" /\ ~up[g].past
    BY <1>1 DEF ClaimWrite
  <2>5. up'[g].clean \notin {"confirm", "done"}
    BY <2>2, <2>4 DEF DatasetInv, CleanOK, Ended
  <2> QED BY <1>q, <1>t, <1>w, <2>1, <2>2, <2>3, <2>5
<1>2. CASE Write(p)
  <2> DEFINE g == ses[p]
  <2>0. g \in Gens /\ pc[p] \in WriterLabels
    BY <1>2, <1>p DEF Write, WriterLabels
  <2>1. up' = up /\ dataset' = dataset /\ faults' = faults /\ Goto(p, g, "wrote")
    BY <1>2 DEF Write, rows
  <2>2. staging' \in [Gens -> Bytes] /\ \A h \in Gens \ {g} : staging'[h] = staging[h]
    BY <1>2, <1>t DEF Write, Bytes
  <2>3. up[g].clean \notin {"confirm", "done"}
    BY <2>0 DEF DatasetInv, CleanOK, Writing
  <2>4. ASSUME NEW h \in Gens PROVE RowStep(p, h) /\ CleanStep(h)
    BY <2>1, <2>2, <2>3, SameRow
  <2> QED BY <1>q, <1>t, <1>w, <2>0, <2>1, <2>2, <2>4
<1>3. CASE WriteFails(p) \/ Crash(p)
  <2>1. up' = up /\ dataset' = dataset /\ staging' = staging /\ Fault
    BY <1>3 DEF WriteFails, Crash, rows, objects
  <2>2. \/ Stop(p)
        \/ ses[p] \in Gens /\ pc[p] \in WriterLabels /\ Goto(p, ses[p], "unwrite")
    BY <1>3, <1>p, <1>w DEF WriteFails, Crash
  <2>3. ASSUME NEW h \in Gens PROVE RowStep(p, h) /\ CleanStep(h)
    BY <2>1, SameRow
  <2>4. faults' \in 0..MaxFaults
    BY <1>t, <2>1, FaultTyped
  <2> QED BY <1>q, <1>t, <1>w, <2>1, <2>2, <2>3, <2>4
<1>4. CASE Wrote(p)
  <2>0. ses[p] \in Gens /\ pc[p] \in WriterLabels
    BY <1>4, <1>p, <1>w DEF Wrote
  <2>1. dataset' = dataset /\ staging' = staging /\ faults' = faults
        /\ (Stop(p) \/ Goto(p, ses[p], "unwrite"))
    BY <1>4 DEF Wrote, objects
  <2>2. /\ up' \in [Gens -> Rows]
        /\ \A h \in Gens : /\ up'[h].st = up[h].st /\ up'[h].ftok = up[h].ftok
                           /\ up'[h].clean = up[h].clean /\ up'[h].past = up[h].past
    BY <1>4, <1>t, <2>0 DEF Wrote, Rows
  <2>3. ASSUME NEW h \in Gens PROVE RowStep(p, h) /\ CleanStep(h)
    BY <2>1, <2>2, SameStatus
  <2> QED BY <1>q, <1>t, <1>w, <2>0, <2>1, <2>2, <2>3
<1>5. CASE WriteTimesOut(p)
  <2> DEFINE g == ses[p]
  <2>0. g \in Gens /\ pc[p] \in WriterLabels
    BY <1>5, <1>p, <1>w DEF WriteTimesOut
  <2>1. staging' = staging /\ faults' = faults /\ Goto(p, g, "unwrite")
    BY <1>5 DEF WriteTimesOut, objects
  <2>2. CASE OwnsWrite(p)
    <3>1. up' = End(g) /\ dataset' = Reopened /\ up[g].st = "pending"
      BY <1>5, <2>2 DEF WriteTimesOut, OwnsWrite
    <3>2. /\ up' \in [Gens -> Rows] /\ dataset' \in DatasetType
          /\ \A h \in Gens : RowStep(p, h) /\ CleanStep(h)
          /\ \A h \in Gens : up'[h].st = up[h].st \/ (h = g /\ up'[h].st = "expired")
          /\ dataset'.gen = dataset.gen /\ dataset'.usable = dataset.usable
          /\ \/ dataset'.st = dataset.st
             \/ dataset'.st = "upload_pending" /\ dataset.st \notin {"absent", "legacy_imported"}
      BY <2>0, <2>1, <3>1, EndStep
    <3> QED BY <1>q, <1>t, <1>w, <2>0, <2>1, <3>1, <3>2
  <2>3. CASE ~OwnsWrite(p)
    <3>1. up' = up /\ dataset' = dataset
      BY <1>5, <2>3 DEF WriteTimesOut, rows
    <3>2. ASSUME NEW h \in Gens PROVE RowStep(p, h) /\ CleanStep(h)
      BY <2>1, <3>1, SameRow
    <3> QED BY <1>q, <1>t, <1>w, <2>0, <2>1, <3>1, <3>2
  <2> QED BY <2>2, <2>3
<1>6. CASE Unwrite(p) \/ Unstage(p)
  <2> DEFINE g == ses[p]
  <2>0. g \in Gens
    BY <1>6, <1>p DEF Unwrite, Unstage, WriterLabels
  <2>1. dataset' = dataset /\ Stop(p)
    BY <1>6 DEF Unwrite, Unstage, rows
  <2>2. /\ staging' \in [Gens -> Bytes]
        /\ \A h \in Gens : staging'[h] \in {staging[h], "none"}
    BY <1>6, <1>t DEF Unwrite, Unstage, Bytes
  <2>3. faults' \in 0..MaxFaults
    BY <1>6, <1>t, FaultTyped DEF Unwrite, Unstage
  <2>4. /\ up' \in [Gens -> Rows]
        /\ \A h \in Gens : /\ up'[h].st = up[h].st /\ up'[h].ftok = up[h].ftok
                           /\ up'[h].clean = up[h].clean /\ up'[h].past = up[h].past
    <3>1. up' = up \/ up' = [up EXCEPT ![g].wtok = None, ![g].stale = FALSE]
      BY <1>6 DEF Unwrite, Unstage, rows
    <3> QED BY <1>t, <2>0, <3>1 DEF Rows
  <2>5. \A h \in Gens : RowStep(p, h) /\ CleanStep(h)
    BY <2>2, <2>4 DEF RowStep, CleanStep
  <2> QED BY <1>q, <1>t, <2>1, <2>2, <2>3, <2>4, <2>5
<1> QED BY <1>1, <1>2, <1>3, <1>4, <1>5, <1>6

\* A set of keys that is not empty has a least one.
LEMMA LeastKey ==
    ASSUME NEW S, S \subseteq Nat, NEW l \in S
    PROVE  \E m \in S : \A n \in S : m <= n
<1>1. PICK m \in S : \A n \in S : ~(<<n, m>> \in OpToRel(<, Nat))
  BY WFMin, NatLessThanWellFounded, Zenon
<1>2. \A n \in S : ~(n < m)
  BY <1>1 DEF OpToRel
<1> QED BY <1>2

\* A finalizer that has not committed goes on, or ends, with a row that is its own.
LEMMA FinalizerSteps ==
    ASSUME DatasetInv, NEW p \in Procs,
           \/ \E g \in Gens : ClaimFinalization(p, g)
           \/ Verify(p) \/ Prepare(p) \/ Publish(p) \/ Published(p) \/ LoseLease(p)
           \/ Lost(p) \/ Undo(p) \/ Settle(p) \/ Abort(p) \/ Resolve(p)
    PROVE  DatasetInv'
<1>t. /\ TypeOK /\ up \in [Gens -> Rows] /\ faults \in 0..MaxFaults /\ dataset \in DatasetType
      /\ staging \in [Gens -> Bytes] /\ canon \in [Gens -> SUBSET Keys]
      /\ pub \in [Procs -> SUBSET Keys]
  BY Typed DEF DatasetInv
<1>u. UNCHANGED <<referenced, setting>>
  BY DEF ClaimFinalization, Verify, Prepare, Publish, Published, LoseLease, Lost, Undo, Settle,
         Abort, Resolve
<1>p. ProcOK(p)
  BY DEF DatasetInv
<1> DEFINE g0 == ses[p]
<1>q. ASSUME up' \in [Gens -> Rows], staging' \in [Gens -> Bytes], dataset' \in DatasetType,
             faults' \in 0..MaxFaults, canon' \in [Gens -> SUBSET Keys],
             pc' \in [Procs -> Labels], ses' \in [Procs -> Gens \cup {0, None}],
             pub' \in [Procs -> SUBSET Keys],
             OthersStay(p), ProcOK(p)', pc'[p] \in FinalizerLabels \cup {"idle"},
             \A h \in Gens : RowStep(p, h) /\ CleanStep(h) /\ CanonStep(p, h),
             \A h \in Gens : up[h].st = "completed" => up'[h].st = "completed",
             \A h \in Gens : up[h].st = "none" => up'[h].st = "none",
             dataset'.gen = dataset.gen /\ dataset'.usable = dataset.usable,
             \/ dataset'.st = dataset.st
             \/ /\ dataset'.st \in {"upload_pending", "processing", "failed"}
                /\ dataset.st \notin {"absent", "legacy_imported"}
      PROVE  DatasetInv'
  <2>1. pc'[p] \notin WriterLabels \cup Deleting
    BY <1>q DEF FinalizerLabels, WriterLabels, Deleting
  <2>2. TypeOK'
    BY <1>t, <1>u, <1>q DEF TypeOK, DatasetType, Bytes, setting
  <2>3. Shape(p)
    BY <1>u, <1>q, <2>1 DEF Shape, WriterStep, setting
  <2>4. DataStep(p)
    BY <1>q, <1>u, <2>1 DEF DataStep
  <2> QED BY <2>2, <2>3, <2>4, ShapeSuffices
\* Steps that leave the rows and the dataset alone.
<1>r. ASSUME up' = up, dataset' = dataset, staging' = staging, faults' \in 0..MaxFaults,
             canon' \in [Gens -> SUBSET Keys], pc' \in [Procs -> Labels],
             ses' \in [Procs -> Gens \cup {0, None}], pub' \in [Procs -> SUBSET Keys],
             OthersStay(p), ProcOK(p)', pc'[p] \in FinalizerLabels \cup {"idle"},
             \A h \in Gens : CanonStep(p, h)
      PROVE  DatasetInv'
  <2>1. ASSUME NEW h \in Gens PROVE RowStep(p, h) /\ CleanStep(h)
    BY <1>r, SameRow
  <2> QED BY <1>q, <1>r, <1>t, <2>1
\* A finalizer that stops, with or without a failure of its own.
<1>f. ASSUME NEW retryable, SetUploadFailure(p, retryable), Stop(p), pc[p] \in FinalizerLabels,
             staging' \in [Gens -> Bytes], \A h \in Gens : staging'[h] \in {staging[h], "none"},
             faults' \in 0..MaxFaults, canon' \in [Gens -> SUBSET Keys],
             \A h \in Gens : canon'[h] = canon[h] \/ (h = ses[p] /\ up[h].st # "completed")
      PROVE  DatasetInv'
  <2>1. /\ pc'[p] = "idle" /\ OthersStay(p) /\ ProcOK(p)'
        /\ pc' \in [Procs -> Labels] /\ ses' \in [Procs -> Gens \cup {0, None}]
        /\ pub' \in [Procs -> SUBSET Keys]
    BY <1>f, <1>t, Stopped, SimpleProc DEF OthersStay
  <2>2. /\ up' \in [Gens -> Rows] /\ dataset' \in DatasetType
        /\ \A h \in Gens : RowStep(p, h) /\ CleanStep(h)
        /\ \A h \in Gens : up'[h].st # "completed" <=> up[h].st # "completed"
        /\ \A h \in Gens : up'[h].st = "none" <=> up[h].st = "none"
        /\ dataset'.gen = dataset.gen /\ dataset'.usable = dataset.usable
        /\ \/ dataset'.st = dataset.st
           \/ /\ dataset'.st \in {"upload_pending", "failed"}
              /\ dataset.st \notin {"absent", "legacy_imported"}
    BY <1>f, FailureStep
  <2>3. \A h \in Gens : CanonStep(p, h)
    BY <1>f, <2>2 DEF CanonStep
  <2> QED BY <1>f, <1>q, <2>1, <2>2, <2>3
\* A finalizer that moves on, its row and its objects unchanged.
<1>g. ASSUME NEW label \in {"undo", "settle", "settleFailed", "resolve", "lost"},
             Goto(p, ses[p], label), pc[p] \in FinalizerLabels \ {"unstage", "resolve"},
             up' = up, dataset' = dataset, staging' = staging, faults' \in 0..MaxFaults,
             canon' \in [Gens -> SUBSET Keys],
             \A h \in Gens : canon'[h] = canon[h] \/ h = ses[p]
      PROVE  DatasetInv'
  <2>0. ses[p] \in Gens /\ label \in Labels /\ label # "idle" /\ label \in FinalizerLabels
    BY <1>g, <1>p DEF ProcOK, Labels, FinalizerLabels
  <2>1. /\ pc'[p] = label /\ ses'[p] = ses[p] /\ OthersStay(p)
        /\ pc' \in [Procs -> Labels] /\ ses' \in [Procs -> Gens \cup {0, None}]
        /\ pub' \in [Procs -> SUBSET Keys]
    BY <1>g, <1>t, <2>0, Moved DEF OthersStay
  <2>2. ProcOK(p)'
    BY <1>g, <1>p, <2>1, FinalizerProc
  <2>3. up[ses[p]].st # "completed"
    BY <1>g, <1>p DEF ProcOK, Owns
  <2>4. \A h \in Gens : CanonStep(p, h)
    BY <1>g, <2>3 DEF CanonStep
  <2> QED BY <1>g, <1>r, <2>0, <2>1, <2>2, <2>4
<1>l. /\ {"verify", "prepare", "publish", "commit", "undo", "settle", "settleFailed", "resolve",
           "unstage", "lost"} = FinalizerLabels
      /\ FinalizerLabels \subseteq Labels
  BY DEF FinalizerLabels, Labels
<1>1. ASSUME NEW g \in Gens, ClaimFinalization(p, g) PROVE DatasetInv'
  <2>1. /\ staging' = staging /\ canon' = canon /\ faults' = faults /\ Goto(p, g, "verify")
        /\ up[g].st = "pending" /\ ~up[g].past /\ pub[p] = {}
        /\ up' = [up EXCEPT ![g].st = "finalizing", ![g].ftok = p, ![g].stale = FALSE]
        /\ dataset' = [dataset EXCEPT !.st = "processing"]
    BY <1>1, <1>p DEF ClaimFinalization, objects, ProcOK
  <2>2. /\ up' \in [Gens -> Rows] /\ up'[g].st = "finalizing" /\ up'[g].ftok = p
        /\ up'[g].clean = up[g].clean /\ \A h \in Gens \ {g} : up'[h] = up[h]
    <3> DEFINE r == [up[g] EXCEPT !.st = "finalizing", !.ftok = p, !.stale = FALSE]
    <3>1. r \in Rows /\ r.st = "finalizing" /\ r.ftok = p /\ r.clean = up[g].clean
      BY <1>t DEF Rows, Statuses
    <3>2. up' = [up EXCEPT ![g] = r]
      BY <1>t, <2>1 DEF Rows
    <3> HIDE DEF r
    <3> QED BY <1>t, <3>1, <3>2
  <2>3. /\ pc'[p] = "verify" /\ ses'[p] = g /\ pub'[p] = {} /\ OthersStay(p)
        /\ pc' \in [Procs -> Labels] /\ ses' \in [Procs -> Gens \cup {0, None}]
        /\ pub' \in [Procs -> SUBSET Keys]
    BY <1>l, <1>t, <2>1, Moved DEF OthersStay
  <2>4. ProcOK(p)'
    BY <2>2, <2>3 DEF ProcOK, Owns, WriterLabels, FinalizerLabels, Deleting
  <2>5. ASSUME NEW h \in Gens PROVE RowStep(p, h) /\ CleanStep(h) /\ CanonStep(p, h)
    <3>1. CASE h = g
      BY <2>1, <2>2, <3>1 DEF RowStep, CleanStep, CanonStep, Ended
    <3>2. CASE h # g
      BY <2>1, <2>2, <3>2, SameRow DEF CanonStep
    <3> QED BY <3>1, <3>2
  <2>6. /\ dataset' \in DatasetType /\ dataset'.st = "processing" /\ dataset'.gen = dataset.gen
        /\ dataset'.usable = dataset.usable
    BY <1>t, <2>1, StatusTyped DEF DatasetStatuses
  <2>7. dataset.st \notin {"absent", "legacy_imported"}
    BY <2>1, HasSession
  <2> QED BY <1>l, <1>q, <1>t, <2>1, <2>2, <2>3, <2>4, <2>5, <2>6, <2>7
<1>2. CASE Verify(p) \/ Prepare(p)
  <2>0. ses[p] \in Gens /\ pc[p] \in FinalizerLabels
    BY <1>2, <1>l, <1>p DEF Verify, Prepare, ProcOK
  <2>1. CASE TryAgain(p) /\ faults' \in 0..MaxFaults
    <3>1. SetUploadFailure(p, TRUE) /\ Stop(p) /\ staging' = staging /\ canon' = canon
      BY <2>1 DEF TryAgain, objects
    <3> QED BY <1>f, <1>t, <2>0, <2>1, <3>1
  <2>2. CASE FailForGood(p)
    <3>1. SetUploadFailure(p, FALSE) /\ Stop(p) /\ canon' = canon
      BY <2>2 DEF FailForGood
    <3>2. faults' \in 0..MaxFaults
      BY <1>t, <2>2, FaultTyped DEF FailForGood
    <3>3. staging' \in [Gens -> Bytes] /\ \A h \in Gens : staging'[h] \in {staging[h], "none"}
      BY <1>t, <2>2 DEF FailForGood, Bytes
    <3> QED BY <1>f, <1>t, <2>0, <3>1, <3>2, <3>3
  <2>3. CASE /\ Goto(p, ses[p], "prepare") /\ pc[p] = "verify"
             /\ UNCHANGED <<rows, objects, faults>>
    <3>1. /\ pc'[p] = "prepare" /\ ses'[p] = ses[p] /\ pub'[p] = pub[p] /\ OthersStay(p)
          /\ pc' \in [Procs -> Labels] /\ ses' \in [Procs -> Gens \cup {0, None}]
          /\ pub' \in [Procs -> SUBSET Keys]
      BY <1>l, <1>t, <2>0, <2>3, Moved DEF OthersStay
    <3>2. up' = up /\ canon' = canon /\ staging' = staging /\ dataset' = dataset /\ faults' = faults
      BY <2>3 DEF rows, objects
    <3>3. ProcOK(p)'
      BY <1>p, <2>0, <2>3, <3>1, <3>2 DEF ProcOK, Owns, WriterLabels, FinalizerLabels, Deleting
    <3> QED BY <1>l, <1>r, <1>t, <3>1, <3>2, <3>3 DEF CanonStep
  <2>4. CASE /\ Goto(p, ses[p], "publish") /\ pc[p] = "prepare" /\ Outcome(source) # "unusable"
             /\ UNCHANGED <<rows, objects, faults>>
    <3>1. /\ pc'[p] = "publish" /\ ses'[p] = ses[p] /\ pub'[p] = pub[p] /\ OthersStay(p)
          /\ pc' \in [Procs -> Labels] /\ ses' \in [Procs -> Gens \cup {0, None}]
          /\ pub' \in [Procs -> SUBSET Keys]
      BY <1>l, <1>t, <2>0, <2>4, Moved DEF OthersStay
    <3>2. up' = up /\ canon' = canon /\ staging' = staging /\ dataset' = dataset /\ faults' = faults
      BY <2>4 DEF rows, objects
    <3>3. ProcOK(p)'
      BY <1>p, <1>u, <2>0, <2>4, <3>1, <3>2
         DEF ProcOK, Owns, WriterLabels, FinalizerLabels, Deleting, setting
    <3> QED BY <1>l, <1>r, <1>t, <3>1, <3>2, <3>3 DEF CanonStep
  <2>5. Fault => faults' \in 0..MaxFaults
    BY <1>t, FaultTyped
  <2> QED BY <1>2, <1>t, <2>1, <2>2, <2>3, <2>4, <2>5 DEF Verify, Prepare
<1>3. CASE Publish(p)
  <2> DEFINE k == NextKey(p)
  <2>0. g0 \in Gens /\ pc[p] = "publish" /\ up' = up /\ dataset' = dataset /\ staging' = staging
    BY <1>3, <1>l, <1>p DEF Publish, ProcOK, rows
  <2>1. k \in Keys
    <3>1. pub[p] \subseteq Keys /\ pub[p] # Keys
      BY <1>3, <1>t DEF Publish
    <3>2. PICK l \in Keys : l \notin pub[p]
      BY <3>1
    <3>3. \E m \in Keys \ pub[p] : \A n \in Keys \ pub[p] : m <= n
      <4> DEFINE S == Keys \ pub[p]
      <4>1. S \subseteq Nat /\ l \in S
        BY <3>2, DatasetAssumption DEF Keys
      <4> QED BY <4>1, LeastKey
    <3> QED BY <3>3 DEF NextKey
  <2> HIDE DEF k
  <2>2. CASE /\ canon' = [canon EXCEPT ![g0] = @ \cup {k}]
             /\ pub' = [pub EXCEPT ![p] = @ \cup {k}]
             /\ UNCHANGED <<pc, ses, faults>>
    <3>1. /\ canon' \in [Gens -> SUBSET Keys] /\ canon'[g0] = canon[g0] \cup {k}
          /\ \A h \in Gens \ {g0} : canon'[h] = canon[h]
      BY <1>t, <2>0, <2>1, <2>2
    <3>2. /\ pub' \in [Procs -> SUBSET Keys] /\ pub'[p] = pub[p] \cup {k}
          /\ \A q \in Procs \ {p} : pub'[q] = pub[q]
      BY <1>t, <2>1, <2>2
    <3>3. OthersStay(p) /\ pc'[p] = "publish" /\ ses'[p] = g0
      BY <2>0, <2>2, <3>2 DEF OthersStay
    <3>4. ProcOK(p)'
      BY <1>p, <1>u, <2>0, <3>1, <3>2, <3>3
         DEF ProcOK, Owns, WriterLabels, FinalizerLabels, Deleting, setting
    <3>5. up[g0].st # "completed"
      BY <1>l, <1>p, <2>0 DEF ProcOK, Owns
    <3>6. \A h \in Gens : CanonStep(p, h)
      BY <1>l, <2>0, <3>1, <3>5 DEF CanonStep
    <3>7. pc' \in [Procs -> Labels] /\ ses' \in [Procs -> Gens \cup {0, None}]
      BY <1>t, <2>2, Typed
    <3> QED BY <1>l, <1>r, <1>t, <2>0, <2>2, <3>1, <3>2, <3>3, <3>4, <3>6, <3>7
  <2>3. CASE Goto(p, g0, "undo") /\ UNCHANGED <<canon, faults>>
    BY <1>g, <1>l, <1>t, <2>0, <2>3
  <2>4. CASE /\ Fault /\ canon' \in {canon, [canon EXCEPT ![g0] = @ \cup {k}]}
             /\ Goto(p, g0, "undo")
    <3>1. /\ canon' \in [Gens -> SUBSET Keys]
          /\ \A h \in Gens : canon'[h] = canon[h] \/ h = g0
      BY <1>t, <2>0, <2>1, <2>4
    <3>2. faults' \in 0..MaxFaults
      BY <1>t, <2>4, FaultTyped
    <3> QED BY <1>g, <1>l, <2>0, <2>4, <3>1, <3>2
  <2> QED BY <1>3, <2>2, <2>3, <2>4 DEF Publish, k
<1>4. CASE Published(p)
  <2>0. /\ g0 \in Gens /\ pc[p] = "publish" /\ pub[p] = Keys /\ Goto(p, g0, "commit")
        /\ up' = up /\ dataset' = dataset /\ staging' = staging /\ canon' = canon /\ faults' = faults
    BY <1>4, <1>l, <1>p DEF Published, ProcOK, rows, objects
  <2>1. /\ pc'[p] = "commit" /\ ses'[p] = g0 /\ pub'[p] = pub[p] /\ OthersStay(p)
        /\ pc' \in [Procs -> Labels] /\ ses' \in [Procs -> Gens \cup {0, None}]
        /\ pub' \in [Procs -> SUBSET Keys]
    BY <1>l, <1>t, <2>0, Moved DEF OthersStay
  <2>2. ProcOK(p)'
    BY <1>p, <1>u, <2>0, <2>1 DEF ProcOK, Owns, WriterLabels, FinalizerLabels, Deleting, setting
  <2> QED BY <1>l, <1>r, <1>t, <2>0, <2>1, <2>2 DEF CanonStep
<1>5. CASE LoseLease(p)
  BY <1>5, <1>g, <1>l, <1>t DEF LoseLease, rows, objects
<1>6. CASE Abort(p)
  <2>1. faults' \in 0..MaxFaults
    BY <1>6, <1>t, FaultTyped DEF Abort
  <2> QED BY <1>6, <1>g, <1>l, <1>t, <2>1 DEF Abort, rows, objects
<1>7. CASE Lost(p)
  <2>0. /\ g0 \in Gens /\ pc[p] = "lost" /\ Removed(p, g0) /\ Stop(p)
        /\ up' = up /\ dataset' = dataset /\ staging' = staging
    BY <1>7, <1>l, <1>p DEF Lost, ProcOK, rows
  <2>1. /\ canon' \in [Gens -> SUBSET Keys] /\ faults' \in 0..MaxFaults
        /\ \A h \in Gens \ {g0} : canon'[h] = canon[h]
    BY <1>t, <2>0, RemovedStep
  <2>2. up[g0].st # "completed"
    BY <1>l, <1>p, <2>0 DEF ProcOK, Owns
  <2>3. /\ pc'[p] = "idle" /\ OthersStay(p) /\ ProcOK(p)'
        /\ pc' \in [Procs -> Labels] /\ ses' \in [Procs -> Gens \cup {0, None}]
        /\ pub' \in [Procs -> SUBSET Keys]
    BY <1>t, <2>0, Stopped, SimpleProc DEF OthersStay
  <2>4. \A h \in Gens : CanonStep(p, h)
    BY <1>l, <2>0, <2>1, <2>2 DEF CanonStep
  <2> QED BY <1>r, <2>0, <2>1, <2>3, <2>4
<1>8. CASE Undo(p)
  <2>0. /\ g0 \in Gens /\ pc[p] = "undo" /\ Removed(p, g0)
        /\ up' = up /\ dataset' = dataset /\ staging' = staging
        /\ Goto(p, g0, "settle") \/ Goto(p, g0, "settleFailed")
    BY <1>8, <1>l, <1>p DEF Undo, ProcOK, rows
  <2>1. /\ canon' \in [Gens -> SUBSET Keys] /\ faults' \in 0..MaxFaults
        /\ \A h \in Gens \ {g0} : canon'[h] = canon[h]
    BY <1>t, <2>0, RemovedStep
  <2> QED BY <1>g, <1>l, <2>0, <2>1
<1>9. CASE Settle(p)
  <2>0. /\ pc[p] \in FinalizerLabels /\ Stop(p) /\ SetUploadFailure(p, pc[p] = "settle")
        /\ staging' = staging /\ canon' = canon /\ faults' = faults
    BY <1>9, <1>l DEF Settle, objects
  <2> QED BY <1>f, <1>t, <2>0
<1>10. CASE Resolve(p)
  <2>0. g0 \in Gens /\ pc[p] = "resolve" /\ pc[p] \in FinalizerLabels /\ staging' = staging
    BY <1>10, <1>l, <1>p DEF Resolve, ProcOK
  <2>1. CASE up[g0].st = "completed" /\ Goto(p, g0, "unstage") /\ UNCHANGED <<rows, canon, faults>>
    <3>1. /\ pc'[p] = "unstage" /\ ses'[p] = g0 /\ OthersStay(p)
          /\ pc' \in [Procs -> Labels] /\ ses' \in [Procs -> Gens \cup {0, None}]
          /\ pub' \in [Procs -> SUBSET Keys]
      BY <1>l, <1>t, <2>0, <2>1, Moved DEF OthersStay
    <3>2. up' = up /\ dataset' = dataset /\ canon' = canon /\ faults' = faults
      BY <2>1 DEF rows
    <3>3. ProcOK(p)'
      BY <2>0, <2>1, <3>1, <3>2 DEF ProcOK, WriterLabels, FinalizerLabels, Deleting
    <3> QED BY <1>l, <1>r, <1>t, <2>0, <3>1, <3>2, <3>3 DEF CanonStep
  <2>2. CASE Stop(p) /\ UNCHANGED <<rows, canon, faults>>
    <3>1. up' = up /\ dataset' = dataset /\ canon' = canon /\ faults' = faults
      BY <2>2 DEF rows
    <3>2. /\ pc'[p] = "idle" /\ OthersStay(p) /\ ProcOK(p)'
          /\ pc' \in [Procs -> Labels] /\ ses' \in [Procs -> Gens \cup {0, None}]
          /\ pub' \in [Procs -> SUBSET Keys]
      BY <1>t, <2>2, Stopped, SimpleProc DEF OthersStay
    <3> QED BY <1>r, <1>t, <2>0, <3>1, <3>2 DEF CanonStep
  <2>3. CASE /\ up[g0].st # "completed"
             /\ Removed(p, g0) /\ SetUploadFailure(p, faults' = faults) /\ Stop(p)
    <3>1. /\ canon' \in [Gens -> SUBSET Keys] /\ faults' \in 0..MaxFaults
          /\ \A h \in Gens \ {g0} : canon'[h] = canon[h]
      BY <1>t, <2>0, <2>3, RemovedStep
    <3> QED BY <1>f, <1>t, <2>0, <2>3, <3>1
  <2> QED BY <1>10, <2>1, <2>2, <2>3 DEF Resolve
<1> QED BY <1>1, <1>2, <1>3, <1>4, <1>5, <1>6, <1>7, <1>8, <1>9, <1>10

\* The commit: the snapshot that a finalizer has published becomes the dataset's.
LEMMA CommitStep ==
    ASSUME DatasetInv, NEW p \in Procs, Commit(p)
    PROVE  DatasetInv'
<1> DEFINE g == ses[p]
<1>t. /\ TypeOK /\ up \in [Gens -> Rows] /\ faults \in 0..MaxFaults /\ dataset \in DatasetType
      /\ staging \in [Gens -> Bytes] /\ canon \in [Gens -> SUBSET Keys]
      /\ pub \in [Procs -> SUBSET Keys]
  BY Typed DEF DatasetInv
<1>p. ProcOK(p) /\ pc[p] = "commit" /\ g \in Gens /\ pub[p] = Keys /\ Outcome(source) # "unusable"
  BY DEF DatasetInv, Commit, ProcOK, FinalizerLabels
<1>u. staging' = staging /\ canon' = canon /\ UNCHANGED <<referenced, setting>>
  BY DEF Commit, objects
<1>l. {"unstage", "resolve", "lost"} \subseteq FinalizerLabels \cap Labels
  BY DEF FinalizerLabels, Labels
<1>w. ASSUME pc'[p] \in {"unstage", "resolve", "lost"}
      PROVE  pc'[p] \notin WriterLabels \cup Deleting
  BY <1>w DEF WriterLabels, Deleting
<1>m. ASSUME NEW label \in {"unstage", "resolve", "lost"}, Goto(p, g, label)
      PROVE  /\ pc'[p] = label /\ ses'[p] = g /\ OthersStay(p)
             /\ pc' \in [Procs -> Labels] /\ ses' \in [Procs -> Gens \cup {0, None}]
             /\ pub' \in [Procs -> SUBSET Keys]
  BY <1>l, <1>m, <1>p, <1>t, Moved DEF OthersStay
<1>1. CASE ~Owns(p)
  <2>1. Goto(p, g, "lost") /\ up' = up /\ dataset' = dataset /\ faults' = faults
    BY <1>1 DEF Commit, rows
  <2>2. /\ pc'[p] = "lost" /\ ses'[p] = g /\ OthersStay(p)
        /\ pc' \in [Procs -> Labels] /\ ses' \in [Procs -> Gens \cup {0, None}]
        /\ pub' \in [Procs -> SUBSET Keys]
    BY <1>m, <2>1
  <2>3. ProcOK(p)'
    BY <1>p, <2>1, <2>2, FinalizerProc DEF FinalizerLabels
  <2>4. ASSUME NEW h \in Gens PROVE RowStep(p, h) /\ CleanStep(h) /\ CanonStep(p, h)
    BY <1>u, <2>1, SameRow DEF CanonStep
  <2>5. TypeOK'
    BY <1>t, <1>u, <2>1, <2>2 DEF TypeOK, setting
  <2>6. Shape(p)
    BY <1>u, <1>w, <2>2, <2>3, <2>4 DEF Shape, WriterStep, setting
  <2>7. DataStep(p)
    BY <1>u, <1>w, <2>1, <2>2 DEF DataStep
  <2> QED BY <2>5, <2>6, <2>7, ShapeSuffices
<1>2. CASE Owns(p)
  <2>1. /\ up' = Without(g, "completed") /\ up[g].st = "finalizing" /\ up[g].ftok = p
        /\ dataset' = [st |-> Outcome(source), usable |-> Outcome(source) = "ready", gen |-> g]
    BY <1>2 DEF Commit, Owns
  <2>2. PICK label \in {"unstage", "resolve"} : Goto(p, g, label)
    BY <1>2 DEF Commit
  <2>3. faults' \in 0..MaxFaults
    BY <1>2, <1>t, FaultTyped DEF Commit
  <2>4. /\ pc'[p] \in {"unstage", "resolve"} /\ ses'[p] = g /\ OthersStay(p)
        /\ pc' \in [Procs -> Labels] /\ ses' \in [Procs -> Gens \cup {0, None}]
        /\ pub' \in [Procs -> SUBSET Keys]
    BY <1>m, <2>2
  <2>5. /\ up' \in [Gens -> Rows] /\ up'[g].st = "completed" /\ up'[g].clean = up[g].clean
        /\ \A h \in Gens \ {g} : up'[h] = up[h]
    BY <1>p, <1>t, <2>1, WithoutRow DEF Statuses
  <2>6. ProcOK(p)'
    BY <1>p, <2>4, <2>5 DEF ProcOK, WriterLabels, Deleting
  <2>7. ASSUME NEW h \in Gens PROVE RowStep(p, h) /\ CleanStep(h) /\ CanonStep(p, h)
    <3>1. CASE h = g
      BY <1>u, <2>1, <2>5, <3>1 DEF RowStep, CleanStep, CanonStep, Ended
    <3>2. CASE h # g
      BY <1>u, <2>5, <3>2, SameRow DEF CanonStep
    <3> QED BY <3>1, <3>2
  <2>8. Outcome(source) \in {"ready", "decoder_pending"}
    BY <1>p, <1>t, DatasetAssumption, Typed DEF Outcomes
  <2>9. dataset' \in DatasetType /\ dataset'.st \in {"ready", "decoder_pending"} /\ dataset'.gen = g
        /\ (dataset'.usable <=> Outcome(source) = "ready")
    BY <1>p, <2>1, <2>8 DEF DatasetType, DatasetStatuses
  <2>10. TypeOK'
    BY <1>t, <1>u, <2>3, <2>4, <2>5, <2>9 DEF TypeOK, DatasetType, setting
  <2>11. Shape(p)
    BY <1>u, <1>w, <2>4, <2>6, <2>7 DEF Shape, WriterStep, setting
  \* The generation before has expired, so that nothing was kept until now.
  <2>12. ~referenced
    <3>1. ~Kept
      <4> SUFFICES ASSUME Kept PROVE FALSE
        OBVIOUS
      <4>1. dataset.gen \in Gens /\ up[dataset.gen].st = "completed"
        BY DEF DatasetInv, DataOK
      <4>2. dataset.gen < g \/ g < dataset.gen
        BY <1>p, <2>1, <4>1, DatasetAssumption DEF Gens
      <4> QED BY <1>p, <2>1, <4>1, <4>2 DEF DatasetInv, OrderOK
    <3>2. dataset.st \notin {"absent", "legacy_imported"}
      BY <1>p, <2>1, HasSession
    <3> QED BY <3>1, <3>2 DEF DatasetInv, DataOK, Kept
  <2>13. canon'[g] = Keys
    <3>1. Keys \subseteq canon[g]
      BY <1>2, <1>p, <2>1 DEF ProcOK, FinalizerLabels
    <3> QED BY <1>p, <1>t, <1>u, <3>1
  <2>14. ASSUME NEW q \in Procs, pc'[q] \in Deleting PROVE ses'[q] < g
    <3>1. q # p
      BY <1>w, <2>4, <2>14
    <3>2. pc[q] \in Deleting /\ ses'[q] = ses[q]
      BY <2>4, <2>14, <3>1 DEF OthersStay
    <3>3. ses[q] \in Gens \cup {0} /\ ~(g <= ses[q])
      BY <1>p, <2>1, <3>2 DEF DatasetInv, ProcOK, Over
    <3> QED BY <1>p, <3>2, <3>3, DatasetAssumption DEF Gens
  <2>15. DataOK'
    BY <1>p, <1>u, <2>5, <2>9, <2>12, <2>13, <2>14 DEF DataOK, Kept, setting
  <2> QED BY <2>10, <2>11, <2>15, ShapeSuffices
<1> QED BY <1>1, <1>2

\* The deletion of the dataset.
LEMMA DeleteSteps ==
    ASSUME DatasetInv, NEW p \in Procs, StartDelete(p) \/ DeleteObjects(p) \/ DeleteRow(p)
    PROVE  DatasetInv'
<1>t. /\ TypeOK /\ up \in [Gens -> Rows] /\ faults \in 0..MaxFaults /\ dataset \in DatasetType
      /\ staging \in [Gens -> Bytes] /\ canon \in [Gens -> SUBSET Keys]
      /\ pub \in [Procs -> SUBSET Keys]
  BY Typed DEF DatasetInv
<1>u. UNCHANGED <<referenced, setting>>
  BY DEF StartDelete, DeleteObjects, DeleteRow
<1>l. /\ Deleting \subseteq Labels /\ "idle" \notin Deleting /\ "idle" \notin WriterLabels
      /\ Deleting \cap WriterLabels = {}
  BY DEF Deleting, Labels, WriterLabels
<1>p. pc[p] \in Deleting => ses[p] \in Gens \cup {0} /\ \A g \in Gens : g <= ses[p] => up[g].st \in Over
  BY DEF DatasetInv, ProcOK
<1>d. ASSUME NEW n \in Gens \cup {0}, NEW label \in Deleting, Goto(p, n, label), up' = up,
             \A g \in Gens : g <= n => up[g].st \in Over
      PROVE  /\ pc'[p] = label /\ ses'[p] = n /\ OthersStay(p) /\ ProcOK(p)'
             /\ pc' \in [Procs -> Labels] /\ ses' \in [Procs -> Gens \cup {0, None}]
             /\ pub' \in [Procs -> SUBSET Keys]
  <2>1. /\ pc'[p] = label /\ ses'[p] = n /\ OthersStay(p)
        /\ pc' \in [Procs -> Labels] /\ ses' \in [Procs -> Gens \cup {0, None}]
        /\ pub' \in [Procs -> SUBSET Keys]
    BY <1>d, <1>l, <1>t, Moved DEF OthersStay
  <2>2. ProcOK(p)'
    BY <1>d, <2>1 DEF ProcOK, Deleting, WriterLabels, FinalizerLabels
  <2> QED BY <2>1, <2>2
<1>s. ASSUME Stop(p)
      PROVE  /\ pc'[p] = "idle" /\ OthersStay(p) /\ ProcOK(p)'
             /\ pc' \in [Procs -> Labels] /\ ses' \in [Procs -> Gens \cup {0, None}]
             /\ pub' \in [Procs -> SUBSET Keys]
  BY <1>s, <1>t, Stopped, SimpleProc DEF OthersStay
<1>1. CASE StartDelete(p)
  <2>1. /\ up' = up /\ staging' = staging /\ canon' = canon /\ faults' = faults /\ ~referenced
        /\ dataset' = [dataset EXCEPT !.st = "deleting"]
        /\ \A g \in Gens : ~Active(g) /\ ~CleanupPending(g)
    BY <1>1 DEF StartDelete, objects
  <2>2. PICK n \in Gens \cup {0} : (\A g \in Gens : Exists(g) <=> g <= n) /\ Goto(p, n, "deleteObjects")
    BY <1>1 DEF StartDelete
  <2>3. ASSUME NEW g \in Gens, g <= n PROVE up[g].st \in Over
    <3>1. up[g].st \in Statuses \ {"none", "gone"} /\ ~Active(g) /\ ~CleanupPending(g)
      BY <1>t, <2>1, <2>2, <2>3 DEF Exists, Rows
    <3>2. up[g].st \notin {"pending", "finalizing"}
      <4>1. up[g].st # "finalizing"
        BY <3>1 DEF Active
      <4>2. up[g].st = "pending" => up[g].clean = "done"
        BY <3>1 DEF CleanupPending
      <4>3. up[g].clean = "done" => up[g].st \in Ended
        BY DEF DatasetInv, CleanOK
      <4> QED BY <4>1, <4>2, <4>3 DEF Ended
    <3> QED BY <3>1, <3>2 DEF Statuses, Over
  <2>4. /\ pc'[p] = "deleteObjects" /\ ses'[p] = n /\ OthersStay(p) /\ ProcOK(p)'
        /\ pc' \in [Procs -> Labels] /\ ses' \in [Procs -> Gens \cup {0, None}]
        /\ pub' \in [Procs -> SUBSET Keys]
    BY <1>d, <2>1, <2>2, <2>3 DEF Deleting
  <2>5. /\ dataset' \in DatasetType /\ dataset'.st = "deleting" /\ dataset'.gen = dataset.gen
        /\ dataset'.usable = dataset.usable
    BY <1>t, <2>1, StatusTyped DEF DatasetStatuses
  <2>6. ASSUME NEW h \in Gens PROVE RowStep(p, h) /\ CleanStep(h) /\ CanonStep(p, h)
    BY <2>1, SameRow DEF CanonStep
  <2>7. TypeOK'
    BY <1>t, <1>u, <2>1, <2>4, <2>5 DEF TypeOK, DatasetType, setting
  <2>8. Shape(p)
    BY <1>l, <1>u, <2>4, <2>6 DEF Shape, WriterStep, setting, WriterLabels
  <2>9. DataStep(p)
    BY <1>u, <2>1, <2>5 DEF DataStep
  <2> QED BY <2>7, <2>8, <2>9, ShapeSuffices
<1>2. CASE DeleteObjects(p)
  <2> DEFINE n == ses[p]
  <2>0. pc[p] = "deleteObjects" /\ n \in Gens \cup {0} /\ up' = up
        /\ \A g \in Gens : g <= n => up[g].st \in Over
    BY <1>2, <1>p DEF DeleteObjects, Deleting
  <2>1. /\ staging' \in [Gens -> Bytes] /\ canon' \in [Gens -> SUBSET Keys]
        /\ \A g \in Gens : staging'[g] \in {staging[g], "none"}
        /\ \A g \in Gens : canon'[g] = canon[g] \/ g <= n
        /\ faults' \in 0..MaxFaults
    <3>1. CASE /\ staging' = [g \in Gens |-> IF g <= n THEN "none" ELSE staging[g]]
               /\ canon' = [g \in Gens |-> IF g <= n THEN {} ELSE canon[g]]
               /\ faults' = faults
      BY <1>t, <3>1 DEF Bytes
    <3>2. CASE /\ Fault
               /\ \E h \in 1..n, k \in Keys \cup {0} :
                    /\ staging' = [g \in Gens |-> IF g <= n /\ <<g, 0>> # <<h, k>> THEN "none" ELSE staging[g]]
                    /\ canon' = [g \in Gens |-> IF g <= n THEN IF g = h THEN canon[g] \cap {k} ELSE {} ELSE canon[g]]
      <4>0. PICK h \in 1..n, k \in Keys \cup {0} :
               /\ staging' = [g \in Gens |-> IF g <= n /\ <<g, 0>> # <<h, k>> THEN "none" ELSE staging[g]]
               /\ canon' = [g \in Gens |-> IF g <= n THEN IF g = h THEN canon[g] \cap {k} ELSE {} ELSE canon[g]]
        BY <3>2
      <4>1. faults' \in 0..MaxFaults
        BY <1>t, <3>2, FaultTyped
      <4>2. staging' \in [Gens -> Bytes] /\ \A g \in Gens : staging'[g] \in {staging[g], "none"}
        BY <1>t, <4>0 DEF Bytes
      <4>3. canon' \in [Gens -> SUBSET Keys] /\ \A g \in Gens : canon'[g] = canon[g] \/ g <= n
        BY <1>t, <4>0
      <4> QED BY <4>1, <4>2, <4>3
    <3> QED BY <1>2, <3>1, <3>2, Zenon DEF DeleteObjects
  <2>2. /\ OthersStay(p) /\ ProcOK(p)' /\ pc'[p] \notin WriterLabels
        /\ pc'[p] \in Deleting => ses'[p] = ses[p]
        /\ pc' \in [Procs -> Labels] /\ ses' \in [Procs -> Gens \cup {0, None}]
        /\ pub' \in [Procs -> SUBSET Keys]
    <3>1. CASE Stop(p)
      BY <1>l, <1>s, <3>1
    <3>2. CASE Goto(p, n, "deleteRow")
      BY <1>d, <1>l, <2>0, <3>2 DEF Deleting
    <3> QED BY <1>2, <3>1, <3>2 DEF DeleteObjects
  <2>3. dataset.st \notin {"absent", "legacy_imported"}
    BY <2>0 DEF DatasetInv, DataOK, Deleting
  <2>4. /\ dataset' \in DatasetType /\ dataset'.gen = dataset.gen /\ dataset'.usable = dataset.usable
        /\ dataset'.st = dataset.st \/ dataset'.st = "delete_failed"
    <3>1. dataset' = dataset \/ dataset' = [dataset EXCEPT !.st = "delete_failed"]
      BY <1>2 DEF DeleteObjects
    <3> QED BY <1>t, <3>1, StatusTyped DEF DatasetStatuses
  <2>5. ASSUME NEW h \in Gens PROVE RowStep(p, h) /\ CleanStep(h) /\ CanonStep(p, h)
    BY <2>0, <2>1, SameRow DEF CanonStep
  <2>6. TypeOK'
    BY <1>t, <1>u, <2>0, <2>1, <2>2, <2>4 DEF TypeOK, DatasetType, Bytes, setting
  <2>7. Shape(p)
    BY <1>u, <2>2, <2>5 DEF Shape, WriterStep, setting
  <2>8. DataStep(p)
    BY <1>u, <2>0, <2>2, <2>3, <2>4 DEF DataStep, Deleting
  <2> QED BY <2>6, <2>7, <2>8, ShapeSuffices
<1>3. CASE DeleteRow(p)
  <2>1. staging' = staging /\ canon' = canon /\ faults' = faults /\ Stop(p)
    BY <1>3 DEF DeleteRow, objects
  <2>2. /\ pc'[p] = "idle" /\ OthersStay(p) /\ ProcOK(p)'
        /\ pc' \in [Procs -> Labels] /\ ses' \in [Procs -> Gens \cup {0, None}]
        /\ pub' \in [Procs -> SUBSET Keys]
    BY <1>s, <2>1
  <2>3. CASE referenced \/ dataset.st = "deleted"
    <3>1. up' = up /\ dataset' = dataset
      BY <1>3, <2>3 DEF DeleteRow, rows
    <3>2. ASSUME NEW h \in Gens PROVE RowStep(p, h) /\ CleanStep(h) /\ CanonStep(p, h)
      BY <2>1, <3>1, SameRow DEF CanonStep
    <3>3. TypeOK'
      BY <1>t, <1>u, <2>1, <2>2, <3>1 DEF TypeOK, setting
    <3>4. Shape(p)
      BY <1>l, <1>u, <2>2, <3>2 DEF Shape, WriterStep, setting
    <3>5. DataStep(p)
      BY <1>l, <1>u, <2>2, <3>1 DEF DataStep
    <3> QED BY <3>3, <3>4, <3>5, ShapeSuffices
  <2>4. CASE ~referenced /\ dataset.st # "deleted"
    <3>1. /\ dataset' = [dataset EXCEPT !.st = "deleted"]
          /\ up' = [g \in Gens |-> IF Exists(g) THEN [NoRow EXCEPT !.st = "gone"] ELSE up[g]]
      BY <1>3, <2>4 DEF DeleteRow
    <3>2. [NoRow EXCEPT !.st = "gone"] \in Rows /\ [NoRow EXCEPT !.st = "gone"].st = "gone"
          /\ [NoRow EXCEPT !.st = "gone"].clean = "wait"
      BY DEF NoRow, Rows, Statuses, Phases
    <3>3. /\ up' \in [Gens -> Rows]
          /\ \A h \in Gens : up'[h] = up[h] \/ (Exists(h) /\ up'[h].st = "gone" /\ up'[h].clean = "wait")
      BY <1>t, <3>1, <3>2
    <3>4. ASSUME NEW h \in Gens PROVE RowStep(p, h) /\ CanonStep(p, h) /\ (CleanStep(h) \/ CleanOK(h)')
      <4>1. CASE up'[h] = up[h]
        BY <2>1, <4>1, SameRow DEF CanonStep
      <4>2. CASE Exists(h) /\ up'[h].st = "gone" /\ up'[h].clean = "wait"
        BY <2>1, <4>2 DEF CanonStep, RowStep, CleanOK
      <4> QED BY <3>3, <4>1, <4>2
    <3>5. /\ dataset' \in DatasetType /\ dataset'.st = "deleted" /\ dataset'.gen = dataset.gen
          /\ dataset'.usable = dataset.usable
      BY <1>t, <3>1, StatusTyped DEF DatasetStatuses
    <3>6. TypeOK'
      BY <1>t, <1>u, <2>1, <2>2, <3>3, <3>5 DEF TypeOK, DatasetType, setting
    <3>7. Shape(p)
      BY <1>l, <1>u, <2>2, <3>4 DEF Shape, WriterStep, setting
    <3>8. DataStep(p)
      BY <1>l, <1>u, <2>2, <2>4, <3>5 DEF DataStep
    <3> QED BY <3>6, <3>7, <3>8, ShapeSuffices
  <2> QED BY <2>3, <2>4
<1> QED BY <1>1, <1>2, <1>3

\* The staging cleanup.
LEMMA CleanupSteps ==
    ASSUME DatasetInv, NEW p \in Procs,
           (\E g \in Gens : ClaimCleanup(p, g)) \/ DeleteClaimedStaging(p)
    PROVE  DatasetInv'
<1>t. /\ TypeOK /\ up \in [Gens -> Rows] /\ faults \in 0..MaxFaults /\ dataset \in DatasetType
      /\ staging \in [Gens -> Bytes] /\ canon \in [Gens -> SUBSET Keys]
      /\ pub \in [Procs -> SUBSET Keys]
  BY Typed DEF DatasetInv
<1>u. dataset' = dataset /\ canon' = canon /\ UNCHANGED <<referenced, setting>>
  BY DEF ClaimCleanup, DeleteClaimedStaging, objects
<1>f. Fault => faults' \in 0..MaxFaults
  BY <1>t, FaultTyped
<1>q. ASSUME up' \in [Gens -> Rows], staging' \in [Gens -> Bytes], faults' \in 0..MaxFaults,
             OthersStay(p), ProcOK(p)', pc'[p] \in {"clean", "idle"},
             pc' \in [Procs -> Labels], ses' \in [Procs -> Gens \cup {0, None}],
             pub' \in [Procs -> SUBSET Keys],
             \A h \in Gens : RowStep(p, h) /\ (CleanStep(h) \/ CleanOK(h)'),
             \A h \in Gens : /\ up[h].st = "completed" => up'[h].st = "completed"
                             /\ up[h].st = "none" => up'[h].st = "none"
      PROVE  DatasetInv'
  <2>1. pc'[p] \notin WriterLabels \cup Deleting
    BY <1>q DEF WriterLabels, Deleting
  <2>2. TypeOK'
    BY <1>t, <1>u, <1>q DEF TypeOK, Bytes, setting
  <2>3. Shape(p)
    BY <1>u, <1>q, <2>1 DEF Shape, WriterStep, CanonStep, setting
  <2>4. DataStep(p)
    BY <1>u, <1>q, <2>1 DEF DataStep
  <2> QED BY <2>2, <2>3, <2>4, ShapeSuffices
<1>1. ASSUME NEW g \in Gens, ClaimCleanup(p, g) PROVE DatasetInv'
  <2> DEFINE st == IF up[g].st = "pending" THEN "expired" ELSE up[g].st
  <2>1. /\ up[g].st \in {"pending", "failed", "expired"} /\ staging' = staging
        /\ Goto(p, g, "clean")
        /\ up' = [Without(g, st) EXCEPT ![g].claim = p]
    BY <1>1 DEF ClaimCleanup, Ended, objects
  <2>2. st \in {"failed", "expired"} /\ st \in Statuses
        /\ (up[g].st = "pending" => st = "expired") /\ (up[g].st # "pending" => st = up[g].st)
    BY <2>1 DEF Statuses
  <2> HIDE DEF st
  <2>3. /\ Without(g, st) \in [Gens -> Rows]
        /\ Without(g, st)[g].st = st /\ Without(g, st)[g].clean = up[g].clean
        /\ \A h \in Gens \ {g} : Without(g, st)[h] = up[h]
    BY <1>t, <2>2, WithoutRow
  <2>4. /\ up' \in [Gens -> Rows] /\ up'[g].st = st /\ up'[g].clean = up[g].clean
        /\ \A h \in Gens \ {g} : up'[h] = up[h]
    <3> DEFINE w == Without(g, st)
    <3>1. w \in [Gens -> Rows] /\ up' = [w EXCEPT ![g].claim = p]
      BY <2>1, <2>3
    <3>2. /\ w[g].st = st /\ w[g].clean = up[g].clean
          /\ \A h \in Gens \ {g} : w[h] = up[h]
      BY <2>3
    <3> HIDE DEF w
    <3> QED BY <3>1, <3>2 DEF Rows
  <2>5. /\ pc'[p] = "clean" /\ ses'[p] = g /\ OthersStay(p)
        /\ pc' \in [Procs -> Labels] /\ ses' \in [Procs -> Gens \cup {0, None}]
        /\ pub' \in [Procs -> SUBSET Keys]
    BY <1>t, <2>1, Moved DEF OthersStay, Labels
  <2>6. ProcOK(p)'
    BY <2>5, SimpleProc
  <2>7. faults' \in 0..MaxFaults
    BY <1>1, <1>f, <1>t DEF ClaimCleanup
  <2>9. ASSUME NEW h \in Gens PROVE RowStep(p, h) /\ CleanStep(h)
    <3>1. CASE h = g
      BY <2>1, <2>2, <2>4, <3>1 DEF RowStep, CleanStep, Ended
    <3>2. CASE h # g
      BY <2>1, <2>4, <3>2, SameRow
    <3> QED BY <3>1, <3>2
  <2> QED BY <1>q, <1>t, <2>1, <2>2, <2>4, <2>5, <2>6, <2>7, <2>9
<1>2. CASE DeleteClaimedStaging(p)
  <2>0. ses[p] \in Gens /\ pc[p] = "clean" /\ Stop(p)
    BY <1>2 DEF DeleteClaimedStaging, DatasetInv, ProcOK
  <2>1. PICK g \in Gens : g = ses[p]
    BY <2>0
  <2>2. /\ pc'[p] = "idle" /\ OthersStay(p) /\ ProcOK(p)'
        /\ pc' \in [Procs -> Labels] /\ ses' \in [Procs -> Gens \cup {0, None}]
        /\ pub' \in [Procs -> SUBSET Keys]
    BY <1>t, <2>0, Stopped, SimpleProc DEF OthersStay
  <2>3. faults' \in 0..MaxFaults
    BY <1>2, <1>f, <1>t DEF DeleteClaimedStaging
  <2>4. CASE up' = up /\ staging' = staging
    <3>1. ASSUME NEW h \in Gens PROVE RowStep(p, h) /\ CleanStep(h)
      BY <2>4, SameRow
    <3> QED BY <1>q, <1>t, <2>2, <2>3, <2>4, <3>1
  <2>5. CASE /\ up[g].st \in Ended /\ up[g].clean \in {"due", "confirm"}
             /\ staging' = [staging EXCEPT ![g] = "none"]
             /\ up' = [up EXCEPT ![g].clean = IF up[g].clean = "due" THEN "first" ELSE "done"]
    <3> DEFINE phase == IF up[g].clean = "due" THEN "first" ELSE "done"
    <3>1. phase \in {"first", "done"} /\ phase \in Phases /\ (phase = "done" => up[g].clean = "confirm")
      BY <2>5 DEF Phases
    <3>2. up' = [up EXCEPT ![g].clean = phase]
      BY <2>5
    <3> HIDE DEF phase
    <3>3. /\ up' \in [Gens -> Rows] /\ up'[g].st = up[g].st /\ up'[g].ftok = up[g].ftok
          /\ up'[g].clean = phase /\ \A h \in Gens \ {g} : up'[h] = up[h]
      BY SMTT(30), <1>t, <2>1, <3>1, <3>2 DEF Rows
    <3>4. /\ staging' \in [Gens -> Bytes] /\ staging'[g] = "none"
          /\ \A h \in Gens \ {g} : staging'[h] = staging[h]
      BY <1>t, <2>1, <2>5 DEF Bytes
    <3>5. Writing(g)' => Writing(g)
      BY <2>2 DEF Writing, OthersStay, WriterLabels
    <3>6. CleanOK(g)'
      <4>1. up[g].clean = "confirm" => ~Writing(g)
        BY <2>1 DEF DatasetInv, CleanOK
      <4> QED BY <2>5, <3>1, <3>3, <3>4, <3>5, <4>1 DEF CleanOK
    <3>7. ASSUME NEW h \in Gens PROVE RowStep(p, h) /\ (CleanStep(h) \/ CleanOK(h)')
      <4>1. CASE h = g
        BY <3>3, <3>6, <4>1 DEF RowStep
      <4>2. CASE h # g
        BY <3>3, <3>4, <4>2, SameRow
      <4> QED BY <4>1, <4>2
    <3> QED BY <1>q, <1>t, <2>1, <2>2, <2>3, <3>3, <3>4, <3>7
  <2> QED BY <1>2, <2>1, <2>4, <2>5 DEF DeleteClaimedStaging
<1> QED BY <1>1, <1>2

\* The invariant holds in every reachable state.
LEMMA DatasetInvariant == Spec => []DatasetInv
<1>1. Init => DatasetInv
  <2> SUFFICES ASSUME Init PROVE DatasetInv
    OBVIOUS
  <2>1. NoRow \in Rows /\ NoRow.st = "none" /\ NoRow.clean = "wait"
    BY DEF NoRow, Rows, Statuses, Phases
  <2>2. TypeOK
    <3>1. dataset \in DatasetType
      BY DEF Init, DatasetType, DatasetStatuses
    <3>2. up \in [Gens -> Rows] /\ staging \in [Gens -> Bytes] /\ canon \in [Gens -> SUBSET Keys]
      BY <2>1 DEF Init, Bytes
    <3>3. /\ pc \in [Procs -> Labels] /\ ses \in [Procs -> Gens \cup {0, None}]
          /\ pub \in [Procs -> SUBSET Keys]
      BY DEF Init, Labels
    <3>4. faults \in 0..MaxFaults
      BY DatasetAssumption DEF Init
    <3> QED BY <3>1, <3>2, <3>3, <3>4, Typed DEF Init
  <2>3. \A p \in Procs : ProcOK(p)
    BY DEF Init, ProcOK, WriterLabels, FinalizerLabels, Deleting
  <2>4. OrderOK /\ \A g \in Gens : CleanOK(g)
    BY <2>1 DEF Init, OrderOK, CleanOK
  <2>5. DataOK
    BY <2>1 DEF Init, DataOK, Kept, Deleting
  <2> QED BY <2>2, <2>3, <2>4, <2>5 DEF DatasetInv
<1>2. DatasetInv /\ [Next]_vars => DatasetInv'
  <2> SUFFICES ASSUME DatasetInv, [Next]_vars PROVE DatasetInv'
    OBVIOUS
  <2>1. CASE LegacyImport \/ CreateExperiment
    BY <2>1, DatasetSteps
  <2>2. ASSUME NEW g \in Gens, InitUpload(g) \/ Recover(g) \/ S3Put(g) PROVE DatasetInv'
    BY <2>2, SessionSteps
  <2>3. CASE \/ \E g \in Gens : Pass(g) \/ Stale(g) \/ Grace(g)
             \/ \E p \in Procs : Heartbeat(p)
    BY <2>3, TimeSteps
  <2>4. ASSUME NEW p \in Procs, RequestStep(p) \/ Abort(p) \/ StartDelete(p) \/ Crash(p)
        PROVE  DatasetInv'
    BY <2>4, WriterSteps, FinalizerSteps, CommitStep, DeleteSteps, CleanupSteps,
       Zenon DEF RequestStep
  <2>5. ASSUME NEW p \in Procs, NEW g \in Gens,
               ClaimWrite(p, g) \/ ClaimFinalization(p, g) \/ ClaimCleanup(p, g)
        PROVE  DatasetInv'
    BY <2>5, WriterSteps, FinalizerSteps, CleanupSteps, Zenon
  <2>6. CASE UNCHANGED vars
    BY <2>6 DEF vars, rows, objects, procs, setting, DatasetInv, TypeOK, ProcOK, OrderOK, CleanOK,
                DataOK, Owns, Writing, Kept
  <2> QED BY <2>1, <2>2, <2>3, <2>4, <2>5, <2>6 DEF Next
<1> QED BY <1>1, <1>2, PTL DEF Spec

\* The rows, the objects and the requests keep their types.
THEOREM DatasetTyped == Spec => []TypeOK
<1>1. DatasetInv => TypeOK
  BY DEF DatasetInv
<1> QED BY <1>1, DatasetInvariant, PTL

\* A dataset that is offered has every object its URIs name, and an experiment keeps
\* its dataset: no late finalizer, no cleanup and no deletion of routers/datasets.py
\* takes an object of it away, for any number of requests and generations.
THEOREM DatasetsKeepTheirData == Spec => []DataAvailable
<1>1. DatasetInv => DataAvailable
  <2> SUFFICES ASSUME DatasetInv PROVE DataAvailable
    OBVIOUS
  <2>1. SnapshotAvailable
    BY DEF DatasetInv, DataOK, Kept, SnapshotAvailable
  <2>2. ExperimentHasData
    BY DEF DatasetInv, DataOK, Kept, ExperimentHasData
  <2> QED BY <2>1, <2>2 DEF DataAvailable
<1> QED BY <1>1, DatasetInvariant, PTL

\* Once a maintenance run has recorded the cleanup of a session as complete, its
\* staging object is gone and no late writer brings it back.
THEOREM StagingStaysGone == Spec => []CleanedStaysGone
<1>1. DatasetInv => CleanedStaysGone
  BY DEF DatasetInv, CleanOK, CleanedStaysGone
<1> QED BY <1>1, DatasetInvariant, PTL

-----------------------------------------------------------------------------
(***************************************************************************)
(* DatasetIngestion.                                                       *)
(* Proof that the pass over an archive of any size comes to the verdict    *)
(* and the files of the reference, which knows the members only as a set.  *)
(***************************************************************************)

Verdicts == {"ready", "decoder_pending", "unusable"}
Collections ==
    [files : Seq(Members), skipped : SUBSET Members, rejected : SUBSET Members,
     duplicates : SUBSET (Members \X Members)]

IngestTypeOK ==
    /\ archive \in Seq(Members) /\ left \subseteq DOMAIN archive
    /\ state \in Collections
    /\ step \in {"validate", "collect", "error"} \cup Verdicts

\* The members that the pass has read.
ReadSoFar == {archive[i] : i \in DOMAIN archive \ left}

\* Every usable member has a file with its bytes.
Covered(M) == \A n \in M : Usable(n) => \E c \in Canonical(M) : c.digest = n.digest

\* Between two members the pass has the reference result for what it has read, which
\* comes before everything that it has still to read.
PassInv ==
    /\ ~Rejected(archive)
    /\ \A i \in DOMAIN archive \ left : archive[i].kind # "corrupt"
    /\ \A i \in DOMAIN archive \ left, j \in left : archive[i].path < archive[j].path
    /\ Covered(ReadSoFar) /\ Reference(state, ReadSoFar)

IngestInv ==
    /\ IngestTypeOK
    /\ step = "validate" => left = {} /\ state = Empty
    /\ step \in {"collect", "ready", "decoder_pending"} => PassInv
    /\ step \in Verdicts => step = Verdict(archive)
    /\ step \in {"ready", "decoder_pending"} => left = {}

\* The fields of a member.
LEMMA MemberParts ==
    ASSUME NEW m \in Members
    PROVE  m.path \in Nat /\ m.kind \in Kinds /\ m.digest \in Nat
  BY DEF Members

\* A member behind all others is canonical if it is usable and its bytes are new, and takes
\* no other's place.
LEMMA CanonicalExtended ==
    ASSUME NEW M \in SUBSET Members, NEW m \in Members, \A n \in M : n.path < m.path
    PROVE  /\ ~Usable(m) => Canonical(M \cup {m}) = Canonical(M)
           /\ (\E n \in M : Usable(n) /\ n.digest = m.digest)
                => Canonical(M \cup {m}) = Canonical(M)
           /\ (Usable(m) /\ \A n \in M : Usable(n) => n.digest # m.digest)
                => Canonical(M \cup {m}) = Canonical(M) \cup {m}
  <1>1. \A n \in M : n.path \in Nat /\ n.path <= m.path /\ ~(m.path <= n.path)
    BY MemberParts
  <1>2. m.path <= m.path BY MemberParts
  <1> HIDE DEF Usable
  <1>3. Canonical(M) \subseteq Canonical(M \cup {m}) BY <1>1 DEF Canonical
  <1>4. Canonical(M \cup {m}) \subseteq Canonical(M) \cup {m} BY DEF Canonical
  <1>5. ~Usable(m) => m \notin Canonical(M \cup {m}) BY DEF Canonical
  <1>6. (\E n \in M : Usable(n) /\ n.digest = m.digest) => m \notin Canonical(M \cup {m})
    BY <1>1 DEF Canonical
  <1>7. (Usable(m) /\ \A n \in M : Usable(n) => n.digest # m.digest) => m \in Canonical(M \cup {m})
    BY <1>2 DEF Canonical
  <1>8. m \notin Canonical(M) BY <1>1, <1>2 DEF Canonical
  <1> QED BY <1>3, <1>4, <1>5, <1>6, <1>7, <1>8

\* Appending to a sequence adds to its range.
LEMMA AppendRange ==
    ASSUME NEW S, NEW s \in Seq(S), NEW e \in S
    PROVE  /\ Append(s, e) \in Seq(S) /\ Range(Append(s, e)) = Range(s) \cup {e}
           /\ DOMAIN s = 1..Len(s) /\ Len(s) \in Nat
           /\ DOMAIN Append(s, e) = 1..(Len(s) + 1)
           /\ Append(s, e)[Len(s) + 1] = e
           /\ \A i \in 1..Len(s) : Append(s, e)[i] = s[i]
  <1>1. /\ Append(s, e) \in Seq(S)
        /\ DOMAIN s = 1..Len(s) /\ Len(s) \in Nat
        /\ DOMAIN Append(s, e) = 1..(Len(s) + 1)
        /\ Append(s, e)[Len(s) + 1] = e
        /\ \A i \in 1..Len(s) : Append(s, e)[i] = s[i]
    OBVIOUS
  <1>2. Range(Append(s, e)) = Range(s) \cup {e}
    <2>1. 1..(Len(s) + 1) = 1..Len(s) \cup {Len(s) + 1} BY <1>1
    <2> QED BY <1>1, <2>1 DEF Range
  <1> QED BY <1>1, <1>2

\* One member more: Collect keeps the reference result.
LEMMA CollectKeepsReference ==
    ASSUME NEW M \in SUBSET Members, NEW m \in Members, \A n \in M : n.path < m.path,
           NEW s \in Collections, Covered(M), Reference(s, M),
           m.kind \notin {"corrupt", "unsafe"}
    PROVE  /\ Collect(m, s) \in Collections
           /\ Covered(M \cup {m}) /\ Reference(Collect(m, s), M \cup {m})
  <1> DEFINE C == Canonical(M)
             D == Canonical(M \cup {m})
             t == Collect(m, s)
  <1>1. /\ s.files \in Seq(Members) /\ s.skipped \subseteq Members /\ s.rejected \subseteq Members
        /\ s.duplicates \subseteq Members \X Members
        /\ s = [files |-> s.files, skipped |-> s.skipped, rejected |-> s.rejected,
                duplicates |-> s.duplicates]
    BY DEF Collections
  <1>2. m \notin M /\ C \subseteq M /\ \A c \in C : Usable(c)
    BY MemberParts DEF Canonical
  <1>3. Originals(m, s.files) = {c \in C : c.digest = m.digest}
    BY DEF Originals, Reference
  <1>4. /\ Range(s.files) = C
        /\ \A i, j \in DOMAIN s.files : i < j => s.files[i].path < s.files[j].path
        /\ s.duplicates = {d \in (M \ C) \X C : Usable(d[1]) /\ d[1].digest = d[2].digest}
        /\ s.skipped = {n \in M : n.kind \in {"hidden", "other"}}
        /\ s.rejected = {n \in M : n.kind \in {"empty", "badwav"}}
    BY DEF Reference
  <1> SUFFICES t \in Collections /\ Covered(M \cup {m}) /\ Reference(t, M \cup {m})
    OBVIOUS
  <1>5. CASE ~Usable(m)
    <2>1. D = C BY <1>5, CanonicalExtended
    <2>2. /\ t.files = s.files /\ t.duplicates = s.duplicates
          /\ t.skipped = s.skipped \cup {n \in {m} : n.kind \in {"hidden", "other"}}
          /\ t.rejected = s.rejected \cup {n \in {m} : n.kind \in {"empty", "badwav"}}
          /\ t \in Collections
      BY <1>1, <1>5, MemberParts DEF Collect, Usable, Kinds, Read, Collections
    <2> HIDE DEF t
    <2>3. Covered(M \cup {m}) BY <1>5, <2>1 DEF Covered
    <2>4. t.duplicates = {d \in ((M \cup {m}) \ D) \X D : Usable(d[1]) /\ d[1].digest = d[2].digest}
      BY <1>2, <1>4, <1>5, <2>1, <2>2
    <2>5. /\ t.skipped = {n \in M \cup {m} : n.kind \in {"hidden", "other"}}
          /\ t.rejected = {n \in M \cup {m} : n.kind \in {"empty", "badwav"}}
      BY <1>4, <2>2
    <2> QED BY <1>4, <2>1, <2>2, <2>3, <2>4, <2>5 DEF Reference
  <1>6. CASE Usable(m) /\ \E n \in M : Usable(n) /\ n.digest = m.digest
    <2>1. D = C BY <1>6, CanonicalExtended
    <2>2. PICK c \in C : c.digest = m.digest BY <1>6 DEF Covered
    <2>3. /\ t.files = s.files /\ t.skipped = s.skipped /\ t.rejected = s.rejected
          /\ t.duplicates = s.duplicates \cup ({m} \X {e \in C : e.digest = m.digest})
          /\ t \in Collections
      BY <1>1, <1>2, <1>3, <1>6, <2>2 DEF Collect, Usable, Read, Collections
    <2> HIDE DEF t
    <2>4. Covered(M \cup {m}) BY <2>1, <2>2 DEF Covered
    <2>5. t.duplicates = {d \in ((M \cup {m}) \ D) \X D : Usable(d[1]) /\ d[1].digest = d[2].digest}
      BY <1>2, <1>4, <1>6, <2>1, <2>3
    <2>6. /\ t.skipped = {n \in M \cup {m} : n.kind \in {"hidden", "other"}}
          /\ t.rejected = {n \in M \cup {m} : n.kind \in {"empty", "badwav"}}
      BY <1>4, <1>6, <2>3 DEF Usable
    <2> QED BY <1>4, <2>1, <2>3, <2>4, <2>5, <2>6 DEF Reference
  <1>7. CASE Usable(m) /\ \A n \in M : Usable(n) => n.digest # m.digest
    <2>1. D = C \cup {m} BY <1>7, CanonicalExtended
    <2>2. /\ t.files = Append(s.files, m) /\ t.skipped = s.skipped /\ t.rejected = s.rejected
          /\ t.duplicates = s.duplicates
          /\ t \in Collections
      <3>1. Originals(m, s.files) = {} BY <1>2, <1>3, <1>7
      <3>2. t = [s EXCEPT !.files = Append(s.files, m)] BY <1>7, <3>1 DEF Collect, Usable, Read
      <3>3. Append(s.files, m) \in Seq(Members) BY <1>1
      <3> HIDE DEF t
      <3> QED BY <1>1, <3>2, <3>3 DEF Collections
    <2> HIDE DEF t
    <2>3. Covered(M \cup {m}) BY <2>1 DEF Covered
    <2>4. t.duplicates = {d \in ((M \cup {m}) \ D) \X D : Usable(d[1]) /\ d[1].digest = d[2].digest}
      <3>1. (M \cup {m}) \ D = M \ C BY <1>2, <2>1
      <3>2. \A d \in (M \ C) \X D : (Usable(d[1]) /\ d[1].digest = d[2].digest) => d[2] # m
        BY <1>7
      <3> HIDE DEF Usable
      <3> QED BY <1>4, <2>1, <2>2, <3>1, <3>2
    <2>5. /\ t.skipped = {n \in M \cup {m} : n.kind \in {"hidden", "other"}}
          /\ t.rejected = {n \in M \cup {m} : n.kind \in {"empty", "badwav"}}
      BY <1>4, <1>7, <2>2 DEF Usable
    <2>6. Range(t.files) = D
      <3>1. Range(Append(s.files, m)) = Range(s.files) \cup {m} BY <1>1, AppendRange
      <3> QED BY <1>4, <2>1, <2>2, <3>1
    <2>7. ASSUME NEW i \in DOMAIN t.files, NEW j \in DOMAIN t.files, i < j
          PROVE  t.files[i].path < t.files[j].path
      <3>1. /\ DOMAIN s.files = 1..Len(s.files) /\ Len(s.files) \in Nat
            /\ DOMAIN t.files = 1..(Len(s.files) + 1)
            /\ t.files[Len(s.files) + 1] = m
            /\ \A k \in 1..Len(s.files) : t.files[k] = s.files[k]
        BY <1>1, <2>2, AppendRange
      <3>2. i \in 1..Len(s.files) BY <2>7, <3>1
      <3>3. s.files[i] \in M BY <1>2, <1>4, <3>1, <3>2 DEF Range
      <3>4. CASE j = Len(s.files) + 1 BY <3>1, <3>2, <3>3, <3>4
      <3>5. CASE j \in 1..Len(s.files) BY <1>4, <2>7, <3>1, <3>2, <3>5
      <3> QED BY <2>7, <3>1, <3>4, <3>5
    <2> QED BY <2>2, <2>3, <2>4, <2>5, <2>6, <2>7 DEF Reference
  <1> QED BY <1>5, <1>6, <1>7

\* Every step keeps the invariant.
LEMMA IngestStep == IngestInv /\ [IngestNext]_ingestVars => IngestInv'
  <1> SUFFICES ASSUME IngestInv, [IngestNext]_ingestVars PROVE IngestInv' OBVIOUS
  <1>1. IngestTypeOK BY DEF IngestInv
  <1>2. ASSUME NEW i \in DOMAIN archive PROVE archive[i] \in Members
    BY <1>1, <1>2 DEF IngestTypeOK
  <1>3. ASSUME Validate PROVE IngestInv'
    <2>1. left = {} /\ state = Empty /\ UNCHANGED <<archive, state>>
      BY <1>3 DEF Validate, IngestInv
    <2>2. CASE Rejected(archive) /\ step' = "unusable" /\ left' = left
      BY <1>1, <2>1, <2>2 DEF IngestInv, IngestTypeOK, Verdicts, Verdict
    <2>3. CASE ~Rejected(archive) /\ step' = "collect" /\ left' = DOMAIN archive
      <3>1. ReadSoFar' = {} BY <2>1, <2>3 DEF ReadSoFar
      <3>2. Reference(Empty, {}) BY DEF Reference, Empty, Canonical, Range
      <3>3. Covered({}) BY DEF Covered
      <3>4. PassInv' BY <2>1, <2>3, <3>1, <3>2, <3>3 DEF PassInv
      <3> QED BY <1>1, <2>1, <2>3, <3>4 DEF IngestInv, IngestTypeOK, Verdicts
    <2> QED BY <1>3, <2>2, <2>3 DEF Validate
  <1>4. ASSUME NEW i \in left, ReadMember(i) PROVE IngestInv'
    <2> DEFINE m == archive[i]
    <2>1. /\ PassInv /\ step = "collect" /\ i \in DOMAIN archive /\ m \in Members
          /\ left' = left \ {i} /\ archive' = archive /\ left \subseteq DOMAIN archive
      BY <1>1, <1>2, <1>4 DEF ReadMember, IngestInv, IngestTypeOK
    <2>2. CASE m.kind = "corrupt" /\ step' = "unusable" /\ state' = state
      <3>1. m \in Range(archive) BY <2>1 DEF Range
      <3>2. Verdict(archive) = "unusable" BY <2>2, <3>1 DEF Verdict
      <3> QED BY <1>1, <2>1, <2>2, <3>2 DEF IngestInv, IngestTypeOK, Verdicts
    <2>3. CASE m.kind # "corrupt" /\ state' = Collect(m, state) /\ step' = step
      <3>1. \A j \in DOMAIN archive : j # i => archive[j].path # m.path
        BY <2>1 DEF PassInv, Rejected
      <3>2. \A j \in left' : m.path < archive[j].path
        <4>1. SUFFICES ASSUME NEW j \in left' PROVE m.path < archive[j].path OBVIOUS
        <4>2. /\ j \in left /\ j # i /\ j \in DOMAIN archive
              /\ m.path <= archive[j].path /\ archive[j].path # m.path
          BY <1>4, <2>1, <3>1 DEF ReadMember
        <4>3. m.path \in Nat /\ archive[j].path \in Nat BY <1>2, <2>1, <4>2, MemberParts
        <4> QED BY <4>2, <4>3
      <3>3. \A n \in ReadSoFar : n.path < m.path BY <2>1 DEF ReadSoFar, PassInv
      <3>4. ReadSoFar \in SUBSET Members BY <1>2 DEF ReadSoFar
      <3>5. m.kind # "unsafe" BY <2>1 DEF PassInv, Rejected
      <3>6. ReadSoFar' = ReadSoFar \cup {m} BY <1>4, <2>1 DEF ReadSoFar
      <3>7. /\ state' \in Collections
            /\ Covered(ReadSoFar') /\ Reference(state', ReadSoFar')
        BY <1>1, <2>1, <2>3, <3>3, <3>4, <3>5, <3>6, CollectKeepsReference
           DEF IngestTypeOK, PassInv
      <3>8. /\ \A k \in DOMAIN archive' \ left' : archive'[k].kind # "corrupt"
            /\ \A k \in DOMAIN archive' \ left', j \in left' : archive'[k].path < archive'[j].path
        BY <2>1, <2>3, <3>2 DEF PassInv
      <3>9. ~Rejected(archive') BY <2>1 DEF PassInv
      <3>10. PassInv' BY <3>7, <3>8, <3>9 DEF PassInv
      <3> QED BY <1>1, <2>1, <2>3, <3>7, <3>10 DEF IngestInv, IngestTypeOK, Verdicts
    <2> QED BY <1>4, <2>2, <2>3 DEF ReadMember
  <1>5. ASSUME Conclude PROVE IngestInv'
    <2>1. PassInv /\ left = {} /\ UNCHANGED <<archive, left, state>>
      BY <1>5 DEF Conclude, IngestInv
    <2>2. ReadSoFar = Range(archive) BY <2>1 DEF ReadSoFar, Range
    <2>3. Range(state.files) = Canonical(Range(archive)) BY <2>1, <2>2 DEF PassInv, Reference
    <2>4. \A m \in Range(archive) : m.kind # "corrupt" BY <2>1 DEF PassInv, Range
    <2>5. state.files = <<>> <=> Canonical(Range(archive)) = {}
      <3>1. state.files \in Seq(Members) BY <1>1 DEF IngestTypeOK, Collections
      <3>2. state.files # <<>> => state.files[1] \in Range(state.files) BY <3>1 DEF Range
      <3>3. Range(<<>>) = {} BY DEF Range
      <3> QED BY <2>3, <3>2, <3>3
    <2>6. step' \in Verdicts /\ step' = Verdict(archive)
      BY <1>5, <2>1, <2>3, <2>4, <2>5 DEF Conclude, Verdict, Verdicts, DecoderPending, PassInv
    <2>7. PassInv' BY <2>1 DEF PassInv, ReadSoFar
    <2> QED BY <1>1, <2>1, <2>6, <2>7 DEF IngestInv, IngestTypeOK, Verdicts
  <1>6. ASSUME IngestFails PROVE IngestInv'
    BY <1>1, <1>6 DEF IngestFails, IngestInv, IngestTypeOK, Verdicts
  <1>7. CASE UNCHANGED ingestVars
    BY <1>7 DEF ingestVars, IngestInv, IngestTypeOK, PassInv, ReadSoFar
  <1> QED BY <1>3, <1>4, <1>5, <1>6, <1>7 DEF IngestNext

\* For every archive, whatever the order of its members, a pass comes to the reference verdict
\* and publishes the reference result.
THEOREM IngestionIsCorrect == IngestSpec => []IngestionMatchesReference
  <1>1. IngestInit => IngestInv
    BY IngestionAssumption DEF IngestInit, IngestInv, IngestTypeOK, Verdicts, Collections, Empty
  <1>2. IngestInv => IngestionMatchesReference
    <2>1. left = {} => ReadSoFar = Range(archive) BY DEF ReadSoFar, Range
    <2> QED BY <2>1 DEF IngestInv, IngestionMatchesReference, PassInv, Verdicts
  <1> QED BY <1>1, <1>2, IngestStep, PTL DEF IngestSpec

-----------------------------------------------------------------------------
(* The order of the ZIP directory does not matter.                         *)

\* The paths of a sequence of members rise.
Rising(f) == \A i, j \in DOMAIN f : i < j => f[i].path < f[j].path

\* Two rising sequences of the same members agree wherever both have one.
LEMMA RisingAgree ==
    ASSUME NEW f \in Seq(Members), NEW g \in Seq(Members), Rising(f), Rising(g),
           Range(f) = Range(g)
    PROVE  \A i \in DOMAIN f \cap DOMAIN g : f[i] = g[i]
  <1> SUFFICES ASSUME \E i \in DOMAIN f \cap DOMAIN g : f[i] # g[i] PROVE FALSE OBVIOUS
  <1> DEFINE Differ == {i \in DOMAIN f \cap DOMAIN g : f[i] # g[i]}
  <1>1. DOMAIN f = 1..Len(f) /\ DOMAIN g = 1..Len(g) /\ Len(f) \in Nat /\ Len(g) \in Nat
    OBVIOUS
  <1>2. Differ \subseteq Nat /\ Differ # {} BY <1>1
  <1> HIDE DEF Differ
  <1>3. PICK i \in Differ : \A k \in Differ : i <= k BY <1>2, LeastKey
  <1>4. \A k \in Differ : ~(k < i) BY <1>2, <1>3
  <1>5. i \in DOMAIN f /\ i \in DOMAIN g /\ f[i] # g[i] /\ i \in Nat BY <1>2 DEF Differ
  <1>6. /\ \A k \in DOMAIN f : f[k] \in Members /\ f[k].path \in Nat
        /\ \A k \in DOMAIN g : g[k] \in Members /\ g[k].path \in Nat
    BY MemberParts
  <1>7. ASSUME NEW k \in Nat, k < i PROVE k \in DOMAIN f /\ k \in DOMAIN g => f[k] = g[k]
    BY <1>4, <1>7 DEF Differ
  <1>8. PICK k \in DOMAIN g : g[k] = f[i] BY <1>5 DEF Range
  <1>9. PICK l \in DOMAIN f : f[l] = g[i] BY <1>5 DEF Range
  <1>10. k \in Nat /\ l \in Nat /\ k # i /\ l # i BY <1>1, <1>5, <1>8, <1>9
  <1>11. ~(k < i)
    <2> SUFFICES ASSUME k < i PROVE FALSE OBVIOUS
    <2>1. k \in DOMAIN f BY <1>1, <1>5, <1>10
    <2>2. f[k] = f[i] BY <1>7, <1>8, <1>10, <2>1
    <2>3. f[k].path < f[i].path BY <1>5, <2>1 DEF Rising
    <2> QED BY <1>5, <1>6, <2>2, <2>3
  <1>12. ~(l < i)
    <2> SUFFICES ASSUME l < i PROVE FALSE OBVIOUS
    <2>1. l \in DOMAIN g BY <1>1, <1>5, <1>10
    <2>2. g[l] = g[i] BY <1>7, <1>9, <1>10, <2>1
    <2>3. g[l].path < g[i].path BY <1>5, <2>1 DEF Rising
    <2> QED BY <1>5, <1>6, <2>2, <2>3
  <1>13. i < k /\ i < l BY <1>5, <1>10, <1>11, <1>12
  <1>14. g[i].path < f[i].path BY <1>5, <1>8, <1>13 DEF Rising
  <1>15. f[i].path < g[i].path BY <1>5, <1>9, <1>13 DEF Rising
  <1> QED BY <1>5, <1>6, <1>14, <1>15

\* The first of them is not longer than the second.
LEMMA RisingNotLonger ==
    ASSUME NEW f \in Seq(Members), NEW g \in Seq(Members), Rising(f), Rising(g),
           Range(f) = Range(g)
    PROVE  Len(f) <= Len(g)
  <1> SUFFICES ASSUME ~(Len(f) <= Len(g)) PROVE FALSE OBVIOUS
  <1> DEFINE n == Len(g) + 1
  <1>1. DOMAIN f = 1..Len(f) /\ DOMAIN g = 1..Len(g) /\ Len(f) \in Nat /\ Len(g) \in Nat
    OBVIOUS
  <1>2. n \in DOMAIN f /\ \A k \in DOMAIN g : k \in DOMAIN f /\ k < n BY <1>1
  <1> HIDE DEF n
  <1>3. PICK k \in DOMAIN g : g[k] = f[n] BY <1>2 DEF Range
  <1>4. f[k] = f[n] BY <1>2, <1>3, RisingAgree
  <1>5. f[k].path < f[n].path BY <1>2, <1>3 DEF Rising
  <1>6. f[n].path \in Nat BY <1>2, MemberParts
  <1> QED BY <1>4, <1>5, <1>6

\* So there is one rising sequence of a set of members.
LEMMA RisingUnique ==
    ASSUME NEW f \in Seq(Members), NEW g \in Seq(Members), Rising(f), Rising(g),
           Range(f) = Range(g)
    PROVE  f = g
  <1>1. Len(f) <= Len(g) BY RisingNotLonger
  <1>2. Len(g) <= Len(f) BY RisingNotLonger
  <1>3. \A i \in DOMAIN f \cap DOMAIN g : f[i] = g[i] BY RisingAgree
  <1>4. Len(f) = Len(g) BY <1>1, <1>2
  <1> QED BY <1>3, <1>4

\* The reference result for a set of members is unique.
LEMMA ReferenceUnique ==
    ASSUME NEW M \in SUBSET Members, NEW s \in Collections, NEW t \in Collections,
           Reference(s, M), Reference(t, M)
    PROVE  s = t
  <1>1. /\ s.files \in Seq(Members) /\ Rising(s.files)
        /\ t.files \in Seq(Members) /\ Rising(t.files)
        /\ Range(s.files) = Range(t.files)
    BY DEF Reference, Collections, Rising
  <1>2. s.files = t.files BY <1>1, RisingUnique
  <1>3. s.skipped = t.skipped /\ s.rejected = t.rejected /\ s.duplicates = t.duplicates
    BY DEF Reference
  <1> QED BY <1>2, <1>3 DEF Collections

\* The members of a in another order.
Reordered(a, b, p) ==
    p \in Bijection(DOMAIN a, DOMAIN b) /\ \A i \in DOMAIN a : b[p[i]] = a[i]

\* An archive is refused in every order of its members, or in none.
LEMMA RejectedReordered ==
    ASSUME NEW a \in Seq(Members), NEW b \in Seq(Members), NEW p, Reordered(a, b, p)
    PROVE  Range(a) = Range(b) /\ (Rejected(a) <=> Rejected(b))
  <1> DEFINE Heavy(x) == {i \in DOMAIN x : Weight(x[i]) = 1}
  <1>1. /\ p \in [DOMAIN a -> DOMAIN b]
        /\ \A i, j \in DOMAIN a : p[i] = p[j] => i = j
        /\ \A k \in DOMAIN b : \E i \in DOMAIN a : p[i] = k
        /\ \A i \in DOMAIN a : b[p[i]] = a[i]
    BY DEF Reordered, Bijection, Injection, Surjection, IsInjective
  <1>2. DOMAIN a = 1..Len(a) /\ DOMAIN b = 1..Len(b) /\ Len(a) \in Nat /\ Len(b) \in Nat
    OBVIOUS
  <1>3. Range(a) = Range(b)
    <2>1. Range(a) \subseteq Range(b) BY <1>1 DEF Range
    <2>2. Range(b) \subseteq Range(a) BY <1>1 DEF Range
    <2> QED BY <2>1, <2>2
  <1>4. Len(a) = Len(b)
    <2>1. ASSUME NEW n \in Nat PROVE IsFiniteSet(1..n) /\ Cardinality(1..n) = n
      <3>1. 1 \in Int /\ n \in Int OBVIOUS
      <3>2. IsFiniteSet(1..n) /\ Cardinality(1..n) = IF 1 > n THEN 0 ELSE n - 1 + 1
        BY <3>1, FS_Interval, Zenon
      <3> QED BY <3>2
    <2>2. ExistsBijection(1..Len(a), 1..Len(b)) BY <1>2 DEF Reordered, ExistsBijection
    <2> QED BY <1>2, <2>1, <2>2, FS_Bijection
  <1>5. Cardinality(Heavy(a)) = Cardinality(Heavy(b))
    <2> DEFINE q == [i \in Heavy(a) |-> p[i]]
    <2>1. q \in [Heavy(a) -> Heavy(b)] BY <1>1
    <2>2. \A i, j \in Heavy(a) : q[i] = q[j] => i = j BY <1>1
    <2>3. \A k \in Heavy(b) : \E i \in Heavy(a) : q[i] = k
      <3> SUFFICES ASSUME NEW k \in Heavy(b) PROVE \E i \in Heavy(a) : q[i] = k OBVIOUS
      <3>1. PICK i \in DOMAIN a : p[i] = k BY <1>1
      <3>2. i \in Heavy(a) BY <1>1, <3>1
      <3> QED BY <3>1, <3>2
    <2>4. IsFiniteSet(Heavy(a))
      <3>1. IsFiniteSet(1..Len(a)) BY <1>2, FS_Interval
      <3>2. Heavy(a) \subseteq 1..Len(a) BY <1>2
      <3> QED BY <3>1, <3>2, FS_Subset
    <2> HIDE DEF q, Heavy
    <2>5. ExistsBijection(Heavy(a), Heavy(b))
      BY <2>1, <2>2, <2>3
         DEF ExistsBijection, Bijection, Injection, Surjection, IsInjective
    <2> QED BY <2>4, <2>5, FS_Bijection
  <1>6. (\E i \in DOMAIN a : a[i].kind = "unsafe") <=> (\E i \in DOMAIN b : b[i].kind = "unsafe")
    BY <1>1
  <1>7. (\E i, j \in DOMAIN a : i # j /\ a[i].path = a[j].path)
          <=> (\E i, j \in DOMAIN b : i # j /\ b[i].path = b[j].path)
    <2>1. ASSUME NEW i \in DOMAIN a, NEW j \in DOMAIN a, i # j, a[i].path = a[j].path
          PROVE  \E k, l \in DOMAIN b : k # l /\ b[k].path = b[l].path
      <3>1. p[i] \in DOMAIN b /\ p[j] \in DOMAIN b /\ p[i] # p[j] /\ b[p[i]] = a[i] /\ b[p[j]] = a[j]
        BY <1>1, <2>1
      <3> QED BY <2>1, <3>1
    <2>2. ASSUME NEW i \in DOMAIN b, NEW j \in DOMAIN b, i # j, b[i].path = b[j].path
          PROVE  \E k, l \in DOMAIN a : k # l /\ a[k].path = a[l].path
      <3>1. PICK k \in DOMAIN a : p[k] = i BY <1>1
      <3>2. PICK l \in DOMAIN a : p[l] = j BY <1>1
      <3> QED BY <1>1, <2>2, <3>1, <3>2
    <2> QED BY <2>1, <2>2
  <1> QED BY <1>3, <1>4, <1>5, <1>6, <1>7 DEF Rejected

\* The promise of ingest_dataset's docstring, a deterministic manifest: two archives with the
\* same members in any two orders have the same verdict, and the reference result, which
\* every pass publishes by IngestionIsCorrect, is the same to the numbers of the files.
THEOREM IngestionIsDeterministic ==
    ASSUME NEW a \in Seq(Members), NEW b \in Seq(Members), NEW p, Reordered(a, b, p)
    PROVE  /\ Verdict(a) = Verdict(b)
           /\ \A s, t \in Collections : Reference(s, Range(a)) /\ Reference(t, Range(b)) => s = t
  <1>1. Range(a) = Range(b) /\ (Rejected(a) <=> Rejected(b)) BY RejectedReordered
  <1>2. Range(a) \in SUBSET Members BY DEF Range
  <1>3. Verdict(a) = Verdict(b) BY <1>1 DEF Verdict
  <1>4. ASSUME NEW s \in Collections, NEW t \in Collections,
               Reference(s, Range(a)), Reference(t, Range(b))
        PROVE  s = t
    BY <1>1, <1>2, <1>4, ReferenceUnique
  <1> QED BY <1>3, <1>4
=============================================================================
