--------------------------- MODULE ModelReviewProofs ---------------------------
(***************************************************************************)
(* The proofs about the review of models, for every value of the           *)
(* constants: first that storage matches the ledger of a test set, then    *)
(* what the dashboards of the champion registry show, what a mutation      *)
(* replaces and that a settled intent stays settled.                       *)
(***************************************************************************)
EXTENDS TestSets, ModelRegistry, FiniteSetTheorems, SequenceTheorems, TLAPS

\* The requests that keep the row lock of the test set, and those of them that
\* finalize it or delete it.
Finalizing == {"checkItems", "storeManifest", "ready"}
Deleting == {"deleteObjects", "deleteRow"}

Settled == {"none", "completed", "expired"}
Taking == Open \cup {"completed"}

\* What a request knows.  A session has one finalizer in its life, and what that
\* finalizer may take back was not completed.  The lock keeps the sessions settled.
ProcOK(p) ==
    /\ pc[p] \in WriterLabels \cup FinalizerLabels \cup {"clean"} => ses[p] \in Uploads
    /\ pc[p] \in FinalizerLabels \ {"unstage"} =>
          \/ Owns(p)
          \/ up[ses[p]].st \in Ended \cup {"gone"}
    /\ pc[p] \in Finalizing \cup Deleting => held = p
    /\ pc[p] \in Finalizing =>
          /\ testSet = "draft" /\ Completed # {}
          /\ \A s \in Uploads : up[s].st \in Settled
    /\ pc[p] \in {"storeManifest", "ready"} => \A s \in Completed : canon[s]
    /\ pc[p] \in Deleting => /\ testSet \in {"draft", "failed"}
                             /\ \A s \in Uploads : up[s].st \notin Open

\* An item has one session that holds it.
ItemsOK ==
    \A s, t \in Uploads : s # t /\ up[s].st \in Taking /\ up[t].st \in Taking => up[s].item # up[t].item

\* The cleanup of a session starts after its last write could begin and ends after the
\* last one has ended.
CleanOK(s) ==
    /\ up[s].clean # "wait" => \/ up[s].st \in Ended
                               \/ up[s].clean = "due" /\ up[s].st = "pending" /\ up[s].past
    /\ up[s].clean \in {"confirm", "done"} => ~Writing(s)
    /\ up[s].clean = "done" => staging[s] = "none"

SetOK ==
    /\ testSet # "deleted" => \A s \in Uploads : up[s].st # "gone"
    /\ testSet = "ready" => /\ Completed # {}
                            /\ \A s \in Uploads : up[s].st \in Settled
                            /\ \A s \in Completed : canon[s]

TestSetInv ==
    /\ TypeOK
    /\ \A p \in Procs : ProcOK(p)
    /\ ItemsOK
    /\ \A s \in Uploads : CleanOK(s)
    /\ SetOK
-----------------------------------------------------------------------------
(* Types *)

LEMMA Typed ==
    TypeOK <=> /\ testSet \in {"draft", "ready", "failed", "deleted"}
               /\ up \in [Uploads -> Rows] /\ staging \in [Uploads -> {"none", "good", "bad"}]
               /\ canon \in [Uploads -> BOOLEAN] /\ manifest \in BOOLEAN
               /\ pc \in [Procs -> Labels] /\ ses \in [Procs -> Uploads \cup {None}]
               /\ published \in [Procs -> BOOLEAN] /\ held \in Procs \cup {None}
               /\ backend \in Backends /\ faults \in 0..MaxFaults
BY DEF TypeOK

\* What a move of a request does.
LEMMA Moved ==
    ASSUME TypeOK, NEW p \in Procs, NEW s, NEW label, label # "idle", Goto(p, s, label)
    PROVE  /\ pc'[p] = label /\ ses'[p] = s /\ published' = published
           /\ \A q \in Procs \ {p} : pc'[q] = pc[q] /\ ses'[q] = ses[q]
           /\ s \in Uploads \cup {None} /\ label \in Labels =>
                /\ pc' \in [Procs -> Labels] /\ ses' \in [Procs -> Uploads \cup {None}]
                /\ published' \in [Procs -> BOOLEAN]
BY Typed DEF Goto

LEMMA Stopped ==
    ASSUME TypeOK, NEW p \in Procs, Stop(p)
    PROVE  /\ pc'[p] = "idle" /\ ses'[p] = None
           /\ \A q \in Procs \ {p} : pc'[q] = pc[q] /\ ses'[q] = ses[q]
           /\ pc' \in [Procs -> Labels] /\ ses' \in [Procs -> Uploads \cup {None}]
           /\ published' \in [Procs -> BOOLEAN]
BY Typed DEF Stop, Goto, Labels

LEMMA FaultTyped ==
    ASSUME TypeOK, Fault \/ faults' = faults
    PROVE  faults' \in 0..MaxFaults
BY Typed, TestSetAssumption DEF Fault

\* A row is left without tokens.
LEMMA EndRow ==
    ASSUME TypeOK, NEW s \in Uploads, NEW st \in Statuses
    PROVE  /\ End(s, st) \in [Uploads -> Rows]
           /\ End(s, st)[s] = Ending(up[s], st) /\ Ending(up[s], st) \in Rows
           /\ End(s, st)[s].st = st /\ End(s, st)[s].item = up[s].item
           /\ End(s, st)[s].clean = up[s].clean
           /\ \A t \in Uploads \ {s} : End(s, st)[t] = up[t]
<1>1. TestSetAssumption /\ up \in [Uploads -> Rows]
  BY Typed, TestSetAssumption
<1>2. Ending(up[s], st) \in Rows
  BY <1>1 DEF Ending, Rows
<1> QED BY <1>1, <1>2 DEF End, Ending
-----------------------------------------------------------------------------
(* What every step does to rows, objects and the request that takes it *)

\* How a step of p, or of nobody, may change a session.
RowStep(p, s) ==
    \/ /\ up'[s].st = up[s].st /\ up'[s].item = up[s].item
       /\ up[s].st = "finalizing" => up'[s].ftok = up[s].ftok
    \/ up[s].st \in {"pending", "failed"} /\ up'[s].st = "expired"
    \/ up[s].st = "finalizing" /\ up'[s].st = "failed"
    \/ /\ Locked /\ testSet = "draft" /\ up'[s].item = up[s].item
       /\ \/ up[s].st = "pending" /\ up'[s].st = "finalizing"
          \/ up[s].st = "finalizing" /\ up[s].ftok = p /\ up'[s].st = "completed"
    \/ /\ Locked /\ testSet = "draft" /\ up[s].st = "none" /\ up'[s].st = "pending"
       /\ \A t \in Uploads \ {s} : up'[t].st \in Taking => up'[t].item # up'[s].item
    \/ p \in Procs /\ held = p /\ up'[s].st = "gone" /\ testSet' = "deleted"

\* How it may take away a published object.
CanonStep(p, s) ==
    \/ canon[s] => canon'[s]
    \/ p \in Procs /\ pc[p] = "unpublish" /\ ses[p] = s
    \/ p \in Procs /\ held = p /\ testSet \in {"draft", "failed"}

\* How it may change what the cleanup relies on.
CleanStep(s) ==
    /\ up'[s].clean = up[s].clean
    /\ up[s].st \in Ended => up'[s].st \in Ended
    /\ up[s].st = "pending" /\ up[s].past => \/ up'[s].st \in Ended
                                             \/ up'[s].st = "pending" /\ up'[s].past
    /\ staging'[s] \in {staging[s], "none"} \/ up[s].clean \notin {"confirm", "done"}

WriterStep(p) ==
    p \in Procs /\ pc'[p] \in WriterLabels =>
        (pc[p] \in WriterLabels /\ ses'[p] = ses[p]) \/ up'[ses'[p]].clean \notin {"confirm", "done"}

OthersStay(p) == \A q \in Procs \ {p} : pc'[q] = pc[q] /\ ses'[q] = ses[q]

ReadyOK ==
    /\ Completed # {}
    /\ \A s \in Uploads : up[s].st \in Settled
    /\ \A s \in Completed : canon[s]

\* The lock and the status of the set: only the holder lets go of the one and changes
\* the other.
LockStep(p) ==
    /\ held' = held \/ Locked \/ (p \in Procs /\ held = p)
    /\ \/ testSet' = testSet
       \/ /\ p \in Procs /\ held = p /\ testSet \in {"draft", "failed"}
          /\ testSet' = "ready" => ReadyOK'

Shape(p) ==
    /\ OthersStay(p) /\ LockStep(p) /\ WriterStep(p)
    /\ p \in Procs => ProcOK(p)'
    /\ \A s \in Uploads : RowStep(p, s) /\ CanonStep(p, s) /\ (CleanStep(s) \/ CleanOK(s)')

\* The sessions and objects that a step of that shape leaves as they are while somebody
\* else holds the lock, or in a ready set.
LEMMA SettledKeeps ==
    ASSUME TestSetInv, NEW p, Shape(p), ~Locked \/ testSet # "draft",
           ~(p \in Procs /\ held = p) \/ (testSet' # "deleted" /\ testSet = "ready"),
           \A s \in Uploads : up[s].st \in Settled
    PROVE  /\ \A s \in Uploads : up'[s].st = up[s].st
           /\ Completed' = Completed
           /\ \A s \in Completed : canon[s] => canon'[s]
<1>1. ASSUME NEW s \in Uploads PROVE up'[s].st = up[s].st
  <2>1. RowStep(p, s)
    BY DEF Shape
  <2>2. up[s].st \in Settled
    OBVIOUS
  <2> QED BY <2>1, <2>2 DEF RowStep, Settled
<1>2. Completed' = Completed
  BY <1>1 DEF Completed
<1>3. ASSUME NEW s \in Completed, canon[s] PROVE canon'[s]
  <2>1. CanonStep(p, s) /\ s \in Uploads /\ up[s].st = "completed"
    BY DEF Shape, Completed
  <2>2. ~(p \in Procs /\ pc[p] = "unpublish" /\ ses[p] = s)
    <3> SUFFICES ASSUME p \in Procs, pc[p] = "unpublish", ses[p] = s PROVE FALSE
      OBVIOUS
    <3>1. ProcOK(p)
      BY DEF TestSetInv
    <3>2. up[ses[p]].st = "completed"
      BY <2>1
    <3> QED BY <3>1, <3>2 DEF ProcOK, Owns, FinalizerLabels, Ended
  <2> QED BY <1>3, <2>1, <2>2 DEF CanonStep
<1> QED BY <1>1, <1>2, <1>3

\* Whatever has that shape keeps the invariant.
LEMMA ShapeSuffices ==
    ASSUME TestSetInv, NEW p, TypeOK', Shape(p)
    PROVE  TestSetInv'
<1>s. \A s \in Uploads : RowStep(p, s) /\ CanonStep(p, s)
  BY DEF Shape
<1>1. ASSUME NEW q \in Procs PROVE ProcOK(q)'
  <2>1. CASE q = p
    BY <2>1 DEF Shape
  <2>2. CASE q # p
    <3>1. pc'[q] = pc[q] /\ ses'[q] = ses[q]
      BY <2>2 DEF Shape, OthersStay
    <3>2. ProcOK(q)
      BY DEF TestSetInv
    <3>3. ASSUME pc[q] \in FinalizerLabels \ {"unstage"}
          PROVE  Owns(q)' \/ up'[ses[q]].st \in Ended \cup {"gone"}
      <4>0. PICK g \in Uploads : g = ses[q]
        BY <3>2, <3>3 DEF ProcOK
      <4>1. RowStep(p, g)
        BY <1>s
      <4>2. (up[g].st = "finalizing" /\ up[g].ftok = q) \/ up[g].st \in Ended \cup {"gone"}
        BY <3>2, <3>3, <4>0 DEF ProcOK, Owns
      <4>3. (up'[g].st = "finalizing" /\ up'[g].ftok = q) \/ up'[g].st \in Ended \cup {"gone"}
        BY <2>2, <4>1, <4>2 DEF RowStep, Ended
      <4> QED BY <3>1, <4>0, <4>3 DEF Owns
    <3>4. ASSUME pc[q] \in Finalizing \cup Deleting
          PROVE  held = q /\ held' = q /\ ~Locked /\ ~(p \in Procs /\ held = p) /\ testSet' = testSet
      <4>1. held = q /\ q # None
        BY <3>2, <3>4, TestSetAssumption DEF ProcOK
      <4> QED BY <2>2, <4>1 DEF Shape, LockStep, Locked
    <3>5. ASSUME pc[q] \in Finalizing
          PROVE  /\ testSet' = "draft" /\ Completed' # {}
                 /\ \A s \in Uploads : up'[s].st \in Settled
                 /\ pc[q] \in {"storeManifest", "ready"} => \A s \in Completed' : canon'[s]
      <4>1. /\ testSet = "draft" /\ Completed # {}
            /\ \A s \in Uploads : up[s].st \in Settled
            /\ pc[q] \in {"storeManifest", "ready"} => \A s \in Completed : canon[s]
        BY <3>2, <3>5 DEF ProcOK
      <4>2. testSet' = "draft" /\ ~Locked /\ ~(p \in Procs /\ held = p)
        BY <3>4, <3>5, <4>1
      <4>3. /\ \A s \in Uploads : up'[s].st = up[s].st
            /\ Completed' = Completed
            /\ \A s \in Completed : canon[s] => canon'[s]
        BY <4>1, <4>2, SettledKeeps
      <4> QED BY <4>1, <4>2, <4>3
    <3>6. ASSUME pc[q] \in Deleting
          PROVE  testSet' \in {"draft", "failed"} /\ \A s \in Uploads : up'[s].st \notin Open
      <4>1. testSet \in {"draft", "failed"} /\ \A s \in Uploads : up[s].st \notin Open
        BY <3>2, <3>6 DEF ProcOK
      <4>2. testSet' = testSet /\ ~Locked
        BY <3>4, <3>6
      <4> QED BY <1>s, <4>1, <4>2 DEF RowStep, Open
    <3>7. {"storeManifest", "ready"} \subseteq Finalizing
      BY DEF Finalizing
    <3> HIDE DEF Finalizing, Deleting
    <3> QED BY <3>1, <3>2, <3>3, <3>4, <3>5, <3>6, <3>7 DEF ProcOK
  <2> QED BY <2>1, <2>2
<1>2. ItemsOK'
  <2> SUFFICES ASSUME NEW s \in Uploads, NEW t \in Uploads, s # t,
                      up'[s].st \in Taking, up'[t].st \in Taking
               PROVE  up'[s].item # up'[t].item
    BY DEF ItemsOK
  <2>1. RowStep(p, s) /\ RowStep(p, t)
    BY <1>s
  <2>2. ASSUME NEW x \in Uploads, up'[x].st \in Taking, RowStep(p, x)
        PROVE  \/ up[x].st \in Taking /\ up'[x].item = up[x].item
               \/ \A y \in Uploads \ {x} : up'[y].st \in Taking => up'[y].item # up'[x].item
    BY <2>2 DEF RowStep, Taking, Open
  <2>3. CASE up[s].st \in Taking /\ up'[s].item = up[s].item /\ up[t].st \in Taking /\ up'[t].item = up[t].item
    BY <2>3 DEF TestSetInv, ItemsOK
  <2>4. CASE \A y \in Uploads \ {s} : up'[y].st \in Taking => up'[y].item # up'[s].item
    BY <2>4
  <2>5. CASE \A y \in Uploads \ {t} : up'[y].st \in Taking => up'[y].item # up'[t].item
    BY <2>5
  <2> QED BY <2>1, <2>2, <2>3, <2>4, <2>5
<1>3. ASSUME NEW s \in Uploads PROVE CleanOK(s)'
  <2>1. CASE CleanOK(s)'
    BY <2>1
  <2>2. CASE CleanStep(s)
    <3>0. CleanOK(s)
      BY DEF TestSetInv
    <3>1. up'[s].clean = up[s].clean
      BY <2>2 DEF CleanStep
    <3>2. up'[s].clean # "wait" => \/ up'[s].st \in Ended
                                   \/ up'[s].clean = "due" /\ up'[s].st = "pending" /\ up'[s].past
      BY <2>2, <3>0 DEF CleanStep, CleanOK
    <3>3. up'[s].clean \in {"confirm", "done"} => ~Writing(s)'
      <4> SUFFICES ASSUME up'[s].clean \in {"confirm", "done"}, NEW q \in Procs,
                          ses'[q] = s, pc'[q] \in WriterLabels
                   PROVE  FALSE
        BY DEF Writing
      <4>1. ~Writing(s)
        BY <3>0, <3>1 DEF CleanOK
      <4>2. CASE q = p
        BY <4>1, <4>2 DEF Shape, WriterStep, Writing
      <4>3. CASE q # p
        BY <4>1, <4>3 DEF Shape, OthersStay, Writing
      <4> QED BY <4>2, <4>3
    <3>4. up'[s].clean = "done" => staging'[s] = "none"
      BY <2>2, <3>0, <3>1 DEF CleanStep, CleanOK
    <3> QED BY <3>2, <3>3, <3>4 DEF CleanOK
  <2> QED BY <2>1, <2>2 DEF Shape
<1>4. SetOK'
  <2>1. ASSUME testSet' # "deleted", NEW s \in Uploads PROVE up'[s].st # "gone"
    <3>1. testSet # "deleted"
      BY <2>1 DEF Shape, LockStep
    <3>2. up[s].st # "gone"
      BY <3>1 DEF TestSetInv, SetOK
    <3> QED BY <1>s, <2>1, <3>2 DEF RowStep
  <2>2. ASSUME testSet' = "ready" PROVE ReadyOK'
    <3>1. CASE testSet' # testSet
      BY <2>2, <3>1 DEF Shape, LockStep
    <3>2. CASE testSet' = testSet
      <4>1. ReadyOK
        BY <2>2, <3>2 DEF TestSetInv, SetOK, ReadyOK
      <4>2. /\ \A s \in Uploads : up'[s].st = up[s].st
            /\ Completed' = Completed
            /\ \A s \in Completed : canon[s] => canon'[s]
        BY <2>2, <3>2, <4>1, SettledKeeps DEF ReadyOK
      <4> QED BY <4>1, <4>2 DEF ReadyOK
    <3> QED BY <3>1, <3>2
  <2> QED BY <2>1, <2>2 DEF SetOK, ReadyOK
<1> QED BY <1>1, <1>2, <1>3, <1>4 DEF TestSetInv
-----------------------------------------------------------------------------
(* Why the steps have that shape *)

\* A session that a step leaves alone.
LEMMA SameRow ==
    ASSUME NEW p, NEW s, up'[s] = up[s]
    PROVE  /\ RowStep(p, s)
           /\ staging'[s] \in {staging[s], "none"} \/ up[s].clean \notin {"confirm", "done"} => CleanStep(s)
BY DEF RowStep, CleanStep

\* A session whose other fields change.
LEMMA SameStatus ==
    ASSUME NEW p, NEW s, up'[s].st = up[s].st, up'[s].item = up[s].item,
           up'[s].ftok = up[s].ftok, up'[s].clean = up[s].clean,
           up[s].past => up'[s].past, staging'[s] \in {staging[s], "none"}
    PROVE  RowStep(p, s) /\ CleanStep(s)
BY DEF RowStep, CleanStep

\* A request that has ended, or that needs no more than its session.
LEMMA SimpleProc ==
    ASSUME NEW p \in Procs,
           \/ pc'[p] \in {"idle", "dropManifest"}
           \/ pc'[p] \in WriterLabels \cup {"clean", "unstage"} /\ ses'[p] \in Uploads
    PROVE  ProcOK(p)'
BY DEF ProcOK, WriterLabels, FinalizerLabels, Finalizing, Deleting

\* A step that changes neither the set nor its lock.
LEMMA Unlocked ==
    ASSUME NEW p, UNCHANGED <<testSet, held>>
    PROVE  LockStep(p)
BY DEF LockStep

\* A step of a request that changes no session.
LEMMA MoveSuffices ==
    ASSUME TestSetInv, NEW p \in Procs, TypeOK', ProcOK(p)', OthersStay(p), WriterStep(p),
           LockStep(p), up' = up, \A s \in Uploads : CanonStep(p, s),
           \A s \in Uploads : staging'[s] \in {staging[s], "none"} \/ up[s].clean \notin {"confirm", "done"}
    PROVE  TestSetInv'
<1>1. ASSUME NEW s \in Uploads PROVE RowStep(p, s) /\ CleanStep(s)
  BY SameRow
<1> QED BY <1>1, ShapeSuffices DEF Shape

\* The end of a session, whoever ends it.
LEMMA EndStep ==
    ASSUME TestSetInv, NEW p, NEW s \in Uploads, NEW st, up' = End(s, st),
           <<up[s].st, st>> \in {<<"pending", "expired">>, <<"finalizing", "failed">>},
           \A t \in Uploads : staging'[t] \in {staging[t], "none"}
    PROVE  /\ up' \in [Uploads -> Rows] /\ up'[s].st = st
           /\ \A t \in Uploads : RowStep(p, t) /\ CleanStep(t)
<1>1. TypeOK /\ st \in Statuses
  BY DEF TestSetInv, Statuses
<1>2. /\ up' \in [Uploads -> Rows] /\ up'[s].st = st /\ up'[s].item = up[s].item
      /\ up'[s].clean = up[s].clean /\ \A t \in Uploads \ {s} : up'[t] = up[t]
  BY <1>1, EndRow
<1>3. RowStep(p, s) /\ CleanStep(s)
  BY <1>2 DEF RowStep, CleanStep, Ended
<1>4. ASSUME NEW t \in Uploads \ {s} PROVE RowStep(p, t) /\ CleanStep(t)
  BY <1>2, SameRow
<1> QED BY <1>2, <1>3, <1>4

\* A failed finalization, for the owner or for nobody.
LEMMA MarkStep ==
    ASSUME TestSetInv, NEW p \in Procs, pc[p] \in FinalizerLabels \ {"unstage"}, MarkFailed(p),
           \A t \in Uploads : staging'[t] \in {staging[t], "none"}
    PROVE  /\ up' \in [Uploads -> Rows] /\ up'[ses[p]].st \in Ended \cup {"gone"}
           /\ \A t \in Uploads : RowStep(p, t) /\ CleanStep(t)
<1>1. ProcOK(p) /\ up \in [Uploads -> Rows]
  BY Typed DEF TestSetInv
<1>2. PICK s \in Uploads : s = ses[p]
  BY <1>1 DEF ProcOK
<1>3. CASE Owns(p)
  <2>1. up' = End(s, "failed") /\ up[s].st = "finalizing"
    BY <1>2, <1>3 DEF MarkFailed, Owns
  <2> QED BY <1>2, <2>1, EndStep DEF Ended
<1>4. CASE ~Owns(p)
  <2>1. up' = up
    BY <1>4 DEF MarkFailed
  <2>2. up[ses[p]].st \in Ended \cup {"gone"}
    BY <1>1, <1>4 DEF ProcOK
  <2>3. \A t \in Uploads : RowStep(p, t) /\ CleanStep(t)
    BY <2>1, SameRow
  <2> QED BY <1>1, <2>1, <2>2, <2>3
<1> QED BY <1>3, <1>4
-----------------------------------------------------------------------------
(* Steps of nobody *)

LEMMA NobodyMoves ==
    ASSUME procs' = procs
    PROVE  OthersStay(None) /\ WriterStep(None) /\ None \notin Procs
BY TestSetAssumption DEF procs, OthersStay, WriterStep

LEMMA NobodySuffices ==
    ASSUME TestSetInv, TypeOK', UNCHANGED <<testSet, held, procs>>,
           \A s \in Uploads : canon[s] => canon'[s],
           \A s \in Uploads : RowStep(None, s) /\ (CleanStep(s) \/ CleanOK(s)')
    PROVE  TestSetInv'
<1>1. OthersStay(None) /\ WriterStep(None) /\ None \notin Procs /\ LockStep(None)
  BY NobodyMoves, Unlocked
<1>2. \A s \in Uploads : CanonStep(None, s)
  BY DEF CanonStep
<1> QED BY <1>1, <1>2, ShapeSuffices DEF Shape

LEMMA ReservedRow ==
    ASSUME NEW i \in Items
    PROVE  Reserved(i) \in Rows /\ Reserved(i).st = "pending" /\ Reserved(i).item = i /\ Reserved(i).clean = "wait"
BY TestSetAssumption DEF Reserved, NoRow, Rows, Statuses, Phases

LEMMA InitUploadStep ==
    ASSUME TestSetInv, NEW s \in Uploads, NEW i \in Items, InitUpload(s, i)
    PROVE  TestSetInv'
<1>t. TypeOK /\ up \in [Uploads -> Rows]
  BY Typed DEF TestSetInv
<1>0. /\ Locked /\ testSet = "draft" /\ up[s].st = "none"
      /\ \A t \in Uploads : Of(t, i) => up[t].st \in Ended \/ (up[t].st = "pending" /\ up[t].past)
      /\ UNCHANGED <<testSet, staging, canon, manifest, procs, held, backend, faults>>
  BY DEF InitUpload, objects
<1>1. /\ up'[s] = Reserved(i)
      /\ \A t \in Uploads \ {s} : up'[t] = IF Of(t, i) THEN Ending(up[t], "expired") ELSE up[t]
  BY DEF InitUpload
<1>2. Reserved(i) \in Rows /\ Reserved(i).st = "pending" /\ Reserved(i).item = i /\ Reserved(i).clean = "wait"
  BY ReservedRow
<1>3. ASSUME NEW t \in Uploads
      PROVE  /\ Ending(up[t], "expired") \in Rows /\ Ending(up[t], "expired").st = "expired"
             /\ Ending(up[t], "expired").item = up[t].item /\ Ending(up[t], "expired").clean = up[t].clean
             /\ Ending(up[t], "expired").ftok = None
  BY <1>t, EndRow DEF Ending, Statuses
<1>4. up' \in [Uploads -> Rows]
  <2>1. ASSUME NEW t \in Uploads PROVE up'[t] \in Rows
    BY <1>t, <1>1, <1>2, <1>3
  <2>2. up' = [t \in Uploads |-> up'[t]]
    BY DEF InitUpload
  <2> QED BY <2>1, <2>2
<1>5. TypeOK'
  BY <1>0, <1>4, <1>t DEF TypeOK, procs
<1>6. ASSUME NEW t \in Uploads \ {s} PROVE RowStep(None, t) /\ CleanStep(t)
  <2>1. CASE Of(t, i)
    <3>1. up'[t].st = "expired" /\ up'[t].item = up[t].item /\ up'[t].clean = up[t].clean
      BY <1>1, <1>3, <2>1
    <3>2. up[t].st \in Ended \/ up[t].st = "pending"
      BY <1>0, <2>1
    <3> QED BY <1>0, <3>1, <3>2 DEF RowStep, CleanStep, Ended
  <2>2. CASE ~Of(t, i)
    BY <1>0, <1>1, <2>2, SameRow
  <2> QED BY <2>1, <2>2
<1>7. RowStep(None, s)
  <2>1. ASSUME NEW t \in Uploads \ {s}, up'[t].st \in Taking PROVE up'[t].item # i
    <3>1. ~Of(t, i)
      BY <1>1, <1>3, <2>1 DEF Taking, Open
    <3>2. up'[t] = up[t]
      BY <1>1, <3>1
    <3> QED BY <2>1, <3>1, <3>2 DEF Of, Exists, Taking, Open
  <2> QED BY <1>0, <1>1, <1>2, <2>1 DEF RowStep
<1>8. CleanOK(s)'
  BY <1>1, <1>2 DEF CleanOK
<1> QED BY <1>0, <1>5, <1>6, <1>7, <1>8, NobodySuffices

LEMMA ExpiryStep ==
    ASSUME TestSetInv, NEW s \in Uploads, ExpireUpload(s) \/ RecoverStaleFinalizing(s)
    PROVE  TestSetInv'
<1>0. UNCHANGED <<testSet, staging, canon, manifest, procs, held, backend, faults>>
  BY DEF ExpireUpload, RecoverStaleFinalizing, objects
<1>1. up' \in [Uploads -> Rows] /\ \A t \in Uploads : RowStep(None, t) /\ CleanStep(t)
  <2>1. CASE ExpireUpload(s)
    <3>1. up' = End(s, "expired") /\ up[s].st = "pending"
      BY <2>1 DEF ExpireUpload
    <3>2. \A t \in Uploads : staging'[t] \in {staging[t], "none"}
      BY <1>0
    <3> QED BY <3>1, <3>2, EndStep
  <2>2. CASE RecoverStaleFinalizing(s)
    BY <1>0, <2>2, EndStep DEF RecoverStaleFinalizing
  <2> QED BY <2>1, <2>2
<1>2. TypeOK'
  BY <1>0, <1>1 DEF TestSetInv, TypeOK, procs
<1> QED BY <1>0, <1>1, <1>2, NobodySuffices

LEMMA PutStep ==
    ASSUME TestSetInv, NEW s \in Uploads, S3Put(s)
    PROVE  TestSetInv'
<1>0. UNCHANGED <<testSet, up, canon, manifest, procs, held, backend, faults>>
  BY DEF S3Put
<1>1. TypeOK'
  BY <1>0 DEF TestSetInv, TypeOK, S3Put, procs
<1>2. ASSUME NEW t \in Uploads PROVE RowStep(None, t) /\ CleanStep(t)
  <2>1. staging'[t] \in {staging[t], "none"} \/ up[t].clean \notin {"confirm", "done"}
    BY Typed DEF S3Put, TestSetInv
  <2> QED BY <1>0, <2>1, SameRow
<1> QED BY <1>0, <1>1, <1>2, NobodySuffices

\* Deadlines, heartbeats that get old or come back, and the graces of the cleanup.
LEMMA TimeStep ==
    ASSUME TestSetInv, NEW s \in Uploads,
           \/ Pass(s) \/ Stale(s) \/ Grace(s)
           \/ \E p \in Procs : Heartbeat(p) /\ ses[p] = s
    PROVE  TestSetInv'
<1>t. TypeOK /\ up \in [Uploads -> Rows] /\ CleanOK(s)
  BY Typed DEF TestSetInv
<1>0. UNCHANGED <<testSet, staging, canon, manifest, procs, held, backend>>
  BY DEF Pass, Stale, Grace, Heartbeat, objects
<1>1. faults' \in 0..MaxFaults
  BY <1>t, FaultTyped DEF Pass, Stale, Grace, Heartbeat
<1>2. ASSUME NEW x \in BOOLEAN, up' = [up EXCEPT ![s].stale = x]
      PROVE  /\ up' \in [Uploads -> Rows]
             /\ \A t \in Uploads : RowStep(None, t) /\ CleanStep(t)
  <2>1. /\ up' \in [Uploads -> Rows]
        /\ \A t \in Uploads : /\ up'[t].st = up[t].st /\ up'[t].item = up[t].item
                              /\ up'[t].ftok = up[t].ftok /\ up'[t].clean = up[t].clean
                              /\ up'[t].past = up[t].past
    BY <1>t, <1>2 DEF Rows
  <2> QED BY <1>0, <2>1, SameStatus
<1>3. CASE Pass(s)
  <2>0. up' = [up EXCEPT ![s].past = TRUE]
    BY <1>3 DEF Pass
  <2>1. /\ up' \in [Uploads -> Rows]
        /\ \A t \in Uploads : /\ up'[t].st = up[t].st /\ up'[t].item = up[t].item
                              /\ up'[t].ftok = up[t].ftok /\ up'[t].clean = up[t].clean
                              /\ up[t].past => up'[t].past
    <3>1. \A t \in Uploads \ {s} : up'[t] = up[t]
      BY <1>t, <2>0
    <3>2. up'[s] = [up[s] EXCEPT !.past = TRUE] /\ up[s] \in Rows
      BY <1>t, <2>0
    <3>3. /\ up'[s] \in Rows /\ up'[s].st = up[s].st /\ up'[s].item = up[s].item
          /\ up'[s].ftok = up[s].ftok /\ up'[s].clean = up[s].clean /\ up'[s].past
      BY <3>2 DEF Rows
    <3> QED BY <1>t, <2>0, <3>1, <3>3
  <2>2. \A t \in Uploads : RowStep(None, t) /\ CleanStep(t)
    BY <1>0, <2>1, SameStatus
  <2>3. TypeOK'
    BY <1>0, <1>1, <1>t, <2>1 DEF TypeOK, procs
  <2> QED BY <1>0, <2>2, <2>3, NobodySuffices
<1>4. CASE \E x \in BOOLEAN : up' = [up EXCEPT ![s].stale = x]
  <2>1. TypeOK'
    BY <1>0, <1>1, <1>2, <1>4, <1>t DEF TypeOK, procs
  <2> QED BY <1>0, <1>2, <1>4, <2>1, NobodySuffices
<1>5. CASE Grace(s)
  <2>1. PICK c \in {"due", "confirm"} :
          /\ up' = [up EXCEPT ![s].clean = c]
          /\ c = "due" => up[s].st \in Ended \/ (up[s].st = "pending" /\ up[s].past)
          /\ c = "confirm" => up[s].clean = "first" /\ ~Writing(s)
    BY <1>5 DEF Grace
  <2>2. /\ up' \in [Uploads -> Rows] /\ \A t \in Uploads \ {s} : up'[t] = up[t]
        /\ up'[s].st = up[s].st /\ up'[s].item = up[s].item /\ up'[s].ftok = up[s].ftok
        /\ up'[s].past = up[s].past /\ up'[s].clean = c
    BY <1>t, <2>1 DEF Rows, Phases
  <2>3. TypeOK'
    BY <1>0, <1>1, <1>t, <2>2 DEF TypeOK, procs
  <2>4. Writing(s)' <=> Writing(s)
    BY <1>0 DEF Writing, procs
  <2>5. CleanOK(s)'
    BY <1>t, <2>1, <2>2, <2>4 DEF CleanOK
  <2>6. RowStep(None, s)
    BY <2>2 DEF RowStep
  <2>7. \A t \in Uploads \ {s} : RowStep(None, t) /\ CleanStep(t)
    BY <1>0, <2>2, SameRow
  <2> QED BY <1>0, <2>3, <2>5, <2>6, <2>7, NobodySuffices
<1> QED BY <1>3, <1>4, <1>5 DEF Stale, Heartbeat
-----------------------------------------------------------------------------
(* Writers *)

LEMMA ClaimWriteStep ==
    ASSUME TestSetInv, NEW p \in Procs, NEW s \in Uploads, ClaimWrite(p, s)
    PROVE  TestSetInv'
<1>t. TypeOK /\ up \in [Uploads -> Rows] /\ CleanOK(s)
  BY Typed DEF TestSetInv
<1>0. /\ up[s].st = "pending" /\ ~up[s].past /\ Goto(p, s, "write")
      /\ up' = [up EXCEPT ![s].wtok = p, ![s].stale = FALSE]
      /\ UNCHANGED <<testSet, staging, canon, manifest, held, backend, faults>>
  BY DEF ClaimWrite, objects
<1>1. /\ pc'[p] = "write" /\ ses'[p] = s /\ OthersStay(p)
      /\ pc' \in [Procs -> Labels] /\ ses' \in [Procs -> Uploads \cup {None}]
      /\ published' \in [Procs -> BOOLEAN]
  BY <1>t, <1>0, Moved DEF OthersStay, Labels, WriterLabels
<1>2. /\ up' \in [Uploads -> Rows]
      /\ \A t \in Uploads : /\ up'[t].st = up[t].st /\ up'[t].item = up[t].item
                            /\ up'[t].ftok = up[t].ftok /\ up'[t].clean = up[t].clean
                            /\ up'[t].past = up[t].past
  BY ZenonT(40), <1>t, <1>0 DEF Rows
<1>3. TypeOK'
  BY <1>t, <1>0, <1>1, <1>2 DEF TypeOK
<1>4. \A t \in Uploads : RowStep(p, t) /\ CleanStep(t) /\ CanonStep(p, t)
  BY <1>0, <1>2, SameStatus DEF CanonStep
<1>5. up'[s].clean = "wait"
  BY <1>t, <1>0, <1>2 DEF CleanOK, Ended
<1>6. WriterStep(p) /\ LockStep(p)
  BY <1>0, <1>1, <1>5, Unlocked DEF WriterStep
<1>7. ProcOK(p)'
  BY <1>1, SimpleProc DEF WriterLabels
<1> QED BY <1>1, <1>3, <1>4, <1>6, <1>7, ShapeSuffices DEF Shape

\* A row whose writer lets go of it.
LEMMA UnwrittenRow ==
    ASSUME TypeOK, NEW p, NEW s \in Uploads, up' = Unwritten(s),
           \A t \in Uploads : staging'[t] \in {staging[t], "none"}
    PROVE  up' \in [Uploads -> Rows] /\ \A t \in Uploads : RowStep(p, t) /\ CleanStep(t)
<1>1. up \in [Uploads -> Rows] /\ up' = [up EXCEPT ![s].wtok = None, ![s].stale = FALSE]
  BY Typed DEF Unwritten
<1>2. /\ up' \in [Uploads -> Rows]
      /\ \A t \in Uploads : /\ up'[t].st = up[t].st /\ up'[t].item = up[t].item
                            /\ up'[t].ftok = up[t].ftok /\ up'[t].clean = up[t].clean
                            /\ up'[t].past = up[t].past
  <2>1. \A t \in Uploads \ {s} : up'[t] = up[t]
    BY <1>1
  <2>2. up'[s] = [up[s] EXCEPT !.wtok = None, !.stale = FALSE] /\ up[s] \in Rows
    BY <1>1
  <2>3. /\ up'[s] \in Rows /\ up'[s].st = up[s].st /\ up'[s].item = up[s].item
        /\ up'[s].ftok = up[s].ftok /\ up'[s].clean = up[s].clean /\ up'[s].past = up[s].past
    BY <2>2 DEF Rows
  <2> QED BY <1>1, <2>1, <2>3
<1> QED BY <1>2, SameStatus

LEMMA WriterSteps ==
    ASSUME TestSetInv, NEW p \in Procs,
           Write(p) \/ WriteFails(p) \/ Wrote(p) \/ WriteTimesOut(p) \/ Unwrite(p)
    PROVE  TestSetInv'
<1>t. TypeOK /\ up \in [Uploads -> Rows]
  BY Typed DEF TestSetInv
<1>0. /\ pc[p] \in WriterLabels /\ UNCHANGED <<testSet, canon, manifest, held, backend>>
      /\ Fault \/ faults' = faults
  BY DEF Write, WriteFails, Wrote, WriteTimesOut, Unwrite, WriterLabels, objects
<1>p. PICK s \in Uploads : s = ses[p]
  BY <1>0 DEF TestSetInv, ProcOK
<1>1. Stop(p) \/ \E l \in WriterLabels : Goto(p, s, l)
  BY <1>p DEF Write, WriteFails, Wrote, WriteTimesOut, Unwrite, WriterLabels
<1>2. /\ OthersStay(p) /\ pc' \in [Procs -> Labels] /\ ses' \in [Procs -> Uploads \cup {None}]
      /\ published' \in [Procs -> BOOLEAN]
      /\ pc'[p] = "idle" \/ (pc'[p] \in WriterLabels /\ ses'[p] = s)
  <2>1. CASE Stop(p)
    BY <1>t, <2>1, Stopped DEF OthersStay
  <2>2. CASE \E l \in WriterLabels : Goto(p, s, l)
    <3>1. PICK l \in WriterLabels : Goto(p, s, l)
      BY <2>2
    <3>2. l # "idle" /\ l \in Labels
      BY DEF WriterLabels, Labels
    <3> QED BY <1>t, <3>1, <3>2, Moved DEF OthersStay
  <2> QED BY <1>1, <2>1, <2>2
<1>3. ProcOK(p)' /\ WriterStep(p) /\ LockStep(p) /\ \A t \in Uploads : CanonStep(p, t)
  <2>1. ProcOK(p)'
    BY <1>2, SimpleProc
  <2>2. WriterStep(p)
    BY <1>0, <1>p, <1>2 DEF WriterStep, WriterLabels
  <2> QED BY <1>0, <2>1, <2>2, Unlocked DEF CanonStep
<1>4. /\ staging' \in [Uploads -> {"none", "good", "bad"}]
      /\ Write(p) \/ \A t \in Uploads : staging'[t] \in {staging[t], "none"}
  BY <1>t, <1>p, Typed DEF Write, WriteFails, Wrote, WriteTimesOut, Unwrite, objects
<1>5. faults' \in 0..MaxFaults
  BY <1>t, <1>0, FaultTyped
<1>6. CASE Write(p)
  <2>1. up' = up
    BY <1>6 DEF Write
  <2>2. TypeOK'
    BY <1>t, <1>0, <1>2, <1>4, <1>5, <2>1 DEF TypeOK
  <2>3. ASSUME NEW t \in Uploads
        PROVE  staging'[t] \in {staging[t], "none"} \/ up[t].clean \notin {"confirm", "done"}
    <3>1. CASE t = s
      <4>1. Writing(t)
        BY <1>0, <1>p, <3>1 DEF Writing
      <4> QED BY <4>1 DEF TestSetInv, CleanOK
    <3>2. CASE t # s
      BY <1>t, <1>p, <1>6, <3>2, Typed DEF Write
    <3> QED BY <3>1, <3>2
  <2> QED BY <1>2, <1>3, <2>1, <2>2, <2>3, MoveSuffices
<1>7. CASE ~Write(p)
  <2>0. \A t \in Uploads : staging'[t] \in {staging[t], "none"}
    BY <1>4, <1>7
  <2>1. \/ up' = up
        \/ up' = Unwritten(s)
        \/ up' = End(s, "expired") /\ up[s].st = "pending"
    BY <1>7, <1>p DEF WriteFails, Wrote, WriteTimesOut, Unwrite, OwnsWrite
  <2>2. up' \in [Uploads -> Rows] /\ \A t \in Uploads : RowStep(p, t) /\ CleanStep(t)
    <3>1. CASE up' = up
      BY <1>t, <2>0, <3>1, SameRow
    <3>2. CASE up' = Unwritten(s)
      BY <1>t, <2>0, <3>2, UnwrittenRow
    <3>3. CASE up' = End(s, "expired") /\ up[s].st = "pending"
      BY <2>0, <3>3, EndStep
    <3> QED BY <2>1, <3>1, <3>2, <3>3
  <2>3. TypeOK'
    BY <1>t, <1>0, <1>2, <1>4, <1>5, <2>2 DEF TypeOK
  <2> QED BY <1>2, <1>3, <2>2, <2>3, ShapeSuffices DEF Shape
<1> QED BY <1>6, <1>7
-----------------------------------------------------------------------------
(* Finalizers *)

LEMMA ClaimFinalizationStep ==
    ASSUME TestSetInv, NEW p \in Procs, NEW s \in Uploads, ClaimFinalization(p, s)
    PROVE  TestSetInv'
<1>t. TypeOK /\ up \in [Uploads -> Rows] /\ CleanOK(s)
  BY Typed DEF TestSetInv
<1>0. /\ up[s].st = "pending" /\ ~up[s].past /\ Goto(p, s, "verify") /\ Locked /\ testSet = "draft"
      /\ up' = [up EXCEPT ![s].st = "finalizing", ![s].ftok = p, ![s].stale = FALSE]
      /\ UNCHANGED <<testSet, staging, canon, manifest, held, backend, faults>>
  BY DEF ClaimFinalization, objects
<1>1. /\ pc'[p] = "verify" /\ ses'[p] = s /\ OthersStay(p)
      /\ pc' \in [Procs -> Labels] /\ ses' \in [Procs -> Uploads \cup {None}]
      /\ published' \in [Procs -> BOOLEAN]
  BY <1>t, <1>0, Moved DEF OthersStay, Labels, FinalizerLabels
<1>2. /\ up' \in [Uploads -> Rows] /\ \A t \in Uploads \ {s} : up'[t] = up[t]
      /\ up'[s].st = "finalizing" /\ up'[s].ftok = p
      /\ up'[s].item = up[s].item /\ up'[s].clean = up[s].clean
  <2>1. \A t \in Uploads \ {s} : up'[t] = up[t]
    BY <1>t, <1>0
  <2>2. up'[s] = [up[s] EXCEPT !.st = "finalizing", !.ftok = p, !.stale = FALSE] /\ up[s] \in Rows
    BY <1>t, <1>0
  <2>3. /\ up'[s] \in Rows /\ up'[s].st = "finalizing" /\ up'[s].ftok = p
        /\ up'[s].item = up[s].item /\ up'[s].clean = up[s].clean
    BY <2>2 DEF Rows, Statuses
  <2> QED BY <1>t, <1>0, <2>1, <2>3
<1>3. TypeOK'
  BY <1>t, <1>0, <1>1, <1>2 DEF TypeOK
<1>4. ASSUME NEW t \in Uploads PROVE RowStep(p, t) /\ CleanStep(t) /\ CanonStep(p, t)
  <2>1. CASE t = s
    BY <1>0, <1>2, <2>1 DEF RowStep, CleanStep, CanonStep, Ended
  <2>2. CASE t # s
    BY <1>0, <1>2, <2>2, SameRow DEF CanonStep
  <2> QED BY <2>1, <2>2
<1>5. WriterStep(p) /\ LockStep(p)
  BY <1>0, <1>1, Unlocked DEF WriterStep, WriterLabels
<1>6. ProcOK(p)'
  BY <1>1, <1>2 DEF ProcOK, Owns, WriterLabels, FinalizerLabels, Finalizing, Deleting
<1> QED BY <1>1, <1>3, <1>4, <1>5, <1>6, ShapeSuffices DEF Shape

\* A step of a finalizer that stops, goes on to unstage, or keeps its session's state.
LEMMA FinalizerSuffices ==
    ASSUME TestSetInv, NEW p \in Procs, pc[p] \in FinalizerLabels,
           UNCHANGED <<testSet, manifest, held, backend>>, Fault \/ faults' = faults,
           \/ Stop(p)
           \/ Goto(p, ses[p], "unstage")
           \/ \E l \in FinalizerLabels \ {"unstage"} :
                 Goto(p, ses[p], l) /\ (Owns(p)' \/ up'[ses[p]].st \in Ended \cup {"gone"})
           \/ /\ pc[p] # "unstage" /\ up' = up /\ ses' = ses /\ published' \in [Procs -> BOOLEAN]
              /\ \E l \in FinalizerLabels : pc' = [pc EXCEPT ![p] = l],
           up' \in [Uploads -> Rows], \A s \in Uploads : RowStep(p, s) /\ CleanStep(s) /\ CanonStep(p, s),
           staging' \in [Uploads -> {"none", "good", "bad"}], canon' \in [Uploads -> BOOLEAN]
    PROVE  TestSetInv'
<1>t. TypeOK /\ ProcOK(p) /\ ses[p] \in Uploads
  BY DEF TestSetInv, ProcOK
<1>1. faults' \in 0..MaxFaults
  BY <1>t, FaultTyped
<1>2. PICK s \in Uploads : s = ses[p]
  BY <1>t
<1> DEFINE Fine == /\ OthersStay(p) /\ pc' \in [Procs -> Labels] /\ ses' \in [Procs -> Uploads \cup {None}]
                   /\ published' \in [Procs -> BOOLEAN]
                   /\ pc'[p] \in {"idle"} \cup FinalizerLabels /\ ProcOK(p)'
<1>3. CASE Stop(p)
  <2>1. Fine
    BY <1>t, <1>3, Stopped, SimpleProc DEF OthersStay
  <2> QED BY <1>t, <1>1, <2>1, Unlocked, ShapeSuffices DEF Shape, TypeOK, WriterStep, WriterLabels,
      FinalizerLabels
<1>4. CASE Goto(p, ses[p], "unstage")
  <2>1. Fine
    BY <1>t, <1>4, Moved, SimpleProc DEF OthersStay, FinalizerLabels, Labels
  <2> QED BY <1>t, <1>1, <2>1, Unlocked, ShapeSuffices DEF Shape, TypeOK, WriterStep, WriterLabels,
      FinalizerLabels
<1>5. ASSUME NEW l \in FinalizerLabels \ {"unstage"}, Goto(p, ses[p], l),
             Owns(p)' \/ up'[ses[p]].st \in Ended \cup {"gone"}
      PROVE  TestSetInv'
  <2>0. l # "idle" /\ l \in Labels
    BY DEF FinalizerLabels, Labels
  <2>1. pc'[p] = l /\ ses'[p] = ses[p]
    BY <1>t, <1>5, <2>0, Moved
  <2>2. ProcOK(p)'
    BY <1>t, <1>5, <2>1 DEF ProcOK, FinalizerLabels, Finalizing, Deleting
  <2>3. Fine
    BY <1>t, <1>5, <2>0, <2>1, <2>2, Moved DEF OthersStay
  <2> QED BY <1>t, <1>1, <2>3, Unlocked, ShapeSuffices DEF Shape, TypeOK, WriterStep, WriterLabels,
      FinalizerLabels
<1>6. ASSUME pc[p] # "unstage", up' = up, ses' = ses, published' \in [Procs -> BOOLEAN],
             NEW l \in FinalizerLabels, pc' = [pc EXCEPT ![p] = l]
      PROVE  TestSetInv'
  <2>1. pc'[p] = l /\ pc' \in [Procs -> Labels] /\ OthersStay(p) /\ ses'[p] = ses[p]
    BY <1>t, <1>6 DEF TypeOK, OthersStay, FinalizerLabels, Labels
  <2>2. ProcOK(p)'
    BY <1>t, <1>6, <2>1 DEF ProcOK, Owns, FinalizerLabels, Finalizing, Deleting
  <2>3. Fine
    BY <1>t, <1>6, <2>1, <2>2 DEF TypeOK
  <2> QED BY <1>t, <1>1, <2>3, Unlocked, ShapeSuffices DEF Shape, TypeOK, WriterStep, WriterLabels,
      FinalizerLabels
<1> QED BY <1>3, <1>4, <1>5, <1>6

LEMMA VerifyStep ==
    ASSUME TestSetInv, NEW p \in Procs, Verify(p)
    PROVE  TestSetInv'
<1>t. TypeOK /\ up \in [Uploads -> Rows] /\ ProcOK(p)
  BY Typed DEF TestSetInv
<1>0. /\ pc[p] = "verify" /\ pc[p] \in FinalizerLabels \ {"unstage"}
      /\ UNCHANGED <<testSet, staging, canon, manifest, held, backend>> /\ (Fault \/ faults' = faults)
  BY DEF Verify, OrFault, FinalizerLabels, objects
<1>1. staging' \in [Uploads -> {"none", "good", "bad"}] /\ canon' \in [Uploads -> BOOLEAN]
  BY <1>t, <1>0, Typed
<1>2. CASE MarkFailed(p) /\ (Stop(p) \/ Goto(p, ses[p], "unstage"))
  <2>1. up' \in [Uploads -> Rows] /\ \A s \in Uploads : RowStep(p, s) /\ CleanStep(s)
    BY <1>0, <1>2, MarkStep
  <2>2. \A s \in Uploads : RowStep(p, s) /\ CleanStep(s) /\ CanonStep(p, s)
    BY <1>0, <2>1 DEF CanonStep
  <2> QED BY <1>0, <1>1, <1>2, <2>1, <2>2, FinalizerSuffices
<1>3. CASE Goto(p, ses[p], "publish") /\ up' = up
  <2>1. \A s \in Uploads : RowStep(p, s) /\ CleanStep(s) /\ CanonStep(p, s)
    BY <1>0, <1>3, SameRow DEF CanonStep
  <2>2. ses'[p] = ses[p]
    BY <1>t, <1>3, Moved
  <2>3. Owns(p)' \/ up'[ses[p]].st \in Ended \cup {"gone"}
    BY <1>t, <1>0, <1>3, <2>2 DEF ProcOK, Owns
  <2> QED BY <1>t, <1>0, <1>1, <1>3, <2>1, <2>3, FinalizerSuffices DEF FinalizerLabels
<1> QED BY <1>2, <1>3 DEF Verify

LEMMA PublishStep ==
    ASSUME TestSetInv, NEW p \in Procs, Publish(p)
    PROVE  TestSetInv'
<1>t. TypeOK /\ up \in [Uploads -> Rows] /\ ProcOK(p)
  BY Typed DEF TestSetInv
<1>0. /\ pc[p] = "publish" /\ pc[p] \in FinalizerLabels \ {"unstage"} /\ UNCHANGED <<testSet, staging, manifest, held, backend>>
      /\ Fault \/ faults' = faults
  BY DEF Publish, FinalizerLabels
<1>1. /\ staging' \in [Uploads -> {"none", "good", "bad"}] /\ canon' \in [Uploads -> BOOLEAN]
      /\ \A s \in Uploads : canon[s] => canon'[s]
  <2>1. canon' = [canon EXCEPT ![ses[p]] = TRUE] \/ \E b \in BOOLEAN : canon' = [canon EXCEPT ![ses[p]] = canon[ses[p]] \/ b]
    BY DEF Publish
  <2>2. ses[p] \in Uploads /\ canon \in [Uploads -> BOOLEAN]
    BY <1>t, <1>0, Typed DEF ProcOK
  <2> QED BY <1>t, <1>0, <2>1, <2>2, Typed
<1>2. CASE MarkFailed(p) /\ Stop(p)
  <2>1. up' \in [Uploads -> Rows] /\ \A s \in Uploads : RowStep(p, s) /\ CleanStep(s)
    BY <1>0, <1>2, MarkStep
  <2>2. \A s \in Uploads : RowStep(p, s) /\ CleanStep(s) /\ CanonStep(p, s)
    BY <1>1, <2>1 DEF CanonStep
  <2> QED BY <1>0, <1>1, <1>2, <2>1, <2>2, FinalizerSuffices
<1>3. CASE /\ published' = [published EXCEPT ![p] = TRUE] /\ pc' = [pc EXCEPT ![p] = "commit"]
           /\ UNCHANGED <<up, ses>>
  <2>1. \A s \in Uploads : RowStep(p, s) /\ CleanStep(s) /\ CanonStep(p, s)
    BY <1>0, <1>1, <1>3, SameRow DEF CanonStep
  <2>2. published' \in [Procs -> BOOLEAN] /\ "commit" \in FinalizerLabels
    BY <1>t, <1>3, Typed DEF FinalizerLabels
  <2> QED BY <1>t, <1>0, <1>1, <1>3, <2>1, <2>2, FinalizerSuffices
<1> QED BY <1>2, <1>3 DEF Publish

LEMMA LoseLeaseStep ==
    ASSUME TestSetInv, NEW p \in Procs, LoseLease(p)
    PROVE  TestSetInv'
<1>t. TypeOK /\ up \in [Uploads -> Rows] /\ ProcOK(p)
  BY Typed DEF TestSetInv
<1>0. /\ pc[p] \in FinalizerLabels \ {"unstage"} /\ ~Owns(p)
      /\ UNCHANGED <<testSet, up, staging, canon, manifest, held, backend, faults>>
  BY DEF LoseLease, FinalizerLabels, objects
<1>1. staging' \in [Uploads -> {"none", "good", "bad"}] /\ canon' \in [Uploads -> BOOLEAN]
  BY <1>t, <1>0, Typed
<1>2. \A s \in Uploads : RowStep(p, s) /\ CleanStep(s) /\ CanonStep(p, s)
  BY <1>0, SameRow DEF CanonStep
<1>3. up'[ses[p]].st \in Ended \cup {"gone"}
  BY <1>t, <1>0 DEF ProcOK
<1>4. Stop(p) \/ Goto(p, ses[p], "unpublish")
  BY DEF LoseLease
<1> QED BY <1>t, <1>0, <1>1, <1>2, <1>3, <1>4, FinalizerSuffices DEF FinalizerLabels

LEMMA CommitStep ==
    ASSUME TestSetInv, NEW p \in Procs, Commit(p)
    PROVE  TestSetInv'
<1>t. TypeOK /\ up \in [Uploads -> Rows] /\ ProcOK(p)
  BY Typed DEF TestSetInv
<1>0. /\ pc[p] \in FinalizerLabels \ {"unstage"} /\ Locked
      /\ UNCHANGED <<testSet, staging, canon, manifest, held, backend, faults>>
  BY DEF Commit, FinalizerLabels, objects
<1>1. staging' \in [Uploads -> {"none", "good", "bad"}] /\ canon' \in [Uploads -> BOOLEAN]
  BY <1>t, <1>0, Typed
<1>2. CASE Stop(p) /\ up' = up
  <2>1. \A s \in Uploads : RowStep(p, s) /\ CleanStep(s) /\ CanonStep(p, s)
    BY <1>0, <1>2, SameRow DEF CanonStep
  <2> QED BY <1>t, <1>0, <1>1, <1>2, <2>1, FinalizerSuffices
<1>3. CASE testSet = "draft" /\ Owns(p) /\ up' = End(ses[p], "completed") /\ Goto(p, ses[p], "unstage")
  <2>1. PICK g \in Uploads : g = ses[p]
    BY <1>t, <1>0 DEF ProcOK
  <2>2. up[g].st = "finalizing" /\ up[g].ftok = p
    BY <1>3, <2>1 DEF Owns
  <2>3. /\ up' \in [Uploads -> Rows] /\ up'[g].st = "completed" /\ up'[g].item = up[g].item
        /\ up'[g].clean = up[g].clean /\ \A s \in Uploads \ {g} : up'[s] = up[s]
    BY <1>t, <1>3, <2>1, EndRow DEF Statuses
  <2>4. RowStep(p, g) /\ CleanStep(g)
    BY <1>0, <1>3, <2>2, <2>3 DEF RowStep, CleanStep, Ended
  <2>5. \A s \in Uploads \ {g} : RowStep(p, s) /\ CleanStep(s)
    BY <1>0, <2>3, SameRow
  <2>6. \A s \in Uploads : RowStep(p, s) /\ CleanStep(s) /\ CanonStep(p, s)
    BY <1>0, <2>4, <2>5 DEF CanonStep
  <2> QED BY <1>0, <1>1, <1>3, <2>3, <2>6, FinalizerSuffices
<1>4. CASE MarkFailed(p) /\ Goto(p, ses[p], "unpublish")
  <2>1. /\ up' \in [Uploads -> Rows] /\ up'[ses[p]].st \in Ended \cup {"gone"}
        /\ \A s \in Uploads : RowStep(p, s) /\ CleanStep(s)
    BY <1>0, <1>4, MarkStep
  <2>2. \A s \in Uploads : RowStep(p, s) /\ CleanStep(s) /\ CanonStep(p, s)
    BY <1>0, <2>1 DEF CanonStep
  <2> QED BY <1>0, <1>1, <1>4, <2>1, <2>2, FinalizerSuffices DEF FinalizerLabels
<1> QED BY <1>2, <1>3, <1>4 DEF Commit

LEMMA TakeBackSteps ==
    ASSUME TestSetInv, NEW p \in Procs, Unpublish(p) \/ Unstage(p)
    PROVE  TestSetInv'
<1>t. TypeOK /\ up \in [Uploads -> Rows] /\ ProcOK(p) /\ canon \in [Uploads -> BOOLEAN]
      /\ staging \in [Uploads -> {"none", "good", "bad"}]
  BY Typed DEF TestSetInv
<1>0. /\ pc[p] \in FinalizerLabels /\ Stop(p) /\ UNCHANGED <<testSet, up, manifest, held, backend>>
      /\ Fault \/ faults' = faults
  BY DEF Unpublish, Unstage, FinalizerLabels
<1>1. ses[p] \in Uploads
  BY <1>t, <1>0 DEF ProcOK
<1>2. /\ staging' \in [Uploads -> {"none", "good", "bad"}] /\ canon' \in [Uploads -> BOOLEAN]
      /\ \A s \in Uploads : CanonStep(p, s) /\ staging'[s] \in {staging[s], "none"}
  <2>1. CASE Unpublish(p)
    <3>1. pc[p] = "unpublish" /\ staging' = staging
          /\ (canon' = canon \/ canon' = [canon EXCEPT ![ses[p]] = FALSE])
      BY <2>1 DEF Unpublish
    <3> QED BY <1>t, <1>1, <3>1 DEF CanonStep
  <2>2. CASE Unstage(p)
    <3>1. canon' = canon /\ (staging' = staging \/ staging' = [staging EXCEPT ![ses[p]] = "none"])
      BY <2>2 DEF Unstage
    <3> QED BY <1>t, <1>1, <3>1 DEF CanonStep
  <2> QED BY <2>1, <2>2
<1>3. \A s \in Uploads : RowStep(p, s) /\ CleanStep(s)
  BY <1>0, <1>2, SameRow
<1> QED BY <1>t, <1>0, <1>2, <1>3, FinalizerSuffices
-----------------------------------------------------------------------------
(* Finalizing and deleting the set *)

\* A step of a request under the row lock that changes no session.
LEMMA HolderSuffices ==
    ASSUME TestSetInv, NEW p \in Procs, UNCHANGED <<up, backend>>, Fault \/ faults' = faults,
           Stop(p) \/ \E l \in SetLabels : Goto(p, None, l),
           testSet' \in {"draft", "ready", "failed", "deleted"}, manifest' \in BOOLEAN,
           held' \in Procs \cup {None}, canon' \in [Uploads -> BOOLEAN],
           staging' \in [Uploads -> {"none", "good", "bad"}],
           LockStep(p), pc'[p] \in Finalizing \cup Deleting => ProcOK(p)',
           \A s \in Uploads : CanonStep(p, s) /\ staging'[s] \in {staging[s], "none"}
    PROVE  TestSetInv'
<1>t. TypeOK
  BY DEF TestSetInv
<1>1. /\ OthersStay(p) /\ pc' \in [Procs -> Labels] /\ ses' \in [Procs -> Uploads \cup {None}]
      /\ published' \in [Procs -> BOOLEAN] /\ pc'[p] \in {"idle"} \cup SetLabels
  <2>1. CASE Stop(p)
    BY <1>t, <2>1, Stopped DEF OthersStay
  <2>2. CASE \E l \in SetLabels : Goto(p, None, l)
    <3>1. PICK l \in SetLabels : Goto(p, None, l)
      BY <2>2
    <3>2. l # "idle" /\ l \in Labels
      BY DEF SetLabels, Labels
    <3> QED BY <1>t, <3>1, <3>2, Moved DEF OthersStay
  <2> QED BY <2>1, <2>2
<1>2. faults' \in 0..MaxFaults
  BY <1>t, FaultTyped
<1>3. TypeOK'
  BY <1>t, <1>1, <1>2 DEF TypeOK
<1>4. WriterStep(p)
  BY <1>1 DEF WriterStep, SetLabels, WriterLabels
<1>5. ProcOK(p)'
  BY <1>1, SimpleProc DEF SetLabels, Finalizing, Deleting
<1> QED BY <1>1, <1>3, <1>4, <1>5, MoveSuffices

LEMMA FinalizeSetSteps ==
    ASSUME TestSetInv, NEW p \in Procs,
           StartFinalizeSet(p) \/ CheckItems(p) \/ StoreManifest(p) \/ Ready(p) \/ DropManifest(p)
    PROVE  TestSetInv'
<1>t. TypeOK /\ ProcOK(p) /\ SetOK /\ up \in [Uploads -> Rows]
  BY Typed DEF TestSetInv
<1>0. UNCHANGED <<up, staging, canon, backend>> /\ (Fault \/ faults' = faults)
  BY DEF StartFinalizeSet, CheckItems, StoreManifest, Ready, DropManifest, OrFault, objects
<1>1. Stop(p) \/ \E l \in SetLabels : Goto(p, None, l)
  BY DEF StartFinalizeSet, CheckItems, StoreManifest, Ready, DropManifest, SetLabels
<1>2. /\ canon' \in [Uploads -> BOOLEAN] /\ staging' \in [Uploads -> {"none", "good", "bad"}]
      /\ \A s \in Uploads : CanonStep(p, s) /\ staging'[s] \in {staging[s], "none"}
      /\ Completed' = Completed /\ manifest \in BOOLEAN /\ held \in Procs \cup {None}
      /\ testSet \in {"draft", "ready", "failed", "deleted"}
  BY <1>t, <1>0, Typed DEF CanonStep, Completed
<1>3. CASE StartFinalizeSet(p)
  <2>1. /\ Locked /\ testSet = "draft" /\ testSet' = testSet /\ held' = p /\ manifest' = manifest
        /\ Goto(p, None, "checkItems") /\ Completed # {}
        /\ \A s \in Uploads : up[s].st \notin Open \cup {"failed"}
    BY <1>3 DEF StartFinalizeSet, objects
  <2>2. pc'[p] = "checkItems"
    BY <1>t, <2>1, Moved
  <2>3. ASSUME NEW s \in Uploads PROVE up[s].st \in Settled
    <3>1. up[s].st \in Statuses /\ up[s].st # "gone"
      BY <1>t, <2>1 DEF Rows, SetOK
    <3> QED BY <2>1, <3>1 DEF Statuses, Open, Settled
  <2>4. ProcOK(p)'
    BY <1>0, <1>2, <2>1, <2>2, <2>3 DEF ProcOK, WriterLabels, FinalizerLabels, Finalizing, Deleting
  <2>5. LockStep(p)
    BY <2>1 DEF LockStep
  <2>6. manifest' \in BOOLEAN /\ held' \in Procs \cup {None}
    BY <1>2, <2>1
  <2>7. testSet' \in {"draft", "ready", "failed", "deleted"}
    BY <1>2, <2>1
  <2> QED BY <1>0, <1>1, <1>2, <2>4, <2>5, <2>6, <2>7, HolderSuffices
<1>4. CASE CheckItems(p)
  <2>1. held = p /\ testSet' = testSet /\ manifest' = manifest /\ pc[p] = "checkItems"
    BY <1>4, <1>t DEF CheckItems, ProcOK, Finalizing, objects
  <2>2. LockStep(p) /\ manifest' \in BOOLEAN /\ testSet' \in {"draft", "ready", "failed", "deleted"}
    BY <1>2, <2>1 DEF LockStep
  <2>3. \/ (\A s \in Completed : canon[s]) /\ Goto(p, None, "storeManifest") /\ held' = held
        \/ held' = None /\ Stop(p)
    BY <1>4 DEF CheckItems, Matches
  <2>4. CASE (\A s \in Completed : canon[s]) /\ Goto(p, None, "storeManifest") /\ held' = held
    <3>1. pc'[p] = "storeManifest"
      BY <1>t, <2>4, Moved
    <3>2. ProcOK(p)'
      BY <1>t, <1>0, <1>2, <2>1, <2>4, <3>1
      DEF ProcOK, WriterLabels, FinalizerLabels, Finalizing, Deleting
    <3>3. held' \in Procs \cup {None}
      BY <1>2, <2>4
    <3> QED BY <1>0, <1>1, <1>2, <2>2, <3>2, <3>3, HolderSuffices
  <2>5. CASE held' = None /\ Stop(p)
    <3>1. pc'[p] \notin Finalizing \cup Deleting /\ held' \in Procs \cup {None}
      BY <1>t, <2>5, Stopped DEF Finalizing, Deleting
    <3> QED BY <1>0, <1>1, <1>2, <2>2, <3>1, HolderSuffices
  <2> QED BY <2>3, <2>4, <2>5
<1>5. CASE StoreManifest(p)
  <2>1. held = p /\ testSet' = testSet /\ pc[p] = "storeManifest" /\ manifest' \in BOOLEAN
    BY <1>5, <1>t, <1>2 DEF StoreManifest, ProcOK, Finalizing
  <2>2. LockStep(p) /\ testSet' \in {"draft", "ready", "failed", "deleted"}
    BY <1>2, <2>1 DEF LockStep
  <2>3. \/ Goto(p, None, "ready") /\ held' = held
        \/ Goto(p, None, "dropManifest") /\ held' = None
    BY <1>5 DEF StoreManifest
  <2>4. CASE Goto(p, None, "ready") /\ held' = held
    <3>1. pc'[p] = "ready"
      BY <1>t, <2>4, Moved
    <3>2. ProcOK(p)'
      BY <1>t, <1>0, <1>2, <2>1, <2>4, <3>1
      DEF ProcOK, WriterLabels, FinalizerLabels, Finalizing, Deleting
    <3>3. held' \in Procs \cup {None}
      BY <1>2, <2>4
    <3> QED BY <1>0, <1>1, <1>2, <2>1, <2>2, <3>2, <3>3, HolderSuffices
  <2>5. CASE Goto(p, None, "dropManifest") /\ held' = None
    <3>1. pc'[p] \notin Finalizing \cup Deleting /\ held' \in Procs \cup {None}
      BY <1>t, <2>5, Moved DEF Finalizing, Deleting
    <3> QED BY <1>0, <1>1, <1>2, <2>1, <2>2, <3>1, HolderSuffices
  <2> QED BY <2>3, <2>4, <2>5
<1>6. CASE Ready(p)
  <2>1. /\ held = p /\ testSet = "draft" /\ testSet' \in {"draft", "ready"} /\ manifest' = manifest
        /\ held' = None /\ ReadyOK'
    <3>1. pc[p] = "ready" /\ held' = None /\ manifest' = manifest /\ testSet' \in {"draft", "ready"}
      BY <1>6 DEF Ready, objects
    <3>2. ReadyOK /\ held = p /\ testSet = "draft"
      BY <1>t, <3>1 DEF ProcOK, Finalizing, ReadyOK
    <3> QED BY <1>0, <1>2, <3>1, <3>2 DEF ReadyOK
  <2>2. LockStep(p)
    BY <2>1 DEF LockStep
  <2>3. pc'[p] \notin Finalizing \cup Deleting
    BY <1>t, <1>6, Stopped, Moved DEF Ready, Finalizing, Deleting
  <2>4. /\ testSet' \in {"draft", "ready", "failed", "deleted"} /\ held' \in Procs \cup {None}
        /\ manifest' \in BOOLEAN
    BY <1>2, <2>1
  <2> QED BY <1>0, <1>1, <1>2, <2>2, <2>3, <2>4, HolderSuffices
<1>7. CASE DropManifest(p)
  <2>1. testSet' = testSet /\ held' = held /\ manifest' = FALSE /\ Stop(p)
    BY <1>7 DEF DropManifest
  <2>2. LockStep(p)
    BY <2>1, Unlocked
  <2>3. pc'[p] \notin Finalizing \cup Deleting
    BY <1>t, <2>1, Stopped DEF Finalizing, Deleting
  <2>4. /\ testSet' \in {"draft", "ready", "failed", "deleted"} /\ held' \in Procs \cup {None}
        /\ manifest' \in BOOLEAN
    BY <1>2, <2>1
  <2> QED BY <1>0, <1>1, <1>2, <2>2, <2>3, <2>4, HolderSuffices
<1> QED BY <1>3, <1>4, <1>5, <1>6, <1>7

LEMMA DeleteSteps ==
    ASSUME TestSetInv, NEW p \in Procs, StartDelete(p) \/ DeleteObjects(p)
    PROVE  TestSetInv'
<1>t. TypeOK /\ ProcOK(p) /\ canon \in [Uploads -> BOOLEAN] /\ staging \in [Uploads -> {"none", "good", "bad"}]
      /\ testSet \in {"draft", "ready", "failed", "deleted"} /\ held \in Procs \cup {None} /\ manifest \in BOOLEAN
  BY Typed DEF TestSetInv
<1>0. UNCHANGED <<up, backend>> /\ (Fault \/ faults' = faults)
  BY DEF StartDelete, DeleteObjects
<1>1. Stop(p) \/ \E l \in SetLabels : Goto(p, None, l)
  BY DEF StartDelete, DeleteObjects, SetLabels
<1>2. CASE StartDelete(p)
  <2>1. /\ Locked /\ testSet \in {"draft", "failed"} /\ held' = p /\ Goto(p, None, "deleteObjects")
        /\ \A s \in Uploads : up[s].st \notin Open
        /\ UNCHANGED <<testSet, staging, canon, manifest>>
    BY <1>2 DEF StartDelete, objects
  <2>2. pc'[p] = "deleteObjects" /\ LockStep(p)
    BY <1>t, <2>1, Moved DEF LockStep
  <2>3. ProcOK(p)'
    BY <1>0, <2>1, <2>2 DEF ProcOK, WriterLabels, FinalizerLabels, Finalizing, Deleting
  <2>4. \A s \in Uploads : CanonStep(p, s) /\ staging'[s] \in {staging[s], "none"}
    BY <2>1 DEF CanonStep
  <2>5. /\ testSet' \in {"draft", "ready", "failed", "deleted"} /\ manifest' \in BOOLEAN
        /\ held' \in Procs \cup {None} /\ canon' \in [Uploads -> BOOLEAN]
        /\ staging' \in [Uploads -> {"none", "good", "bad"}]
    BY <1>t, <2>1
  <2> QED BY <1>0, <1>1, <2>2, <2>3, <2>4, <2>5, HolderSuffices
<1>3. CASE DeleteObjects(p)
  <2>1. /\ pc[p] = "deleteObjects" /\ held = p /\ testSet \in {"draft", "failed"}
        /\ \A s \in Uploads : up[s].st \notin Open
    BY <1>t, <1>3 DEF DeleteObjects, ProcOK, Deleting
  <2>2. \E kept \in SUBSET Uploads : Delete(kept)
    BY <1>3 DEF DeleteObjects
  <2>3. /\ staging' \in [Uploads -> {"none", "good", "bad"}] /\ canon' \in [Uploads -> BOOLEAN]
        /\ manifest' \in BOOLEAN /\ \A s \in Uploads : staging'[s] \in {staging[s], "none"}
    BY ZenonT(40), <1>t, <2>2 DEF Delete
  <2>4. \A s \in Uploads : CanonStep(p, s)
    BY <2>1 DEF CanonStep
  <2>5. \/ Goto(p, None, "deleteRow") /\ testSet' = testSet /\ held' = held
        \/ Stop(p) /\ testSet' = "failed" /\ held' = None
    BY <1>3 DEF DeleteObjects
  <2>6. LockStep(p) /\ testSet' \in {"draft", "ready", "failed", "deleted"} /\ held' \in Procs \cup {None}
    BY <1>t, <2>1, <2>5 DEF LockStep
  <2>7. pc'[p] \in Finalizing \cup Deleting => ProcOK(p)'
    <3>1. CASE Goto(p, None, "deleteRow") /\ testSet' = testSet /\ held' = held
      <4>1. pc'[p] = "deleteRow"
        BY <1>t, <3>1, Moved
      <4> QED BY <1>0, <2>1, <3>1, <4>1 DEF ProcOK, WriterLabels, FinalizerLabels, Finalizing,
          Deleting
    <3>2. CASE Stop(p)
      BY <1>t, <3>2, Stopped DEF Finalizing, Deleting
    <3> QED BY <2>5, <3>1, <3>2
  <2> QED BY <1>0, <1>1, <2>3, <2>4, <2>6, <2>7, HolderSuffices
<1> QED BY <1>2, <1>3

LEMMA DeleteRowStep ==
    ASSUME TestSetInv, NEW p \in Procs, DeleteRow(p)
    PROVE  TestSetInv'
<1>t. TypeOK /\ ProcOK(p) /\ up \in [Uploads -> Rows]
  BY Typed DEF TestSetInv
<1>0. /\ held = p /\ testSet \in {"draft", "failed"} /\ testSet' = "deleted" /\ held' = None /\ Stop(p)
      /\ UNCHANGED <<staging, canon, manifest, backend, faults>>
  BY <1>t DEF DeleteRow, ProcOK, Deleting, objects
<1>1. /\ pc'[p] = "idle" /\ OthersStay(p) /\ pc' \in [Procs -> Labels]
      /\ ses' \in [Procs -> Uploads \cup {None}] /\ published' \in [Procs -> BOOLEAN]
  BY <1>t, <1>0, Stopped DEF OthersStay
<1>2. [NoRow EXCEPT !.st = "gone"] \in Rows /\ [NoRow EXCEPT !.st = "gone"].st = "gone"
      /\ [NoRow EXCEPT !.st = "gone"].clean = "wait"
  BY TestSetAssumption DEF NoRow, Rows, Statuses, Phases
<1>3. up' = [s \in Uploads |-> IF Exists(s) THEN [NoRow EXCEPT !.st = "gone"] ELSE up[s]]
  BY DEF DeleteRow
<1>4. up' \in [Uploads -> Rows]
  BY <1>t, <1>2, <1>3
<1>5. TypeOK'
  BY <1>t, <1>0, <1>1, <1>4 DEF TypeOK
<1>6. ASSUME NEW s \in Uploads PROVE RowStep(p, s) /\ CanonStep(p, s) /\ (CleanStep(s) \/ CleanOK(s)')
  <2>1. CASE Exists(s)
    <3>1. up'[s].st = "gone" /\ up'[s].clean = "wait"
      BY <1>2, <1>3, <2>1
    <3> QED BY <1>0, <3>1 DEF RowStep, CanonStep, CleanOK
  <2>2. CASE ~Exists(s)
    <3>1. up'[s] = up[s]
      BY <1>3, <2>2
    <3> QED BY <1>0, <3>1, SameRow DEF CanonStep
  <2> QED BY <2>1, <2>2
<1>7. LockStep(p) /\ WriterStep(p) /\ ProcOK(p)'
  BY <1>0, <1>1, SimpleProc DEF LockStep, WriterStep, WriterLabels
<1> QED BY <1>1, <1>5, <1>6, <1>7, ShapeSuffices DEF Shape
-----------------------------------------------------------------------------
(* Cleanup and crashes *)

LEMMA ClaimCleanupStep ==
    ASSUME TestSetInv, NEW p \in Procs, NEW s \in Uploads, ClaimCleanup(p, s)
    PROVE  TestSetInv'
<1>t. TypeOK /\ up \in [Uploads -> Rows]
  BY Typed DEF TestSetInv
<1>0. /\ up[s].st \in {"pending"} \cup Ended /\ Goto(p, s, "clean")
      /\ UNCHANGED <<testSet, staging, canon, manifest, held, backend>> /\ (Fault \/ faults' = faults)
  BY DEF ClaimCleanup, objects
<1>1. PICK st \in Ended : /\ st = up[s].st \/ (up[s].st = "pending" /\ st = "expired")
                          /\ up' = [up EXCEPT ![s] = [Ending(up[s], st) EXCEPT !.claim = p]]
  BY <1>0 DEF ClaimCleanup, Ended
<1>2. Ending(up[s], st) \in Rows /\ st \in Statuses
  BY <1>t, EndRow DEF Ended, Statuses
<1>3. /\ [Ending(up[s], st) EXCEPT !.claim = p] \in Rows
      /\ [Ending(up[s], st) EXCEPT !.claim = p].st = st
      /\ [Ending(up[s], st) EXCEPT !.claim = p].item = up[s].item
      /\ [Ending(up[s], st) EXCEPT !.claim = p].clean = up[s].clean
  <2>1. /\ Ending(up[s], st).st = st /\ Ending(up[s], st).item = up[s].item
        /\ Ending(up[s], st).clean = up[s].clean
    BY DEF Ending
  <2> HIDE DEF Ending
  <2> QED BY <1>2, <2>1 DEF Rows
<1>4. /\ up' \in [Uploads -> Rows] /\ \A t \in Uploads \ {s} : up'[t] = up[t]
      /\ up'[s].st = st /\ up'[s].item = up[s].item /\ up'[s].clean = up[s].clean
  <2>1. up'[s] = [Ending(up[s], st) EXCEPT !.claim = p]
    BY <1>t, <1>1
  <2> QED BY <1>t, <1>1, <1>3, <2>1
<1>5. /\ pc'[p] = "clean" /\ ses'[p] = s /\ OthersStay(p)
      /\ pc' \in [Procs -> Labels] /\ ses' \in [Procs -> Uploads \cup {None}]
      /\ published' \in [Procs -> BOOLEAN] /\ faults' \in 0..MaxFaults
  BY <1>t, <1>0, Moved, FaultTyped DEF OthersStay, Labels
<1>6. TypeOK'
  BY <1>t, <1>0, <1>4, <1>5 DEF TypeOK
<1>7. RowStep(p, s) /\ CleanStep(s)
  BY <1>0, <1>1, <1>4 DEF RowStep, CleanStep, Ended
<1>8. ASSUME NEW t \in Uploads \ {s} PROVE RowStep(p, t) /\ CleanStep(t)
  BY <1>0, <1>4, SameRow
<1>9. LockStep(p) /\ WriterStep(p) /\ ProcOK(p)' /\ \A t \in Uploads : CanonStep(p, t)
  BY <1>0, <1>5, Unlocked, SimpleProc DEF WriterStep, WriterLabels, CanonStep
<1> QED BY <1>5, <1>6, <1>7, <1>8, <1>9, ShapeSuffices DEF Shape

LEMMA DeleteClaimedStep ==
    ASSUME TestSetInv, NEW p \in Procs, DeleteClaimedStaging(p)
    PROVE  TestSetInv'
<1>t. TypeOK /\ up \in [Uploads -> Rows] /\ staging \in [Uploads -> {"none", "good", "bad"}]
  BY Typed DEF TestSetInv
<1>0. /\ pc[p] = "clean" /\ Stop(p) /\ UNCHANGED <<testSet, canon, manifest, held, backend>>
      /\ Fault \/ faults' = faults
  BY DEF DeleteClaimedStaging, OrFault
<1>p. PICK s \in Uploads : s = ses[p]
  BY <1>0 DEF TestSetInv, ProcOK
<1>1. /\ pc'[p] = "idle" /\ OthersStay(p) /\ pc' \in [Procs -> Labels]
      /\ ses' \in [Procs -> Uploads \cup {None}] /\ published' \in [Procs -> BOOLEAN]
      /\ faults' \in 0..MaxFaults
  BY <1>t, <1>0, Stopped, FaultTyped DEF OthersStay
<1>2. LockStep(p) /\ WriterStep(p) /\ ProcOK(p)' /\ \A t \in Uploads : CanonStep(p, t)
  BY <1>0, <1>1, Unlocked, SimpleProc DEF WriterStep, WriterLabels, CanonStep
<1>3. CASE /\ Cleanable(p) /\ staging' = [staging EXCEPT ![s] = "none"]
           /\ up' = [up EXCEPT ![s].clean = IF up[s].clean = "due" THEN "first" ELSE "done",
                               ![s].claim = None]
  <2>1. PICK c \in {"first", "done"} : /\ c = "done" => up[s].clean = "confirm"
                                       /\ up' = [up EXCEPT ![s].clean = c, ![s].claim = None]
    BY <1>3, <1>p DEF Cleanable
  <2>2. up'[s] = [up[s] EXCEPT !.clean = c, !.claim = None] /\ up[s] \in Rows
    BY <1>t, <2>1
  <2>3. /\ up'[s] \in Rows /\ up'[s].st = up[s].st /\ up'[s].item = up[s].item
        /\ up'[s].ftok = up[s].ftok /\ up'[s].clean = c
    BY <2>2 DEF Rows, Phases
  <2>4. up' \in [Uploads -> Rows] /\ \A t \in Uploads \ {s} : up'[t] = up[t]
    BY <1>t, <2>1, <2>3
  <2>5. staging' \in [Uploads -> {"none", "good", "bad"}] /\ staging'[s] = "none"
        /\ \A t \in Uploads \ {s} : staging'[t] = staging[t]
    BY <1>t, <1>3
  <2>6. TypeOK'
    BY <1>t, <1>0, <1>1, <2>4, <2>5 DEF TypeOK
  <2>7. CleanOK(s)'
    <3>1. up[s].st \in Ended
      BY <1>3, <1>p DEF Cleanable
    <3>2. c = "done" => ~Writing(s)'
      <4> SUFFICES ASSUME c = "done", NEW q \in Procs, ses'[q] = s, pc'[q] \in WriterLabels PROVE FALSE
        BY DEF Writing
      <4>1. ~Writing(s)
        BY <2>1 DEF TestSetInv, CleanOK
      <4>2. q # p
        BY <1>1 DEF WriterLabels
      <4> QED BY <1>1, <4>1, <4>2 DEF Writing, OthersStay
    <3> QED BY <2>3, <2>5, <3>1, <3>2 DEF CleanOK
  <2>8. RowStep(p, s)
    BY <2>3 DEF RowStep
  <2>9. ASSUME NEW t \in Uploads \ {s} PROVE RowStep(p, t) /\ CleanStep(t)
    BY <2>4, <2>5, SameRow
  <2> QED BY <1>1, <1>2, <2>6, <2>7, <2>8, <2>9, ShapeSuffices DEF Shape
<1>4. CASE (up' = up \/ up' = [up EXCEPT ![s].claim = None]) /\ staging' = staging
  <2>1. /\ up' \in [Uploads -> Rows]
        /\ \A t \in Uploads : /\ up'[t].st = up[t].st /\ up'[t].item = up[t].item
                              /\ up'[t].ftok = up[t].ftok /\ up'[t].clean = up[t].clean
                              /\ up'[t].past = up[t].past
    BY <1>t, <1>4 DEF Rows
  <2>2. TypeOK'
    BY <1>t, <1>0, <1>1, <1>4, <2>1 DEF TypeOK
  <2>3. \A t \in Uploads : RowStep(p, t) /\ CleanStep(t)
    BY <1>4, <2>1, SameStatus
  <2> QED BY <1>1, <1>2, <2>2, <2>3, ShapeSuffices DEF Shape
<1> QED BY <1>p, <1>3, <1>4 DEF DeleteClaimedStaging

LEMMA CrashStep ==
    ASSUME TestSetInv, NEW p \in Procs, Crash(p)
    PROVE  TestSetInv'
<1>t. TypeOK
  BY DEF TestSetInv
<1>0. /\ held' = (IF held = p THEN None ELSE held) /\ Stop(p) /\ Fault
      /\ UNCHANGED <<testSet, up, staging, canon, manifest, backend>>
  BY DEF Crash, objects
<1>1. /\ pc'[p] = "idle" /\ OthersStay(p) /\ pc' \in [Procs -> Labels]
      /\ ses' \in [Procs -> Uploads \cup {None}] /\ published' \in [Procs -> BOOLEAN]
      /\ faults' \in 0..MaxFaults
  BY <1>t, <1>0, Stopped, FaultTyped DEF OthersStay
<1>2. TypeOK'
  BY <1>t, <1>0, <1>1 DEF TypeOK
<1>3. LockStep(p) /\ WriterStep(p) /\ ProcOK(p)' /\ \A t \in Uploads : CanonStep(p, t)
  BY <1>0, <1>1, SimpleProc DEF LockStep, WriterStep, WriterLabels, CanonStep
<1> QED BY <1>0, <1>1, <1>2, <1>3, MoveSuffices
-----------------------------------------------------------------------------
LEMMA InitTestSetInv == Init => TestSetInv
<1> SUFFICES ASSUME Init PROVE TestSetInv
  OBVIOUS
<1>1. NoRow \in Rows /\ NoRow.st = "none" /\ NoRow.clean = "wait"
  BY TestSetAssumption DEF NoRow, Rows, Statuses, Phases
<1>2. TypeOK
  <2>1. up \in [Uploads -> Rows] /\ backend \in Backends /\ faults \in 0..MaxFaults
    BY <1>1, TestSetAssumption DEF Init
  <2> QED BY <2>1 DEF Init, TypeOK, Labels
<1>3. \A s \in Uploads : up[s].st = "none" /\ up[s].clean = "wait"
  BY <1>1 DEF Init
<1>4. \A p \in Procs : ProcOK(p)
  BY DEF Init, ProcOK, WriterLabels, FinalizerLabels, Finalizing, Deleting
<1>5. ItemsOK /\ (\A s \in Uploads : CleanOK(s)) /\ SetOK
  BY <1>3 DEF Init, ItemsOK, CleanOK, SetOK, Taking, Open
<1> QED BY <1>2, <1>4, <1>5 DEF TestSetInv

LEMMA NextTestSetInv == TestSetInv /\ [Next]_vars => TestSetInv'
<1> SUFFICES ASSUME TestSetInv, [Next]_vars PROVE TestSetInv'
  OBVIOUS
<1>1. CASE UNCHANGED vars
  BY <1>1 DEF vars, objects, procs, TestSetInv, TypeOK, ProcOK, ItemsOK, CleanOK, SetOK, Owns,
              Completed, Writing
<1>2. CASE \E s \in Uploads : \E i \in Items : InitUpload(s, i)
  BY <1>2, InitUploadStep
<1>3. CASE \E s \in Uploads : ExpireUpload(s) \/ RecoverStaleFinalizing(s) \/ S3Put(s)
  BY <1>3, ExpiryStep, PutStep
<1>4. CASE \E s \in Uploads : Pass(s) \/ Stale(s) \/ Grace(s)
  BY <1>4, TimeStep
<1>5. CASE \E p \in Procs : Heartbeat(p)
  <2>1. PICK p \in Procs : Heartbeat(p)
    BY <1>5
  <2>2. ses[p] \in Uploads
    BY <2>1 DEF Heartbeat, TestSetInv, ProcOK, WriterLabels, FinalizerLabels
  <2> QED BY <2>1, <2>2, TimeStep
<1>6. CASE \E p \in Procs : RequestStep(p)
  <2>1. PICK p \in Procs : RequestStep(p)
    BY <1>6
  <2> QED BY <2>1, WriterSteps, VerifyStep, PublishStep, LoseLeaseStep, CommitStep, TakeBackSteps,
             FinalizeSetSteps, DeleteSteps, DeleteRowStep, DeleteClaimedStep DEF RequestStep
<1>7. CASE \E p \in Procs : Crash(p) \/ StartFinalizeSet(p) \/ StartDelete(p)
  BY <1>7, CrashStep, FinalizeSetSteps, DeleteSteps
<1>8. CASE \E p \in Procs, s \in Uploads : ClaimWrite(p, s) \/ ClaimFinalization(p, s) \/ ClaimCleanup(p, s)
  BY <1>8, ClaimWriteStep, ClaimFinalizationStep, ClaimCleanupStep
<1> QED BY <1>1, <1>2, <1>3, <1>4, <1>5, <1>6, <1>7, <1>8 DEF Next

LEMMA TestSetInvariant == Spec => []TestSetInv
BY InitTestSetInv, NextTestSetInv, PTL DEF Spec

\* The columns of a test set and its upload sessions, and what a request remembers, keep
\* their types.
THEOREM TestSetTyped == Spec => []TypeOK
<1>1. TestSetInv => TypeOK
  BY DEF TestSetInv
<1> QED BY <1>1, TestSetInvariant, PTL

\* A ready revision has its items and their bytes, and a cleaned staging object stays
\* gone, for any number of requests, items, sessions and faults.
THEOREM StorageKeepsToTheLedger == Spec => []StorageMatchesLedger
<1>1. TestSetInv => StorageMatchesLedger
  <2> SUFFICES ASSUME TestSetInv PROVE StorageMatchesLedger
    OBVIOUS
  <2>1. CleanedStaysGone
    BY DEF TestSetInv, CleanOK, CleanedStaysGone
  <2>2. ASSUME NEW s \in Completed PROVE ~ItemTaken(s)
    BY DEF TestSetInv, ItemsOK, ItemTaken, Completed, Taking
  <2>3. ReadyIsComplete
    BY <2>2 DEF TestSetInv, SetOK, ReadyIsComplete, Settled
  <2> QED BY <2>1, <2>3 DEF StorageMatchesLedger
<1> QED BY <1>1, TestSetInvariant, PTL

(***************************************************************************)
(* The champion registry.  A read is put together from statements between  *)
(* which others write, so the invariant says what each part of a read is   *)
(* worth while the version has not moved; a mutation is admitted by a      *)
(* version, so it says which registry each version was.                    *)
(***************************************************************************)

\* What was read while nobody wrote is what the registry shows now.
UpToDate(r) == r.version = version /\ (r.first = Absent \/ r.first.version = version)

ReadOK(r) ==
    r.at # "none" =>
        /\ r.version <= version
        /\ r.at = "page" /\ r.first = Absent => DOMAIN r.items = {}
        /\ r.at = "next" => r.first # Absent /\ r.first.version = r.version
        /\ r.at = "final" /\ r.version = version => r.total = Len(created)
        /\ UpToDate(r) => \A m \in DOMAIN r.items : m \in Range(created) /\ r.items[m] = entry[m]

\* The champion of a snapshot is active in it.
Coherent(s) == s.active \in DOMAIN s.items => s.items[s.active].active

LogOK ==
    /\ version \in DOMAIN log /\ log[version] = Snapshot
    /\ \A v \in DOMAIN log : v <= version /\ log[v].version = v /\ Coherent(log[v])
    /\ version = 0 => created = <<>> /\ \A m \in Models : ~entry[m].active

Real(s) == s \in Snapshots /\ s.version \in DOMAIN log /\ s = log[s.version]

ShownOK ==
    \A c \in Clients :
        client[c].phase \in {"ready", "retryable"} \/ client[c].snap # Absent => Real(client[c].snap)

\* The user was offered the mutation in a snapshot that existed.
IntentOK(i) == i \in Intents /\ Real(i.seen) /\ Offered(i.seen, i.op, i.model)

PendingPhases == {"sent", "uncertain", "reconciling", "retryable"}
Pending(c) == client[c].phase \in PendingPhases

\* A pending intent has the last key of its dashboard, which is not settled; every
\* request under that key is of this intent.
PendingOK ==
    \A c \in Clients : Pending(c) =>
        /\ IntentOK(client[c].intent)
        /\ client[c].intent.key = <<c, client[c].keys>> /\ client[c].intent.key \notin settled
        /\ \A q \in requests : q.intent.key = client[c].intent.key => q.intent = client[c].intent

RequestsOK ==
    /\ \A q \in requests : IntentOK(q.intent) /\ q.intent.key[2] <= client[q.intent.key[1]].keys
    /\ \A q, r \in requests : q.intent.key = r.intent.key => q.intent = r.intent

\* The registry has moved on from what the user of a settled intent saw.
SettledOK ==
    /\ \A k \in settled : k[2] <= client[k[1]].keys
    /\ \A q \in requests : q.intent.key \in settled => q.intent.seen.version < version

ReadsOK == \A c \in Clients : ReadOK(client[c].read)

RegistryInv ==
    /\ RegistryTypeOK /\ LogOK /\ ShownOK /\ PendingOK /\ RequestsOK /\ SettledOK /\ ReadsOK

-----------------------------------------------------------------------------
(* Types *)

\* A read under way has all its fields.
UnderWay ==
    [at : {"absent", "page", "final", "next"}, version : Nat, active : Models \cup {Absent},
     total : Nat, items : Listings, first : Headers \cup {Absent}]

LEMMA ReadUnderWay ==
    /\ UnderWay \subseteq Reads
    /\ \A r \in Reads : r.at # "none" => r \in UnderWay
BY DEF Reads, NoRead, UnderWay

LEMMA ListingIntro ==
    ASSUME NEW D \in SUBSET Models, NEW f \in [D -> Entries]
    PROVE  f \in Listings
BY DEF Listings

LEMMA ListingElim ==
    ASSUME NEW f \in Listings
    PROVE  DOMAIN f \in SUBSET Models /\ f \in [DOMAIN f -> Entries]
<1>1. PICK D \in SUBSET Models : f \in [D -> Entries]
  BY DEF Listings
<1> QED BY <1>1

LEMMA RangeCreated ==
    ASSUME created \in Seq(Models)
    PROVE  /\ Range(created) \in SUBSET Models
           /\ IsFiniteSet(Range(created)) /\ Cardinality(Range(created)) <= Len(created)
           /\ Cardinality(Range(created)) \in Nat /\ Len(created) \in Nat
<1>1. Len(created) \in Nat /\ DOMAIN created = 1..Len(created) /\ created \in [1..Len(created) -> Models]
  OBVIOUS
<1>2. Range(created) \in SUBSET Models
  BY <1>1 DEF Range
<1>3. created \in Surjection(1..Len(created), Range(created))
  BY <1>1 DEF Surjection, Range
<1>4. IsFiniteSet(1..Len(created)) /\ Cardinality(1..Len(created)) = Len(created)
  BY SMTT(30), <1>1, FS_Interval
<1>5. IsFiniteSet(Range(created)) /\ Cardinality(Range(created)) <= Len(created)
  BY <1>3, <1>4, FS_Surjection
<1> QED BY <1>1, <1>2, <1>5, FS_CardinalityType

LEMMA ActiveType == Active \in Models \cup {Absent}
BY DEF Active

LEMMA SnapshotType ==
    version \in Nat /\ created \in Seq(Models) /\ entry \in [Models -> Entries]
        => Snapshot \in Snapshots /\ Coherent(Snapshot)
<1> SUFFICES ASSUME version \in Nat, created \in Seq(Models), entry \in [Models -> Entries]
             PROVE  Snapshot \in Snapshots /\ Coherent(Snapshot)
  OBVIOUS
<1>1. Range(created) \in SUBSET Models
  BY RangeCreated
<1>2. [m \in Range(created) |-> entry[m]] \in [Range(created) -> Entries]
  BY <1>1
<1>3. [m \in Range(created) |-> entry[m]] \in Listings
  BY <1>1, <1>2, ListingIntro
<1>4. Snapshot \in Snapshots
  BY <1>3, ActiveType DEF Snapshot, Snapshots
<1>5. ASSUME Active \in Range(created) PROVE entry[Active].active
  <2>1. CASE \E m \in Models : entry[m].active
    BY <2>1 DEF Active
  <2>2. CASE ~ \E m \in Models : entry[m].active
    <3>1. Active = Absent
      BY <2>2 DEF Active
    <3> QED BY <1>1, <1>5, <3>1, RegistryAssumption
  <2> QED BY <2>1, <2>2
<1> QED BY <1>4, <1>5 DEF Snapshot, Coherent
-----------------------------------------------------------------------------
(* Steps *)

\* What a step does to the registry: versions, snapshots and reads keep their meaning.
Grows ==
    /\ version' \in Nat /\ created' \in Seq(Models) /\ entry' \in [Models -> Entries]
    /\ \A v \in DOMAIN log' : v \in Nat /\ log'[v] \in Snapshots
    /\ version <= version' /\ LogOK'
    /\ \A s : Real(s) => Real(s)'
    /\ \A r \in Reads : ReadOK(r) => ReadOK(r)'

LEMMA Quiet ==
    ASSUME RegistryInv, UNCHANGED <<version, created, entry, log>>
    PROVE  Grows
<1>1. /\ version' \in Nat /\ created' \in Seq(Models) /\ entry' \in [Models -> Entries]
      /\ \A v \in DOMAIN log' : v \in Nat /\ log'[v] \in Snapshots
      /\ version <= version'
  BY DEF RegistryInv, RegistryTypeOK
<1>2. Snapshot' = Snapshot
  BY DEF Snapshot, Active
<1>3. LogOK'
  BY <1>2 DEF RegistryInv, LogOK, Coherent
<1>4. \A s : Real(s) => Real(s)'
  BY DEF Real
<1>5. \A r \in Reads : ReadOK(r) => ReadOK(r)'
  BY DEF ReadOK, UpToDate
<1> QED BY <1>1, <1>3, <1>4, <1>5 DEF Grows

\* A registry of a new version, whose snapshot is logged.
LEMMA Committed ==
    ASSUME RegistryInv, version' = version + 1, created' \in Seq(Models),
           entry' \in [Models -> Entries],
           log' = [v \in DOMAIN log \cup {version'} |-> IF v = version' THEN Snapshot' ELSE log[v]]
    PROVE  Grows
<1>1. /\ version \in Nat /\ version' \in Nat /\ version < version'
      /\ \A v \in DOMAIN log : v \in Nat /\ log[v] \in Snapshots /\ v <= version
  BY DEF RegistryInv, RegistryTypeOK, LogOK
<1>2. Snapshot' \in Snapshots /\ Coherent(Snapshot')
  <2>1. (Snapshot \in Snapshots /\ Coherent(Snapshot))'
    <3>1. (version \in Nat /\ created \in Seq(Models) /\ entry \in [Models -> Entries])'
      BY <1>1
    <3> QED BY <3>1, SnapshotType, PTL
  <2> QED BY <2>1 DEF Coherent
<1>3. DOMAIN log' = DOMAIN log \cup {version'} /\ log'[version'] = Snapshot'
  OBVIOUS
<1>4. \A v \in DOMAIN log : v # version' /\ v \in DOMAIN log' /\ log'[v] = log[v]
  BY <1>1
<1>5. \A v \in DOMAIN log' : v \in Nat /\ log'[v] \in Snapshots
  BY <1>1, <1>2, <1>3, <1>4
<1>6. Snapshot'.version = version'
  BY DEF Snapshot
<1>7. \A v \in DOMAIN log' : v <= version' /\ log'[v].version = v /\ Coherent(log'[v])
  BY <1>1, <1>2, <1>3, <1>4, <1>6 DEF RegistryInv, LogOK
<1>8. LogOK'
  <2>1. version' # 0 /\ version' \in DOMAIN log' /\ log'[version'] = Snapshot'
    BY <1>1, <1>3
  <2>2. \A v \in DOMAIN log' : v <= version' /\ log'[v].version = v /\ Coherent(log[v])'
    BY <1>7 DEF Coherent
  <2> QED BY <2>1, <2>2 DEF LogOK
<1>9. \A s : Real(s) => Real(s)'
  BY <1>4 DEF Real
<1>10. \A r \in Reads : ReadOK(r) => ReadOK(r)'
  <2> SUFFICES ASSUME NEW r \in Reads, ReadOK(r), r.at # "none" PROVE ReadOK(r)'
    BY DEF ReadOK
  <2>1. r.version \in Nat /\ r.version <= version
    BY DEF ReadOK, Reads, NoRead
  <2>2. r.version < version' /\ r.version # version'
    BY <1>1, <2>1
  <2>3. r.version <= version' /\ ~UpToDate(r)'
    BY <1>1, <2>1, <2>2 DEF UpToDate
  <2> QED BY <2>2, <2>3 DEF ReadOK
<1>11. version' \in Nat /\ version <= version'
  BY <1>1
<1> QED BY <1>5, <1>8, <1>9, <1>10, <1>11 DEF Grows

\* A dashboard moves on, requests are handled, and an intent may be settled.
LEMMA DashboardStep ==
    ASSUME RegistryInv, Grows, NEW c \in Clients, NEW d \in Dashboards,
           client' = [client EXCEPT ![c] = d],
           ops' \in [Keys -> [op : Operations, model : Models, version : Nat] \cup {Absent}],
           signedIn' \in [Clients -> BOOLEAN],
           requests' \subseteq Requests,
           \A q \in requests' : \E r \in requests : r.intent = q.intent,
           settled' \in {settled, settled \cup {client[c].intent.key}},
           settled' # settled => /\ Pending(c) /\ d.phase \notin PendingPhases
                                 /\ client[c].intent.seen.version < version,
           d.keys = client[c].keys,
           d.phase \in {"ready", "retryable"} \/ d.snap # Absent => Real(d.snap)',
           d.phase \in PendingPhases => Pending(c) /\ d.intent = client[c].intent,
           ReadOK(d.read)'
    PROVE  RegistryInv'
<1> USE DEF RegistryInv
<1>1. client \in [Clients -> Dashboards] /\ settled \subseteq Keys
  BY DEF RegistryTypeOK
<1>2. /\ client' \in [Clients -> Dashboards] /\ client'[c] = d
      /\ \A e \in Clients \ {c} : client'[e] = client[e]
      /\ \A e \in Clients : client'[e].keys = client[e].keys
  BY <1>1
<1>3. Pending(c) => IntentOK(client[c].intent) /\ client[c].intent.key = <<c, client[c].keys>>
  BY DEF PendingOK
<1>4. settled' \subseteq Keys
  BY <1>1, <1>3 DEF IntentOK, Intents
<1>5. RegistryTypeOK'
  BY <1>2, <1>4 DEF RegistryTypeOK, Grows
<1>6. \A i : IntentOK(i) => IntentOK(i)'
  BY DEF IntentOK, Grows
<1>7. ShownOK'
  BY <1>2 DEF ShownOK, Grows
<1>8. \A q \in requests : q.intent.key[1] \in Clients /\ q.intent.seen.version \in Nat
  BY DEF RequestsOK, IntentOK, Intents, Keys, Snapshots
<1>9. RequestsOK'
  BY <1>2, <1>6, <1>8 DEF RequestsOK
<1>10. \A e \in Clients : Pending(e)' => Pending(e) /\ client'[e].intent = client[e].intent
  BY <1>2 DEF Pending
<1>11. ASSUME NEW e \in Clients, Pending(e)' PROVE client[e].intent.key \notin settled'
  <2>1. Pending(e) /\ client[e].intent.key = <<e, client[e].keys>> /\ client[e].intent.key \notin settled
    BY <1>10, <1>11 DEF PendingOK
  <2>2. CASE settled' = settled
    BY <2>1, <2>2
  <2>3. CASE settled' # settled
    <3>1. e # c /\ client[c].intent.key = <<c, client[c].keys>>
      BY <2>3, <1>2, <1>3, <1>11 DEF Pending
    <3> QED BY <2>1, <3>1
  <2> QED BY <2>2, <2>3
<1>12. PendingOK'
  BY <1>2, <1>6, <1>10, <1>11 DEF PendingOK
<1>13. SettledOK'
  <2>1. \A k \in settled' : k[2] <= client'[k[1]].keys
    <3>1. \A k \in settled : k[1] \in Clients /\ k[2] <= client[k[1]].keys
      BY <1>1 DEF SettledOK, Keys
    <3>2. client[c].keys <= client[c].keys
      BY <1>1 DEF Dashboards
    <3> QED BY <3>1, <3>2, <1>2, <1>3
  <2>2. ASSUME NEW q \in requests, q.intent.key \in settled' PROVE q.intent.seen.version < version
    BY <2>2, <1>3 DEF SettledOK, PendingOK
  <2>3. version \in Nat /\ version' \in Nat /\ version <= version'
    BY DEF Grows, RegistryTypeOK
  <2>4. \A q \in requests : q.intent.key \in settled' => q.intent.seen.version < version'
    BY <2>2, <2>3, <1>8
  <2> QED BY <2>1, <2>4 DEF SettledOK
<1>14. ReadsOK'
  <2>1. \A e \in Clients : client[e].read \in Reads
    BY <1>1 DEF Dashboards
  <2> QED BY <1>2, <2>1 DEF ReadsOK, Grows
<1>15. LogOK'
  BY DEF Grows
<1> QED BY <1>5, <1>7, <1>9, <1>12, <1>13, <1>14, <1>15

\* A dashboard sends a request for an intent, new or pending.
LEMMA SendStep ==
    ASSUME RegistryInv, NEW c \in Clients, NEW d \in Dashboards, NEW n \in Nat,
           client' = [client EXCEPT ![c] = d],
           requests' = requests \cup {Sent(d.intent, n)},
           UNCHANGED <<registry, signedIn, log, settled>>,
           d.phase = "sent", d.snap = client[c].snap, d.read = client[c].read,
           d.keys \in {client[c].keys, client[c].keys + 1},
           IntentOK(d.intent), d.intent.key = <<c, d.keys>>, d.intent.key \notin settled,
           client[c].snap # Absent => Real(client[c].snap),
           \A q \in requests : q.intent.key = d.intent.key => q.intent = d.intent
    PROVE  RegistryInv'
<1> USE DEF RegistryInv, registry
<1>1. Grows
  BY Quiet
<1>2. client \in [Clients -> Dashboards] /\ client[c].keys \in Nat /\ d.keys \in Nat
  BY DEF RegistryTypeOK, Dashboards
<1>3. /\ client' \in [Clients -> Dashboards] /\ client'[c] = d
      /\ \A e \in Clients \ {c} : client'[e] = client[e]
  BY <1>2
<1>4. \A e \in Clients : client[e].keys \in Nat /\ client'[e].keys \in Nat /\ client[e].keys <= client'[e].keys
  <2>1. client[c].keys <= d.keys
    BY <1>2
  <2>2. \A e \in Clients : client[e].keys \in Nat
    BY <1>2 DEF Dashboards
  <2>3. \A e \in Clients : client[e].keys <= client[e].keys
    BY <2>2
  <2> QED BY <2>1, <2>2, <2>3, <1>2, <1>3
<1>5. \A i : IntentOK(i) => IntentOK(i)'
  BY <1>1 DEF IntentOK, Grows
<1>6. d.intent \in Intents /\ d.intent.key[1] = c /\ d.intent.key[2] = d.keys
  BY DEF IntentOK
<1>7. Sent(d.intent, n) \in Requests /\ Sent(d.intent, n).intent = d.intent
  BY <1>6 DEF Sent, Requests
<1>8. RegistryTypeOK'
  BY <1>1, <1>3, <1>7 DEF RegistryTypeOK, Grows
<1>9. ShownOK'
  BY <1>1, <1>3 DEF ShownOK, Grows
<1>10. \A q \in requests : /\ IntentOK(q.intent)' /\ q.intent.key[1] \in Clients /\ q.intent.key[2] \in Nat
                           /\ q.intent.key[2] <= client[q.intent.key[1]].keys
  BY <1>5 DEF RequestsOK, IntentOK, Intents, Keys
<1>11. \A q \in requests : q.intent.key[2] <= client'[q.intent.key[1]].keys
  BY <1>4, <1>10
<1>12. RequestsOK'
  <2>1. \A q \in requests' : q \in requests \/ q.intent = d.intent
    BY <1>7
  <2>2. IntentOK(d.intent)' /\ d.intent.key[2] <= client'[d.intent.key[1]].keys
    BY <1>2, <1>3, <1>5, <1>6
  <2>3. \A q \in requests' : IntentOK(q.intent)' /\ q.intent.key[2] <= client'[q.intent.key[1]].keys
    BY <2>1, <2>2, <1>10, <1>11
  <2>4. \A q, r \in requests' : q.intent.key = r.intent.key => q.intent = r.intent
    BY <2>1 DEF RequestsOK
  <2> QED BY <2>3, <2>4 DEF RequestsOK
<1>13. PendingOK'
  <2> SUFFICES ASSUME NEW e \in Clients, Pending(e)'
               PROVE  /\ IntentOK(client[e].intent)'
                      /\ client'[e].intent.key = <<e, client'[e].keys>>
                      /\ client'[e].intent.key \notin settled
                      /\ \A q \in requests' : q.intent.key = client'[e].intent.key => q.intent = client'[e].intent
    BY DEF PendingOK
  <2>1. CASE e = c
    BY <2>1, <1>3, <1>5, <1>7
  <2>2. CASE e # c
    <3>1. client'[e] = client[e] /\ Pending(e)
      BY <2>2, <1>3 DEF Pending
    <3>2. PICK old : old = client[e]
      OBVIOUS
    <3>3. /\ IntentOK(old.intent) /\ old.intent.key = <<e, old.keys>>
          /\ old.intent.key \notin settled
          /\ \A q \in requests : q.intent.key = old.intent.key => q.intent = old.intent
      BY <3>1, <3>2 DEF PendingOK
    <3>4. old.intent.key # d.intent.key
      BY <2>2, <3>3
    <3> QED BY <3>1, <3>2, <3>3, <3>4, <1>5, <1>7
  <2> QED BY <2>1, <2>2
<1>14. SettledOK'
  <2>1. \A k \in settled : k[1] \in Clients /\ k[2] \in Nat /\ k[2] <= client[k[1]].keys
    BY DEF SettledOK, RegistryTypeOK, Keys
  <2>2. \A k \in settled : k[2] <= client'[k[1]].keys
    BY <2>1, <1>4
  <2>3. \A q \in requests' : q.intent.key \in settled => q.intent.seen.version < version
    BY <1>7 DEF SettledOK
  <2> QED BY <2>2, <2>3 DEF SettledOK
<1>15. ReadsOK'
  <2>1. \A e \in Clients : client[e].read \in Reads
    BY <1>2 DEF Dashboards
  <2>2. \A e \in Clients : client'[e].read = client[e].read
    BY <1>3
  <2> QED BY <1>1, <2>1, <2>2 DEF ReadsOK, Grows
<1>16. LogOK'
  BY <1>1 DEF Grows
<1> QED BY <1>8, <1>9, <1>12, <1>13, <1>14, <1>15, <1>16

AnswerKinds == {"ok", "conflict", "unavailable", "unauthorized"}

\* The Manager is done with a request, and its dashboard learns of it or not.
LEMMA AnswerStep ==
    ASSUME RegistryInv, Grows, NEW q \in requests, NEW answer \in AnswerKinds, Finish(q, answer),
           ops' \in [Keys -> [op : Operations, model : Models, version : Nat] \cup {Absent}],
           UNCHANGED <<signedIn, settled>>
    PROVE  RegistryInv'
<1>1. /\ RegistryTypeOK /\ q.intent.key[1] \in Clients /\ client \in [Clients -> Dashboards]
      /\ requests \subseteq Requests
  BY DEF RegistryInv, RequestsOK, IntentOK, Intents, Keys, RegistryTypeOK
<1>2. PICK c \in Clients : c = q.intent.key[1]
  BY <1>1
<1>3. PICK old \in Dashboards : old = client[c]
  BY <1>1
<1>4. requests' \subseteq requests /\ requests' \subseteq Requests
  BY <1>1 DEF Finish
<1>5. signedIn' \in [Clients -> BOOLEAN]
  BY <1>1 DEF RegistryTypeOK
<1>6. ReadOK(old.read)'
  <2>1. ReadOK(old.read) /\ old.read \in Reads
    BY <1>3 DEF RegistryInv, ReadsOK, Dashboards
  <2> QED BY <2>1 DEF Grows
<1>7. CASE client' = client
  <2>1. client' = [client EXCEPT ![c] = old]
    BY <1>1, <1>3, <1>7
  <2>2. old.phase \in {"ready", "retryable"} \/ old.snap # Absent => Real(old.snap)'
    BY <1>3 DEF RegistryInv, ShownOK, Grows
  <2> QED BY <1>3, <1>4, <1>5, <1>6, <2>1, <2>2, DashboardStep DEF Pending
<1>8. CASE old.phase = "sent" /\ client' # client
  <2>1. PICK phase \in {"loading", "stale", "uncertain", "out"}, intent \in {old.intent, Absent} :
           /\ client' = [client EXCEPT ![c] = [old EXCEPT !.waiting = 0, !.snap = Absent, !.phase = phase,
                                                          !.intent = intent]]
           /\ phase = "uncertain" => intent = old.intent
    <3>1. PICK phase : phase = CASE answer = "ok" -> "loading"
                                 [] answer = "conflict" -> "stale"
                                 [] answer = "unavailable" -> "uncertain"
                                 [] answer = "unauthorized" -> "out"
      OBVIOUS
    <3>2. PICK intent : intent = IF answer = "unavailable" THEN old.intent ELSE Absent
      OBVIOUS
    <3>3. client' = [client EXCEPT ![c] = [old EXCEPT !.waiting = 0, !.snap = Absent, !.phase = phase,
                                                      !.intent = intent]]
      BY <1>2, <1>3, <1>8, <3>1, <3>2 DEF Finish, Answered
    <3>4. phase \in {"loading", "stale", "uncertain", "out"} /\ (phase = "uncertain" => answer = "unavailable")
      BY <3>1 DEF AnswerKinds
    <3>5. intent \in {old.intent, Absent} /\ (phase = "uncertain" => intent = old.intent)
      BY <3>2, <3>4
    <3> QED BY <3>3, <3>4, <3>5
  <2>2. PICK d : d = [old EXCEPT !.waiting = 0, !.snap = Absent, !.phase = phase, !.intent = intent]
    OBVIOUS
  <2>3. /\ d \in Dashboards /\ d.snap = Absent /\ d.read = old.read /\ d.keys = old.keys
        /\ d.phase = phase /\ d.intent = intent
    BY <2>1, <2>2 DEF Dashboards
  <2>4. Pending(c)
    BY <1>3, <1>8 DEF Pending, PendingPhases
  <2> QED BY <1>3, <1>4, <1>5, <1>6, <2>1, <2>2, <2>3, <2>4, DashboardStep DEF PendingPhases
<1>9. client' = client \/ old.phase = "sent"
  BY <1>2, <1>3 DEF Finish, Answered
<1> QED BY <1>7, <1>8, <1>9

\* What a step of one dashboard starts from.
LEMMA Dashboard ==
    ASSUME RegistryInv, NEW c \in Clients
    PROVE  /\ client \in [Clients -> Dashboards] /\ client[c] \in Dashboards
           /\ requests \subseteq Requests /\ signedIn \in [Clients -> BOOLEAN]
           /\ ops \in [Keys -> [op : Operations, model : Models, version : Nat] \cup {Absent}]
           /\ client[c].read \in Reads /\ ReadOK(client[c].read)
           /\ client[c].phase \in {"ready", "retryable"} \/ client[c].snap # Absent => Real(client[c].snap)
BY DEF RegistryInv, RegistryTypeOK, ReadsOK, ShownOK, Dashboards

\* A dashboard moves on, and the registry does not.
LEMMA QuietStep ==
    ASSUME RegistryInv, NEW c \in Clients, NEW d \in Dashboards,
           client' = [client EXCEPT ![c] = d],
           UNCHANGED <<registry, requests, signedIn, log>>,
           settled' \in {settled, settled \cup {client[c].intent.key}},
           settled' # settled => /\ Pending(c) /\ d.phase \notin PendingPhases
                                 /\ client[c].intent.seen.version < version,
           d.keys = client[c].keys,
           d.phase \in {"ready", "retryable"} \/ d.snap # Absent => Real(d.snap),
           d.phase \in PendingPhases => Pending(c) /\ d.intent = client[c].intent,
           ReadOK(d.read)
    PROVE  RegistryInv'
<1>1. Grows
  BY Quiet DEF registry
<1>2. ReadOK(d.read)' /\ (Real(d.snap) => Real(d.snap)')
  BY <1>1 DEF Grows, Dashboards
<1> QED BY <1>1, <1>2, Dashboard, DashboardStep DEF registry

LEMMA NoReadOK == NoRead \in Reads /\ ReadOK(NoRead)
BY DEF NoRead, Reads, ReadOK

LEMMA SignedOutStep ==
    ASSUME RegistryInv, NEW c \in Clients, SignedOut(c),
           UNCHANGED <<registry, requests, signedIn, log, settled>>
    PROVE  RegistryInv'
<1>1. PICK old \in Dashboards : old = client[c]
  BY Dashboard
<1>2. PICK d : d = [old EXCEPT !.phase = "out", !.read = NoRead, !.snap = Absent]
  OBVIOUS
<1>3. d \in Dashboards /\ d.phase = "out" /\ d.read = NoRead /\ d.snap = Absent /\ d.keys = old.keys
  BY <1>2, NoReadOK DEF Dashboards
<1>4. client' = [client EXCEPT ![c] = d]
  BY <1>1, <1>2 DEF SignedOut, Put
<1> QED BY <1>1, <1>3, <1>4, NoReadOK, QuietStep DEF PendingPhases

LEMMA ReadFailedStep ==
    ASSUME RegistryInv, NEW c \in Clients, Reading(c), ReadFailed(c),
           UNCHANGED <<registry, requests, signedIn, log, settled>>
    PROVE  RegistryInv'
<1>1. PICK old \in Dashboards : old = client[c]
  BY Dashboard
<1>2. PICK phase : phase = IF old.phase = "loading" THEN "stale" ELSE "uncertain"
  OBVIOUS
<1>3. PICK d : d = [old EXCEPT !.read = NoRead, !.phase = phase]
  OBVIOUS
<1>4. /\ d \in Dashboards /\ d.phase = phase /\ d.read = NoRead /\ d.snap = old.snap /\ d.keys = old.keys
      /\ d.intent = old.intent
  BY <1>2, <1>3, NoReadOK DEF Dashboards
<1>5. client' = [client EXCEPT ![c] = d]
  BY <1>1, <1>2, <1>3 DEF ReadFailed, Put
<1>6. phase \in {"stale", "uncertain"} /\ (phase = "uncertain" => Pending(c))
  BY <1>1, <1>2 DEF Reading, Pending, PendingPhases
<1> QED BY <1>1, <1>4, <1>5, <1>6, NoReadOK, Dashboard, QuietStep DEF PendingPhases

\* The intent of a user who was offered it is not applied in the snapshot he saw.
LEMMA NotYetApplied ==
    ASSUME RegistryInv, NEW i, IntentOK(i)
    PROVE  ~registryIntentIsApplied(i, i.seen)
<1>1. /\ i.op \in Operations /\ i.seen \in Snapshots /\ Coherent(i.seen) /\ Offered(i.seen, i.op, i.model)
  BY DEF RegistryInv, LogOK, IntentOK, Real, Intents
<1>2. CASE i.op = "candidate"
  BY <1>1, <1>2 DEF Offered, registryIntentIsApplied
<1>3. CASE i.op = "promote"
  BY <1>1, <1>3 DEF Offered, registryIntentIsApplied, Coherent
<1>4. CASE i.op = "revoke"
  BY <1>1, <1>4 DEF Offered, registryIntentIsApplied
<1> QED BY <1>1, <1>2, <1>3, <1>4 DEF Operations

\* A dashboard that loads the present registry and is not where its user left it gives
\* up an intent that cannot be applied any more.
LEMMA LoadedStep ==
    ASSUME RegistryInv, NEW c \in Clients, Reading(c), NEW s, s = Snapshot, Loaded(c, s),
           UNCHANGED <<registry, requests, signedIn, log>>
    PROVE  RegistryInv'
<1>1. PICK old \in Dashboards : old = client[c]
  BY Dashboard
<1>2. Real(s) /\ s \in Snapshots /\ s.version = version
  BY SnapshotType DEF RegistryInv, RegistryTypeOK, LogOK, Real, Snapshot
<1>3. ASSUME NEW phase \in {"ready", "retryable"}, NEW intent \in {old.intent, Absent}
      PROVE  /\ [old EXCEPT !.read = NoRead, !.snap = s, !.phase = phase, !.intent = intent] \in Dashboards
             /\ [old EXCEPT !.read = NoRead, !.snap = s, !.phase = phase, !.intent = intent].phase = phase
             /\ [old EXCEPT !.read = NoRead, !.snap = s, !.phase = phase, !.intent = intent].intent = intent
             /\ [old EXCEPT !.read = NoRead, !.snap = s, !.phase = phase, !.intent = intent].snap = s
             /\ [old EXCEPT !.read = NoRead, !.snap = s, !.phase = phase, !.intent = intent].read = NoRead
             /\ [old EXCEPT !.read = NoRead, !.snap = s, !.phase = phase, !.intent = intent].keys = old.keys
  BY <1>2, NoReadOK DEF Dashboards
<1>4. CASE old.phase = "reconciling" /\ Verdict(old.intent, s) = "unchanged"
  <2>1. PICK d : d = [old EXCEPT !.read = NoRead, !.snap = s, !.phase = "retryable", !.intent = old.intent]
    OBVIOUS
  <2>2. client' = [client EXCEPT ![c] = d] /\ settled' = settled
    BY <1>1, <1>4, <2>1 DEF Loaded, Put, Dashboards
  <2>3. Pending(c)
    BY <1>1, <1>4 DEF Pending, PendingPhases
  <2>4. /\ d \in Dashboards /\ d.phase = "retryable" /\ d.intent = old.intent /\ d.snap = s
        /\ d.read = NoRead /\ d.keys = old.keys
    BY <1>3, <2>1
  <2> QED BY <1>1, <1>2, <2>2, <2>3, <2>4, NoReadOK, QuietStep
<1>5. CASE old.phase = "reconciling" /\ Verdict(old.intent, s) # "unchanged"
  <2>1. PICK d : d = [old EXCEPT !.read = NoRead, !.snap = s, !.phase = "ready", !.intent = Absent]
    OBVIOUS
  <2>2. client' = [client EXCEPT ![c] = d] /\ settled' = settled \cup {old.intent.key}
    BY <1>1, <1>5, <2>1 DEF Loaded, Put, Dashboards
  <2>3. Pending(c) /\ IntentOK(old.intent)
    BY <1>1, <1>5 DEF Pending, PendingPhases, RegistryInv, PendingOK
  <2>4. s # old.intent.seen
    BY <1>5, <2>3, NotYetApplied DEF Verdict
  <2>5. old.intent.seen.version # version
    BY <1>2, <2>3, <2>4 DEF IntentOK, Real
  <2>6. old.intent.seen.version \in Nat /\ version \in Nat /\ old.intent.seen.version <= version
    BY <2>3 DEF IntentOK, Real, Snapshots, RegistryInv, RegistryTypeOK, LogOK
  <2>7. old.intent.seen.version < version
    BY <2>5, <2>6
  <2>8. /\ d \in Dashboards /\ d.phase = "ready" /\ d.snap = s /\ d.read = NoRead /\ d.keys = old.keys
    BY <1>3, <2>1
  <2> QED BY <1>1, <1>2, <2>2, <2>3, <2>7, <2>8, NoReadOK, QuietStep DEF PendingPhases
<1>6. CASE old.phase # "reconciling"
  <2>1. PICK d : d = [old EXCEPT !.read = NoRead, !.snap = s, !.phase = "ready", !.intent = old.intent]
    OBVIOUS
  <2>2. client' = [client EXCEPT ![c] = d] /\ settled' = settled
    BY <1>1, <1>6, <2>1 DEF Loaded, Put, Dashboards
  <2>3. /\ d \in Dashboards /\ d.phase = "ready" /\ d.snap = s /\ d.read = NoRead /\ d.keys = old.keys
    BY <1>3, <2>1
  <2> QED BY <1>1, <1>2, <2>2, <2>3, NoReadOK, QuietStep DEF PendingPhases
<1> QED BY <1>4, <1>5, <1>6
-----------------------------------------------------------------------------
(* The actions *)

LEMMA StepReadVersion ==
    ASSUME RegistryInv, NEW c \in Clients, ReadVersion(c)
    PROVE  RegistryInv'
<1>1. PICK old \in Dashboards : old = client[c]
  BY Dashboard
<1>2. CASE ~signedIn[c]
  BY <1>2, SignedOutStep DEF ReadVersion
<1>3. CASE signedIn[c]
  <2>1. PICK items, first :
           /\ items = IF old.read.at = "none" THEN [m \in {} |-> NoEntry] ELSE old.read.items
           /\ first = IF old.read.at = "none" THEN Absent ELSE old.read.first
    OBVIOUS
  <2>2. PICK r : r = [at |-> IF version = 0 THEN "absent" ELSE "page", version |-> version,
                      active |-> Absent, total |-> 0, items |-> items, first |-> first]
    OBVIOUS
  <2>3. PICK reads : reads = IF old.read.at = "none" THEN old.reads + 1 ELSE old.reads
    OBVIOUS
  <2>4. PICK d : d = [old EXCEPT !.reads = reads, !.read = r]
    OBVIOUS
  <2>5. client' = [client EXCEPT ![c] = d] /\ UNCHANGED <<registry, requests, signedIn, log, settled>>
    BY <1>1, <1>3, <2>1, <2>2, <2>3, <2>4 DEF ReadVersion, Put
  <2>6. old.read.at \in {"none", "next"} /\ ReadOK(old.read) /\ old.read \in Reads /\ version \in Nat
    BY <1>1, Dashboard DEF ReadVersion, RegistryInv, RegistryTypeOK
  <2>7. r \in Reads /\ ReadOK(r)
    <3>1. CASE old.read.at = "none"
      <4>1. items \in Listings /\ first = Absent /\ DOMAIN items = {}
        <5>1. [m \in {} |-> NoEntry] \in [{} -> Entries] /\ {} \in SUBSET Models
          OBVIOUS
        <5> QED BY <2>1, <3>1, <5>1, ListingIntro
      <4> QED BY <2>2, <2>6, <4>1 DEF Reads, ReadOK
    <3>2. CASE old.read.at = "next"
      <4>1. old.read.at # "none" /\ items = old.read.items /\ first = old.read.first
        BY <2>1, <3>2
      <4>2. items \in Listings /\ first \in Headers \cup {Absent}
        BY <2>6, <4>1 DEF Reads, NoRead
      <4>3. first # Absent /\ first.version = old.read.version
        BY <2>6, <3>2, <4>1 DEF ReadOK
      <4>4. r \in Reads
        BY <2>2, <2>6, <4>2 DEF Reads
      <4>5. UpToDate(r) => UpToDate(old.read)
        BY <2>2, <4>1, <4>3 DEF UpToDate
      <4>6. UpToDate(r) => \A m \in DOMAIN r.items : m \in Range(created) /\ r.items[m] = entry[m]
        BY <2>2, <2>6, <4>1, <4>5 DEF ReadOK
      <4>7. r.version <= version /\ r.at \notin {"next", "final"} /\ r.first # Absent
        BY <2>2, <2>6, <4>3
      <4> QED BY <4>4, <4>6, <4>7 DEF ReadOK
    <3> QED BY <2>6, <3>1, <3>2
  <2>8. /\ d \in Dashboards /\ d.phase = old.phase /\ d.read = r /\ d.snap = old.snap
        /\ d.keys = old.keys /\ d.intent = old.intent
    <3>1. reads \in Nat
      BY <2>3 DEF Dashboards
    <3> QED BY <2>4, <2>7, <3>1 DEF Dashboards
  <2> QED BY <1>1, <2>5, <2>7, <2>8, Dashboard, QuietStep DEF Pending
<1> QED BY <1>2, <1>3

LEMMA StepReadAbsent ==
    ASSUME RegistryInv, NEW c \in Clients, ReadAbsent(c)
    PROVE  RegistryInv'
<1>1. CASE version = 0
  <2>1. created = <<>> /\ ~ \E m \in Models : entry[m].active
    BY <1>1 DEF RegistryInv, LogOK
  <2>2. Active = Absent
    BY <2>1 DEF Active
  <2>3. Range(created) = {}
    BY <2>1 DEF Range
  <2>4. EmptySnapshot = Snapshot
    BY <1>1, <2>2, <2>3 DEF EmptySnapshot, Snapshot
  <2>5. PICK s : s = EmptySnapshot
    OBVIOUS
  <2> QED BY <1>1, <2>4, <2>5, LoadedStep DEF ReadAbsent
<1>2. CASE version # 0
  BY <1>2, ReadFailedStep DEF ReadAbsent
<1> QED BY <1>1, <1>2

LEMMA StepReadPage ==
    ASSUME RegistryInv, NEW c \in Clients, ReadPage(c)
    PROVE  RegistryInv'
<1>1. PICK old \in Dashboards : old = client[c]
  BY Dashboard
<1>2. PICK r \in Reads : r = old.read /\ r.at = "page" /\ ReadOK(r)
  BY <1>1, Dashboard DEF ReadPage
<1>3. PICK page : page = Page(Cardinality(DOMAIN r.items))
  OBVIOUS
<1>4. /\ created \in Seq(Models) /\ entry \in [Models -> Entries] /\ version \in Nat
      /\ r.items \in Listings
  BY <1>2 DEF RegistryInv, RegistryTypeOK, Reads, NoRead
<1>5. DOMAIN r.items \in SUBSET Models /\ r.items \in [DOMAIN r.items -> Entries]
  BY <1>4, ListingElim
<1>6. page \subseteq Range(created)
  <2> SUFFICES ASSUME NEW i \in DOMAIN created PROVE Reverse(created)[i] \in Range(created)
    BY <1>3 DEF Page
  <2>1. DOMAIN created = 1..Len(created) /\ Len(created) \in Nat
    BY <1>4
  <2>2. (Len(created) - i) + 1 \in DOMAIN created
    BY <2>1
  <2> QED BY <2>1, <2>2 DEF Reverse, Range
<1>7. PICK items : items = [m \in DOMAIN r.items \cup page |->
                              IF m \in DOMAIN r.items THEN r.items[m] ELSE entry[m]]
  OBVIOUS
<1>8. items \in Listings /\ DOMAIN items = DOMAIN r.items \cup page
  <2>1. DOMAIN r.items \cup page \in SUBSET Models
    BY <1>4, <1>5, <1>6, RangeCreated
  <2>2. items \in [DOMAIN r.items \cup page -> Entries]
    BY <1>4, <1>5, <1>7, <2>1
  <2> QED BY <2>1, <2>2, ListingIntro
<1>9. PICK f : f = [r EXCEPT !.at = "final", !.active = Active, !.total = Len(created), !.items = items]
  OBVIOUS
<1>10. /\ f \in Reads /\ f.at = "final" /\ f.version = r.version /\ f.total = Len(created)
       /\ f.items = items /\ f.first = r.first
  <2>1. r \in UnderWay
    BY <1>2, ReadUnderWay
  <2>2. Len(created) \in Nat
    BY <1>4
  <2>3. /\ f \in UnderWay /\ f.at = "final" /\ f.version = r.version /\ f.total = Len(created)
        /\ f.items = items /\ f.first = r.first
    BY <1>8, <1>9, <2>1, <2>2, ActiveType DEF UnderWay
  <2> QED BY <2>3, ReadUnderWay
<1>11. ReadOK(f)
  <2>1. UpToDate(f) => UpToDate(r)
    BY <1>10 DEF UpToDate
  <2>2. ASSUME UpToDate(f), NEW m \in DOMAIN items
        PROVE  m \in Range(created) /\ items[m] = entry[m]
    BY <1>2, <1>6, <1>7, <1>8, <2>1, <2>2 DEF ReadOK
  <2>3. f.version <= version /\ f.at = "final" /\ f.total = Len(created) /\ f.items = items
    BY <1>2, <1>10 DEF ReadOK
  <2> QED BY <2>2, <2>3 DEF ReadOK
<1>12. PICK d : d = [old EXCEPT !.read = f]
  OBVIOUS
<1>13. client' = [client EXCEPT ![c] = d] /\ UNCHANGED <<registry, requests, signedIn, log, settled>>
  BY <1>1, <1>2, <1>3, <1>7, <1>9, <1>12 DEF ReadPage, Put
<1>14. /\ d \in Dashboards /\ d.phase = old.phase /\ d.read = f /\ d.snap = old.snap
       /\ d.keys = old.keys /\ d.intent = old.intent
  BY <1>10, <1>12 DEF Dashboards
<1> QED BY <1>1, <1>11, <1>13, <1>14, Dashboard, QuietStep DEF Pending

\* A read whose last page agrees with the first and with the registry has all of it.
LEMMA CompleteRead ==
    ASSUME RegistryInv, NEW r \in Reads, ReadOK(r), r.at = "final",
           ~ChangedWhileReading(r), ~PagesDiffer(r), Cardinality(DOMAIN r.items) >= r.total
    PROVE  [version |-> r.version, active |-> r.active, items |-> r.items] = Snapshot
<1>1. r.version = version /\ r.active = Active
  BY DEF ChangedWhileReading
<1>2. r.first = Absent \/ r.first.version = version
  BY <1>1 DEF PagesDiffer
<1>3. /\ r.total = Len(created)
      /\ \A m \in DOMAIN r.items : m \in Range(created) /\ r.items[m] = entry[m]
  BY <1>1, <1>2 DEF ReadOK, UpToDate
<1>4. r.items \in Listings /\ created \in Seq(Models)
  BY DEF Reads, NoRead, RegistryInv, RegistryTypeOK
<1>5. DOMAIN r.items \in SUBSET Range(created)
  BY <1>3
<1>6. DOMAIN r.items = Range(created)
  <2>1. /\ IsFiniteSet(Range(created)) /\ Cardinality(Range(created)) <= Len(created)
        /\ Cardinality(Range(created)) \in Nat /\ Len(created) \in Nat
    BY <1>4, RangeCreated
  <2>2. /\ Cardinality(DOMAIN r.items) <= Cardinality(Range(created))
        /\ IsFiniteSet(DOMAIN r.items)
        /\ Cardinality(Range(created)) = Cardinality(DOMAIN r.items) => Range(created) = DOMAIN r.items
    BY <1>5, <2>1, FS_Subset
  <2>3. Cardinality(DOMAIN r.items) \in Nat
    BY <2>2, FS_CardinalityType
  <2>4. Cardinality(Range(created)) = Cardinality(DOMAIN r.items)
    BY <1>3, <2>1, <2>2, <2>3
  <2> QED BY <2>2, <2>4
<1>7. r.items = [m \in Range(created) |-> entry[m]]
  <2>1. r.items = [m \in DOMAIN r.items |-> r.items[m]]
    BY <1>4, ListingElim
  <2> QED BY <1>3, <1>6, <2>1
<1> QED BY <1>1, <1>7 DEF Snapshot

LEMMA StepFinishPage ==
    ASSUME RegistryInv, NEW c \in Clients, FinishPage(c)
    PROVE  RegistryInv'
<1>1. PICK old \in Dashboards : old = client[c]
  BY Dashboard
<1>2. PICK r \in Reads : r = old.read /\ r.at = "final" /\ ReadOK(r)
  BY <1>1, Dashboard DEF FinishPage
<1>3. CASE ChangedWhileReading(r) \/ PagesDiffer(r)
  BY <1>1, <1>2, <1>3, ReadFailedStep DEF FinishPage
<1>4. CASE ~ChangedWhileReading(r) /\ ~PagesDiffer(r) /\ Cardinality(DOMAIN r.items) >= r.total
  <2>1. PICK s : s = [version |-> r.version, active |-> r.active, items |-> r.items]
    OBVIOUS
  <2>2. s = Snapshot
    BY <1>2, <1>4, <2>1, CompleteRead
  <2> QED BY <1>1, <1>2, <1>4, <2>1, <2>2, LoadedStep DEF FinishPage
<1>5. CASE ~ChangedWhileReading(r) /\ ~PagesDiffer(r) /\ ~(Cardinality(DOMAIN r.items) >= r.total)
  <2>1. PICK h : h = [version |-> r.version, active |-> r.active, total |-> r.total]
    OBVIOUS
  <2>2. PICK f : f = [r EXCEPT !.at = "next", !.first = h]
    OBVIOUS
  <2>3. r \in UnderWay
    BY <1>2, ReadUnderWay
  <2>4. h \in Headers /\ h # Absent
    <3>1. h \in Headers
      BY <2>1, <2>3 DEF Headers, UnderWay
    <3> QED BY <3>1, RegistryAssumption
  <2>5. /\ f \in Reads /\ f.at = "next" /\ f.version = r.version /\ f.items = r.items
        /\ f.first = h /\ h.version = r.version
    <3>1. /\ f \in UnderWay /\ f.at = "next" /\ f.version = r.version /\ f.items = r.items
          /\ f.first = h /\ h.version = r.version
      BY <2>1, <2>2, <2>3, <2>4 DEF UnderWay
    <3> QED BY <3>1, ReadUnderWay
  <2>6. ReadOK(f)
    <3>1. r.version = version /\ UpToDate(r)
      BY <1>5 DEF ChangedWhileReading, PagesDiffer, UpToDate
    <3>2. UpToDate(r) => \A m \in DOMAIN f.items : m \in Range(created) /\ f.items[m] = entry[m]
      BY <1>2, <2>5 DEF ReadOK
    <3>3. f.version <= version
      BY <1>2, <2>5 DEF ReadOK
    <3> QED BY <2>4, <2>5, <3>1, <3>2, <3>3 DEF ReadOK
  <2>7. PICK d : d = [old EXCEPT !.read = f]
    OBVIOUS
  <2>8. client' = [client EXCEPT ![c] = d] /\ UNCHANGED <<registry, requests, signedIn, log, settled>>
    BY <1>1, <1>2, <1>5, <2>1, <2>2, <2>7 DEF FinishPage, Put
  <2>9. /\ d \in Dashboards /\ d.phase = old.phase /\ d.read = f /\ d.snap = old.snap
        /\ d.keys = old.keys /\ d.intent = old.intent
    BY <2>7, <2>5 DEF Dashboards
  <2> QED BY <1>1, <2>6, <2>8, <2>9, Dashboard, QuietStep DEF Pending
<1> QED BY <1>3, <1>4, <1>5

LEMMA StepReload ==
    ASSUME RegistryInv, NEW c \in Clients, Reload(c)
    PROVE  RegistryInv'
<1>1. PICK old \in Dashboards : old = client[c]
  BY Dashboard
<1>2. PICK phase : phase = IF old.phase = "stale" THEN "loading" ELSE "reconciling"
  OBVIOUS
<1>3. PICK d : d = [old EXCEPT !.phase = phase]
  OBVIOUS
<1>4. /\ d \in Dashboards /\ d.phase = phase /\ d.read = old.read /\ d.snap = old.snap
      /\ d.keys = old.keys /\ d.intent = old.intent
  BY <1>2, <1>3 DEF Dashboards
<1>5. client' = [client EXCEPT ![c] = d] /\ UNCHANGED <<registry, requests, signedIn, log, settled>>
  BY <1>1, <1>2, <1>3 DEF Reload, Put
<1>6. phase \in {"loading", "reconciling"} /\ (phase = "reconciling" => Pending(c))
  BY <1>1, <1>2 DEF Reload, Pending, PendingPhases
<1> QED BY <1>1, <1>4, <1>5, <1>6, Dashboard, QuietStep DEF PendingPhases

LEMMA StepAbandon ==
    ASSUME RegistryInv, NEW c \in Clients, Abandon(c)
    PROVE  RegistryInv'
<1>1. PICK old \in Dashboards : old = client[c]
  BY Dashboard
<1>2. PICK d : d = [old EXCEPT !.phase = "ready", !.intent = Absent]
  OBVIOUS
<1>3. d \in Dashboards /\ d.phase = "ready" /\ d.read = old.read /\ d.snap = old.snap /\ d.keys = old.keys
  BY <1>2 DEF Dashboards
<1>4. client' = [client EXCEPT ![c] = d] /\ UNCHANGED <<registry, requests, signedIn, log, settled>>
  BY <1>1, <1>2 DEF Abandon, Put
<1>5. old.phase = "retryable"
  BY <1>1 DEF Abandon
<1> QED BY <1>1, <1>3, <1>4, <1>5, Dashboard, QuietStep DEF PendingPhases

LEMMA StepLoseAnswer ==
    ASSUME RegistryInv, NEW c \in Clients, LoseAnswer(c)
    PROVE  RegistryInv'
<1>1. PICK old \in Dashboards : old = client[c]
  BY Dashboard
<1>2. PICK d : d = [old EXCEPT !.phase = "uncertain", !.waiting = 0]
  OBVIOUS
<1>3. /\ d \in Dashboards /\ d.phase = "uncertain" /\ d.read = old.read /\ d.snap = old.snap
      /\ d.keys = old.keys /\ d.intent = old.intent
  BY <1>2 DEF Dashboards
<1>4. client' = [client EXCEPT ![c] = d] /\ UNCHANGED <<registry, requests, signedIn, log, settled>>
  BY <1>1, <1>2 DEF LoseAnswer, Put
<1>5. Pending(c)
  BY DEF LoseAnswer, Pending, PendingPhases
<1> QED BY <1>1, <1>3, <1>4, <1>5, Dashboard, QuietStep

LEMMA StepEndSession ==
    ASSUME RegistryInv, NEW c \in Clients, EndSession(c)
    PROVE  RegistryInv'
<1>1. PICK old \in Dashboards : old = client[c]
  BY Dashboard
<1>2. client' = [client EXCEPT ![c] = old]
  BY <1>1, Dashboard DEF EndSession
<1>3. Grows /\ UNCHANGED <<registry, requests, settled>>
  BY Quiet DEF EndSession, registry
<1>4. signedIn' \in [Clients -> BOOLEAN]
  BY Dashboard DEF EndSession
<1>5. ReadOK(old.read)' /\ (Real(old.snap) => Real(old.snap)')
  BY <1>1, <1>3, Dashboard DEF Grows
<1> QED BY <1>1, <1>2, <1>3, <1>4, <1>5, Dashboard, DashboardStep DEF Pending, registry

\* A key that a dashboard has not used yet is in no request and not settled.
LEMMA FreshKey ==
    ASSUME RegistryInv, NEW c \in Clients, NEW k, k = <<c, client[c].keys + 1>>
    PROVE  k \notin settled /\ \A q \in requests : q.intent.key # k
<1>1. client[c].keys \in Nat
  BY Dashboard DEF Dashboards
<1>2. ASSUME k[2] <= client[k[1]].keys PROVE FALSE
  BY <1>1, <1>2
<1> QED BY <1>2 DEF RegistryInv, SettledOK, RequestsOK

LEMMA StepBegin ==
    ASSUME RegistryInv, NEW c \in Clients, NEW op \in Operations, NEW m \in Models, Begin(c, op, m)
    PROVE  RegistryInv'
<1>1. PICK old \in Dashboards : old = client[c]
  BY Dashboard
<1>2. PICK i : i = NewIntent(c, op, m, old.snap)
  OBVIOUS
<1>3. CASE ~signedIn[c]
  BY <1>3, SignedOutStep DEF Begin
<1>4. CASE signedIn[c]
  <2>1. PICK d : d = [old EXCEPT !.phase = "sent", !.intent = i, !.keys = old.keys + 1, !.sends = 1, !.waiting = 1]
    OBVIOUS
  <2>2. /\ client' = [client EXCEPT ![c] = d] /\ requests' = requests \cup {Sent(i, 1)}
        /\ UNCHANGED <<registry, signedIn, log, settled>>
    BY <1>1, <1>2, <1>4, <2>1 DEF Begin, Put
  <2>3. old.keys \in 0..MaxKeys /\ old.keys < MaxKeys /\ old.keys + 1 \in 1..MaxKeys /\ old.keys + 1 \in 0..MaxKeys
    BY <1>1, RegistryAssumption DEF Begin, Dashboards
  <2>4. old.snap \in Snapshots /\ Real(old.snap) /\ Offered(old.snap, op, m)
    BY <1>1, Dashboard DEF Begin, Real
  <2>5. i.key = <<c, old.keys + 1>> /\ i.op = op /\ i.model = m /\ i.seen = old.snap
    BY <1>1, <1>2 DEF NewIntent
  <2>6. i \in Intents
    <3>1. <<c, old.keys + 1>> \in Keys
      BY <2>3 DEF Keys
    <3>2. old.snap.items \in Listings
      BY <2>4 DEF Snapshots
    <3>3. m \in DOMAIN old.snap.items => old.snap.items[m] \in Entries
      BY <3>2, ListingElim
    <3>4. PICK v \in Nat : v = IF m \in DOMAIN old.snap.items THEN old.snap.items[m].ver ELSE 0
      BY <3>3 DEF Entries
    <3>5. i = [op |-> op, model |-> m, key |-> <<c, old.keys + 1>>, seen |-> old.snap, entryVer |-> v]
      BY <1>1, <1>2, <3>4 DEF NewIntent
    <3> QED BY <2>4, <3>1, <3>5 DEF Intents
  <2>7. IntentOK(i)
    BY <2>4, <2>5, <2>6 DEF IntentOK
  <2>8. /\ d \in Dashboards /\ d.phase = "sent" /\ d.intent = i /\ d.keys = old.keys + 1
        /\ d.snap = old.snap /\ d.read = old.read
    BY <2>1, <2>3, <2>6 DEF Dashboards
  <2>9. i.key \notin settled /\ \A q \in requests : q.intent.key # i.key
    BY <1>1, <2>5, FreshKey
  <2> QED BY ZenonT(40), <1>1, <2>2, <2>4, <2>5, <2>7, <2>8, <2>9, SendStep
<1> QED BY <1>3, <1>4

LEMMA StepResend ==
    ASSUME RegistryInv, NEW c \in Clients, Resend(c)
    PROVE  RegistryInv'
<1>1. PICK old \in Dashboards : old = client[c]
  BY Dashboard
<1>2. CASE ~signedIn[c]
  BY <1>2, SignedOutStep DEF Resend
<1>3. CASE signedIn[c]
  <2>1. PICK n \in Nat : n = old.sends + 1
    BY DEF Dashboards
  <2>2. PICK d : d = [old EXCEPT !.phase = "sent", !.sends = n, !.waiting = n]
    OBVIOUS
  <2>3. /\ client' = [client EXCEPT ![c] = d] /\ requests' = requests \cup {Sent(old.intent, n)}
        /\ UNCHANGED <<registry, signedIn, log, settled>>
    BY <1>1, <1>3, <2>1, <2>2 DEF Resend, Put
  <2>4. /\ d \in Dashboards /\ d.phase = "sent" /\ d.intent = old.intent /\ d.keys = old.keys
        /\ d.snap = old.snap /\ d.read = old.read
    BY <2>2 DEF Dashboards
  <2>5. /\ IntentOK(old.intent) /\ old.intent.key = <<c, old.keys>> /\ old.intent.key \notin settled
        /\ \A q \in requests : q.intent.key = old.intent.key => q.intent = old.intent
    BY <1>1 DEF RegistryInv, PendingOK, Pending, PendingPhases, Resend
  <2>6. requests' = requests \cup {Sent(d.intent, n)}
    BY <2>3, <2>4
  <2>7. /\ client[c].snap # Absent => Real(client[c].snap)
        /\ d.snap = client[c].snap /\ d.read = client[c].read
        /\ d.keys \in {client[c].keys, client[c].keys + 1}
    BY <1>1, <2>4 DEF RegistryInv, ShownOK
  <2>8. /\ IntentOK(d.intent) /\ d.intent.key = <<c, d.keys>> /\ d.intent.key \notin settled
        /\ \A q \in requests : q.intent.key = d.intent.key => q.intent = d.intent
    BY <2>4, <2>5
  <2> QED BY <2>1, <2>3, <2>4, <2>6, <2>7, <2>8, SendStep
<1> QED BY <1>2, <1>3

\* A request goes on.
LEMMA RequestGoesOn ==
    ASSUME RegistryInv, NEW q \in requests, NEW at \in {"checked", "verified"},
           requests' = (requests \ {q}) \cup {[q EXCEPT !.at = at]},
           UNCHANGED <<registry, client, signedIn, log, settled>>
    PROVE  RegistryInv'
<1>1. q \in Requests /\ q.intent.key[1] \in Clients
  BY DEF RegistryInv, RegistryTypeOK, RequestsOK, IntentOK, Intents, Keys
<1>2. PICK c \in Clients : c = q.intent.key[1]
  BY <1>1
<1>3. PICK old \in Dashboards : old = client[c]
  BY Dashboard
<1>4. client' = [client EXCEPT ![c] = old]
  BY <1>3, Dashboard
<1>5. [q EXCEPT !.at = at] \in Requests /\ [q EXCEPT !.at = at].intent = q.intent
  BY <1>1 DEF Requests
<1>6. requests' \subseteq Requests /\ \A x \in requests' : \E r \in requests : r.intent = x.intent
  BY <1>2, <1>5, Dashboard
<1>7. Grows
  BY Quiet DEF registry
<1>8. ReadOK(old.read)' /\ (Real(old.snap) => Real(old.snap)')
  BY <1>3, <1>7, Dashboard DEF Grows
<1> QED BY <1>3, <1>4, <1>6, <1>7, <1>8, Dashboard, DashboardStep DEF Pending, registry

\* A request that changes nothing ends.
LEMMA QuietAnswer ==
    ASSUME RegistryInv, NEW q \in requests, NEW answer \in AnswerKinds, Finish(q, answer),
           UNCHANGED <<registry, signedIn, log, settled>>
    PROVE  RegistryInv'
<1>1. Grows
  BY Quiet DEF registry
<1> QED BY <1>1, AnswerStep DEF registry, RegistryInv, RegistryTypeOK

LEMMA StepPreflight ==
    ASSUME RegistryInv, NEW q \in requests, Preflight(q)
    PROVE  RegistryInv'
<1>1. CASE Replayed(q.intent)
  BY <1>1, QuietAnswer DEF Preflight, AnswerKinds
<1>2. CASE /\ ~Replayed(q.intent)
           /\ q.intent.op = "revoke" \/ (version = q.intent.seen.version /\ EntryAllows(q.intent))
  <2>1. PICK at \in {"checked", "verified"} : at = IF q.intent.op = "revoke" THEN "verified" ELSE "checked"
    OBVIOUS
  <2> QED BY <1>2, <2>1, RequestGoesOn DEF Preflight
<1>3. CASE /\ ~Replayed(q.intent)
           /\ ~(q.intent.op = "revoke" \/ (version = q.intent.seen.version /\ EntryAllows(q.intent)))
  BY <1>3, QuietAnswer DEF Preflight, AnswerKinds
<1> QED BY <1>1, <1>2, <1>3

LEMMA StepVerifyBytes ==
    ASSUME RegistryInv, NEW q \in requests, VerifyBytes(q)
    PROVE  RegistryInv'
<1>1. CASE requests' = (requests \ {q}) \cup {[q EXCEPT !.at = "verified"]} /\ UNCHANGED client
  BY <1>1, RequestGoesOn DEF VerifyBytes
<1>2. CASE Finish(q, "conflict")
  BY <1>2, QuietAnswer DEF VerifyBytes, AnswerKinds
<1>3. CASE Finish(q, "unavailable")
  BY <1>3, QuietAnswer DEF VerifyBytes, AnswerKinds
<1> QED BY <1>1, <1>2, <1>3 DEF VerifyBytes
LEMMA WrittenType ==
    ASSUME NEW i \in Intents, entry \in [Models -> Entries]
    PROVE  Written(i) \in [Models -> Entries]
<1>1. i.op \in Operations /\ i.model \in Models
  BY DEF Intents
<1>2. ASSUME NEW m \in Models
      PROVE  /\ entry[m].ver + 1 \in Nat
             /\ [entry[m] EXCEPT !.active = FALSE, !.ver = @ + 1] \in Entries
  <2>1. PICK e \in Entries : e = entry[m]
    OBVIOUS
  <2>2. PICK v \in Nat : v = e.ver + 1
    BY DEF Entries
  <2>3. [e EXCEPT !.active = FALSE, !.ver = v] \in Entries
    BY DEF Entries
  <2> QED BY <2>1, <2>2, <2>3
<1>3. CASE i.op = "candidate"
  BY <1>1, <1>3 DEF Written, Entries
<1>4. CASE i.op = "promote"
  <2>1. PICK w : w = [m \in Models |->
              IF m = i.model THEN [status |-> "approved", active |-> TRUE, ver |-> entry[m].ver + 1]
              ELSE IF entry[m].active THEN [entry[m] EXCEPT !.active = FALSE, !.ver = @ + 1]
              ELSE entry[m]]
    OBVIOUS
  <2>2. \A m \in Models : [status |-> "approved", active |-> TRUE, ver |-> entry[m].ver + 1] \in Entries
    BY <1>2 DEF Entries
  <2>3. w \in [Models -> Entries]
    BY <1>2, <2>1, <2>2
  <2> QED BY <1>4, <2>1, <2>3 DEF Written
<1>5. CASE i.op = "revoke"
  <2>1. [status |-> "revoked", active |-> FALSE, ver |-> entry[i.model].ver + 1] \in Entries
    BY <1>1, <1>2 DEF Entries
  <2> QED BY <1>1, <1>5, <2>1 DEF Written
<1> QED BY <1>1, <1>3, <1>4, <1>5 DEF Operations

LEMMA StepApply ==
    ASSUME RegistryInv, NEW q \in requests, Apply(q)
    PROVE  RegistryInv'
<1>1. q.intent \in Intents /\ q.intent.key[1] \in Clients
  BY DEF RegistryInv, RequestsOK, IntentOK, Intents, Keys
<1>2. CASE UNCHANGED <<registry, log>>
  <2>1. \E answer \in AnswerKinds : Finish(q, answer)
    BY <1>2 DEF Apply, AnswerKinds
  <2> QED BY <1>2, <2>1, QuietAnswer DEF Apply
<1>3. CASE ~UNCHANGED <<registry, log>>
  <2>1. /\ version' = version + 1 /\ entry' = Written(q.intent)
        /\ created' = IF q.intent.op = "candidate" THEN Append(created, q.intent.model) ELSE created
        /\ ops' = [ops EXCEPT ![q.intent.key] =
                     [op |-> q.intent.op, model |-> q.intent.model, version |-> version + 1]]
        /\ log' = [v \in DOMAIN log \cup {version'} |-> IF v = version' THEN Snapshot' ELSE log[v]]
        /\ Finish(q, "ok") /\ UNCHANGED <<signedIn, settled>>
    BY <1>3 DEF Apply
  <2>2. /\ version \in Nat /\ created \in Seq(Models) /\ entry \in [Models -> Entries]
        /\ ops \in [Keys -> [op : Operations, model : Models, version : Nat] \cup {Absent}]
        /\ signedIn \in [Clients -> BOOLEAN]
    BY DEF RegistryInv, RegistryTypeOK
  <2>3. entry' \in [Models -> Entries]
    BY <1>1, <2>1, <2>2, WrittenType
  <2>4. created' \in Seq(Models)
    BY <1>1, <2>1, <2>2 DEF Intents
  <2>5. Grows
    BY <2>1, <2>3, <2>4, Committed
  <2>6. ops' \in [Keys -> [op : Operations, model : Models, version : Nat] \cup {Absent}]
    <3>1. [op |-> q.intent.op, model |-> q.intent.model, version |-> version + 1]
            \in [op : Operations, model : Models, version : Nat]
      BY <1>1, <2>2 DEF Intents
    <3> QED BY <2>1, <2>2, <3>1
  <2> QED BY <2>1, <2>2, <2>5, <2>6, AnswerStep DEF AnswerKinds
<1> QED BY <1>2, <1>3

LEMMA RegistryStarts == RegistryInit => RegistryInv
<1> SUFFICES ASSUME RegistryInit PROVE RegistryInv
  OBVIOUS
<1>1. version \in Nat /\ created \in Seq(Models) /\ entry \in [Models -> Entries]
  <2>1. CASE version = 0 /\ created = <<>> /\ entry = [m \in Models |-> NoEntry]
    BY <2>1 DEF NoEntry, Entries
  <2>2. CASE \E m \in Models, s \in {"candidate", "approved"} :
            /\ version = 4
            /\ created \in SetToSeqs(Models)
            /\ entry = [n \in Models |->
                          [status |-> IF n = m THEN "approved" ELSE s, active |-> n = m,
                           ver |-> IF n = m THEN 2 ELSE IF s = "approved" THEN 3 ELSE 1]]
    <3>1. PICK m \in Models, s \in {"candidate", "approved"} :
            /\ version = 4
            /\ created \in SetToSeqs(Models)
            /\ entry = [n \in Models |->
                          [status |-> IF n = m THEN "approved" ELSE s, active |-> n = m,
                           ver |-> IF n = m THEN 2 ELSE IF s = "approved" THEN 3 ELSE 1]]
      BY <2>2
    <3>2. created \in Seq(Models)
      <4>1. created \in [1..Cardinality(Models) -> Models]
        BY <3>1 DEF SetToSeqs
      <4>2. Cardinality(Models) \in Nat
        BY RegistryAssumption, FS_CardinalityType
      <4> QED BY <4>1, <4>2
    <3>3. \A n \in Models : (n = m) \in BOOLEAN
      OBVIOUS
    <3>4. \A n \in Models : entry[n] \in Entries
      BY <3>1, <3>3 DEF Entries
    <3> QED BY <3>1, <3>2, <3>4
  <2> QED BY <2>1, <2>2 DEF RegistryInit
<1>2. /\ ops = [k \in Keys |-> Absent] /\ requests = {} /\ settled = {}
      /\ log = [v \in {version} |-> Snapshot] /\ signedIn = [c \in Clients |-> TRUE]
      /\ client = [c \in Clients |-> [phase |-> "loading", read |-> NoRead, snap |-> Absent,
                     intent |-> Absent, keys |-> 0, reads |-> 0, sends |-> 0, waiting |-> 0]]
  BY DEF RegistryInit
<1>3. Snapshot \in Snapshots /\ Coherent(Snapshot) /\ Snapshot.version = version
  BY <1>1, SnapshotType DEF Snapshot
<1>4. \A c \in Clients :
        /\ client[c] \in Dashboards /\ client[c].phase = "loading" /\ client[c].snap = Absent
        /\ client[c].read = NoRead
  <2>1. 0 \in 0..MaxKeys
    BY RegistryAssumption
  <2> QED BY <1>2, <2>1 DEF Dashboards, Reads
<1>5. RegistryTypeOK
  BY <1>1, <1>2, <1>3, <1>4 DEF RegistryTypeOK
<1>6. LogOK
  <2>1. version = 0 => created = <<>> /\ \A m \in Models : ~entry[m].active
    BY DEF RegistryInit, NoEntry
  <2> QED BY <1>1, <1>2, <1>3, <2>1 DEF LogOK
<1>7. ShownOK /\ PendingOK /\ RequestsOK /\ SettledOK /\ ReadsOK
  BY <1>2, <1>4 DEF ShownOK, PendingOK, Pending, PendingPhases, RequestsOK, SettledOK, ReadsOK,
                    ReadOK, NoRead
<1> QED BY <1>5, <1>6, <1>7 DEF RegistryInv

LEMMA RegistryStep == RegistryInv /\ [RegistryNext]_registryVars => RegistryInv'
<1> SUFFICES ASSUME RegistryInv, [RegistryNext]_registryVars PROVE RegistryInv'
  OBVIOUS
<1>1. CASE UNCHANGED registryVars
  BY <1>1 DEF registryVars, registry, RegistryInv, RegistryTypeOK, LogOK, Snapshot, Active, ShownOK,
              Real, PendingOK, Pending, IntentOK, RequestsOK, SettledOK, ReadsOK, ReadOK, UpToDate
<1>2. ASSUME NEW c \in Clients,
             \/ ReadVersion(c) \/ ReadAbsent(c) \/ ReadPage(c) \/ FinishPage(c)
             \/ Reload(c) \/ Resend(c) \/ Abandon(c) \/ LoseAnswer(c) \/ EndSession(c)
             \/ \E op \in Operations, m \in Models : Begin(c, op, m)
      PROVE  RegistryInv'
  BY <1>2, StepReadVersion, StepReadAbsent, StepReadPage, StepFinishPage, StepReload, StepResend,
     StepAbandon, StepLoseAnswer, StepEndSession, StepBegin
<1>3. ASSUME NEW q \in requests, Preflight(q) \/ VerifyBytes(q) \/ Apply(q) PROVE RegistryInv'
  BY <1>3, StepPreflight, StepVerifyBytes, StepApply
<1> QED BY <1>1, <1>2, <1>3 DEF RegistryNext

\* The inductive invariant of reads, snapshots, intents and requests holds of every
\* behaviour of the registry and its dashboards.
THEOREM RegistrySafe == RegistrySpec => []RegistryInv
BY RegistryStarts, RegistryStep, PTL DEF RegistrySpec

\* RegistryTypeOK: every variable of the registry, its requests and its dashboards keeps its type.
THEOREM RegistryTyped == RegistrySpec => []RegistryTypeOK
<1>1. RegistryInv => RegistryTypeOK
  BY DEF RegistryInv
<1> QED BY <1>1, RegistrySafe, PTL

\* SnapshotWasReal: what a dashboard shows, read page by page from get_registry while
\* others write, is the registry as it was at the version it shows.
THEOREM SnapshotsWereReal == RegistrySpec => []SnapshotWasReal
<1>1. RegistryInv => SnapshotWasReal
  BY DEF RegistryInv, ShownOK, Real, SnapshotWasReal
<1> QED BY <1>1, RegistrySafe, PTL

\* Only the commit of a request writes the operation of a key: the key of an admitted
\* intent.
LEMMA WritesOneKey ==
    ASSUME RegistryInv, [RegistryNext]_registryVars, NEW k, ops'[k] # ops[k]
    PROVE  \E q \in requests : q.intent.key = k /\ Admitted(q.intent)
<1>1. PICK q \in requests : Apply(q) /\ ~UNCHANGED ops
  BY ZenonT(40) DEF RegistryNext, registryVars, registry, ReadVersion, ReadAbsent, ReadPage, FinishPage,
         Reload, Resend, Abandon, LoseAnswer, EndSession, Begin, Preflight, VerifyBytes
<1>2. /\ Admitted(q.intent)
      /\ ops' = [ops EXCEPT ![q.intent.key] =
                    [op |-> q.intent.op, model |-> q.intent.model, version |-> version + 1]]
  BY <1>1 DEF Apply, registry
<1>3. DOMAIN ops' = Keys /\ DOMAIN ops = Keys /\ q.intent.key \in Keys
  BY <1>2 DEF RegistryInv, RegistryTypeOK, RequestsOK, IntentOK, Intents
<1>4. k = q.intent.key
  BY <1>2, <1>3
<1> QED BY Zenon, <1>1, <1>2, <1>4

\* MutationReplacesWhatWasSeen: the transaction of promote_entry, revoke_entry or
\* create_candidate changes exactly the registry that its user was looking at, however
\* often the request was sent and whoever wrote in between.
THEOREM MutationsReplaceWhatWasSeen == RegistrySpec => MutationReplacesWhatWasSeen
<1>1. ASSUME RegistryInv, [RegistryNext]_registryVars
      PROVE  [\A q \in requests : ops'[q.intent.key] # ops[q.intent.key]
                  => q.intent.seen = Snapshot]_registryVars
  <2> SUFFICES ASSUME NEW q \in requests, ops'[q.intent.key] # ops[q.intent.key]
               PROVE  q.intent.seen = Snapshot
    OBVIOUS
  <2>1. PICK r \in requests : r.intent.key = q.intent.key /\ Admitted(r.intent)
    BY <1>1, WritesOneKey
  <2>2. r.intent = q.intent /\ IntentOK(q.intent)
    BY <1>1, <2>1 DEF RegistryInv, RequestsOK
  <2>3. q.intent.seen.version = version
    BY <2>1, <2>2 DEF Admitted
  <2> QED BY <1>1, <2>2, <2>3 DEF IntentOK, Real, RegistryInv, LogOK
<1> QED BY <1>1, RegistrySafe, PTL DEF RegistrySpec, MutationReplacesWhatWasSeen

\* SettledStaysSettled: a request of an intent that the dashboard's reconciliation gave up
\* as applied or overtaken can no longer change the registry.
THEOREM SettledIntentsStaySettled == RegistrySpec => SettledStaysSettled
<1>1. ASSUME RegistryInv, [RegistryNext]_registryVars
      PROVE  [\A k \in settled : ops'[k] = ops[k]]_registryVars
  <2> SUFFICES ASSUME NEW k \in settled, ops'[k] # ops[k] PROVE FALSE
    OBVIOUS
  <2>1. PICK q \in requests : q.intent.key = k /\ Admitted(q.intent)
    BY <1>1, WritesOneKey
  <2>2. q.intent.seen.version = version
    BY <2>1 DEF Admitted
  <2>3. q.intent.seen.version < version /\ version \in Nat
    BY <1>1, <2>1 DEF RegistryInv, SettledOK, RegistryTypeOK
  <2> QED BY <2>2, <2>3
<1> QED BY <1>1, RegistrySafe, PTL DEF RegistrySpec, SettledStaysSettled

=============================================================================
