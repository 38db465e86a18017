------------------------ MODULE ArtifactUploadProofs ------------------------
(***************************************************************************)
(* Proofs about what a Worker publishes: its upload sessions               *)
(* (ArtifactUpload), the samples made of the artifacts (Samples) and the   *)
(* adoption of the sessions of earlier releases (StorageAdoption).  The    *)
(* three parts share no state and use nothing of each other.               *)
(***************************************************************************)
EXTENDS ArtifactUpload, Samples, StorageAdoption, FiniteSetTheorems, TLAPS

-----------------------------------------------------------------------------
(***************************************************************************)
(* ArtifactUpload.                                                         *)
(* Proofs about ArtifactUpload, for any number of sessions, requests and   *)
(* faults and any quota.                                                   *)
(***************************************************************************)

USE DEF Terminal, Statuses, Phases, Idle, Passes, Kinds
USE DEF Labels, WriterLabels, FinalizerLabels, CleanerLabels

\* Whoever runs works on a session.
AtWork == \A p \in Procs : pc[p] # Idle => ses[p] \in Sessions

\* The type invariant in three parts, as the actions change them.
ProcsTyped ==
    /\ pc \in [Procs -> Labels]
    /\ ses \in [Procs -> Sessions \cup {None}]
    /\ todo \in [Procs -> [canonical : Passes, staging : Passes]]
    /\ AtWork

RowsTyped ==
    /\ status \in [Sessions -> Statuses]
    /\ wtok \in [Sessions -> Procs \cup {None}]
    /\ sealed \in [Sessions -> BOOLEAN]
    /\ past \in [Sessions -> BOOLEAN]
    /\ ftok \in [Sessions -> Procs \cup {None}]
    /\ stale \in [Sessions -> BOOLEAN]
    /\ cclean \in [Sessions -> Phases]

RestTyped ==
    /\ ctok \in [Sessions -> Procs \cup {None}]
    /\ cstale \in [Sessions -> BOOLEAN]
    /\ sclean \in [Sessions -> Phases]
    /\ staging \in [Sessions -> {"none", "good", "bad"}]
    /\ canonical \in [Sessions -> {"none", "good"}]
    /\ lease \in BOOLEAN /\ backend \in Backends /\ faults \in 0..MaxFaults

TypeInv == ProcsTyped /\ RowsTyped /\ RestTyped

\* TypeInv is the module's type invariant and AtWork.
LEMMA TypeParts == TypeInv <=> TypeOK /\ AtWork
BY DEF TypeInv, TypeOK, ProcsTyped, RowsTyped, RestTyped

\* A process moves, and no other one.
LEMMA GotoEffect ==
    ASSUME TypeInv, NEW p \in Procs, NEW s \in Sessions \cup {None}, NEW l \in Labels,
           l # Idle => s \in Sessions, Goto(p, s, l)
    PROVE  /\ ProcsTyped'
           /\ pc'[p] = l
           /\ l # Idle => ses'[p] = s /\ todo'[p] = todo[p]
           /\ l = Idle => todo'[p] = [canonical |-> "none", staging |-> "none"]
           /\ \A q \in Procs : q # p => pc'[q] = pc[q] /\ ses'[q] = ses[q] /\ todo'[q] = todo[q]
BY DEF TypeInv, ProcsTyped, AtWork, Goto

\* The columns of a session that its owner writes when it leaves "finalizing".
LEMMA LeaveEffect ==
    ASSUME TypeInv, NEW p \in Procs, pc[p] # Idle, NEW st \in Statuses, NEW phase \in Phases,
           Leave(p, st, phase)
    PROVE  /\ ProcsTyped'
           /\ status' \in [Sessions -> Statuses] /\ wtok' \in [Sessions -> Procs \cup {None}]
           /\ ftok' \in [Sessions -> Procs \cup {None}] /\ stale' \in [Sessions -> BOOLEAN]
           /\ cclean' \in [Sessions -> Phases]
           /\ \A q \in Procs : q # p => pc'[q] = pc[q] /\ ses'[q] = ses[q] /\ todo'[q] = todo[q]
           /\ pc'[p] \in {Idle, "claim"}
           /\ pc'[p] # Idle => ses'[p] = ses[p]
           /\ \A s \in Sessions : s # ses[p] \/ ~Owns(p) =>
                status'[s] = status[s] /\ wtok'[s] = wtok[s] /\ ftok'[s] = ftok[s] /\ cclean'[s] = cclean[s]
           /\ Owns(p) => status'[ses[p]] = st /\ wtok'[ses[p]] = None
                         /\ ftok'[ses[p]] = None /\ cclean'[ses[p]] = phase
           /\ todo'[p].canonical \in {todo[p].canonical, "none"}
<1> DEFINE s == ses[p]
<1>1. s \in Sessions
  BY DEF TypeInv, ProcsTyped, AtWork
<1>2. CASE Owns(p)
  <2>1. /\ status' = [status EXCEPT ![s] = st]
        /\ wtok' = [wtok EXCEPT ![s] = None]
        /\ ftok' = [ftok EXCEPT ![s] = None]
        /\ stale' = [stale EXCEPT ![s] = FALSE]
        /\ cclean' = [cclean EXCEPT ![s] = phase]
        /\ Goto(p, s, IF st = "pending" THEN Idle ELSE "claim")
    BY <1>2 DEF Leave
  <2> HIDE DEF s
  <2>2. \E l \in {Idle, "claim"} : Goto(p, s, l)
    BY <2>1
  <2>3. PICK l \in {Idle, "claim"} : Goto(p, s, l)
    BY <2>2
  <2>4. /\ ProcsTyped'
        /\ pc'[p] = l
        /\ l # Idle => ses'[p] = s /\ todo'[p] = todo[p]
        /\ l = Idle => todo'[p] = [canonical |-> "none", staging |-> "none"]
        /\ \A q \in Procs : q # p => pc'[q] = pc[q] /\ ses'[q] = ses[q] /\ todo'[q] = todo[q]
    BY <1>1, <2>3, GotoEffect
  <2>5. todo'[p].canonical \in {todo[p].canonical, "none"}
    BY <2>4
  <2>6. /\ status' \in [Sessions -> Statuses] /\ wtok' \in [Sessions -> Procs \cup {None}]
        /\ ftok' \in [Sessions -> Procs \cup {None}] /\ stale' \in [Sessions -> BOOLEAN]
        /\ cclean' \in [Sessions -> Phases]
        /\ status'[s] = st /\ wtok'[s] = None /\ ftok'[s] = None /\ cclean'[s] = phase
        /\ \A r \in Sessions : r # s =>
             status'[r] = status[r] /\ wtok'[r] = wtok[r] /\ ftok'[r] = ftok[r] /\ cclean'[r] = cclean[r]
    BY <1>1, <2>1 DEF TypeInv, RowsTyped
  <2> QED BY <1>2, <2>4, <2>5, <2>6 DEF s
<1>3. CASE ~Owns(p)
  <2>1. Goto(p, None, Idle) /\ UNCHANGED <<status, wtok, ftok, stale, cclean>>
    BY <1>3 DEF Leave
  <2> QED BY <1>3, <2>1, GotoEffect DEF TypeInv, RowsTyped
<1> QED BY <1>2, <1>3

\* Every step keeps the types.
LEMMA TypeStep == ASSUME UploadAssumption, TypeInv, [Next]_vars PROVE TypeInv'
<1> USE UploadAssumption
<1>1. ASSUME NEW p \in Procs, NothingToClean(p) PROVE TypeInv'
  <2>1. ses[p] \in Sessions /\ pc[p] # Idle
    BY <1>1 DEF TypeInv, ProcsTyped, AtWork, NothingToClean
  <2>2. ProcsTyped'
    BY <1>1, <2>1, GotoEffect DEF NothingToClean
  <2>3. RowsTyped'
    BY <1>1, <2>1 DEF TypeInv, RowsTyped, NothingToClean, rowVars, cleanVars, objectVars
  <2>4. RestTyped'
    BY <1>1, <2>1 DEF TypeInv, RestTyped, NothingToClean, rowVars, cleanVars, objectVars
  <2> QED BY <2>2, <2>3, <2>4 DEF TypeInv
<1>2. ASSUME NEW p \in Procs, Release(p) PROVE TypeInv'
  <2>1. ses[p] \in Sessions /\ pc[p] # Idle
    BY <1>2 DEF TypeInv, ProcsTyped, AtWork, Release
  <2>2. ProcsTyped'
    BY <1>2, <2>1, GotoEffect DEF Release
  <2>3. RowsTyped'
    BY <1>2, <2>1 DEF TypeInv, RowsTyped, Release, OwnsCleanup, rowVars, objectVars
  <2>4. RestTyped'
    BY <1>2, <2>1 DEF TypeInv, RestTyped, Release, OwnsCleanup, rowVars, objectVars
  <2> QED BY <2>2, <2>3, <2>4 DEF TypeInv
<1>3. ASSUME NEW p \in Procs, Write(p) PROVE TypeInv'
  <2>1. ses[p] \in Sessions /\ pc[p] # Idle
    BY <1>3 DEF TypeInv, ProcsTyped, AtWork, Write
  <2>2. ProcsTyped'
    BY <1>3, <2>1, GotoEffect DEF Write
  <2>3. RowsTyped'
    BY <1>3, <2>1 DEF TypeInv, RowsTyped, Write, rowVars, cleanVars
  <2>4. RestTyped'
    BY <1>3, <2>1 DEF TypeInv, RestTyped, Write, rowVars, cleanVars
  <2> QED BY <2>2, <2>3, <2>4 DEF TypeInv
<1>4. ASSUME NEW p \in Procs, WriteFails(p) PROVE TypeInv'
  <2>1. ses[p] \in Sessions /\ pc[p] # Idle
    BY <1>4 DEF TypeInv, ProcsTyped, AtWork, WriteFails
  <2>2. ProcsTyped'
    BY <1>4, <2>1, GotoEffect DEF WriteFails
  <2>3. RowsTyped'
    BY <1>4, <2>1 DEF TypeInv, RowsTyped, WriteFails, cleanVars, objectVars
  <2>4. RestTyped'
    BY <1>4, <2>1 DEF TypeInv, RestTyped, WriteFails, Fault, cleanVars, objectVars
  <2> QED BY <2>2, <2>3, <2>4 DEF TypeInv
<1>5. ASSUME NEW p \in Procs, WriteLost(p) PROVE TypeInv'
  <2>1. ses[p] \in Sessions /\ pc[p] # Idle
    BY <1>5 DEF TypeInv, ProcsTyped, AtWork, WriteLost
  <2>2. ProcsTyped'
    BY <1>5, <2>1, GotoEffect DEF WriteLost
  <2>3. RowsTyped'
    BY <1>5, <2>1 DEF TypeInv, RowsTyped, WriteLost, ExpiredWrite, cleanVars, objectVars
  <2>4. RestTyped'
    BY <1>5, <2>1 DEF TypeInv, RestTyped, WriteLost, cleanVars, objectVars
  <2> QED BY <2>2, <2>3, <2>4 DEF TypeInv
<1>6. ASSUME NEW p \in Procs, Seal(p) PROVE TypeInv'
  <2>1. ses[p] \in Sessions /\ pc[p] # Idle
    BY <1>6 DEF TypeInv, ProcsTyped, AtWork, Seal
  <2>2. ProcsTyped'
    BY <1>6, <2>1, GotoEffect DEF Seal
  <2>3. RowsTyped'
    BY <1>6, <2>1 DEF TypeInv, RowsTyped, Seal, ExpiredWrite, cleanVars, objectVars
  <2>4. RestTyped'
    BY <1>6, <2>1 DEF TypeInv, RestTyped, Seal, cleanVars, objectVars
  <2> QED BY <2>2, <2>3, <2>4 DEF TypeInv
<1>7. ASSUME NEW p \in Procs, Verify(p) PROVE TypeInv'
  <2>1. ses[p] \in Sessions /\ pc[p] # Idle
    BY <1>7 DEF TypeInv, ProcsTyped, AtWork, Verify
  <2>2. ProcsTyped'
    BY <1>7, <2>1, GotoEffect, LeaveEffect DEF Verify, MarkVerificationFailure, RowsTyped, TypeInv
  <2>3. RowsTyped'
    <3>1. cclean[ses[p]] \in Phases
      BY <2>1 DEF TypeInv, RowsTyped
    <3>2. CASE \E st \in {"pending", "failed", "completed"}, phase \in {cclean[ses[p]], "skipped"} : Leave(p, st, phase)
      <4>1. PICK st \in {"pending", "failed", "completed"}, phase \in {cclean[ses[p]], "skipped"} : Leave(p, st, phase)
        BY <3>2
      <4>2. /\ status' \in [Sessions -> Statuses] /\ wtok' \in [Sessions -> Procs \cup {None}]
            /\ ftok' \in [Sessions -> Procs \cup {None}] /\ stale' \in [Sessions -> BOOLEAN]
            /\ cclean' \in [Sessions -> Phases]
        BY <2>1, <3>1, <4>1, LeaveEffect
      <4> QED BY <1>7, <4>2 DEF TypeInv, RowsTyped, Verify
    <3>3. CASE ~ \E st \in {"pending", "failed", "completed"}, phase \in {cclean[ses[p]], "skipped"} : Leave(p, st, phase)
      BY <1>7, <2>1, <3>3 DEF TypeInv, RowsTyped, Verify, MarkVerificationFailure, FailAfterPublish
    <3> QED BY <3>2, <3>3
  <2>4. RestTyped'
    BY <1>7, <2>1 DEF TypeInv, RestTyped, Verify, Fault, MarkVerificationFailure, objectVars
  <2> QED BY <2>2, <2>3, <2>4 DEF TypeInv
<1>8. ASSUME NEW p \in Procs, Recheck(p) PROVE TypeInv'
  <2>1. ses[p] \in Sessions /\ pc[p] # Idle
    BY <1>8 DEF TypeInv, ProcsTyped, AtWork, Recheck
  <2>2. ProcsTyped'
    BY <1>8, <2>1, GotoEffect, LeaveEffect DEF Recheck, MarkVerificationFailure, RowsTyped, TypeInv
  <2>3. RowsTyped'
    BY <1>8, <2>1, LeaveEffect DEF TypeInv, RowsTyped, Recheck, MarkVerificationFailure, objectVars
  <2>4. RestTyped'
    BY <1>8, <2>1 DEF TypeInv, RestTyped, Recheck, MarkVerificationFailure, objectVars
  <2> QED BY <2>2, <2>3, <2>4 DEF TypeInv
<1>9. ASSUME NEW p \in Procs, Publish(p) PROVE TypeInv'
  <2>1. ses[p] \in Sessions /\ pc[p] # Idle
    BY <1>9 DEF TypeInv, ProcsTyped, AtWork, Publish
  <2>2. ProcsTyped'
    BY <1>9, <2>1, GotoEffect DEF Publish
  <2>3. RowsTyped'
    BY <1>9, <2>1 DEF TypeInv, RowsTyped, Publish, cleanVars, objectVars
  <2>4. RestTyped'
    BY <1>9, <2>1 DEF TypeInv, RestTyped, Publish, cleanVars, objectVars
  <2> QED BY <2>2, <2>3, <2>4 DEF TypeInv
<1>10. ASSUME NEW p \in Procs, PutCanonical(p) PROVE TypeInv'
  <2>1. ses[p] \in Sessions /\ pc[p] # Idle
    BY <1>10 DEF TypeInv, ProcsTyped, AtWork, PutCanonical
  <2>2. ProcsTyped'
    BY <1>10, <2>1, GotoEffect, LeaveEffect DEF PutCanonical, FailAfterPublish, RowsTyped, TypeInv
  <2>3. RowsTyped'
    <3>1. cclean[ses[p]] \in Phases
      BY <2>1 DEF TypeInv, RowsTyped
    <3>2. CASE \E st \in {"pending", "failed", "completed"}, phase \in {cclean[ses[p]], "skipped"} : Leave(p, st, phase)
      <4>1. PICK st \in {"pending", "failed", "completed"}, phase \in {cclean[ses[p]], "skipped"} : Leave(p, st, phase)
        BY <3>2
      <4>2. /\ status' \in [Sessions -> Statuses] /\ wtok' \in [Sessions -> Procs \cup {None}]
            /\ ftok' \in [Sessions -> Procs \cup {None}] /\ stale' \in [Sessions -> BOOLEAN]
            /\ cclean' \in [Sessions -> Phases]
        BY <2>1, <3>1, <4>1, LeaveEffect
      <4> QED BY <1>10, <4>2 DEF TypeInv, RowsTyped, PutCanonical
    <3>3. CASE ~ \E st \in {"pending", "failed", "completed"}, phase \in {cclean[ses[p]], "skipped"} : Leave(p, st, phase)
      BY <1>10, <2>1, <3>3 DEF TypeInv, RowsTyped, PutCanonical, MarkVerificationFailure,
             FailAfterPublish
    <3> QED BY <3>2, <3>3
  <2>4. RestTyped'
    BY <1>10, <2>1 DEF TypeInv, RestTyped, PutCanonical, Fault, FailAfterPublish
  <2> QED BY <2>2, <2>3, <2>4 DEF TypeInv
<1>11. ASSUME NEW p \in Procs, Commit(p) PROVE TypeInv'
  <2>1. ses[p] \in Sessions /\ pc[p] # Idle
    BY <1>11 DEF TypeInv, ProcsTyped, AtWork, Commit
  <2>2. ProcsTyped'
    BY <1>11, <2>1, GotoEffect, LeaveEffect DEF Commit, FailAfterPublish, RowsTyped, TypeInv
  <2>3. RowsTyped'
    <3>1. cclean[ses[p]] \in Phases
      BY <2>1 DEF TypeInv, RowsTyped
    <3>2. CASE \E st \in {"pending", "failed", "completed"}, phase \in {cclean[ses[p]], "skipped"} : Leave(p, st, phase)
      <4>1. PICK st \in {"pending", "failed", "completed"}, phase \in {cclean[ses[p]], "skipped"} : Leave(p, st, phase)
        BY <3>2
      <4>2. /\ status' \in [Sessions -> Statuses] /\ wtok' \in [Sessions -> Procs \cup {None}]
            /\ ftok' \in [Sessions -> Procs \cup {None}] /\ stale' \in [Sessions -> BOOLEAN]
            /\ cclean' \in [Sessions -> Phases]
        BY <2>1, <3>1, <4>1, LeaveEffect
      <4> QED BY ZenonT(40), <1>11, <4>2 DEF TypeInv, RowsTyped, Commit
    <3>3. CASE ~ \E st \in {"pending", "failed", "completed"}, phase \in {cclean[ses[p]], "skipped"} : Leave(p, st, phase)
      BY <1>11, <2>1, <3>3 DEF TypeInv, RowsTyped, Commit, MarkVerificationFailure, FailAfterPublish
    <3> QED BY <3>2, <3>3
  <2>4. RestTyped'
    BY <1>11, <2>1 DEF TypeInv, RestTyped, Commit, Fault, FailAfterPublish, objectVars
  <2> QED BY <2>2, <2>3, <2>4 DEF TypeInv
<1>12. ASSUME NEW p \in Procs, Heartbeat(p) PROVE TypeInv'
  BY <1>12 DEF TypeInv, ProcsTyped, RowsTyped, RestTyped, AtWork, Heartbeat, cleanVars,
         objectVars, procVars
<1>13. ASSUME NEW p \in Procs, Crash(p) PROVE TypeInv'
  <2>1. ses[p] \in Sessions /\ pc[p] # Idle
    BY <1>13 DEF TypeInv, ProcsTyped, AtWork, Crash
  <2>2. ProcsTyped'
    BY <1>13, <2>1, GotoEffect DEF Crash
  <2>3. RowsTyped'
    BY <1>13, <2>1 DEF TypeInv, RowsTyped, Crash, rowVars, cleanVars, objectVars
  <2>4. RestTyped'
    BY <1>13, <2>1 DEF TypeInv, RestTyped, Crash, Fault, rowVars, cleanVars, objectVars
  <2> QED BY <2>2, <2>3, <2>4 DEF TypeInv
<1>14. ASSUME NEW p \in Procs, NEW kind \in Kinds, Skip(p, kind) PROVE TypeInv'
  <2>1. ses[p] \in Sessions /\ pc[p] # Idle
    BY <1>14 DEF TypeInv, ProcsTyped, AtWork, Skip
  <2>2. ProcsTyped'
    BY <1>14, <2>1, GotoEffect DEF Skip, After
  <2>3. RowsTyped'
    BY <1>14, <2>1 DEF TypeInv, RowsTyped, Skip, rowVars, cleanVars, objectVars
  <2>4. RestTyped'
    BY <1>14, <2>1 DEF TypeInv, RestTyped, Skip, rowVars, cleanVars, objectVars
  <2> QED BY <2>2, <2>3, <2>4 DEF TypeInv
<1>15. ASSUME NEW p \in Procs, NEW kind \in Kinds, Delete(p, kind) PROVE TypeInv'
  <2>1. ses[p] \in Sessions /\ pc[p] # Idle
    BY <1>15 DEF TypeInv, ProcsTyped, AtWork, Delete, RecordLabel
  <2>2. ProcsTyped'
    BY <1>15, <2>1, GotoEffect DEF Delete, RecordLabel
  <2>3. RowsTyped'
    BY <1>15, <2>1 DEF TypeInv, RowsTyped, Delete, OwnsCleanup, rowVars
  <2>4. RestTyped'
    BY <1>15, <2>1 DEF TypeInv, RestTyped, Delete, OwnsCleanup, rowVars
  <2> QED BY <2>2, <2>3, <2>4 DEF TypeInv
<1>16. ASSUME NEW p \in Procs, NEW kind \in Kinds, CleanupLost(p, kind) PROVE TypeInv'
  <2>1. ses[p] \in Sessions /\ pc[p] # Idle
    BY <1>16 DEF TypeInv, ProcsTyped, AtWork, CleanupLost
  <2>2. ProcsTyped'
    BY <1>16, <2>1, GotoEffect DEF CleanupLost
  <2>3. RowsTyped'
    BY <1>16, <2>1 DEF TypeInv, RowsTyped, CleanupLost, OwnsCleanup, rowVars, cleanVars, objectVars
  <2>4. RestTyped'
    BY <1>16, <2>1 DEF TypeInv, RestTyped, CleanupLost, OwnsCleanup, rowVars, cleanVars, objectVars
  <2> QED BY <2>2, <2>3, <2>4 DEF TypeInv
<1>17. ASSUME NEW p \in Procs, NEW kind \in Kinds, DeleteFails(p, kind) PROVE TypeInv'
  <2>1. ses[p] \in Sessions /\ pc[p] # Idle
    BY <1>17 DEF TypeInv, ProcsTyped, AtWork, DeleteFails
  <2>2. ProcsTyped'
    BY <1>17, <2>1, GotoEffect DEF DeleteFails, After
  <2>3. RowsTyped'
    BY <1>17, <2>1 DEF TypeInv, RowsTyped, DeleteFails, OwnsCleanup, rowVars, objectVars
  <2>4. RestTyped'
    BY <1>17, <2>1 DEF TypeInv, RestTyped, DeleteFails, Fault, OwnsCleanup, rowVars, objectVars
  <2> QED BY <2>2, <2>3, <2>4 DEF TypeInv
<1>18. ASSUME NEW p \in Procs, NEW kind \in Kinds, Record(p, kind) PROVE TypeInv'
  <2>1. ses[p] \in Sessions /\ pc[p] # Idle
    BY <1>18 DEF TypeInv, ProcsTyped, AtWork, Record, RecordLabel
  <2>2. ProcsTyped'
    BY <1>18, <2>1, GotoEffect DEF Record, After, RecordLabel
  <2>3. RowsTyped'
    BY <1>18, <2>1 DEF TypeInv, RowsTyped, Record, OwnsCleanup, Recorded, rowVars, objectVars
  <2>4. RestTyped'
    BY <1>18, <2>1 DEF TypeInv, RestTyped, Record, OwnsCleanup, Recorded, rowVars, objectVars
  <2> QED BY <2>2, <2>3, <2>4 DEF TypeInv
<1>19. ASSUME NEW p \in Procs, NEW s \in Sessions, ExpireUpload(p, s) PROVE TypeInv'
  <2>2. ProcsTyped'
    BY <1>19, GotoEffect DEF ExpireUpload
  <2>3. RowsTyped'
    BY <1>19 DEF TypeInv, RowsTyped, ExpireUpload, cleanVars, objectVars
  <2>4. RestTyped'
    BY <1>19 DEF TypeInv, RestTyped, ExpireUpload, cleanVars, objectVars
  <2> QED BY <2>2, <2>3, <2>4 DEF TypeInv
<1>20. ASSUME NEW p \in Procs, NEW s \in Sessions, ClaimWrite(p, s) PROVE TypeInv'
  <2>2. ProcsTyped'
    BY <1>20, GotoEffect DEF ClaimWrite
  <2>3. RowsTyped'
    BY <1>20 DEF TypeInv, RowsTyped, ClaimWrite, cleanVars, objectVars
  <2>4. RestTyped'
    BY <1>20 DEF TypeInv, RestTyped, ClaimWrite, cleanVars, objectVars
  <2> QED BY <2>2, <2>3, <2>4 DEF TypeInv
<1>21. ASSUME NEW p \in Procs, NEW s \in Sessions, ClaimFinalization(p, s) PROVE TypeInv'
  <2>2. ProcsTyped'
    BY <1>21, GotoEffect DEF ClaimFinalization
  <2>3. RowsTyped'
    BY <1>21 DEF TypeInv, RowsTyped, ClaimFinalization, cleanVars, objectVars
  <2>4. RestTyped'
    BY <1>21 DEF TypeInv, RestTyped, ClaimFinalization, cleanVars, objectVars
  <2> QED BY <2>2, <2>3, <2>4 DEF TypeInv
<1>22. ASSUME NEW p \in Procs, NEW s \in Sessions, ClaimCleanup(p, s) PROVE TypeInv'
  <2>2. ProcsTyped'
    BY <1>22 DEF TypeInv, ProcsTyped, AtWork, ClaimCleanup, CanonicalAction, StagingAction
  <2>3. RowsTyped'
    BY <1>22 DEF TypeInv, RowsTyped, ClaimCleanup, CanonicalAction, StagingAction, rowVars,
           objectVars
  <2>4. RestTyped'
    BY <1>22 DEF TypeInv, RestTyped, ClaimCleanup, CanonicalAction, StagingAction, rowVars,
           objectVars
  <2> QED BY <2>2, <2>3, <2>4 DEF TypeInv
<1>23. ASSUME NEW s \in Sessions, Reserve(s) PROVE TypeInv'
  BY <1>23 DEF TypeInv, ProcsTyped, RowsTyped, RestTyped, AtWork, Reserve, cleanVars, objectVars,
         procVars
<1>24. ASSUME NEW s \in Sessions, RecoverStale(s) PROVE TypeInv'
  BY <1>24 DEF TypeInv, ProcsTyped, RowsTyped, RestTyped, AtWork, RecoverStale, cleanVars,
         objectVars, procVars
<1>25. ASSUME NEW s \in Sessions, ExpireWrite(s) PROVE TypeInv'
  BY ZenonT(40), <1>25 DEF TypeInv, ProcsTyped, RowsTyped, RestTyped, AtWork, ExpireWrite,
     ExpiredWrite,
         cleanVars, objectVars, procVars
<1>26. ASSUME NEW s \in Sessions, S3Put(s) PROVE TypeInv'
  BY <1>26 DEF TypeInv, ProcsTyped, RowsTyped, RestTyped, AtWork, S3Put, rowVars, cleanVars,
         procVars
<1>27. ASSUME NEW s \in Sessions, Expire(s) PROVE TypeInv'
  BY <1>27 DEF TypeInv, ProcsTyped, RowsTyped, RestTyped, AtWork, Expire, cleanVars, objectVars,
         procVars
<1>28. ASSUME NEW s \in Sessions, FinalizerStale(s) PROVE TypeInv'
  BY <1>28 DEF TypeInv, ProcsTyped, RowsTyped, RestTyped, AtWork, FinalizerStale, Fault, Late,
         cleanVars, objectVars, procVars
<1>29. ASSUME NEW s \in Sessions, CleanerStale(s) PROVE TypeInv'
  BY <1>29 DEF TypeInv, ProcsTyped, RowsTyped, RestTyped, AtWork, CleanerStale, Fault, Late,
         rowVars, objectVars, procVars
<1>30. ASSUME NEW s \in Sessions, StagingDue(s) PROVE TypeInv'
  BY <1>30 DEF TypeInv, ProcsTyped, RowsTyped, RestTyped, AtWork, StagingDue, rowVars,
         objectVars, procVars
<1>31. ASSUME NEW s \in Sessions, CanonicalDue(s) PROVE TypeInv'
  BY <1>31 DEF TypeInv, ProcsTyped, RowsTyped, RestTyped, AtWork, CanonicalDue, rowVars,
         objectVars, procVars
<1>32. ASSUME NEW s \in Sessions, ConfirmationDue(s) PROVE TypeInv'
  BY SMTT(30), <1>32 DEF TypeInv, ProcsTyped, RowsTyped, RestTyped, AtWork, ConfirmationDue,
     rowVars,
         objectVars, procVars
<1>33. ASSUME LoseLease PROVE TypeInv'
  BY <1>33 DEF TypeInv, ProcsTyped, RowsTyped, RestTyped, AtWork, LoseLease, rowVars, cleanVars,
         objectVars, procVars
<1>34. CASE UNCHANGED vars
  BY <1>34 DEF TypeInv, ProcsTyped, RowsTyped, RestTyped, AtWork, vars, rowVars, cleanVars,
         objectVars, procVars
<1> QED BY <1>1, <1>2, <1>3, <1>4, <1>5, <1>6, <1>7, <1>8, <1>9, <1>10, <1>11, <1>12, <1>13,
       <1>14, <1>15, <1>16, <1>17, <1>18, <1>19, <1>20, <1>21, <1>22, <1>23, <1>24, <1>25, <1>26,
       <1>27, <1>28, <1>29, <1>30, <1>31, <1>32, <1>33, <1>34 DEF Next, NextProc, NextSession,
       CleanerStep, RequestStep
\* What does not exist has left no trace; whoever works on a session works on one
\* that exists.
ExistsInv ==
    /\ \A s \in Sessions : past[s] => status[s] # "none"
    /\ \A s \in Sessions : status[s] = "none" => staging[s] = "none" /\ canonical[s] = "none"
    /\ \A p \in Procs : pc[p] # Idle => status[ses[p]] # "none"

\* A writer whose deadline has not passed still owns its session.
WriterInv ==
    \A p \in Procs : pc[p] = "write" =>
        LET s == ses[p] IN past[s] \/ (status[s] = "pending" /\ wtok[s] = p /\ ~sealed[s])

\* A finalizer that still owns its session after the publish finds the object there.
PublisherInv ==
    \A p \in Procs : pc[p] = "commit" /\ Owns(p) => canonical[ses[p]] = "good"

\* The session ended without an artifact and its canonical object is being deleted; a
\* late publisher may still bring the object back.
CanonicalEnding(s) ==
    /\ status[s] \in {"failed", "expired"}
    /\ cclean[s] \in {"due", "first", "confirm", "done"}

\* From the confirming delete on, nobody publishes the canonical object any more.
CanonicalClosed(s) ==
    /\ status[s] \in {"failed", "expired"}
    /\ cclean[s] \in {"confirm", "done"}
    /\ \A p \in Procs : ~(pc[p] = "put" /\ ses[p] = s)

\* Nobody writes the staging object any more.
StagingClosed(s) ==
    status[s] \in Terminal /\ (backend = "s3" => sclean[s] \in {"confirm", "done"})

\* A cleanup pass deletes from ended sessions only, and the delete that it records as
\* the last one happened after the object was closed.
CleanerInv ==
    \A p \in Procs :
        /\ todo[p].canonical # "local"
        /\ pc[p] \in {"canonical", "recordCanonical"} =>
              /\ todo[p].canonical # "none" => CanonicalEnding(ses[p])
              /\ todo[p].canonical = "confirm" => CanonicalClosed(ses[p])
        /\ pc[p] \in {"canonical", "recordCanonical", "staging", "recordStaging"} =>
              /\ todo[p].staging # "none" => status[ses[p]] \in Terminal
              /\ todo[p].staging \in {"confirm", "local"} => StagingClosed(ses[p])
        /\ pc[p] = "recordCanonical" =>
              /\ todo[p].canonical # "none"
              /\ todo[p].canonical = "confirm" => canonical[ses[p]] = "none"
        /\ pc[p] = "recordStaging" =>
              /\ todo[p].staging # "none"
              /\ todo[p].staging \in {"confirm", "local"} => staging[ses[p]] = "none"

\* What the cleanup columns say.
PhaseInv ==
    \A s \in Sessions :
        /\ cclean[s] \in {"due", "first", "confirm", "done"} => CanonicalEnding(s)
        /\ cclean[s] \in {"confirm", "done"} => CanonicalClosed(s)
        /\ cclean[s] = "done" => canonical[s] = "none"
        /\ sclean[s] = "done" => StagingClosed(s) /\ staging[s] = "none"

\* The inductive invariant.
UploadInv ==
    /\ TypeInv /\ ExistsInv /\ WriterInv /\ PublisherInv /\ CleanerInv /\ PhaseInv
    /\ ArtifactHasBytes

\* Leaving "finalizing" keeps the invariant: a completed session has its object, and a
\* session that its owner still holds is in no cleanup phase.
LEMMA LeaveInv ==
    ASSUME UploadInv, TypeInv', NEW p \in Procs, pc[p] \in FinalizerLabels,
           NEW st \in {"pending", "failed", "completed"},
           NEW phase \in {cclean[ses[p]], "skipped"}, Leave(p, st, phase),
           \A s \in Sessions : sealed'[s] = sealed[s] \/ (s = ses[p] /\ Owns(p)),
           \/ UNCHANGED canonical
           \/ pc[p] = "put" /\ canonical' = [canonical EXCEPT ![ses[p]] = "good"],
           st = "completed" /\ Owns(p) => canonical[ses[p]] = "good",
           UNCHANGED <<past, ctok, sclean, staging, backend>>
    PROVE  UploadInv'
<1> DEFINE s == ses[p]
<1>1. s \in Sessions /\ pc[p] # Idle /\ status[s] # "none" /\ cclean[s] \in Phases
  BY DEF UploadInv, TypeInv, ProcsTyped, RowsTyped, AtWork, ExistsInv
<1>2. Owns(p) => status[s] = "finalizing" /\ phase \in {"wait", "skipped"}
  BY <1>1 DEF UploadInv, TypeInv, RowsTyped, PhaseInv, CanonicalEnding, Owns
<1>3. /\ \A q \in Procs : q # p => pc'[q] = pc[q] /\ ses'[q] = ses[q] /\ todo'[q] = todo[q]
      /\ pc'[p] \in {Idle, "claim"}
      /\ pc'[p] # Idle => ses'[p] = s
      /\ \A r \in Sessions : r # s \/ ~Owns(p) =>
           status'[r] = status[r] /\ wtok'[r] = wtok[r] /\ ftok'[r] = ftok[r] /\ cclean'[r] = cclean[r]
      /\ Owns(p) => status'[s] = st /\ wtok'[s] = None /\ ftok'[s] = None /\ cclean'[s] = phase
      /\ todo'[p].canonical \in {todo[p].canonical, "none"}
  <2>1. st \in Statuses /\ phase \in Phases
    BY <1>1
  <2> QED BY <1>1, <2>1, LeaveEffect DEF UploadInv
<1>4. /\ \A r \in Sessions : canonical'[r] = canonical[r] \/ (r = s /\ pc[p] = "put")
      /\ \A r \in Sessions : canonical[r] = "good" => canonical'[r] = "good"
  BY <1>1 DEF UploadInv, TypeInv, RestTyped
<1>5. \A q \in Procs : pc'[q] # Idle => ses'[q] = ses[q] /\ ses[q] \in Sessions /\ pc[q] # Idle
  BY <1>1, <1>3 DEF UploadInv, TypeInv, ProcsTyped, AtWork
<1>6. \A r \in Sessions :
        /\ CanonicalEnding(r) => CanonicalEnding(r)'
        /\ CanonicalClosed(r) => CanonicalClosed(r)' /\ canonical'[r] = canonical[r]
  BY <1>1, <1>2, <1>3, <1>4 DEF CanonicalEnding, CanonicalClosed, Owns
<1>7. \A r \in Sessions :
        /\ StagingClosed(r) => StagingClosed(r)'
        /\ status[r] \in Terminal => status'[r] \in Terminal
  BY <1>1, <1>2, <1>3 DEF StagingClosed
<1> HIDE DEF s
<1>8. ExistsInv'
  BY <1>1, <1>2, <1>3, <1>4, <1>5 DEF UploadInv, ExistsInv
<1>9. WriterInv'
  BY <1>1, <1>2, <1>3, <1>5 DEF UploadInv, WriterInv, Owns, s
<1>10. PublisherInv'
  BY <1>1, <1>2, <1>3, <1>4, <1>5 DEF UploadInv, PublisherInv, Owns
<1>11. CleanerInv'
  BY <1>1, <1>3, <1>5, <1>6, <1>7 DEF UploadInv, CleanerInv
<1>12. PhaseInv'
  BY <1>2, <1>3, <1>4, <1>6, <1>7, <1>1 DEF UploadInv, PhaseInv
<1>13. ArtifactHasBytes'
  BY <1>1, <1>2, <1>3, <1>4 DEF UploadInv, ArtifactHasBytes, s
<1> QED BY <1>8, <1>9, <1>10, <1>11, <1>12, <1>13 DEF UploadInv

\* A finalizer leaves "finalizing", or goes on as its owner.
LEMMA FinalizerSteps ==
    ASSUME UploadInv, TypeInv', NEW p \in Procs,
           Verify(p) \/ Recheck(p) \/ Publish(p) \/ PutCanonical(p) \/ Commit(p)
    PROVE  UploadInv'
<1>1. ses[p] \in Sessions /\ pc[p] \in FinalizerLabels /\ pc[p] # Idle
  BY DEF UploadInv, TypeInv, ProcsTyped, AtWork, Verify, Recheck, Publish, PutCanonical, Commit
<1>2. CASE Verify(p)
  <2>1. CASE \E st \in {"pending", "failed"}, phase \in {cclean[ses[p]], "skipped"} : Leave(p, st, phase)
    <3>1. PICK st \in {"pending", "failed"}, phase \in {cclean[ses[p]], "skipped"} : Leave(p, st, phase)
      BY <2>1
    <3> QED BY <1>1, <1>2, <3>1, LeaveInv DEF Verify, objectVars
  <2>2. CASE Goto(p, ses[p], "recheck") /\ UNCHANGED <<status, wtok, ftok, cclean>>
    BY <1>1, <1>2, <2>2 DEF Verify, objectVars, Goto, UploadInv, TypeInv, ProcsTyped, RowsTyped,
           RestTyped,
       ExistsInv, WriterInv, PublisherInv, CleanerInv, PhaseInv, ArtifactHasBytes,
       CanonicalEnding, CanonicalClosed, StagingClosed, Owns
  <2> QED BY <1>2, <2>1, <2>2 DEF Verify, MarkVerificationFailure
<1>3. CASE Recheck(p)
  <2>1. CASE Leave(p, "failed", "skipped")
    BY <1>1, <1>3, <2>1, LeaveInv DEF Recheck, objectVars
  <2>2. CASE Goto(p, ses[p], "publish") /\ UNCHANGED <<status, wtok, ftok, cclean>>
    BY <1>1, <1>3, <2>2 DEF Recheck, objectVars, Goto, UploadInv, TypeInv, ProcsTyped, RowsTyped,
           RestTyped,
       ExistsInv, WriterInv, PublisherInv, CleanerInv, PhaseInv, ArtifactHasBytes,
       CanonicalEnding, CanonicalClosed, StagingClosed, Owns
  <2> QED BY <1>3, <2>1, <2>2 DEF Recheck, MarkVerificationFailure
<1>4. CASE Publish(p)
  <2>1. CASE Owns(p)
    <3>1. Goto(p, ses[p], "put") /\ status[ses[p]] = "finalizing"
      BY <1>4, <2>1 DEF Publish, Owns
    <3> QED BY <1>1, <1>4, <3>1 DEF Publish, cleanVars, objectVars, Goto, UploadInv, TypeInv,
           ProcsTyped, RowsTyped, RestTyped,
       ExistsInv, WriterInv, PublisherInv, CleanerInv, PhaseInv, ArtifactHasBytes,
       CanonicalEnding, CanonicalClosed, StagingClosed, Owns
  <2>2. CASE ~Owns(p)
    <3>1. Goto(p, None, Idle)
      BY <1>4, <2>2 DEF Publish
    <3> QED BY <1>1, <1>4, <3>1 DEF Publish, cleanVars, objectVars, Goto, UploadInv, TypeInv,
           ProcsTyped, RowsTyped, RestTyped,
       ExistsInv, WriterInv, PublisherInv, CleanerInv, PhaseInv, ArtifactHasBytes,
       CanonicalEnding, CanonicalClosed, StagingClosed, Owns
  <2> QED BY <2>1, <2>2
<1>5. CASE PutCanonical(p)
  <2>1. CASE Leave(p, "failed", cclean[ses[p]])
    <3>1. \/ UNCHANGED canonical
          \/ pc[p] = "put" /\ canonical' = [canonical EXCEPT ![ses[p]] = "good"]
      BY <1>5 DEF PutCanonical
    <3>2. UNCHANGED <<sealed, past, ctok, sclean, staging, backend>>
      BY <1>5 DEF PutCanonical
    <3> QED BY <1>1, <2>1, <3>1, <3>2, LeaveInv
  <2>2. CASE /\ canonical' = [canonical EXCEPT ![ses[p]] = "good"]
             /\ Goto(p, ses[p], IF Owns(p) THEN "commit" ELSE Idle)
             /\ UNCHANGED <<status, wtok, ftok, cclean>>
    <3>1. ~CanonicalClosed(ses[p])
      BY <1>5 DEF CanonicalClosed, PutCanonical
    <3>2. /\ \A q \in Procs : pc'[q] # Idle => ses'[q] = ses[q] /\ ses[q] \in Sessions /\ pc[q] # Idle
          /\ \A q \in Procs : q # p => pc'[q] = pc[q] /\ todo'[q] = todo[q]
          /\ pc'[p] \in {Idle, "commit"}
          /\ todo'[p].canonical \in {todo[p].canonical, "none"}
      BY <1>1, <2>2 DEF UploadInv, TypeInv, ProcsTyped, AtWork, Goto
    <3>3. /\ \A r \in Sessions : canonical'[r] = IF r = ses[p] THEN "good" ELSE canonical[r]
          /\ UNCHANGED <<status, wtok, ftok, cclean, sealed, past, ctok, sclean, staging, backend>>
      BY <1>1, <1>5, <2>2 DEF PutCanonical, UploadInv, TypeInv, RestTyped
    <3>4. \A r \in Sessions :
            /\ CanonicalEnding(r) => CanonicalEnding(r)'
            /\ CanonicalClosed(r) => CanonicalClosed(r)'
            /\ StagingClosed(r) => StagingClosed(r)'
      BY <3>2, <3>3 DEF CanonicalEnding, CanonicalClosed, StagingClosed
    <3>5. status[ses[p]] # "none" /\ cclean[ses[p]] # "done"
      BY <1>1, <3>1 DEF UploadInv, ExistsInv, PhaseInv
    <3>6. ExistsInv'
      BY <3>2, <3>3, <3>5 DEF UploadInv, ExistsInv
    <3>7. WriterInv' /\ PublisherInv'
      BY <1>1, <3>2, <3>3 DEF UploadInv, WriterInv, PublisherInv, Owns
    <3>8. CleanerInv'
      BY <3>1, <3>2, <3>3, <3>4 DEF UploadInv, CleanerInv
    <3>9. PhaseInv' /\ ArtifactHasBytes'
      BY <3>3, <3>4, <3>5 DEF UploadInv, PhaseInv, ArtifactHasBytes
    <3> QED BY <3>6, <3>7, <3>8, <3>9 DEF UploadInv
  <2> QED BY <1>5, <2>1, <2>2 DEF PutCanonical, FailAfterPublish
<1>6. CASE Commit(p)
  <2>1. PICK st \in {"failed", "completed"} :
          /\ Leave(p, st, cclean[ses[p]])
          /\ sealed' = sealed \/ (sealed' = [sealed EXCEPT ![ses[p]] = TRUE] /\ Owns(p))
    BY <1>6 DEF Commit, FailAfterPublish
  <2>2. \A s \in Sessions : sealed'[s] = sealed[s] \/ (s = ses[p] /\ Owns(p))
    BY <1>1, <2>1 DEF UploadInv, TypeInv, RowsTyped
  <2>3. st = "completed" /\ Owns(p) => canonical[ses[p]] = "good"
    BY <1>6 DEF UploadInv, PublisherInv, Commit
  <2>4. UNCHANGED <<past, ctok, sclean, staging, canonical, backend>>
    BY <1>6 DEF Commit, objectVars
  <2> QED BY <1>1, <2>1, <2>2, <2>3, <2>4, LeaveInv
<1> QED BY <1>2, <1>3, <1>4, <1>5, <1>6

\* A delete only meets objects of ended sessions.
LEMMA DeleteStep ==
    ASSUME UploadInv, TypeInv', NEW p \in Procs, NEW kind \in Kinds, Delete(p, kind)
    PROVE  UploadInv'
<1>1. ses[p] \in Sessions /\ pc[p] = kind /\ pc[p] # Idle /\ todo[p][kind] # "none"
  BY DEF UploadInv, TypeInv, ProcsTyped, AtWork, Delete
<1>2. /\ \A q \in Procs : pc'[q] # Idle => ses'[q] = ses[q] /\ ses[q] \in Sessions /\ pc[q] # Idle
      /\ \A q \in Procs : q # p => pc'[q] = pc[q] /\ todo'[q] = todo[q]
      /\ pc'[p] \in {Idle, RecordLabel(kind)}
      /\ pc'[p] # Idle => todo'[p] = todo[p]
      /\ todo'[p].canonical \in {todo[p].canonical, "none"}
  BY <1>1 DEF UploadInv, TypeInv, ProcsTyped, AtWork, Delete, Goto, RecordLabel
<1>3. UNCHANGED <<status, wtok, sealed, past, ftok, ctok, sclean, cclean, backend>>
  BY DEF Delete, rowVars
<1>4. \A s \in Sessions :
        /\ CanonicalEnding(s) => CanonicalEnding(s)'
        /\ CanonicalClosed(s) => CanonicalClosed(s)'
        /\ StagingClosed(s) => StagingClosed(s)'
  BY <1>1, <1>2, <1>3 DEF CanonicalEnding, CanonicalClosed, StagingClosed, RecordLabel
<1>5. WriterInv'
  BY <1>2, <1>3 DEF UploadInv, WriterInv, RecordLabel
<1>6. CASE kind = "canonical"
  <2>1. CanonicalEnding(ses[p])
    BY <1>1, <1>6 DEF UploadInv, CleanerInv
  <2>2. UNCHANGED staging /\ \A s \in Sessions : canonical'[s] = IF s = ses[p] THEN "none" ELSE canonical[s]
    BY <1>1, <1>6 DEF Delete, UploadInv, TypeInv, RestTyped
  <2>3. PublisherInv' /\ ArtifactHasBytes'
    BY <1>2, <1>3, <1>6, <2>1, <2>2 DEF UploadInv, PublisherInv, ArtifactHasBytes,
           CanonicalEnding, Owns, RecordLabel
  <2>4. ExistsInv' /\ PhaseInv'
    BY <1>2, <1>3, <1>4, <2>2 DEF UploadInv, ExistsInv, PhaseInv
  <2>5. CleanerInv'
    BY <1>1, <1>2, <1>3, <1>4, <1>6, <2>2 DEF UploadInv, CleanerInv, RecordLabel
  <2> QED BY <1>5, <2>3, <2>4, <2>5 DEF UploadInv
<1>7. CASE kind = "staging"
  <2>1. UNCHANGED canonical /\ \A s \in Sessions : staging'[s] = IF s = ses[p] THEN "none" ELSE staging[s]
    BY <1>1, <1>7 DEF Delete, UploadInv, TypeInv, RestTyped
  <2>2. PublisherInv' /\ ArtifactHasBytes'
    BY <1>2, <1>3, <1>7, <2>1 DEF UploadInv, PublisherInv, ArtifactHasBytes, Owns, RecordLabel
  <2>3. ExistsInv' /\ PhaseInv'
    BY <1>2, <1>3, <1>4, <2>1 DEF UploadInv, ExistsInv, PhaseInv
  <2>4. CleanerInv'
    BY <1>1, <1>2, <1>3, <1>4, <1>7, <2>1 DEF UploadInv, CleanerInv, RecordLabel
  <2> QED BY <1>5, <2>2, <2>3, <2>4 DEF UploadInv
<1> QED BY <1>6, <1>7 DEF Kinds

\* A claimed cleanup does what is due for a session that ended.
LEMMA ClaimCleanupStep ==
    ASSUME UploadInv, TypeInv', NEW p \in Procs, NEW s \in Sessions, ClaimCleanup(p, s)
    PROVE  UploadInv'
<1>1. /\ pc'[p] = "canonical" /\ ses'[p] = s
      /\ todo'[p] = [canonical |-> CanonicalAction(s), staging |-> StagingAction(s)]
      /\ \A q \in Procs : q # p => pc'[q] = pc[q] /\ ses'[q] = ses[q] /\ todo'[q] = todo[q]
      /\ pc[p] # "put"
  BY DEF ClaimCleanup, UploadInv, TypeInv, ProcsTyped
<1>2. UNCHANGED <<status, wtok, sealed, past, ftok, sclean, cclean, staging, canonical, backend>>
  BY DEF ClaimCleanup, rowVars, objectVars
<1>3. \A r \in Sessions :
        /\ CanonicalEnding(r) => CanonicalEnding(r)'
        /\ CanonicalClosed(r) => CanonicalClosed(r)'
        /\ StagingClosed(r) => StagingClosed(r)'
  BY <1>1, <1>2 DEF CanonicalEnding, CanonicalClosed, StagingClosed
<1>4. /\ CanonicalAction(s) # "local"
      /\ CanonicalAction(s) # "none" => CanonicalEnding(s)
      /\ CanonicalAction(s) = "confirm" => CanonicalClosed(s)
      /\ StagingAction(s) # "none" => status[s] \in Terminal
      /\ StagingAction(s) \in {"confirm", "local"} => StagingClosed(s)
      /\ status[s] # "none"
  <2>1. /\ CanonicalAction(s) # "local"
        /\ CanonicalAction(s) # "none" => CanonicalEnding(s) /\ status[s] # "none"
        /\ CanonicalAction(s) = "confirm" => CanonicalClosed(s)
    <3>1. CanonicalAction(s) \in {"none", "first", "confirm"}
      BY DEF CanonicalAction
    <3>2. CanonicalAction(s) # "none" => status[s] \in {"failed", "expired"} /\ cclean[s] \in {"due", "confirm"}
      BY DEF CanonicalAction
    <3>3. CanonicalAction(s) = "confirm" => cclean[s] = "confirm"
      BY DEF CanonicalAction
    <3> QED BY <3>1, <3>2, <3>3 DEF UploadInv, PhaseInv
  <2>2. /\ StagingAction(s) # "none" => status[s] \in Terminal /\ status[s] # "none"
        /\ StagingAction(s) \in {"confirm", "local"} => StagingClosed(s)
    <3>1. StagingAction(s) # "none" => status[s] \in Terminal
      BY DEF StagingAction
    <3>2. StagingAction(s) = "confirm" => sclean[s] = "confirm"
      BY DEF StagingAction
    <3>3. StagingAction(s) = "local" => backend = "local"
      BY DEF StagingAction
    <3> QED BY <3>1, <3>2, <3>3 DEF StagingClosed
  <2> QED BY <2>1, <2>2 DEF ClaimCleanup, Candidate
<1>5. \A q \in Procs \ {p} : pc[q] # Idle => ses[q] \in Sessions
  BY DEF UploadInv, TypeInv, ProcsTyped, AtWork
<1>6. ExistsInv'
  BY <1>1, <1>2, <1>4 DEF UploadInv, ExistsInv
<1>7. WriterInv' /\ PublisherInv'
  BY <1>1, <1>2, <1>5 DEF UploadInv, WriterInv, PublisherInv, Owns
<1>8. CleanerInv'
  BY <1>1, <1>2, <1>3, <1>4, <1>5 DEF UploadInv, CleanerInv
<1>9. PhaseInv' /\ ArtifactHasBytes'
  BY <1>2, <1>3 DEF UploadInv, PhaseInv, ArtifactHasBytes
<1> QED BY <1>6, <1>7, <1>8, <1>9 DEF UploadInv

\* A new session is nobody's yet.
LEMMA ReserveStep ==
    ASSUME UploadInv, TypeInv', NEW s \in Sessions, Reserve(s)
    PROVE  UploadInv'
<1>1. /\ status[s] = "none" /\ status'[s] = "pending"
      /\ \A r \in Sessions : r # s => status'[r] = status[r]
      /\ UNCHANGED <<wtok, sealed, past, ftok, sclean, cclean, staging, canonical, pc, ses, todo, backend>>
  BY DEF Reserve, NeedsSession, cleanVars, objectVars, procVars, UploadInv, TypeInv, RowsTyped
<1>2. \A p \in Procs : pc[p] # Idle => ses[p] \in Sessions /\ status'[ses[p]] = status[ses[p]]
  BY <1>1 DEF UploadInv, TypeInv, ProcsTyped, AtWork, ExistsInv
<1>3. \A r \in Sessions :
        /\ CanonicalEnding(r) => CanonicalEnding(r)'
        /\ CanonicalClosed(r) => CanonicalClosed(r)'
        /\ StagingClosed(r) => StagingClosed(r)'
  BY <1>1 DEF CanonicalEnding, CanonicalClosed, StagingClosed
<1>4. ExistsInv' /\ WriterInv' /\ PublisherInv'
  BY <1>1, <1>2 DEF UploadInv, ExistsInv, WriterInv, PublisherInv, Owns
<1>5. CleanerInv'
  BY <1>1, <1>2, <1>3 DEF UploadInv, CleanerInv
<1>6. PhaseInv' /\ ArtifactHasBytes'
  BY <1>1, <1>3 DEF UploadInv, PhaseInv, ArtifactHasBytes
<1> QED BY <1>4, <1>5, <1>6 DEF UploadInv

\* Every step keeps the invariant.
LEMMA InvStep == ASSUME UploadAssumption, UploadInv, TypeInv', [Next]_vars PROVE UploadInv'
<1> USE UploadAssumption
<1>1. ASSUME NEW p \in Procs, Verify(p) \/ Recheck(p) \/ Publish(p) \/ PutCanonical(p) \/ Commit(p)
       PROVE  UploadInv'
  BY <1>1, FinalizerSteps
<1>2. ASSUME NEW p \in Procs, NEW kind \in Kinds, Delete(p, kind) PROVE UploadInv'
  BY <1>2, DeleteStep
<1>3. ASSUME NEW p \in Procs, NEW s \in Sessions, ClaimCleanup(p, s) PROVE UploadInv'
  BY <1>3, ClaimCleanupStep
<1>4. ASSUME NEW s \in Sessions, Reserve(s) PROVE UploadInv'
  BY <1>4, ReserveStep
<1> USE DEF UploadInv, TypeInv, ProcsTyped, RowsTyped, RestTyped, AtWork
<1> USE DEF ExistsInv, WriterInv, PublisherInv, CleanerInv, PhaseInv, ArtifactHasBytes
<1> USE DEF CanonicalEnding, CanonicalClosed, StagingClosed, Owns
<1>5. ASSUME NEW p \in Procs, NothingToClean(p) PROVE UploadInv'
  <2>1. ses[p] \in Sessions /\ pc[p] # Idle
    BY <1>5 DEF NothingToClean
  <2> QED BY <1>5, <2>1 DEF NothingToClean, Goto, rowVars, cleanVars, objectVars
<1>6. ASSUME NEW p \in Procs, Release(p) PROVE UploadInv'
  <2>1. ses[p] \in Sessions /\ pc[p] # Idle
    BY <1>6 DEF Release
  <2> QED BY <1>6, <2>1 DEF Release, Goto, OwnsCleanup, rowVars, objectVars
<1>7. ASSUME NEW p \in Procs, Write(p) PROVE UploadInv'
  <2>1. ses[p] \in Sessions /\ pc[p] # Idle
    BY <1>7 DEF Write
  <2> QED BY <1>7, <2>1 DEF Write, Goto, rowVars, cleanVars
<1>8. ASSUME NEW p \in Procs, WriteFails(p) PROVE UploadInv'
  <2>1. ses[p] \in Sessions /\ pc[p] # Idle
    BY <1>8 DEF WriteFails
  <2> QED BY <1>8, <2>1 DEF WriteFails, Goto, Fault, cleanVars, objectVars
<1>9. ASSUME NEW p \in Procs, WriteLost(p) PROVE UploadInv'
  <2>1. ses[p] \in Sessions /\ pc[p] # Idle
    BY <1>9 DEF WriteLost
  <2> QED BY <1>9, <2>1 DEF WriteLost, Goto, ExpiredWrite, cleanVars, objectVars
<1>10. ASSUME NEW p \in Procs, Seal(p) PROVE UploadInv'
  <2>1. ses[p] \in Sessions /\ pc[p] # Idle
    BY <1>10 DEF Seal
  <2> QED BY <1>10, <2>1 DEF Seal, Goto, ExpiredWrite, cleanVars, objectVars
<1>11. ASSUME NEW p \in Procs, Heartbeat(p) PROVE UploadInv'
  <2>1. ses[p] \in Sessions /\ pc[p] # Idle
    BY <1>11 DEF Heartbeat
  <2> QED BY <1>11, <2>1 DEF Heartbeat, cleanVars, objectVars, procVars
<1>12. ASSUME NEW p \in Procs, Crash(p) PROVE UploadInv'
  <2>1. ses[p] \in Sessions /\ pc[p] # Idle
    BY <1>12 DEF Crash
  <2> QED BY <1>12, <2>1 DEF Crash, Goto, Fault, rowVars, cleanVars, objectVars
<1>13. ASSUME NEW p \in Procs, NEW kind \in Kinds, Skip(p, kind) PROVE UploadInv'
  <2>1. ses[p] \in Sessions /\ pc[p] # Idle
    BY <1>13 DEF Skip
  <2> QED BY <1>13, <2>1 DEF Skip, Goto, After, rowVars, cleanVars, objectVars
<1>14. ASSUME NEW p \in Procs, NEW kind \in Kinds, CleanupLost(p, kind) PROVE UploadInv'
  <2>1. ses[p] \in Sessions /\ pc[p] # Idle
    BY <1>14 DEF CleanupLost
  <2> QED BY <1>14, <2>1 DEF CleanupLost, Goto, OwnsCleanup, rowVars, cleanVars, objectVars
<1>15. ASSUME NEW p \in Procs, NEW kind \in Kinds, DeleteFails(p, kind) PROVE UploadInv'
  <2>1. ses[p] \in Sessions /\ pc[p] # Idle
    BY <1>15 DEF DeleteFails
  <2> QED BY <1>15, <2>1 DEF DeleteFails, Goto, Fault, After, OwnsCleanup, rowVars, objectVars
<1>16. ASSUME NEW p \in Procs, NEW kind \in Kinds, Record(p, kind) PROVE UploadInv'
  <2>1. ses[p] \in Sessions /\ pc[p] # Idle
    BY <1>16 DEF Record, RecordLabel
  <2> QED BY SMTT(30), <1>16, <2>1 DEF Record, Goto, After, RecordLabel, OwnsCleanup, Recorded,
      rowVars,
         objectVars
<1>17. ASSUME NEW p \in Procs, NEW s \in Sessions, ExpireUpload(p, s) PROVE UploadInv'
  BY <1>17 DEF ExpireUpload, Goto, cleanVars, objectVars
<1>18. ASSUME NEW p \in Procs, NEW s \in Sessions, ClaimWrite(p, s) PROVE UploadInv'
  BY <1>18 DEF ClaimWrite, Goto, cleanVars, objectVars
<1>19. ASSUME NEW p \in Procs, NEW s \in Sessions, ClaimFinalization(p, s) PROVE UploadInv'
  BY <1>19 DEF ClaimFinalization, Goto, cleanVars, objectVars
<1>20. ASSUME NEW s \in Sessions, RecoverStale(s) PROVE UploadInv'
  BY <1>20 DEF RecoverStale, cleanVars, objectVars, procVars
<1>21. ASSUME NEW s \in Sessions, ExpireWrite(s) PROVE UploadInv'
  BY <1>21 DEF ExpireWrite, ExpiredWrite, cleanVars, objectVars, procVars
<1>22. ASSUME NEW s \in Sessions, S3Put(s) PROVE UploadInv'
  BY <1>22 DEF S3Put, rowVars, cleanVars, procVars
<1>23. ASSUME NEW s \in Sessions, Expire(s) PROVE UploadInv'
  BY <1>23 DEF Expire, cleanVars, objectVars, procVars
<1>24. ASSUME NEW s \in Sessions, FinalizerStale(s) PROVE UploadInv'
  BY <1>24 DEF FinalizerStale, Fault, Late, cleanVars, objectVars, procVars
<1>25. ASSUME NEW s \in Sessions, CleanerStale(s) PROVE UploadInv'
  BY <1>25 DEF CleanerStale, Fault, Late, rowVars, objectVars, procVars
<1>26. ASSUME NEW s \in Sessions, StagingDue(s) PROVE UploadInv'
  BY <1>26 DEF StagingDue, rowVars, objectVars, procVars
<1>27. ASSUME NEW s \in Sessions, CanonicalDue(s) PROVE UploadInv'
  BY <1>27 DEF CanonicalDue, rowVars, objectVars, procVars
<1>28. ASSUME NEW s \in Sessions, ConfirmationDue(s) PROVE UploadInv'
  BY <1>28 DEF ConfirmationDue, Publishing, rowVars, objectVars, procVars
<1>29. ASSUME LoseLease PROVE UploadInv'
  BY <1>29 DEF LoseLease, rowVars, cleanVars, objectVars, procVars
<1>30. CASE UNCHANGED vars
  BY <1>30 DEF vars, rowVars, cleanVars, objectVars, procVars
<1> HIDE DEF UploadInv
<1> QED BY <1>1, <1>2, <1>3, <1>4, <1>5, <1>6, <1>7, <1>8, <1>9, <1>10, <1>11, <1>12, <1>13,
       <1>14, <1>15, <1>16, <1>17, <1>18, <1>19, <1>20, <1>21, <1>22, <1>23, <1>24, <1>25, <1>26,
       <1>27, <1>28, <1>29, <1>30
       DEF Next, NextProc, NextSession, CleanerStep, RequestStep

\* What a step may do to one session: ended sessions stay as they are, only Reserve
\* adds a charged one, and the bytes of a session in "finalizing" stay.
SessionEffect(r) ==
    /\ status[r] \in Terminal => status'[r] = status[r]
    /\ Charged(r)' => Charged(r) \/ Reserve(r)
    /\ status[r] = "finalizing" /\ staging[r] # "none" => staging'[r] = staging[r]

\* Every step has such an effect.
LEMMA StepEffect ==
    ASSUME UploadAssumption, UploadInv, TypeInv', [Next]_vars, NEW r \in Sessions
    PROVE  SessionEffect(r)
<1> USE UploadAssumption DEF SessionEffect, Charged, UploadInv, TypeInv, RowsTyped, RestTyped
<1>1. ASSUME NEW p \in Procs, NothingToClean(p) PROVE SessionEffect(r)
  <2>1. ses[p] \in Sessions /\ pc[p] # Idle
    BY <1>1 DEF ProcsTyped, AtWork, NothingToClean
  <2> QED BY <1>1, <2>1 DEF NothingToClean, rowVars, cleanVars, objectVars
<1>2. ASSUME NEW p \in Procs, Release(p) PROVE SessionEffect(r)
  <2>1. ses[p] \in Sessions /\ pc[p] # Idle
    BY <1>2 DEF ProcsTyped, AtWork, Release
  <2> QED BY <1>2, <2>1 DEF Release, OwnsCleanup, rowVars, objectVars
<1>3. ASSUME NEW p \in Procs, Write(p) PROVE SessionEffect(r)
  <2>1. ses[p] \in Sessions /\ pc[p] # Idle
    BY <1>3 DEF ProcsTyped, AtWork, Write
  <2> QED BY <1>3, <2>1 DEF Write, WriterInv, rowVars, cleanVars
<1>4. ASSUME NEW p \in Procs, WriteFails(p) PROVE SessionEffect(r)
  <2>1. ses[p] \in Sessions /\ pc[p] # Idle
    BY <1>4 DEF ProcsTyped, AtWork, WriteFails
  <2> QED BY <1>4, <2>1 DEF WriteFails, cleanVars, objectVars
<1>5. ASSUME NEW p \in Procs, WriteLost(p) PROVE SessionEffect(r)
  <2>1. ses[p] \in Sessions /\ pc[p] # Idle
    BY <1>5 DEF ProcsTyped, AtWork, WriteLost
  <2> QED BY <1>5, <2>1 DEF WriteLost, ExpiredWrite, cleanVars, objectVars
<1>6. ASSUME NEW p \in Procs, Seal(p) PROVE SessionEffect(r)
  <2>1. ses[p] \in Sessions /\ pc[p] # Idle
    BY <1>6 DEF ProcsTyped, AtWork, Seal
  <2> QED BY <1>6, <2>1 DEF Seal, ExpiredWrite, cleanVars, objectVars
<1>7. ASSUME NEW p \in Procs, Verify(p) PROVE SessionEffect(r)
  <2>1. ses[p] \in Sessions /\ pc[p] # Idle
    BY <1>7 DEF ProcsTyped, AtWork, Verify
  <2> QED BY <1>7, <2>1 DEF Verify, Leave, MarkVerificationFailure, Owns, objectVars
<1>8. ASSUME NEW p \in Procs, Recheck(p) PROVE SessionEffect(r)
  <2>1. ses[p] \in Sessions /\ pc[p] # Idle
    BY <1>8 DEF ProcsTyped, AtWork, Recheck
  <2> QED BY <1>8, <2>1 DEF Recheck, Leave, MarkVerificationFailure, Owns, objectVars
<1>9. ASSUME NEW p \in Procs, Publish(p) PROVE SessionEffect(r)
  <2>1. ses[p] \in Sessions /\ pc[p] # Idle
    BY <1>9 DEF ProcsTyped, AtWork, Publish
  <2> QED BY <1>9, <2>1 DEF Publish, Owns, cleanVars, objectVars
<1>10. ASSUME NEW p \in Procs, PutCanonical(p) PROVE SessionEffect(r)
  <2>1. ses[p] \in Sessions /\ pc[p] # Idle
    BY <1>10 DEF ProcsTyped, AtWork, PutCanonical
  <2> QED BY <1>10, <2>1 DEF PutCanonical, Leave, FailAfterPublish, Owns
<1>11. ASSUME NEW p \in Procs, Commit(p) PROVE SessionEffect(r)
  <2>1. ses[p] \in Sessions /\ pc[p] # Idle
    BY <1>11 DEF ProcsTyped, AtWork, Commit
  <2> QED BY <1>11, <2>1 DEF Commit, Leave, FailAfterPublish, Owns, objectVars
<1>12. ASSUME NEW p \in Procs, Heartbeat(p) PROVE SessionEffect(r)
  <2>1. ses[p] \in Sessions /\ pc[p] # Idle
    BY <1>12 DEF ProcsTyped, AtWork, Heartbeat
  <2> QED BY <1>12, <2>1 DEF Heartbeat, Owns, cleanVars, objectVars, procVars
<1>13. ASSUME NEW p \in Procs, Crash(p) PROVE SessionEffect(r)
  <2>1. ses[p] \in Sessions /\ pc[p] # Idle
    BY <1>13 DEF ProcsTyped, AtWork, Crash
  <2> QED BY <1>13, <2>1 DEF Crash, rowVars, cleanVars, objectVars
<1>14. ASSUME NEW p \in Procs, NEW kind \in Kinds, Skip(p, kind) PROVE SessionEffect(r)
  <2>1. ses[p] \in Sessions /\ pc[p] # Idle
    BY <1>14 DEF ProcsTyped, AtWork, Skip
  <2> QED BY <1>14, <2>1 DEF Skip, rowVars, cleanVars, objectVars
<1>15. ASSUME NEW p \in Procs, NEW kind \in Kinds, Delete(p, kind) PROVE SessionEffect(r)
  <2>1. ses[p] \in Sessions /\ pc[p] # Idle
    BY <1>15 DEF ProcsTyped, AtWork, Delete, RecordLabel
  <2> QED BY <1>15, <2>1 DEF Delete, RecordLabel, OwnsCleanup, CleanerInv, CanonicalEnding,
         CanonicalClosed, StagingClosed, rowVars
<1>16. ASSUME NEW p \in Procs, NEW kind \in Kinds, CleanupLost(p, kind) PROVE SessionEffect(r)
  <2>1. ses[p] \in Sessions /\ pc[p] # Idle
    BY <1>16 DEF ProcsTyped, AtWork, CleanupLost
  <2> QED BY <1>16, <2>1 DEF CleanupLost, OwnsCleanup, rowVars, cleanVars, objectVars
<1>17. ASSUME NEW p \in Procs, NEW kind \in Kinds, DeleteFails(p, kind) PROVE SessionEffect(r)
  <2>1. ses[p] \in Sessions /\ pc[p] # Idle
    BY <1>17 DEF ProcsTyped, AtWork, DeleteFails
  <2> QED BY <1>17, <2>1 DEF DeleteFails, OwnsCleanup, rowVars, objectVars
<1>18. ASSUME NEW p \in Procs, NEW kind \in Kinds, Record(p, kind) PROVE SessionEffect(r)
  <2>1. ses[p] \in Sessions /\ pc[p] # Idle
    BY <1>18 DEF ProcsTyped, AtWork, Record, RecordLabel
  <2> QED BY <1>18, <2>1 DEF Record, RecordLabel, OwnsCleanup, Recorded, CleanerInv,
         CanonicalEnding, CanonicalClosed, StagingClosed, rowVars, objectVars
<1>19. ASSUME NEW p \in Procs, NEW s \in Sessions, ExpireUpload(p, s) PROVE SessionEffect(r)
  BY <1>19 DEF ExpireUpload, cleanVars, objectVars
<1>20. ASSUME NEW p \in Procs, NEW s \in Sessions, ClaimWrite(p, s) PROVE SessionEffect(r)
  BY <1>20 DEF ClaimWrite, cleanVars, objectVars
<1>21. ASSUME NEW p \in Procs, NEW s \in Sessions, ClaimFinalization(p, s) PROVE SessionEffect(r)
  BY <1>21 DEF ClaimFinalization, cleanVars, objectVars
<1>22. ASSUME NEW p \in Procs, NEW s \in Sessions, ClaimCleanup(p, s) PROVE SessionEffect(r)
  BY <1>22 DEF ClaimCleanup, CanonicalAction, StagingAction, rowVars, objectVars
<1>23. ASSUME NEW s \in Sessions, Reserve(s) PROVE SessionEffect(r)
  <2>1. status[s] = "none" /\ UNCHANGED <<sclean, cclean, staging>>
    BY <1>23 DEF Reserve, NeedsSession, cleanVars, objectVars
  <2>2. CASE r = s
    BY <1>23, <2>1, <2>2
  <2>3. CASE r # s
    BY <1>23, <2>1, <2>3 DEF Reserve
  <2> QED BY <2>2, <2>3
<1>24. ASSUME NEW s \in Sessions, RecoverStale(s) PROVE SessionEffect(r)
  BY <1>24 DEF RecoverStale, cleanVars, objectVars, procVars
<1>25. ASSUME NEW s \in Sessions, ExpireWrite(s) PROVE SessionEffect(r)
  BY <1>25 DEF ExpireWrite, ExpiredWrite, cleanVars, objectVars, procVars
<1>26. ASSUME NEW s \in Sessions, S3Put(s) PROVE SessionEffect(r)
  BY <1>26 DEF S3Put, rowVars, cleanVars, procVars
<1>27. ASSUME NEW s \in Sessions, Expire(s) PROVE SessionEffect(r)
  BY <1>27 DEF Expire, cleanVars, objectVars, procVars
<1>28. ASSUME NEW s \in Sessions, FinalizerStale(s) PROVE SessionEffect(r)
  BY <1>28 DEF FinalizerStale, cleanVars, objectVars, procVars
<1>29. ASSUME NEW s \in Sessions, CleanerStale(s) PROVE SessionEffect(r)
  BY <1>29 DEF CleanerStale, rowVars, objectVars, procVars
<1>30. ASSUME NEW s \in Sessions, StagingDue(s) PROVE SessionEffect(r)
  BY <1>30 DEF StagingDue, rowVars, objectVars, procVars
<1>31. ASSUME NEW s \in Sessions, CanonicalDue(s) PROVE SessionEffect(r)
  BY <1>31 DEF CanonicalDue, rowVars, objectVars, procVars
<1>32. ASSUME NEW s \in Sessions, ConfirmationDue(s) PROVE SessionEffect(r)
  BY <1>32 DEF ConfirmationDue, rowVars, objectVars, procVars
<1>33. ASSUME LoseLease PROVE SessionEffect(r)
  BY <1>33 DEF LoseLease, rowVars, cleanVars, objectVars, procVars
<1>34. CASE UNCHANGED vars
  BY <1>34 DEF vars, rowVars, cleanVars, objectVars, procVars
<1> HIDE DEF SessionEffect
<1> QED BY <1>1, <1>2, <1>3, <1>4, <1>5, <1>6, <1>7, <1>8, <1>9, <1>10, <1>11, <1>12, <1>13,
       <1>14, <1>15, <1>16, <1>17, <1>18, <1>19, <1>20, <1>21, <1>22, <1>23, <1>24, <1>25, <1>26,
       <1>27, <1>28, <1>29, <1>30, <1>31, <1>32, <1>33, <1>34
       DEF Next, NextProc, NextSession, CleanerStep, RequestStep
-----------------------------------------------------------------------------
(* Theorems *)

\* The initial states satisfy the invariant.
LEMMA InitInv == ASSUME UploadAssumption, Init PROVE UploadInv
<1> USE UploadAssumption DEF Init
<1>1. TypeInv
  BY DEF TypeInv, ProcsTyped, RowsTyped, RestTyped, AtWork
<1>2. ExistsInv /\ WriterInv /\ PublisherInv /\ ArtifactHasBytes
  BY DEF ExistsInv, WriterInv, PublisherInv, ArtifactHasBytes
<1>3. CleanerInv /\ PhaseInv
  BY DEF CleanerInv, PhaseInv
<1> QED BY <1>1, <1>2, <1>3 DEF UploadInv

\* So do all others.
LEMMA InvAlways == Spec => []UploadInv
<1>1. Init => UploadInv
  BY InitInv, UploadAssumption
<1>2. UploadInv /\ [Next]_vars => UploadInv'
  BY InvStep, TypeStep, UploadAssumption DEF UploadInv
<1> QED BY <1>1, <1>2, PTL DEF Spec

\* Every variable of upload sessions, cleanup columns, objects and requests keeps its
\* type.
THEOREM TypeCorrect == Spec => []TypeOK
<1>1. UploadInv => TypeOK
  BY TypeParts DEF UploadInv
<1> QED BY <1>1, InvAlways, PTL

\* A completed session has its canonical object, whatever late publishers, recovered
\* finalizers and cleanup passes do.
THEOREM ArtifactsHaveBytes == Spec => []ArtifactHasBytes
<1>1. UploadInv => ArtifactHasBytes
  BY DEF UploadInv
<1> QED BY <1>1, InvAlways, PTL

\* When the deletes of an object are recorded, the object is gone and stays gone, though
\* a PUT or a publish may end after the first delete and bring it back.
THEOREM CleanedObjectsAreGone == Spec => []CleanedMeansGone
<1>1. UploadInv => CleanedMeansGone
  BY DEF UploadInv, PhaseInv, CleanedMeansGone
<1> QED BY <1>1, InvAlways, PTL

\* A session that ended never changes its status again.
THEOREM EndsAreFinal == Spec => EndIsFinal
<1>1. UploadInv /\ UploadInv' /\ [Next]_vars =>
        [\A s \in Sessions : status[s] \in Terminal => status'[s] = status[s]]_vars
  BY StepEffect, UploadAssumption DEF SessionEffect, UploadInv
<1> QED BY <1>1, InvAlways, PTL DEF Spec, EndIsFinal

\* The bytes that a finalizer reads are not replaced or removed under it.
THEOREM BytesAreStable == Spec => BytesStable
<1>1. UploadInv /\ UploadInv' /\ [Next]_vars =>
        [\A s \in Sessions :
           status[s] = "finalizing" /\ staging[s] # "none" => staging'[s] = staging[s]]_vars
  BY StepEffect, UploadAssumption DEF SessionEffect, UploadInv
<1> QED BY <1>1, InvAlways, PTL DEF Spec, BytesStable

ChargedSessions == {s \in Sessions : Charged(s)}

\* The quota check counts what it should: no later step charges a session again.
QuotaInv == Cardinality(ChargedSessions) <= Quota

\* The number of charged sessions is a number.
LEMMA ChargedFinite ==
    ASSUME UploadAssumption
    PROVE  IsFiniteSet(ChargedSessions) /\ Cardinality(ChargedSessions) \in Nat
<1>1. IsFiniteSet(Sessions)
  BY FS_Interval, UploadAssumption DEF Sessions
<1>2. IsFiniteSet(ChargedSessions)
  BY <1>1, FS_Subset DEF ChargedSessions
<1> QED BY <1>2, FS_CardinalityType

\* No more sessions than the quota allows occupy storage.
THEOREM QuotaBoundsStorage == Spec => []QuotaBoundsObjects
<1> USE UploadAssumption
<1>1. Init => QuotaInv
  <2> SUFFICES ASSUME Init PROVE QuotaInv
    OBVIOUS
  <2>1. ChargedSessions = {}
    BY DEF ChargedSessions, Charged, Init
  <2> QED BY <2>1, FS_EmptySet DEF QuotaInv
<1>2. UploadInv /\ UploadInv' /\ QuotaInv /\ [Next]_vars => QuotaInv'
  <2> SUFFICES ASSUME UploadInv, UploadInv', QuotaInv, [Next]_vars PROVE QuotaInv'
    OBVIOUS
  <2>1. IsFiniteSet(ChargedSessions) /\ Cardinality(ChargedSessions) \in Nat
    BY ChargedFinite
  <2>2. CASE \E s \in Sessions : Reserve(s)
    <3>1. PICK s \in Sessions : Reserve(s)
      BY <2>2
    <3>2. /\ status[s] = "none" /\ WithinQuota
          /\ status' = [status EXCEPT ![s] = "pending"] /\ UNCHANGED <<sclean, cclean>>
      BY <3>1 DEF Reserve, NeedsSession, cleanVars
    <3>3. ChargedSessions' = ChargedSessions \cup {s} /\ s \notin ChargedSessions
      BY <3>2 DEF ChargedSessions, Charged, UploadInv, TypeInv, RowsTyped
    <3>4. Cardinality(ChargedSessions') = Cardinality(ChargedSessions) + 1
      BY <2>1, <3>3, FS_AddElement
    <3>5. Cardinality(ChargedSessions) < Quota
      BY <3>2 DEF WithinQuota, ChargedSessions
    <3> QED BY <2>1, <3>4, <3>5 DEF QuotaInv
  <2>3. CASE ~ \E s \in Sessions : Reserve(s)
    <3>1. \A s \in Sessions : Charged(s)' => Charged(s)
      BY <2>3, StepEffect DEF SessionEffect, UploadInv
    <3>2. ChargedSessions' \subseteq ChargedSessions
      BY <3>1 DEF ChargedSessions
    <3>3. Cardinality(ChargedSessions') <= Cardinality(ChargedSessions) /\ Cardinality(ChargedSessions') \in Nat
      BY <2>1, <3>2, FS_Subset, FS_CardinalityType
    <3> QED BY <2>1, <3>3 DEF QuotaInv
  <2> QED BY <2>2, <2>3
<1>3. UploadInv /\ QuotaInv => QuotaBoundsObjects
  <2> SUFFICES ASSUME UploadInv, QuotaInv PROVE QuotaBoundsObjects
    OBVIOUS
  <2> DEFINE O == {s \in Sessions : Occupies(s)}
  <2>1. IsFiniteSet(ChargedSessions) /\ Cardinality(ChargedSessions) \in Nat
    BY ChargedFinite
  <2>2. \A s \in Sessions : Occupies(s) => Charged(s)
    BY DEF Occupies, Charged, UploadInv, TypeInv, RowsTyped, ExistsInv, PhaseInv
  <2>3. O \subseteq ChargedSessions
    BY <2>2 DEF ChargedSessions
  <2>4. Cardinality(O) <= Cardinality(ChargedSessions) /\ Cardinality(O) \in Nat
    BY <2>1, <2>3, FS_Subset, FS_CardinalityType
  <2> QED BY <2>1, <2>4 DEF QuotaInv, QuotaBoundsObjects
<1> QED BY <1>1, <1>2, <1>3, InvAlways, PTL DEF Spec

HIDE DEF Terminal, Statuses, Phases, Idle, Passes, Kinds
HIDE DEF Labels, WriterLabels, FinalizerLabels, CleanerLabels

-----------------------------------------------------------------------------
(***************************************************************************)
(* Samples.                                                                *)
(* Proof that Samples implements SampleLedger, for any test set, any       *)
(* outputs and limit, and any number of attempts and requests.             *)
(*                                                                         *)
(* Two facts carry what a request read over to the step that uses it.  The *)
(* request behind the fence is alone with the claim it checked there       *)
(* (FencedInv): every other step that changes the claim, the clock         *)
(* excepted, needs the fence.  The samples that made an attempt complete   *)
(* are still the same when the report commits (ReportInv): they fill every *)
(* item of the attempt, and a sample is never replaced.                    *)
(***************************************************************************)

FencedInv ==
    \A h \in Handlers : calls[h].at = "fenced" =>
        fence = h /\ state = "running" /\ attempt = calls[h].attempt /\ ~cancelling

ReportInv ==
    \A h \in Handlers : calls[h].at = "reporting" => CompletionReady(samples[calls[h].attempt])

RunningInv == state = "running" => attempt \in 1..MaxAttempts

SamplesInv == SamplesTypeOK /\ RunningInv /\ FencedInv /\ ReportInv

LEMMA CallFields ==
    ASSUME NEW c \in Calls
    PROVE  /\ c.at \in {"idle", "verifying", "fenced", "reporting"}
           /\ c.at # "idle" => c.attempt \in 1..MaxAttempts
           /\ c.at \in {"verifying", "fenced"} => c.output \in Outputs
  BY DEF Calls

\* The next call of a handler.
LEMMA CallTypes ==
    /\ IdleCall \in Calls
    /\ \A a \in 1..MaxAttempts, o \in Outputs :
        /\ [at |-> "verifying", attempt |-> a, output |-> o] \in Calls
        /\ [at |-> "fenced", attempt |-> a, output |-> o] \in Calls
    /\ \A a \in 1..MaxAttempts : [at |-> "reporting", attempt |-> a] \in Calls
  BY DEF Calls, IdleCall

LEMMA SamplesInitially == SamplesInit => SamplesInv
<1> SUFFICES ASSUME SamplesInit PROVE SamplesInv
  OBVIOUS
<1>1. SamplesTypeOK
  <2>1. samples \in [1..MaxAttempts -> [TestItems -> Outputs \cup {NoSample}]]
    BY DEF SamplesInit
  <2>2. attempt \in 0..MaxAttempts
    BY SamplesAssumption DEF SamplesInit
  <2>3. cancelling \in BOOLEAN
    BY Zenon DEF SamplesInit
  <2>4. calls \in [Handlers -> Calls]
    BY CallTypes DEF SamplesInit
  <2> QED
    BY <2>1, <2>2, <2>3, <2>4, Zenon DEF SamplesInit, SamplesTypeOK
<1>2. \A h \in Handlers : calls[h].at = "idle"
  BY DEF SamplesInit, IdleCall
<1>3. RunningInv /\ FencedInv /\ ReportInv
  BY <1>2 DEF SamplesInit, RunningInv, FencedInv, ReportInv
<1> QED
  BY <1>1, <1>3 DEF SamplesInv

\* A call that only moves from "verifying" behind the fence keeps its claim and output.
LEMMA FencedCall ==
    ASSUME NEW c \in Calls, c.at = "verifying"
    PROVE  [c EXCEPT !.at = "fenced"] = [at |-> "fenced", attempt |-> c.attempt, output |-> c.output]
  BY DEF Calls

\* A new sample does not touch an attempt that is complete.
LEMMA CompleteIsFull ==
    ASSUME NEW row \in [TestItems -> Outputs \cup {NoSample}], CompletionReady(row),
           NEW i \in TestItems
    PROVE  row[i] # NoSample
  BY DEF CompletionReady

LEMMA SamplesStep == SamplesInv /\ [SamplesNext]_sampleVars => SamplesInv'
<1> SUFFICES ASSUME SamplesInv, [SamplesNext]_sampleVars PROVE SamplesInv'
  OBVIOUS
<1> USE SamplesAssumption
<1>t. SamplesTypeOK /\ RunningInv /\ FencedInv /\ ReportInv
  BY DEF SamplesInv
<1>c. \A h \in Handlers : calls[h] \in Calls
  BY <1>t DEF SamplesTypeOK
<1>1. ASSUME NEW h \in Handlers, NEW o \in Outputs, Receive(h, o) PROVE SamplesInv'
  BY <1>1, <1>t, CallTypes
  DEF Receive, ActiveLease, SamplesInv, SamplesTypeOK, RunningInv, FencedInv, ReportInv
<1>2. ASSUME NEW h \in Handlers, Fence(h) PROVE SamplesInv'
  <2>1. calls[h] \in Calls /\ calls[h].at = "verifying"
    BY <1>2, <1>c DEF Fence
  <2>2. calls' = [calls EXCEPT ![h] = [at |-> "fenced", attempt |-> calls[h].attempt,
                                       output |-> calls[h].output]]
    BY <1>2, <1>t, <2>1, FencedCall DEF Fence, SamplesTypeOK
  <2>3. calls[h].attempt \in 1..MaxAttempts /\ calls[h].output \in Outputs
    BY <2>1, CallFields
  <2>t. calls' \in [Handlers -> Calls]
    <3>1. [at |-> "fenced", attempt |-> calls[h].attempt, output |-> calls[h].output] \in Calls
      BY <2>3, CallTypes
    <3> QED
      BY <3>1, <2>2, <1>t DEF SamplesTypeOK
  <2>4. SamplesTypeOK'
    BY <1>2, <1>t, <2>t DEF Fence, SamplesTypeOK
  <2>5. calls'[h].at = "fenced" /\ calls'[h].attempt = calls[h].attempt
    BY <1>t, <2>2 DEF SamplesTypeOK
  <2>6. \A k \in Handlers \ {h} : calls'[k] = calls[k]
    BY <1>t, <2>2 DEF SamplesTypeOK
  <2>7. RunningInv' /\ FencedInv'
    BY <1>2, <1>t, <2>5, <2>6 DEF Fence, ClaimUnchanged, ActiveLease, RunningInv, FencedInv,
       SamplesTypeOK
  <2>8. ReportInv'
    BY <1>2, <1>t, <2>5, <2>6 DEF Fence, ReportInv
  <2> QED
    BY <2>4, <2>7, <2>8 DEF SamplesInv
<1>3. ASSUME NEW h \in Handlers, Register(h) PROVE SamplesInv'
  <2> DEFINE a == calls[h].attempt
             o == calls[h].output
  <2>1. a \in 1..MaxAttempts /\ o \in Outputs
    BY <1>3, <1>c, CallFields DEF Register
  <2>2. o.item \in TestItems
    BY <2>1
  <2>3. samples[a] \in [TestItems -> Outputs \cup {NoSample}]
    BY <2>1, <1>t DEF SamplesTypeOK
  <2>4. samples' = [samples EXCEPT ![a] = [samples[a] EXCEPT ![o.item] = o]]
    BY <1>3, <1>t, <2>1, <2>2 DEF Register, SamplesTypeOK
  <2>5. SamplesTypeOK'
    BY <1>3, <1>t, <2>1, <2>2, <2>3, <2>4, CallTypes DEF Register, EndCall, SamplesTypeOK
  <2>6. ReportInv'
    <3> SUFFICES ASSUME NEW k \in Handlers, calls'[k].at = "reporting"
                 PROVE  CompletionReady(samples'[calls'[k].attempt])
      BY DEF ReportInv
    <3>1. k # h /\ calls'[k] = calls[k]
      BY <1>3, <1>t DEF Register, EndCall, SamplesTypeOK, IdleCall
    <3>2. CompletionReady(samples[calls[k].attempt])
      BY <3>1, <1>t DEF ReportInv
    <3>3. calls[k].attempt # a
      BY <3>2, <2>2, <2>3, <1>3, CompleteIsFull DEF Register
    <3> QED
      BY <3>1, <3>2, <3>3, <2>4, <1>c, <1>t, CallFields DEF SamplesTypeOK
  <2>7. RunningInv' /\ FencedInv'
    BY <1>3, <1>t, <1>c DEF Register, EndCall, RunningInv, FencedInv, SamplesTypeOK, IdleCall
  <2> QED
    BY <2>5, <2>6, <2>7 DEF SamplesInv
<1>4. ASSUME NEW h \in Handlers, Answer(h) PROVE SamplesInv'
  BY <1>4, <1>t, CallTypes
  DEF Answer, EndCall, IdleCall, SamplesInv, SamplesTypeOK, RunningInv, FencedInv, ReportInv
<1>5. ASSUME NEW h \in Handlers, ReportCompleted(h) PROVE SamplesInv'
  BY <1>5, <1>t, CallTypes
  DEF ReportCompleted, ActiveLease, SamplesInv, SamplesTypeOK, RunningInv, FencedInv, ReportInv
<1>6. ASSUME NEW h \in Handlers, CommitCompleted(h) PROVE SamplesInv'
  BY <1>6, <1>t, CallTypes
  DEF CommitCompleted, EndCall, IdleCall, SamplesInv, SamplesTypeOK, RunningInv, FencedInv, ReportInv
<1>7. ASSUME ClaimJob PROVE SamplesInv'
  BY <1>7, <1>t
  DEF ClaimJob, SamplesInv, SamplesTypeOK, RunningInv, FencedInv, ReportInv
<1>8. ASSUME LeaseExpires \/ CancelQueued PROVE SamplesInv'
  BY <1>8, <1>t
  DEF LeaseExpires, CancelQueued, SamplesInv, SamplesTypeOK, RunningInv, FencedInv, ReportInv
<1>r. ASSUME RetryFailed PROVE SamplesInv'
  <2>1. SamplesTypeOK'
    BY <1>r, <1>t DEF RetryFailed, SamplesTypeOK
  <2>2. \A h \in Handlers : calls[h].at # "fenced"
    BY <1>r, <1>t DEF RetryFailed, FencedInv
  <2>3. RunningInv' /\ FencedInv' /\ ReportInv'
    BY <1>r, <1>t, <2>2 DEF RetryFailed, RunningInv, FencedInv, ReportInv
  <2> QED
    BY <2>1, <2>3 DEF SamplesInv
<1>9. ASSUME CancelRunning \/ RevokeWorker PROVE SamplesInv'
  BY <1>9, <1>t
  DEF CancelRunning, RevokeWorker, SamplesInv, SamplesTypeOK, RunningInv, FencedInv, ReportInv
<1>10. ASSUME NEW to \in {"failed", "queued", "cancelled"}, ReportEnd(to) \/ RecoverLease(to)
       PROVE  SamplesInv'
  BY <1>10, <1>t
  DEF ReportEnd, RecoverLease, ActiveLease, SamplesInv, SamplesTypeOK, RunningInv, FencedInv, ReportInv
<1>11. ASSUME UNCHANGED sampleVars PROVE SamplesInv'
  BY <1>11, <1>t DEF sampleVars, SamplesInv, SamplesTypeOK, RunningInv, FencedInv, ReportInv
<1> QED
  BY <1>1, <1>2, <1>3, <1>4, <1>5, <1>6, <1>7, <1>8, <1>r, <1>9, <1>10, <1>11 DEF SamplesNext

\* The claim behind the fence and the samples behind a report are what they were when
\* the request looked at them (_lock_current_sample_claim, sample_completion_ready).
THEOREM SamplesInvariant == SamplesSpec => []SamplesInv
  BY SamplesInitially, SamplesStep, PTL DEF SamplesSpec

-----------------------------------------------------------------------------
ledgerVars == <<samples, attempt, state, cancelling>>

LEMMA ReadyIsWhole ==
    ASSUME NEW row, CompletionReady(row) PROVE Ledger!Whole(row)
  BY DEF CompletionReady, Ledger!Whole

LEMMA LedgerStep == SamplesInv /\ [SamplesNext]_sampleVars => [Ledger!Next]_ledgerVars
<1> SUFFICES ASSUME SamplesInv, [SamplesNext]_sampleVars PROVE [Ledger!Next]_ledgerVars
  OBVIOUS
<1>t. SamplesTypeOK /\ RunningInv /\ FencedInv /\ ReportInv
  BY DEF SamplesInv
<1>c. \A h \in Handlers : calls[h] \in Calls
  BY <1>t DEF SamplesTypeOK
<1>1. ASSUME NEW h \in Handlers, NEW o \in Outputs, Receive(h, o) PROVE UNCHANGED ledgerVars
  BY <1>1 DEF Receive, ledgerVars
<1>2. ASSUME NEW h \in Handlers, Fence(h) \/ Answer(h) \/ ReportCompleted(h)
      PROVE  UNCHANGED ledgerVars
  BY <1>2 DEF Fence, Answer, ReportCompleted, ledgerVars
<1>3. ASSUME NEW h \in Handlers, Register(h) PROVE Ledger!Next
  <2>1. calls[h].output \in Outputs
    BY <1>3, <1>c, CallFields DEF Register
  <2>2. state = "running" /\ attempt = calls[h].attempt /\ ~cancelling
    BY <1>3, <1>t DEF Register, FencedInv
  <2>3. Ledger!Add(calls[h].output)
    BY <1>3, <2>2 DEF Register, Ledger!Add
  <2> QED
    BY <2>1, <2>3 DEF Ledger!Next
<1>4. ASSUME NEW h \in Handlers, CommitCompleted(h) PROVE Ledger!Next
  <2>1. CompletionReady(samples[attempt])
    BY <1>4, <1>t DEF CommitCompleted, ClaimUnchanged, ReportInv
  <2>2. Ledger!Complete
    BY <1>4, <2>1, ReadyIsWhole DEF CommitCompleted, ClaimUnchanged, ActiveLease, Ledger!Complete
  <2> QED
    BY <2>2 DEF Ledger!Next
<1>5. ASSUME ClaimJob PROVE Ledger!Next
  BY <1>5 DEF ClaimJob, Ledger!Start, Ledger!Next
<1>6. ASSUME LeaseExpires PROVE UNCHANGED ledgerVars
  BY <1>6 DEF LeaseExpires, ledgerVars
<1>7. ASSUME CancelRunning PROVE Ledger!Next
  BY <1>7 DEF CancelRunning, Ledger!AskCancel, Ledger!Next
<1>8. ASSUME CancelQueued \/ RevokeWorker PROVE Ledger!Next
  <2>1. Ledger!Stop("cancelled")
    BY <1>8 DEF CancelQueued, RevokeWorker, Ledger!Stop
  <2> QED
    BY <2>1 DEF Ledger!Next
<1>9. ASSUME NEW to \in {"failed", "queued", "cancelled"},
             (ReportEnd(to) /\ to # "queued") \/ RecoverLease(to)
      PROVE  Ledger!Next
  <2>1. Ledger!Stop(to)
    BY <1>9 DEF ReportEnd, RecoverLease, ActiveLease, Ledger!Stop
  <2> QED
    BY <2>1 DEF Ledger!Next
<1>10. ASSUME RetryFailed PROVE Ledger!Next
  BY <1>10 DEF RetryFailed, Ledger!Retry, Ledger!Next
<1>11. ASSUME UNCHANGED sampleVars PROVE UNCHANGED ledgerVars
  BY <1>11 DEF sampleVars, ledgerVars
<1> QED
  BY <1>1, <1>2, <1>3, <1>4, <1>5, <1>6, <1>7, <1>8, <1>9, <1>10, <1>11 DEF SamplesNext

\* Registration and completion keep what SampleLedger promises, whatever happens to the
\* claim during their verifications (register_sample, update_job_status).
THEOREM SamplesKeepTheirPromise == SamplesSpec => ImplementsSampleLedger
<1>1. SamplesInit => Ledger!Init
  BY DEF SamplesInit, Ledger!Init, Ledger!NoSamples
<1> QED
  BY <1>1, SamplesInvariant, LedgerStep, PTL
  DEF SamplesSpec, ImplementsSampleLedger, Ledger!Spec, ledgerVars

-----------------------------------------------------------------------------
(***************************************************************************)
(* StorageAdoption: a session is bound to a storage with its bytes, and    *)
(* what a run reports is true, for any number of sessions, storages and    *)
(* operators.  The row lock makes the run that verifies a session the only *)
(* one that can bind it, and keeps maintenance from its objects            *)
(* (VerifyOK); a binding never changes, so what a run has settled stays so *)
(* (DoneOK).                                                               *)
(***************************************************************************)

\* The run that verifies a session holds its row, which is unbound, and the objects
\* it has seen are in its storage.
VerifyOK(o) ==
    op[o].at = "verify" =>
        /\ op[o].ses \in Legacy /\ op[o].storage \in Storages
        /\ rowLock[op[o].ses] = o
        /\ upload[op[o].ses].where = Unbound
        /\ op[o].seen <= Len(Objects(o))
        /\ \A i \in 1..op[o].seen : Matches(o, i)

\* What a run is done with is bound to its storage or was rejected.
DoneOK(o) ==
    /\ op[o].at \in {"next", "verify", "done"} => op[o].storage \in Storages
    /\ ~op[o].dry => \A s \in op[o].items \ (op[o].todo \cup op[o].rejected) :
                        upload[s].where = op[o].storage
    /\ op[o].at = "done" => op[o].todo = {}

RunsOK == \A o \in Operators : VerifyOK(o) /\ DoneOK(o)

AdoptionInv == AdoptionTypeOK /\ RunsOK /\ BoundToItsBytes

LEMMA EvidenceTypes ==
    ASSUME NEW u \in Uploads
    PROVE  /\ Len(Evidence(u)) \in 1..4 /\ DOMAIN Evidence(u) = 1..Len(Evidence(u))
           /\ \A i \in 1..Len(Evidence(u)) : Evidence(u)[i] \in StoredNames
           /\ u.status = "completed" => \A i \in 1..Len(Evidence(u)) : Evidence(u)[i] # "staging"
<1>1. CASE u.status = "completed" /\ u.kind = "dataset"
  <2>1. Evidence(u) = <<"original", "prepared_flat", "manifest", "quality_report">>
    BY <1>1 DEF Evidence, Canonical
  <2> QED
    BY <2>1 DEF StoredNames
<1>2. CASE u.status = "completed" /\ u.kind # "dataset"
  <2>1. Evidence(u) = <<"canonical">>
    BY <1>2 DEF Evidence, Canonical
  <2> QED
    BY <2>1 DEF StoredNames
<1>3. CASE u.status # "completed"
  <2>1. Evidence(u) = <<"staging">>
    BY <1>3 DEF Evidence
  <2> QED
    BY <1>3, <2>1 DEF StoredNames
<1> QED
  BY <1>1, <1>2, <1>3

LEMMA NewRunType == NewRun \in Runs
<1>1. 0 \in 0..4
  OBVIOUS
<1> QED
  BY <1>1 DEF NewRun, Runs

LEMMA InitAdoptionInv == AdoptionInit => AdoptionInv
<1> SUFFICES ASSUME AdoptionInit PROVE AdoptionInv
  OBVIOUS
<1>1. NewRun \in Runs /\ NewRun.at = "idle" /\ NewRun.items = {} /\ NewRun.dry
  BY NewRunType DEF NewRun
<1>2. PICK i \in Inherited : upload = i.upload /\ objects = i.objects
  BY DEF AdoptionInit
<1>3. AdoptionTypeOK
  BY <1>1, <1>2, AdoptionAssumption DEF AdoptionInit, AdoptionTypeOK
<1>4. RunsOK
  BY <1>1 DEF AdoptionInit, RunsOK, VerifyOK, DoneOK
<1>5. BoundToItsBytes
  BY <1>2, AdoptionAssumption DEF BoundToItsBytes
<1> QED
  BY <1>3, <1>4, <1>5 DEF AdoptionInv

LEMMA EndSessionType ==
    ASSUME AdoptionTypeOK, NEW o \in Operators, op[o].ses \in Legacy, NEW R \in SUBSET Legacy, EndSession(o, R)
    PROVE  op' \in [Operators -> Runs] /\ rowLock' \in [Legacy -> Operators \cup {NoOne}]
<1>1. op[o] \in Runs
  BY DEF AdoptionTypeOK
<1>2. [op[o] EXCEPT !.at = "next", !.todo = @ \ {op[o].ses}, !.ses = NoOne, !.seen = 0, !.rejected = @ \cup R] \in Runs
  <2>1. 0 \in 0..4
    OBVIOUS
  <2> QED
    BY <1>1, <2>1 DEF Runs
<1> QED
  BY <1>1, <1>2 DEF EndSession, AdoptionTypeOK

LEMMA AdoptionTypeStep == AdoptionTypeOK /\ RunsOK /\ [AdoptionNext]_adoptionVars => AdoptionTypeOK'
<1> SUFFICES ASSUME AdoptionTypeOK, RunsOK, [AdoptionNext]_adoptionVars PROVE AdoptionTypeOK'
  OBVIOUS
<1> USE DEF AdoptionTypeOK
<1>1. ASSUME NEW o \in Operators, NEW a \in Arguments, NEW E \in SUBSET Legacy, List(o, a, E) PROVE AdoptionTypeOK'
  <2>1. a.storage \in Storages /\ a.dry \in BOOLEAN
    BY AdoptionAssumption
  <2>2. [NewRun EXCEPT !.at = "next", !.storage = a.storage, !.dry = a.dry, !.items = E, !.todo = E] \in Runs
    BY <2>1, NewRunType DEF Runs
  <2> QED
    BY <1>1, <2>2 DEF List
<1>2. ASSUME NEW o \in Operators, NEW s \in Legacy, Take(o, s) PROVE AdoptionTypeOK'
  BY SMTT(30), <1>2 DEF Take, Runs
<1>3. ASSUME NEW o \in Operators, Match(o) PROVE AdoptionTypeOK'
  <2>1. op[o].seen + 1 \in 0..4
    <3>1. op[o] \in Runs /\ op[o].ses \in Legacy /\ op[o].seen < Len(Objects(o))
      BY <1>3 DEF Match, RunsOK, VerifyOK
    <3>2. Len(Objects(o)) \in 1..4
      BY <3>1, EvidenceTypes DEF Objects
    <3>3. op[o].seen \in 0..4
      BY <3>1 DEF Runs
    <3>4. \A n \in 0..4, m \in 1..4 : n < m => n + 1 \in 0..4
      OBVIOUS
    <3> QED
      BY <3>1, <3>2, <3>3, <3>4
  <2>2. op[o] \in Runs
    OBVIOUS
  <2>3. [op[o] EXCEPT !.seen = @ + 1] \in Runs
    BY ONLY <2>1, <2>2 DEF Runs
  <2> QED
    BY <1>3, <2>3 DEF Match
<1>4. ASSUME NEW o \in Operators, Reject(o) PROVE AdoptionTypeOK'
  <2>1. op[o].ses \in Legacy
    BY <1>4 DEF Reject, RunsOK, VerifyOK
  <2>2. mishaps' \in 0..MaxMishaps
    BY <1>4, AdoptionAssumption DEF Reject, Mishap
  <2> QED
    BY <1>4, <2>1, <2>2, EndSessionType DEF Reject
<1>5. ASSUME NEW o \in Operators, Bind(o) PROVE AdoptionTypeOK'
  <2>1. op[o].ses \in Legacy /\ op[o].storage \in Storages
    BY <1>5 DEF Bind, RunsOK, VerifyOK
  <2>2. upload' \in [Legacy -> Uploads]
    <3>1. [upload[op[o].ses] EXCEPT !.where = op[o].storage] \in Uploads
      BY <2>1 DEF Uploads
    <3> QED
      BY <1>5, <2>1, <3>1 DEF Bind
  <2> QED
    BY <1>5, <2>1, <2>2, EndSessionType DEF Bind
<1>6. ASSUME NEW o \in Operators, Report(o) PROVE AdoptionTypeOK'
  <2>1. op[o] \in Runs
    OBVIOUS
  <2>2. [op[o] EXCEPT !.at = "done"] \in Runs
    BY ONLY <2>1 DEF Runs
  <2> QED
    BY <1>6, <2>2 DEF Report
<1>7. ASSUME NEW o \in Operators, KillRun(o) PROVE AdoptionTypeOK'
  <2>1. [NewRun EXCEPT !.at = "dead"] \in Runs
    BY NewRunType DEF Runs
  <2>2. rowLock' \in [Legacy -> Operators \cup {NoOne}]
    BY <1>7 DEF KillRun
  <2>3. mishaps' \in 0..MaxMishaps
    BY <1>7, AdoptionAssumption DEF KillRun, Mishap
  <2> QED
    BY <1>7, <2>1, <2>2, <2>3 DEF KillRun
<1>8. ASSUME NEW s \in Legacy, ExpirePending(s) PROVE AdoptionTypeOK'
  BY <1>8 DEF ExpirePending, Uploads, Settled
<1>9. ASSUME NEW s \in Legacy, DeleteStaging(s) PROVE AdoptionTypeOK'
  BY <1>9 DEF DeleteStaging
<1>10. ASSUME NEW c \in Storages, NEW s \in Legacy, NEW x \in StoredNames, CopyObject(c, s, x) PROVE AdoptionTypeOK'
  BY <1>10 DEF CopyObject
<1>11. CASE UNCHANGED adoptionVars
  BY <1>11 DEF adoptionVars
<1> QED
  BY <1>1, <1>2, <1>3, <1>4, <1>5, <1>6, <1>7, <1>8, <1>9, <1>10, <1>11 DEF AdoptionNext,
     OperatorStep

\* What a run relies on survives the steps of all others: they do not touch the run,
\* nor a row it holds, nor the objects of such a row; and no binding changes.
LEMMA OthersStep ==
    ASSUME AdoptionTypeOK, NEW o \in Operators, VerifyOK(o), DoneOK(o), op'[o] = op[o],
           op[o].at = "verify" =>
                /\ rowLock'[op[o].ses] = rowLock[op[o].ses] /\ upload'[op[o].ses] = upload[op[o].ses]
                /\ \A c \in Storages, x \in StoredNames :
                        <<c, op[o].ses, x>> \in objects => <<c, op[o].ses, x>> \in objects',
           \A s \in Legacy : upload[s].where # Unbound => upload'[s].where = upload[s].where
    PROVE  VerifyOK(o)' /\ DoneOK(o)'
<1>1. VerifyOK(o)'
  <2> SUFFICES ASSUME op[o].at = "verify" PROVE VerifyOK(o)'
    BY DEF VerifyOK
  <2>1. upload[op[o].ses] \in Uploads
    BY DEF VerifyOK, AdoptionTypeOK
  <2>2. \A i \in 1..op[o].seen : Objects(o)[i] \in StoredNames
    BY <2>1, EvidenceTypes DEF VerifyOK, Objects, AdoptionTypeOK, Runs
  <2> QED
    BY <2>2 DEF VerifyOK, Objects, Matches
<1>2. DoneOK(o)'
  <2>1. \A s \in op[o].items : s \in Legacy
    BY DEF AdoptionTypeOK, Runs
  <2>2. op[o].storage # Unbound
    BY AdoptionAssumption DEF AdoptionTypeOK, Runs
  <2> QED
    BY <2>1, <2>2 DEF DoneOK
<1> QED
  BY <1>1, <1>2

LEMMA AdoptionStep ==
    AdoptionInv /\ AdoptionTypeOK' /\ [AdoptionNext]_adoptionVars => RunsOK' /\ BoundToItsBytes'
<1> SUFFICES ASSUME AdoptionInv, AdoptionTypeOK', [AdoptionNext]_adoptionVars PROVE RunsOK' /\ BoundToItsBytes'
  OBVIOUS
<1> USE DEF AdoptionInv
<1>1. ASSUME NEW o \in Operators, NEW a \in Arguments, NEW E \in SUBSET Legacy, List(o, a, E)
      PROVE  RunsOK' /\ BoundToItsBytes'
  <2>1. \A q \in Operators : q # o => VerifyOK(q)' /\ DoneOK(q)'
    BY <1>1, OthersStep DEF List, RunsOK, AdoptionTypeOK
  <2>2. op'[o].at = "next" /\ op'[o].storage \in Storages /\ op'[o].items = op'[o].todo
    BY <1>1, AdoptionAssumption DEF List, NewRun, AdoptionTypeOK
  <2>3. VerifyOK(o)' /\ DoneOK(o)'
    BY <2>2 DEF VerifyOK, DoneOK
  <2>4. BoundToItsBytes'
    BY <1>1 DEF List, BoundToItsBytes
  <2> QED
    BY <2>1, <2>3, <2>4 DEF RunsOK
<1>2. ASSUME NEW o \in Operators, NEW s \in Legacy, Take(o, s) PROVE RunsOK' /\ BoundToItsBytes'
  <2>1. ASSUME NEW q \in Operators, q # o PROVE VerifyOK(q)' /\ DoneOK(q)'
    <3>1. op'[q] = op[q] /\ upload' = upload /\ objects' = objects
      BY <1>2, <2>1 DEF Take, AdoptionTypeOK
    <3>2. op[q].at = "verify" => rowLock'[op[q].ses] = rowLock[op[q].ses]
      BY <1>2, <2>1, AdoptionAssumption DEF Take, AdoptionTypeOK, RunsOK, VerifyOK
    <3> QED
      BY <3>1, <3>2, OthersStep DEF RunsOK
  <2>2. VerifyOK(o)' /\ DoneOK(o)'
    <3>1. CASE Refused(o, s)
      <4>1. op'[o] = [op[o] EXCEPT !.todo = @ \ {s}, !.rejected = @ \cup {s}]
            /\ op[o] \in Runs /\ op[o].at = "next" /\ upload' = upload
        BY <1>2, <3>1 DEF Take, AdoptionTypeOK
      <4>2. op'[o].at = "next" /\ op'[o].todo = op[o].todo \ {s} /\ op'[o].rejected = op[o].rejected \cup {s}
            /\ op'[o].storage = op[o].storage /\ op'[o].items = op[o].items /\ op'[o].dry = op[o].dry
        BY <4>1 DEF Runs
      <4> QED
        BY <4>1, <4>2 DEF RunsOK, VerifyOK, DoneOK
    <3>2. CASE ~Refused(o, s) /\ BoundHere(o, s)
      <4>1. op'[o] = [op[o] EXCEPT !.todo = @ \ {s}]
            /\ op[o] \in Runs /\ op[o].at = "next" /\ upload' = upload /\ upload[s].where = op[o].storage
        BY <1>2, <3>2 DEF Take, AdoptionTypeOK, BoundHere
      <4>2. op'[o].at = "next" /\ op'[o].todo = op[o].todo \ {s} /\ op'[o].rejected = op[o].rejected
            /\ op'[o].storage = op[o].storage /\ op'[o].items = op[o].items /\ op'[o].dry = op[o].dry
        BY <4>1 DEF Runs
      <4> QED
        BY <4>1, <4>2 DEF RunsOK, VerifyOK, DoneOK
    <3>3. CASE ~Refused(o, s) /\ ~BoundHere(o, s)
      <4>1. op'[o].at = "verify" /\ op'[o].ses = s /\ op'[o].seen = 0 /\ rowLock'[s] = o /\ upload' = upload
            /\ op'[o].storage = op[o].storage /\ op'[o].items = op[o].items /\ op'[o].todo = op[o].todo
            /\ op'[o].rejected = op[o].rejected /\ op'[o].dry = op[o].dry /\ op[o].at = "next"
        BY <1>2, <3>3 DEF Take, AdoptionTypeOK, Runs
      <4>2. upload[s].where = Unbound
        BY <3>3 DEF Refused
      <4>3. Len(Objects(o)') \in Nat
        BY <4>1, EvidenceTypes DEF Objects, AdoptionTypeOK
      <4> QED
        BY <4>1, <4>2, <4>3 DEF RunsOK, VerifyOK, DoneOK
    <3> QED
      BY <3>1, <3>2, <3>3
  <2>3. BoundToItsBytes'
    BY <1>2 DEF Take, BoundToItsBytes
  <2> QED
    BY <2>1, <2>2, <2>3 DEF RunsOK
<1>3. ASSUME NEW o \in Operators, Match(o) PROVE RunsOK' /\ BoundToItsBytes'
  <2>1. \A q \in Operators : q # o => VerifyOK(q)' /\ DoneOK(q)'
    BY <1>3, OthersStep DEF Match, RunsOK, AdoptionTypeOK
  <2>2. op'[o] = [op[o] EXCEPT !.seen = op[o].seen + 1] /\ upload' = upload /\ objects' = objects
        /\ rowLock' = rowLock /\ op[o].at = "verify" /\ swept' = swept
    BY <1>3 DEF Match, AdoptionTypeOK, Runs
  <2>3. VerifyOK(o)'
    <3>1. Objects(o)' = Objects(o) /\ \A i : Matches(o, i)' = Matches(o, i)
      BY <2>2 DEF Objects, Matches, AdoptionTypeOK, Runs
    <3>2. Len(Objects(o)) \in Nat /\ op[o].seen \in Nat
      <4>1. op[o].ses \in Legacy /\ op[o] \in Runs
        BY <2>2 DEF AdoptionTypeOK, RunsOK, VerifyOK
      <4>2. Len(Objects(o)) \in 1..4
        BY <4>1, EvidenceTypes DEF Objects, AdoptionTypeOK
      <4> QED
        BY <4>1, <4>2 DEF Runs
    <3>3. op[o].seen < Len(Objects(o)) /\ Matches(o, op[o].seen + 1)
      BY <1>3 DEF Match
    <3>4. op'[o].seen = op[o].seen + 1 /\ op'[o].ses = op[o].ses /\ op'[o].storage = op[o].storage
      BY <2>2 DEF AdoptionTypeOK, Runs
    <3>5. \A i \in 1..op'[o].seen : Matches(o, i)'
      BY <2>2, <3>1, <3>2, <3>3, <3>4 DEF RunsOK, VerifyOK
    <3> QED
      BY <2>2, <3>1, <3>2, <3>3, <3>4, <3>5 DEF RunsOK, VerifyOK
  <2>4. DoneOK(o)'
    BY <2>2 DEF RunsOK, DoneOK, AdoptionTypeOK, Runs
  <2>5. BoundToItsBytes'
    BY <2>2 DEF BoundToItsBytes
  <2> QED
    BY <2>1, <2>3, <2>4, <2>5 DEF RunsOK
<1>4. ASSUME NEW o \in Operators, Reject(o) \/ Bind(o) PROVE RunsOK' /\ BoundToItsBytes'
  <2> DEFINE s == op[o].ses
             R == IF Bind(o) THEN {} ELSE {s}
  <2>1. op[o].at = "verify" /\ s \in Legacy /\ op[o].storage \in Storages /\ upload[s].where = Unbound /\ rowLock[s] = o
    BY <1>4 DEF Reject, Bind, RunsOK, VerifyOK
  <2>2. \A q \in Operators : q # o => op'[q] = op[q]
    BY <1>4 DEF Reject, Bind, EndSession, AdoptionTypeOK
  <2>3. \A t \in Legacy : t # s => upload'[t] = upload[t] /\ rowLock'[t] = rowLock[t]
    BY <1>4, <2>1 DEF Reject, Bind, EndSession, AdoptionTypeOK
  <2>4. objects' = objects /\ swept' = swept
    BY <1>4 DEF Reject, Bind
  <2>5. ASSUME NEW q \in Operators, q # o PROVE VerifyOK(q)' /\ DoneOK(q)'
    <3>1. op[q].at = "verify" => op[q].ses \in Legacy /\ op[q].ses # s
      BY <2>1, <2>5 DEF RunsOK, VerifyOK
    <3>2. \A t \in Legacy : upload[t].where # Unbound => upload'[t].where = upload[t].where
      BY <2>1, <2>3
    <3> QED
      BY <2>2, <2>3, <2>4, <2>5, <3>1, <3>2, OthersStep DEF RunsOK
  <2>6. op'[o].at = "next" /\ op'[o].todo = op[o].todo \ {s} /\ op'[o].storage = op[o].storage
        /\ op'[o].items = op[o].items /\ op'[o].dry = op[o].dry
    BY <1>4 DEF Reject, Bind, EndSession, AdoptionTypeOK, Runs
  <2>7. s \in op'[o].rejected \/ op[o].dry \/ upload'[s].where = op[o].storage
    BY <1>4, <2>1 DEF Reject, Bind, EndSession, AdoptionTypeOK, Runs, Uploads
  <2>8. op[o].rejected \subseteq op'[o].rejected
    BY <1>4 DEF Reject, Bind, EndSession, AdoptionTypeOK, Runs
  <2>9. VerifyOK(o)' /\ DoneOK(o)'
    <3>1. \A t \in op[o].items : t \in Legacy
      BY DEF AdoptionTypeOK, Runs
    <3> QED
      BY <2>1, <2>3, <2>6, <2>7, <2>8, <3>1 DEF VerifyOK, DoneOK, RunsOK
  <2>10. BoundToItsBytes'
    <3>1. CASE Bind(o) /\ ~op[o].dry
      <4>1. upload'[s] = [upload[s] EXCEPT !.where = op[o].storage] /\ upload[s] \in Uploads
        BY <2>1, <3>1 DEF Bind, AdoptionTypeOK
      <4>2. Evidence(upload'[s]) = Evidence(upload[s]) /\ upload'[s].where = op[o].storage
        BY <4>1 DEF Evidence, Uploads
      <4>3. \A i \in DOMAIN Evidence(upload[s]) : <<op[o].storage, s, Evidence(upload[s])[i]>> \in objects
        BY <2>1, <3>1, <4>1, EvidenceTypes DEF Bind, RunsOK, VerifyOK, Matches, Objects
      <4> SUFFICES ASSUME NEW t \in Legacy, upload'[t].where # Unbound,
                          NEW i \in DOMAIN Evidence(upload'[t])
                   PROVE  \/ <<upload'[t].where, t, Evidence(upload'[t])[i]>> \in objects'
                          \/ Evidence(upload'[t])[i] = "staging" /\ t \in swept'
        BY DEF BoundToItsBytes
      <4>4. CASE t = s
        BY <2>4, <4>2, <4>3, <4>4
      <4>5. CASE t # s
        BY <2>3, <2>4, <4>5 DEF BoundToItsBytes
      <4> QED
        BY <4>4, <4>5
    <3>2. CASE ~(Bind(o) /\ ~op[o].dry)
      <4>1. upload' = upload
        BY <1>4, <3>2 DEF Reject, Bind
      <4> QED
        BY <2>4, <4>1 DEF BoundToItsBytes
    <3> QED
      BY <3>1, <3>2
  <2> QED
    BY <2>5, <2>9, <2>10 DEF RunsOK
<1>5. ASSUME NEW o \in Operators, Report(o) PROVE RunsOK' /\ BoundToItsBytes'
  <2>1. \A q \in Operators : q # o => VerifyOK(q)' /\ DoneOK(q)'
    BY <1>5, OthersStep DEF Report, RunsOK, AdoptionTypeOK
  <2>2. VerifyOK(o)' /\ DoneOK(o)'
    BY <1>5 DEF Report, VerifyOK, DoneOK, RunsOK, AdoptionTypeOK, Runs
  <2>3. BoundToItsBytes'
    BY <1>5 DEF Report, BoundToItsBytes
  <2> QED
    BY <2>1, <2>2, <2>3 DEF RunsOK
<1>6. ASSUME NEW o \in Operators, KillRun(o) PROVE RunsOK' /\ BoundToItsBytes'
  <2>1. ASSUME NEW q \in Operators, q # o PROVE VerifyOK(q)' /\ DoneOK(q)'
    <3>1. op'[q] = op[q] /\ upload' = upload /\ objects' = objects
      BY <1>6, <2>1 DEF KillRun, AdoptionTypeOK
    <3>2. op[q].at = "verify" => rowLock'[op[q].ses] = rowLock[op[q].ses]
      BY <1>6, <2>1 DEF KillRun, AdoptionTypeOK, RunsOK, VerifyOK
    <3> QED
      BY <3>1, <3>2, OthersStep DEF RunsOK
  <2>2. op'[o].at = "dead" /\ op'[o].items = {}
    BY <1>6 DEF KillRun, NewRun, AdoptionTypeOK
  <2>3. VerifyOK(o)' /\ DoneOK(o)'
    BY <2>2 DEF VerifyOK, DoneOK
  <2>4. BoundToItsBytes'
    BY <1>6 DEF KillRun, BoundToItsBytes
  <2> QED
    BY <2>1, <2>3, <2>4 DEF RunsOK
<1>7. ASSUME NEW s \in Legacy, ExpirePending(s) PROVE RunsOK' /\ BoundToItsBytes'
  <2>1. op' = op /\ objects' = objects /\ rowLock' = rowLock /\ rowLock[s] = NoOne /\ swept' = swept
    BY <1>7 DEF ExpirePending
  <2>2. \A t \in Legacy : upload'[t].where = upload[t].where /\ (t # s => upload'[t] = upload[t])
    BY <1>7 DEF ExpirePending, AdoptionTypeOK, Uploads
  <2>3. Evidence(upload'[s]) = Evidence(upload[s])
    BY <1>7 DEF ExpirePending, AdoptionTypeOK, Uploads, Evidence
  <2>4. ASSUME NEW q \in Operators PROVE VerifyOK(q)' /\ DoneOK(q)'
    <3>1. op[q].at = "verify" => op[q].ses \in Legacy /\ op[q].ses # s
      BY <2>1, AdoptionAssumption DEF RunsOK, VerifyOK
    <3> QED
      BY <2>1, <2>2, <3>1, OthersStep DEF RunsOK
  <2>5. BoundToItsBytes'
    <3> SUFFICES ASSUME NEW t \in Legacy, upload'[t].where # Unbound,
                        NEW i \in DOMAIN Evidence(upload'[t])
                 PROVE  \/ <<upload'[t].where, t, Evidence(upload'[t])[i]>> \in objects'
                        \/ Evidence(upload'[t])[i] = "staging" /\ t \in swept'
      BY DEF BoundToItsBytes
    <3>1. Evidence(upload'[t]) = Evidence(upload[t])
      BY <2>2, <2>3
    <3>2. i \in DOMAIN Evidence(upload[t]) /\ upload[t].where # Unbound
      BY <2>2, <3>1
    <3>3. \/ <<upload[t].where, t, Evidence(upload[t])[i]>> \in objects
          \/ Evidence(upload[t])[i] = "staging" /\ t \in swept
      BY <3>2 DEF BoundToItsBytes
    <3> QED
      BY <2>1, <2>2, <3>1, <3>3
  <2> QED
    BY <2>4, <2>5 DEF RunsOK
<1>8. ASSUME NEW s \in Legacy, DeleteStaging(s) PROVE RunsOK' /\ BoundToItsBytes'
  <2>1. op' = op /\ upload' = upload /\ rowLock' = rowLock /\ rowLock[s] = NoOne /\ swept' = swept \cup {s}
        /\ objects' = objects \ {<<upload[s].where, s, "staging">>}
    BY <1>8 DEF DeleteStaging
  <2>2. ASSUME NEW q \in Operators PROVE VerifyOK(q)' /\ DoneOK(q)'
    <3>1. op[q].at = "verify" => op[q].ses \in Legacy /\ op[q].ses # s
      BY <2>1, AdoptionAssumption DEF RunsOK, VerifyOK
    <3> QED
      BY <2>1, <3>1, OthersStep DEF RunsOK
  <2>3. BoundToItsBytes'
    BY <2>1 DEF BoundToItsBytes
  <2> QED
    BY <2>2, <2>3 DEF RunsOK
<1>9. ASSUME NEW c \in Storages, NEW s \in Legacy, NEW x \in StoredNames, CopyObject(c, s, x)
      PROVE  RunsOK' /\ BoundToItsBytes'
  <2>1. op' = op /\ upload' = upload /\ rowLock' = rowLock /\ objects \subseteq objects' /\ swept' = swept
    BY <1>9 DEF CopyObject
  <2>2. \A q \in Operators : VerifyOK(q)' /\ DoneOK(q)'
    BY <2>1, OthersStep DEF RunsOK
  <2>3. BoundToItsBytes'
    BY <2>1 DEF BoundToItsBytes
  <2> QED
    BY <2>2, <2>3 DEF RunsOK
<1>10. CASE UNCHANGED adoptionVars
  <2>1. \A q \in Operators : VerifyOK(q)' /\ DoneOK(q)'
    BY <1>10, OthersStep DEF adoptionVars, RunsOK
  <2>2. BoundToItsBytes'
    BY <1>10 DEF adoptionVars, BoundToItsBytes
  <2> QED
    BY <2>1, <2>2 DEF RunsOK
<1> QED
  BY <1>1, <1>2, <1>3, <1>4, <1>5, <1>6, <1>7, <1>8, <1>9, <1>10 DEF AdoptionNext, OperatorStep

\* Adoption binds a session once, to a storage that has its bytes, and reports truly,
\* for any number of sessions, storages, operators and failures.
THEOREM AdoptionStaysSound == AdoptionSpec => []AdoptionIsSound
<1>1. AdoptionInit => AdoptionInv
  BY InitAdoptionInv
<1>2. AdoptionInv /\ [AdoptionNext]_adoptionVars => AdoptionInv'
  BY AdoptionTypeStep, AdoptionStep DEF AdoptionInv
<1>3. AdoptionInv => AdoptionIsSound
  BY DEF AdoptionInv, AdoptionIsSound, RunsOK, DoneOK, ReportIsTrue
<1> QED
  BY <1>1, <1>2, <1>3, PTL DEF AdoptionSpec
=============================================================================
