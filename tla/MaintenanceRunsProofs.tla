------------------------ MODULE MaintenanceRunsProofs ------------------------
(***************************************************************************)
(* Type correctness of maintenance runs, and what makes their ledger and   *)
(* their delivery trustworthy for any number of requests, horses, attempts *)
(* and faults: an ended run is not reopened under a lock, a completed run  *)
(* was completed by its latest attempt, and while Redis keeps its data one *)
(* horse at a time has the job.                                            *)
(***************************************************************************)
EXTENDS MaintenanceRuns, TLAPS

RowType == [status : Statuses, attempt : 0..MaxAttempts, max : 1..MaxAttempts, fresh : BOOLEAN]
JobType == [status : JobStatuses, at : SUBSET Places, results : BOOLEAN,
            executions : SUBSET Horses, exact : BOOLEAN, retries : 0..MaxAttempts]
ProcType == [pc : Labels, seen : Statuses, create : BOOLEAN, again : BOOLEAN,
             status : JobStatuses, exact : BOOLEAN, result : Results]
HorseLabels == {"off", "idle", "got", "perform", "work", "finish", "success", "failure"}
HorseType == [pc : HorseLabels, attempt : 0..MaxAttempts, retries : 0..MaxAttempts,
              exact : BOOLEAN, bad : BOOLEAN]

\* TypeOK, one variable at a time.
LEMMA Typed ==
    TypeOK <=> /\ row \in RowType
               /\ rowLock \in Procs \cup {None}
               /\ job \in JobType
               /\ queueLock \in Procs \cup {None}
               /\ proc \in [Procs -> ProcType]
               /\ horse \in [Horses -> HorseType]
               /\ clean \subseteq 0..MaxAttempts
               /\ lost \in BOOLEAN /\ faults \in 0..MaxFaults
BY DEF TypeOK, RowType, JobType, ProcType, HorseType, HorseLabels

(* What the shared operators do to the types *)

\* A status is set.
LEMMA StatusTyped ==
    ASSUME row \in RowType, NEW s \in Statuses, SetStatus(s)
    PROVE  row' \in RowType
BY DEF RowType, SetStatus

\* A horse moves.
LEMMA GotoTyped ==
    ASSUME horse \in [Horses -> HorseType], NEW h \in Horses, NEW label \in HorseLabels,
           Goto(h, label)
    PROVE  horse' \in [Horses -> HorseType]
BY DEF Goto, HorseType

\* A fresh process, at any place,
LEMMA IdleProcTyped == \A label \in Labels : [IdleProc EXCEPT !.pc = label] \in ProcType
BY DEF IdleProc, ProcType, Labels, Statuses, JobStatuses, Results

\* a fresh horse,
LEMMA IdleHorseTyped ==
    /\ IdleHorse \in HorseType
    /\ \A label \in HorseLabels : [IdleHorse EXCEPT !.pc = label] \in HorseType
<1>1. 0 \in 0..MaxAttempts
  BY RunsAssumption
<1>2. IdleHorse \in HorseType
  BY <1>1 DEF IdleHorse, HorseType, HorseLabels
<1> QED BY <1>2 DEF HorseType

\* no job
LEMMA NoJobTyped == NoJob \in JobType
BY RunsAssumption DEF NoJob, JobType, JobStatuses

\* and the job that an enqueue call puts have their types.
LEMMA NewJobTyped == ASSUME row \in RowType, job \in JobType PROVE NewJob \in JobType
<1>1. row.max - 1 \in 0..MaxAttempts
  BY RunsAssumption DEF RowType
<1>2. job.at \cup {"queue"} \in SUBSET Places
  BY DEF JobType, Places
<1> QED BY <1>1, <1>2 DEF NewJob, JobType, JobStatuses

\* The enqueue call ends.
LEMMA ReturnTyped ==
    ASSUME proc \in [Procs -> ProcType], queueLock \in Procs \cup {None},
           NEW p \in Procs, NEW result \in Results, Return(p, result)
    PROVE  proc' \in [Procs -> ProcType] /\ queueLock' \in Procs \cup {None}
<1>1. [IdleProc EXCEPT !.pc = "write", !.seen = proc[p].seen, !.result = result] \in ProcType
  BY DEF IdleProc, ProcType, Labels, CallLabels, Statuses, JobStatuses, Results
<1> QED BY <1>1 DEF Return

\* The enqueue call goes on.
LEMMA ContinueTyped ==
    ASSUME proc \in [Procs -> ProcType], queueLock \in Procs \cup {None},
           NEW p \in Procs, NEW label \in Labels, Continue(p, label)
    PROVE  proc' \in [Procs -> ProcType] /\ queueLock' \in Procs \cup {None}
BY DEF Continue, ProcType

\* Nothing of the job is left.
LEMMA AbsentTyped ==
    ASSUME proc \in [Procs -> ProcType], queueLock \in Procs \cup {None},
           NEW p \in Procs, Absent(p)
    PROVE  proc' \in [Procs -> ProcType] /\ queueLock' \in Procs \cup {None}
<1>1. "put" \in Labels /\ "unavailable" \in Results /\ "missing" \in Results
  BY DEF Labels, CallLabels, QueueLabels, Results
<1> QED BY <1>1, ReturnTyped, ContinueTyped DEF Absent

\* The job was found, or not.
LEMMA JudgeTyped ==
    ASSUME proc \in [Procs -> ProcType], queueLock \in Procs \cup {None},
           NEW p \in Procs, NEW exact, NEW place, Judge(p, exact, place)
    PROVE  proc' \in [Procs -> ProcType] /\ queueLock' \in Procs \cup {None}
<1>1. "quarantine" \in Labels /\ {"started", "waiting", "poisoned_active"} \subseteq Results
  BY DEF Labels, CallLabels, QueueLabels, Results, Conflicts
<1>2. CASE exact /\ place # "nowhere"
  BY <1>1, <1>2, ReturnTyped DEF Judge
<1>3. CASE ~(exact /\ place # "nowhere") /\ place = "started"
  BY <1>1, <1>3, ReturnTyped DEF Judge
<1>4. CASE ~(exact /\ place # "nowhere") /\ place # "started"
  BY <1>1, <1>4, ContinueTyped DEF Judge
<1> QED BY <1>2, <1>3, <1>4

\* The ledger row, the RQ job and every process keep their types, and no run gets more
\* attempts than max_attempts can be.
THEOREM TypeCorrect == Spec => []TypeOK
<1>1. Init => TypeOK
  <2> SUFFICES ASSUME Init PROVE TypeOK
    OBVIOUS
  <2>1. row \in RowType
    BY RunsAssumption DEF Init, RowType, Statuses
  <2>2. proc \in [Procs -> ProcType]
    <3>1. \A label \in {"idle", "done"} : [IdleProc EXCEPT !.pc = label] \in ProcType
      BY IdleProcTyped DEF Labels
    <3> QED BY <3>1 DEF Init
  <2>3. horse \in [Horses -> HorseType]
    <3>1. \A label \in {"off", "idle"} : [IdleHorse EXCEPT !.pc = label] \in HorseType
      BY IdleHorseTyped DEF HorseLabels
    <3> QED BY <3>1 DEF Init
  <2>4. job \in JobType
    BY NoJobTyped DEF Init
  <2> QED BY <2>1, <2>2, <2>3, <2>4, Typed DEF Init
<1>2. TypeOK /\ [Next]_vars => TypeOK'
  <2> SUFFICES ASSUME TypeOK, [Next]_vars PROVE TypeOK'
    OBVIOUS
  <2> DEFINE Rest == clean \subseteq 0..MaxAttempts /\ lost \in BOOLEAN /\ faults \in 0..MaxFaults
  <2>t. /\ row \in RowType /\ rowLock \in Procs \cup {None}
        /\ job \in JobType /\ queueLock \in Procs \cup {None}
        /\ proc \in [Procs -> ProcType] /\ horse \in [Horses -> HorseType]
        /\ Rest
    BY Typed
  <2>q. ASSUME /\ row' \in RowType /\ rowLock' \in Procs \cup {None}
               /\ job' \in JobType /\ queueLock' \in Procs \cup {None}
               /\ proc' \in [Procs -> ProcType] /\ horse' \in [Horses -> HorseType]
               /\ Rest'
        PROVE TypeOK'
    BY <2>q DEF TypeOK, RowType, JobType, ProcType, HorseType, HorseLabels
  <2>l. /\ {"idle", "done", "insert", "reread", "exhausted", "lock", "fetch", "place",
             "intermediate", "write"} \subseteq Labels
        /\ Ended \subseteq Statuses
        /\ {"queued", "running", "retrying", "enqueue_failed"} \subseteq Statuses
    BY DEF Labels, CallLabels, QueueLabels, Ended, Statuses
  <2>f. Fault => faults' \in 0..MaxFaults
    BY <2>t, RunsAssumption DEF Fault
  <2>1. ASSUME NEW r \in Requests, RequestStep(r) PROVE TypeOK'
    <3>1. r \in Procs
      BY DEF Procs
    <3>2. CASE Lookup(r)
      <4>1. proc' \in [Procs -> ProcType]
        BY <2>t, <2>l, <3>1, <3>2 DEF Lookup, ProcType, RowType
      <4>2. row' \in RowType
        BY <2>t, <2>l, <3>2, StatusTyped DEF Lookup, Ended, rowVars
      <4> QED BY <2>t, <2>q, <3>1, <3>2, <4>1, <4>2 DEF Lookup, rowVars, queueVars, rest
    <3>3. CASE Insert(r)
      <4>1. proc' \in [Procs -> ProcType]
        BY <2>t, <2>l, <3>1, <3>3 DEF Insert, ProcType
      <4>2. row' \in RowType
        BY <2>t, <2>l, <3>3, StatusTyped DEF Insert
      <4> QED BY <2>t, <2>q, <3>3, <4>1, <4>2 DEF Insert, queueVars, rest
    <3>4. CASE Reread(r)
      <4>1. proc' \in [Procs -> ProcType]
        <5> DEFINE label == IF row.status \in Ended \cup {"running"} THEN "done"
                            ELSE IF Exhausted THEN "exhausted" ELSE "lock"
        <5>1. label \in Labels /\ row.status \in Statuses
          BY <2>t, <2>l DEF RowType
        <5>2. proc' = [proc EXCEPT ![r].pc = label, ![r].seen = row.status]
          BY <3>4 DEF Reread
        <5> HIDE DEF label
        <5> QED BY ZenonT(40), <2>t, <3>1, <5>1, <5>2 DEF ProcType
      <4> QED BY <2>t, <2>q, <3>4, <4>1 DEF Reread, rowVars, queueVars, rest
    <3>5. CASE CloseExhausted(r)
      <4>1. proc' \in [Procs -> ProcType]
        BY <2>t, <2>l, <3>1, <3>5 DEF CloseExhausted, ProcType
      <4>2. row' \in RowType
        BY <2>t, <2>l, <3>5, StatusTyped DEF CloseExhausted, Ended
      <4> QED BY <2>t, <2>q, <3>5, <4>1, <4>2 DEF CloseExhausted, queueVars, rest
    <3>6. CASE Record(r)
      <4>1. proc' \in [Procs -> ProcType]
        BY <2>t, <2>l, <3>1, <3>6, IdleProcTyped DEF Record
      <4>2. RequestStatus(r) \in Statuses
        BY <2>t, <2>l DEF RequestStatus, Assigned, RowType, Ended
      <4>3. row' \in RowType
        BY <2>t, <3>6, <4>2, StatusTyped DEF Record
      <4> QED BY <2>t, <2>q, <3>6, <4>1, <4>3 DEF Record, queueVars, rest
    <3> QED BY <2>1, <3>2, <3>3, <3>4, <3>5, <3>6 DEF RequestStep
  <2>2. ASSUME ReconcilerStep PROVE TypeOK'
    <3>1. Reconciler \in Procs
      BY DEF Procs
    <3>2. CASE Pick
      <4>1. proc' \in [Procs -> ProcType]
        BY ZenonT(40), <2>t, <2>l, <3>1, <3>2 DEF Pick, ProcType, Exhausted
      <4> QED BY <2>t, <2>q, <3>1, <3>2, <4>1 DEF Pick, queueVars, rest
    <3>3. CASE Reconcile
      <4>1. IdleProc \in ProcType
        BY DEF IdleProc, ProcType, Labels, Statuses, JobStatuses, Results
      <4>2. ReconciledStatus(proc[Reconciler].result) \in Statuses
        BY <2>t, <2>l DEF ReconciledStatus, RowType, Ended
      <4>3. row' \in RowType
        BY <2>t, <3>3, <4>2, StatusTyped DEF Reconcile
      <4> QED BY <2>t, <2>q, <3>3, <4>1, <4>3 DEF Reconcile, queueVars, rest
    <3> QED BY <2>2, <3>2, <3>3 DEF ReconcilerStep
  <2>3. ASSUME NEW p \in Procs, QueueStep(p) PROVE TypeOK'
    <3>1. CASE AcquireQueueLock(p)
      <4>1. proc' \in [Procs -> ProcType]
        BY <2>t, <2>l, <3>1 DEF AcquireQueueLock, ProcType
      <4> QED BY <2>t, <2>q, <3>1, <4>1 DEF AcquireQueueLock, rowVars, rest
    <3>2. CASE Fetch(p)
      <4>1. proc' \in [Procs -> ProcType] /\ queueLock' \in Procs \cup {None}
        <5>1. CASE job.status = "none" /\ Absent(p)
          BY <2>t, <5>1, AbsentTyped
        <5>2. CASE job.status = "started" /\ Judge(p, job.exact, "started")
          BY <2>t, <5>2, JudgeTyped
        <5>3. CASE job.status \in {"finished", "failed"} /\ Judge(p, job.exact, "nowhere")
          BY <2>t, <5>3, JudgeTyped
        <5>4. CASE /\ job.status \in {"queued", "scheduled"}
                   /\ proc' = [proc EXCEPT ![p].pc = IF job.status = "queued" THEN "intermediate"
                                                     ELSE "place",
                                           ![p].status = job.status,
                                           ![p].exact = job.exact]
                   /\ UNCHANGED queueLock
          <6> DEFINE label == IF job.status = "queued" THEN "intermediate" ELSE "place"
          <6>1. label \in Labels /\ job.status \in JobStatuses /\ job.exact \in BOOLEAN
            BY <2>t, <2>l DEF JobType
          <6>2. proc' = [proc EXCEPT ![p] = [proc[p] EXCEPT !.pc = label, !.status = job.status,
                                                           !.exact = job.exact]]
            BY <2>t, <5>4 DEF ProcType
          <6> HIDE DEF label
          <6>3. [proc[p] EXCEPT !.pc = label, !.status = job.status, !.exact = job.exact] \in ProcType
            BY <2>t, <6>1 DEF ProcType
          <6>4. proc' \in [Procs -> ProcType]
            BY <2>t, <6>2, <6>3
          <6> QED BY <2>t, <5>4, <6>4
        <5> QED BY <3>2, <5>1, <5>2, <5>3, <5>4 DEF Fetch
      <4> QED BY <2>t, <2>q, <3>2, <4>1 DEF Fetch, rowVars, rest
    <3>3. CASE LookIntermediate(p)
      <4>1. proc' \in [Procs -> ProcType] /\ queueLock' \in Procs \cup {None}
        BY <2>t, <2>l, <3>3, JudgeTyped, ContinueTyped DEF LookIntermediate
      <4> QED BY <2>t, <2>q, <3>3, <4>1 DEF LookIntermediate, rowVars, rest
    <3>4. CASE LookPlace(p)
      <4>1. proc' \in [Procs -> ProcType] /\ queueLock' \in Procs \cup {None}
        BY <2>t, <3>4, JudgeTyped DEF LookPlace
      <4> QED BY <2>t, <2>q, <3>4, <4>1 DEF LookPlace, rowVars, rest
    <3>5. CASE Quarantine(p)
      <4>1. Conflicts \subseteq Results
        BY DEF Results
      <4>2. proc' \in [Procs -> ProcType] /\ queueLock' \in Procs \cup {None}
        BY <2>t, <3>5, <4>1, ReturnTyped, AbsentTyped DEF Quarantine, Conflicts
      <4>3. job' \in JobType
        BY <2>t, <3>5, NoJobTyped DEF Quarantine
      <4> QED BY <2>t, <2>q, <3>5, <4>2, <4>3 DEF Quarantine, rowVars, rest
    <3>6. CASE Put(p)
      <4>1. "created" \in Results
        BY DEF Results
      <4>2. proc' \in [Procs -> ProcType] /\ queueLock' \in Procs \cup {None}
        BY <2>t, <3>6, <4>1, ReturnTyped DEF Put
      <4>3. job' \in JobType
        BY <2>t, <3>6, NewJobTyped DEF Put
      <4> QED BY <2>t, <2>q, <3>6, <4>2, <4>3 DEF Put, rowVars, rest
    <3> QED BY <2>3, <3>1, <3>2, <3>3, <3>4, <3>5, <3>6 DEF QueueStep
  <2>4. ASSUME NEW p \in Procs, PutFails(p) \/ CallFails(p) \/ Crash(p) PROVE TypeOK'
    <3>1. CASE PutFails(p)
      <4>1. proc' \in [Procs -> ProcType]
        BY ZenonT(40), <2>t, <2>l, <3>1 DEF PutFails, ProcType
      <4>2. job' \in JobType
        BY <2>t, <3>1, NewJobTyped DEF PutFails
      <4> QED BY <2>t, <2>q, <2>f, <3>1, <4>1, <4>2 DEF PutFails, rowVars, rest
    <3>2. CASE CallFails(p)
      <4>1. "unavailable" \in Results
        BY DEF Results
      <4>2. proc' \in [Procs -> ProcType] /\ queueLock' \in Procs \cup {None}
        BY <2>t, <3>2, <4>1, ReturnTyped DEF CallFails
      <4>3. job' \in JobType
        BY <2>t, <3>2, NoJobTyped DEF CallFails
      <4> QED BY <2>t, <2>q, <2>f, <3>2, <4>2, <4>3 DEF CallFails, rowVars, rest
    <3>3. CASE Crash(p)
      <4>1. proc' \in [Procs -> ProcType]
        BY <2>t, <2>l, <3>3, IdleProcTyped DEF Crash
      <4> QED BY <2>t, <2>q, <2>f, <3>3, <4>1 DEF Crash, rest
    <3> QED BY <2>4, <3>1, <3>2, <3>3
  <2>5. ASSUME NEW h \in Horses, HorseStep(h) PROVE TypeOK'
    <3>l. {"idle", "got", "perform", "work", "finish", "success", "failure"} \subseteq HorseLabels
      BY DEF HorseLabels
    <3>j. {"queued", "started", "scheduled", "finished", "failed"} \subseteq JobStatuses
      BY DEF JobStatuses
    <3>1. CASE Dequeue(h)
      <4>1. [IdleHorse EXCEPT !.pc = "got", !.retries = job.retries, !.exact = job.exact] \in HorseType
        BY <2>t, <3>l, IdleHorseTyped DEF HorseType, JobType
      <4>2. job' \in JobType
        BY <2>t, <3>1 DEF Dequeue, JobType, Places
      <4> QED BY <2>t, <2>q, <3>1, <4>1, <4>2 DEF Dequeue, rowVars, rest
    <3>2. CASE Execute(h)
      <4>1. job' \in JobType
        <5>1. /\ job.at \ {"intermediate"} \in SUBSET Places
              /\ job.executions \cup {h} \in SUBSET Horses
              /\ (job.exact /\ job.status # "none") \in BOOLEAN
          BY <2>t DEF JobType
        <5> QED BY ZenonT(40), <2>t, <3>2, <3>j, <5>1 DEF Execute, JobType
      <4>2. horse' \in [Horses -> HorseType]
        BY <2>t, <3>2, <3>l, GotoTyped, IdleHorseTyped DEF Execute
      <4> QED BY <2>t, <2>q, <3>2, <4>1, <4>2 DEF Execute, rowVars, rest
    <3>3. CASE Start(h)
      <4>0. ~Exhausted => row.attempt + 1 \in 0..MaxAttempts
        BY <2>t, RunsAssumption DEF Exhausted, RowType
      <4>1. row' \in RowType
        <5>1. SetStatus("failed") => row' \in RowType
          BY <2>t, <2>l, StatusTyped DEF Ended
        <5>2. ~Exhausted /\ row' = [row EXCEPT !.status = "running", !.attempt = @ + 1, !.fresh = TRUE]
                 => row' \in RowType
          BY <2>t, <2>l, <4>0 DEF RowType
        <5> QED BY <2>t, <3>3, <5>1, <5>2 DEF Start
      <4>2. horse' \in [Horses -> HorseType]
        <5>1. \A label \in HorseLabels : Goto(h, label) => horse' \in [Horses -> HorseType]
          BY <2>t, GotoTyped
        <5>2. ~Exhausted /\ horse' = [horse EXCEPT ![h].pc = "work", ![h].attempt = row.attempt + 1]
                 => horse' \in [Horses -> HorseType]
          <6>1. ASSUME ~Exhausted,
                       horse' = [horse EXCEPT ![h].pc = "work", ![h].attempt = row.attempt + 1]
                PROVE  horse' \in [Horses -> HorseType]
            <7>1. [horse[h] EXCEPT !.pc = "work", !.attempt = row.attempt + 1] \in HorseType
              BY <2>t, <3>l, <4>0, <6>1 DEF HorseType
            <7>2. horse' = [horse EXCEPT ![h] = [horse[h] EXCEPT !.pc = "work",
                                                                !.attempt = row.attempt + 1]]
              BY <2>t, <6>1 DEF HorseType
            <7> QED BY <2>t, <7>1, <7>2
          <6> QED BY <6>1
        <5> QED BY <3>3, <3>l, <5>1, <5>2 DEF Start
      <4> QED BY <2>t, <2>q, <3>3, <4>1, <4>2 DEF Start, queueVars, rest
    <3>4. CASE LoseOwnership(h)
      BY <2>t, <2>q, <3>4, <3>l, GotoTyped DEF LoseOwnership, rowVars, queueVars, rest
    <3>5. CASE WorkEnds(h)
      <4>1. row' \in RowType
        BY <2>t, <3>5 DEF WorkEnds, RowType
      <4>2. horse' \in [Horses -> HorseType]
        <5>1. PICK bad \in BOOLEAN : horse' = [horse EXCEPT ![h].pc = "finish", ![h].bad = bad]
          BY <3>5 DEF WorkEnds
        <5>2. horse' = [horse EXCEPT ![h] = [horse[h] EXCEPT !.pc = "finish", !.bad = bad]]
          BY <2>t, <5>1 DEF HorseType
        <5>3. [horse[h] EXCEPT !.pc = "finish", !.bad = bad] \in HorseType
          BY <2>t, <3>l DEF HorseType
        <5> QED BY <2>t, <5>2, <5>3
      <4>3. clean' \subseteq 0..MaxAttempts
        <5>1. horse[h].attempt \in 0..MaxAttempts
          BY <2>t DEF HorseType
        <5> QED BY <2>t, <3>5, <5>1 DEF WorkEnds
      <4> QED BY <2>t, <2>q, <3>5, <4>1, <4>2, <4>3 DEF WorkEnds, queueVars
    <3>6. CASE Finish(h)
      <4>1. row' \in RowType
        BY <2>t, <2>l, <3>6, StatusTyped DEF Finish, Ended
      <4>2. horse' \in [Horses -> HorseType]
        BY <2>t, <3>6, <3>l, GotoTyped DEF Finish
      <4> QED BY <2>t, <2>q, <3>6, <4>1, <4>2 DEF Finish, queueVars, rest
    <3>7. CASE Succeed(h)
      <4>1. job' \in JobType
        BY <2>t, <3>7, <3>j DEF Succeed, JobType
      <4> QED BY <2>t, <2>q, <3>7, <4>1, IdleHorseTyped DEF Succeed, rowVars, rest
    <3>8. CASE Fail(h)
      <4>1. job' \in JobType
        <5>1. /\ job.at \cup {"scheduled"} \in SUBSET Places
              /\ job.executions \ {h} \in SUBSET Horses
              /\ (job.exact /\ job.status # "none") \in BOOLEAN
          BY <2>t DEF JobType, Places
        <5>2. horse[h].retries > 0 => horse[h].retries - 1 \in 0..MaxAttempts
          BY <2>t, RunsAssumption DEF HorseType
        <5> QED BY <2>t, <3>8, <3>j, <5>1, <5>2 DEF Fail, JobType
      <4> QED BY <2>t, <2>q, <3>8, <4>1, IdleHorseTyped DEF Fail, rowVars, rest
    <3> QED BY <2>5, <3>1, <3>2, <3>3, <3>4, <3>5, <3>6, <3>7, <3>8 DEF HorseStep
  <2>6. ASSUME NEW h \in Horses, Pulse(h) \/ HorseDies(h) \/ WorkerDies(h) PROVE TypeOK'
    <3>1. CASE Pulse(h)
      BY <2>t, <2>q, <3>1 DEF Pulse, RowType, queueVars, rest
    <3>2. CASE HorseDies(h)
      <4>1. horse' \in [Horses -> HorseType]
        BY <2>t, <3>2, IdleHorseTyped DEF HorseDies, HorseType, HorseLabels
      <4> QED BY <2>t, <2>q, <2>f, <3>2, <4>1 DEF HorseDies, rowVars, queueVars, rest
    <3>3. CASE WorkerDies(h)
      BY <2>t, <2>q, <2>f, <3>3, IdleHorseTyped DEF WorkerDies, rowVars, queueVars, rest
    <3> QED BY <2>6, <3>1, <3>2, <3>3
  <2>7. CASE Promote
    <3>1. job' \in JobType
      BY <2>t, <2>7 DEF Promote, JobType, JobStatuses, Places
    <3> QED BY <2>t, <2>q, <2>7, <3>1 DEF Promote, rowVars, rest
  <2>8. CASE HeartbeatLate
    BY <2>t, <2>q, <2>8 DEF HeartbeatLate, RowType, queueVars, rest
  <2>9. CASE RedisLost
    BY <2>t, <2>q, <2>f, <2>9, NoJobTyped DEF RedisLost, rowVars
  <2>10. CASE Reconfigure
    BY <2>t, <2>q, <2>f, <2>10 DEF Reconfigure, JobType, rowVars, rest
  <2>11. CASE UNCHANGED vars
    BY <2>t, <2>q, <2>11 DEF vars
  <2> QED BY <2>1, <2>2, <2>3, <2>4, <2>5, <2>6, <2>7, <2>8, <2>9, <2>10, <2>11 DEF Next
<1> QED BY <1>1, <1>2, PTL DEF Spec
-----------------------------------------------------------------------------
(* Who may write the row *)

\* The holder of the row lock is in an enqueue call about a run that exists and has not
\* ended, and the reconciler is in one only with the lock.
LockInv ==
    /\ rowLock # None =>
          /\ proc[rowLock].pc \in CallLabels
          /\ row.status \notin Ended \cup {"absent"}
    /\ proc[Reconciler].pc \in {"idle"} \cup CallLabels
    /\ proc[Reconciler].pc \in CallLabels => rowLock = Reconciler

\* A step of an enqueue call stays in the call and leaves the row, its lock, the horses
\* and the other processes alone.
LEMMA CallContinues ==
    ASSUME TypeOK, NEW p \in Procs, QueueStep(p) \/ PutFails(p) \/ CallFails(p)
    PROVE  /\ proc[p].pc \in CallLabels /\ proc'[p].pc \in CallLabels
           /\ \A q \in Procs \ {p} : proc'[q] = proc[q]
           /\ row' = row /\ rowLock' = rowLock
           /\ horse' = horse /\ clean' = clean
<1>t. proc \in [Procs -> ProcType]
  BY Typed
<1>l. CallLabels = {"lock", "fetch", "intermediate", "place", "quarantine", "put", "write"}
  BY DEF CallLabels, QueueLabels
<1>r. ASSUME NEW result, Return(p, result)
      PROVE  /\ proc'[p].pc \in CallLabels
             /\ \A q \in Procs \ {p} : proc'[q] = proc[q]
  BY <1>t, <1>l, <1>r DEF Return, IdleProc
<1>c. ASSUME NEW label \in CallLabels, Continue(p, label)
      PROVE  /\ proc'[p].pc \in CallLabels
             /\ \A q \in Procs \ {p} : proc'[q] = proc[q]
  BY <1>t, <1>c DEF Continue, ProcType
<1>a. ASSUME Absent(p)
      PROVE  /\ proc'[p].pc \in CallLabels
             /\ \A q \in Procs \ {p} : proc'[q] = proc[q]
  BY <1>a, <1>r, <1>c, <1>l DEF Absent
<1>j. ASSUME NEW exact, NEW place, Judge(p, exact, place)
      PROVE  /\ proc'[p].pc \in CallLabels
             /\ \A q \in Procs \ {p} : proc'[q] = proc[q]
  <2>1. CASE exact /\ place # "nowhere"
    BY <1>j, <1>r, <2>1 DEF Judge
  <2>2. CASE ~(exact /\ place # "nowhere") /\ place = "started"
    BY <1>j, <1>r, <2>2 DEF Judge
  <2>3. CASE ~(exact /\ place # "nowhere") /\ place # "started"
    BY <1>j, <1>c, <1>l, <2>3 DEF Judge
  <2> QED BY <2>1, <2>2, <2>3
<1>1. CASE AcquireQueueLock(p)
  BY <1>t, <1>l, <1>1 DEF AcquireQueueLock, ProcType, rowVars, rest
<1>2. CASE Fetch(p)
  <2>1. CASE Absent(p)
    BY <1>2, <1>l, <1>a, <2>1 DEF Fetch, rowVars, rest
  <2>2. CASE Judge(p, job.exact, "started") \/ Judge(p, job.exact, "nowhere")
    BY <1>2, <1>l, <1>j, <2>2 DEF Fetch, rowVars, rest
  <2>3. CASE proc' = [proc EXCEPT ![p].pc = IF job.status = "queued" THEN "intermediate"
                                             ELSE "place",
                                   ![p].status = job.status,
                                   ![p].exact = job.exact]
    BY <1>2, <1>t, <1>l, <2>3 DEF Fetch, ProcType, rowVars, rest
  <2> QED BY <1>2, <2>1, <2>2, <2>3 DEF Fetch
<1>3. CASE LookIntermediate(p)
  BY <1>3, <1>l, <1>j, <1>c DEF LookIntermediate, rowVars, rest
<1>4. CASE LookPlace(p)
  BY <1>4, <1>l, <1>j DEF LookPlace, rowVars, rest
<1>5. CASE Quarantine(p)
  BY <1>5, <1>l, <1>r, <1>a DEF Quarantine, rowVars, rest
<1>6. CASE Put(p)
  BY <1>6, <1>l, <1>r DEF Put, rowVars, rest
<1>7. CASE PutFails(p)
  BY <1>7, <1>t, <1>l DEF PutFails, ProcType, rowVars, rest
<1>8. CASE CallFails(p)
  BY <1>8, <1>l, <1>r DEF CallFails, rowVars, rest
<1> QED BY <1>1, <1>2, <1>3, <1>4, <1>5, <1>6, <1>7, <1>8 DEF QueueStep

\* LockInv holds in every reachable state: the row is locked from the read of
\* _reconcile_locked_run or of a repeated request to its write.
LEMMA LockInvariant == Spec => []LockInv
<1>1. Init => LockInv
  <2> SUFFICES ASSUME Init PROVE LockInv
    OBVIOUS
  <2>1. proc[Reconciler].pc = "idle"
    BY RunsAssumption DEF Init, Procs, IdleProc
  <2> QED BY <2>1 DEF Init, LockInv, CallLabels, QueueLabels
<1>2. TypeOK /\ LockInv /\ [Next]_vars => LockInv'
  <2> SUFFICES ASSUME TypeOK, LockInv, [Next]_vars PROVE LockInv'
    OBVIOUS
  <2>t. proc \in [Procs -> ProcType] /\ rowLock \in Procs \cup {None} /\ row \in RowType
    BY Typed
  <2>l. CallLabels = {"lock", "fetch", "intermediate", "place", "quarantine", "put", "write"}
    BY DEF CallLabels, QueueLabels
  <2>n. Reconciler \in Procs /\ None \notin Procs /\ Reconciler \notin Requests
        /\ Requests \subseteq Procs
    BY RunsAssumption DEF Procs
  <2>1. ASSUME NEW r \in Requests, RequestStep(r) PROVE LockInv'
    <3>0. r \in Procs /\ r # Reconciler
      BY <2>n
    <3>1. CASE Lookup(r)
      <4>1. /\ proc'[Reconciler] = proc[Reconciler]
            /\ \A q \in Procs \ {r} : proc'[q] = proc[q]
        BY <2>t, <2>n, <3>0, <3>1 DEF Lookup
      <4>2. CASE UNCHANGED rowVars
        <5>1. rowLock # r
          BY <2>l, <2>n, <3>0, <3>1 DEF Lookup, LockInv
        <5> QED BY <2>t, <4>1, <4>2, <5>1 DEF LockInv, rowVars
      <4>3. CASE rowLock = None /\ UNCHANGED rowLock
        BY <2>n, <4>1, <4>3 DEF LockInv
      <4>4. CASE /\ row.status \in {"queued", "retrying", "enqueue_failed"} /\ rowLock = None
                 /\ rowLock' = r
                 /\ proc' = [proc EXCEPT ![r].pc = "lock", ![r].seen = row.status]
                 /\ UNCHANGED row
        <5>1. proc'[r].pc = "lock"
          BY <2>t, <3>0, <4>4 DEF ProcType
        <5>2. proc[Reconciler].pc \notin CallLabels
          BY <2>n, <4>4 DEF LockInv
        <5> QED BY <2>l, <2>n, <4>1, <4>4, <5>1, <5>2 DEF LockInv, Ended
      <4> QED BY <3>1, <4>2, <4>3, <4>4 DEF Lookup
    <3>2. CASE Insert(r) \/ Reread(r)
      <4>1. rowLock' = rowLock /\ rowLock # r
        BY <2>l, <2>n, <3>0, <3>2 DEF Insert, Reread, LockInv, rowVars
      <4>2. \A q \in Procs \ {r} : proc'[q] = proc[q]
        BY <2>t, <3>0, <3>2 DEF Insert, Reread
      <4>3. rowLock # None => row' = row
        BY <3>2 DEF Insert, Reread, LockInv, rowVars
      <4> QED BY <2>t, <2>n, <3>0, <4>1, <4>2, <4>3 DEF LockInv
    <3>3. CASE CloseExhausted(r)
      <4>1. rowLock = None
        BY <2>l, <2>n, <3>0, <3>3 DEF CloseExhausted, Unlocked, LockInv
      <4>2. \A q \in Procs \ {r} : proc'[q] = proc[q]
        BY <2>t, <3>0, <3>3 DEF CloseExhausted
      <4> QED BY <2>n, <3>0, <3>3, <4>1, <4>2 DEF CloseExhausted, LockInv
    <3>4. CASE Record(r)
      <4>1. \A q \in Procs \ {r} : proc'[q] = proc[q]
        BY <2>t, <3>0, <3>4 DEF Record
      <4>2. rowLock # Reconciler /\ rowLock' = None
        BY <2>n, <3>0, <3>4 DEF Record, Unlocked
      <4> QED BY <2>n, <3>0, <4>1, <4>2 DEF LockInv
    <3> QED BY <2>1, <3>1, <3>2, <3>3, <3>4 DEF RequestStep
  <2>2. CASE Pick
    <3>1. proc'[Reconciler].pc = "lock"
      BY <2>t, <2>n, <2>2 DEF Pick, ProcType
    <3>2. row.status \notin Ended \cup {"absent"}
      BY <2>2 DEF Pick, Candidate, Ended
    <3> QED BY <2>2, <2>l, <3>1, <3>2 DEF Pick, LockInv
  <2>3. CASE Reconcile
    <3>1. proc'[Reconciler].pc = "idle" /\ rowLock' = None
      BY <2>t, <2>n, <2>3 DEF Reconcile, IdleProc
    <3> QED BY <2>l, <3>1 DEF LockInv
  <2>4. ASSUME NEW p \in Procs, QueueStep(p) \/ PutFails(p) \/ CallFails(p) PROVE LockInv'
    <3>1. /\ proc[p].pc \in CallLabels /\ proc'[p].pc \in CallLabels
          /\ \A q \in Procs \ {p} : proc'[q] = proc[q]
          /\ row' = row /\ rowLock' = rowLock
      BY <2>4, CallContinues
    <3> QED BY <2>t, <2>n, <3>1 DEF LockInv
  <2>5. ASSUME NEW p \in Procs, Crash(p) PROVE LockInv'
    <3>1. \A q \in Procs \ {p} : proc'[q] = proc[q]
      BY <2>t, <2>5 DEF Crash
    <3>2. row' = row /\ rowLock' = IF rowLock = p THEN None ELSE rowLock
      BY <2>5 DEF Crash
    <3>3. p = Reconciler => proc'[p].pc = "idle"
      BY <2>t, <2>5 DEF Crash, IdleProc
    <3>4. CASE p = Reconciler
      BY <2>t, <2>l, <2>n, <3>1, <3>2, <3>3, <3>4 DEF LockInv
    <3>5. CASE p # Reconciler
      BY <2>t, <2>n, <3>1, <3>2, <3>5 DEF LockInv
    <3> QED BY <3>4, <3>5
  <2>6. ASSUME NEW h \in Horses, HorseStep(h) \/ Pulse(h) \/ HorseDies(h) \/ WorkerDies(h)
        PROVE LockInv'
    <3>1. proc' = proc /\ rowLock' = rowLock
      BY <2>6 DEF HorseStep, Dequeue, Execute, Start, LoseOwnership, WorkEnds, Finish, Succeed,
                  Fail, Pulse, HorseDies, WorkerDies, rowVars
    <3>2. row' = row \/ rowLock = None
      BY <2>6 DEF HorseStep, Dequeue, Execute, Start, LoseOwnership, WorkEnds, Finish, Succeed,
                  Fail, Pulse, HorseDies, WorkerDies, rowVars
    <3> QED BY <3>1, <3>2 DEF LockInv
  <2>7. CASE Promote \/ HeartbeatLate \/ RedisLost \/ Reconfigure
    <3>1. proc' = proc /\ rowLock' = rowLock
      BY <2>7 DEF Promote, HeartbeatLate, RedisLost, Reconfigure, rowVars
    <3>2. row'.status = row.status
      BY <2>7, <2>t DEF Promote, HeartbeatLate, RedisLost, Reconfigure, rowVars, RowType
    <3> QED BY <3>1, <3>2 DEF LockInv
  <2>8. CASE UNCHANGED vars
    BY <2>8 DEF vars, LockInv
  <2> QED BY <2>1, <2>2, <2>3, <2>4, <2>5, <2>6, <2>7, <2>8 DEF Next, ReconcilerStep
<1> QED BY <1>1, <1>2, TypeCorrect, PTL DEF Spec

\* A run that _finish_run, the reconciler or a request has ended leaves that status only
\* in the write of a request that read the row without its lock, whatever the reconciler,
\* attempts that lost their run and repeated requests do meanwhile.
THEOREM EndsAreFinal == Spec => EndIsFinal
<1> DEFINE Overwrites == \E r \in Requests : Blind(r) /\ (Record(r) \/ CloseExhausted(r))
<1> DEFINE Keeps == row.status \in Ended /\ row'.status # row.status => Overwrites
<1>1. TypeOK /\ LockInv /\ [Next]_vars => [Keeps]_vars
  <2> SUFFICES ASSUME TypeOK, LockInv, Next, row.status \in Ended, ~Overwrites
               PROVE  row'.status = row.status
    BY DEF Keeps
  <2>t. row \in RowType
    BY Typed
  <2>n. Reconciler \in Procs /\ None \notin Procs /\ rowLock = None
    BY Typed, RunsAssumption DEF Procs, LockInv
  <2>1. ASSUME NEW r \in Requests, RequestStep(r) PROVE row'.status = row.status
    <3>0. r # None
      BY <2>n DEF Procs
    <3>1. CloseExhausted(r) \/ Record(r) => Blind(r)
      BY <2>n, <3>0 DEF Blind, CloseExhausted, Record, CallLabels
    <3>2. ~CloseExhausted(r) /\ ~Record(r)
      BY <3>1
    <3>3. CASE Lookup(r)
      BY <3>3 DEF Lookup, rowVars, Ended
    <3>4. CASE Insert(r)
      BY <3>4 DEF Insert, Ended
    <3>5. CASE Reread(r)
      BY <3>5 DEF Reread, rowVars
    <3> QED BY <2>1, <3>2, <3>3, <3>4, <3>5 DEF RequestStep
  <2>2. ~ReconcilerStep
    <3>1. ~Pick
      BY DEF Pick, Candidate, Ended
    <3>2. ~Reconcile
      BY <2>n DEF Reconcile, LockInv, CallLabels
    <3> QED BY <3>1, <3>2 DEF ReconcilerStep
  <2>3. ASSUME NEW p \in Procs, QueueStep(p) \/ PutFails(p) \/ CallFails(p)
        PROVE row'.status = row.status
    BY <2>3, CallContinues
  <2>4. ASSUME NEW p \in Procs, Crash(p) PROVE row'.status = row.status
    BY <2>4 DEF Crash
  <2>5. ASSUME NEW h \in Horses, HorseStep(h) \/ Pulse(h) \/ HorseDies(h) \/ WorkerDies(h)
        PROVE row'.status = row.status
    <3>1. CASE Start(h)
      BY <3>1 DEF Start, Ended
    <3>2. CASE Finish(h)
      BY <3>2 DEF Finish, Owns, Ended
    <3>3. CASE WorkEnds(h) \/ Pulse(h)
      BY <2>t, <3>3 DEF WorkEnds, Pulse, RowType
    <3> QED BY <2>5, <3>1, <3>2, <3>3 DEF HorseStep, Dequeue, Execute, LoseOwnership, Succeed,
                                          Fail, HorseDies, WorkerDies, rowVars
  <2>6. CASE Promote \/ HeartbeatLate \/ RedisLost \/ Reconfigure
    BY <2>t, <2>6 DEF Promote, HeartbeatLate, RedisLost, Reconfigure, rowVars, RowType
  <2> QED BY <2>1, <2>2, <2>3, <2>4, <2>5, <2>6 DEF Next
<1> QED BY <1>1, TypeCorrect, LockInvariant, PTL DEF Spec, EndIsFinal
-----------------------------------------------------------------------------
(* Who completes a run *)

\* An attempt about to report success has worked without a failure.
CleanInv ==
    /\ CompletedByItsAttempt
    /\ \A h \in Horses : horse[h].pc = "finish" /\ ~horse[h].bad => horse[h].attempt \in clean

\* Whatever is lost, late or delivered twice, a run is completed only by its latest
\* attempt after work without a failure: _finish_run compares status and attempt.
THEOREM CompletedByLatest == Spec => []CompletedByItsAttempt
<1>1. Init => CleanInv
  <2> SUFFICES ASSUME Init PROVE CleanInv
    OBVIOUS
  <2>1. \A h \in Horses : horse[h].pc \in {"off", "idle"}
    BY DEF Init, IdleHorse
  <2>2. row.status = "absent"
    BY DEF Init
  <2> QED BY <2>1, <2>2 DEF CleanInv, CompletedByItsAttempt
<1>2. TypeOK /\ CleanInv /\ [Next]_vars => CleanInv'
  <2> SUFFICES ASSUME TypeOK, CleanInv, [Next]_vars PROVE CleanInv'
    OBVIOUS
  <2>t. row \in RowType /\ horse \in [Horses -> HorseType]
    BY Typed
  <2>s. ASSUME NEW s, SetStatus(s), s = "completed" => row.status = "completed"
               \/ row.attempt \in clean, clean' = clean
        PROVE  CompletedByItsAttempt'
    <3>1. row'.status = s /\ row'.attempt = row.attempt
      BY <2>t, <2>s DEF SetStatus, RowType
    <3> QED BY <2>s, <3>1 DEF CleanInv, CompletedByItsAttempt
  <2>1. ASSUME NEW r \in Requests, RequestStep(r) PROVE CleanInv'
    <3>1. horse' = horse /\ clean' = clean
      BY <2>1 DEF RequestStep, Lookup, Insert, Reread, CloseExhausted, Record, rest
    <3>2. CompletedByItsAttempt'
      <4>1. CASE Lookup(r)
        BY <2>s, <3>1, <4>1 DEF Lookup, rowVars, CleanInv, CompletedByItsAttempt
      <4>2. CASE Insert(r) \/ Reread(r) \/ CloseExhausted(r)
        BY <2>s, <3>1, <4>2 DEF Insert, Reread, CloseExhausted, rowVars, CleanInv,
                                CompletedByItsAttempt
      <4>3. CASE Record(r)
        <5>1. RequestStatus(r) = "completed" => row.status = "completed"
          BY DEF RequestStatus, Assigned
        <5> QED BY <2>s, <3>1, <4>3, <5>1 DEF Record
      <4> QED BY <2>1, <4>1, <4>2, <4>3 DEF RequestStep
    <3> QED BY <3>1, <3>2 DEF CleanInv
  <2>2. CASE Pick
    BY <2>2 DEF Pick, CleanInv, CompletedByItsAttempt, rest
  <2>3. CASE Reconcile
    <3>1. ReconciledStatus(proc[Reconciler].result) = "completed" => row.status = "completed"
      BY DEF ReconciledStatus
    <3>2. horse' = horse /\ clean' = clean
      BY <2>3 DEF Reconcile, rest
    <3>3. CompletedByItsAttempt'
      BY <2>3, <2>s, <3>1, <3>2 DEF Reconcile
    <3> QED BY <3>2, <3>3 DEF CleanInv
  <2>4. ASSUME NEW p \in Procs, QueueStep(p) \/ PutFails(p) \/ CallFails(p) PROVE CleanInv'
    <3>1. row' = row /\ horse' = horse /\ clean' = clean
      BY <2>4, CallContinues
    <3> QED BY <3>1 DEF CleanInv, CompletedByItsAttempt
  <2>5. ASSUME NEW p \in Procs, Crash(p) PROVE CleanInv'
    BY <2>5 DEF Crash, CleanInv, CompletedByItsAttempt, rest
  <2>6. ASSUME NEW h \in Horses, HorseStep(h) \/ Pulse(h) \/ HorseDies(h) \/ WorkerDies(h)
        PROVE CleanInv'
    <3>1. CASE WorkEnds(h)
      <4>1. PICK bad \in BOOLEAN :
               /\ horse' = [horse EXCEPT ![h].pc = "finish", ![h].bad = bad]
               /\ clean' = IF bad THEN clean ELSE clean \cup {horse[h].attempt}
        BY <3>1 DEF WorkEnds
      <4>2. row'.status = row.status /\ row'.attempt = row.attempt
        BY <2>t, <3>1 DEF WorkEnds, RowType
      <4>3. /\ horse'[h].bad = bad /\ horse'[h].attempt = horse[h].attempt
            /\ \A g \in Horses \ {h} : horse'[g] = horse[g]
        BY <2>t, <4>1 DEF HorseType
      <4>4. clean \subseteq clean' /\ (~bad => horse[h].attempt \in clean')
        BY <4>1
      <4>5. CompletedByItsAttempt'
        BY <4>2, <4>4 DEF CleanInv, CompletedByItsAttempt
      <4>6. \A g \in Horses : horse'[g].pc = "finish" /\ ~horse'[g].bad => horse'[g].attempt \in clean'
        BY <4>3, <4>4 DEF CleanInv
      <4> QED BY <4>5, <4>6 DEF CleanInv
    <3>2. CASE Finish(h)
      <4>1. clean' = clean /\ horse'[h].pc # "finish" /\ \A g \in Horses \ {h} : horse'[g] = horse[g]
        BY <2>t, <3>2 DEF Finish, Goto, HorseType, rest
      <4>2. CompletedByItsAttempt'
        BY <2>s, <3>2, <4>1 DEF Finish, Owns, CleanInv, CompletedByItsAttempt
      <4> QED BY <4>1, <4>2 DEF CleanInv
    <3>3. CASE Start(h)
      <4>1. clean' = clean /\ horse'[h].pc # "finish" /\ \A g \in Horses \ {h} : horse'[g] = horse[g]
        BY <2>t, <3>3 DEF Start, Goto, HorseType, rest
      <4>2. row' = row \/ row'.status # "completed"
        BY <2>t, <3>3 DEF Start, SetStatus, RowType
      <4> QED BY <4>1, <4>2 DEF CleanInv, CompletedByItsAttempt
    <3>4. CASE Pulse(h)
      <4>1. row'.status = row.status /\ row'.attempt = row.attempt
        BY <2>t, <3>4 DEF Pulse, RowType
      <4> QED BY <3>4, <4>1 DEF Pulse, CleanInv, CompletedByItsAttempt, rest
    <3>5. CASE Dequeue(h) \/ Execute(h) \/ LoseOwnership(h) \/ Succeed(h) \/ Fail(h)
               \/ HorseDies(h) \/ WorkerDies(h)
      <4>1. row' = row /\ clean' = clean
        BY <3>5 DEF Dequeue, Execute, LoseOwnership, Succeed, Fail, HorseDies, WorkerDies,
                    rowVars, rest
      <4>2. horse'[h].pc # "finish" /\ \A g \in Horses \ {h} : horse'[g] = horse[g]
        <5>1. \A g \in Horses \ {h} : horse'[g] = horse[g]
          BY <2>t, <3>5 DEF Dequeue, Execute, LoseOwnership, Succeed, Fail, HorseDies, WorkerDies,
                            Goto
        <5>2. IdleHorse.pc = "idle"
          BY DEF IdleHorse
        <5>3. CASE Dequeue(h)
          BY <2>t, <5>3 DEF Dequeue, IdleHorse
        <5>4. CASE Execute(h)
          BY <2>t, <5>2, <5>4 DEF Execute, Goto, HorseType
        <5>5. CASE LoseOwnership(h)
          BY <2>t, <5>5 DEF LoseOwnership, Goto, HorseType
        <5>6. CASE HorseDies(h)
          BY <2>t, <5>2, <5>6 DEF HorseDies, HorseType
        <5>7. CASE Succeed(h) \/ Fail(h) \/ WorkerDies(h)
          BY <2>t, <5>2, <5>7 DEF Succeed, Fail, WorkerDies
        <5> QED BY <3>5, <5>1, <5>3, <5>4, <5>5, <5>6, <5>7
      <4> QED BY <4>1, <4>2 DEF CleanInv, CompletedByItsAttempt
    <3> QED BY <2>6, <3>1, <3>2, <3>3, <3>4, <3>5 DEF HorseStep
  <2>7. CASE Promote \/ HeartbeatLate \/ RedisLost \/ Reconfigure
    <3>1. /\ row'.status = row.status /\ row'.attempt = row.attempt
          /\ horse' = horse /\ clean' = clean
      BY <2>7, <2>t DEF Promote, HeartbeatLate, RedisLost, Reconfigure, rowVars, RowType, rest
    <3> QED BY <3>1 DEF CleanInv, CompletedByItsAttempt
  <2>8. CASE UNCHANGED vars
    BY <2>8 DEF vars, CleanInv, CompletedByItsAttempt
  <2> QED BY <2>1, <2>2, <2>3, <2>4, <2>5, <2>6, <2>7, <2>8 DEF Next, ReconcilerStep
<1>3. CleanInv => CompletedByItsAttempt
  BY DEF CleanInv
<1> QED BY <1>1, <1>2, <1>3, TypeCorrect, PTL DEF Spec
-----------------------------------------------------------------------------
(* Who has the job *)

\* The places that go with a status of the job: RQ moves both in one step.
PlacesOf(status) ==
    IF status = "queued" THEN {{"queue"}, {"intermediate"}}
    ELSE IF status = "scheduled" THEN {{"scheduled"}}
    ELSE {{}}

\* As long as Redis keeps its data, there is one token for the job: it waits in one
\* place, or one horse has it.  The queue lock is held from the fetch to the end of the
\* call, so that a put finds no job.
DeliveryInv ==
    ~lost => /\ job.at \in PlacesOf(job.status)
             /\ \A h \in Horses : horse[h].pc = "got" => job.at = {"intermediate"}
             /\ \A h \in Horses : horse[h].pc \in {"perform", "work", "finish", "success", "failure"}
                                  => job.status = "started"
             /\ \A g, h \in Horses : Busy(g) /\ Busy(h) => g = h
             /\ \A p \in Procs : proc[p].pc \in QueueLabels => queueLock = p
             /\ \A p \in Procs : proc[p].pc = "put" => job.status = "none"

Searching == {"fetch", "intermediate", "place", "quarantine"}

\* Under the queue lock a call ends and gives the lock up, goes on to a put because
\* there is no job, or goes on searching; the job stays, is quarantined while no horse
\* has it, or is put.
LEMMA CallMoves ==
    ASSUME TypeOK, NEW p \in Procs, proc[p].pc \in QueueLabels,
           QueueStep(p) \/ PutFails(p) \/ CallFails(p)
    PROVE  /\ \/ proc'[p].pc = "write" /\ queueLock' = IF queueLock = p THEN None ELSE queueLock
              \/ proc'[p].pc = "put" /\ job'.status = "none" /\ UNCHANGED queueLock
              \/ proc'[p].pc \in Searching /\ UNCHANGED queueLock
           /\ \/ job' = job
              \/ job' = NoJob /\ ~Active
              \/ job' = NewJob /\ proc[p].pc = "put" /\ proc'[p].pc # "put"
           /\ lost' = lost
<1> DEFINE Moved ==
        \/ proc'[p].pc = "write" /\ queueLock' = IF queueLock = p THEN None ELSE queueLock
        \/ proc'[p].pc = "put" /\ job'.status = "none" /\ UNCHANGED queueLock
        \/ proc'[p].pc \in Searching /\ UNCHANGED queueLock
<1>t. proc \in [Procs -> ProcType]
  BY Typed
<1>r. ASSUME NEW result, Return(p, result)
      PROVE  proc'[p].pc = "write" /\ queueLock' = IF queueLock = p THEN None ELSE queueLock
  BY <1>t, <1>r DEF Return, IdleProc
<1>c. ASSUME NEW label, Continue(p, label) PROVE proc'[p].pc = label /\ UNCHANGED queueLock
  BY <1>t, <1>c DEF Continue, ProcType
<1>a. ASSUME Absent(p), job'.status = "none" PROVE Moved
  BY <1>a, <1>r, <1>c DEF Absent
<1>j. ASSUME NEW exact, NEW place, Judge(p, exact, place) PROVE Moved /\ proc'[p].pc # "put"
  <2>1. CASE exact /\ place # "nowhere"
    BY <1>j, <1>r, <2>1 DEF Judge
  <2>2. CASE ~(exact /\ place # "nowhere") /\ place = "started"
    BY <1>j, <1>r, <2>2 DEF Judge
  <2>3. CASE ~(exact /\ place # "nowhere") /\ place # "started"
    BY <1>j, <1>c, <2>3 DEF Judge, Searching
  <2> QED BY <2>1, <2>2, <2>3
<1>1. ~AcquireQueueLock(p)
  BY DEF AcquireQueueLock, QueueLabels
<1>2. CASE Fetch(p)
  <2>0. job' = job /\ lost' = lost
    BY <1>2 DEF Fetch, rest
  <2>1. CASE job.status = "none" /\ Absent(p)
    BY <1>a, <2>0, <2>1
  <2>2. CASE Judge(p, job.exact, "started") \/ Judge(p, job.exact, "nowhere")
    BY <1>j, <2>0, <2>2
  <2>3. CASE /\ proc' = [proc EXCEPT ![p].pc = IF job.status = "queued" THEN "intermediate"
                                               ELSE "place",
                                     ![p].status = job.status,
                                     ![p].exact = job.exact]
             /\ UNCHANGED queueLock
    <3>1. proc'[p].pc = IF job.status = "queued" THEN "intermediate" ELSE "place"
      BY <1>t, <2>3 DEF ProcType
    <3> QED BY <2>0, <2>3, <3>1 DEF Searching
  <2> QED BY <1>2, <2>1, <2>2, <2>3 DEF Fetch
<1>3. CASE LookIntermediate(p)
  BY <1>3, <1>j, <1>c DEF LookIntermediate, rest, Searching
<1>4. CASE LookPlace(p)
  BY <1>4, <1>j DEF LookPlace, rest
<1>5. CASE Quarantine(p)
  <2>0. lost' = lost
    BY <1>5 DEF Quarantine, rest
  <2>1. CASE Active \/ Executed
    BY <1>5, <1>r, <2>0, <2>1 DEF Quarantine
  <2>2. CASE ~Active /\ ~Executed
    <3>1. job' = NoJob /\ Absent(p)
      BY <1>5, <2>2 DEF Quarantine
    <3>2. job'.status = "none"
      BY <3>1 DEF NoJob
    <3> QED BY <1>a, <2>0, <2>2, <3>1, <3>2
  <2> QED BY <2>1, <2>2
<1>6. CASE Put(p)
  BY <1>6, <1>r DEF Put, rest
<1>7. CASE PutFails(p)
  <2>1. proc'[p].pc = "fetch"
    BY <1>7, <1>t DEF PutFails, ProcType
  <2> QED BY <1>7, <2>1 DEF PutFails, rest, Searching
<1>8. CASE CallFails(p)
  BY <1>8, <1>r DEF CallFails, rest
<1> QED BY <1>1, <1>2, <1>3, <1>4, <1>5, <1>6, <1>7, <1>8 DEF QueueStep

\* While Redis keeps its data, a job is executed by one horse at a time for any number
\* of requests and horses: neither a repeated enqueue, nor a quarantine, nor a retry
\* gives the job to a second horse while one has it.
THEOREM JobHasOneHorse == Spec => []OneExecution
<1>1. Init => DeliveryInv
  <2> SUFFICES ASSUME Init PROVE DeliveryInv
    OBVIOUS
  <2>1. \A h \in Horses : horse[h].pc \in {"off", "idle"}
    BY DEF Init, IdleHorse
  <2>2. \A p \in Procs : proc[p].pc \in {"idle", "done"}
    BY DEF Init, IdleProc
  <2>3. job.status = "none" /\ job.at = {}
    BY DEF Init, NoJob
  <2> QED BY <2>1, <2>2, <2>3 DEF DeliveryInv, PlacesOf, Busy, QueueLabels
<1>2. TypeOK /\ DeliveryInv /\ [Next]_vars => DeliveryInv'
  <2> SUFFICES ASSUME TypeOK, DeliveryInv, [Next]_vars, ~lost' PROVE DeliveryInv'
    BY DEF DeliveryInv
  <2>t. /\ proc \in [Procs -> ProcType] /\ horse \in [Horses -> HorseType]
        /\ job \in JobType /\ None \notin Procs
    BY SMTT(30), Typed, RunsAssumption
  <2>n. ~lost
    BY DEF Next, RequestStep, ReconcilerStep, QueueStep, HorseStep, Lookup, Insert, Reread,
           CloseExhausted, Record, Pick, Reconcile, AcquireQueueLock, Fetch, LookIntermediate,
           LookPlace, Quarantine, Put, PutFails, CallFails, Crash, Dequeue, Execute, Start,
           Pulse, LoseOwnership, WorkEnds, Finish, Succeed, Fail, Promote, HorseDies,
           WorkerDies, HeartbeatLate, RedisLost, Reconfigure, rest, vars
  <2> DEFINE Waiting == /\ job.at \in PlacesOf(job.status)
                        /\ \A h \in Horses : horse[h].pc = "got" => job.at = {"intermediate"}
             Working == \A h \in Horses :
                           horse[h].pc \in {"perform", "work", "finish", "success", "failure"}
                             => job.status = "started"
             Single == \A g, h \in Horses : Busy(g) /\ Busy(h) => g = h
             Locked == \A p \in Procs : proc[p].pc \in QueueLabels => queueLock = p
             Gone == \A p \in Procs : proc[p].pc = "put" => job.status = "none"
  <2>i. Waiting /\ Working /\ Single /\ Locked /\ Gone
    BY <2>n DEF DeliveryInv
  <2>q. Waiting' /\ Working' /\ Single' /\ Locked' /\ Gone' => DeliveryInv'
    BY DEF DeliveryInv
  <2> HIDE DEF Waiting, Working, Single, Locked, Gone
  \* The calls leave the horses alone and the horses leave the calls alone.
  <2>h. horse' = horse => Single'
    BY <2>i DEF Single, Busy
  <2>j. horse' = horse /\ job' = job => Waiting' /\ Working' /\ Single'
    BY <2>i, <2>h DEF Waiting, Working
  <2>p. proc' = proc /\ queueLock' = queueLock => Locked'
    BY <2>i DEF Locked
  \* A job that is not active is in no horse's hands.
  <2>b. ~Active => \A h \in Horses : ~Busy(h)
    <3> SUFFICES ASSUME ~Active, NEW h \in Horses, Busy(h) PROVE FALSE
      OBVIOUS
    <3>1. horse[h].pc \in HorseLabels
      BY <2>t DEF HorseType
    <3> QED BY <2>i, <3>1 DEF HorseLabels, Busy, Active, Waiting, Working
  <2>1. ASSUME NEW r \in Requests, RequestStep(r) PROVE DeliveryInv'
    <3>0. r \in Procs
      BY DEF Procs
    <3>1. horse' = horse /\ job' = job /\ queueLock' = queueLock
      BY <2>1 DEF RequestStep, Lookup, Insert, Reread, CloseExhausted, Record, queueVars
    <3>2. \A q \in Procs \ {r} : proc'[q] = proc[q]
      BY <2>1, <2>t DEF RequestStep, Lookup, Insert, Reread, CloseExhausted, Record
    <3>3. proc'[r].pc \notin QueueLabels
      <4>1. CASE Lookup(r)
        BY <2>t, <3>0, <4>1 DEF Lookup, ProcType, QueueLabels
      <4>2. CASE Insert(r)
        BY <2>t, <3>0, <4>2 DEF Insert, ProcType, QueueLabels
      <4>3. CASE Reread(r)
        <5>1. proc'[r].pc = IF row.status \in Ended \cup {"running"} THEN "done"
                            ELSE IF Exhausted THEN "exhausted" ELSE "lock"
          BY <2>t, <3>0, <4>3 DEF Reread, ProcType
        <5> QED BY <5>1 DEF QueueLabels
      <4>4. CASE CloseExhausted(r)
        BY <2>t, <3>0, <4>4 DEF CloseExhausted, ProcType, QueueLabels
      <4>5. CASE Record(r)
        BY <2>t, <3>0, <4>5 DEF Record, IdleProc, QueueLabels
      <4> QED BY <2>1, <4>1, <4>2, <4>3, <4>4, <4>5 DEF RequestStep
    <3>4. Locked' /\ Gone'
      BY <2>i, <3>1, <3>2, <3>3 DEF Locked, Gone, QueueLabels
    <3> QED BY <2>j, <2>q, <3>1, <3>4
  <2>2. CASE ReconcilerStep
    <3>0. Reconciler \in Procs
      BY DEF Procs
    <3>1. horse' = horse /\ job' = job /\ queueLock' = queueLock
      BY <2>2 DEF ReconcilerStep, Pick, Reconcile, queueVars
    <3>2. \A q \in Procs \ {Reconciler} : proc'[q] = proc[q]
      BY <2>2, <2>t DEF ReconcilerStep, Pick, Reconcile
    <3>3. proc'[Reconciler].pc \notin QueueLabels
      BY <2>2, <2>t, <3>0 DEF ReconcilerStep, Pick, Reconcile, IdleProc, ProcType, QueueLabels
    <3>4. Locked' /\ Gone'
      BY <2>i, <3>1, <3>2, <3>3 DEF Locked, Gone, QueueLabels
    <3> QED BY <2>j, <2>q, <3>1, <3>4
  <2>3. ASSUME NEW p \in Procs, QueueStep(p) \/ PutFails(p) \/ CallFails(p) PROVE DeliveryInv'
    <3>0. horse' = horse /\ \A q \in Procs \ {p} : proc'[q] = proc[q]
      BY <2>3, CallContinues
    <3>1. CASE proc[p].pc \notin QueueLabels
      <4>1. CASE AcquireQueueLock(p)
        <5>1. queueLock = None /\ queueLock' = p /\ job' = job /\ proc'[p].pc = "fetch"
          BY <2>t, <4>1 DEF AcquireQueueLock, ProcType
        <5>2. Locked' /\ Gone'
          BY <2>i, <2>t, <3>0, <5>1 DEF Locked, Gone
        <5> QED BY <2>j, <2>q, <3>0, <5>1, <5>2
      <4>2. CASE CallFails(p) /\ proc[p].pc = "lock"
        <5>1. job' = job /\ proc'[p].pc = "write" /\ queueLock' = IF queueLock = p THEN None ELSE queueLock
          BY <2>t, <4>2 DEF CallFails, Return, IdleProc
        <5>2. Locked' /\ Gone'
          BY <2>i, <3>0, <5>1 DEF Locked, Gone, QueueLabels
        <5> QED BY <2>j, <2>q, <3>0, <5>1, <5>2
      <4> QED BY <2>3, <3>1, <4>1, <4>2 DEF QueueStep, Fetch, LookIntermediate, LookPlace,
          Quarantine,
                                         Put, PutFails, CallFails, QueueLabels
    <3>2. CASE proc[p].pc \in QueueLabels
      <4>0. queueLock = p
        BY <2>i, <3>2 DEF Locked
      <4>1. /\ \/ proc'[p].pc = "write" /\ queueLock' = IF queueLock = p THEN None ELSE queueLock
               \/ proc'[p].pc = "put" /\ job'.status = "none" /\ UNCHANGED queueLock
               \/ proc'[p].pc \in Searching /\ UNCHANGED queueLock
            /\ \/ job' = job
               \/ job' = NoJob /\ ~Active
               \/ job' = NewJob /\ proc[p].pc = "put" /\ proc'[p].pc # "put"
        BY <2>3, <3>2, CallMoves
      <4>2. \A q \in Procs \ {p} : proc'[q].pc \notin QueueLabels
        BY <2>i, <3>0, <4>0 DEF Locked
      <4>3. Locked' /\ Gone'
        BY <4>0, <4>1, <4>2 DEF Locked, Gone, QueueLabels, Searching
      <4>4. Waiting' /\ Working'
        <5>1. CASE job' = job
          BY <2>j, <3>0, <5>1
        <5>2. CASE job' = NoJob /\ ~Active
          <6>1. job'.status = "none" /\ job'.at = {} /\ \A h \in Horses : horse'[h].pc \in {"off", "idle"}
            BY <2>b, <3>0, <5>2 DEF NoJob, Busy
          <6> QED BY <6>1 DEF Waiting, Working, PlacesOf
        <5>3. CASE job' = NewJob /\ proc[p].pc = "put"
          <6>1. job.status = "none" /\ job.at = {}
            BY <2>i, <5>3 DEF Gone, Waiting, PlacesOf
          <6>2. job'.status = "queued" /\ job'.at = {"queue"}
            BY <2>t, <5>3, <6>1 DEF NewJob, JobType
          <6>3. \A h \in Horses : horse'[h].pc \in {"off", "idle"}
            BY <2>b, <3>0, <6>1 DEF Active, Busy
          <6> QED BY <6>2, <6>3 DEF Waiting, Working, PlacesOf
        <5> QED BY <4>1, <5>1, <5>2, <5>3
      <4> QED BY <2>h, <2>q, <3>0, <4>3, <4>4
    <3> QED BY <3>1, <3>2
  <2>4. ASSUME NEW p \in Procs, Crash(p) PROVE DeliveryInv'
    <3>1. horse' = horse /\ job' = job /\ queueLock' = IF queueLock = p THEN None ELSE queueLock
      BY <2>4 DEF Crash
    <3>2. proc'[p].pc \in {"idle", "done"} /\ \A q \in Procs \ {p} : proc'[q] = proc[q]
      BY <2>4, <2>t DEF Crash, IdleProc
    <3>3. Locked' /\ Gone'
      BY <2>i, <3>1, <3>2 DEF Locked, Gone, QueueLabels
    <3> QED BY <2>j, <2>q, <3>1, <3>3
  <2>5. ASSUME NEW h \in Horses, HorseStep(h) \/ Pulse(h) \/ HorseDies(h) \/ WorkerDies(h)
        PROVE DeliveryInv'
    <3>0. proc' = proc /\ queueLock' = queueLock
      BY <2>5 DEF HorseStep, Dequeue, Execute, Start, LoseOwnership, WorkEnds, Finish, Succeed,
                  Fail, Pulse, HorseDies, WorkerDies, queueVars
    <3>1. \A g \in Horses \ {h} : horse'[g] = horse[g]
      BY <2>5, <2>t DEF HorseStep, Dequeue, Execute, Start, LoseOwnership, WorkEnds, Finish,
                        Succeed, Fail, Pulse, HorseDies, WorkerDies, Goto
    <3>i. IdleHorse.pc = "idle" /\ horse[h].pc \in HorseLabels
      BY <2>t DEF IdleHorse, HorseType
    <3>d. CASE Dequeue(h)
      <4>1. job.status = "queued" /\ job.at = {"queue"}
        BY <2>i, <3>d DEF Dequeue, Waiting, PlacesOf
      <4>2. \A g \in Horses : ~Busy(g)
        BY <2>b, <4>1 DEF Active
      <4>3. job'.status = "queued" /\ job'.at = {"intermediate"}
        BY <2>t, <3>d, <4>1 DEF Dequeue, JobType
      <4>4. horse'[h].pc = "got"
        BY <2>t, <3>d DEF Dequeue, IdleHorse
      <4>5. Waiting' /\ Working' /\ Single'
        BY <3>1, <4>2, <4>3, <4>4 DEF Waiting, Working, Single, Busy, PlacesOf
      <4>6. Gone'
        BY <2>i, <3>0, <4>1 DEF Gone
      <4> QED BY <2>p, <2>q, <3>0, <4>5, <4>6
    <3>2. CASE ~Dequeue(h) /\ Busy(h)
      <4>1. \A g \in Horses \ {h} : horse'[g].pc \in {"off", "idle"}
        BY <2>i, <3>1, <3>2 DEF Single, Busy
      <4>2. job.status # "none" /\ \A p \in Procs : proc'[p].pc # "put"
        BY <2>i, <3>0, <3>2, <3>i DEF Waiting, Working, Gone, Busy, HorseLabels, PlacesOf
      <4>3. Single' /\ Gone'
        BY <4>1, <4>2 DEF Single, Busy, Gone
      <4>4. Waiting' /\ Working'
        <5>1. CASE Execute(h)
          <6>1. job.at = {"intermediate"} /\ job.status = "queued"
            BY <2>i, <5>1 DEF Execute, Waiting, PlacesOf
          <6>2. CASE horse[h].exact
            <7>1. horse'[h].pc = "perform"
              BY <2>t, <5>1, <6>2 DEF Execute, Goto, HorseType
            <7>2. job'.status = "started" /\ job'.at = {}
              <8>1. job'.status = "started" /\ job'.at = job.at \ {"intermediate"}
                BY <2>t, <5>1, <6>2 DEF Execute, JobType
              <8> QED BY <6>1, <8>1
            <7> QED BY <4>1, <7>1, <7>2 DEF Waiting, Working, PlacesOf
          <6>3. CASE ~horse[h].exact
            <7>1. horse'[h].pc = "idle"
              BY <2>t, <3>i, <5>1, <6>3 DEF Execute
            <7>2. job'.status = "failed" /\ job'.at = {}
              <8>1. job'.status = "failed" /\ job'.at = job.at \ {"intermediate"}
                BY <2>t, <5>1, <6>3 DEF Execute, JobType
              <8> QED BY <6>1, <8>1
            <7> QED BY <4>1, <7>1, <7>2 DEF Waiting, Working, PlacesOf
          <6> QED BY <6>2, <6>3
        <5>2. CASE Succeed(h) \/ Fail(h)
          <6>1. job.status = "started" /\ job.at = {}
            BY <2>i, <5>2 DEF Succeed, Fail, Waiting, Working, PlacesOf
          <6>2. horse'[h].pc = "idle"
            BY <2>t, <3>i, <5>2 DEF Succeed, Fail
          <6>3. job'.at \in PlacesOf(job'.status)
            <7>1. CASE Succeed(h)
              BY <2>t, <6>1, <7>1 DEF Succeed, JobType, PlacesOf
            <7>2. CASE Fail(h) /\ horse[h].retries > 0
              <8>1. job'.status = "scheduled" /\ job'.at = {"scheduled"}
                BY <2>t, <6>1, <7>2 DEF Fail, JobType
              <8> QED BY <8>1 DEF PlacesOf
            <7>3. CASE Fail(h) /\ ~(horse[h].retries > 0)
              <8>1. job'.status = "failed" /\ job'.at = {}
                BY <2>t, <6>1, <7>3 DEF Fail, JobType
              <8> QED BY <8>1 DEF PlacesOf
            <7> QED BY <5>2, <7>1, <7>2, <7>3
          <6> QED BY <4>1, <6>2, <6>3 DEF Waiting, Working
        <5>3. CASE ~Execute(h) /\ ~Succeed(h) /\ ~Fail(h)
          <6>1. job' = job
            BY <2>5, <3>2, <5>3 DEF HorseStep, Start, LoseOwnership, WorkEnds, Finish, Pulse,
                                    HorseDies, WorkerDies, queueVars
          <6>2. CASE HorseDies(h)
            <7>1. job.status = "started"
              BY <2>i, <6>2 DEF HorseDies, Working
            <7>2. horse'[h].pc # "got"
              BY <2>t, <3>i, <6>2 DEF HorseDies, HorseType
            <7> QED BY <2>i, <4>1, <6>1, <7>1, <7>2 DEF Waiting, Working
          <6>3. CASE WorkerDies(h)
            <7>1. horse'[h].pc = "idle"
              BY <2>t, <3>i, <6>3 DEF WorkerDies
            <7> QED BY <2>i, <4>1, <6>1, <7>1 DEF Waiting, Working
          <6>4. CASE Start(h) \/ LoseOwnership(h) \/ WorkEnds(h) \/ Finish(h) \/ Pulse(h)
            <7>1. horse[h].pc \in {"perform", "work", "finish"}
              BY <6>4 DEF Start, LoseOwnership, WorkEnds, Finish, Pulse
            <7>2. job.status = "started"
              BY <2>i, <7>1 DEF Working
            <7>3. horse'[h].pc # "got"
              BY <2>t, <6>4, <7>1 DEF Start, LoseOwnership, WorkEnds, Finish, Pulse, Goto, HorseType
            <7> QED BY <2>i, <4>1, <6>1, <7>2, <7>3 DEF Waiting, Working
          <6> QED BY <2>5, <3>2, <5>3, <6>2, <6>3, <6>4 DEF HorseStep
        <5> QED BY <5>1, <5>2, <5>3
      <4> QED BY <2>p, <2>q, <3>0, <4>3, <4>4
    <3>3. Dequeue(h) \/ Busy(h)
      BY <2>5 DEF HorseStep, Execute, Start, LoseOwnership, WorkEnds, Finish, Succeed, Fail, Pulse,
                  HorseDies, WorkerDies, Busy
    <3> QED BY <3>d, <3>2, <3>3
  <2>6. CASE Promote
    <3>1. job.status = "scheduled" /\ job.at = {"scheduled"}
      BY <2>i, <2>6 DEF Promote, Waiting, PlacesOf
    <3>2. job'.status = "queued" /\ job'.at = {"queue"}
      BY <2>t, <2>6, <3>1 DEF Promote, JobType
    <3>3. proc' = proc /\ horse' = horse /\ queueLock' = queueLock
      BY <2>6 DEF Promote
    <3>4. \A h \in Horses : horse'[h].pc \in {"off", "idle"}
      BY <2>b, <3>1, <3>3 DEF Active, Busy
    <3>5. Waiting' /\ Working' /\ Gone'
      BY <2>i, <3>1, <3>2, <3>3, <3>4 DEF Waiting, Working, Gone, PlacesOf
    <3> QED BY <2>h, <2>p, <2>q, <3>3, <3>5
  <2>7. CASE Reconfigure
    <3>1. job'.status = job.status /\ job'.at = job.at
      BY <2>t, <2>7 DEF Reconfigure, JobType
    <3>2. proc' = proc /\ horse' = horse /\ queueLock' = queueLock
      BY <2>7 DEF Reconfigure
    <3>3. Waiting' /\ Working' /\ Gone'
      BY <2>i, <3>1, <3>2 DEF Waiting, Working, Gone
    <3> QED BY <2>h, <2>p, <2>q, <3>2, <3>3
  <2>8. CASE HeartbeatLate \/ UNCHANGED vars
    <3>1. proc' = proc /\ horse' = horse /\ queueLock' = queueLock /\ job' = job
      BY <2>8 DEF HeartbeatLate, queueVars, vars
    <3>2. Gone'
      BY <2>i, <3>1 DEF Gone
    <3> QED BY <2>j, <2>p, <2>q, <3>1, <3>2
  <2>9. ~RedisLost
    BY DEF RedisLost
  <2> QED BY <2>1, <2>2, <2>3, <2>4, <2>5, <2>6, <2>7, <2>8, <2>9 DEF Next
<1>3. DeliveryInv => OneExecution
  BY DEF DeliveryInv, OneExecution
<1> QED BY <1>1, <1>2, <1>3, TypeCorrect, PTL DEF Spec
=============================================================================
