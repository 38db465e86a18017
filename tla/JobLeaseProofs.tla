--------------------------- MODULE JobLeaseProofs ---------------------------
(***************************************************************************)
(* Theorems about the assignment ledger, for any sets of jobs and Workers, *)
(* any lease and offline windows, any requeue limit, any transition table  *)
(* that satisfies TableAssumption, and any set of overtaken requests.      *)
(***************************************************************************)
EXTENDS JobLease, TLAPS

\* The statuses that the handlers assign belong to the table.
LEMMA StatusFacts ==
    /\ {"queued", "assigned", "completed", "failed", "cancelled"} \subseteq Statuses
    /\ Terminal = {"completed", "failed", "cancelled"}
    /\ Running \subseteq Statuses
    /\ "assigned" \in Running
    /\ Running \cap {"absent", "queued", "completed", "failed", "cancelled"} = {}
    /\ \A s \in Running, t \in Statuses \ Terminal : CanTransition(s, t) => t \in Running
BY TableAssumption DEF Terminal, Running, CanTransition

\* An attempt id is a pair of a job and a number.
LEMMA AttemptIdFacts ==
    /\ \A a \in AttemptIds : a[1] \in Jobs /\ a[2] \in 1..MaxAttempts /\ a = <<a[1], a[2]>>
    /\ \A j \in Jobs, n \in 1..MaxAttempts : <<j, n>> \in AttemptIds
    /\ None \notin AttemptIds
BY ConstantsAssumption DEF AttemptIds

\* A request names a Worker.
LEMMA RequestIdFacts == \A r \in Requests : r[1] \in Workers
BY ConstantsAssumption

\* Closing a batch of attempts keeps the types.
LEMMA CloseAbandonedType ==
    ASSUME TypeOK, NEW r \in Requests, NEW own, NEW S \in SUBSET AttemptIds,
           CloseAbandoned(r, own, S)
    PROVE  TypeOK'
<1> DEFINE closed == {j \in Jobs : jobAttempt[j] \in S}
           back == {j \in closed : Outcome(j) = "queued"}
           st == [j \in Jobs |-> IF j \in closed THEN Outcome(j) ELSE jobStatus[j]]
<1>1. /\ jobStatus' \in [Jobs -> Statuses \cup {"absent"}]
      /\ jobWorker' \in [Jobs -> Workers \cup {None}]
      /\ jobAttempt' \in [Jobs -> AttemptIds \cup {None}]
      /\ cancelRequested' \subseteq Jobs
  <2>1. st \in [Jobs -> Statuses \cup {"absent"}]
    <3>1. \A j \in Jobs : Outcome(j) \in Statuses
      BY StatusFacts DEF Outcome
    <3>2. QED
      BY <3>1 DEF TypeOK
  <2>2. RequeueJobs(back, st)
    BY DEF CloseAbandoned
  <2> HIDE DEF closed, back, st
  <2>3. QED
    BY <2>1, <2>2, StatusFacts DEF TypeOK, RequeueJobs
<1>2. /\ attemptStatus' \in [AttemptIds -> Statuses \cup {"absent"}]
      /\ finished' \subseteq AttemptIds
      /\ activeLeases' \subseteq AttemptIds
  BY StatusFacts DEF TypeOK, CloseAbandoned
<1>3. /\ workerStatus' \in [Workers -> {"absent", "idle", "busy", "draining"}]
      /\ currentJob' \in [Workers -> Jobs \cup {None}]
  BY DEF TypeOK, CloseAbandoned
<1>4. /\ stage' \in [Requests -> {"none", "auth", "recovered"}]
      /\ seen' \in [Requests -> Jobs \cup {None}]
      /\ stale' \subseteq Requests
  BY DEF TypeOK, CloseAbandoned, StaleAfter
<1>5. QED
  BY <1>1, <1>2, <1>3, <1>4 DEF TypeOK, CloseAbandoned

\* Granting a job keeps the types.
LEMMA GrantType ==
    ASSUME TypeOK, NEW r \in Requests, NEW j \in Jobs, NEW Q, NEW known \in BOOLEAN,
           Grant(r[1], j, Q, known), EndRequest(r, {r[1]})
    PROVE  TypeOK'
<1>1. /\ r[1] \in Workers
      /\ attemptCount[j] + 1 \in 1..MaxAttempts
      /\ <<j, attemptCount[j] + 1>> \in AttemptIds
  BY RequestIdFacts, AttemptIdFacts, ConstantsAssumption DEF TypeOK, Grant
<1>2. /\ jobStatus' \in [Jobs -> Statuses \cup {"absent"}]
      /\ jobWorker' \in [Jobs -> Workers \cup {None}]
      /\ jobAttempt' \in [Jobs -> AttemptIds \cup {None}]
      /\ attemptCount' \in [Jobs -> 0..MaxAttempts]
  BY SMTT(30), <1>1, StatusFacts, ConstantsAssumption DEF TypeOK, Grant, Quarantined
<1>3. /\ attemptStatus' \in [AttemptIds -> Statuses \cup {"absent"}]
      /\ attemptWorker' \in [AttemptIds -> Workers \cup {None}]
      /\ activeLeases' \subseteq AttemptIds
  BY <1>1, StatusFacts DEF TypeOK, Grant
<1>4. leaseLeft' \in [AttemptIds -> 0..LeaseTicks]
  BY <1>1, ConstantsAssumption DEF TypeOK, Grant
<1>5. /\ workerStatus' \in [Workers -> {"absent", "idle", "busy", "draining"}]
      /\ currentJob' \in [Workers -> Jobs \cup {None}]
      /\ offlineLeft' \in [Workers -> 0..OfflineTicks]
  BY <1>1, ConstantsAssumption DEF TypeOK, Grant
<1>6. /\ stage' \in [Requests -> {"none", "auth", "recovered"}]
      /\ seen' \in [Requests -> Jobs \cup {None}]
      /\ stale' \subseteq Requests
  BY DEF TypeOK, EndRequest, StaleAfter
<1>7. held' \in [Workers -> SUBSET AttemptIds]
  BY <1>1 DEF TypeOK, Grant
<1>8. QED
  BY <1>2, <1>3, <1>4, <1>5, <1>6, <1>7 DEF TypeOK, Grant

\* Every step keeps the types.
LEMMA TypeStep == TypeOK /\ [Next]_vars => TypeOK'
<1> SUFFICES ASSUME TypeOK, [Next]_vars PROVE TypeOK'
  OBVIOUS
<1> USE DEF jobVars, attemptVars, leaseVars, workerVars, requestVars
<1>1. ASSUME NEW w \in Workers, RegisterWorker(w) PROVE TypeOK'
  BY <1>1, ConstantsAssumption DEF TypeOK, RegisterWorker
<1>2. ASSUME NEW w \in Workers, PrepareTokenRotation(w) PROVE TypeOK'
  BY <1>2 DEF TypeOK, PrepareTokenRotation, Touch, StaleAfter
<1>3. ASSUME NEW w \in Workers, EndTokenRotation(w) PROVE TypeOK'
  BY <1>3 DEF TypeOK, EndTokenRotation, Touch, StaleAfter
<1>4. ASSUME NEW w \in Workers, RevokeIdle(w) PROVE TypeOK'
  BY <1>4 DEF TypeOK, RevokeIdle, Disable, Touch, StaleAfter
<1>5. ASSUME NEW w \in Workers, RevokeAssigned(w) PROVE TypeOK'
  BY <1>5, StatusFacts, AttemptIdFacts DEF TypeOK, RevokeAssigned, Disable, Touch, StaleAfter,
     CloseAttempt
<1>6. ASSUME NEW w \in Workers, ReEnrollWorker(w) PROVE TypeOK'
  BY <1>6, ConstantsAssumption DEF TypeOK, ReEnrollWorker, Touch, StaleAfter
<1>7. ASSUME NEW w \in Workers, OfflineTick(w) PROVE TypeOK'
  BY <1>7, ConstantsAssumption DEF TypeOK, OfflineTick
<1>8. ASSUME NEW j \in Jobs, CreateJob(j) PROVE TypeOK'
  BY <1>8, StatusFacts DEF TypeOK, CreateJob
<1>9. ASSUME NEW j \in Jobs, CancelJob(j) PROVE TypeOK'
  BY <1>9, StatusFacts DEF TypeOK, CancelJob
<1>10. ASSUME NEW j \in Jobs, RetryJob(j) PROVE TypeOK'
  BY <1>10, StatusFacts, ConstantsAssumption DEF TypeOK, RetryJob, RequeueJobs
<1>11. ASSUME NEW j \in Jobs, DamageConfig(j) PROVE TypeOK'
  BY <1>11 DEF TypeOK, DamageConfig
<1>12. ASSUME NEW r \in Requests, Authenticate(r) PROVE TypeOK'
  BY <1>12, RequestIdFacts DEF TypeOK, Authenticate
<1>13. ASSUME NEW r \in Requests, Recover(r) PROVE TypeOK'
  BY <1>13, CloseAbandonedType DEF Recover, Recoverable, Abandoned
<1>14. ASSUME NEW r \in Requests, RecoverConflicts(r) PROVE TypeOK'
  BY <1>14 DEF TypeOK, RecoverConflicts
<1>15. ASSUME NEW r \in Requests, Poll(r) PROVE TypeOK'
  BY <1>15, CloseAbandonedType DEF Poll, PollTaking, Recoverable, Abandoned
<1>16. ASSUME NEW r \in Requests, Refuse(r) PROVE TypeOK'
  BY <1>16 DEF TypeOK, Refuse, EndRequest, StaleAfter
<1>17. ASSUME NEW r \in Requests, HeartbeatWithJob(r) PROVE TypeOK'
  BY <1>17, RequestIdFacts, ConstantsAssumption DEF TypeOK, HeartbeatWithJob, EndRequest,
     StaleAfter, HeardFrom
<1>18. ASSUME NEW r \in Requests, HeartbeatIdle(r) PROVE TypeOK'
  BY <1>18, RequestIdFacts, ConstantsAssumption DEF TypeOK, HeartbeatIdle, EndRequest, StaleAfter,
     HeardFrom
<1>19. ASSUME NEW r \in Requests, Claim(r) PROVE TypeOK'
  BY <1>19, GrantType DEF Claim
<1>20. ASSUME NEW r \in Requests, ClaimQuarantines(r) PROVE TypeOK'
  BY <1>20, StatusFacts DEF TypeOK, ClaimQuarantines, EndRequest, StaleAfter, Quarantined
<1>21. ASSUME NEW w \in Workers, NEW a \in AttemptIds, RenewLease(w, a) PROVE TypeOK'
  BY <1>21, ConstantsAssumption DEF TypeOK, RenewLease
<1>22. ASSUME NEW w \in Workers, NEW a \in AttemptIds, Forget(w, a) PROVE TypeOK'
  BY <1>22 DEF TypeOK, Forget
<1>23. ASSUME NEW w \in Workers, NEW a \in AttemptIds, NEW t \in Statuses, ReportStage(w, a, t) PROVE TypeOK'
  BY <1>23, StatusFacts, AttemptIdFacts DEF TypeOK, ReportStage
<1>24. ASSUME NEW w \in Workers, NEW a \in AttemptIds, NEW t \in Statuses, ReportTerminal(w, a, t) PROVE TypeOK'
  BY <1>24, StatusFacts, AttemptIdFacts DEF TypeOK, ReportTerminal, Touch, StaleAfter, CloseAttempt
<1>25. ASSUME NEW a \in AttemptIds, LeaseTick(a) PROVE TypeOK'
  BY <1>25, ConstantsAssumption DEF TypeOK, LeaseTick
<1>26. CASE UNCHANGED vars
  BY <1>26 DEF vars, TypeOK
<1>27. QED
  BY <1>1, <1>2, <1>3, <1>4, <1>5, <1>6, <1>7, <1>8, <1>9, <1>10, <1>11, <1>12, <1>13, <1>14, <1>15,
     <1>16, <1>17, <1>18, <1>19, <1>20, <1>21, <1>22, <1>23, <1>24, <1>25, <1>26,
     ConstantsAssumption
     DEF Next, WorkerAdmin, UserStep, RequestStep, LeaseStep

\* Every column of the ledger keeps its type, in every reachable state.
THEOREM TypeCorrect == Spec => []TypeOK
<1>1. Init => TypeOK
  BY ConstantsAssumption DEF Init, TypeOK
<1>2. QED
  BY <1>1, TypeStep, PTL DEF Spec

-----------------------------------------------------------------------------
(* The assignment ledger is consistent.                                    *)

\* The columns that LedgerInv speaks about, besides the types.
ledgerVars == <<jobStatus, jobWorker, jobAttempt, attemptCount, attemptStatus, attemptWorker,
                finished, activeLeases, currentJob, enabled>>

\* The part of LedgerInv that is not about types.
Ledger == LeaseMatchesRows /\ RunningHasLease /\ CurrentAttemptOwn /\ FutureAttemptsBlank

\* A Worker has at most one active lease.
LEMMA OneLeasePerWorker ==
    ASSUME LedgerInv, NEW a \in activeLeases, NEW b \in activeLeases,
           attemptWorker[a] = attemptWorker[b]
    PROVE  a = b
BY DEF LedgerInv, LeaseMatchesRows

\* A step that leaves the columns of the ledger alone keeps it.
LEMMA LedgerUntouched ==
    ASSUME LedgerInv, UNCHANGED ledgerVars
    PROVE  Ledger'
BY DEF LedgerInv, Ledger, ledgerVars, LeaseMatchesRows, RunningHasLease, CurrentAttemptOwn,
       FutureAttemptsBlank

\* Closing the attempt of an assignment on both sides keeps the ledger.
LEMMA CloseAttemptLedger ==
    ASSUME LedgerInv, NEW w \in Workers, NEW a \in AttemptIds, NEW t \in Terminal,
           a \in activeLeases, attemptWorker[a] = w,
           jobStatus' = [jobStatus EXCEPT ![a[1]] = t],
           CloseAttempt(a, t),
           currentJob' = [currentJob EXCEPT ![w] = None],
           enabled \ {w} \subseteq enabled',
           UNCHANGED <<jobWorker, jobAttempt, attemptCount>>
    PROVE  Ledger'
<1> USE DEF LedgerInv
<1>1. jobAttempt[a[1]] = a /\ a[1] \in Jobs /\ t \notin Running
  BY AttemptIdFacts, StatusFacts DEF LeaseMatchesRows
<1>2. \A b \in activeLeases' : b \in activeLeases /\ b[1] # a[1] /\ attemptWorker[b] # w
  BY <1>1, OneLeasePerWorker DEF CloseAttempt, LeaseMatchesRows
<1>3. LeaseMatchesRows'
  BY <1>1, <1>2, AttemptIdFacts DEF CloseAttempt, LeaseMatchesRows, TypeOK
<1>4. RunningHasLease'
  BY <1>1, StatusFacts, AttemptIdFacts
     DEF CloseAttempt, RunningHasLease, CurrentAttemptOwn, TypeOK
<1>5. CurrentAttemptOwn' /\ FutureAttemptsBlank'
  BY <1>1 DEF CloseAttempt, CurrentAttemptOwn, FutureAttemptsBlank, TypeOK
<1>6. QED
  BY <1>3, <1>4, <1>5 DEF Ledger

\* A recovery pass keeps the ledger, whatever it believes about its own Worker.
LEMMA CloseAbandonedLedger ==
    ASSUME LedgerInv, NEW r \in Requests, NEW own, NEW S \in SUBSET Abandoned,
           CloseAbandoned(r, own, S)
    PROVE  Ledger'
<1> USE DEF LedgerInv
<1> DEFINE closed == {j \in Jobs : jobAttempt[j] \in S}
           freed == Freed(r[1], own, S)
<1>1. \A a \in S : /\ a \in AttemptIds /\ a \in activeLeases
                   /\ a[1] \in Jobs /\ jobAttempt[a[1]] = a /\ a[1] \in closed
  BY AttemptIdFacts DEF Abandoned, RunningHasLease
<1>2. \A j \in closed : jobStatus'[j] \notin Running
  BY StatusFacts DEF CloseAbandoned, RequeueJobs, Outcome
<1>3. \A j \in Jobs \ closed : /\ jobStatus'[j] = jobStatus[j]
                               /\ jobWorker'[j] = jobWorker[j]
                               /\ jobAttempt'[j] = jobAttempt[j]
  BY DEF CloseAbandoned, RequeueJobs
<1>4. \A j \in Jobs : jobAttempt'[j] \in {jobAttempt[j], None}
  BY DEF CloseAbandoned, RequeueJobs
<1>5. \A v \in freed : \E a \in S : attemptWorker[a] = v
  BY DEF Freed
<1>6. \A b \in activeLeases' : /\ b \in activeLeases /\ b \notin S
                               /\ b[1] \in Jobs \ closed
                               /\ attemptWorker[b] \notin freed
  <2>1. SUFFICES ASSUME NEW b \in activeLeases, b \notin S
                 PROVE  b[1] \in Jobs \ closed /\ attemptWorker[b] \notin freed
    BY DEF CloseAbandoned
  <2>2. b[1] \in Jobs \ closed
    BY <2>1, AttemptIdFacts DEF LeaseMatchesRows, TypeOK
  <2>3. attemptWorker[b] \notin freed
    BY <1>1, <1>5, <2>1, OneLeasePerWorker
  <2>4. QED
    BY <2>2, <2>3
<1> HIDE DEF closed, freed
<1>7. \A v \in Workers \ freed : currentJob'[v] = currentJob[v]
  BY DEF CloseAbandoned, freed
<1>8. LeaseMatchesRows'
  <2>1. SUFFICES ASSUME NEW b \in activeLeases'
                 PROVE  /\ attemptWorker'[b] \in Workers
                        /\ b \notin finished'
                        /\ attemptStatus'[b] = jobStatus'[b[1]]
                        /\ jobAttempt'[b[1]] = b
                        /\ jobWorker'[b[1]] = attemptWorker'[b]
                        /\ jobStatus'[b[1]] \in Running
                        /\ currentJob'[attemptWorker'[b]] = b[1]
                        /\ attemptWorker'[b] \in enabled'
    BY DEF LeaseMatchesRows
  <2>2. /\ attemptWorker' = attemptWorker /\ enabled' = enabled
        /\ finished' = finished \cup S
        /\ attemptStatus'[b] = attemptStatus[b]
    BY <1>6 DEF CloseAbandoned, TypeOK
  <2>3. QED
    BY <1>3, <1>6, <1>7, <2>2 DEF LeaseMatchesRows
<1>9. RunningHasLease'
  <2>1. SUFFICES ASSUME NEW j \in Jobs, jobStatus'[j] \in Running
                 PROVE  jobAttempt'[j] \in activeLeases'
    BY DEF RunningHasLease
  <2>2. j \in Jobs \ closed
    BY <1>2, <2>1
  <2>3. jobAttempt[j] \in activeLeases \ S
    BY <1>3, <2>1, <2>2 DEF RunningHasLease, closed
  <2>4. QED
    BY <1>3, <2>2, <2>3 DEF CloseAbandoned
<1>10. CurrentAttemptOwn'
  BY <1>4 DEF CurrentAttemptOwn
<1>11. FutureAttemptsBlank'
  <2>1. attemptCount' = attemptCount /\ finished' = finished \cup S
        /\ activeLeases' = activeLeases \ S
    BY DEF CloseAbandoned
  <2>2. QED
    BY <1>1, <2>1 DEF FutureAttemptsBlank
<1>12. QED
  BY <1>8, <1>9, <1>10, <1>11 DEF Ledger

\* A claim keeps the ledger.
LEMMA GrantLedger ==
    ASSUME LedgerInv, NEW w \in Workers, NEW j \in Jobs, NEW Q \in SUBSET DamagedQueued,
           NEW known, MayClaim(w), Grant(w, j, Q, known)
    PROVE  Ledger'
<1> USE DEF LedgerInv
<1> DEFINE a == <<j, attemptCount[j] + 1>>
<1>1. /\ a \in AttemptIds /\ a[1] = j /\ a[2] = attemptCount[j] + 1
      /\ attemptCount[j] \in Nat
  <2>1. attemptCount[j] \in Nat /\ attemptCount[j] + 1 \in 1..MaxAttempts
    BY ConstantsAssumption DEF Grant, TypeOK
  <2>2. QED
    BY <2>1, AttemptIdFacts
<1>2. a \notin activeLeases /\ a \notin finished
  BY <1>1 DEF FutureAttemptsBlank
<1>3. \A b \in activeLeases : /\ b \in AttemptIds /\ b[1] \in Jobs /\ b # a
                              /\ b[1] # j /\ b[1] \notin Q /\ attemptWorker[b] # w
  BY <1>2, AttemptIdFacts, StatusFacts, ConstantsAssumption
     DEF LeaseMatchesRows, Grant, MayClaim, DamagedQueued, TypeOK
<1>4. /\ activeLeases' = activeLeases \cup {a}
      /\ finished' = finished /\ enabled' = enabled
      /\ jobStatus' = [Quarantined(Q) EXCEPT ![j] = "assigned"]
      /\ jobWorker' = [jobWorker EXCEPT ![j] = w]
      /\ jobAttempt' = [jobAttempt EXCEPT ![j] = a]
      /\ attemptCount' = [attemptCount EXCEPT ![j] = @ + 1]
      /\ attemptStatus' = [attemptStatus EXCEPT ![a] = "assigned"]
      /\ attemptWorker' = [attemptWorker EXCEPT ![a] = w]
      /\ currentJob' = [currentJob EXCEPT ![w] = j]
      /\ w \in enabled
  BY DEF Grant, MayClaim
<1> HIDE DEF a
<1>5. jobStatus'[j] = "assigned" /\ \A i \in Jobs \ {j} :
         jobStatus'[i] = IF i \in Q THEN "failed" ELSE jobStatus[i]
  BY <1>4 DEF Quarantined
<1>6. LeaseMatchesRows'
  <2>1. SUFFICES ASSUME NEW b \in activeLeases'
                 PROVE  /\ attemptWorker'[b] \in Workers
                        /\ b \notin finished'
                        /\ attemptStatus'[b] = jobStatus'[b[1]]
                        /\ jobAttempt'[b[1]] = b
                        /\ jobWorker'[b[1]] = attemptWorker'[b]
                        /\ jobStatus'[b[1]] \in Running
                        /\ currentJob'[attemptWorker'[b]] = b[1]
                        /\ attemptWorker'[b] \in enabled'
    BY DEF LeaseMatchesRows
  <2>2. CASE b = a
    BY <1>1, <1>2, <1>4, <1>5, <2>2, StatusFacts DEF TypeOK
  <2>3. CASE b \in activeLeases
    BY <1>1, <1>3, <1>4, <1>5, <2>3 DEF LeaseMatchesRows, TypeOK
  <2>4. QED
    BY <1>4, <2>2, <2>3
<1>7. RunningHasLease'
  BY <1>1, <1>4, <1>5, StatusFacts DEF RunningHasLease, TypeOK
<1>8. CurrentAttemptOwn'
  BY <1>1, <1>4 DEF CurrentAttemptOwn, TypeOK
<1>9. FutureAttemptsBlank'
  <2>1. SUFFICES ASSUME NEW b \in AttemptIds, b[2] > attemptCount'[b[1]]
                 PROVE  b \notin activeLeases' /\ b \notin finished'
    BY DEF FutureAttemptsBlank
  <2>2. b[1] \in Jobs /\ b[2] \in Nat /\ attemptCount[b[1]] \in Nat
    BY AttemptIdFacts, ConstantsAssumption DEF TypeOK
  <2>3. b[2] > attemptCount[b[1]] /\ b # a
    BY <1>1, <1>4, <2>1, <2>2 DEF TypeOK
  <2>4. QED
    BY <1>4, <2>3 DEF FutureAttemptsBlank
<1>10. QED
  BY <1>6, <1>7, <1>8, <1>9 DEF Ledger

\* Jobs that do not execute may change their status among each other.
LEMMA WaitingJobsLedger ==
    ASSUME LedgerInv, NEW I \in SUBSET Jobs,
           \A i \in I : jobStatus[i] \notin Running /\ jobStatus'[i] \notin Running,
           \A i \in I : jobAttempt'[i] \in {jobAttempt[i], None},
           \A i \in Jobs \ I : /\ jobStatus'[i] = jobStatus[i]
                               /\ jobWorker'[i] = jobWorker[i]
                               /\ jobAttempt'[i] = jobAttempt[i],
           UNCHANGED <<attemptCount, attemptStatus, attemptWorker, finished, activeLeases,
                       currentJob, enabled>>
    PROVE  Ledger'
<1> USE DEF LedgerInv
<1>1. \A b \in activeLeases : b[1] \in Jobs \ I
  BY AttemptIdFacts DEF LeaseMatchesRows, TypeOK
<1>2. LeaseMatchesRows'
  BY <1>1 DEF LeaseMatchesRows
<1>3. RunningHasLease' /\ CurrentAttemptOwn' /\ FutureAttemptsBlank'
  BY DEF RunningHasLease, CurrentAttemptOwn, FutureAttemptsBlank
<1>4. QED
  BY <1>2, <1>3 DEF Ledger

\* The same for a single job.
LEMMA WaitingJobLedger ==
    ASSUME LedgerInv, NEW j \in Jobs,
           jobStatus[j] \notin Running, jobStatus'[j] \notin Running,
           jobAttempt'[j] \in {jobAttempt[j], None},
           \A i \in Jobs \ {j} : /\ jobStatus'[i] = jobStatus[i]
                                 /\ jobWorker'[i] = jobWorker[i]
                                 /\ jobAttempt'[i] = jobAttempt[i],
           UNCHANGED <<attemptCount, attemptStatus, attemptWorker, finished, activeLeases,
                       currentJob, enabled>>
    PROVE  Ledger'
<1>1. {j} \in SUBSET Jobs
  OBVIOUS
<1>2. /\ \A i \in {j} : jobStatus[i] \notin Running /\ jobStatus'[i] \notin Running
      /\ \A i \in {j} : jobAttempt'[i] \in {jobAttempt[i], None}
  OBVIOUS
<1>3. QED
  BY <1>1, <1>2, WaitingJobsLedger

\* A Worker without an active lease may be enabled, disabled or cleared.
LEMMA IdleWorkerLedger ==
    ASSUME LedgerInv, NEW w \in Workers, LeasesOf(w) = {},
           \A v \in Workers \ {w} : currentJob'[v] = currentJob[v],
           enabled \ {w} \subseteq enabled',
           UNCHANGED <<jobStatus, jobWorker, jobAttempt, attemptCount, attemptStatus,
                       attemptWorker, finished, activeLeases>>
    PROVE  Ledger'
<1> USE DEF LedgerInv
<1>1. \A b \in activeLeases : attemptWorker[b] # w
  BY DEF LeasesOf
<1>2. LeaseMatchesRows'
  BY <1>1 DEF LeaseMatchesRows
<1>3. RunningHasLease' /\ CurrentAttemptOwn' /\ FutureAttemptsBlank'
  BY DEF RunningHasLease, CurrentAttemptOwn, FutureAttemptsBlank
<1>4. QED
  BY <1>2, <1>3 DEF Ledger

\* Every step keeps the ledger consistent.
LEMMA LedgerStep == LedgerInv /\ [Next]_vars => LedgerInv'
<1> SUFFICES ASSUME LedgerInv, [Next]_vars PROVE LedgerInv'
  OBVIOUS
<1>1. TypeOK /\ TypeOK'
  BY TypeStep DEF LedgerInv
<1> SUFFICES Ledger'
  BY <1>1 DEF LedgerInv, Ledger
<1> USE DEF jobVars, attemptVars, leaseVars, workerVars, requestVars
<1>2. ASSUME NEW w \in Workers, RegisterWorker(w) PROVE Ledger'
  BY <1>2 DEF LedgerInv, Ledger, RegisterWorker, LeaseMatchesRows, RunningHasLease,
              CurrentAttemptOwn, FutureAttemptsBlank
<1>3. ASSUME NEW w \in Workers,
             PrepareTokenRotation(w) \/ EndTokenRotation(w) \/ OfflineTick(w)
      PROVE Ledger'
  BY <1>3, LedgerUntouched DEF ledgerVars, PrepareTokenRotation, EndTokenRotation, OfflineTick
<1>4. ASSUME NEW w \in Workers, RevokeIdle(w) PROVE Ledger'
  BY <1>1, <1>4, IdleWorkerLedger DEF TypeOK, RevokeIdle, Disable
<1>5. ASSUME NEW w \in Workers, ReEnrollWorker(w) PROVE Ledger'
  BY <1>5, IdleWorkerLedger DEF ReEnrollWorker
<1>6. ASSUME NEW w \in Workers, RevokeAssigned(w) PROVE Ledger'
  <2>1. PICK a \in AttemptIds :
          /\ a \in activeLeases /\ attemptWorker[a] = w
          /\ jobStatus' = [jobStatus EXCEPT ![a[1]] = "cancelled"]
          /\ CloseAttempt(a, "cancelled")
          /\ currentJob' = [currentJob EXCEPT ![w] = None]
          /\ enabled' = enabled \ {w}
          /\ UNCHANGED <<jobWorker, jobAttempt, attemptCount>>
    BY <1>6 DEF RevokeAssigned, LeasesOf, Disable
  <2>2. QED
    BY <2>1, CloseAttemptLedger DEF Terminal
<1>7. ASSUME NEW j \in Jobs, CreateJob(j) PROVE Ledger'
  BY <1>1, <1>7, WaitingJobLedger, StatusFacts DEF TypeOK, CreateJob
<1>8. ASSUME NEW j \in Jobs, CancelJob(j) PROVE Ledger'
  <2>1. CASE UNCHANGED jobStatus
    BY <1>8, <2>1, LedgerUntouched DEF ledgerVars, CancelJob
  <2>2. CASE jobStatus[j] = "queued" /\ jobStatus' = [jobStatus EXCEPT ![j] = "cancelled"]
    BY <1>1, <1>8, <2>2, WaitingJobLedger, StatusFacts DEF TypeOK, CancelJob
  <2>3. QED
    BY <1>8, <2>1, <2>2 DEF CancelJob
<1>9. ASSUME NEW j \in Jobs, RetryJob(j) PROVE Ledger'
  BY <1>1, <1>9, WaitingJobLedger, StatusFacts DEF TypeOK, RetryJob, RequeueJobs
<1>10. ASSUME NEW j \in Jobs, DamageConfig(j) PROVE Ledger'
  BY <1>10, LedgerUntouched DEF ledgerVars, DamageConfig
<1>11. ASSUME NEW r \in Requests,
              Authenticate(r) \/ RecoverConflicts(r) \/ Refuse(r)
              \/ HeartbeatWithJob(r) \/ HeartbeatIdle(r)
       PROVE Ledger'
  BY <1>11, LedgerUntouched
     DEF ledgerVars, Authenticate, RecoverConflicts, Refuse, HeartbeatWithJob, HeartbeatIdle,
         HeardFrom
<1>12. ASSUME NEW r \in Requests, Recover(r) \/ Poll(r) PROVE Ledger'
  BY <1>12, CloseAbandonedLedger DEF Recover, Poll, PollTaking, Recoverable
<1>13. ASSUME NEW r \in Requests, Claim(r) PROVE Ledger'
  BY <1>13, GrantLedger, RequestIdFacts DEF Claim
<1>14. ASSUME NEW r \in Requests, ClaimQuarantines(r) PROVE Ledger'
  <2>1. DamagedQueued \in SUBSET Jobs
    BY <1>1 DEF TypeOK, DamagedQueued
  <2>2. /\ \A i \in DamagedQueued : jobStatus[i] \notin Running /\ jobStatus'[i] \notin Running
        /\ \A i \in Jobs \ DamagedQueued : jobStatus'[i] = jobStatus[i]
    BY <1>14, <2>1, StatusFacts DEF ClaimQuarantines, Quarantined, DamagedQueued
  <2>3. UNCHANGED <<jobWorker, jobAttempt, attemptCount, attemptStatus, attemptWorker, finished,
                    activeLeases, currentJob, enabled>>
    BY <1>14 DEF ClaimQuarantines
  <2>4. QED
    BY <2>1, <2>2, <2>3, WaitingJobsLedger
<1>15. ASSUME NEW w \in Workers, NEW a \in AttemptIds, RenewLease(w, a) \/ Forget(w, a)
       PROVE Ledger'
  BY <1>15, LedgerUntouched DEF ledgerVars, RenewLease, Forget
<1>16. ASSUME NEW w \in Workers, NEW a \in AttemptIds, NEW t \in Statuses, ReportStage(w, a, t)
       PROVE Ledger'
  <2>1. /\ a \in activeLeases /\ jobAttempt[a[1]] = a /\ a[1] \in Jobs /\ t \in Running
    BY <1>16, AttemptIdFacts, StatusFacts
       DEF ReportStage, MayReport, HoldsActiveLease, LedgerInv, LeaseMatchesRows
  <2>2. \A b \in activeLeases : b \in AttemptIds /\ b[1] \in Jobs /\ (b # a => b[1] # a[1])
    BY <2>1, <1>1, AttemptIdFacts DEF LedgerInv, LeaseMatchesRows, TypeOK
  <2>3. LeaseMatchesRows'
    BY <1>1, <1>16, <2>1, <2>2 DEF ReportStage, LedgerInv, LeaseMatchesRows, TypeOK
  <2>4. RunningHasLease' /\ CurrentAttemptOwn' /\ FutureAttemptsBlank'
    BY <1>1, <1>16, <2>1
       DEF ReportStage, LedgerInv, RunningHasLease, CurrentAttemptOwn, FutureAttemptsBlank, TypeOK
  <2>5. QED
    BY <2>3, <2>4 DEF Ledger
<1>17. ASSUME NEW w \in Workers, NEW a \in AttemptIds, NEW t \in Statuses,
              ReportTerminal(w, a, t)
       PROVE Ledger'
  <2>1. /\ t \in Terminal /\ a \in activeLeases /\ attemptWorker[a] = w
        /\ jobStatus' = [jobStatus EXCEPT ![a[1]] = t]
        /\ CloseAttempt(a, t)
        /\ currentJob' = [currentJob EXCEPT ![w] = None]
        /\ enabled' = enabled
        /\ UNCHANGED <<jobWorker, jobAttempt, attemptCount>>
    BY <1>17 DEF ReportTerminal, MayReport, HoldsActiveLease
  <2>2. QED
    BY <2>1, CloseAttemptLedger
<1>18. ASSUME NEW a \in AttemptIds, LeaseTick(a) PROVE Ledger'
  BY <1>18, LedgerUntouched DEF ledgerVars, LeaseTick
<1>19. CASE UNCHANGED vars
  BY <1>19, LedgerUntouched DEF vars, ledgerVars
<1>20. QED
  BY <1>2, <1>3, <1>4, <1>5, <1>6, <1>7, <1>8, <1>9, <1>10, <1>11, <1>12, <1>13, <1>14, <1>15,
     <1>16, <1>17, <1>18, <1>19, ConstantsAssumption
     DEF Next, WorkerAdmin, UserStep, RequestStep, LeaseStep

\* The strengthened invariant holds in every reachable state.
THEOREM LedgerInvariant == Spec => []LedgerInv
<1>1. Init => LedgerInv
  <2>1. Init => TypeOK
    BY ConstantsAssumption DEF Init, TypeOK
  <2>2. Init => Ledger
    BY TableAssumption DEF Init, Ledger, LeaseMatchesRows, RunningHasLease, CurrentAttemptOwn,
                           FutureAttemptsBlank, Running
  <2>3. QED
    BY <2>1, <2>2 DEF LedgerInv, Ledger
<1>2. QED
  BY <1>1, LedgerStep, PTL DEF Spec

-----------------------------------------------------------------------------
(* The life cycle of an attempt: started once, closed once, then history.  *)

AttemptUntouched(a) ==
    /\ attemptStatus'[a] = attemptStatus[a] /\ attemptWorker'[a] = attemptWorker[a]
    /\ (a \in finished') = (a \in finished)
    /\ (a \in activeLeases') = (a \in activeLeases)
    /\ a \in activeLeases /\ leaseLeft[a] = 0 => leaseLeft'[a] = 0

AttemptStarted(a) == a \notin finished /\ a \notin activeLeases

AttemptMoved(a) ==
    /\ a \in activeLeases /\ a \notin finished
    /\ leaseLeft[a] > 0

AttemptClosed(a) ==
    /\ a \in activeLeases /\ a \notin finished
    /\ a \notin activeLeases' /\ leaseLeft' = leaseLeft
    /\ leaseLeft[a] = 0 => attemptStatus'[a] \in {"failed", "cancelled"}

AttemptStep(a) ==
    AttemptUntouched(a) \/ AttemptStarted(a) \/ AttemptMoved(a) \/ AttemptClosed(a)

\* A step starts an attempt that has left no trace, moves or closes one under a
\* live lease, takes back one whose lease expired, or leaves the attempt alone.
LEMMA AttemptLifeCycle ==
    ASSUME LedgerInv, [Next]_vars, NEW x \in AttemptIds
    PROVE  AttemptStep(x)
<1> USE DEF jobVars, attemptVars, leaseVars, workerVars, requestVars, AttemptStep
<1>1. TypeOK /\ LeaseMatchesRows /\ RunningHasLease /\ FutureAttemptsBlank
  BY DEF LedgerInv
<1>2. ASSUME UNCHANGED <<attemptVars, leaseVars>> PROVE AttemptUntouched(x)
  BY <1>2 DEF AttemptUntouched
<1>3. ASSUME NEW a \in AttemptIds, UNCHANGED <<attemptVars, activeLeases>>,
             leaseLeft[a] > 0, leaseLeft' = [leaseLeft EXCEPT ![a] = LeaseTicks]
      PROVE AttemptUntouched(x)
  <2>1. leaseLeft[a] # 0
    BY <1>1, <1>3, ConstantsAssumption DEF TypeOK
  <2>2. QED
    BY <1>1, <1>3, <2>1 DEF AttemptUntouched, TypeOK
<1>4. ASSUME NEW a \in AttemptIds, LeaseTick(a) PROVE AttemptUntouched(x)
  <2>1. leaseLeft[a] # 0
    BY <1>1, <1>4, ConstantsAssumption DEF TypeOK, LeaseTick
  <2>2. QED
    BY <1>1, <1>4, <2>1 DEF AttemptUntouched, LeaseTick, TypeOK
<1>5. ASSUME NEW w \in Workers, RevokeAssigned(w) PROVE AttemptStep(x)
  BY <1>1, <1>5
     DEF RevokeAssigned, LeasesOf, CloseAttempt, AttemptUntouched, AttemptClosed, TypeOK
<1>6. ASSUME NEW w \in Workers, NEW a \in AttemptIds, NEW t \in Statuses,
             ReportStage(w, a, t) \/ ReportTerminal(w, a, t)
      PROVE AttemptStep(x)
  <2>1. CASE x = a
    BY <1>6, <2>1 DEF ReportStage, ReportTerminal, MayReport, HoldsActiveLease, AttemptMoved
  <2>2. CASE x # a
    BY <1>1, <1>6, <2>2
       DEF ReportStage, ReportTerminal, CloseAttempt, AttemptUntouched, TypeOK
  <2>3. QED
    BY <2>1, <2>2
<1>7. ASSUME NEW r \in Requests, NEW own, NEW S \in SUBSET Abandoned, CloseAbandoned(r, own, S)
      PROVE AttemptStep(x)
  <2>1. /\ finished' = finished \cup S /\ activeLeases' = activeLeases \ S
        /\ attemptWorker' = attemptWorker /\ leaseLeft' = leaseLeft
        /\ x \in S => attemptStatus'[x] \in {"failed", "cancelled"}
        /\ x \notin S => attemptStatus'[x] = attemptStatus[x]
    BY <1>7 DEF CloseAbandoned
  <2>2. CASE x \in S
    BY <1>1, <2>1, <2>2, AttemptIdFacts DEF Abandoned, RunningHasLease, AttemptClosed
  <2>3. CASE x \notin S
    BY <2>1, <2>3 DEF AttemptUntouched
  <2>4. QED
    BY <2>2, <2>3
<1>8. ASSUME NEW r \in Requests, Recover(r) \/ Poll(r) PROVE AttemptStep(x)
  BY <1>7, <1>8 DEF Recover, Poll, PollTaking, Recoverable
<1>9. ASSUME NEW r \in Requests, Claim(r) PROVE AttemptStep(x)
  <2>1. PICK j \in Jobs, Q \in SUBSET DamagedQueued, known \in BOOLEAN : Grant(r[1], j, Q, known)
    BY <1>9 DEF Claim
  <2> DEFINE a == <<j, attemptCount[j] + 1>>
  <2>2. /\ a \in AttemptIds /\ a[1] = j /\ a[2] = attemptCount[j] + 1
        /\ attemptCount[j] \in Nat
    <3>1. attemptCount[j] \in Nat /\ attemptCount[j] + 1 \in 1..MaxAttempts
      BY <1>1, <2>1, ConstantsAssumption DEF Grant, TypeOK
    <3>2. QED
      BY <3>1, AttemptIdFacts
  <2>3. AttemptStarted(a)
    BY <1>1, <2>2 DEF FutureAttemptsBlank, AttemptStarted
  <2>4. /\ attemptStatus' = [attemptStatus EXCEPT ![a] = "assigned"]
        /\ attemptWorker' = [attemptWorker EXCEPT ![a] = r[1]]
        /\ finished' = finished
        /\ activeLeases' = activeLeases \cup {a}
        /\ leaseLeft' = [leaseLeft EXCEPT ![a] = LeaseTicks]
    BY <2>1 DEF Grant
  <2> HIDE DEF a
  <2>5. CASE x # a
    BY <1>1, <2>4, <2>5 DEF AttemptUntouched, TypeOK
  <2>6. QED
    BY <2>3, <2>5
<1>10. ASSUME NEW r \in Requests, HeartbeatWithJob(r) PROVE AttemptStep(x)
  BY <1>1, <1>3, <1>10, RequestIdFacts DEF HeartbeatWithJob, HoldsActiveLease, TypeOK
<1>11. ASSUME NEW w \in Workers, NEW a \in AttemptIds, RenewLease(w, a) PROVE AttemptStep(x)
  BY <1>3, <1>11 DEF RenewLease, HoldsActiveLease
<1>12. ASSUME NEW w \in Workers,
              \/ RegisterWorker(w) \/ PrepareTokenRotation(w) \/ EndTokenRotation(w)
              \/ RevokeIdle(w) \/ ReEnrollWorker(w) \/ OfflineTick(w)
       PROVE AttemptStep(x)
  BY <1>2, <1>12 DEF RegisterWorker, PrepareTokenRotation, EndTokenRotation, RevokeIdle,
                     ReEnrollWorker, OfflineTick
<1>13. ASSUME NEW j \in Jobs, UserStep(j) PROVE AttemptStep(x)
  BY <1>2, <1>13 DEF UserStep, CreateJob, CancelJob, RetryJob, DamageConfig
<1>14. ASSUME NEW r \in Requests,
              \/ Authenticate(r) \/ RecoverConflicts(r) \/ Refuse(r) \/ HeartbeatIdle(r)
              \/ ClaimQuarantines(r)
       PROVE AttemptStep(x)
  BY <1>2, <1>14 DEF Authenticate, RecoverConflicts, Refuse, HeartbeatIdle, ClaimQuarantines
<1>15. ASSUME NEW w \in Workers, NEW a \in AttemptIds, Forget(w, a) PROVE AttemptStep(x)
  BY <1>2, <1>15 DEF Forget
<1>16. CASE UNCHANGED vars
  BY <1>2, <1>16 DEF vars
<1>17. QED
  BY <1>4, <1>5, <1>6, <1>8, <1>9, <1>10, <1>11, <1>12, <1>13, <1>14, <1>15, <1>16,
     ConstantsAssumption
     DEF Next, WorkerAdmin, RequestStep, LeaseStep

\* A finished attempt never changes again and its lease never becomes active
\* again, although its job may be retried or requeued.
THEOREM FinishedAttemptsAreFrozen == Spec => FinishedAttemptFrozen
<1> DEFINE Frozen == \A a \in finished : /\ a \in finished'
                                         /\ attemptStatus'[a] = attemptStatus[a]
                                         /\ attemptWorker'[a] = attemptWorker[a]
                                         /\ a \notin activeLeases'
<1>1. LedgerInv /\ [Next]_vars => Frozen
  BY AttemptLifeCycle
     DEF LedgerInv, LeaseMatchesRows, TypeOK, AttemptStep, AttemptUntouched, AttemptStarted,
         AttemptMoved, AttemptClosed
<1>2. QED
  BY <1>1, LedgerInvariant, PTL DEF Spec, FinishedAttemptFrozen

\* An expired lease is a fence: its holder can neither extend it nor move the
\* job on, and the attempt does not end successfully.
THEOREM ExpiredLeasesAreFenced == Spec => ExpiredLeaseFenced
<1> DEFINE
      Fenced == \A a \in activeLeases :
         leaseLeft[a] = 0 =>
            /\ leaseLeft'[a] = 0
            /\ \/ a \in activeLeases' /\ attemptStatus'[a] = attemptStatus[a]
               \/ a \notin activeLeases' /\ attemptStatus'[a] \in {"failed", "cancelled"}
<1>1. LedgerInv /\ [Next]_vars => Fenced
  <2> SUFFICES ASSUME LedgerInv, [Next]_vars, NEW a \in activeLeases, leaseLeft[a] = 0
               PROVE  /\ leaseLeft'[a] = 0
                      /\ \/ a \in activeLeases' /\ attemptStatus'[a] = attemptStatus[a]
                         \/ a \notin activeLeases' /\ attemptStatus'[a] \in {"failed", "cancelled"}
    OBVIOUS
  <2>1. AttemptUntouched(a) \/ AttemptClosed(a)
    BY AttemptLifeCycle DEF LedgerInv, TypeOK, AttemptStep, AttemptStarted, AttemptMoved
  <2>2. QED
    BY <2>1 DEF AttemptUntouched, AttemptClosed
<1>2. QED
  BY <1>1, LedgerInvariant, PTL DEF Spec, ExpiredLeaseFenced
-----------------------------------------------------------------------------
(* The ledger implements the job queue.                                    *)

owners == [j \in Jobs |-> OwnerOf(jobStatus[j], jobWorker[j])]

\* The four kinds of owner.
LEMMA OwnerCases ==
    /\ \A w : OwnerOf("absent", w) = <<"absent">>
    /\ \A w : OwnerOf("queued", w) = <<"waiting">>
    /\ \A s \in Running : \A w : OwnerOf(s, w) = w
    /\ \A s \in Terminal : \A w : OwnerOf(s, w) = <<"ended">>
BY StatusFacts DEF OwnerOf, Terminal

\* A job that executes is owned by the Worker whose row names it.
LEMMA RunningOwner ==
    ASSUME LedgerInv, NEW j \in Jobs, jobStatus[j] \in Running
    PROVE  jobWorker[j] \in Workers /\ currentJob[jobWorker[j]] = j
<1>1. jobAttempt[j] \in activeLeases /\ jobAttempt[j] # None
  BY AttemptIdFacts DEF LedgerInv, RunningHasLease, TypeOK
<1>2. jobAttempt[j][1] = j
  BY <1>1 DEF LedgerInv, CurrentAttemptOwn
<1>3. QED
  BY <1>1, <1>2 DEF LedgerInv, LeaseMatchesRows

\* A Worker whose row names no job owns none.
LEMMA IdleOwnsNothing ==
    ASSUME LedgerInv, NEW w \in Workers, currentJob[w] = None, NEW j \in Jobs
    PROVE  OwnerOf(jobStatus[j], jobWorker[j]) # w
<1>1. CASE jobStatus[j] \in Running
  BY <1>1, RunningOwner, OwnerCases, ConstantsAssumption
<1>2. CASE jobStatus[j] \notin Running
  BY <1>2, OwnerAssumption DEF OwnerOf
<1>3. QED
  BY <1>1, <1>2

\* A step that changes neither statuses nor owners nor counts is no step of the queue.
LEMMA QueueUntouched ==
    ASSUME UNCHANGED <<jobStatus, jobWorker, attemptCount>>
    PROVE  UNCHANGED <<owners, attemptCount>>
BY DEF owners

\* The end of the run of one job.
LEMMA QueueStopOne ==
    ASSUME LedgerInv, NEW j \in Jobs, jobStatus[j] \in Running, NEW t \in Terminal,
           jobStatus' = [jobStatus EXCEPT ![j] = t], UNCHANGED <<jobWorker, attemptCount>>
    PROVE  Queue!Next
<1>1. TypeOK
  BY DEF LedgerInv
<1>2. owners[j] \in Workers
  BY RunningOwner, OwnerCases DEF owners
<1>3. owners' = [i \in Jobs |-> IF i \in {j} THEN <<"ended">> ELSE IF i \in {} THEN <<"waiting">>
                                ELSE owners[i]]
  BY <1>1, OwnerCases DEF owners, TypeOK
<1>4. Queue!Stop({j}, {})
  BY <1>2, <1>3 DEF Queue!Stop, owners
<1>5. QED
  BY <1>4 DEF Queue!Next

\* A recovery ends the runs of the jobs it closes, and puts some back.
LEMMA QueueRecovery ==
    ASSUME LedgerInv, NEW r \in Requests, NEW own, NEW S \in SUBSET Abandoned,
           CloseAbandoned(r, own, S)
    PROVE  Queue!Next
<1> DEFINE closed == {j \in Jobs : jobAttempt[j] \in S}
           back == {j \in closed : Outcome(j) = "queued"}
           st == [j \in Jobs |-> IF j \in closed THEN Outcome(j) ELSE jobStatus[j]]
<1>1. TypeOK
  BY DEF LedgerInv
<1>2. RequeueJobs(back, st) /\ attemptCount' = attemptCount
  BY DEF CloseAbandoned
<1>3. \A j \in closed : jobStatus[j] \in Running
  BY <1>1, AttemptIdFacts DEF LedgerInv, CurrentAttemptOwn, Abandoned
<1>4. \A j \in closed : owners[j] \in Workers
  BY ZenonT(40), <1>3, RunningOwner, OwnerCases DEF owners
<1>5. \A j \in back : attemptCount[j] < RecoveryMax
  BY DEF Outcome
<1>6. \A j \in closed \ back : Outcome(j) \in Terminal
  BY DEF Outcome, Terminal
<1>7. owners' = [j \in Jobs |-> IF j \in closed \ back THEN <<"ended">>
                                ELSE IF j \in back THEN <<"waiting">> ELSE owners[j]]
  <2>1. owners' = [j \in Jobs |-> OwnerOf(jobStatus'[j], jobWorker'[j])]
    BY DEF owners
  <2>2. \A j \in closed \ back : OwnerOf(jobStatus'[j], jobWorker'[j]) = <<"ended">>
    BY <1>2, <1>6, OwnerCases DEF RequeueJobs
  <2>3. \A j \in back : OwnerOf(jobStatus'[j], jobWorker'[j]) = <<"waiting">>
    BY <1>2, OwnerCases DEF RequeueJobs
  <2>4. \A j \in Jobs \ closed : OwnerOf(jobStatus'[j], jobWorker'[j]) = owners[j]
    BY <1>2 DEF RequeueJobs, owners
  <2> HIDE DEF closed, back
  <2>5. QED
    BY <2>1, <2>2, <2>3, <2>4
<1>8. Queue!Stop(closed \ back, back)
  <2> HIDE DEF closed, back, st
  <2>1. \A j \in (closed \ back) \cup back : owners[j] \in Workers
    BY <1>4 DEF back
  <2>2. QED
    BY <1>2, <1>5, <1>7, <2>1 DEF Queue!Stop, owners
<1>9. closed \ back \in SUBSET Jobs /\ back \in SUBSET Jobs
  OBVIOUS
<1>10. QED
  BY <1>8, <1>9 DEF Queue!Next

\* A claim starts a run of a waiting job by a Worker without one.
LEMMA QueueStart ==
    ASSUME LedgerInv, NEW w \in Workers, NEW j \in Jobs, NEW Q \in SUBSET DamagedQueued,
           NEW known, MayClaim(w), Grant(w, j, Q, known)
    PROVE  Queue!Next
<1>1. TypeOK
  BY DEF LedgerInv
<1>2. /\ jobStatus[j] = "queued" /\ j \notin Q
      /\ \A d \in Q : d \in Jobs /\ jobStatus[d] = "queued"
  BY <1>1 DEF Grant, DamagedQueued, TypeOK
<1>3. owners[j] = <<"waiting">> /\ \A d \in Q : owners[d] = <<"waiting">>
  BY <1>2, OwnerCases DEF owners
<1>4. \A i \in Jobs : owners[i] # w
  BY IdleOwnsNothing DEF owners, MayClaim
<1>5. owners' = [i \in Jobs |-> IF i = j THEN w ELSE IF i \in Q THEN <<"ended">> ELSE owners[i]]
  <2>1. /\ jobStatus' = [Quarantined(Q) EXCEPT ![j] = "assigned"]
        /\ jobWorker' = [jobWorker EXCEPT ![j] = w]
    BY DEF Grant
  <2>2. /\ jobStatus'[j] = "assigned" /\ jobWorker'[j] = w
        /\ \A i \in Jobs \ {j} : /\ jobStatus'[i] = IF i \in Q THEN "failed" ELSE jobStatus[i]
                                 /\ jobWorker'[i] = jobWorker[i]
    BY <1>1, <2>1 DEF Quarantined, TypeOK
  <2>3. OwnerOf(jobStatus'[j], jobWorker'[j]) = w
    BY <2>2, OwnerCases, StatusFacts
  <2>4. \A i \in Jobs \ {j} : OwnerOf(jobStatus'[i], jobWorker'[i])
                                = IF i \in Q THEN <<"ended">> ELSE owners[i]
    BY <2>2, OwnerCases DEF owners, Terminal
  <2>5. owners' = [i \in Jobs |-> OwnerOf(jobStatus'[i], jobWorker'[i])]
    BY DEF owners
  <2>6. QED
    BY <2>3, <2>4, <2>5
<1>6. attemptCount' = [attemptCount EXCEPT ![j] = @ + 1]
  BY DEF Grant
<1>7. Queue!Start(w, j, Q)
  BY <1>2, <1>3, <1>4, <1>5, <1>6 DEF Queue!Start, Queue!Free, owners
<1>8. Q \in SUBSET Jobs
  BY <1>2
<1>9. QED
  BY <1>7, <1>8 DEF Queue!Next

\* Jobs leave the queue without a run.
LEMMA QueueDrop ==
    ASSUME NEW D \in SUBSET Jobs, NEW t \in Terminal, \A d \in D : jobStatus[d] = "queued",
           jobStatus' = [j \in Jobs |-> IF j \in D THEN t ELSE jobStatus[j]],
           UNCHANGED <<jobWorker, attemptCount>>
    PROVE  Queue!Next
<1>1. \A d \in D : owners[d] = <<"waiting">>
  BY OwnerCases DEF owners
<1>2. owners' = [j \in Jobs |-> IF j \in D THEN <<"ended">> ELSE owners[j]]
  BY OwnerCases DEF owners
<1>3. Queue!Drop(D)
  BY <1>1, <1>2 DEF Queue!Drop, owners
<1>4. QED
  BY <1>3 DEF Queue!Next

\* A job enters the queue, for the first time or again.
LEMMA QueueEnter ==
    ASSUME NEW j \in Jobs, jobStatus[j] \in {"absent"} \cup Terminal, NEW w,
           owners' = [owners EXCEPT ![j] = OwnerOf("queued", w)], UNCHANGED attemptCount
    PROVE  Queue!Next
<1>1. owners[j] = <<"absent">> \/ owners[j] = <<"ended">>
  BY OwnerCases DEF owners
<1>2. owners' = [owners EXCEPT ![j] = <<"waiting">>]
  BY OwnerCases
<1>3. Queue!Submit(j) \/ Queue!Requeue(j)
  BY <1>1, <1>2 DEF Queue!Submit, Queue!Requeue, owners
<1>4. QED
  BY <1>3 DEF Queue!Next
\* Every step of the ledger is a step of the queue or leaves it alone.
LEMMA QueueStep == LedgerInv /\ [Next]_vars => [Queue!Next]_<<owners, attemptCount>>
<1> SUFFICES ASSUME LedgerInv, [Next]_vars
             PROVE  Queue!Next \/ UNCHANGED <<owners, attemptCount>>
  OBVIOUS
<1>1. TypeOK
  BY DEF LedgerInv
<1> USE DEF jobVars, attemptVars, leaseVars, workerVars, requestVars
<1>2. ASSUME NEW w \in Workers,
             \/ RegisterWorker(w) \/ PrepareTokenRotation(w) \/ EndTokenRotation(w)
             \/ RevokeIdle(w) \/ ReEnrollWorker(w) \/ OfflineTick(w)
      PROVE UNCHANGED <<owners, attemptCount>>
  BY <1>2, QueueUntouched DEF RegisterWorker, PrepareTokenRotation, EndTokenRotation, RevokeIdle,
                              ReEnrollWorker, OfflineTick
<1>3. ASSUME NEW w \in Workers, RevokeAssigned(w) PROVE Queue!Next
  <2>1. PICK a \in AttemptIds :
          /\ a \in activeLeases
          /\ jobStatus' = [jobStatus EXCEPT ![a[1]] = "cancelled"]
          /\ UNCHANGED <<jobWorker, attemptCount>>
    BY <1>3 DEF RevokeAssigned, LeasesOf
  <2>2. a[1] \in Jobs /\ jobStatus[a[1]] \in Running
    BY <2>1, AttemptIdFacts DEF LedgerInv, LeaseMatchesRows
  <2>3. QED
    BY <2>1, <2>2, QueueStopOne DEF Terminal
<1>4. ASSUME NEW j \in Jobs, CreateJob(j) PROVE Queue!Next
  <2>1. owners' = [owners EXCEPT ![j] = OwnerOf("queued", jobWorker[j])]
    BY <1>1, <1>4 DEF CreateJob, owners, TypeOK
  <2>2. jobStatus[j] = "absent" /\ attemptCount' = attemptCount
    BY <1>4 DEF CreateJob
  <2>3. QED
    BY <2>1, <2>2, QueueEnter
<1>5. ASSUME NEW j \in Jobs, CancelJob(j) PROVE Queue!Next \/ UNCHANGED <<owners, attemptCount>>
  <2>1. CASE UNCHANGED jobStatus
    BY <1>5, <2>1, QueueUntouched DEF CancelJob
  <2>2. CASE jobStatus[j] = "queued" /\ jobStatus' = [jobStatus EXCEPT ![j] = "cancelled"]
    <3> DEFINE D == {j}
    <3>1. /\ jobStatus' = [i \in Jobs |-> IF i \in D THEN "cancelled" ELSE jobStatus[i]]
          /\ UNCHANGED <<jobWorker, attemptCount>>
      BY <1>1, <1>5, <2>2 DEF CancelJob, TypeOK
    <3>2. D \in SUBSET Jobs /\ \A d \in D : jobStatus[d] = "queued"
      BY <2>2
    <3>3. "cancelled" \in Terminal
      BY DEF Terminal
    <3> HIDE DEF D
    <3>4. QED
      BY <3>1, <3>2, <3>3, QueueDrop
  <2>3. QED
    BY <1>5, <2>1, <2>2 DEF CancelJob
<1>6. ASSUME NEW j \in Jobs, RetryJob(j) PROVE Queue!Next
  <2>1. owners' = [owners EXCEPT ![j] = OwnerOf("queued", None)]
    BY <1>1, <1>6 DEF RetryJob, RequeueJobs, owners, TypeOK
  <2>2. jobStatus[j] \in Terminal /\ attemptCount' = attemptCount
    BY <1>6 DEF RetryJob, Terminal
  <2>3. QED
    BY <2>1, <2>2, QueueEnter
<1>7. ASSUME NEW j \in Jobs, DamageConfig(j) PROVE UNCHANGED <<owners, attemptCount>>
  BY <1>7, QueueUntouched DEF DamageConfig
<1>8. ASSUME NEW r \in Requests,
             Authenticate(r) \/ RecoverConflicts(r) \/ Refuse(r)
             \/ HeartbeatWithJob(r) \/ HeartbeatIdle(r)
      PROVE UNCHANGED <<owners, attemptCount>>
  BY <1>8, QueueUntouched
     DEF Authenticate, RecoverConflicts, Refuse, HeartbeatWithJob, HeartbeatIdle
<1>9. ASSUME NEW r \in Requests, Recover(r) \/ Poll(r) PROVE Queue!Next
  BY <1>9, QueueRecovery DEF Recover, Poll, PollTaking, Recoverable
<1>10. ASSUME NEW r \in Requests, Claim(r) PROVE Queue!Next
  BY <1>10, QueueStart, RequestIdFacts DEF Claim
<1>11. ASSUME NEW r \in Requests, ClaimQuarantines(r) PROVE Queue!Next
  <2>1. DamagedQueued \in SUBSET Jobs /\ \A d \in DamagedQueued : jobStatus[d] = "queued"
    BY <1>1 DEF TypeOK, DamagedQueued
  <2>2. /\ jobStatus' = [j \in Jobs |-> IF j \in DamagedQueued THEN "failed" ELSE jobStatus[j]]
        /\ UNCHANGED <<jobWorker, attemptCount>>
    BY <1>11 DEF ClaimQuarantines, Quarantined
  <2>3. QED
    BY <2>1, <2>2, QueueDrop DEF Terminal
<1>12. ASSUME NEW w \in Workers, NEW a \in AttemptIds, RenewLease(w, a) \/ Forget(w, a)
       PROVE UNCHANGED <<owners, attemptCount>>
  BY <1>12, QueueUntouched DEF RenewLease, Forget
<1>13. ASSUME NEW w \in Workers, NEW a \in AttemptIds, NEW t \in Statuses, ReportStage(w, a, t)
       PROVE UNCHANGED <<owners, attemptCount>>
  <2>1. a[1] \in Jobs /\ jobStatus[a[1]] \in Running /\ t \in Running
    BY <1>13, AttemptIdFacts, StatusFacts
       DEF ReportStage, MayReport, HoldsActiveLease, LedgerInv, LeaseMatchesRows
  <2>2. /\ jobStatus' = [jobStatus EXCEPT ![a[1]] = t]
        /\ UNCHANGED <<jobWorker, attemptCount>>
    BY <1>13 DEF ReportStage
  <2>3. QED
    BY <1>1, <2>1, <2>2, OwnerCases DEF owners, TypeOK
<1>14. ASSUME NEW w \in Workers, NEW a \in AttemptIds, NEW t \in Statuses, ReportTerminal(w, a, t)
       PROVE Queue!Next
  <2>1. a[1] \in Jobs /\ jobStatus[a[1]] \in Running /\ t \in Terminal
    BY <1>14, AttemptIdFacts
       DEF ReportTerminal, MayReport, HoldsActiveLease, LedgerInv, LeaseMatchesRows
  <2>2. QED
    BY <1>14, <2>1, QueueStopOne DEF ReportTerminal
<1>15. ASSUME NEW a \in AttemptIds, LeaseTick(a) PROVE UNCHANGED <<owners, attemptCount>>
  BY <1>15, QueueUntouched DEF LeaseTick
<1>16. CASE UNCHANGED vars
  BY <1>16, QueueUntouched DEF vars
<1>17. QED
  BY <1>2, <1>3, <1>4, <1>5, <1>6, <1>7, <1>8, <1>9, <1>10, <1>11, <1>12, <1>13, <1>14, <1>15,
     <1>16, ConstantsAssumption
     DEF Next, WorkerAdmin, UserStep, RequestStep, LeaseStep

\* The rows that claims, reports, cancellations, revocations, retries and recoveries
\* write implement a job queue: one Worker per job, one job per Worker, a new run
\* number for every start, no requeueing beyond lease_recovery_max_attempts.
THEOREM LedgerImplementsJobQueue == Spec => ImplementsJobQueue
<1>1. Init => Queue!Init
  BY OwnerCases DEF Init, Queue!Init
<1>2. QED
  BY <1>1, LedgerInvariant, QueueStep, PTL
  DEF Spec, ImplementsJobQueue, Queue!Spec, owners
-----------------------------------------------------------------------------
(* Cancellation and token rotation.                                        *)

\* What one step may do to the status of a job that executes under a request to
\* cancel it.
LEMMA CancelStep ==
    ASSUME LedgerInv, [Next]_vars, NEW j \in cancelRequested, jobStatus[j] \in Running
    PROVE  jobStatus'[j] \in {jobStatus[j], "cancelled"}
<1> USE DEF jobVars, attemptVars, leaseVars, workerVars, requestVars
<1>1. TypeOK /\ j \in Jobs /\ jobStatus[j] \notin {"absent", "queued", "failed"}
  BY StatusFacts DEF LedgerInv, TypeOK
<1>2. ASSUME NEW w \in Workers, WorkerAdmin(w) \/ RegisterWorker(w) \/ OfflineTick(w)
      PROVE jobStatus'[j] \in {jobStatus[j], "cancelled"}
  BY <1>1, <1>2, AttemptIdFacts
     DEF WorkerAdmin, RegisterWorker, PrepareTokenRotation, EndTokenRotation, RevokeIdle,
         RevokeAssigned, ReEnrollWorker, OfflineTick, TypeOK
<1>3. ASSUME NEW i \in Jobs, UserStep(i) PROVE jobStatus'[j] \in {jobStatus[j], "cancelled"}
  BY <1>1, <1>3 DEF UserStep, CreateJob, CancelJob, RetryJob, RequeueJobs, DamageConfig, TypeOK
<1>4. ASSUME NEW r \in Requests, NEW own, NEW S \in SUBSET Abandoned, CloseAbandoned(r, own, S)
      PROVE jobStatus'[j] \in {jobStatus[j], "cancelled"}
  BY <1>1, <1>4 DEF CloseAbandoned, RequeueJobs, Outcome
<1>5. ASSUME NEW r \in Requests, Recover(r) \/ Poll(r)
      PROVE jobStatus'[j] \in {jobStatus[j], "cancelled"}
  BY <1>4, <1>5 DEF Recover, Poll, PollTaking, Recoverable
<1>6. ASSUME NEW r \in Requests, Claim(r) \/ ClaimQuarantines(r)
      PROVE jobStatus'[j] \in {jobStatus[j], "cancelled"}
  BY <1>1, <1>6 DEF Claim, Grant, ClaimQuarantines, Quarantined, DamagedQueued
<1>7. ASSUME NEW r \in Requests,
             Authenticate(r) \/ RecoverConflicts(r) \/ Refuse(r)
             \/ HeartbeatWithJob(r) \/ HeartbeatIdle(r)
      PROVE jobStatus'[j] \in {jobStatus[j], "cancelled"}
  BY <1>7 DEF Authenticate, RecoverConflicts, Refuse, HeartbeatWithJob, HeartbeatIdle
<1>8. ASSUME NEW w \in Workers, NEW a \in AttemptIds, LeaseStep(w, a)
      PROVE jobStatus'[j] \in {jobStatus[j], "cancelled"}
  BY <1>1, <1>8, AttemptIdFacts
     DEF LeaseStep, RenewLease, Forget, ReportStage, ReportTerminal, MayReport, Terminal, TypeOK
<1>9. ASSUME NEW a \in AttemptIds, LeaseTick(a)
      PROVE jobStatus'[j] \in {jobStatus[j], "cancelled"}
  BY <1>9 DEF LeaseTick
<1>10. CASE UNCHANGED vars
  BY <1>10 DEF vars
<1>11. QED
  BY <1>2, <1>3, <1>5, <1>6, <1>7, <1>8, <1>9, <1>10, ConstantsAssumption
     DEF Next, RequestStep

\* A request to cancel an executing job is obeyed by whatever ends it: a report, a
\* recovery of its lease or the revocation of its Worker (cancel_job,
\* update_job_status, recover_expired_leases).
THEOREM CancellationWins == Spec => CancelWins
<1> DEFINE Wins == \A j \in cancelRequested :
                      jobStatus[j] \in Running /\ jobStatus'[j] # jobStatus[j]
                        => jobStatus'[j] = "cancelled"
<1>1. LedgerInv /\ [Next]_vars => Wins
  BY CancelStep
<1>2. QED
  BY <1>1, LedgerInvariant, PTL DEF Spec, CancelWins

\* A Worker with a pending rotation has no assignment.
RotatingIdle == \A w \in rotating : currentJob[w] = None

LEMMA RotatingStep ==
    ASSUME LedgerInv, RotatingIdle, [Next]_vars
    PROVE  RotatingIdle'
<1> USE DEF jobVars, attemptVars, leaseVars, workerVars, requestVars
<1>1. TypeOK
  BY DEF LedgerInv
<1>2. ASSUME NEW w \in Workers, WorkerAdmin(w) PROVE RotatingIdle'
  BY <1>1, <1>2
     DEF WorkerAdmin, PrepareTokenRotation, EndTokenRotation, RevokeIdle, RevokeAssigned,
         ReEnrollWorker, Disable, RotatingIdle, TypeOK
<1>3. ASSUME NEW w \in Workers, RegisterWorker(w) \/ OfflineTick(w) PROVE RotatingIdle'
  BY <1>3 DEF RegisterWorker, OfflineTick, RotatingIdle
<1>4. ASSUME NEW j \in Jobs, UserStep(j) PROVE RotatingIdle'
  BY <1>4 DEF UserStep, CreateJob, CancelJob, RetryJob, DamageConfig, RotatingIdle
<1>5. ASSUME NEW r \in Requests, NEW own, NEW S, CloseAbandoned(r, own, S) PROVE RotatingIdle'
  BY <1>1, <1>5 DEF CloseAbandoned, RotatingIdle, TypeOK
<1>6. ASSUME NEW r \in Requests, Recover(r) \/ Poll(r) PROVE RotatingIdle'
  BY <1>5, <1>6 DEF Recover, Poll, PollTaking
<1>7. ASSUME NEW r \in Requests, Claim(r) PROVE RotatingIdle'
  BY <1>1, <1>7 DEF Claim, Grant, MayClaim, RotatingIdle, TypeOK
<1>8. ASSUME NEW r \in Requests,
             \/ Authenticate(r) \/ RecoverConflicts(r) \/ Refuse(r)
             \/ HeartbeatWithJob(r) \/ HeartbeatIdle(r) \/ ClaimQuarantines(r)
      PROVE RotatingIdle'
  BY <1>8 DEF Authenticate, RecoverConflicts, Refuse, HeartbeatWithJob, HeartbeatIdle,
              ClaimQuarantines, HeardFrom, RotatingIdle
<1>9. ASSUME NEW w \in Workers, NEW a \in AttemptIds, LeaseStep(w, a) PROVE RotatingIdle'
  BY <1>1, <1>9 DEF LeaseStep, RenewLease, Forget, ReportStage, ReportTerminal, RotatingIdle, TypeOK
<1>10. ASSUME NEW a \in AttemptIds, LeaseTick(a) PROVE RotatingIdle'
  BY <1>10 DEF LeaseTick, RotatingIdle
<1>11. CASE UNCHANGED vars
  BY <1>11 DEF vars, RotatingIdle
<1>12. QED
  BY <1>2, <1>3, <1>4, <1>6, <1>7, <1>8, <1>9, <1>10, <1>11, ConstantsAssumption
     DEF Next, RequestStep

\* A claim and the preparation of a token rotation exclude each other, whichever
\* commits first (claim_job, prepare_token_rotation).
LEMMA PendingRotationMeansIdle == Spec => []PendingMeansIdle
<1>1. Init => RotatingIdle
  BY DEF Init, RotatingIdle
<1>2. LedgerInv /\ RotatingIdle => PendingMeansIdle
  <2> SUFFICES ASSUME LedgerInv, RotatingIdle, NEW w \in rotating
               PROVE  currentJob[w] = None /\ LeasesOf(w) = {}
    BY DEF PendingMeansIdle
  <2>1. currentJob[w] = None
    BY DEF RotatingIdle
  <2>2. \A a \in activeLeases : attemptWorker[a] = w => currentJob[w] \in Jobs
    BY AttemptIdFacts DEF LedgerInv, LeaseMatchesRows, TypeOK
  <2>3. QED
    BY <2>1, <2>2, ConstantsAssumption DEF LeasesOf
<1>3. LedgerInv /\ RotatingIdle /\ [Next]_vars => RotatingIdle'
  BY RotatingStep
<1>4. QED
  BY <1>1, <1>2, <1>3, LedgerInvariant, PTL DEF Spec

\* No interleaving of claims, heartbeats, reports, revocations, rotations, retries and
\* recoveries leaves an executing job without a lease, a lease whose job, attempt and
\* Worker rows disagree, or an assignment beside a pending rotation.
THEOREM LedgerIsConsistent == Spec => []LedgerConsistent
<1>1. LedgerInv /\ PendingMeansIdle => LedgerConsistent
  BY DEF LedgerInv, LedgerConsistent
<1>2. QED
  BY <1>1, LedgerInvariant, PendingRotationMeansIdle, PTL
-----------------------------------------------------------------------------
(* Both sides of an assignment end together, unless a request of the same  *)
(* Worker was overtaken between its authentication and its recovery.       *)

\* No polling loop of the Worker is ever overtaken before it recovers.
Prompt(w) == \A r \in Slow : r[1] # w

\* The job that the Worker's row names is backed by one of its leases.
Backed(w) == currentJob[w] # None => \E a \in LeasesOf(w) : a[1] = currentJob[w]

PromptBacked ==
    /\ \A r \in Requests : stage[r] = "auth" => r \in Slow
    /\ \A w \in Workers : Prompt(w) => Backed(w)

\* A step keeps a Worker backed that changes neither its row nor its leases.
LEMMA BackedUntouched ==
    ASSUME NEW w \in Workers, Backed(w), currentJob'[w] = currentJob[w],
           \A a \in LeasesOf(w) : a \in activeLeases' /\ attemptWorker'[a] = attemptWorker[a]
    PROVE  Backed(w)'
BY DEF Backed, LeasesOf

\* A recovery that reads the Worker's row as it is clears every assignment whose
\* lease it takes.
LEMMA BackedRecovery ==
    ASSUME TypeOK, NEW w \in Workers, Backed(w), NEW r \in Requests, NEW own,
           NEW S \in SUBSET AttemptIds, CloseAbandoned(r, own, S),
           r[1] = w => own = currentJob[w]
    PROVE  Backed(w)'
<1>1. SeenCurrent(r[1], own, w) = currentJob[w]
  BY DEF SeenCurrent
<1>2. /\ activeLeases' = activeLeases \ S /\ attemptWorker' = attemptWorker
      /\ currentJob'[w] = IF w \in Freed(r[1], own, S) THEN None ELSE currentJob[w]
  BY DEF CloseAbandoned
<1>3. CASE w \in Freed(r[1], own, S)
  BY <1>2, <1>3 DEF Backed
<1>4. CASE w \notin Freed(r[1], own, S)
  <2>1. SUFFICES ASSUME currentJob'[w] # None
                 PROVE  \E a \in LeasesOf(w)' : a[1] = currentJob'[w]
    BY DEF Backed
  <2>2. PICK a \in LeasesOf(w) : a[1] = currentJob[w]
    BY <1>2, <1>4, <2>1 DEF Backed
  <2>3. a \notin S
    BY <1>1, <1>4, <2>2 DEF Freed, LeasesOf
  <2>4. QED
    BY <1>2, <1>4, <2>2, <2>3 DEF LeasesOf
<1>5. QED
  BY <1>3, <1>4

LEMMA PromptStep ==
    ASSUME LedgerInv, PromptBacked, [Next]_vars
    PROVE  PromptBacked'
<1> USE DEF jobVars, attemptVars, leaseVars, workerVars, requestVars
<1>1. TypeOK
  BY DEF LedgerInv
<1>2. \A r \in Requests : stage'[r] = "auth" => r \in Slow
  <2>1. SUFFICES ASSUME NEW x \in Requests, stage'[x] = "auth", x \notin Slow PROVE FALSE
    OBVIOUS
  <2>2. stage[x] # "auth"
    BY <2>1 DEF PromptBacked
  <2>3. ASSUME UNCHANGED stage PROVE FALSE
    BY <2>1, <2>2, <2>3
  <2>4. ASSUME NEW r \in Requests, RequestStep(r) PROVE FALSE
    <3>1. CASE Authenticate(r)
      BY <1>1, <2>1, <2>2, <3>1 DEF Authenticate, TypeOK
    <3>2. ASSUME NEW own, NEW S, CloseAbandoned(r, own, S) PROVE FALSE
      BY <1>1, <2>1, <2>2, <3>2 DEF CloseAbandoned, TypeOK
    <3>3. CASE Recover(r) \/ Poll(r)
      BY <3>2, <3>3 DEF Recover, Poll, PollTaking
    <3>4. ASSUME NEW v \in {"none", "recovered"}, stage' = [stage EXCEPT ![r] = v] PROVE FALSE
      BY <1>1, <2>1, <2>2, <3>4 DEF TypeOK
    <3>5. QED
      BY <2>4, <3>1, <3>3, <3>4
         DEF RequestStep, RecoverConflicts, Refuse, HeartbeatWithJob, HeartbeatIdle, Claim,
             ClaimQuarantines, EndRequest
  <2>5. CASE \E w \in Administered : WorkerAdmin(w)
    BY <2>3, <2>5 DEF WorkerAdmin, PrepareTokenRotation, EndTokenRotation, RevokeIdle,
                      RevokeAssigned, ReEnrollWorker, Disable, Touch
  <2>6. CASE \E w \in Workers, a \in AttemptIds : LeaseStep(w, a)
    BY <2>3, <2>6 DEF LeaseStep, RenewLease, Forget, ReportStage, ReportTerminal, Touch
  <2>7. QED
    BY <2>3, <2>4, <2>5, <2>6
       DEF Next, RegisterWorker, OfflineTick, UserStep, CreateJob, CancelJob, RetryJob,
           DamageConfig, LeaseTick, vars
<1>3. SUFFICES ASSUME NEW v \in Workers, Prompt(v) PROVE Backed(v)'
  BY <1>2 DEF PromptBacked, Prompt
<1>4. Backed(v)
  BY <1>3 DEF PromptBacked
<1>5. ASSUME UNCHANGED <<currentJob, activeLeases, attemptWorker>> PROVE Backed(v)'
  BY <1>4, <1>5, BackedUntouched DEF LeasesOf
<1>6. ASSUME NEW w \in Workers, RevokeIdle(w) PROVE Backed(v)'
  <2>1. CASE v = w
    BY <1>1, <1>6, <2>1 DEF RevokeIdle, Disable, Backed, TypeOK
  <2>2. CASE v # w
    BY <1>1, <1>4, <1>6, <2>2, BackedUntouched DEF RevokeIdle, Disable, LeasesOf, TypeOK
  <2>3. QED
    BY <2>1, <2>2
<1>7. ASSUME NEW w \in Workers, NEW a \in AttemptIds, NEW t, attemptWorker[a] = w,
             CloseAttempt(a, t), currentJob' = [currentJob EXCEPT ![w] = None]
      PROVE Backed(v)'
  <2>1. CASE v = w
    BY <1>1, <1>7, <2>1 DEF Backed, TypeOK
  <2>2. CASE v # w
    BY <1>1, <1>4, <1>7, <2>2, BackedUntouched DEF CloseAttempt, LeasesOf, TypeOK
  <2>3. QED
    BY <2>1, <2>2
<1>8. ASSUME NEW w \in Workers, RevokeAssigned(w) PROVE Backed(v)'
  <2>1. PICK a \in AttemptIds : /\ attemptWorker[a] = w
                                /\ CloseAttempt(a, "cancelled")
                                /\ currentJob' = [currentJob EXCEPT ![w] = None]
    BY <1>8 DEF RevokeAssigned, LeasesOf, Disable
  <2>2. QED
    BY <1>7, <2>1
<1>9. ASSUME NEW w \in Workers, WorkerAdmin(w) PROVE Backed(v)'
  BY <1>5, <1>6, <1>8, <1>9
     DEF WorkerAdmin, PrepareTokenRotation, EndTokenRotation, ReEnrollWorker
<1>10. ASSUME NEW r \in Requests, Recover(r) PROVE Backed(v)'
  <2>1. r[1] # v
    BY <1>3, <1>10 DEF Recover, PromptBacked, Prompt
  <2>2. PICK S \in SUBSET AttemptIds : CloseAbandoned(r, seen[r], S)
    BY <1>10 DEF Recover, Recoverable, Abandoned
  <2>3. QED
    BY <1>1, <1>4, <2>1, <2>2, BackedRecovery
<1>11. ASSUME NEW r \in Requests, Poll(r) PROVE Backed(v)'
  <2>1. PICK S \in SUBSET AttemptIds : CloseAbandoned(r, currentJob[r[1]], S)
    BY <1>11 DEF Poll, PollTaking, Recoverable, Abandoned
  <2>2. QED
    BY <1>1, <1>4, <2>1, BackedRecovery
<1>12. ASSUME NEW r \in Requests, Claim(r) PROVE Backed(v)'
  <2>1. PICK j \in Jobs, Q \in SUBSET DamagedQueued, known \in BOOLEAN : Grant(r[1], j, Q, known)
    BY <1>12 DEF Claim
  <2> DEFINE a == <<j, attemptCount[j] + 1>>
  <2>2. /\ a \in AttemptIds /\ a[1] = j /\ a \notin activeLeases
    <3>1. attemptCount[j] \in Nat /\ attemptCount[j] + 1 \in 1..MaxAttempts
      BY <1>1, <2>1, ConstantsAssumption DEF Grant, TypeOK
    <3>2. a \in AttemptIds /\ a[1] = j /\ a[2] = attemptCount[j] + 1
      BY <3>1, AttemptIdFacts
    <3>3. QED
      BY <3>1, <3>2 DEF LedgerInv, FutureAttemptsBlank
  <2>3. /\ attemptWorker' = [attemptWorker EXCEPT ![a] = r[1]]
        /\ activeLeases' = activeLeases \cup {a}
        /\ currentJob' = [currentJob EXCEPT ![r[1]] = j]
    BY <2>1 DEF Grant
  <2> HIDE DEF a
  <2>4. CASE v = r[1]
    <3>1. attemptWorker'[a] = v /\ a \in activeLeases' /\ currentJob'[v] = a[1]
      BY <1>1, <2>2, <2>3, <2>4 DEF TypeOK
    <3>2. QED
      BY <3>1 DEF Backed, LeasesOf
  <2>5. CASE v # r[1]
    <3>1. currentJob'[v] = currentJob[v]
      BY <1>1, <2>3, <2>5 DEF TypeOK
    <3>2. \A b \in LeasesOf(v) : b \in activeLeases' /\ attemptWorker'[b] = attemptWorker[b]
      BY <1>1, <2>2, <2>3 DEF LeasesOf, TypeOK
    <3>3. QED
      BY <1>4, <3>1, <3>2, BackedUntouched
  <2>6. QED
    BY <2>4, <2>5
<1>13. ASSUME NEW r \in Requests, RequestStep(r) PROVE Backed(v)'
  BY <1>5, <1>10, <1>11, <1>12, <1>13
     DEF RequestStep, Authenticate, RecoverConflicts, Refuse, HeartbeatWithJob, HeartbeatIdle,
         HeardFrom, ClaimQuarantines
<1>14. ASSUME NEW w \in Workers, NEW a \in AttemptIds, LeaseStep(w, a) PROVE Backed(v)'
  <2>1. ASSUME NEW t \in Statuses, ReportTerminal(w, a, t) PROVE Backed(v)'
    BY <1>7, <2>1 DEF ReportTerminal, MayReport, HoldsActiveLease
  <2>2. QED
    BY <1>5, <1>14, <2>1 DEF LeaseStep, RenewLease, Forget, ReportStage
<1>15. QED
  BY <1>5, <1>9, <1>13, <1>14, ConstantsAssumption
     DEF Next, RegisterWorker, OfflineTick, UserStep, CreateJob, CancelJob, RetryJob,
         DamageConfig, LeaseTick, vars

\* A Worker none of whose requests is overtaken between require_worker and
\* recover_expired_leases never names a job without an active lease on it, however
\* slow the requests of the other Workers are.
THEOREM PromptWorkersAreBacked == Spec => [](\A w \in Workers : Prompt(w) => Backed(w))
<1>1. Init => PromptBacked
  BY DEF Init, PromptBacked, Backed
<1>2. LedgerInv /\ PromptBacked /\ [Next]_vars => PromptBacked'
  BY PromptStep
<1>3. PromptBacked => \A w \in Workers : Prompt(w) => Backed(w)
  BY DEF PromptBacked
<1>4. QED
  BY <1>1, <1>2, <1>3, LedgerInvariant, PTL DEF Spec

\* What require_active_lease says of recovery, that it clears both sides of an
\* assignment together, holds when no request is overtaken between its
\* authentication and its recovery.
THEOREM NoOrphansWithoutSlowRequests ==
    ASSUME Slow = {}
    PROVE  Spec => []NoOrphanAssignment
<1>1. (\A w \in Workers : Prompt(w) => Backed(w)) => NoOrphanAssignment
  BY DEF Prompt, Backed, NoOrphanAssignment
<1>2. QED
  BY <1>1, PromptWorkersAreBacked, PTL

-----------------------------------------------------------------------------
(* How often a job may run.                                                *)

\* The first runs, up to lease_recovery_max_attempts, and one for each manual retry.
RunBudget(j) == (IF RecoveryMax = 0 THEN 1 ELSE RecoveryMax) + retried[j]

\* A job that waits for a run has one left.
WithinBudget(j) ==
    /\ attemptCount[j] <= RunBudget(j)
    /\ jobStatus[j] \in {"absent", "queued"} => attemptCount[j] < RunBudget(j)

\* A step that starts no run, spends no retry and puts no job into the queue.
LEMMA BudgetUntouched ==
    ASSUME NEW j \in Jobs, WithinBudget(j),
           attemptCount'[j] = attemptCount[j], retried'[j] = retried[j],
           jobStatus'[j] \in {"absent", "queued"} => jobStatus[j] \in {"absent", "queued"}
    PROVE  WithinBudget(j)'
  BY DEF WithinBudget, RunBudget

LEMMA BudgetStep ==
    ASSUME LedgerInv, [Next]_vars, NEW j \in Jobs, WithinBudget(j)
    PROVE  WithinBudget(j)'
<1> USE DEF jobVars, attemptVars, leaseVars, workerVars, requestVars
<1>1. /\ TypeOK /\ attemptCount[j] \in Nat /\ retried[j] \in Nat /\ RecoveryMax \in Nat
  BY ConstantsAssumption DEF LedgerInv, TypeOK
<1>2. ASSUME NEW w \in Workers, WorkerAdmin(w) \/ RegisterWorker(w) \/ OfflineTick(w)
      PROVE WithinBudget(j)'
  <2>1. jobStatus'[j] \in {jobStatus[j], "cancelled"} /\ UNCHANGED <<attemptCount, retried>>
    BY <1>1, <1>2, AttemptIdFacts
       DEF WorkerAdmin, RegisterWorker, PrepareTokenRotation, EndTokenRotation, RevokeIdle,
           RevokeAssigned, ReEnrollWorker, OfflineTick, TypeOK
  <2> QED BY <2>1, BudgetUntouched
<1>3. ASSUME NEW i \in Jobs, CreateJob(i) \/ CancelJob(i) \/ DamageConfig(i)
      PROVE WithinBudget(j)'
  <2>1. /\ UNCHANGED <<attemptCount, retried>>
        /\ jobStatus'[j] = "queued" => jobStatus[j] \in {"absent", "queued"}
        /\ jobStatus'[j] = "absent" => jobStatus[j] = "absent"
    BY <1>1, <1>3 DEF CreateJob, CancelJob, DamageConfig, TypeOK
  <2> QED BY <2>1, BudgetUntouched
<1>4. ASSUME NEW i \in Jobs, RetryJob(i) PROVE WithinBudget(j)'
  <2>1. CASE i = j
    <3>1. attemptCount'[j] = attemptCount[j] /\ retried'[j] = retried[j] + 1
      BY <1>1, <1>4, <2>1 DEF RetryJob, TypeOK
    <3> QED BY <1>1, <3>1 DEF WithinBudget, RunBudget
  <2>2. CASE i # j
    <3>1. /\ attemptCount'[j] = attemptCount[j] /\ retried'[j] = retried[j]
          /\ jobStatus'[j] = jobStatus[j]
      BY <1>1, <1>4, <2>2 DEF RetryJob, RequeueJobs, TypeOK
    <3> QED BY <3>1, BudgetUntouched
  <2> QED BY <2>1, <2>2
<1>5. ASSUME NEW r \in Requests, NEW own, NEW S \in SUBSET Abandoned, CloseAbandoned(r, own, S)
      PROVE WithinBudget(j)'
  <2>1. /\ attemptCount'[j] = attemptCount[j] /\ retried'[j] = retried[j]
        /\ jobStatus'[j] = jobStatus[j]
           \/ jobStatus'[j] \in {"cancelled", "failed"}
           \/ (jobStatus'[j] = "queued" /\ attemptCount[j] < RecoveryMax)
    BY <1>5 DEF CloseAbandoned, RequeueJobs, Outcome
  <2>2. CASE attemptCount[j] < RecoveryMax
    BY <1>1, <2>1, <2>2 DEF WithinBudget, RunBudget
  <2>3. CASE ~(attemptCount[j] < RecoveryMax)
    BY <2>1, <2>3, BudgetUntouched
  <2> QED BY <2>2, <2>3
<1>6. ASSUME NEW r \in Requests, Recover(r) \/ Poll(r) PROVE WithinBudget(j)'
  BY <1>5, <1>6 DEF Recover, Poll, PollTaking, Recoverable
<1>7. ASSUME NEW w, NEW i \in Jobs, NEW Q, NEW known, Grant(w, i, Q, known)
      PROVE WithinBudget(j)'
  <2>1. CASE i = j
    <3>1. /\ attemptCount'[j] = attemptCount[j] + 1 /\ retried'[j] = retried[j]
          /\ jobStatus[j] = "queued" /\ jobStatus'[j] = "assigned"
      BY <1>1, <1>7, <2>1 DEF Grant, Quarantined, TypeOK
    <3> QED BY <1>1, <3>1 DEF WithinBudget, RunBudget
  <2>2. CASE i # j
    <3>1. /\ attemptCount'[j] = attemptCount[j] /\ retried'[j] = retried[j]
          /\ jobStatus'[j] \in {jobStatus[j], "failed"}
      BY <1>1, <1>7, <2>2 DEF Grant, Quarantined, TypeOK
    <3> QED BY <3>1, BudgetUntouched
  <2> QED BY <2>1, <2>2
<1>8. ASSUME NEW r \in Requests, ClaimQuarantines(r) PROVE WithinBudget(j)'
  <2>1. jobStatus'[j] \in {jobStatus[j], "failed"} /\ UNCHANGED <<attemptCount, retried>>
    BY <1>8 DEF ClaimQuarantines, Quarantined
  <2> QED BY <2>1, BudgetUntouched
<1>9. ASSUME NEW r \in Requests,
             Authenticate(r) \/ RecoverConflicts(r) \/ Refuse(r)
             \/ HeartbeatWithJob(r) \/ HeartbeatIdle(r)
      PROVE WithinBudget(j)'
  BY <1>9, BudgetUntouched
     DEF Authenticate, RecoverConflicts, Refuse, HeartbeatWithJob, HeartbeatIdle
<1>10. ASSUME NEW w \in Workers, NEW a \in AttemptIds, LeaseStep(w, a) PROVE WithinBudget(j)'
  <2>1. CASE RenewLease(w, a) \/ Forget(w, a)
    BY <2>1, BudgetUntouched DEF RenewLease, Forget
  <2>2. ASSUME NEW t \in Statuses, ReportStage(w, a, t) \/ ReportTerminal(w, a, t)
        PROVE WithinBudget(j)'
    <3>1. jobStatus[a[1]] \in Running
      BY <2>2 DEF ReportStage, ReportTerminal, MayReport, HoldsActiveLease, LedgerInv,
                  LeaseMatchesRows
    <3>2. t \notin {"absent", "queued"}
      BY <2>2, <3>1, TableAssumption
         DEF ReportStage, ReportTerminal, MayReport, CanTransition, Running, Terminal
    <3>3. jobStatus'[j] \in {jobStatus[j], t} /\ UNCHANGED <<attemptCount, retried>>
      BY <1>1, <2>2 DEF ReportStage, ReportTerminal, TypeOK
    <3> QED BY <3>2, <3>3, BudgetUntouched
  <2> QED BY <1>10, <2>1, <2>2 DEF LeaseStep
<1>11. ASSUME NEW a \in AttemptIds, LeaseTick(a) PROVE WithinBudget(j)'
  BY <1>11, BudgetUntouched DEF LeaseTick
<1>12. CASE UNCHANGED vars
  BY <1>12, BudgetUntouched DEF vars
<1>13. ASSUME NEW r \in Requests, Claim(r) PROVE WithinBudget(j)'
  BY <1>7, <1>13 DEF Claim
<1> QED
  BY <1>2, <1>3, <1>4, <1>6, <1>8, <1>9, <1>10, <1>11, <1>12, <1>13, ConstantsAssumption
     DEF Next, RequestStep, UserStep

\* However many Workers take a job and lose it, it runs at most
\* lease_recovery_max_attempts times (or once) and once more for every retry that a
\* user asked for (recover_expired_leases, retry_job, claim_job): no failing job
\* occupies the Workers for ever.
THEOREM RunsAreBounded == Spec => [](\A j \in Jobs : attemptCount[j] <= RunBudget(j))
<1> DEFINE Bounded == \A j \in Jobs : WithinBudget(j)
<1>1. Init => Bounded
  <2> SUFFICES ASSUME Init, NEW j \in Jobs PROVE WithinBudget(j)
    OBVIOUS
  <2>1. attemptCount[j] = 0 /\ retried[j] = 0 /\ RecoveryMax \in Nat
    BY ConstantsAssumption DEF Init
  <2> QED BY <2>1 DEF WithinBudget, RunBudget
<1>2. LedgerInv /\ Bounded /\ [Next]_vars => Bounded'
  <2> SUFFICES ASSUME LedgerInv, Bounded, [Next]_vars, NEW j \in Jobs PROVE WithinBudget(j)'
    OBVIOUS
  <2> QED BY BudgetStep
<1>3. Bounded => \A j \in Jobs : attemptCount[j] <= RunBudget(j)
  BY DEF WithinBudget
<1> QED
  BY <1>1, <1>2, <1>3, LedgerInvariant, PTL DEF Spec
=============================================================================
