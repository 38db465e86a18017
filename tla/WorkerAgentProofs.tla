--------------------------- MODULE WorkerAgentProofs ---------------------------
(***************************************************************************)
(* That the Worker gives its lease up before the Manager does and for no   *)
(* other reason, completes only what it has done, verified and published,  *)
(* and leaves no command behind: for every plan, lease length, number of   *)
(* jobs, artifacts, samples, test items, commands, attempts and faults.    *)
(***************************************************************************)
EXTENDS WorkerAgent, SequenceTheorems, TLAPS

\* Where the executor is before a stage has returned, while it publishes, and after.
Working == {"admit", "status", "run"}
Uploading == {"init", "put", "finalize", "refresh", "refused", "register"}
Publishing == Uploading \cup {"complete"}
Passed == Publishing \cup {"callback"}

\* How many stages have returned.
Done == IF pc \in Passed THEN stage ELSE stage - 1

RanOK ==
    /\ pc \in Working \cup Passed => ran = [i \in 1..Done |-> i]
    /\ pc \in Publishing => stage = Len(Plan)

\* The items are published one after the other.
ItemsOK ==
    /\ pc \in Working \cup {"callback"} => item = 1
    /\ pc \in Publishing => \A i \in Items : i < item => remote[i] = "completed"
    /\ pc \in Uploading => item \in Items
    /\ pc = "complete" => item \notin Items

\* What a stage leaves in the workspace.
StageGives(s) ==
    /\ s = "downloading_dataset" => /\ place[Archive] = "verified"
                                    /\ \A i \in 1..TestItems : testSet[i] = "verified"
    /\ s = "preparing_flat_dataset" => flat = "verified"

Fetching == {"look", "stream", "check", "link", "wait"}

\* The transfer of a stage: nothing but verified files is ever under a name, and the
\* archive comes first.
TransferOK ==
    /\ xfer.at # "off" => pc = "run" /\ Plan[stage] \in InputStages
    /\ xfer.at \in Fetching \cup {"collect"} => Plan[stage] = "downloading_dataset"
    /\ xfer.at = "unpack" => Plan[stage] # "downloading_dataset"
    /\ \A f \in Files : place[f] # "wrong"
    /\ xfer.at = "link" => xfer.bytes = "whole"
    /\ xfer.at \in Fetching /\ xfer.file # Archive => place[Archive] = "verified"
    /\ xfer.at = "collect" => place[Archive] = "verified"
    /\ xfer.at = "done" => xfer.outcome # "none"
    /\ xfer.at = "done" /\ xfer.outcome = "ok" => StageGives(Plan[stage])

GivenOK == pc \in Working \cup Passed => \A k \in 1..Done : StageGives(Plan[k])

\* A runner that is past its watch has no running leader, and belongs to the stage.
CommandsOK ==
    \A p \in Shards :
        /\ runner[p] \in {"off", "drain", "done"} => leader[p] # "running"
        /\ runner[p] # "off" => pc = "run" /\ Plan[stage] \in Commands

\* Whose lease the Manager keeps, and whose answers the loops wait for.
ClaimOK ==
    /\ job.current = IF pc \in {"idle", "stopped"} THEN 0 ELSE job.granted
    /\ hb.job <= job.granted
    /\ pc \notin {"idle", "stopped"} => job.granted # 0
    /\ rn.state # "off" => Active

\* The heartbeat in flight asks for the current claim.
ForCurrent == hb.state = "answered" /\ hb.job # 0 /\ hb.job = job.current

\* What the agent believes of its lease, or is about to be told, the Manager grants.
LeaseOK ==
    mgr.held =>
        /\ Active => act.left <= mgr.left
        /\ ForCurrent => hb.left <= mgr.left
        /\ rn.state = "answered" => rn.left <= mgr.left

\* An answer extends what its request was based on, and says what the Manager knows.
AnswersOK ==
    /\ ForCurrent /\ hb.cancel => mgr.cancel
    /\ hb.state = "answered" /\ hb.job # 0 => hb.left > hb.base \/ hb.left = 0
    /\ rn.state = "answered" => rn.left > rn.base \/ rn.left = 0
    /\ rn.state = "refused" => ~LeaseCurrent

AgentInv ==
    /\ TypeOK /\ RanOK /\ ItemsOK /\ TransferOK /\ GivenOK /\ CommandsOK
    /\ ClaimOK /\ LeaseOK /\ AnswersOK /\ CancelHasCause
-----------------------------------------------------------------------------
(* The plan *)

Early == ExecutionStatuses \ {"uploading_artifacts"}

LEMMA StageIfSeq ==
    ASSUME NEW wanted \in BOOLEAN, NEW S, NEW s \in S, NEW kept
    PROVE  StageIf(wanted, s, kept) \in Seq(S)
<1>1. <<s>> \in Seq(S) /\ <<>> \in Seq(S)
  OBVIOUS
<1>. QED BY <1>1 DEF StageIf

LEMMA InputPlanFacts ==
    ASSUME NEW kept
    PROVE  /\ InputPlan(kept) \in Seq(Early)
           /\ InputStages \subseteq kept =>
                /\ Len(InputPlan(kept)) = 3
                /\ InputPlan(kept)[1] = "downloading_dataset"
                /\ InputPlan(kept)[3] = "preparing_flat_dataset"
<1> DEFINE a == StageIf(TRUE, "downloading_dataset", kept)
           b == StageIf(TRUE, "validating_dataset", kept)
           c == StageIf(TRUE, "preparing_flat_dataset", kept)
<1>1. a \in Seq(Early) /\ b \in Seq(Early) /\ c \in Seq(Early)
  BY StageIfSeq DEF Early, ExecutionStatuses
<1>2. ASSUME InputStages \subseteq kept
      PROVE  a = <<"downloading_dataset">> /\ b = <<"validating_dataset">>
             /\ c = <<"preparing_flat_dataset">>
  BY <1>2 DEF StageIf, InputStages
<1>3. InputPlan(kept) = (a \o b) \o c
  BY DEF InputPlan
<1> HIDE DEF a, b, c
<1>4. a \o b \in Seq(Early)
  BY <1>1, ConcatProperties
<1>5. InputPlan(kept) \in Seq(Early)
  BY <1>1, <1>3, <1>4, ConcatProperties
<1>6. ASSUME InputStages \subseteq kept
      PROVE  /\ Len(InputPlan(kept)) = 3
             /\ InputPlan(kept)[1] = "downloading_dataset"
             /\ InputPlan(kept)[3] = "preparing_flat_dataset"
  <2>1. /\ Len(a) = 1 /\ a[1] = "downloading_dataset" /\ Len(b) = 1
        /\ Len(c) = 1 /\ c[1] = "preparing_flat_dataset"
    BY <1>2, <1>6
  <2>2. Len(a \o b) = 2 /\ (a \o b)[1] = "downloading_dataset"
    BY <1>1, <2>1, ConcatProperties
  <2>. QED BY <1>1, <1>3, <1>4, <2>1, <2>2, ConcatProperties
<1>. QED BY <1>5, <1>6

LEMMA WorkPlanSeq ==
    ASSUME NEW kept
    PROVE  WorkPlan(Config, kept) \in Seq(Early)
<1>0. Config.use_f0 \in BOOLEAN /\ Config.build_index \in BOOLEAN /\ Config.samples \in BOOLEAN
  BY AgentAssumption DEF Configs
<1>1. \A s \in Early, w \in BOOLEAN : StageIf(w, s, kept) \in Seq(Early)
  BY StageIfSeq
<1>2. \A x, y \in Seq(Early) : x \o y \in Seq(Early)
  BY ConcatProperties
<1>3. /\ StageIf(TRUE, "preprocessing", kept) \in Seq(Early)
      /\ StageIf(Config.use_f0, "extracting_f0", kept) \in Seq(Early)
      /\ StageIf(TRUE, "extracting_features", kept) \in Seq(Early)
      /\ StageIf(TRUE, "training", kept) \in Seq(Early)
      /\ StageIf(TRUE, "saving_checkpoint", kept) \in Seq(Early)
      /\ StageIf(Config.build_index, "building_index", kept) \in Seq(Early)
      /\ StageIf(TRUE, "collecting_small_model", kept) \in Seq(Early)
      /\ StageIf(Config.samples, "generating_samples", kept) \in Seq(Early)
      /\ StageIf(TRUE, "evaluating", kept) \in Seq(Early)
  BY <1>0, <1>1 DEF Early, ExecutionStatuses
<1>. QED BY <1>2, <1>3 DEF WorkPlan

\* The plan ends with the upload, which is nowhere else in it, and begins with the
\* inputs when they are kept.
LEMMA PlanFacts ==
    ASSUME scope \in Scopes
    PROVE  /\ Len(Plan) \in Nat \ {0}
           /\ Plan[Len(Plan)] = "uploading_artifacts"
           /\ \A i \in 1..Len(Plan) : /\ Plan[i] \in ExecutionStatuses
                                      /\ Plan[i] = "uploading_artifacts" => i = Len(Plan)
           /\ InputStages \subseteq Kept(scope) =>
                \E i, j \in 1..Len(Plan) : /\ Plan[i] = "downloading_dataset"
                                           /\ Plan[j] = "preparing_flat_dataset"
<1> DEFINE kept == Kept(scope)
           a == InputPlan(kept)
           b == WorkPlan(Config, kept)
           c == StageIf(TRUE, "uploading_artifacts", kept)
<1>1. a \in Seq(Early) /\ b \in Seq(Early)
  BY InputPlanFacts, WorkPlanSeq
<1>2. c = <<"uploading_artifacts">>
  BY AgentAssumption DEF StageIf
<1>3. Plan = (a \o b) \o c
  BY DEF Plan, StagePlan
<1>4. /\ a \o b \in Seq(Early) /\ Len(a \o b) = Len(a) + Len(b)
      /\ \A i \in 1..Len(a) : (a \o b)[i] = a[i]
  <2>1. Len(a) \in Nat /\ Len(b) \in Nat
    BY <1>1, LenProperties
  <2>. HIDE DEF a, b
  <2>. QED BY <1>1, <2>1, ConcatProperties
<1>5. InputStages \subseteq kept =>
         Len(a) = 3 /\ a[1] = "downloading_dataset" /\ a[3] = "preparing_flat_dataset"
  BY InputPlanFacts
<1>6. Len(a) \in Nat /\ Len(b) \in Nat /\ Len(a \o b) \in Nat
  BY <1>1, <1>4, LenProperties
<1> DEFINE d == a \o b
<1>7. \A i \in 1..Len(d) : d[i] \in Early
  BY <1>4, ElementOfSeq
<1>8. d \in Seq(ExecutionStatuses) /\ c \in Seq(ExecutionStatuses) /\ Len(c) = 1
      /\ c[1] = "uploading_artifacts"
  <2>1. d \in Seq(ExecutionStatuses)
    BY <1>4, SeqMonotonic DEF Early
  <2>2. "uploading_artifacts" \in ExecutionStatuses
    BY DEF ExecutionStatuses
  <2>. HIDE DEF c, d
  <2>. QED BY <1>2, <2>1, <2>2
<1> HIDE DEF a, b, c, d, kept
<1>9. /\ Len(Plan) = Len(d) + 1
      /\ \A i \in 1..Len(Plan) : Plan[i] = IF i <= Len(d) THEN d[i] ELSE c[i - Len(d)]
  <2>1. Plan = d \o c
    BY <1>3 DEF d
  <2>2. /\ Len(d \o c) = Len(d) + Len(c)
        /\ \A i \in 1..(Len(d) + Len(c)) : (d \o c)[i] = IF i <= Len(d) THEN d[i] ELSE c[i - Len(d)]
    BY <1>8, ConcatProperties
  <2>. QED BY <1>8, <2>1, <2>2
<1>10. Len(d) \in Nat
  BY <1>6 DEF d
<1>11. Len(Plan) \in Nat \ {0} /\ Plan[Len(Plan)] = "uploading_artifacts"
  BY <1>8, <1>9, <1>10
<1>12. \A i \in 1..Len(Plan) : /\ Plan[i] \in ExecutionStatuses
                               /\ Plan[i] = "uploading_artifacts" => i = Len(Plan)
  BY <1>7, <1>9, <1>10, <1>11 DEF Early, ExecutionStatuses
<1>13. ASSUME InputStages \subseteq kept
       PROVE  \E i, j \in 1..Len(Plan) : /\ Plan[i] = "downloading_dataset"
                                         /\ Plan[j] = "preparing_flat_dataset"
  <2>1. Len(d) >= 3 /\ d[1] = "downloading_dataset" /\ d[3] = "preparing_flat_dataset"
    BY <1>4, <1>5, <1>6, <1>13 DEF d
  <2>2. Plan[1] = "downloading_dataset" /\ Plan[3] = "preparing_flat_dataset"
    BY <1>9, <1>10, <2>1
  <2>. QED BY <1>9, <1>10, <2>1, <2>2
<1>. QED BY <1>11, <1>12, <1>13 DEF kept
-----------------------------------------------------------------------------
(* The loops and the Manager, while the executor stands still *)

LEMMA SamePlan ==
    ASSUME scope' = scope
    PROVE  Plan' = Plan /\ Items' = Items
BY DEF Plan, Items

ExecutorOK == RanOK /\ ItemsOK /\ TransferOK /\ GivenOK /\ CommandsOK
SharedOK == ClaimOK /\ LeaseOK /\ AnswersOK /\ CancelHasCause

LEMMA ExecutorStands ==
    ASSUME AgentInv, UNCHANGED <<executor, publication, others>>,
           \A i \in Items : remote[i] = "completed" => remote'[i] = "completed"
    PROVE  ExecutorOK'
<1>1. Plan' = Plan /\ Items' = Items
  BY SamePlan DEF others
<1>2. UNCHANGED <<pc, stage, ran, item, xfer, place, testSet, flat, runner, leader>>
  BY DEF executor, publication, others, processVars, inputVars
<1>3. Done' = Done
  BY <1>2 DEF Done
<1>4. \A s : StageGives(s)' <=> StageGives(s)
  BY <1>2 DEF StageGives
<1>5. RanOK'
  BY <1>1, <1>2, <1>3 DEF AgentInv, RanOK
<1>6. ItemsOK'
  BY <1>1, <1>2 DEF AgentInv, ItemsOK
<1>7. TransferOK'
  BY <1>1, <1>2, <1>4 DEF AgentInv, TransferOK
<1>8. GivenOK'
  BY <1>1, <1>2, <1>3, <1>4 DEF AgentInv, GivenOK
<1>9. CommandsOK'
  BY <1>1, <1>2 DEF AgentInv, CommandsOK
<1>. QED BY <1>5, <1>6, <1>7, <1>8, <1>9 DEF ExecutorOK

\* The parts of TypeOK that the loops, and those that the executor writes.
SharedTypes ==
    /\ act \in [cancelled : BOOLEAN, fatal : BOOLEAN, asked : BOOLEAN, left : Lefts]
    /\ job \in [current : 0..MaxJobs(scope), granted : 0..MaxJobs(scope)]
    /\ hb \in [state : {"off", "sent", "answered"}, job : 0..MaxJobs(scope), base : Lefts,
               left : Lefts, cancel : BOOLEAN]
    /\ rn \in [state : {"off", "wait", "sent", "answered", "refused", "lost"},
               base : Lefts, left : Lefts]
    /\ shutdown \in BOOLEAN
    /\ mgr \in [held : BOOLEAN, left : Lefts, cancel : BOOLEAN,
                status : {"none"} \cup JobStatuses]
    /\ scope \in Scopes /\ faults \in 0..MaxFaults(scope)

ExecutorTypes ==
    /\ ProcessTypeOK /\ InputsTypeOK
    /\ pc \in Busy \cup {"idle", "claimed", "stopped"}
    /\ stage \in 1..Len(Plan)
    /\ exc \in {"none", "error", "cancelled"}
    /\ report \in {"none"} \cup TERMINAL_JOB_STATUSES
    /\ item \in 1..(Artifacts + Samples + 1) /\ try \in 0..MaxTries /\ ambiguous \in BOOLEAN
    /\ remote \in [Items -> {"none", "pending", "stored", "finalizing", "completed"}]

LEMMA Types == TypeOK <=> SharedTypes /\ ExecutorTypes
BY DEF TypeOK, SharedTypes, ExecutorTypes

LEMMA TypesNext == TypeOK' <=> SharedTypes' /\ ExecutorTypes'
BY DEF TypeOK, SharedTypes, ExecutorTypes

LEMMA Assembled ==
    ASSUME SharedTypes', ExecutorTypes', ExecutorOK', SharedOK'
    PROVE  AgentInv'
BY TypesNext DEF AgentInv, ExecutorOK, SharedOK

LEMMA ExecutorKeepsTypes ==
    ASSUME AgentInv, UNCHANGED <<executor, publication, others>>, 
           remote' \in [Items -> {"none", "pending", "stored", "finalizing", "completed"}]
    PROVE  ExecutorTypes'
<1>1. Plan' = Plan /\ Items' = Items
  BY SamePlan DEF others
<1>2. ProcessTypeOK' /\ InputsTypeOK'
  BY Types DEF AgentInv, ExecutorTypes, others, processVars, inputVars, ProcessTypeOK, InputsTypeOK
<1>. QED BY <1>1, <1>2, Types DEF AgentInv, ExecutorTypes, executor, publication

\* A step of a loop or of the Manager that leaves the published items alone.
LEMMA LoopStep ==
    ASSUME AgentInv, UNCHANGED <<executor, publication, others, remote>>, SharedTypes', SharedOK'
    PROVE  AgentInv'
<1>1. \A i \in Items : remote[i] = "completed" => remote'[i] = "completed"
  OBVIOUS
<1>2. remote' \in [Items -> {"none", "pending", "stored", "finalizing", "completed"}]
  BY Types DEF AgentInv, ExecutorTypes
<1>3. ExecutorOK'
  BY <1>1, ExecutorStands
<1>4. ExecutorTypes'
  BY <1>2, ExecutorKeepsTypes
<1>. QED BY <1>3, <1>4, Assembled

LEMMA ManagerFinalizesStep ==
    ASSUME AgentInv, ManagerFinalizes, UNCHANGED others
    PROVE  AgentInv'
<1>1. UNCHANGED <<executor, publication, others>>
  BY DEF ManagerFinalizes
<1>2. PICK i \in Items, s \in {"completed", "stored"} :
        remote[i] = "finalizing" /\ remote' = [remote EXCEPT ![i] = s]
  BY DEF ManagerFinalizes
<1>3. remote \in [Items -> {"none", "pending", "stored", "finalizing", "completed"}]
  BY Types DEF AgentInv, ExecutorTypes
<1>4. remote' \in [Items -> {"none", "pending", "stored", "finalizing", "completed"}]
  BY <1>2, <1>3
<1>5. \A j \in Items : remote[j] = "completed" => remote'[j] = "completed"
  BY <1>2, <1>3
<1>6. UNCHANGED <<act, job, hb, rn, shutdown, mgr, pc, faults, scope>>
  BY DEF ManagerFinalizes, executor, loops, others
<1>7. SharedTypes'
  BY <1>6, Types DEF AgentInv, SharedTypes
<1>8. SharedOK'
  BY <1>6 DEF AgentInv, SharedOK, ClaimOK, LeaseOK, AnswersOK, CancelHasCause, Active, ForCurrent,
              LeaseCurrent
<1>9. ExecutorOK'
  BY <1>1, <1>5, ExecutorStands
<1>10. ExecutorTypes'
  BY <1>1, <1>4, ExecutorKeepsTypes
<1>. QED BY <1>7, <1>8, <1>9, <1>10, Assembled

\* What the loops share, field by field.
LEMMA Fields ==
    ASSUME AgentInv
    PROVE  /\ LeaseTicks \in Nat \ {0} /\ MaxFaults(scope) \in Nat /\ MaxJobs(scope) \in Nat
           /\ act \in [cancelled : BOOLEAN, fatal : BOOLEAN, asked : BOOLEAN, left : Lefts]
           /\ act.left \in 0..LeaseTicks /\ mgr.left \in 0..LeaseTicks
           /\ hb.left \in 0..LeaseTicks /\ hb.base \in 0..LeaseTicks
           /\ rn.left \in 0..LeaseTicks /\ rn.base \in 0..LeaseTicks
           /\ job.current \in 0..MaxJobs(scope) /\ job.granted \in 0..MaxJobs(scope)
           /\ hb.job \in 0..MaxJobs(scope) /\ faults \in 0..MaxFaults(scope)
BY Types, AgentAssumption DEF AgentInv, SharedTypes, Lefts

LEMMA EndsOfLefts == 0 \in Lefts /\ LeaseTicks \in Lefts
BY AgentAssumption DEF Lefts

LEMMA FaultCounts ==
    ASSUME AgentInv, Fault, scope' = scope
    PROVE  faults' \in 0..MaxFaults(scope')
BY Fields DEF Fault

LEMMA CancelTyped ==
    ASSUME NEW a \in [cancelled : BOOLEAN, fatal : BOOLEAN, asked : BOOLEAN, left : Lefts]
    PROVE  /\ Cancel(a) \in [cancelled : BOOLEAN, fatal : BOOLEAN, asked : BOOLEAN, left : Lefts]
           /\ Cancel(a).left = a.left /\ Cancel(a).asked /\ Cancel(a).cancelled
           /\ Fail(a) \in [cancelled : BOOLEAN, fatal : BOOLEAN, asked : BOOLEAN, left : Lefts]
           /\ Fail(a).left = a.left /\ Fail(a).asked = a.asked
BY DEF Cancel, Fail

\* accept_lease_expiry changes the deadline to the answered one or cancels; it cancels
\* for a lease that is over or an answer that extends nothing.
LEMMA AcceptFacts ==
    ASSUME NEW a \in [cancelled : BOOLEAN, fatal : BOOLEAN, asked : BOOLEAN, left : Lefts],
           NEW left \in Lefts, NEW b \in Lefts
    PROVE  LET n == AcceptLeaseExpiry(a, left, b) IN
           /\ n \in [cancelled : BOOLEAN, fatal : BOOLEAN, asked : BOOLEAN, left : Lefts]
           /\ n.left \in {a.left, left}
           /\ a.left = 0 => n.left = 0
           /\ n.asked => a.asked \/ a.left = 0 \/ left = 0 \/ left <= b
BY CancelTyped DEF AcceptLeaseExpiry

\* A step that leaves the executor and the published items alone.
Beside == UNCHANGED <<executor, publication, others, remote>>

LEMMA BesideFacts ==
    ASSUME Beside
    PROVE  UNCHANGED <<pc, scope, remote>> /\ Active' = Active
BY DEF Beside, executor, others, Active


LEMMA ManagerHeartbeatStep ==
    ASSUME AgentInv, ManagerHeartbeat, UNCHANGED others
    PROVE  AgentInv'
<1>1. Beside /\ UNCHANGED <<pc, scope, remote>> /\ Active' = Active
  BY BesideFacts DEF ManagerHeartbeat, Beside, loops
<1>4. UNCHANGED <<act, job, rn, shutdown, faults>>
  BY DEF ManagerHeartbeat
<1>5. CASE hb.job = 0
  <2>1. hb' = [hb EXCEPT !.state = "answered"] /\ mgr' = mgr
    BY <1>5 DEF ManagerHeartbeat
  <2>2. SharedTypes'
    BY <1>1, <1>4, <2>1, Types DEF AgentInv, SharedTypes
  <2>3. hb'.job = 0 /\ hb'.state = "answered"
    BY <1>5, <2>1, Types DEF AgentInv, SharedTypes
  <2>4. SharedOK'
    BY <1>1, <1>4, <2>1, <2>3, Fields DEF AgentInv, SharedOK, ClaimOK, LeaseOK, AnswersOK,
       CancelHasCause, ForCurrent, LeaseCurrent
  <2>. QED BY <1>1, <2>2, <2>4, LoopStep DEF Beside
<1>6. CASE hb.job # 0 /\ hb.job = job.granted /\ LeaseCurrent
  <2>1. /\ hb' = [hb EXCEPT !.state = "answered", !.left = LeaseTicks, !.cancel = mgr.cancel]
        /\ mgr' = [mgr EXCEPT !.left = LeaseTicks] /\ hb.base < LeaseTicks
    BY <1>6 DEF ManagerHeartbeat, Later
  <2>2. /\ hb'.state = "answered" /\ hb'.left = LeaseTicks /\ hb'.cancel = mgr.cancel
        /\ hb'.job = hb.job /\ hb'.base = hb.base
        /\ mgr'.left = LeaseTicks /\ mgr'.held = mgr.held /\ mgr'.cancel = mgr.cancel
    BY <2>1, Types DEF AgentInv, SharedTypes
  <2>3. SharedTypes'
    BY <1>1, <1>4, <2>1, Types, EndsOfLefts DEF AgentInv, SharedTypes
  <2>4. ClaimOK' /\ LeaseOK' /\ AnswersOK'
    BY <1>1, <1>4, <1>6, <2>1, <2>2, Fields DEF AgentInv, ClaimOK, LeaseOK, AnswersOK, ForCurrent,
       LeaseCurrent
  <2>5. CancelHasCause'
    BY <1>1, <1>4, <1>6, <2>2, Fields DEF AgentInv, CancelHasCause, LeaseCurrent
  <2>. QED BY <1>1, <2>3, <2>4, <2>5, LoopStep DEF Beside, SharedOK
<1>7. CASE hb.job # 0 /\ ~(hb.job = job.granted /\ LeaseCurrent)
  <2>1. hb' = NoHeartbeat /\ mgr' = mgr
    BY <1>7 DEF ManagerHeartbeat
  <2>2. SharedTypes'
    BY <1>1, <1>4, <2>1, Types, Fields DEF AgentInv, SharedTypes, NoHeartbeat, Lefts
  <2>3. SharedOK'
    BY <1>1, <1>4, <2>1, Fields DEF AgentInv, SharedOK, ClaimOK, LeaseOK, AnswersOK, CancelHasCause,
       ForCurrent, LeaseCurrent, NoHeartbeat
  <2>. QED BY <1>1, <2>2, <2>3, LoopStep DEF Beside
<1>. QED BY <1>5, <1>6, <1>7

LEMMA ManagerRenewStep ==
    ASSUME AgentInv, ManagerRenew, UNCHANGED others
    PROVE  AgentInv'
<1>1. Beside /\ UNCHANGED <<pc, scope, remote>> /\ Active' = Active
  BY BesideFacts DEF ManagerRenew, Beside, loops
<1>4. UNCHANGED <<act, job, hb, shutdown, faults>> /\ rn.state = "sent" /\ rn.base < LeaseTicks
  BY DEF ManagerRenew, Later
<1>5. CASE LeaseCurrent
  <2>1. /\ rn' = [rn EXCEPT !.state = "answered", !.left = LeaseTicks]
        /\ mgr' = [mgr EXCEPT !.left = LeaseTicks]
    BY <1>5 DEF ManagerRenew
  <2>2. /\ rn'.state = "answered" /\ rn'.left = LeaseTicks /\ rn'.base = rn.base
        /\ mgr'.left = LeaseTicks /\ mgr'.held = mgr.held /\ mgr'.cancel = mgr.cancel
    BY <2>1, Types DEF AgentInv, SharedTypes
  <2>3. SharedTypes'
    BY <1>1, <1>4, <2>1, Types, EndsOfLefts DEF AgentInv, SharedTypes
  <2>4. SharedOK'
    BY <1>1, <1>4, <1>5, <2>2, Fields DEF AgentInv, SharedOK, ClaimOK, LeaseOK, AnswersOK,
       CancelHasCause, ForCurrent, LeaseCurrent
  <2>. QED BY <1>1, <2>3, <2>4, LoopStep DEF Beside
<1>6. CASE ~LeaseCurrent
  <2>1. rn' = [rn EXCEPT !.state = "refused"] /\ mgr' = mgr
    BY <1>6 DEF ManagerRenew
  <2>2. rn'.state = "refused"
    BY <2>1, Types DEF AgentInv, SharedTypes
  <2>3. SharedTypes'
    BY <1>1, <1>4, <2>1, Types DEF AgentInv, SharedTypes
  <2>4. SharedOK'
    BY <1>1, <1>4, <1>6, <2>1, <2>2, Fields DEF AgentInv, SharedOK, ClaimOK, LeaseOK, AnswersOK,
       CancelHasCause, ForCurrent, LeaseCurrent
  <2>. QED BY <1>1, <2>3, <2>4, LoopStep DEF Beside
<1>. QED BY <1>5, <1>6

LEMMA ManagerRecoverStep ==
    ASSUME AgentInv, ManagerRecover, UNCHANGED others
    PROVE  AgentInv'
<1>1. Beside /\ UNCHANGED <<pc, scope, remote>> /\ Active' = Active
  BY BesideFacts DEF ManagerRecover, Beside, loops
<1>2. SharedTypes'
  BY ZenonT(40), <1>1, Types, Fields DEF AgentInv, SharedTypes, Lefts, ManagerRecover, loops
<1>3. SharedOK'
  BY <1>1, Types, Fields DEF AgentInv, SharedTypes, SharedOK, ClaimOK, LeaseOK, AnswersOK,
     CancelHasCause, ForCurrent, LeaseCurrent, Lefts, ManagerRecover, loops
<1>. QED BY <1>1, <1>2, <1>3, LoopStep DEF Beside

LEMMA UserCancelsStep ==
    ASSUME AgentInv, UserCancels, UNCHANGED others
    PROVE  AgentInv'
<1>1. Beside /\ UNCHANGED <<pc, scope, remote>> /\ Active' = Active
  BY BesideFacts DEF UserCancels, Beside, loops
<1>2. SharedTypes'
  BY <1>1, Types, Fields DEF AgentInv, SharedTypes, Lefts, UserCancels, loops
<1>3. SharedOK'
  BY <1>1, Types, Fields DEF AgentInv, SharedTypes, SharedOK, ClaimOK, LeaseOK, AnswersOK,
     CancelHasCause, ForCurrent, LeaseCurrent, Lefts, UserCancels, loops
<1>. QED BY <1>1, <1>2, <1>3, LoopStep DEF Beside

LEMMA SendHeartbeatStep ==
    ASSUME AgentInv, SendHeartbeat, UNCHANGED others
    PROVE  AgentInv'
<1>1. Beside /\ UNCHANGED <<pc, scope, remote>> /\ Active' = Active
  BY BesideFacts DEF SendHeartbeat, Beside, loops
<1>4. UNCHANGED <<job, rn, shutdown, mgr>>
  BY DEF SendHeartbeat
<1>5. \/ act' = act /\ faults' = faults
      \/ act' = Fail(act) /\ Fault
  BY DEF SendHeartbeat
<1>6. /\ act' \in [cancelled : BOOLEAN, fatal : BOOLEAN, asked : BOOLEAN, left : Lefts]
      /\ act'.left = act.left /\ act'.asked = act.asked
  BY <1>5, Fields, CancelTyped
<1>7. faults' \in 0..MaxFaults(scope')
  BY <1>1, <1>5, Fields, FaultCounts
<1>8. \E n \in 0..MaxJobs(scope), b \in Lefts :
         /\ n \in {0, job.current}
         /\ hb' = [state |-> "sent", job |-> n, base |-> b, left |-> 0, cancel |-> FALSE]
  <2>1. hb' = [state |-> "sent", job |-> IF Active THEN job.current ELSE 0,
               base |-> IF Active THEN act.left ELSE 0, left |-> 0, cancel |-> FALSE]
    BY DEF SendHeartbeat, NoHeartbeat
  <2>2. (IF Active THEN job.current ELSE 0) \in 0..MaxJobs(scope)
        /\ (IF Active THEN act.left ELSE 0) \in Lefts
    BY Fields DEF Lefts
  <2>. QED BY <2>1, <2>2
<1>9. hb' \in [state : {"off", "sent", "answered"}, job : 0..MaxJobs(scope), base : Lefts,
               left : Lefts, cancel : BOOLEAN]
      /\ hb'.state = "sent" /\ hb'.job \in {0, job.current}
  BY <1>8, Fields DEF Lefts
<1>2. SharedTypes'
  BY <1>1, <1>4, <1>6, <1>7, <1>9, Types DEF AgentInv, SharedTypes
<1>3. SharedOK'
  BY <1>1, <1>4, <1>6, <1>9, Fields DEF AgentInv, SharedOK, ClaimOK, LeaseOK, AnswersOK,
     CancelHasCause, ForCurrent, LeaseCurrent
<1>. QED BY <1>1, <1>2, <1>3, LoopStep DEF Beside

LEMMA ReceiveHeartbeatStep ==
    ASSUME AgentInv, ReceiveHeartbeat, UNCHANGED others
    PROVE  AgentInv'
<1>1. Beside /\ UNCHANGED <<pc, scope, remote>> /\ Active' = Active
  BY BesideFacts DEF ReceiveHeartbeat, Beside, loops
<1>4. UNCHANGED <<job, rn, shutdown, mgr, faults>> /\ hb.state = "answered"
      /\ (hb.job # 0 => hb.left > 0) /\ hb' = NoHeartbeat
  BY DEF ReceiveHeartbeat
<1>5. /\ hb' \in [state : {"off", "sent", "answered"}, job : 0..MaxJobs(scope), base : Lefts,
                   left : Lefts, cancel : BOOLEAN]
      /\ hb'.state = "off" /\ hb'.job = 0
  BY <1>4, Fields DEF NoHeartbeat, Lefts
<1>6. /\ act' \in [cancelled : BOOLEAN, fatal : BOOLEAN, asked : BOOLEAN, left : Lefts]
      /\ act'.left = act.left \/ (act.left > 0 /\ ForCurrent /\ act'.left = hb.left)
      /\ act'.asked => act.asked \/ act.left = 0 \/ mgr.cancel
  <2>1. CASE ~(hb.job # 0 /\ Active /\ hb.job = job.current)
    <3>1. act' = act
      BY <2>1 DEF ReceiveHeartbeat
    <3>. QED BY <3>1, Fields
  <2>2. CASE (hb.job # 0 /\ Active /\ hb.job = job.current) /\ hb.cancel
    <3>1. mgr.cancel
      BY <1>4, <2>2 DEF AgentInv, AnswersOK, ForCurrent
    <3>2. Cancel(act).cancelled /\ Cancel(act).left = act.left
          /\ Cancel(act) \in [cancelled : BOOLEAN, fatal : BOOLEAN, asked : BOOLEAN, left : Lefts]
      BY Fields, CancelTyped
    <3>3. act' = Cancel(act)
      BY <2>2, <3>2 DEF ReceiveHeartbeat
    <3>. QED BY <3>1, <3>2, <3>3
  <2>3. CASE (hb.job # 0 /\ Active /\ hb.job = job.current) /\ ~hb.cancel
    <3>1. act' = IF act.cancelled THEN act ELSE AcceptLeaseExpiry(act, hb.left, hb.base)
      BY <2>3 DEF ReceiveHeartbeat
    <3>2. ForCurrent /\ hb.left > 0 /\ hb.left > hb.base
      BY <1>4, <2>3, Fields DEF AgentInv, AnswersOK, ForCurrent
    <3>3. hb.left \in Lefts /\ hb.base \in Lefts
      BY Fields DEF Lefts
    <3>4. LET n == AcceptLeaseExpiry(act, hb.left, hb.base) IN
          /\ n \in [cancelled : BOOLEAN, fatal : BOOLEAN, asked : BOOLEAN, left : Lefts]
          /\ n.left \in {act.left, hb.left}
          /\ act.left = 0 => n.left = 0
          /\ n.asked => act.asked \/ act.left = 0 \/ hb.left = 0 \/ hb.left <= hb.base
      BY <3>3, Fields, AcceptFacts
    <3>. QED BY <3>1, <3>2, <3>4, Fields
  <2>. QED BY <2>1, <2>2, <2>3
<1>2. SharedTypes'
  BY <1>1, <1>4, <1>5, <1>6, Types DEF AgentInv, SharedTypes
<1>7. act'.left \in 0..LeaseTicks
  BY <1>6 DEF Lefts
<1>8. ClaimOK' /\ AnswersOK'
  BY <1>1, <1>4, <1>5, Fields DEF AgentInv, ClaimOK, AnswersOK, ForCurrent, LeaseCurrent
<1>9. LeaseOK'
  BY <1>1, <1>4, <1>5, <1>6, Fields DEF AgentInv, LeaseOK, ForCurrent
<1>10. CancelHasCause'
  BY <1>1, <1>4, <1>6, <1>7, Fields DEF AgentInv, CancelHasCause, LeaseCurrent
<1>3. SharedOK'
  BY <1>8, <1>9, <1>10 DEF SharedOK
<1>. QED BY <1>1, <1>2, <1>3, LoopStep DEF Beside

LEMMA LoseHeartbeatStep ==
    ASSUME AgentInv, LoseHeartbeat, UNCHANGED others
    PROVE  AgentInv'
<1>1. Beside /\ UNCHANGED <<pc, scope, remote>> /\ Active' = Active
  BY BesideFacts DEF LoseHeartbeat, Beside, loops
<1>2. SharedTypes'
  BY <1>1, Types, Fields, FaultCounts DEF AgentInv, SharedTypes, Lefts, LoseHeartbeat, NoHeartbeat
<1>3. SharedOK'
  BY <1>1, Types, Fields DEF AgentInv, SharedTypes, SharedOK, ClaimOK, LeaseOK, AnswersOK,
     CancelHasCause, ForCurrent, LeaseCurrent, Lefts, LoseHeartbeat, NoHeartbeat
<1>. QED BY <1>1, <1>2, <1>3, LoopStep DEF Beside

LEMMA SendRenewalStep ==
    ASSUME AgentInv, SendRenewal, UNCHANGED others
    PROVE  AgentInv'
<1>1. Beside /\ UNCHANGED <<pc, scope, remote>> /\ Active' = Active
  BY BesideFacts DEF SendRenewal, Beside, loops
<1>2. SharedTypes'
  BY <1>1, Types, Fields DEF AgentInv, SharedTypes, Lefts, SendRenewal, Finished
<1>3. SharedOK'
  BY <1>1, Types, Fields DEF AgentInv, SharedTypes, SharedOK, ClaimOK, LeaseOK, AnswersOK,
     CancelHasCause, ForCurrent, LeaseCurrent, Lefts, SendRenewal, Finished
<1>. QED BY <1>1, <1>2, <1>3, LoopStep DEF Beside

LEMMA ReceiveRenewalStep ==
    ASSUME AgentInv, ReceiveRenewal, UNCHANGED others
    PROVE  AgentInv'
<1>1. Beside /\ UNCHANGED <<pc, scope, remote>> /\ Active' = Active
  BY BesideFacts DEF ReceiveRenewal, Beside, loops
<1>4. UNCHANGED <<job, hb, shutdown, mgr, faults>> /\ rn.state \in {"answered", "refused"}
      /\ (rn.state = "answered" => rn.left > 0)
  BY DEF ReceiveRenewal
<1>5. rn' = [NoRenewal EXCEPT !.state = "off"] \/ rn' = [NoRenewal EXCEPT !.state = "wait"]
  BY DEF ReceiveRenewal
<1>6. /\ rn' \in [state : {"off", "wait", "sent", "answered", "refused", "lost"},
                    base : Lefts, left : Lefts]
      /\ rn'.state \in {"off", "wait"}
  BY <1>5, Fields DEF NoRenewal, Lefts
<1>7. /\ act' \in [cancelled : BOOLEAN, fatal : BOOLEAN, asked : BOOLEAN, left : Lefts]
      /\ act'.left = act.left \/ (act.left > 0 /\ rn.state = "answered" /\ act'.left = rn.left)
      /\ act'.asked => act.asked \/ act.left = 0 \/ ~LeaseCurrent
  <2>1. CASE rn.state = "refused"
    <3>1. act' = Cancel(act) /\ ~LeaseCurrent
      BY <2>1 DEF ReceiveRenewal, AgentInv, AnswersOK
    <3>. QED BY <3>1, Fields, CancelTyped
  <2>2. CASE rn.state = "answered"
    <3>1. act' = AcceptLeaseExpiry(act, rn.left, rn.base)
      BY <2>2 DEF ReceiveRenewal
    <3>2. rn.left > 0 /\ rn.left > rn.base
      BY <1>4, <2>2, Fields DEF AgentInv, AnswersOK
    <3>3. rn.left \in Lefts /\ rn.base \in Lefts
      BY Fields DEF Lefts
    <3>4. LET n == AcceptLeaseExpiry(act, rn.left, rn.base) IN
          /\ n \in [cancelled : BOOLEAN, fatal : BOOLEAN, asked : BOOLEAN, left : Lefts]
          /\ n.left \in {act.left, rn.left}
          /\ act.left = 0 => n.left = 0
          /\ n.asked => act.asked \/ act.left = 0 \/ rn.left = 0 \/ rn.left <= rn.base
      BY <3>3, Fields, AcceptFacts
    <3>. QED BY <2>2, <3>1, <3>2, <3>4, Fields
  <2>. QED BY <1>4, <2>1, <2>2
<1>2. SharedTypes'
  BY <1>1, <1>4, <1>6, <1>7, Types DEF AgentInv, SharedTypes
<1>8. ClaimOK' /\ AnswersOK'
  BY <1>1, <1>4, <1>6, Fields DEF AgentInv, ClaimOK, AnswersOK, ForCurrent, LeaseCurrent
<1>9. LeaseOK'
  BY <1>1, <1>4, <1>6, <1>7, Fields DEF AgentInv, LeaseOK, ForCurrent
<1>10. CancelHasCause'
  BY <1>1, <1>4, <1>7, Fields DEF AgentInv, CancelHasCause, LeaseCurrent
<1>3. SharedOK'
  BY <1>8, <1>9, <1>10 DEF SharedOK
<1>. QED BY <1>1, <1>2, <1>3, LoopStep DEF Beside

LEMMA RenewalFailsStep ==
    ASSUME AgentInv, RenewalFails, UNCHANGED others
    PROVE  AgentInv'
<1>1. Beside /\ UNCHANGED <<pc, scope, remote>> /\ Active' = Active
  BY BesideFacts DEF RenewalFails, Beside, loops
<1>2. SharedTypes'
  BY <1>1, Types, Fields, FaultCounts, CancelTyped DEF AgentInv, SharedTypes, Lefts, RenewalFails,
     NoRenewal
<1>3. SharedOK'
  BY <1>1, Types, Fields, CancelTyped DEF AgentInv, SharedTypes, SharedOK, ClaimOK, LeaseOK,
     AnswersOK, CancelHasCause, ForCurrent, LeaseCurrent, Lefts, RenewalFails, NoRenewal
<1>. QED BY <1>1, <1>2, <1>3, LoopStep DEF Beside

LEMMA RenewalStopsStep ==
    ASSUME AgentInv, RenewalStops, UNCHANGED others
    PROVE  AgentInv'
<1>1. Beside /\ UNCHANGED <<pc, scope, remote>> /\ Active' = Active
  BY BesideFacts DEF RenewalStops, Beside, loops
<1>2. SharedTypes'
  BY <1>1, Types, Fields DEF AgentInv, SharedTypes, Lefts, RenewalStops, NoRenewal
<1>3. SharedOK'
  BY <1>1, Types, Fields DEF AgentInv, SharedTypes, SharedOK, ClaimOK, LeaseOK, AnswersOK,
     CancelHasCause, ForCurrent, LeaseCurrent, Lefts, RenewalStops, NoRenewal
<1>. QED BY <1>1, <1>2, <1>3, LoopStep DEF Beside

LEMMA DeadlinePassesStep ==
    ASSUME AgentInv, DeadlinePasses, UNCHANGED others
    PROVE  AgentInv'
<1>1. Beside /\ UNCHANGED <<pc, scope, remote>> /\ Active' = Active
  BY BesideFacts DEF DeadlinePasses, Beside, loops
<1>2. SharedTypes'
  BY <1>1, Types, Fields, CancelTyped DEF AgentInv, SharedTypes, Lefts, DeadlinePasses, loops,
     Finished
<1>3. SharedOK'
  BY <1>1, Types, Fields, CancelTyped DEF AgentInv, SharedTypes, SharedOK, ClaimOK, LeaseOK,
     AnswersOK, CancelHasCause, ForCurrent, LeaseCurrent, Lefts, DeadlinePasses, loops, Finished
<1>. QED BY <1>1, <1>2, <1>3, LoopStep DEF Beside

LEMMA RequestShutdownStep ==
    ASSUME AgentInv, RequestShutdown, UNCHANGED others
    PROVE  AgentInv'
<1>1. Beside /\ UNCHANGED <<pc, scope, remote>> /\ Active' = Active
  BY BesideFacts DEF RequestShutdown, Beside, loops
<1>2. SharedTypes'
  BY <1>1, Types, Fields, CancelTyped DEF AgentInv, SharedTypes, Lefts, RequestShutdown, loops
<1>3. SharedOK'
  BY <1>1, Types, Fields, CancelTyped DEF AgentInv, SharedTypes, SharedOK, ClaimOK, LeaseOK,
     AnswersOK, CancelHasCause, ForCurrent, LeaseCurrent, Lefts, RequestShutdown, loops
<1>. QED BY <1>1, <1>2, <1>3, LoopStep DEF Beside

LEMMA WithdrawStep ==
    ASSUME AgentInv, Withdraw, UNCHANGED others
    PROVE  AgentInv'
<1>1. Beside /\ UNCHANGED <<pc, scope, remote>> /\ Active' = Active
  BY BesideFacts DEF Withdraw, Beside, loops
<1>2. SharedTypes'
  BY <1>1, Types, Fields, FaultCounts, CancelTyped DEF AgentInv, SharedTypes, Lefts, Withdraw, loops
<1>3. SharedOK'
  BY <1>1, Types, Fields, CancelTyped DEF AgentInv, SharedTypes, SharedOK, ClaimOK, LeaseOK,
     AnswersOK, CancelHasCause, ForCurrent, LeaseCurrent, Lefts, Withdraw, loops
<1>. QED BY <1>1, <1>2, <1>3, LoopStep DEF Beside

LEMMA LoseLeaseStep ==
    ASSUME AgentInv, LoseLease, UNCHANGED others
    PROVE  AgentInv'
<1>1. Beside /\ UNCHANGED <<pc, scope, remote>> /\ Active' = Active
  BY BesideFacts DEF LoseLease, Beside, loops
<1>4. /\ UNCHANGED <<job, hb, rn, shutdown, faults>>
      /\ mgr' = [mgr EXCEPT !.held = FALSE, !.left = 0] /\ act' = [act EXCEPT !.left = 0]
  BY DEF LoseLease, loops
<1>5. mgr'.held = FALSE /\ mgr'.left = 0 /\ mgr'.cancel = mgr.cancel /\ act'.left = 0
  BY <1>4, Types DEF AgentInv, SharedTypes
<1>2. SharedTypes'
  BY <1>1, <1>4, Types, EndsOfLefts DEF AgentInv, SharedTypes
<1>3. SharedOK'
  BY <1>1, <1>4, <1>5 DEF AgentInv, SharedOK, ClaimOK, LeaseOK, AnswersOK, CancelHasCause,
     ForCurrent, LeaseCurrent
<1>. QED BY <1>1, <1>2, <1>3, LoopStep DEF Beside

LEMMA TickStep ==
    ASSUME AgentInv, Tick, UNCHANGED others
    PROVE  AgentInv'
<1>1. Beside /\ UNCHANGED <<pc, scope, remote>> /\ Active' = Active
  BY BesideFacts DEF Tick, Beside, loops
<1>4. /\ UNCHANGED <<job, shutdown, faults>>
      /\ mgr' = [mgr EXCEPT !.left = Less(mgr.left)] /\ act' = [act EXCEPT !.left = Less(act.left)]
      /\ hb' = [hb EXCEPT !.base = Less(hb.base), !.left = Less(hb.left)]
      /\ rn' = [rn EXCEPT !.base = Less(rn.base), !.left = Less(rn.left)]
  BY DEF Tick
<1>5. /\ mgr'.left = Less(mgr.left) /\ mgr'.held = mgr.held /\ mgr'.cancel = mgr.cancel
      /\ act'.left = Less(act.left) /\ act'.asked = act.asked
      /\ hb'.base = Less(hb.base) /\ hb'.left = Less(hb.left) /\ hb'.state = hb.state
      /\ hb'.job = hb.job /\ hb'.cancel = hb.cancel
      /\ rn'.base = Less(rn.base) /\ rn'.left = Less(rn.left) /\ rn'.state = rn.state
  BY <1>4, Types DEF AgentInv, SharedTypes
<1>6. \A n \in Lefts : Less(n) \in Lefts
  BY Fields DEF Lefts, Less
<1>2. SharedTypes'
  BY <1>1, <1>4, <1>6, Types DEF AgentInv, SharedTypes
<1>7. ClaimOK' /\ LeaseOK'
  BY <1>1, <1>4, <1>5, Fields DEF AgentInv, ClaimOK, LeaseOK, ForCurrent, Less
<1>8. AnswersOK' /\ CancelHasCause'
  BY <1>1, <1>4, <1>5, Fields DEF AgentInv, AnswersOK, CancelHasCause, ForCurrent, LeaseCurrent,
     Less
<1>3. SharedOK'
  BY <1>7, <1>8 DEF SharedOK
<1>. QED BY <1>1, <1>2, <1>3, LoopStep DEF Beside
-----------------------------------------------------------------------------
(* The executor, beside loops that stand still *)

\* What a status call leaves of the lease.
ManagerKeeps ==
    \/ mgr' = mgr
    \/ LeaseCurrent /\ mgr'.left = mgr.left /\ mgr'.cancel = mgr.cancel

ManagerTyped ==
    mgr' \in [held : BOOLEAN, left : Lefts, cancel : BOOLEAN, status : {"none"} \cup JobStatuses]

FaultsTyped == faults' \in 0..MaxFaults(scope')

LEMMA StatusCallFacts ==
    ASSUME AgentInv, NEW status \in {"none"} \cup JobStatuses, NEW ok \in BOOLEAN,
           StatusCall(status, ok), scope' = scope
    PROVE  ManagerKeeps /\ ManagerTyped /\ FaultsTyped
<1>1. /\ mgr' = mgr \/ (mgr' = Recorded(status) /\ Accepts(status))
      /\ faults' = faults \/ Fault
  BY DEF StatusCall
<1>2. mgr \in [held : BOOLEAN, left : Lefts, cancel : BOOLEAN, status : {"none"} \cup JobStatuses]
  BY Types DEF AgentInv, SharedTypes
<1>3. /\ Recorded(status) \in [held : BOOLEAN, left : Lefts, cancel : BOOLEAN,
                               status : {"none"} \cup JobStatuses]
      /\ Recorded(status).left = mgr.left /\ Recorded(status).cancel = mgr.cancel
  BY <1>2 DEF Recorded
<1>4. FaultsTyped
  BY <1>1, FaultCounts, Fields DEF FaultsTyped
<1>. QED BY <1>1, <1>2, <1>3, <1>4 DEF ManagerKeeps, ManagerTyped, Accepts

LEMMA LoopsStand ==
    ASSUME AgentInv, pc \in Busy, pc' \in Busy, UNCHANGED <<act, job, loops, shutdown, scope>>,
           ManagerKeeps, ManagerTyped, FaultsTyped
    PROVE  SharedTypes' /\ SharedOK'
<1>1. UNCHANGED <<act, job, hb, rn, shutdown, scope>>
  BY DEF loops
<1>2. SharedTypes'
  BY <1>1, Types DEF AgentInv, SharedTypes, ManagerTyped, FaultsTyped
<1>3. /\ mgr'.held => mgr.held
      /\ mgr'.left = mgr.left /\ mgr'.cancel = mgr.cancel
  BY DEF ManagerKeeps, LeaseCurrent
<1>4. pc \notin {"idle", "stopped"} /\ pc' \notin {"idle", "stopped"} /\ Active /\ Active'
  BY DEF Busy, Active
<1>5. ClaimOK'
  BY <1>1, <1>4 DEF AgentInv, ClaimOK
<1>6. LeaseOK' /\ AnswersOK' /\ CancelHasCause'
  BY <1>1, <1>3, <1>4 DEF AgentInv, LeaseOK, AnswersOK, CancelHasCause, ForCurrent, LeaseCurrent
<1>. QED BY <1>2, <1>5, <1>6 DEF SharedOK

\* No transfer and no command is under way.
Settled == xfer.at = "off" /\ \A p \in Shards : runner[p] = "off"

LEMMA SettledOutside ==
    ASSUME AgentInv, pc # "run" \/ Plan[stage] \notin Commands \cup InputStages
    PROVE  Settled
BY DEF AgentInv, TransferOK, CommandsOK, Settled

LEMMA Quits ==
    ASSUME AgentInv, Settled, pc' \notin Working \cup Passed, UNCHANGED others
    PROVE  ExecutorOK'
<1>1. UNCHANGED <<xfer, place, testSet, flat, runner, leader>>
  BY DEF others, processVars, inputVars
<1>2. RanOK' /\ ItemsOK' /\ GivenOK'
  BY DEF RanOK, ItemsOK, GivenOK, Passed, Publishing, Working
<1>3. TransferOK'
  BY <1>1 DEF AgentInv, Settled, TransferOK, Fetching
<1>4. CommandsOK'
  BY <1>1 DEF AgentInv, Settled, CommandsOK
<1>. QED BY <1>2, <1>3, <1>4 DEF ExecutorOK

LEMMA GoesOn ==
    ASSUME AgentInv, Settled, UNCHANGED others, pc \in Working \cup Passed,
           pc' \in Working \cup Passed, ran' = ran, Done' = Done,
           pc' \in Publishing => stage' = Len(Plan), ItemsOK'
    PROVE  ExecutorOK'
<1>1. UNCHANGED <<xfer, place, testSet, flat, runner, leader>>
  BY DEF others, processVars, inputVars
<1>2. Plan' = Plan
  BY SamePlan DEF others
<1>3. \A s : StageGives(s)' <=> StageGives(s)
  BY <1>1 DEF StageGives
<1>4. RanOK'
  BY <1>2 DEF AgentInv, RanOK
<1>5. GivenOK'
  BY <1>2, <1>3 DEF AgentInv, GivenOK
<1>6. TransferOK'
  BY <1>1 DEF AgentInv, Settled, TransferOK, Fetching
<1>7. CommandsOK'
  BY <1>1 DEF AgentInv, Settled, CommandsOK
<1>. QED BY <1>4, <1>5, <1>6, <1>7 DEF ExecutorOK

\* The part of ExecutorTypes that is about the executor itself.
PlaceTypes ==
    /\ pc \in Busy \cup {"idle", "claimed", "stopped"}
    /\ stage \in 1..Len(Plan)
    /\ exc \in {"none", "error", "cancelled"}
    /\ report \in {"none"} \cup TERMINAL_JOB_STATUSES
    /\ item \in 1..(Artifacts + Samples + 1) /\ try \in 0..MaxTries /\ ambiguous \in BOOLEAN
    /\ remote \in [Items -> {"none", "pending", "stored", "finalizing", "completed"}]

LEMMA PlaceTyped ==
    ASSUME AgentInv
    PROVE  /\ PlaceTypes /\ ProcessTypeOK /\ InputsTypeOK
           /\ scope \in Scopes /\ Artifacts \in Nat /\ Samples \in Nat /\ MaxTries \in Nat \ {0}
BY Types, AgentAssumption DEF AgentInv, ExecutorTypes, SharedTypes, PlaceTypes

LEMMA PlaceNext ==
    ASSUME AgentInv, UNCHANGED <<processVars, inputVars>>, PlaceTypes'
    PROVE  ExecutorTypes'
<1>1. ProcessTypeOK' /\ InputsTypeOK'
  BY PlaceTyped DEF processVars, inputVars, ProcessTypeOK, InputsTypeOK
<1>. QED BY <1>1 DEF ExecutorTypes, PlaceTypes

\* A step of the executor: what is left to show of it.
LEMMA ExecutorStep ==
    ASSUME AgentInv, pc \in Busy, pc' \in Busy, UNCHANGED <<act, job, loops, shutdown, others>>,
           ManagerKeeps, ManagerTyped, FaultsTyped, PlaceTypes', ExecutorOK'
    PROVE  AgentInv'
<1>1. SharedTypes' /\ SharedOK'
  BY LoopsStand DEF others
<1>2. ExecutorTypes'
  BY PlaceNext DEF others
<1>. QED BY <1>1, <1>2, Assembled

LEMMA ManagerStands ==
    ASSUME AgentInv, mgr' = mgr
    PROVE  ManagerKeeps /\ ManagerTyped
BY Types DEF AgentInv, SharedTypes, ManagerKeeps, ManagerTyped

LEMMA FaultsNext ==
    ASSUME AgentInv, scope' = scope, faults' = faults \/ Fault
    PROVE  FaultsTyped
BY FaultCounts, Fields DEF FaultsTyped

\* An exception takes the executor to the handler, from a place where nothing runs.
LEMMA RaiseStep ==
    ASSUME AgentInv, pc \in Busy, Settled, pc' = "handler", exc' \in {"error", "cancelled"},
           UNCHANGED <<act, job, loops, shutdown, others, stage, report>>,
           UNCHANGED <<item, ambiguous>>, try' \in 0..MaxTries,
           remote' \in [Items -> {"none", "pending", "stored", "finalizing", "completed"}],
           ManagerKeeps, ManagerTyped, FaultsTyped
    PROVE  AgentInv'
<1>1. Plan' = Plan /\ Items' = Items
  BY SamePlan DEF others
<1>2. PlaceTypes'
  BY <1>1, PlaceTyped DEF PlaceTypes, Busy
<1>3. ExecutorOK'
  BY Quits DEF Working, Passed, Publishing, Uploading
<1>4. pc' \in Busy
  BY DEF Busy
<1>. QED BY <1>2, <1>3, <1>4, ExecutorStep

LEMMA AdmitStep ==
    ASSUME AgentInv, Admit, UNCHANGED others
    PROVE  AgentInv'
<1>1. /\ pc = "admit" /\ scope' = scope
      /\ UNCHANGED <<stage, report, ran, act, job, loops, shutdown, item, try, ambiguous, mgr, remote>>
  BY DEF Admit, others, publication
<1>2. ManagerKeeps /\ ManagerTyped
  BY <1>1, ManagerStands
<1>3. FaultsTyped
  BY <1>1, FaultsNext DEF Admit
<1>4. Settled /\ pc \in Busy
  BY <1>1, SettledOutside DEF Busy
<1>5. CASE Raise("error")
  <2>1. pc' = "handler" /\ exc' = "error"
    BY <1>5 DEF Raise
  <2>2. try' \in 0..MaxTries
      /\ remote' \in [Items -> {"none", "pending", "stored", "finalizing", "completed"}]
    BY <1>1, PlaceTyped DEF PlaceTypes
  <2>. QED BY <1>1, <1>2, <1>3, <1>4, <2>1, <2>2, RaiseStep
<1>6. CASE pc' = "status" /\ exc' = exc
  <2>1. Plan' = Plan /\ Items' = Items
    BY SamePlan DEF others
  <2>2. PlaceTypes'
    BY <1>1, <1>6, <2>1, PlaceTyped DEF PlaceTypes, Busy
  <2>3. ItemsOK'
    BY <1>1, <1>6 DEF AgentInv, ItemsOK, Working, Publishing, Uploading
  <2>4. /\ pc \in Working \cup Passed /\ pc' \in Working \cup Passed
        /\ pc' \notin Publishing /\ Done' = Done /\ pc' \in Busy
    BY <1>1, <1>6 DEF Working, Passed, Publishing, Uploading, Done, Busy
  <2>5. ExecutorOK'
    BY <1>1, <1>4, <2>3, <2>4, GoesOn
  <2>. QED BY <1>1, <1>2, <1>3, <1>4, <2>2, <2>4, <2>5, ExecutorStep
<1>. QED BY <1>5, <1>6 DEF Admit

LEMMA ReportStatusStep ==
    ASSUME AgentInv, ReportStatus, UNCHANGED others
    PROVE  AgentInv'
<1>1. /\ pc = "status" /\ scope' = scope /\ try' = 1
      /\ UNCHANGED <<stage, report, ran, act, job, loops, shutdown, item, ambiguous, remote>>
  BY DEF ReportStatus, others
<1>2. Plan[stage] \in {"none"} \cup JobStatuses
  BY PlaceTyped, PlanFacts DEF PlaceTypes, JobStatuses
<1>3. ManagerKeeps /\ ManagerTyped /\ FaultsTyped
  <2>1. CASE act.cancelled
    BY <1>1, <2>1, ManagerStands, FaultsNext DEF ReportStatus
  <2>2. CASE ~act.cancelled
    <3>1. PICK ok \in BOOLEAN : StatusCall(Plan[stage], ok)
      BY <2>2 DEF ReportStatus
    <3>. QED BY <1>1, <1>2, <3>1, StatusCallFacts
  <2>. QED BY <2>1, <2>2
<1>4. Settled /\ pc \in Busy
  BY <1>1, SettledOutside DEF Busy
<1>5. 1 \in 0..MaxTries
      /\ remote' \in [Items -> {"none", "pending", "stored", "finalizing", "completed"}]
  BY <1>1, PlaceTyped DEF PlaceTypes
<1>6. (pc' = "handler" /\ exc' \in {"error", "cancelled"}) \/ (pc' = "run" /\ exc' = exc)
  BY DEF ReportStatus, Raise
<1>7. CASE pc' = "handler" /\ exc' \in {"error", "cancelled"}
  BY <1>1, <1>3, <1>4, <1>5, <1>7, RaiseStep
<1>8. CASE pc' = "run" /\ exc' = exc
  <2>1. Plan' = Plan /\ Items' = Items
    BY SamePlan DEF others
  <2>2. PlaceTypes'
    BY <1>1, <1>5, <1>8, <2>1, PlaceTyped DEF PlaceTypes, Busy
  <2>3. ItemsOK'
    BY <1>1, <1>8 DEF AgentInv, ItemsOK, Working, Publishing, Uploading
  <2>4. /\ pc \in Working \cup Passed /\ pc' \in Working \cup Passed
        /\ pc' \notin Publishing /\ Done' = Done /\ pc' \in Busy
    BY <1>1, <1>8 DEF Working, Passed, Publishing, Uploading, Done, Busy
  <2>5. ExecutorOK'
    BY <1>1, <1>4, <2>3, <2>4, GoesOn
  <2>. QED BY <1>1, <1>3, <1>4, <2>2, <2>4, <2>5, ExecutorStep
<1>. QED BY <1>6, <1>7, <1>8

LEMMA CompleteStep ==
    ASSUME AgentInv, Complete, UNCHANGED others
    PROVE  AgentInv'
<1>1. /\ pc = "complete" /\ scope' = scope
      /\ UNCHANGED <<stage, report, ran, act, job, loops, shutdown, item, try, ambiguous, remote>>
  BY DEF Complete, others, publication
<1>2. ManagerKeeps /\ ManagerTyped /\ FaultsTyped
  <2>1. CASE act.cancelled
    BY <1>1, <2>1, ManagerStands, FaultsNext DEF Complete
  <2>2. CASE ~act.cancelled
    <3>1. PICK ok \in BOOLEAN : StatusCall("completed", ok)
      BY <2>2 DEF Complete
    <3>2. "completed" \in {"none"} \cup JobStatuses
      BY DEF JobStatuses, TERMINAL_JOB_STATUSES
    <3>. QED BY <1>1, <3>1, <3>2, StatusCallFacts
  <2>. QED BY <2>1, <2>2
<1>3. Settled /\ pc \in Busy
  BY <1>1, SettledOutside DEF Busy
<1>4. (pc' = "handler" /\ exc' \in {"error", "cancelled"}) \/ (pc' = "close" /\ exc' = exc)
  BY DEF Complete, Raise
<1>5. Plan' = Plan /\ Items' = Items
  BY SamePlan DEF others
<1>6. PlaceTypes' /\ pc' \in Busy
  BY <1>1, <1>4, <1>5, PlaceTyped DEF PlaceTypes, Busy
<1>7. ExecutorOK'
  BY <1>3, <1>4, Quits DEF Working, Passed, Publishing, Uploading
<1>. QED BY <1>1, <1>2, <1>3, <1>6, <1>7, ExecutorStep

LEMMA HandleStep ==
    ASSUME AgentInv, Handle, UNCHANGED others
    PROVE  AgentInv'
<1>1. /\ pc = "handler" /\ pc' = "report" /\ scope' = scope /\ report' \in {"failed", "cancelled"}
      /\ UNCHANGED <<stage, exc, ran, act, job, loops, shutdown, item, try, ambiguous, mgr, remote,
                     faults>>
  BY DEF Handle, others, publication, Classified
<1>2. ManagerKeeps /\ ManagerTyped /\ FaultsTyped
  BY <1>1, ManagerStands, FaultsNext
<1>3. Settled /\ pc \in Busy /\ pc' \in Busy
  BY <1>1, SettledOutside DEF Busy
<1>4. Plan' = Plan /\ Items' = Items
  BY SamePlan DEF others
<1>5. PlaceTypes'
  BY <1>1, <1>4, PlaceTyped DEF PlaceTypes, Busy, TERMINAL_JOB_STATUSES
<1>6. ExecutorOK'
  BY <1>1, <1>3, Quits DEF Working, Passed, Publishing, Uploading
<1>. QED BY <1>1, <1>2, <1>3, <1>5, <1>6, ExecutorStep

LEMMA ReportTerminalStep ==
    ASSUME AgentInv, ReportTerminal, UNCHANGED others
    PROVE  AgentInv'
<1>1. /\ pc = "report" /\ pc' = "close" /\ scope' = scope
      /\ UNCHANGED <<stage, exc, report, ran, act, job, loops, shutdown, item, try, ambiguous, remote>>
  BY DEF ReportTerminal, others, publication
<1>2. PICK ok \in BOOLEAN : StatusCall(report, ok)
  BY DEF ReportTerminal
<1>3. report \in {"none"} \cup JobStatuses
  BY PlaceTyped DEF PlaceTypes, JobStatuses
<1>4. ManagerKeeps /\ ManagerTyped /\ FaultsTyped
  BY <1>1, <1>2, <1>3, StatusCallFacts
<1>5. Settled /\ pc \in Busy /\ pc' \in Busy
  BY <1>1, SettledOutside DEF Busy
<1>6. Plan' = Plan /\ Items' = Items
  BY SamePlan DEF others
<1>7. PlaceTypes'
  BY <1>1, <1>6, PlaceTyped DEF PlaceTypes, Busy
<1>8. ExecutorOK'
  BY <1>1, <1>5, Quits DEF Working, Passed, Publishing, Uploading
<1>. QED BY <1>1, <1>4, <1>5, <1>7, <1>8, ExecutorStep

LEMMA CloseStep ==
    ASSUME AgentInv, Close, UNCHANGED others
    PROVE  AgentInv'
<1>1. /\ pc = "close" /\ pc' = "idle" /\ rn.state = "off" /\ act' = NoAct
      /\ job' = [job EXCEPT !.current = 0]
      /\ UNCHANGED <<stage, exc, report, hb, rn, shutdown, item, try, ambiguous, mgr, remote,
                     faults, scope>>
  BY DEF Close, others, publication, loops
<1>2. Settled
  BY <1>1, SettledOutside
<1>3. Plan' = Plan /\ Items' = Items
  BY SamePlan DEF others
<1>4. PlaceTypes'
  BY <1>1, <1>3, PlaceTyped DEF PlaceTypes
<1>5. ExecutorTypes'
  BY <1>4, PlaceNext DEF others
<1>6. ExecutorOK'
  BY <1>1, <1>2, Quits DEF Working, Passed, Publishing, Uploading
<1>7. act' \in [cancelled : BOOLEAN, fatal : BOOLEAN, asked : BOOLEAN, left : Lefts]
  BY <1>1, EndsOfLefts DEF NoAct
<1>8. /\ job' \in [current : 0..MaxJobs(scope), granted : 0..MaxJobs(scope)]
      /\ job'.current = 0 /\ job'.granted = job.granted
  BY <1>1, Types, Fields DEF AgentInv, SharedTypes
<1>9. SharedTypes'
  BY <1>1, <1>7, <1>8, Types DEF AgentInv, SharedTypes
<1>10. ~Active'
  BY <1>1 DEF Active, Busy
<1>11. SharedOK'
  BY <1>1, <1>8, <1>10, Fields DEF AgentInv, SharedOK, ClaimOK, LeaseOK, AnswersOK, CancelHasCause,
         ForCurrent, LeaseCurrent
<1>. QED BY <1>5, <1>6, <1>9, <1>11, Assembled

LEMMA StopStep ==
    ASSUME AgentInv, Stop, UNCHANGED others
    PROVE  AgentInv'
<1>1. /\ pc = "idle" /\ pc' = "stopped" /\ hb' = NoHeartbeat
      /\ UNCHANGED <<stage, exc, report, act, job, rn, shutdown, item, try, ambiguous, mgr, remote,
                     faults, scope>>
  BY DEF Stop, others, publication
<1>2. Settled
  BY <1>1, SettledOutside
<1>3. Plan' = Plan /\ Items' = Items
  BY SamePlan DEF others
<1>4. PlaceTypes'
  BY <1>1, <1>3, PlaceTyped DEF PlaceTypes
<1>5. ExecutorTypes'
  BY <1>4, PlaceNext DEF others
<1>6. ExecutorOK'
  BY <1>1, <1>2, Quits DEF Working, Passed, Publishing, Uploading
<1>7. /\ hb' \in [state : {"off", "sent", "answered"}, job : 0..MaxJobs(scope), base : Lefts,
                  left : Lefts, cancel : BOOLEAN]
      /\ hb'.state = "off" /\ hb'.job = 0
  BY <1>1, Fields, EndsOfLefts DEF NoHeartbeat
<1>8. SharedTypes'
  BY <1>1, <1>7, Types DEF AgentInv, SharedTypes
<1>9. ~Active /\ ~Active'
  BY <1>1 DEF Active, Busy
<1>10. SharedOK'
  BY <1>1, <1>7, <1>9, Fields DEF AgentInv, SharedOK, ClaimOK, LeaseOK, AnswersOK, CancelHasCause,
         ForCurrent, LeaseCurrent
<1>. QED BY <1>5, <1>6, <1>8, <1>10, Assembled
-----------------------------------------------------------------------------
(* Claims and stages *)

LEMMA ClaimStep ==
    ASSUME AgentInv, Claim, UNCHANGED others
    PROVE  AgentInv'
<1>1. /\ pc = "idle" /\ pc' \in {"idle", "claimed"} /\ job.granted < MaxJobs(scope)
      /\ mgr' = [held |-> TRUE, left |-> LeaseTicks, cancel |-> FALSE, status |-> "assigned"]
      /\ remote' = [i \in Items |-> "none"]
      /\ faults' = faults \/ Fault
      /\ UNCHANGED <<stage, exc, report, act, hb, rn, shutdown, item, try, ambiguous, scope>>
  BY DEF Claim, others, publication, loops
<1>2. Settled
  BY <1>1, SettledOutside
<1>3. Plan' = Plan /\ Items' = Items
  BY SamePlan DEF others
<1>4. PlaceTypes'
  BY <1>1, <1>3, PlaceTyped DEF PlaceTypes
<1>5. ExecutorTypes'
  BY <1>4, PlaceNext DEF others
<1>6. ExecutorOK'
  BY <1>1, <1>2, Quits DEF Working, Passed, Publishing, Uploading
<1>7. job = [current |-> job.current, granted |-> job.granted]
  BY Types DEF AgentInv, SharedTypes
<1>8. /\ job' \in [current : 0..MaxJobs(scope), granted : 0..MaxJobs(scope)]
      /\ job'.granted = job.granted + 1
      /\ job'.current = IF pc' = "idle" THEN 0 ELSE job.granted + 1
  <2>1. job.current = 0
    BY <1>1 DEF AgentInv, ClaimOK
  <2>2. CASE pc' = "claimed"
    BY <1>1, <2>2, Fields DEF Claim
  <2>3. CASE pc' = "idle"
    <3>1. job' = [job EXCEPT !.granted = job.granted + 1]
      BY <1>1, <2>3 DEF Claim
    <3>2. job' = [current |-> 0, granted |-> job.granted + 1]
      BY <1>7, <2>1, <3>1
    <3>. QED BY <1>1, <2>3, <3>2, Fields
  <2>. QED BY <1>1, <2>2, <2>3
<1>9. /\ mgr' \in [held : BOOLEAN, left : Lefts, cancel : BOOLEAN, status : {"none"} \cup JobStatuses]
      /\ mgr'.held
  BY <1>1, EndsOfLefts DEF JobStatuses, ExecutionStatuses
<1>10. FaultsTyped
  BY <1>1, FaultsNext
<1>11. SharedTypes'
  BY <1>1, <1>8, <1>9, <1>10, Types DEF AgentInv, SharedTypes, FaultsTyped
<1>12. ~Active /\ ~Active'
  BY <1>1 DEF Active, Busy
<1>13. rn.state = "off" /\ hb.job <= job.granted
  BY <1>12 DEF AgentInv, ClaimOK
<1>14. ~ForCurrent'
  BY <1>1, <1>8, <1>13, Fields DEF ForCurrent
<1>15. ClaimOK'
  BY <1>1, <1>8, <1>12, <1>13, Fields DEF ClaimOK
<1>16. LeaseOK' /\ CancelHasCause'
  BY <1>1, <1>12, <1>13, <1>14 DEF LeaseOK, CancelHasCause
<1>17. AnswersOK'
  BY <1>1, <1>13, <1>14 DEF AgentInv, AnswersOK
<1>. QED BY <1>5, <1>6, <1>11, <1>15, <1>16, <1>17, Assembled DEF SharedOK

LEMMA StartClaimStep ==
    ASSUME AgentInv, StartClaim, UNCHANGED <<processVars, scope>>
    PROVE  AgentInv'
<1>1. /\ pc = "claimed" /\ stage' = 1 /\ ran' = <<>> /\ report' = "none"
      /\ item' = 1 /\ try' = 1 /\ ambiguous' = FALSE
      /\ UNCHANGED <<job, hb, shutdown, mgr, remote, faults, scope>>
  BY DEF StartClaim
<1>2. /\ xfer' = NoTransfer /\ place' = [f \in Files |-> "none"]
      /\ testSet' = [i \in 1..TestItems |-> "none"] /\ flat' = "none"
  BY DEF StartClaim, PrepareWorkspace
<1>3. Settled
  BY <1>1, SettledOutside
<1>4. Plan' = Plan /\ Items' = Items
  BY SamePlan
<1>5. (pc' = "handler" /\ exc' = "cancelled") \/ (pc' = "admit" /\ exc' = "none")
  BY DEF StartClaim
<1>6. Len(Plan) \in Nat \ {0}
  BY PlaceTyped, PlanFacts
<1>7. PlaceTypes'
  <2>1. 1 \in 1..(Artifacts + Samples + 1) /\ 1 \in 0..MaxTries /\ 1 \in 1..Len(Plan)
    BY <1>6, PlaceTyped
  <2>2. remote \in [Items -> {"none", "pending", "stored", "finalizing", "completed"}]
    BY PlaceTyped DEF PlaceTypes
  <2>. QED BY <1>1, <1>4, <1>5, <2>1, <2>2 DEF PlaceTypes, Busy
<1>8. ProcessTypeOK' /\ InputsTypeOK'
  <2>1. ProcessTypeOK'
    BY PlaceTyped DEF ProcessTypeOK, processVars
  <2>2. xfer' \in [at : {"off", "look", "stream", "check", "link", "wait", "collect", "unpack", "done"},
                   file : Files, bytes : {"none", "short", "wrong", "whole"},
                   try : 1..DownloadTries, outcome : {"none", "ok", "error", "cancelled"}]
    BY <1>2, InputsAssumption DEF NoTransfer, Files, Archive
  <2>. QED BY <1>2, <2>1, <2>2 DEF InputsTypeOK, Contents
<1>9. ExecutorTypes'
  BY <1>7, <1>8 DEF ExecutorTypes, PlaceTypes
<1>10. UNCHANGED <<runner, leader>> /\ xfer'.at = "off"
  BY <1>2 DEF processVars, NoTransfer
<1>11. RanOK'
  <2>1. CASE pc' = "admit"
    <3>1. Done' = 0
      BY <1>1, <2>1 DEF Done, Passed, Publishing, Uploading
    <3>2. [i \in 1..0 |-> i] = <<>>
      OBVIOUS
    <3>. QED BY <1>1, <2>1, <3>1, <3>2 DEF RanOK, Publishing, Uploading
  <2>2. CASE pc' = "handler"
    BY <2>2 DEF RanOK, Working, Passed, Publishing, Uploading
  <2>. QED BY <1>5, <2>1, <2>2
<1>12. ItemsOK'
  BY <1>1, <1>5 DEF ItemsOK, Publishing, Uploading, Working
<1>13. TransferOK'
  BY <1>2, <1>10 DEF TransferOK, Fetching
<1>14. GivenOK'
  <2>1. CASE pc' = "admit"
    <3>1. Done' = 0
      BY <1>1, <2>1 DEF Done, Passed, Publishing, Uploading
    <3>. QED BY <3>1 DEF GivenOK
  <2>2. CASE pc' = "handler"
    BY <2>2 DEF GivenOK, Working, Passed, Publishing, Uploading
  <2>. QED BY <1>5, <2>1, <2>2
<1>15. CommandsOK'
  BY <1>3, <1>10 DEF AgentInv, Settled, CommandsOK
<1>16. ~Active /\ Active' /\ rn.state = "off" /\ job.granted # 0 /\ job.current = job.granted
  BY <1>1, <1>5 DEF Active, Busy, AgentInv, ClaimOK
<1>17. /\ act' \in [cancelled : BOOLEAN, fatal : BOOLEAN, asked : BOOLEAN, left : Lefts]
       /\ act'.left = mgr.left /\ (act'.asked => mgr.left = 0)
  <2>1. NoAct \in [cancelled : BOOLEAN, fatal : BOOLEAN, asked : BOOLEAN, left : Lefts]
        /\ NoAct.left = 0
    BY EndsOfLefts DEF NoAct
  <2>2. CASE mgr.left = 0
    <3>1. act' = Cancel(NoAct)
      BY <2>2 DEF StartClaim
    <3>. QED BY <2>1, <2>2, <3>1, CancelTyped
  <2>3. CASE mgr.left # 0
    <3>1. act' = [NoAct EXCEPT !.left = mgr.left]
      BY <2>3 DEF StartClaim
    <3>2. act' = [cancelled |-> FALSE, fatal |-> FALSE, asked |-> FALSE, left |-> mgr.left]
      BY <3>1 DEF NoAct
    <3>3. mgr.left \in Lefts
      BY Fields DEF Lefts
    <3>. QED BY <3>2, <3>3
  <2>. QED BY <2>2, <2>3
<1>18. /\ rn' \in [state : {"off", "wait", "sent", "answered", "refused", "lost"},
                   base : Lefts, left : Lefts]
       /\ rn'.state \in {"off", "wait"}
  <2>1. CASE mgr.left = 0
    <3>1. rn' = rn
      BY <2>1 DEF StartClaim
    <3>. QED BY <1>16, <3>1, Types DEF AgentInv, SharedTypes
  <2>2. CASE mgr.left # 0
    <3>1. rn' = [state |-> IF scope = "lease" THEN "wait" ELSE "off", base |-> 0, left |-> 0]
      BY <2>2 DEF StartClaim, NoRenewal
    <3>. QED BY <3>1, EndsOfLefts
  <2>. QED BY <2>1, <2>2
<1>19. SharedTypes'
  BY <1>1, <1>17, <1>18, Types DEF AgentInv, SharedTypes
<1>20. ClaimOK'
  BY <1>1, <1>5, <1>16 DEF AgentInv, ClaimOK
<1>21. LeaseOK' /\ AnswersOK'
  BY <1>1, <1>17, <1>18, Fields DEF AgentInv, LeaseOK, AnswersOK, ForCurrent, LeaseCurrent
<1>22. CancelHasCause'
  BY <1>1, <1>17 DEF CancelHasCause
<1>23. ExecutorOK' /\ SharedOK'
  BY <1>11, <1>12, <1>13, <1>14, <1>15, <1>20, <1>21, <1>22 DEF ExecutorOK, SharedOK
<1>. QED BY <1>9, <1>19, <1>23, Assembled

\* A stage that returned has done its part: the executor goes on to its callback.
LEMMA ReturnedFacts ==
    ASSUME AgentInv, pc = "run", Plan[stage] \in ExecutionStatuses, StageGives(Plan[stage]),
           pc' = "callback", ran' = Append(ran, stage),
           UNCHANGED <<stage, item, place, testSet, flat, scope>>
    PROVE  RanOK' /\ ItemsOK' /\ GivenOK'
<1>1. stage \in Nat \ {0} /\ stage \in 1..Len(Plan) /\ Len(Plan) \in Nat
  BY PlaceTyped, PlanFacts DEF PlaceTypes
<1>2. Done = stage - 1 /\ Done' = stage
  BY DEF Done, Passed, Publishing, Uploading
<1>3. ran = [i \in 1..(stage - 1) |-> i]
  BY <1>2 DEF AgentInv, RanOK, Working
<1>4. Append(ran, stage) = [i \in 1..stage |-> i]
  <2>1. ran \in Seq(Nat) /\ Len(ran) = stage - 1
    BY <1>1, <1>3
  <2>2. /\ Append(ran, stage) \in Seq(Nat) /\ Len(Append(ran, stage)) = stage
        /\ \A i \in 1..(stage - 1) : Append(ran, stage)[i] = i
        /\ Append(ran, stage)[stage] = stage
    BY <1>1, <1>3, <2>1, AppendProperties
  <2>3. [i \in 1..stage |-> i] \in Seq(Nat) /\ Len([i \in 1..stage |-> i]) = stage
    BY <1>1
  <2>4. \A i \in 1..stage : Append(ran, stage)[i] = [j \in 1..stage |-> j][i]
    BY <1>1, <2>2
  <2>. QED BY <2>2, <2>3, <2>4, SeqEqual
<1>5. RanOK'
  BY <1>2, <1>4 DEF RanOK, Publishing, Uploading
<1>6. ItemsOK'
  BY DEF AgentInv, ItemsOK, Working, Publishing, Uploading
<1>7. Plan' = Plan
  BY SamePlan
<1>8. \A s : StageGives(s)' <=> StageGives(s)
  BY DEF StageGives
<1>9. \A k \in 1..(stage - 1) : StageGives(Plan[k])
  BY <1>2 DEF AgentInv, GivenOK, Working
<1>10. \A k \in 1..stage : StageGives(Plan[k])
  BY <1>1, <1>9
<1>11. GivenOK'
  BY <1>2, <1>7, <1>8, <1>10 DEF GivenOK
<1>. QED BY <1>5, <1>6, <1>11

LEMMA RunStageStep ==
    ASSUME AgentInv, RunStage, UNCHANGED others
    PROVE  AgentInv'
<1>1. /\ pc = "run" /\ Plan[stage] \notin Commands \cup InputStages /\ scope' = scope
      /\ UNCHANGED <<stage, report, act, job, loops, shutdown, item, try, ambiguous, mgr, remote>>
  BY DEF RunStage, others, publication
<1>2. ManagerKeeps /\ ManagerTyped /\ FaultsTyped
  BY <1>1, ManagerStands, FaultsNext DEF RunStage, Returned
<1>3. Settled /\ pc \in Busy
  BY <1>1, SettledOutside DEF Busy
<1>4. \/ pc' = "handler" /\ exc' \in {"error", "cancelled"}
      \/ pc' = "callback" /\ exc' = exc /\ ran' = Append(ran, stage)
  BY DEF RunStage, Returned, Raise
<1>5. CASE pc' = "handler" /\ exc' \in {"error", "cancelled"}
  <2>1. try' \in 0..MaxTries
      /\ remote' \in [Items -> {"none", "pending", "stored", "finalizing", "completed"}]
    BY <1>1, PlaceTyped DEF PlaceTypes
  <2>. QED BY <1>1, <1>2, <1>3, <1>5, <2>1, RaiseStep
<1>6. CASE pc' = "callback" /\ exc' = exc /\ ran' = Append(ran, stage)
  <2>1. Plan' = Plan /\ Items' = Items
    BY SamePlan DEF others
  <2>2. PlaceTypes' /\ pc' \in Busy
    BY <1>1, <1>6, <2>1, PlaceTyped DEF PlaceTypes, Busy
  <2>3. UNCHANGED <<xfer, place, testSet, flat, runner, leader>>
    BY DEF others, processVars, inputVars
  <2>4. StageGives(Plan[stage]) /\ Plan[stage] \in ExecutionStatuses
    BY <1>1, PlaceTyped, PlanFacts DEF StageGives, InputStages, PlaceTypes
  <2>5. RanOK' /\ ItemsOK' /\ GivenOK'
    BY <1>1, <1>6, <2>3, <2>4, ReturnedFacts
  <2>6. TransferOK' /\ CommandsOK'
    BY <1>3, <2>3 DEF AgentInv, Settled, TransferOK, CommandsOK, Fetching
  <2>7. ExecutorOK'
    BY <2>5, <2>6 DEF ExecutorOK
  <2>. QED BY <1>1, <1>2, <1>3, <2>2, <2>7, ExecutorStep
<1>. QED BY <1>4, <1>5, <1>6

LEMMA StageCallbackStep ==
    ASSUME AgentInv, StageCallback, UNCHANGED others
    PROVE  AgentInv'
<1>1. /\ pc = "callback" /\ scope' = scope /\ try' = 1
      /\ UNCHANGED <<report, ran, act, job, loops, shutdown, item, ambiguous, mgr, remote>>
  BY DEF StageCallback, others
<1>2. ManagerKeeps /\ ManagerTyped /\ FaultsTyped
  BY <1>1, ManagerStands, FaultsNext DEF StageCallback
<1>3. Settled /\ pc \in Busy
  BY <1>1, SettledOutside DEF Busy
<1>4. 1 \in 0..MaxTries
      /\ remote' \in [Items -> {"none", "pending", "stored", "finalizing", "completed"}]
  BY <1>1, PlaceTyped DEF PlaceTypes
<1>5. Plan' = Plan /\ Items' = Items
  BY SamePlan DEF others
<1>6. stage \in 1..Len(Plan) /\ Len(Plan) \in Nat \ {0} /\ item = 1
  BY <1>1, PlaceTyped, PlanFacts DEF PlaceTypes, AgentInv, ItemsOK
<1>7. CASE pc' = "handler" /\ exc' = "error" /\ stage' = stage
  BY <1>1, <1>2, <1>3, <1>4, <1>7, RaiseStep
<1>8. CASE Plan[stage] # "uploading_artifacts" /\ pc' = "status" /\ stage' = stage + 1 /\ exc' = exc
  <2>1. stage < Len(Plan)
    BY <1>6, <1>8, PlaceTyped, PlanFacts
  <2>2. PlaceTypes' /\ pc' \in Busy
    BY <1>1, <1>4, <1>5, <1>6, <1>8, <2>1, PlaceTyped DEF PlaceTypes, Busy
  <2>3. Done = stage /\ Done' = stage
    BY <1>1, <1>6, <1>8 DEF Done, Passed, Publishing, Uploading
  <2>4. ItemsOK'
    BY <1>1, <1>6, <1>8 DEF ItemsOK, Publishing, Uploading
  <2>5. pc \in Working \cup Passed /\ pc' \in Working \cup Passed /\ pc' \notin Publishing
    BY <1>1, <1>8 DEF Working, Passed, Publishing, Uploading
  <2>6. ExecutorOK'
    BY <1>1, <1>3, <2>3, <2>4, <2>5, GoesOn
  <2>. QED BY <1>1, <1>2, <1>3, <2>2, <2>6, ExecutorStep
<1>9. CASE Plan[stage] = "uploading_artifacts" /\ pc' = ItemLabel(1) /\ exc' = exc /\ stage' = stage
  <2>1. stage = Len(Plan)
    BY <1>6, <1>9, PlaceTyped, PlanFacts
  <2>2. pc' \in {"init", "register", "complete"} /\ (pc' = "complete" <=> 1 \notin Items)
    BY <1>9 DEF ItemLabel
  <2>3. PlaceTypes' /\ pc' \in Busy
    BY <1>1, <1>4, <1>5, <1>6, <1>9, <2>2, PlaceTyped DEF PlaceTypes, Busy
  <2>4. Done = stage /\ Done' = stage
    BY <1>1, <1>9, <2>2 DEF Done, Passed, Publishing, Uploading
  <2>5. \A i \in Items : ~(i < 1)
    BY PlaceTyped DEF Items
  <2>6. ItemsOK'
    BY <1>1, <1>5, <1>6, <2>2, <2>5 DEF ItemsOK, Working, Publishing, Uploading
  <2>7. pc \in Working \cup Passed /\ pc' \in Working \cup Passed
    BY <1>1, <2>2 DEF Working, Passed, Publishing, Uploading
  <2>8. ExecutorOK'
    BY <1>1, <1>3, <1>9, <2>1, <2>4, <2>6, <2>7, GoesOn
  <2>. QED BY <1>1, <1>2, <1>3, <2>3, <2>8, ExecutorStep
<1>. QED BY <1>7, <1>8, <1>9 DEF StageCallback, Raise
-----------------------------------------------------------------------------
(* Publication *)

RemoteStates == {"none", "pending", "stored", "finalizing", "completed"}

\* What is published stays published.
RemoteKeeps ==
    /\ remote' \in [Items -> RemoteStates]
    /\ \A i \in Items : remote[i] = "completed" => remote'[i] = "completed"

\* How a step of the publication ends: an error, the same item, or the next one.
SameItem ==
    \/ pc' = "handler" /\ exc' \in {"error", "cancelled"} /\ UNCHANGED publication
    \/ pc' \in Uploading /\ item' = item /\ try' \in 0..MaxTries /\ ambiguous' \in BOOLEAN /\ exc' = exc

LEMMA PublishStep ==
    ASSUME AgentInv, UNCHANGED others, pc \in Uploading,
           UNCHANGED <<stage, report, ran, act, job, loops, shutdown, mgr>>,
           faults' = faults \/ Fault, RemoteKeeps,
           SameItem \/ (NextItem /\ remote'[item] = "completed")
    PROVE  AgentInv'
<1>1. scope' = scope /\ Plan' = Plan /\ Items' = Items
  BY SamePlan DEF others
<1>2. ManagerKeeps /\ ManagerTyped /\ FaultsTyped
  BY <1>1, ManagerStands, FaultsNext
<1>3. Settled /\ pc \in Busy
  BY SettledOutside DEF Busy, Uploading
<1>4. /\ item \in Items /\ item \in 1..(Artifacts + Samples) /\ try \in 0..MaxTries /\ stage = Len(Plan)
      /\ ambiguous \in BOOLEAN
      /\ \A i \in Items : i < item => remote[i] = "completed"
  <2>1. item \in Items /\ stage = Len(Plan) /\ \A i \in Items : i < item => remote[i] = "completed"
    BY DEF AgentInv, ItemsOK, RanOK, Publishing
  <2>2. item \in 1..(Artifacts + Samples)
    BY <2>1 DEF Items
  <2>3. try \in 0..MaxTries /\ ambiguous \in BOOLEAN
    BY PlaceTyped DEF PlaceTypes
  <2>. QED BY <2>1, <2>2, <2>3
<1>5. remote' \in [Items -> {"none", "pending", "stored", "finalizing", "completed"}]
  BY DEF RemoteKeeps, RemoteStates
<1>6. CASE pc' = "handler" /\ exc' \in {"error", "cancelled"} /\ UNCHANGED publication
  <2>1. UNCHANGED <<item, ambiguous>> /\ try' \in 0..MaxTries
    BY <1>4, <1>6 DEF publication
  <2>. QED BY <1>2, <1>3, <1>5, <1>6, <2>1, RaiseStep
<1>7. ASSUME pc' \in Publishing, exc' = exc, try' \in 0..MaxTries, ambiguous' \in BOOLEAN,
             item' \in 1..(Artifacts + Samples + 1), ItemsOK'
      PROVE  AgentInv'
  <2>1. pc' \in Busy
    BY <1>7 DEF Publishing, Uploading, Busy
  <2>2. PlaceTypes'
    BY <1>1, <1>5, <1>7, <2>1, PlaceTyped DEF PlaceTypes
  <2>3. pc \in Working \cup Passed /\ pc' \in Working \cup Passed
    BY <1>7 DEF Passed, Publishing
  <2>4. Done' = Done
    BY <1>7 DEF Done, Passed, Publishing
  <2>5. ExecutorOK'
    BY <1>3, <1>4, <1>7, <2>3, <2>4, GoesOn
  <2>. QED BY <1>2, <1>3, <2>1, <2>2, <2>5, ExecutorStep
<1>8. CASE pc' \in Uploading /\ item' = item /\ try' \in 0..MaxTries
           /\ ambiguous' \in BOOLEAN /\ exc' = exc
  <2>1. ItemsOK'
    BY <1>1, <1>4, <1>8 DEF ItemsOK, Working, Uploading, RemoteKeeps
  <2>2. item' \in 1..(Artifacts + Samples + 1)
    BY <1>8, PlaceTyped DEF PlaceTypes
  <2>. QED BY <1>7, <1>8, <2>1, <2>2 DEF Publishing
<1>9. CASE NextItem /\ remote'[item] = "completed"
  <2>1. /\ item' = item + 1 /\ try' = 1 /\ ambiguous' = FALSE /\ exc' = exc
        /\ pc' \in {"init", "register", "complete"} /\ (pc' = "complete" <=> item + 1 \notin Items)
    BY <1>9 DEF NextItem, ItemLabel
  <2>2. item' \in 1..(Artifacts + Samples + 1) /\ 1 \in 0..MaxTries
    BY <1>4, <2>1, PlaceTyped
  <2>3. \A i \in Items : i < item + 1 => remote'[i] = "completed"
    <3>1. \A i \in Items : i < item + 1 => i < item \/ i = item
      BY <1>4, PlaceTyped DEF Items
    <3>. QED BY <1>4, <1>9, <3>1 DEF RemoteKeeps
  <2>4. ItemsOK'
    BY <1>1, <2>1, <2>3 DEF ItemsOK, Working, Uploading
  <2>5. pc' \in Publishing /\ ambiguous' \in BOOLEAN
    BY <2>1 DEF Publishing, Uploading
  <2>6. exc' = exc /\ try' \in 0..MaxTries
    BY <2>1, <2>2
  <2>. QED BY <1>7, <2>2, <2>4, <2>5, <2>6
<1>. QED BY <1>6, <1>8, <1>9 DEF SameItem

LEMMA RemoteTyped ==
    ASSUME AgentInv
    PROVE  remote \in [Items -> RemoteStates] /\ ambiguous \in BOOLEAN /\ try \in 0..MaxTries
BY PlaceTyped DEF PlaceTypes, RemoteStates

LEMMA RemoteSame ==
    ASSUME AgentInv, remote' = remote
    PROVE  RemoteKeeps
BY RemoteTyped DEF RemoteKeeps

LEMMA RemoteSet ==
    ASSUME AgentInv, pc \in Uploading, NEW s \in RemoteStates, remote' = [remote EXCEPT ![item] = s],
           remote[item] = "completed" => s = "completed"
    PROVE  RemoteKeeps /\ remote'[item] = s
<1>1. item \in Items
  BY DEF AgentInv, ItemsOK
<1>. QED BY <1>1, RemoteTyped DEF RemoteKeeps

LEMMA RetryFacts ==
    ASSUME AgentInv, pc \in Uploading, RetryOrRaise
    PROVE  SameItem
<1>1. item \in Items
  BY DEF AgentInv, ItemsOK
<1>2. try \in 0..MaxTries /\ MaxTries \in Nat
  BY RemoteTyped, PlaceTyped
<1>3. CASE try < MaxTries
  <2>1. pc' = ItemLabel(item) /\ try' = try + 1 /\ ambiguous' = FALSE /\ UNCHANGED <<exc, item>>
    BY <1>3 DEF RetryOrRaise
  <2>2. pc' \in Uploading
    BY <1>1, <2>1 DEF ItemLabel, Uploading
  <2>3. try' \in 0..MaxTries
    BY <1>2, <1>3, <2>1
  <2>4. ambiguous' \in BOOLEAN
    BY <2>1
  <2>. QED BY <2>1, <2>2, <2>3, <2>4 DEF SameItem
<1>4. CASE ~(try < MaxTries)
  BY <1>4 DEF RetryOrRaise, Raise, SameItem
<1>. QED BY <1>3, <1>4

LEMMA RaiseFacts ==
    ASSUME NEW kind \in {"error", "cancelled"}, Raise(kind), UNCHANGED publication
    PROVE  SameItem
BY DEF Raise, SameItem

LEMMA TransferCancelledStep ==
    ASSUME AgentInv, TransferCancelled, UNCHANGED others
    PROVE  AgentInv'
<1>1. pc \in Uploading /\ UNCHANGED <<stage, report, ran, act, job, loops, shutdown, mgr>>
      /\ faults' = faults /\ remote' = remote
  BY DEF TransferCancelled, Uploading
<1>2. SameItem
  BY RaiseFacts DEF TransferCancelled
<1>. QED BY <1>1, <1>2, RemoteSame, PublishStep

LEMMA InitUploadStep ==
    ASSUME AgentInv, InitUpload, UNCHANGED others
    PROVE  AgentInv'
<1>1. pc \in Uploading /\ UNCHANGED <<stage, report, ran, act, job, loops, shutdown, mgr>>
      /\ (faults' = faults \/ Fault)
  BY DEF InitUpload, Transfer, Uploading
<1>2. remote \in [Items -> RemoteStates] /\ item \in Items
  BY <1>1, RemoteTyped DEF AgentInv, ItemsOK
<1>3. CASE Raise("error") /\ UNCHANGED <<publication, remote>>
  BY <1>1, <1>3, RaiseFacts, RemoteSame, PublishStep
<1>4. CASE /\ remote[item] \in {"none", "pending", "stored"}
           /\ Remote(IF remote[item] = "none" THEN "pending" ELSE remote[item])
           /\ pc' = "put" /\ UNCHANGED <<exc, publication>>
  <2>1. RemoteKeeps
    BY <1>1, <1>4, RemoteSet DEF Remote, RemoteStates
  <2>2. SameItem
    BY <1>4, RemoteTyped DEF SameItem, publication, Uploading
  <2>. QED BY <1>1, <2>1, <2>2, PublishStep
<1>5. CASE remote[item] = "completed" /\ NextItem /\ UNCHANGED remote
  BY <1>1, <1>5, RemoteSame, PublishStep
<1>6. CASE /\ RetryOrRaise
           /\ remote' \in {remote, [remote EXCEPT ![item] = IF @ = "none" THEN "pending" ELSE @]}
  <2>1. RemoteKeeps
    <3>1. CASE remote' = remote
      BY <3>1, RemoteSame
    <3>2. CASE remote' = [remote EXCEPT ![item] =
                            IF remote[item] = "none" THEN "pending" ELSE remote[item]]
      <4> DEFINE s == IF remote[item] = "none" THEN "pending" ELSE remote[item]
      <4>1. s \in RemoteStates /\ (remote[item] = "completed" => s = "completed")
        BY <1>2 DEF RemoteStates
      <4>. HIDE DEF s
      <4>2. remote' = [remote EXCEPT ![item] = s]
        BY <3>2 DEF s
      <4>. QED BY <1>1, <4>1, <4>2, RemoteSet
    <3>. QED BY <1>6, <3>1, <3>2
  <2>. QED BY <1>1, <1>6, <2>1, RetryFacts, PublishStep
<1>. QED BY <1>3, <1>4, <1>5, <1>6 DEF InitUpload

LEMMA PutFileStep ==
    ASSUME AgentInv, PutFile, UNCHANGED others
    PROVE  AgentInv'
<1>1. pc \in Uploading /\ UNCHANGED <<stage, report, ran, act, job, loops, shutdown, mgr>>
      /\ (faults' = faults \/ Fault)
  BY DEF PutFile, Transfer, Uploading
<1>2. remote \in [Items -> RemoteStates] /\ item \in Items
  BY <1>1, RemoteTyped DEF AgentInv, ItemsOK
<1>3. CASE remote[item] = "pending" /\ Remote("stored") /\ pc' = "finalize"
           /\ UNCHANGED <<exc, publication>>
  <2>1. RemoteKeeps
    BY <1>1, <1>3, RemoteSet DEF Remote, RemoteStates
  <2>2. SameItem
    BY <1>3, RemoteTyped DEF SameItem, publication, Uploading
  <2>. QED BY <1>1, <2>1, <2>2, PublishStep
<1>4. CASE /\ pc' = "finalize" /\ ambiguous' = TRUE /\ UNCHANGED <<exc, item, try>>
           /\ remote' \in {remote, [remote EXCEPT ![item] = IF @ = "pending" THEN "stored" ELSE @]}
  <2>1. RemoteKeeps
    <3>1. CASE remote' = remote
      BY <3>1, RemoteSame
    <3>2. CASE remote' = [remote EXCEPT ![item] =
                            IF remote[item] = "pending" THEN "stored" ELSE remote[item]]
      <4> DEFINE s == IF remote[item] = "pending" THEN "stored" ELSE remote[item]
      <4>1. s \in RemoteStates /\ (remote[item] = "completed" => s = "completed")
        BY <1>2 DEF RemoteStates
      <4>. HIDE DEF s
      <4>2. remote' = [remote EXCEPT ![item] = s]
        BY <3>2 DEF s
      <4>. QED BY <1>1, <4>1, <4>2, RemoteSet
    <3>. QED BY <1>4, <3>1, <3>2
  <2>2. SameItem
    BY <1>4, RemoteTyped DEF SameItem, Uploading
  <2>. QED BY <1>1, <2>1, <2>2, PublishStep
<1>5. CASE Raise("error") /\ UNCHANGED <<publication, remote>>
  BY <1>1, <1>5, RaiseFacts, RemoteSame, PublishStep
<1>. QED BY <1>3, <1>4, <1>5 DEF PutFile

LEMMA FinalizeUploadStep ==
    ASSUME AgentInv, FinalizeUpload, UNCHANGED others
    PROVE  AgentInv'
<1>1. pc \in Uploading /\ UNCHANGED <<stage, report, ran, act, job, loops, shutdown, mgr>>
      /\ (faults' = faults \/ Fault)
  BY DEF FinalizeUpload, Transfer, Uploading
<1>2. remote \in [Items -> RemoteStates] /\ item \in Items
  BY <1>1, RemoteTyped DEF AgentInv, ItemsOK
<1>3. CASE Remote("completed") /\ NextItem
  <2>1. RemoteKeeps /\ remote'[item] = "completed"
    BY <1>1, <1>3, RemoteSet DEF Remote, RemoteStates
  <2>. QED BY <1>1, <1>3, <2>1, PublishStep
<1>4. CASE pc' = "refused" /\ UNCHANGED <<exc, publication, remote>>
  <2>1. SameItem
    BY <1>4, RemoteTyped DEF SameItem, publication, Uploading
  <2>. QED BY <1>1, <1>4, <2>1, RemoteSame, PublishStep
<1>5. CASE /\ pc' = "refresh" /\ UNCHANGED <<exc, publication>>
           /\ remote' \in {remote, [remote EXCEPT ![item] = IF @ = "stored" THEN "finalizing" ELSE @]}
  <2>1. RemoteKeeps
    <3>1. CASE remote' = remote
      BY <3>1, RemoteSame
    <3>2. CASE remote' = [remote EXCEPT ![item] =
                            IF remote[item] = "stored" THEN "finalizing" ELSE remote[item]]
      <4> DEFINE s == IF remote[item] = "stored" THEN "finalizing" ELSE remote[item]
      <4>1. s \in RemoteStates /\ (remote[item] = "completed" => s = "completed")
        BY <1>2 DEF RemoteStates
      <4>. HIDE DEF s
      <4>2. remote' = [remote EXCEPT ![item] = s]
        BY <3>2 DEF s
      <4>. QED BY <1>1, <4>1, <4>2, RemoteSet
    <3>. QED BY <1>5, <3>1, <3>2
  <2>2. SameItem
    BY <1>5, RemoteTyped DEF SameItem, publication, Uploading
  <2>. QED BY <1>1, <2>1, <2>2, PublishStep
<1>. QED BY <1>3, <1>4, <1>5 DEF FinalizeUpload

LEMMA RefreshUploadStep ==
    ASSUME AgentInv, RefreshUpload, UNCHANGED others
    PROVE  AgentInv'
<1>1. pc \in Uploading /\ UNCHANGED <<stage, report, ran, act, job, loops, shutdown, mgr>>
      /\ (faults' = faults \/ Fault) /\ remote' = remote
  BY DEF RefreshUpload, Transfer, Uploading
<1>2. \/ Raise("error") /\ UNCHANGED publication
      \/ remote[item] = "completed" /\ NextItem
      \/ RetryOrRaise
  BY DEF RefreshUpload
<1>3. SameItem \/ (NextItem /\ remote'[item] = "completed")
  BY <1>1, <1>2, RaiseFacts, RetryFacts
<1>. QED BY <1>1, <1>3, RemoteSame, PublishStep

LEMMA RegisterSampleStep ==
    ASSUME AgentInv, RegisterSample, UNCHANGED others
    PROVE  AgentInv'
<1>1. pc \in Uploading /\ UNCHANGED <<stage, report, ran, act, job, loops, shutdown, mgr>>
      /\ (faults' = faults \/ Fault)
  BY DEF RegisterSample, Transfer, Uploading
<1>2. CASE Raise("error") /\ UNCHANGED <<publication, remote>>
  BY <1>1, <1>2, RaiseFacts, RemoteSame, PublishStep
<1>3. CASE Remote("completed") /\ NextItem
  <2>1. RemoteKeeps /\ remote'[item] = "completed"
    BY <1>1, <1>3, RemoteSet DEF Remote, RemoteStates
  <2>. QED BY <1>1, <1>3, <2>1, PublishStep
<1>4. CASE RetryOrRaise /\ remote' \in {remote, [remote EXCEPT ![item] = "completed"]}
  <2>1. RemoteKeeps
    BY <1>1, <1>4, RemoteSame, RemoteSet DEF RemoteStates
  <2>. QED BY <1>1, <1>4, <2>1, RetryFacts, PublishStep
<1>. QED BY <1>2, <1>3, <1>4 DEF RegisterSample
-----------------------------------------------------------------------------
(* Inputs *)

Transfers ==
    [at : {"off", "look", "stream", "check", "link", "wait", "collect", "unpack", "done"},
     file : Files, bytes : {"none", "short", "wrong", "whole"},
     try : 1..DownloadTries, outcome : {"none", "ok", "error", "cancelled"}]

\* Files that were verified stay.
InputsKeep ==
    /\ place[Archive] = "verified" => place'[Archive] = "verified"
    /\ \A i \in 1..TestItems : testSet[i] = "verified" => testSet'[i] = "verified"
    /\ flat = "verified" => flat' = "verified"

LEMMA InputsTyped ==
    ASSUME AgentInv
    PROVE  /\ xfer \in Transfers /\ place \in [Files -> Contents]
           /\ testSet \in [1..TestItems -> Contents] /\ flat \in Contents
           /\ Archive \in Files /\ TestItems \in Nat /\ DownloadTries \in Nat \ {0}
           /\ \A i \in 1..TestItems : i \in Files
BY PlaceTyped, InputsAssumption DEF InputsTypeOK, Transfers, Archive, Files

\* The rest of the agent during a step on the inputs.
AgentStands ==
    /\ UNCHANGED <<executor, act, job, loops, shutdown, publication, mgr, remote, scope, processVars>>
    /\ faults' = faults \/ Fault

LEMMA InputsBeside ==
    ASSUME AgentInv, AgentStands, InputsTypeOK', TransferOK', InputsKeep
    PROVE  AgentInv'
<1>1. UNCHANGED <<pc, stage, exc, report, ran, act, job, hb, rn, shutdown, item, try, ambiguous,
                  mgr, remote, scope, leader, child, runner, result, stageStop>>
  BY DEF AgentStands, executor, loops, publication, processVars
<1>2. Plan' = Plan /\ Items' = Items
  BY <1>1, SamePlan
<1>3. FaultsTyped
  BY <1>1, FaultsNext DEF AgentStands
<1>4. SharedTypes'
  BY <1>1, <1>3, Types DEF AgentInv, SharedTypes, FaultsTyped
<1>5. SharedOK'
  BY <1>1 DEF AgentInv, SharedOK, ClaimOK, LeaseOK, AnswersOK, CancelHasCause, Active, ForCurrent,
              LeaseCurrent
<1>6. ProcessTypeOK' /\ PlaceTypes'
  BY <1>1, <1>2, PlaceTyped DEF ProcessTypeOK, PlaceTypes
<1>7. ExecutorTypes'
  BY <1>6 DEF ExecutorTypes, PlaceTypes
<1>8. Done' = Done
  BY <1>1 DEF Done
<1>9. RanOK' /\ ItemsOK' /\ CommandsOK'
  BY <1>1, <1>2, <1>8 DEF AgentInv, RanOK, ItemsOK, CommandsOK
<1>10. \A s : StageGives(s) => StageGives(s)'
  BY DEF StageGives, InputsKeep
<1>11. GivenOK'
  BY <1>1, <1>2, <1>8, <1>10 DEF AgentInv, GivenOK
<1>. QED BY <1>4, <1>5, <1>7, <1>9, <1>11, Assembled DEF ExecutorOK

\* A stage that ends leaves its partial file and its staging directory behind it.
LEMMA OverFacts ==
    ASSUME AgentInv, AgentStands, xfer.at # "off",
           NEW outcome \in {"ok", "error", "cancelled"},
           xfer' = [NoTransfer EXCEPT !.at = "done", !.outcome = outcome],
           NEW new \in Contents, new # "wrong", place[Archive] = "verified" => new = "verified",
           place' = [f \in Files |-> IF f = Archive THEN new ELSE "none"],
           testSet' \in [1..TestItems -> Contents], flat' \in Contents,
           testSet' = testSet \/ \A i \in 1..TestItems : testSet'[i] = "verified",
           flat' = flat \/ flat' = "verified",
           outcome = "ok" => StageGives(Plan[stage])'
    PROVE  AgentInv'
<1>1. xfer' = [at |-> "done", file |-> Archive, bytes |-> "none", try |-> 1, outcome |-> outcome]
  BY DEF NoTransfer
<1>2. xfer' \in Transfers
  BY <1>1, InputsTyped DEF Transfers
<1>3. InputsTypeOK'
  BY <1>2, InputsTyped DEF InputsTypeOK, Transfers, Contents
<1>4. pc = "run" /\ Plan[stage] \in InputStages
  BY DEF AgentInv, TransferOK
<1>5. UNCHANGED <<pc, stage>> /\ Plan' = Plan
  BY SamePlan DEF AgentStands, executor
<1>7. TransferOK'
  BY <1>1, <1>4, <1>5 DEF TransferOK, Fetching
<1>8. InputsKeep
  BY InputsTyped DEF InputsKeep
<1>. QED BY <1>3, <1>7, <1>8, InputsBeside

LEMMA OverStep ==
    ASSUME AgentInv, AgentStands, xfer.at # "off",
           NEW outcome \in {"ok", "error", "cancelled"}, Over(outcome),
           testSet' \in [1..TestItems -> Contents], flat' \in Contents,
           testSet' = testSet \/ \A i \in 1..TestItems : testSet'[i] = "verified",
           flat' = flat \/ flat' = "verified",
           outcome = "ok" => StageGives(Plan[stage])'
    PROVE  AgentInv'
<1>1. place[Archive] \in Contents /\ place[Archive] # "wrong"
  BY InputsTyped DEF AgentInv, TransferOK
<1>2. place' = [f \in Files |-> IF f = Archive THEN place[Archive] ELSE "none"]
  BY InputsTyped DEF Over
<1>3. xfer' = [NoTransfer EXCEPT !.at = "done", !.outcome = outcome]
  BY DEF Over
<1>. QED BY <1>1, <1>2, <1>3, OverFacts

\* A step within the transfer of the files.
LEMMA FetchStep ==
    ASSUME AgentInv, AgentStands, Plan[stage] = "downloading_dataset", pc = "run",
           UNCHANGED <<testSet, flat>>,
           xfer' \in Transfers, xfer'.at \in Fetching \cup {"collect"},
           xfer'.at = "link" => xfer'.bytes = "whole",
           place' \in [Files -> Contents], \A f \in Files : place'[f] # "wrong",
           place[Archive] = "verified" => place'[Archive] = "verified",
           (xfer'.at \in Fetching /\ xfer'.file # Archive) \/ xfer'.at = "collect"
             => place'[Archive] = "verified"
    PROVE  AgentInv'
<1>1. InputsTypeOK'
  BY InputsTyped DEF InputsTypeOK, Transfers
<1>2. UNCHANGED <<pc, stage>> /\ Plan' = Plan
  BY SamePlan DEF AgentStands, executor
<1>3. TransferOK'
  BY <1>2 DEF TransferOK, Fetching, InputStages
<1>4. InputsKeep
  BY DEF InputsKeep
<1>. QED BY <1>1, <1>3, <1>4, InputsBeside

LEMMA Fetches ==
    ASSUME AgentInv, xfer.at \in Fetching \cup {"collect"}
    PROVE  pc = "run" /\ Plan[stage] = "downloading_dataset" /\ xfer.at # "off"
BY DEF AgentInv, TransferOK, Fetching

\* The file that was looked for or linked is there: the next one.
LEMMA NextFileStep ==
    ASSUME AgentInv, AgentStands, xfer.at \in Fetching, NextFile, UNCHANGED <<testSet, flat>>,
           place' \in [Files -> Contents], \A f \in Files : place'[f] # "wrong",
           place[Archive] = "verified" => place'[Archive] = "verified",
           place'[xfer.file] = "verified",
           \A f \in Files : f # xfer.file => place'[f] = place[f]
    PROVE  AgentInv'
<1>1. pc = "run" /\ Plan[stage] = "downloading_dataset" /\ xfer.at # "off"
  BY Fetches
<1>2. place'[Archive] = "verified"
  <2>1. CASE xfer.file = Archive
    BY <2>1
  <2>2. CASE xfer.file # Archive
    BY <2>2 DEF AgentInv, TransferOK
  <2>. QED BY <2>1, <2>2
<1>3. xfer.file \in 0..TestItems
  BY InputsTyped DEF Transfers, Files
<1>4. CASE xfer.file < TestItems
  <2>1. xfer' = [at |-> "look", file |-> xfer.file + 1, bytes |-> "none", try |-> 1, outcome |-> "none"]
    BY <1>4 DEF NextFile, NoTransfer
  <2>2. xfer.file + 1 \in Files /\ 1 \in 1..DownloadTries
    BY <1>3, <1>4, InputsTyped DEF Files
  <2>3. xfer' \in Transfers /\ xfer'.at = "look"
    BY <2>1, <2>2 DEF Transfers
  <2>. QED BY <1>1, <1>2, <2>3, FetchStep DEF Fetching
<1>5. CASE ~(xfer.file < TestItems) /\ TestItems # 0
  <2>1. xfer' = [at |-> "collect", file |-> Archive, bytes |-> "none", try |-> 1, outcome |-> "none"]
    BY <1>5 DEF NextFile, NoTransfer
  <2>2. xfer' \in Transfers /\ xfer'.at = "collect"
    BY <2>1, InputsTyped DEF Transfers
  <2>. QED BY <1>1, <1>2, <2>2, FetchStep DEF Fetching
<1>6. CASE ~(xfer.file < TestItems) /\ TestItems = 0
  <2>1. xfer' = [NoTransfer EXCEPT !.at = "done", !.outcome = "ok"]
    BY <1>6 DEF NextFile
  <2>2. \A f \in Files : f = Archive
    BY <1>6 DEF Files, Archive
  <2>3. place' = [f \in Files |-> IF f = Archive THEN "verified" ELSE "none"]
    BY <1>2, <2>2
  <2>4. Plan' = Plan /\ stage' = stage
    BY SamePlan DEF AgentStands, executor
  <2>5. StageGives(Plan[stage])'
    BY <1>1, <1>2, <1>6, <2>4 DEF StageGives
  <2>6. testSet' \in [1..TestItems -> Contents] /\ flat' \in Contents /\ "verified" \in Contents
    BY InputsTyped DEF Contents
  <2>. QED BY <1>1, <2>1, <2>3, <2>5, <2>6, OverFacts
<1>. QED BY <1>4, <1>5, <1>6

LEMMA FetchOver ==
    ASSUME AgentInv, AgentStands, xfer.at # "off", NEW outcome \in {"error", "cancelled"},
           Over(outcome), UNCHANGED <<testSet, flat>>
    PROVE  AgentInv'
BY InputsTyped, OverStep

LEMMA WaitRecord ==
    ASSUME AgentInv, xfer' = [Removed EXCEPT !.at = "wait", !.try = xfer.try + 1]
    PROVE  xfer' = [at |-> "wait", file |-> xfer.file, bytes |-> "none", try |-> xfer.try + 1,
                    outcome |-> xfer.outcome]
BY InputsTyped DEF Removed, Transfers

\* Once more after a delay.
LEMMA WaitStep ==
    ASSUME AgentInv, AgentStands, xfer.at \in Fetching, xfer.try < DownloadTries,
           xfer' = [at |-> "wait", file |-> xfer.file, bytes |-> "none", try |-> xfer.try + 1,
                    outcome |-> xfer.outcome],
           UNCHANGED <<testSet, flat>>,
           place' \in [Files -> Contents], \A f \in Files : place'[f] # "wrong",
           place[Archive] = "verified" => place'[Archive] = "verified"
    PROVE  AgentInv'
<1>1. pc = "run" /\ Plan[stage] = "downloading_dataset"
  BY Fetches
<1>2. xfer.file \in Files /\ xfer.try + 1 \in 1..DownloadTries
      /\ xfer.outcome \in {"none", "ok", "error", "cancelled"}
  BY InputsTyped DEF Transfers
<1>3. xfer' \in Transfers /\ xfer'.at = "wait" /\ xfer'.file = xfer.file
  BY <1>2 DEF Transfers
<1>4. xfer.file # Archive => place[Archive] = "verified"
  BY DEF AgentInv, TransferOK
<1>. QED BY <1>1, <1>3, <1>4, FetchStep DEF Fetching

LEMMA AgainStep ==
    ASSUME AgentInv, AgentStands, xfer.at \in Fetching, Again, UNCHANGED <<testSet, flat>>
    PROVE  AgentInv'
<1>1. CASE xfer.try < DownloadTries
  <2>1. /\ xfer' = [at |-> "wait", file |-> xfer.file, bytes |-> "none", try |-> xfer.try + 1,
                    outcome |-> xfer.outcome]
        /\ place' = place
    BY <1>1, WaitRecord DEF Again
  <2>2. place' \in [Files -> Contents] /\ \A f \in Files : place'[f] # "wrong"
    BY <2>1, InputsTyped DEF AgentInv, TransferOK
  <2>. QED BY <1>1, <2>1, <2>2, WaitStep
<1>2. CASE ~(xfer.try < DownloadTries)
  BY <1>2, FetchOver DEF Again, Fetching
<1>. QED BY <1>1, <1>2

\* A step that moves the transfer of the same file.
LEMMA MoveStep ==
    ASSUME AgentInv, AgentStands, xfer.at \in Fetching, NEW at \in Fetching,
           NEW bytes \in {"none", "short", "wrong", "whole"}, at = "link" => bytes = "whole",
           xfer' = [xfer EXCEPT !.at = at, !.bytes = bytes], UNCHANGED <<place, testSet, flat>>
    PROVE  AgentInv'
<1>1. pc = "run" /\ Plan[stage] = "downloading_dataset"
  BY Fetches
<1>2. xfer' \in Transfers /\ xfer'.at = at /\ xfer'.bytes = bytes /\ xfer'.file = xfer.file
  BY InputsTyped DEF Transfers, Fetching
<1>3. xfer.file # Archive => place[Archive] = "verified"
  BY DEF AgentInv, TransferOK
<1>4. place' \in [Files -> Contents] /\ \A f \in Files : place'[f] # "wrong"
  BY InputsTyped DEF AgentInv, TransferOK
<1>. QED BY <1>1, <1>2, <1>3, <1>4, FetchStep DEF Fetching

LEMMA LookStep ==
    ASSUME AgentInv, AgentStands, LookForFile
    PROVE  AgentInv'
<1>1. xfer.at \in Fetching /\ UNCHANGED <<testSet, flat>> /\ xfer.file \in Files
      /\ xfer.bytes \in {"none", "short", "wrong", "whole"}
      /\ place[xfer.file] \in {"none", "verified", "wrong"}
  BY InputsTyped DEF LookForFile, Fetching, Transfers, Contents
<1>2. CASE place[xfer.file] = "verified"
  <2>1. NextFile /\ place' = place
    BY <1>2 DEF LookForFile
  <2>2. place' \in [Files -> Contents] /\ \A f \in Files : place'[f] # "wrong"
    BY <2>1, InputsTyped DEF AgentInv, TransferOK
  <2>. QED BY <1>1, <1>2, <2>1, <2>2, NextFileStep
<1>3. CASE place[xfer.file] = "wrong"
  BY <1>1, <1>3 DEF AgentInv, TransferOK
<1>4. CASE place[xfer.file] = "none"
  <2>1. xfer' = [xfer EXCEPT !.at = "stream"] /\ place' = place
    BY <1>4 DEF LookForFile
  <2>2. xfer' = [xfer EXCEPT !.at = "stream", !.bytes = xfer.bytes]
    BY <2>1, InputsTyped DEF Transfers
  <2>. QED BY <1>1, <2>1, <2>2, MoveStep DEF Fetching
<1>. QED BY <1>1, <1>2, <1>3, <1>4

LEMMA StreamStep ==
    ASSUME AgentInv, AgentStands, StreamResponse(Fault, UNCHANGED faults)
    PROVE  AgentInv'
<1>1. xfer.at \in Fetching /\ UNCHANGED <<testSet, flat>> /\ xfer.at # "off"
  BY DEF StreamResponse, Fetching
<1>2. ASSUME NEW b \in {"whole", "short", "wrong"}, xfer' = [xfer EXCEPT !.at = "check", !.bytes = b],
             place' = place
      PROVE  AgentInv'
  BY <1>1, <1>2, MoveStep DEF Fetching
<1>3. CASE Again
  BY <1>1, <1>3, AgainStep
<1>4. CASE Over("error")
  BY <1>1, <1>4, FetchOver
<1>. QED BY <1>2, <1>3, <1>4 DEF StreamResponse

LEMMA CheckStep ==
    ASSUME AgentInv, AgentStands, CheckResponse
    PROVE  AgentInv'
<1>1. xfer.at \in Fetching /\ UNCHANGED <<testSet, flat>> /\ xfer.at # "off"
  BY DEF CheckResponse, Fetching
<1>2. CASE xfer.bytes = "whole"
  <2>1. xfer' = [xfer EXCEPT !.at = "link"] /\ place' = place
    BY <1>2 DEF CheckResponse, Checks
  <2>2. xfer' = [xfer EXCEPT !.at = "link", !.bytes = "whole"]
    BY <1>2, <2>1, InputsTyped DEF Transfers
  <2>. QED BY <1>1, <2>1, <2>2, MoveStep DEF Fetching
<1>3. CASE xfer.bytes # "whole"
  BY <1>1, <1>3, FetchOver DEF CheckResponse, Checks
<1>. QED BY <1>2, <1>3

LEMMA RetryStep ==
    ASSUME AgentInv, AgentStands, RetryFile
    PROVE  AgentInv'
<1>1. xfer.at \in Fetching /\ UNCHANGED <<place, testSet, flat>>
      /\ xfer.bytes \in {"none", "short", "wrong", "whole"}
  BY InputsTyped DEF RetryFile, Fetching, Transfers
<1>2. xfer' = [xfer EXCEPT !.at = "look", !.bytes = xfer.bytes]
  BY InputsTyped DEF RetryFile, Transfers
<1>. QED BY <1>1, <1>2, MoveStep DEF Fetching

\* The link puts verified bytes under a free name and replaces nothing.
LEMMA LinkedFacts ==
    ASSUME AgentInv, xfer.at = "link"
    PROVE  /\ Linked \in [Files -> Contents] /\ xfer.file \in Files
           /\ \A f \in Files : Linked[f] # "wrong"
           /\ Linked[xfer.file] = "verified"
           /\ \A f \in Files : f # xfer.file => Linked[f] = place[f]
           /\ \A f \in Files : place[f] = "verified" => Linked[f] = "verified"
<1>1. xfer.bytes = "whole" /\ \A f \in Files : place[f] # "wrong"
  BY DEF AgentInv, TransferOK
<1>2. xfer.file \in Files /\ place \in [Files -> Contents]
  BY InputsTyped DEF Transfers
<1>3. Linked = [place EXCEPT ![xfer.file] =
                  IF place[xfer.file] = "none" THEN "verified" ELSE place[xfer.file]]
  BY <1>1, <1>2 DEF Linked
<1>4. place[xfer.file] \in {"none", "verified"}
  BY <1>1, <1>2 DEF Contents
<1>. QED BY <1>1, <1>2, <1>3, <1>4 DEF Contents

LEMMA LinkOver ==
    ASSUME AgentInv, AgentStands, xfer.at = "link", UNCHANGED <<testSet, flat>>,
           NEW outcome \in {"error", "cancelled"},
           xfer' = [NoTransfer EXCEPT !.at = "done", !.outcome = outcome],
           place' = [f \in Files |-> IF f = Archive THEN Linked[f] ELSE "none"]
    PROVE  AgentInv'
<1>1. Linked[Archive] \in Contents /\ Linked[Archive] # "wrong"
      /\ (place[Archive] = "verified" => Linked[Archive] = "verified")
  BY LinkedFacts, InputsTyped
<1>2. place' = [f \in Files |-> IF f = Archive THEN Linked[Archive] ELSE "none"]
  OBVIOUS
<1>. QED BY <1>1, <1>2, InputsTyped, OverFacts

LEMMA LinkStep ==
    ASSUME AgentInv, AgentStands, LinkFile(Fault, UNCHANGED faults)
    PROVE  AgentInv'
<1>1. xfer.at = "link" /\ xfer.at \in Fetching /\ UNCHANGED <<testSet, flat>>
  BY DEF LinkFile, Fetching
<1>2. CASE place' = Linked /\ NextFile
  BY <1>1, <1>2, LinkedFacts, InputsTyped, NextFileStep
<1>3. CASE /\ xfer.try < DownloadTries /\ place' = Linked
           /\ xfer' = [Removed EXCEPT !.at = "wait", !.try = xfer.try + 1]
  <2>1. xfer' = [at |-> "wait", file |-> xfer.file, bytes |-> "none", try |-> xfer.try + 1,
                 outcome |-> xfer.outcome]
    BY <1>3, WaitRecord
  <2>. QED BY <1>1, <1>3, <2>1, LinkedFacts, InputsTyped, WaitStep
<1>4. CASE /\ xfer' = [NoTransfer EXCEPT !.at = "done", !.outcome = "error"]
           /\ place' = [f \in Files |-> IF f = Archive THEN Linked[f] ELSE "none"]
  BY <1>1, <1>4, LinkOver
<1>. QED BY <1>2, <1>3, <1>4 DEF LinkFile

LEMMA CancelStep ==
    ASSUME AgentInv, AgentStands, CancelTransfer(act.cancelled)
    PROVE  AgentInv'
<1>1. xfer.at # "off" /\ UNCHANGED <<testSet, flat>>
  BY DEF CancelTransfer
<1>2. CASE Over("cancelled")
  BY <1>1, <1>2, FetchOver
<1>3. CASE /\ xfer.at = "link" /\ xfer.file = Archive /\ place' = Linked
           /\ xfer' = [NoTransfer EXCEPT !.at = "done", !.outcome = "cancelled"]
  <2>1. place' \in [Files -> Contents] /\ (\A f \in Files : place'[f] # "wrong")
        /\ place'[Archive] = "verified"
    BY <1>3, LinkedFacts
  <2>2. xfer' = [at |-> "done", file |-> Archive, bytes |-> "none", try |-> 1, outcome |-> "cancelled"]
    BY <1>3 DEF NoTransfer
  <2>3. xfer' \in Transfers
    BY <2>2, InputsTyped DEF Transfers
  <2>4. InputsTypeOK'
    BY <1>1, <2>1, <2>3, InputsTyped DEF InputsTypeOK, Transfers
  <2>5. UNCHANGED <<pc, stage>> /\ Plan' = Plan /\ pc = "run" /\ Plan[stage] \in InputStages
    BY <1>1, SamePlan DEF AgentStands, executor, AgentInv, TransferOK
  <2>6. TransferOK'
    BY <2>1, <2>2, <2>5 DEF TransferOK, Fetching
  <2>7. InputsKeep
    BY <1>1, <2>1 DEF InputsKeep
  <2>. QED BY <2>4, <2>6, <2>7, InputsBeside
<1>. QED BY <1>2, <1>3 DEF CancelTransfer

LEMMA CollectStep ==
    ASSUME AgentInv, AgentStands, CollectTestSet(Fault, UNCHANGED faults)
    PROVE  AgentInv'
<1>1. /\ xfer.at = "collect" /\ xfer.at # "off" /\ flat' = flat
      /\ Plan[stage] = "downloading_dataset" /\ place[Archive] = "verified"
  BY Fetches DEF CollectTestSet, AgentInv, TransferOK
<1>2. flat' \in Contents
  BY <1>1, InputsTyped
<1>3. Plan' = Plan /\ stage' = stage
  BY SamePlan DEF AgentStands, executor
<1> DEFINE complete == \A i \in 1..TestItems : place[i] = "verified"
<1>4. CASE complete /\ testSet' = [i \in 1..TestItems |-> place[i]] /\ (Over("ok") \/ Over("error"))
  <2>1. testSet' \in [1..TestItems -> Contents] /\ \A i \in 1..TestItems : testSet'[i] = "verified"
    BY <1>4, InputsTyped DEF Contents
  <2>2. place'[Archive] = "verified"
    BY <1>1, <1>4, InputsTyped DEF Over
  <2>3. StageGives(Plan[stage])'
    BY <1>1, <1>3, <2>1, <2>2 DEF StageGives
  <2>. QED BY <1>1, <1>2, <1>4, <2>1, <2>3, OverStep
<1>5. CASE testSet' = testSet /\ Over("error")
  BY <1>1, <1>5, FetchOver
<1>. QED BY <1>4, <1>5 DEF CollectTestSet

LEMMA ReadStep ==
    ASSUME AgentInv, AgentStands,
           ReadArchive(Fault, UNCHANGED faults, Plan[stage] = "preparing_flat_dataset")
    PROVE  AgentInv'
<1>1. /\ xfer.at = "unpack" /\ xfer.at # "off" /\ testSet' = testSet
      /\ Plan[stage] # "downloading_dataset"
  BY DEF ReadArchive, AgentInv, TransferOK
<1>2. flat \in Contents /\ "verified" \in Contents /\ testSet' \in [1..TestItems -> Contents]
  BY <1>1, InputsTyped DEF Contents
<1>3. Plan' = Plan /\ stage' = stage
  BY SamePlan DEF AgentStands, executor
<1>4. CASE Over("ok") /\ flat' = IF Plan[stage] = "preparing_flat_dataset" THEN "verified" ELSE flat
  <2>1. StageGives(Plan[stage])'
    BY <1>1, <1>3, <1>4 DEF StageGives
  <2>2. flat' \in Contents /\ (flat' = flat \/ flat' = "verified")
    BY <1>2, <1>4
  <2>. QED BY <1>1, <1>2, <1>4, <2>1, <2>2, OverStep
<1>5. CASE Over("error") /\ flat' \in {flat, "verified"}
  BY <1>1, <1>2, <1>5, OverStep
<1>. QED BY <1>4, <1>5 DEF ReadArchive

LEMMA StageInputsStep ==
    ASSUME AgentInv, StageInputs, UNCHANGED processVars
    PROVE  AgentInv'
<1>1. ASSUME faults' = faults \/ Fault
      PROVE  AgentStands
  BY <1>1 DEF StageInputs, AgentStands
<1>2. CASE StreamResponse(Fault, UNCHANGED faults)
  BY <1>1, <1>2, StreamStep DEF StreamResponse
<1>3. CASE LinkFile(Fault, UNCHANGED faults)
  BY <1>1, <1>3, LinkStep DEF LinkFile
<1>4. CASE CollectTestSet(Fault, UNCHANGED faults)
  BY <1>1, <1>4, CollectStep DEF CollectTestSet
<1>5. CASE ReadArchive(Fault, UNCHANGED faults, Plan[stage] = "preparing_flat_dataset")
  BY <1>1, <1>5, ReadStep DEF ReadArchive
<1>6. CASE (LookForFile \/ CheckResponse \/ RetryFile \/ CancelTransfer(act.cancelled))
           /\ UNCHANGED faults
  BY <1>1, <1>6, LookStep, CheckStep, RetryStep, CancelStep
<1>. QED BY <1>2, <1>3, <1>4, <1>5, <1>6 DEF StageInputs, InputsStep

LEMMA StartStageInputsStep ==
    ASSUME AgentInv, StartStageInputs, UNCHANGED processVars
    PROVE  AgentInv'
<1>1. /\ pc = "run" /\ Plan[stage] \in InputStages /\ xfer.at = "off"
      /\ UNCHANGED <<agentVars, place, testSet, flat>>
  BY DEF StartStageInputs, StartInputs
<1>2. AgentStands
  BY <1>1 DEF AgentStands, agentVars
<1>3. place' \in [Files -> Contents] /\ \A f \in Files : place'[f] # "wrong"
  BY <1>1, InputsTyped DEF AgentInv, TransferOK
<1>4. CASE Plan[stage] = "downloading_dataset"
  <2>1. xfer' = [at |-> "look", file |-> Archive, bytes |-> "none", try |-> 1, outcome |-> "none"]
    BY <1>4 DEF StartStageInputs, StartInputs, NoTransfer
  <2>2. xfer' \in Transfers /\ xfer'.at = "look" /\ xfer'.file = Archive
    BY <2>1, InputsTyped DEF Transfers
  <2>. QED BY <1>1, <1>2, <1>3, <1>4, <2>2, FetchStep DEF Fetching
<1>5. CASE Plan[stage] # "downloading_dataset"
  <2>1. xfer' = [at |-> "unpack", file |-> Archive, bytes |-> "none", try |-> 1, outcome |-> "none"]
    BY <1>5 DEF StartStageInputs, StartInputs, NoTransfer
  <2>2. xfer' \in Transfers
    BY <2>1, InputsTyped DEF Transfers
  <2>3. InputsTypeOK'
    BY <1>1, <2>2, InputsTyped DEF InputsTypeOK, Transfers
  <2>4. UNCHANGED <<pc, stage>> /\ Plan' = Plan
    BY <1>2, SamePlan DEF AgentStands, executor
  <2>5. TransferOK'
    BY <1>1, <1>3, <1>5, <2>1, <2>4 DEF TransferOK, Fetching
  <2>6. InputsKeep
    BY <1>1 DEF InputsKeep
  <2>. QED BY <1>2, <2>3, <2>5, <2>6, InputsBeside
<1>. QED BY <1>4, <1>5

\* A step of the executor within a stage, or out of it.
LEMMA StageStep ==
    ASSUME AgentInv, pc = "run", pc' \in {"run", "callback", "handler"},
           UNCHANGED <<stage, report, act, job, loops, shutdown, publication, mgr, remote, scope>>,
           exc' \in {"none", "error", "cancelled"}, faults' = faults \/ Fault,
           ProcessTypeOK', InputsTypeOK', ExecutorOK'
    PROVE  AgentInv'
<1>1. ManagerKeeps /\ ManagerTyped /\ FaultsTyped
  BY ManagerStands, FaultsNext
<1>2. pc \in Busy /\ pc' \in Busy
  BY DEF Busy
<1>3. SharedTypes' /\ SharedOK'
  BY <1>1, <1>2, LoopsStand
<1>4. Plan' = Plan /\ Items' = Items
  BY SamePlan
<1>5. UNCHANGED <<item, try, ambiguous>>
  BY DEF publication
<1>6. PlaceTypes'
  BY <1>2, <1>4, <1>5, PlaceTyped DEF PlaceTypes
<1>7. ExecutorTypes'
  BY <1>6 DEF ExecutorTypes, PlaceTypes
<1>. QED BY <1>3, <1>7, Assembled

LEMMA Disjoint ==
    ASSUME AgentInv
    PROVE  /\ Plan[stage] \in ExecutionStatuses
           /\ Plan[stage] \in Commands => Plan[stage] \notin InputStages
<1>1. Plan[stage] \in ExecutionStatuses
  BY PlaceTyped, PlanFacts DEF PlaceTypes
<1>. QED BY <1>1, AgentAssumption

LEMMA EndStageInputsStep ==
    ASSUME AgentInv, EndStageInputs, UNCHANGED processVars
    PROVE  AgentInv'
<1>1. /\ pc = "run" /\ xfer.at = "done" /\ xfer' = NoTransfer /\ UNCHANGED <<place, testSet, flat>>
      /\ UNCHANGED <<stage, report, act, job, loops, shutdown, publication, mgr, remote, scope>>
      /\ faults' = faults
  BY DEF EndStageInputs, EndInputs, Returned
<1>2. Plan[stage] \in InputStages /\ xfer.outcome \in {"ok", "error", "cancelled"}
  BY <1>1, InputsTyped DEF AgentInv, TransferOK, Transfers
<1>3. \A p \in Shards : runner[p] = "off"
  BY <1>2, Disjoint DEF AgentInv, CommandsOK
<1>4. xfer' = [at |-> "off", file |-> Archive, bytes |-> "none", try |-> 1, outcome |-> "none"]
  BY <1>1 DEF NoTransfer
<1>5. xfer' \in Transfers
  BY <1>4, InputsTyped DEF Transfers
<1>6. InputsTypeOK'
  BY <1>1, <1>5, InputsTyped DEF InputsTypeOK, Transfers
<1>7. ProcessTypeOK' /\ UNCHANGED <<runner, leader>>
  BY PlaceTyped DEF ProcessTypeOK, processVars
<1>8. TransferOK' /\ CommandsOK'
  BY <1>1, <1>3, <1>4, <1>7 DEF AgentInv, TransferOK, CommandsOK, Fetching
<1>9. \/ pc' = "handler" /\ exc' \in {"error", "cancelled"}
      \/ pc' = "callback" /\ exc' = exc /\ ran' = Append(ran, stage) /\ xfer.outcome = "ok"
  BY <1>2 DEF EndStageInputs, Returned, Raise
<1>10. exc' \in {"none", "error", "cancelled"}
  BY <1>9, PlaceTyped DEF PlaceTypes
<1>11. RanOK' /\ ItemsOK' /\ GivenOK'
  <2>1. CASE pc' = "handler"
    BY <2>1 DEF RanOK, ItemsOK, GivenOK, Working, Passed, Publishing, Uploading
  <2>2. CASE pc' = "callback" /\ ran' = Append(ran, stage) /\ xfer.outcome = "ok"
    <3>1. StageGives(Plan[stage])
      BY <1>1, <2>2 DEF AgentInv, TransferOK
    <3>2. item' = item
      BY <1>1 DEF publication
    <3>. QED BY <1>1, <2>2, <3>1, <3>2, Disjoint, ReturnedFacts
  <2>. QED BY <1>9, <2>1, <2>2
<1>12. ExecutorOK'
  BY <1>8, <1>11 DEF ExecutorOK
<1>13. pc' \in {"run", "callback", "handler"}
  BY <1>9
<1>. QED BY <1>1, <1>6, <1>7, <1>10, <1>12, <1>13, StageStep
-----------------------------------------------------------------------------
(* Commands *)

LEMMA StartStageCommandsStep ==
    ASSUME AgentInv, StartStageCommands, UNCHANGED <<inputVars, scope>>
    PROVE  AgentInv'
<1>1. /\ pc = "run" /\ Plan[stage] \in Commands /\ (\A p \in Shards : runner[p] = "off")
      /\ UNCHANGED <<stage, report, ran, act, job, loops, shutdown, publication, mgr, remote, scope>>
      /\ faults' = faults /\ UNCHANGED <<xfer, place, testSet, flat>>
  BY DEF StartStageCommands, inputVars
<1>2. Plan' = Plan /\ Items' = Items
  BY <1>1, SamePlan
<1>3. xfer.at = "off"
  BY <1>1, Disjoint DEF AgentInv, TransferOK
<1>4. InputsTypeOK'
  BY <1>1, PlaceTyped DEF InputsTypeOK
<1>5. TransferOK'
  BY <1>1, <1>3 DEF AgentInv, TransferOK, Fetching
<1>6. CASE pc' = "handler" /\ exc' = "cancelled" /\ UNCHANGED processVars
  <2>1. RanOK' /\ ItemsOK' /\ GivenOK'
    BY <1>6 DEF RanOK, ItemsOK, GivenOK, Working, Passed, Publishing, Uploading
  <2>2. ProcessTypeOK' /\ CommandsOK'
    BY <1>1, <1>6, PlaceTyped DEF ProcessTypeOK, processVars, AgentInv, CommandsOK
  <2>3. ExecutorOK'
    BY <1>5, <2>1, <2>2 DEF ExecutorOK
  <2>. QED BY <1>1, <1>4, <1>6, <2>2, <2>3, StageStep
<1>7. CASE StartCommands /\ pc' = pc /\ exc' = exc
  <2>1. Done' = Done
    BY <1>1, <1>7 DEF Done
  <2>2. \A s : StageGives(s)' <=> StageGives(s)
    BY <1>1 DEF StageGives
  <2>3. item' = item
    BY <1>1 DEF publication
  <2>4. RanOK' /\ ItemsOK'
    BY <1>1, <1>2, <1>7, <2>1, <2>3 DEF AgentInv, RanOK, ItemsOK
  <2>5. GivenOK'
    BY <1>1, <1>2, <1>7, <2>1, <2>2 DEF AgentInv, GivenOK
  <2>6. ProcessTypeOK'
    BY <1>7 DEF ProcessTypeOK, StartCommands, Results
  <2>7. CommandsOK'
    BY <1>1, <1>2, <1>7 DEF CommandsOK, StartCommands
  <2>8. ExecutorOK'
    BY <1>5, <2>4, <2>5, <2>7 DEF ExecutorOK
  <2>9. exc' \in {"none", "error", "cancelled"}
    BY <1>7, PlaceTyped DEF PlaceTypes
  <2>. QED BY <1>1, <1>4, <1>7, <2>6, <2>8, <2>9, StageStep
<1>. QED BY <1>6, <1>7 DEF StartStageCommands, Raise

LEMMA EndStageCommandsStep ==
    ASSUME AgentInv, EndStageCommands, UNCHANGED <<inputVars, scope>>
    PROVE  AgentInv'
<1>1. /\ pc = "run" /\ Plan[stage] \in Commands /\ (\A p \in Shards : runner[p] = "done")
      /\ UNCHANGED <<stage, report, act, job, loops, shutdown, publication, mgr, remote, scope>>
      /\ UNCHANGED <<xfer, place, testSet, flat>>
  BY DEF EndStageCommands, CommandsReturned, inputVars
<1>2. faults' = faults \/ Fault
  BY DEF EndStageCommands, Returned
<1>3. xfer.at = "off"
  BY <1>1, Disjoint DEF AgentInv, TransferOK
<1>4. InputsTypeOK'
  BY <1>1, PlaceTyped DEF InputsTypeOK
<1>5. TransferOK'
  BY <1>1, <1>3 DEF AgentInv, TransferOK, Fetching
<1>6. ProcessTypeOK'
  BY PlaceTyped DEF EndStageCommands, ForgetCommands, ProcessTypeOK, Results
<1>7. CommandsOK'
  BY <1>1 DEF EndStageCommands, ForgetCommands, AgentInv, CommandsOK
<1>8. \/ pc' = "handler" /\ exc' \in {"error", "cancelled"}
      \/ pc' = "callback" /\ exc' = exc /\ ran' = Append(ran, stage)
  BY DEF EndStageCommands, Returned, Raise
<1>9. exc' \in {"none", "error", "cancelled"}
  BY <1>8, PlaceTyped DEF PlaceTypes
<1>10. RanOK' /\ ItemsOK' /\ GivenOK'
  <2>1. CASE pc' = "handler"
    BY <2>1 DEF RanOK, ItemsOK, GivenOK, Working, Passed, Publishing, Uploading
  <2>2. CASE pc' = "callback" /\ ran' = Append(ran, stage)
    <3>1. StageGives(Plan[stage])
      BY <1>1, Disjoint DEF StageGives, InputStages
    <3>2. item' = item
      BY <1>1 DEF publication
    <3>. QED BY <1>1, <2>2, <3>1, <3>2, Disjoint, ReturnedFacts
  <2>. QED BY <1>8, <2>1, <2>2
<1>11. ExecutorOK'
  BY <1>5, <1>7, <1>10 DEF ExecutorOK
<1>12. pc' \in {"run", "callback", "handler"}
  BY <1>8
<1>. QED BY <1>1, <1>2, <1>4, <1>6, <1>9, <1>11, <1>12, StageStep

\* The processes alone: types, and no running leader past the watch.
LeadersOK == \A p \in Shards : runner[p] \in {"off", "drain", "done"} => leader[p] # "running"

LEMMA ShardKeeps ==
    ASSUME ProcessTypeOK, NEW p \in Shards, ShardStep(p), LeadersOK
    PROVE  ProcessTypeOK' /\ LeadersOK' /\ \A q \in Shards : runner'[q] # "off" => runner[q] # "off"
<1>1. CASE Fork(p)
  BY <1>1 DEF Fork, ProcessTypeOK, LeadersOK
<1>2. CASE LeaderExits(p)
  BY <1>2 DEF LeaderExits, ProcessTypeOK, LeadersOK
<1>3. CASE ChildExits(p)
  BY <1>3 DEF ChildExits, ProcessTypeOK, LeadersOK
<1>4. ASSUME NEW why \in Results, Terminate(p, why), runner[p] = "watch"
      PROVE  ProcessTypeOK' /\ LeadersOK' /\ \A q \in Shards : runner'[q] # "off" => runner[q] # "off"
  <2>1. child' \in [Shards -> {"none", "piped", "detached", "exited"}]
    BY <1>4 DEF Terminate, Signalled, ProcessTypeOK
  <2>2. leader' = leader /\ stageStop' = stageStop /\ result' = [result EXCEPT ![p] = why]
    BY <1>4 DEF Terminate
  <2>3. \/ leader[p] = "exited" /\ runner' = [runner EXCEPT ![p] = "drain"]
        \/ runner' = [runner EXCEPT ![p] = "grace"]
    BY <1>4 DEF Terminate
  <2>. QED BY <1>4, <2>1, <2>2, <2>3 DEF ProcessTypeOK, LeadersOK
<1>5. CASE Watch(p)
  <2>1. ASSUME NEW r \in {"ok", "failed"}, leader[p] = "exited", runner[p] = "watch",
               runner' = [runner EXCEPT ![p] = "drain"], result' = [result EXCEPT ![p] = r],
               UNCHANGED <<leader, child, stageStop>>
        PROVE  ProcessTypeOK' /\ LeadersOK' /\ \A q \in Shards : runner'[q] # "off" => runner[q] # "off"
    BY <2>1 DEF ProcessTypeOK, LeadersOK, Results
  <2>. QED BY <1>4, <1>5, <2>1 DEF Watch, Results
<1>6. CASE GraceEnds(p)
  BY <1>6 DEF GraceEnds, ProcessTypeOK, LeadersOK
<1>7. CASE Kill(p)
  BY <1>7 DEF Kill, ProcessTypeOK, LeadersOK
<1>8. CASE Drain(p)
  BY <1>8 DEF Drain, ProcessTypeOK, LeadersOK
<1>. QED BY <1>1, <1>2, <1>3, <1>5, <1>6, <1>7, <1>8 DEF ShardStep

LEMMA CommandsStepStep ==
    ASSUME AgentInv, CommandsStep(act.cancelled), UNCHANGED <<agentVars, inputVars>>
    PROVE  AgentInv'
<1>1. UNCHANGED <<pc, stage, exc, report, ran, act, job, hb, rn, shutdown, item, try, ambiguous,
                  mgr, remote, scope, faults, xfer, place, testSet, flat>>
  BY DEF agentVars, executor, loops, publication, inputVars
<1>2. Plan' = Plan /\ Items' = Items
  BY <1>1, SamePlan
<1>3. ProcessTypeOK /\ LeadersOK
  BY PlaceTyped DEF AgentInv, CommandsOK, LeadersOK
<1>4. ProcessTypeOK' /\ LeadersOK' /\ \A q \in Shards : runner'[q] # "off" => runner[q] # "off"
  <2>1. ASSUME NEW p \in Shards, ShardStep(p)
        PROVE  ProcessTypeOK' /\ LeadersOK' /\ \A q \in Shards : runner'[q] # "off" => runner[q] # "off"
    BY <1>3, <2>1, ShardKeeps
  <2>2. CASE Relay(act.cancelled) \/ StopOthers \/ ObserverFails
    BY <1>3, <2>2 DEF Relay, StopOthers, ObserverFails, ProcessTypeOK, LeadersOK
  <2>. QED BY <2>1, <2>2 DEF CommandsStep
<1>5. CommandsOK'
  BY <1>1, <1>2, <1>4 DEF AgentInv, CommandsOK, LeadersOK
<1>6. Done' = Done
  BY <1>1 DEF Done
<1>7. \A s : StageGives(s)' <=> StageGives(s)
  BY <1>1 DEF StageGives
<1>8. RanOK' /\ ItemsOK' /\ GivenOK'
  BY <1>1, <1>2, <1>6, <1>7 DEF AgentInv, RanOK, ItemsOK, GivenOK
<1>9. TransferOK'
  BY <1>1, <1>2, <1>7 DEF AgentInv, TransferOK
<1>10. SharedTypes' /\ SharedOK'
  BY <1>1, Types DEF AgentInv, SharedTypes, SharedOK, ClaimOK, LeaseOK, AnswersOK, CancelHasCause,
         Active, ForCurrent, LeaseCurrent
<1>11. InputsTypeOK' /\ PlaceTypes'
  BY <1>1, <1>2, PlaceTyped DEF InputsTypeOK, PlaceTypes
<1>12. ExecutorTypes'
  BY <1>4, <1>11 DEF ExecutorTypes, PlaceTypes
<1>. QED BY <1>5, <1>8, <1>9, <1>10, <1>12, Assembled DEF ExecutorOK
-----------------------------------------------------------------------------
(* The theorems *)

LEMMA AgentInvInit ==
    ASSUME Init
    PROVE  AgentInv
<1>1. /\ scope \in Scopes /\ pc = "idle" /\ stage = 1 /\ exc = "none" /\ report = "none"
      /\ act = NoAct /\ job = [current |-> 0, granted |-> 0] /\ hb = NoHeartbeat /\ rn = NoRenewal
      /\ shutdown = FALSE /\ item = 1 /\ try = 1 /\ ambiguous = FALSE
      /\ mgr = [held |-> FALSE, left |-> 0, cancel |-> FALSE, status |-> "none"]
      /\ remote = [i \in Items |-> "none"] /\ faults = 0
  BY DEF Init
<1>2. Len(Plan) \in Nat \ {0} /\ MaxJobs(scope) \in Nat /\ MaxFaults(scope) \in Nat
  BY <1>1, PlanFacts, AgentAssumption
<1>3. ProcessTypeOK /\ CommandsOK
  BY DEF Init, ProcessInit, ProcessTypeOK, CommandsOK, Results
<1>4. InputsTypeOK /\ TransferOK
  <2>1. xfer = [at |-> "off", file |-> Archive, bytes |-> "none", try |-> 1, outcome |-> "none"]
    BY DEF Init, InputsInit, NoTransfer
  <2>2. xfer \in Transfers
    BY <2>1, InputsAssumption DEF Transfers, Files, Archive
  <2>. QED BY <2>1, <2>2 DEF Init, InputsInit, InputsTypeOK, Transfers, TransferOK, Fetching,
      Contents
<1>5. act \in [cancelled : BOOLEAN, fatal : BOOLEAN, asked : BOOLEAN, left : Lefts]
  BY <1>1, EndsOfLefts DEF NoAct
<1>6. hb \in [state : {"off", "sent", "answered"}, job : 0..MaxJobs(scope), base : Lefts,
              left : Lefts, cancel : BOOLEAN]
      /\ hb.state = "off" /\ hb.job = 0
  BY <1>1, <1>2, EndsOfLefts DEF NoHeartbeat
<1>7. rn \in [state : {"off", "wait", "sent", "answered", "refused", "lost"},
              base : Lefts, left : Lefts]
      /\ rn.state = "off"
  BY <1>1, EndsOfLefts DEF NoRenewal
<1>8. job \in [current : 0..MaxJobs(scope), granted : 0..MaxJobs(scope)]
  BY <1>1, <1>2
<1>9. mgr \in [held : BOOLEAN, left : Lefts, cancel : BOOLEAN, status : {"none"} \cup JobStatuses]
  BY <1>1, EndsOfLefts
<1>10. SharedTypes
  <2>1. scope \in Scopes /\ shutdown \in BOOLEAN
    BY <1>1
  <2>2. faults \in 0..MaxFaults(scope)
    BY <1>1, <1>2
  <2>. QED BY <1>5, <1>6, <1>7, <1>8, <1>9, <2>1, <2>2 DEF SharedTypes
<1>11. item \in 1..(Artifacts + Samples + 1) /\ try \in 0..MaxTries /\ stage \in 1..Len(Plan)
  BY <1>1, <1>2, AgentAssumption
<1>12. ExecutorTypes
  BY <1>1, <1>3, <1>4, <1>11 DEF ExecutorTypes
<1>13. ~Active
  BY <1>1 DEF Active, Busy
<1>14. ClaimOK /\ LeaseOK /\ AnswersOK /\ CancelHasCause
  BY <1>1, <1>6, <1>7, <1>13 DEF ClaimOK, LeaseOK, AnswersOK, CancelHasCause, ForCurrent
<1>15. RanOK /\ ItemsOK /\ GivenOK
  BY <1>1 DEF RanOK, ItemsOK, GivenOK, Working, Passed, Publishing, Uploading
<1>. QED BY <1>3, <1>4, <1>10, <1>12, <1>14, <1>15, Types DEF AgentInv

LEMMA AgentInvStutter ==
    ASSUME AgentInv, UNCHANGED vars
    PROVE  AgentInv'
<1>1. Beside /\ UNCHANGED <<pc, act, job, hb, rn, shutdown, mgr, faults, scope>>
  BY DEF vars, agentVars, executor, loops, Beside, others
<1>2. SharedTypes' /\ SharedOK'
  BY <1>1, Types DEF AgentInv, SharedTypes, SharedOK, ClaimOK, LeaseOK, AnswersOK, CancelHasCause,
         Active, ForCurrent, LeaseCurrent
<1>. QED BY <1>1, <1>2, LoopStep DEF Beside

LEMMA AgentInvNext ==
    ASSUME AgentInv, [Next]_vars
    PROVE  AgentInv'
<1>1. CASE UNCHANGED vars
  BY <1>1, AgentInvStutter
<1>2. CASE Executor /\ UNCHANGED others
  BY <1>2, AdmitStep, ReportStatusStep, RunStageStep, StageCallbackStep, CompleteStep, HandleStep,
     ReportTerminalStep, CloseStep, StopStep, InitUploadStep, PutFileStep, FinalizeUploadStep,
     RefreshUploadStep, RegisterSampleStep, TransferCancelledStep DEF Executor
<1>3. CASE Loops /\ UNCHANGED others
  BY <1>3, SendHeartbeatStep, ReceiveHeartbeatStep, LoseHeartbeatStep, SendRenewalStep,
     ReceiveRenewalStep, RenewalFailsStep, RenewalStopsStep, DeadlinePassesStep DEF Loops
<1>4. CASE Manager /\ UNCHANGED others
  BY <1>4, ManagerHeartbeatStep, ManagerRenewStep, ManagerRecoverStep, ManagerFinalizesStep,
     UserCancelsStep DEF Manager
<1>5. CASE (Claim \/ RequestShutdown \/ Tick \/ Withdraw \/ LoseLease) /\ UNCHANGED others
  BY <1>5, ClaimStep, RequestShutdownStep, TickStep, WithdrawStep, LoseLeaseStep
<1>6. CASE StartClaim /\ UNCHANGED <<processVars, scope>>
  BY <1>6, StartClaimStep
<1>7. CASE (StartStageInputs \/ StageInputs \/ EndStageInputs) /\ UNCHANGED processVars
  BY <1>7, StartStageInputsStep, StageInputsStep, EndStageInputsStep
<1>8. CASE (StartStageCommands \/ EndStageCommands) /\ UNCHANGED <<inputVars, scope>>
  BY <1>8, StartStageCommandsStep, EndStageCommandsStep
<1>9. CASE CommandsStep(act.cancelled) /\ UNCHANGED <<agentVars, inputVars>>
  BY <1>9, CommandsStepStep
<1>. QED BY <1>1, <1>2, <1>3, <1>4, <1>5, <1>6, <1>7, <1>8, <1>9 DEF Next

\* The inductive invariant of the agent, its loops, the Manager as it sees it, the
\* transfers and the commands.
THEOREM AgentInvariant == Spec => []AgentInv
BY AgentInvInit, AgentInvNext, PTL DEF Spec

\* Every variable of the agent keeps its type.
THEOREM AgentTyped == Spec => []TypeOK
<1>1. AgentInv => TypeOK
  BY DEF AgentInv
<1>. QED BY <1>1, AgentInvariant, PTL

\* While the agent believes in its lease the Manager does too, however the answers of
\* heartbeats and renewals overtake each other (accept_lease_expiry, the deadline loop).
THEOREM LeaseIsNotOutlived == Spec => []LeaseNeverOutlived
<1>1. AgentInv => LeaseNeverOutlived
  BY Fields DEF AgentInv, LeaseOK, LeaseNeverOutlived
<1>. QED BY <1>1, AgentInvariant, PTL

\* ActiveJob.cancel is called for the user, a shutdown or a lease that is over, never
\* for an answer that came late or out of order.
THEOREM CancelsHaveCause == Spec => []CancelHasCause
<1>1. AgentInv => CancelHasCause
  BY DEF AgentInv
<1>. QED BY <1>1, AgentInvariant, PTL

\* The agent asks for completion after every stage returned in order, on verified
\* inputs, with everything published (StageExecutor.execute, _report_stage).
THEOREM CompletionsAreEarned == Spec => []CompletionIsEarned
<1>1. ASSUME AgentInv, pc = "complete"
      PROVE  /\ InputStages \subseteq Kept(scope) => InputsReady
             /\ Published
             /\ ran = [i \in 1..Len(Plan) |-> i]
  <2>1. stage = Len(Plan) /\ Done = stage
    BY <1>1 DEF AgentInv, RanOK, Publishing, Done, Passed
  <2>2. ran = [i \in 1..Len(Plan) |-> i]
    BY <1>1, <2>1 DEF AgentInv, RanOK, Passed, Publishing
  <2>3. \A k \in 1..Len(Plan) : StageGives(Plan[k])
    BY <1>1, <2>1 DEF AgentInv, GivenOK, Passed, Publishing
  <2>4. InputStages \subseteq Kept(scope) => InputsReady
    BY <1>1, <2>3, PlaceTyped, PlanFacts DEF StageGives, InputsReady
  <2>5. Published
    <3>1. item \notin Items /\ \A i \in Items : i < item => remote[i] = "completed"
      BY <1>1 DEF AgentInv, ItemsOK, Publishing
    <3>2. item \in 1..(Artifacts + Samples + 1) /\ Artifacts \in Nat /\ Samples \in Nat
      BY <1>1, PlaceTyped DEF PlaceTypes
    <3>3. \A i \in Items : i < item
      BY <3>1, <3>2 DEF Items
    <3>. QED BY <3>1, <3>3 DEF Published
  <2>. QED BY <2>2, <2>4, <2>5
<1>2. AgentInv => CompletionIsEarned
  BY <1>1 DEF CompletionIsEarned
<1>. QED BY <1>2, AgentInvariant, PTL

\* No stage returns or raises while a command it started still runs
\* (SafeSubprocessRunner.run, _run_parallel_commands).
THEOREM StagesLeaveNoLeader == Spec => []StageLeavesNoLeader
<1>1. AgentInv => StageLeavesNoLeader
  BY DEF AgentInv, CommandsOK, StageLeavesNoLeader
<1>. QED BY <1>1, AgentInvariant, PTL
=============================================================================
