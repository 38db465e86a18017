----------------------------- MODULE WorkerProcess -----------------------------
(***************************************************************************)
(* The subprocesses of one native stage on a Worker: SafeSubprocessRunner  *)
(* (process.py) runs a command in a session of its own, watches it beside  *)
(* cancellation, its output pumps and a timeout, and ends its process      *)
(* group; the native runner starts one command, or one per GPU shard, and  *)
(* stops the others when one fails.                                        *)
(*                                                                         *)
(* A command is a leader and at most one child that it forked.  The child  *)
(* may outlive SIGTERM (Stubborn) and may or may not keep the output pipes *)
(* of the leader open.                                                     *)
(***************************************************************************)
EXTENDS Naturals

CONSTANTS
    Shards,     \* commands of a stage that run side by side
    Stubborn    \* a child may survive SIGTERM

ASSUME ProcessAssumption == Stubborn \in BOOLEAN

VARIABLES
    leader,     \* by shard: "none", "running", "exited"
    child,      \* by shard: "none", "piped", "detached", "exited"
    runner,     \* by shard: where SafeSubprocessRunner.run is
    result,     \* by shard: what the watch loop decided, then what run returned
    stageStop   \* stage_cancellation of the stage

processVars == <<leader, child, runner, result, stageStop>>

Results == {"none", "ok", "failed", "cancelled", "timeout", "output"}

ProcessTypeOK ==
    /\ leader \in [Shards -> {"none", "running", "exited"}]
    /\ child \in [Shards -> {"none", "piped", "detached", "exited"}]
    /\ runner \in [Shards -> {"off", "watch", "grace", "drain", "done"}]
    /\ result \in [Shards -> Results]
    /\ stageStop \in BOOLEAN

ProcessInit ==
    /\ leader = [p \in Shards |-> "none"]
    /\ child = [p \in Shards |-> "none"]
    /\ runner = [p \in Shards |-> "off"]
    /\ result = [p \in Shards |-> "none"]
    /\ stageStop = FALSE

\* One runner task per command; the commands start together.
StartCommands ==
    /\ leader' = [p \in Shards |-> "running"]
    /\ child' = [p \in Shards |-> "none"]
    /\ runner' = [p \in Shards |-> "watch"]
    /\ result' = [p \in Shards |-> "none"]
    /\ stageStop' = FALSE

Fork(p) ==
    /\ leader[p] = "running"
    /\ child[p] = "none"
    /\ runner[p] = "watch"
    /\ child' \in {[child EXCEPT ![p] = c] : c \in {"piped", "detached"}}
    /\ UNCHANGED <<leader, runner, result, stageStop>>

LeaderExits(p) ==
    /\ leader[p] = "running"
    /\ leader' = [leader EXCEPT ![p] = "exited"]
    /\ UNCHANGED <<child, runner, result, stageStop>>

ChildExits(p) ==
    /\ child[p] \in {"piped", "detached"}
    /\ child' = [child EXCEPT ![p] = "exited"]
    /\ UNCHANGED <<leader, runner, result, stageStop>>

\* SIGTERM to the group: the child dies of it, or survives it.
Signalled(p) ==
    IF child[p] \in {"none", "exited"} THEN {child}
    ELSE {[child EXCEPT ![p] = "exited"]} \cup (IF Stubborn THEN {child} ELSE {})

\* _terminate_process_group, first half: nothing when the leader is known to have
\* exited, else SIGTERM and the grace period.
Terminate(p, why) ==
    /\ result' = [result EXCEPT ![p] = why]
    /\ IF leader[p] = "exited"
       THEN runner' = [runner EXCEPT ![p] = "drain"] /\ UNCHANGED child
       ELSE runner' = [runner EXCEPT ![p] = "grace"] /\ child' \in Signalled(p)
    /\ UNCHANGED <<leader, stageStop>>

\* The watch loop of run: cancellation first, then a failed pump, the exit of the
\* leader and the timeout.
Watch(p) ==
    /\ runner[p] = "watch"
    /\ \/ stageStop /\ Terminate(p, "cancelled")
       \/ ~stageStop /\ \E why \in {"output", "timeout"} :
             (why = "timeout" => leader[p] = "running") /\ Terminate(p, why)
       \/ /\ ~stageStop
          /\ leader[p] = "exited"
          /\ runner' = [runner EXCEPT ![p] = "drain"]
          /\ result' \in {[result EXCEPT ![p] = r] : r \in {"ok", "failed"}}
          /\ UNCHANGED <<leader, child, stageStop>>

\* The leader ended within the grace period: nothing more is sent to the group.
GraceEnds(p) ==
    /\ runner[p] = "grace"
    /\ leader[p] = "exited"
    /\ runner' = [runner EXCEPT ![p] = "drain"]
    /\ UNCHANGED <<leader, child, result, stageStop>>

\* The grace period is over: SIGKILL to the group.
Kill(p) ==
    /\ runner[p] = "grace"
    /\ leader[p] = "running"
    /\ leader' = [leader EXCEPT ![p] = "exited"]
    /\ child' = [child EXCEPT ![p] = IF @ = "none" THEN @ ELSE "exited"]
    /\ runner' = [runner EXCEPT ![p] = "drain"]
    /\ UNCHANGED <<result, stageStop>>

\* gather(stdout_task, stderr_task): the pumps end when nobody holds the pipes.
Drain(p) ==
    /\ runner[p] = "drain"
    /\ child[p] # "piped"
    /\ runner' = [runner EXCEPT ![p] = "done"]
    /\ UNCHANGED <<leader, child, result, stageStop>>

\* (mutant) the relay ends with the first command that returns
RelayUntilFirst(cancelled) ==
    /\ cancelled
    /\ ~stageStop
    /\ \A p \in Shards : runner[p] # "done"
    /\ stageStop' = TRUE
    /\ UNCHANGED <<leader, child, runner, result>>

\* relay_external_cancellation: the Job's cancellation reaches the stage.
Relay(cancelled) ==
    /\ cancelled
    /\ ~stageStop
    /\ stageStop' = TRUE
    /\ UNCHANGED <<leader, child, runner, result>>

Failed == {p \in Shards : runner[p] = "done" /\ result[p] # "ok"}

\* _run_parallel_commands: a failed shard stops the others.
StopOthers ==
    /\ Failed # {}
    /\ ~stageStop
    /\ stageStop' = TRUE
    /\ UNCHANGED <<leader, child, runner, result>>

\* _run_training_command: the file observer failed; the process is stopped.
ObserverFails ==
    /\ \E p \in Shards : runner[p] # "done"
    /\ ~stageStop
    /\ stageStop' = TRUE
    /\ UNCHANGED <<leader, child, runner, result>>

\* (mutant) the failure is raised without waiting for the other shards
CommandsReturnedEarly == Failed # {} \/ \A p \in Shards : runner[p] = "done"

\* Every task was gathered before the stage returns or raises.
CommandsReturned == \A p \in Shards : runner[p] = "done"

CommandsOk == CommandsReturned /\ Failed = {} /\ ~stageStop

\* What is left of the commands once the stage has ended.
ForgetCommands ==
    /\ child' = [p \in Shards |-> "none"]
    /\ runner' = [p \in Shards |-> "off"]
    /\ result' = [p \in Shards |-> "none"]
    /\ stageStop' = FALSE
    /\ UNCHANGED leader

ShardStep(p) ==
    \/ Fork(p) \/ LeaderExits(p) \/ ChildExits(p) \/ Watch(p)
    \/ GraceEnds(p) \/ Kill(p) \/ Drain(p)

CommandsStep(cancelled) ==
    \/ \E p \in Shards : ShardStep(p)
    \/ Relay(cancelled) \/ StopOthers \/ ObserverFails

Alive(p) == leader[p] = "running" \/ child[p] \in {"piped", "detached"}
=============================================================================
