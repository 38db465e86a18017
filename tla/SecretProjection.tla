--------------------------- MODULE SecretProjection ---------------------------
(***************************************************************************)
(* manager-secrets-init: the one-shot container that projects the root-    *)
(* owned source secrets of the Manager to one volume per profile (API,     *)
(* maintenance, MLflow, database-authz) before every start.                *)
(*                                                                         *)
(* A volume holds generations, directories with one file per secret, and   *)
(* the symlink `current` that the services read through.  A run writes one *)
(* generation per profile from a single read of the sources, so a          *)
(* generation is named here by the number of its run (a random UUID in the *)
(* code).  It then moves every `current`, one profile after the other, and *)
(* removes the previous generations; when moving one fails it moves the    *)
(* earlier ones back.  Any system call may fail, and the container may be  *)
(* killed between any two of them; the volumes survive.                    *)
(***************************************************************************)
EXTENDS Naturals

CONSTANTS NProfiles,     \* PROFILES, in their order
          MaxRuns,       \* bound: runs of the container
          MaxErrors      \* bound: system calls that fail

ASSUME ProjectionAssumption == NProfiles \in Nat \ {0} /\ MaxRuns \in Nat /\ MaxErrors \in Nat

Profiles == 1..NProfiles
Generations == 1..MaxRuns
NoGeneration == 0

VARIABLES
    dirs,     \* per profile: the generation directories of its volume
    whole,    \* per profile: those with every secret in its final mode and owner
    link,     \* per profile: the generation `current` names, or NoGeneration
    temps,    \* the profiles with a temporary .current- link
    run,      \* the number of the last run
    prev,     \* per profile: previous_generation of its StagedGeneration
    step, at, \* what the run does next, and for which profile
    undoing,  \* it is in _rollback_activation
    left,     \* the profiles of which it still removes a generation
    outcome,  \* how the last run ended
    errors,   \* failed system calls so far
    before,   \* history: the links when the run began
    blind     \* history: a link could not be read back after its switch had failed

projectionVars ==
    <<dirs, whole, link, temps, run, prev, step, at, undoing, left, outcome, errors, before, blind>>

disk == <<dirs, whole, link, temps>>

ProjectionInit ==
    /\ dirs = [p \in Profiles |-> {}]
    /\ whole = [p \in Profiles |-> {}]
    /\ link = [p \in Profiles |-> NoGeneration]
    /\ temps = {}
    /\ run = 0 /\ prev = link /\ before = link
    /\ step = "off" /\ at = 1 /\ undoing = FALSE /\ left = {}
    /\ outcome = "none" /\ errors = 0 /\ blind = FALSE

Error == errors < MaxErrors /\ errors' = errors + 1

\* The run ends; main() reports failure unless the outcome is "published".
End(how) == step' = "off" /\ outcome' = how

-----------------------------------------------------------------------------
\* Staging

BeginRun ==
    /\ step = "off" /\ run < MaxRuns
    /\ run' = run + 1 /\ before' = link
    /\ step' = "read" /\ at' = 1 /\ undoing' = FALSE /\ left' = {}
    /\ outcome' = "running"
    /\ UNCHANGED <<disk, prev, errors, blind>>

\* _read_all_sources: every secret is read once, before anything is written.
ReadSources ==
    /\ step = "read" /\ step' = "root"
    /\ UNCHANGED <<disk, run, prev, at, undoing, left, outcome, errors, before, blind>>

\* A source is missing or malformed, or a maintenance secret equals its API secret.
RefuseSources ==
    /\ step = "read" /\ End("undone")
    /\ UNCHANGED <<disk, run, prev, at, undoing, left, errors, before, blind>>

\* _current_generation: `current` must name a whole generation.
CurrentValid(p) == link[p] # NoGeneration => link[p] \in whole[p]

Stale(p) == dirs[p] \ {link[p]}

\* _validate_target_root removes every other generation, whole or not, and temporary
\* links of runs that were killed.
SweepOne ==
    /\ step = "root" /\ CurrentValid(at)
    /\ \/ \E g \in Stale(at) :
            /\ dirs' = [dirs EXCEPT ![at] = @ \ {g}]
            /\ whole' = [whole EXCEPT ![at] = @ \ {g}]
            /\ UNCHANGED <<link, temps>>
       \/ at \in temps /\ temps' = temps \ {at} /\ UNCHANGED <<dirs, whole, link>>
    /\ UNCHANGED <<run, prev, step, at, undoing, left, outcome, errors, before, blind>>

\* The generation's directory.
MakeGeneration ==
    /\ step = "root" /\ CurrentValid(at) /\ Stale(at) = {} /\ at \notin temps
    /\ prev' = [prev EXCEPT ![at] = link[at]]
    /\ dirs' = [dirs EXCEPT ![at] = @ \cup {run}]
    /\ step' = "write"
    /\ UNCHANGED <<whole, link, temps, run, at, undoing, left, outcome, errors, before, blind>>

\* Its secrets, modes, owners and fsync; then the next profile is staged, or the first
\* one switched.
WriteGeneration ==
    /\ step = "write"
    /\ whole' = [whole EXCEPT ![at] = @ \cup {run}]
    /\ IF at = NProfiles THEN step' = "link" /\ at' = 1 ELSE step' = "root" /\ at' = at + 1
    /\ UNCHANGED <<dirs, link, temps, run, prev, undoing, left, outcome, errors, before, blind>>

\* Staging fails, on a bad root or a system call: the generations staged so far are
\* discarded.  A generation that was being written is removed first, if it can be.
StagingFails ==
    /\ \/ step = "root" /\ ~CurrentValid(at) /\ UNCHANGED <<dirs, errors>>
       \/ step = "root" /\ Error /\ UNCHANGED dirs
       \/ step = "write" /\ Error /\ dirs' \in {dirs, [dirs EXCEPT ![at] = @ \ {run}]}
    /\ step' = "discard" /\ left' = 1..(at - 1)
    /\ UNCHANGED <<whole, link, temps, run, prev, at, undoing, outcome, before, blind>>

-----------------------------------------------------------------------------
\* Activation and rollback

Target == IF undoing THEN prev[at] ELSE run

\* _replace_current: a temporary link first.
LinkTemporary ==
    /\ step = "link" /\ Target # NoGeneration
    /\ temps' = temps \cup {at} /\ step' = "replace"
    /\ UNCHANGED <<dirs, whole, link, run, prev, at, undoing, left, outcome, errors, before, blind>>

\* os.replace.
ReplaceCurrent ==
    /\ step = "replace"
    /\ link' = [link EXCEPT ![at] = Target] /\ temps' = temps \ {at}
    /\ step' = "sync"
    /\ UNCHANGED <<dirs, whole, run, prev, at, undoing, left, outcome, errors, before, blind>>

\* Rolling back a profile that had no generation.
UnlinkCurrent ==
    /\ step = "link" /\ Target = NoGeneration
    /\ link' = [link EXCEPT ![at] = NoGeneration] /\ step' = "sync"
    /\ UNCHANGED <<dirs, whole, temps, run, prev, at, undoing, left, outcome, errors, before, blind>>

\* (mutant) the rollback stops before the profile that was switched first.
SyncRootStoppingEarly ==
    /\ step = "sync"
    /\ IF undoing
         THEN IF at <= 2 THEN step' = "discard" /\ at' = at /\ left' = Profiles \ {1}
                         ELSE step' = "link" /\ at' = at - 1 /\ left' = left
         ELSE IF at = NProfiles
                THEN step' = "retire" /\ at' = at /\ left' = {p \in Profiles : prev[p] # NoGeneration}
                ELSE step' = "link" /\ at' = at + 1 /\ left' = left
    /\ UNCHANGED <<disk, run, prev, undoing, outcome, errors, before, blind>>

\* _fsync_directory of the volume, after which the next profile is switched, or, in
\* the reverse order, switched back.
SyncRoot ==
    /\ step = "sync"
    /\ IF undoing
         THEN IF at = 1 THEN step' = "discard" /\ at' = at /\ left' = Profiles
                        ELSE step' = "link" /\ at' = at - 1 /\ left' = left
         ELSE IF at = NProfiles
                THEN step' = "retire" /\ at' = at /\ left' = {p \in Profiles : prev[p] # NoGeneration}
                ELSE step' = "link" /\ at' = at + 1 /\ left' = left
    /\ UNCHANGED <<disk, run, prev, undoing, outcome, errors, before, blind>>

\* Roll back the first n profiles.
RollBack(n) ==
    /\ undoing' = TRUE
    /\ IF n = 0 THEN step' = "discard" /\ at' = at /\ left' = Profiles
                ELSE step' = "link" /\ at' = n /\ left' = left

\* (mutant) a profile counts as activated only when its switch returned.
ActivationFailsUncounted ==
    /\ step \in {"link", "replace", "sync"} /\ ~undoing
    /\ temps' = temps \ {at}
    /\ Error /\ RollBack(at - 1) /\ UNCHANGED blind
    /\ UNCHANGED <<dirs, whole, link, run, prev, outcome, before>>

\* A switch fails; the temporary link goes, if it can be removed.  The profile counts as
\* activated when `current` already names the new generation, unless reading the link
\* back fails too.
ActivationFails ==
    /\ step \in {"link", "replace", "sync"} /\ ~undoing
    /\ temps' \in {temps, temps \ {at}}
    /\ \/ Error /\ RollBack(IF link[at] = run THEN at ELSE at - 1) /\ UNCHANGED blind
       \/ /\ errors + 1 < MaxErrors /\ errors' = errors + 2
          /\ RollBack(at - 1) /\ blind' = (blind \/ link[at] = run)
    /\ UNCHANGED <<dirs, whole, link, run, prev, outcome, before>>

\* A failed rollback is not retried; nothing is removed.
RollbackFails ==
    /\ step \in {"link", "replace", "sync"} /\ undoing /\ Error
    /\ temps' \in {temps, temps \ {at}} /\ End("broken")
    /\ UNCHANGED <<dirs, whole, link, run, prev, at, undoing, left, before, blind>>

-----------------------------------------------------------------------------
\* Removing generations: the ones of a failed run, or the previous ones

Doomed(p) == IF step = "discard" THEN run ELSE prev[p]
Failure == IF step = "discard" THEN "undone" ELSE "unretired"

\* _remove_generation: one that is gone already is fine.
RemoveOne ==
    /\ step \in {"discard", "retire"}
    /\ \E p \in left :
        /\ Doomed(p) \in dirs[p] => Doomed(p) \in whole[p]
        /\ dirs' = [dirs EXCEPT ![p] = @ \ {Doomed(p)}]
        /\ whole' = [whole EXCEPT ![p] = @ \ {Doomed(p)}]
        /\ left' = left \ {p}
    /\ UNCHANGED <<link, temps, run, prev, step, at, undoing, outcome, errors, before, blind>>

\* The inventory is incomplete, or a system call fails and may leave a part of it.
RemovalFails ==
    /\ step \in {"discard", "retire"}
    /\ \E p \in left :
        \/ Doomed(p) \in dirs[p] \ whole[p] /\ UNCHANGED <<whole, errors>>
        \/ Error /\ whole' \in {whole, [whole EXCEPT ![p] = @ \ {Doomed(p)}]}
    /\ End(Failure)
    /\ UNCHANGED <<dirs, link, temps, run, prev, at, undoing, left, before, blind>>

EndRun ==
    /\ step \in {"discard", "retire"} /\ left = {}
    /\ End(IF step = "discard" THEN "undone" ELSE "published")
    /\ UNCHANGED <<disk, run, prev, at, undoing, left, errors, before, blind>>

-----------------------------------------------------------------------------
\* The container is killed, perhaps in the middle of a removal.
KillContainer ==
    /\ step # "off" /\ End("killed")
    /\ \/ UNCHANGED whole
       \/ \E p \in left : step \in {"discard", "retire"} /\ whole' = [whole EXCEPT ![p] = @ \ {Doomed(p)}]
       \/ \E g \in Stale(at) : step = "root" /\ CurrentValid(at) /\ whole' = [whole EXCEPT ![at] = @ \ {g}]
    /\ UNCHANGED <<dirs, link, temps, run, prev, at, undoing, left, errors, before, blind>>

ProjectionNext ==
    \/ BeginRun \/ ReadSources \/ RefuseSources
    \/ SweepOne \/ MakeGeneration \/ WriteGeneration \/ StagingFails
    \/ LinkTemporary \/ ReplaceCurrent \/ UnlinkCurrent \/ SyncRoot
    \/ ActivationFails \/ RollbackFails
    \/ RemoveOne \/ RemovalFails \/ EndRun
    \/ KillContainer

ProjectionSpec == ProjectionInit /\ [][ProjectionNext]_projectionVars

-----------------------------------------------------------------------------
\* Properties

ProjectionTypeOK ==
    /\ dirs \in [Profiles -> SUBSET Generations] /\ whole \in [Profiles -> SUBSET Generations]
    /\ link \in [Profiles -> Generations \cup {NoGeneration}]
    /\ prev \in [Profiles -> Generations \cup {NoGeneration}]
    /\ before \in [Profiles -> Generations \cup {NoGeneration}]
    /\ temps \subseteq Profiles /\ left \subseteq Profiles /\ at \in Profiles
    /\ run \in 0..MaxRuns /\ errors \in 0..MaxErrors /\ (step # "off" => run > 0)
    /\ undoing \in BOOLEAN /\ blind \in BOOLEAN
    /\ step \in {"off", "read", "root", "write", "link", "replace", "sync", "discard", "retire"}
    /\ outcome \in {"none", "running", "undone", "broken", "unretired", "published", "killed"}

\* A service that starts, or runs on, reads a whole generation through `current`: no
\* failure, rollback, removal or kill leaves the link at a generation that is gone or
\* lacks a secret.  (Unless a link was switched, the fsync after it failed, and then
\* reading it back failed as well: the rollback skips that profile and the generation
\* it names is discarded.)
CurrentIsWhole == ~blind => \A p \in Profiles : CurrentValid(p)

\* A projection is all or nothing.  A run that reports success has switched every
\* profile to the secrets of its one read of the sources; one that failed and rolled
\* back has left every profile at the generation it had (as docs/DEPLOYMENT.md:231-232
\* has it).  Nothing is said of a run that failed in
\* its rollback ("broken") or in removing the previous generations ("unretired").
AllOrNothing ==
    ~blind =>
        /\ outcome = "published" => \A p \in Profiles : link[p] = run
        /\ outcome = "undone" => link = before
=============================================================================
