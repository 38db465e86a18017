---------------------------- MODULE SampleLedger ----------------------------
(***************************************************************************)
(* What the samples of a job promise to those who judge its model: every   *)
(* attempt has at most one sample of a test item, taken while the attempt  *)
(* ran and nobody had asked to cancel it, and never more output than the   *)
(* limit; a completed job has a sample of every item, all of them from one *)
(* inference run, and keeps them.                                          *)
(***************************************************************************)
EXTENDS Naturals

CONSTANTS
    TestItems,    \* the items of the job's test set
    Outputs,      \* samples: item, inference run, size
    Total(_),     \* output of the samples of one attempt
    OutputLimit,
    MaxAttempts,
    NoSample

VARIABLES
    samples,      \* by attempt and item
    attempt,      \* the current or last attempt
    state,        \* of the job
    cancelling    \* somebody asked to cancel it

NoSamples == [i \in TestItems |-> NoSample]

Whole(row) ==
    /\ \A i \in TestItems : row[i] # NoSample
    /\ \A i, j \in TestItems : row[i].run = row[j].run

Init ==
    /\ samples = [a \in 1..MaxAttempts |-> NoSamples]
    /\ attempt = 0
    /\ state = "queued"
    /\ cancelling = FALSE

Start ==
    /\ state = "queued"
    /\ attempt' = attempt + 1
    /\ state' = "running"
    /\ UNCHANGED <<samples, cancelling>>

Add(o) ==
    /\ state = "running" /\ ~cancelling
    /\ samples[attempt][o.item] = NoSample
    /\ Total(samples[attempt]) + o.size <= OutputLimit
    /\ samples' = [samples EXCEPT ![attempt][o.item] = o]
    /\ UNCHANGED <<attempt, state, cancelling>>

Complete ==
    /\ state = "running" /\ ~cancelling
    /\ Whole(samples[attempt])
    /\ state' = "completed"
    /\ UNCHANGED <<samples, attempt, cancelling>>

AskCancel ==
    /\ state = "running"
    /\ cancelling' = TRUE
    /\ UNCHANGED <<samples, attempt, state>>

\* The attempt ends without completion, or the job before any attempt; it may be
\* queued again.
Stop(to) ==
    /\ state \in {"queued", "running"}
    /\ to = "queued" => ~cancelling
    /\ state' = to
    /\ \/ UNCHANGED cancelling
       \/ to = "cancelled" /\ cancelling' = TRUE
    /\ UNCHANGED <<samples, attempt>>

Retry ==
    /\ state = "failed"
    /\ state' = "queued"
    /\ cancelling' = FALSE
    /\ UNCHANGED <<samples, attempt>>

Next ==
    \/ Start \/ Complete \/ AskCancel \/ Retry
    \/ \E o \in Outputs : Add(o)
    \/ \E to \in {"queued", "failed", "cancelled"} : Stop(to)

Spec == Init /\ [][Next]_<<samples, attempt, state, cancelling>>
=============================================================================
