------------------------------ MODULE WorkerInputs ------------------------------
(***************************************************************************)
(* The inputs of one attempt in its workspace on the Worker: the dataset   *)
(* archive and the items of a test set, each downloaded into a partial     *)
(* file, checked, linked under its name and retried (client.py), the test  *)
(* set collected in a staging directory that is renamed when it is         *)
(* complete (test_sets.py), and the archive unpacked in the same way       *)
(* (datasets.py).                                                          *)
(*                                                                         *)
(* A call that fails, times out or is cancelled waits for the thread that  *)
(* works on the files, so a file may be published by a call that failed;   *)
(* the retry then meets it.  The workspace belongs to one attempt: nothing *)
(* in it is looked at again after the process died.                        *)
(***************************************************************************)
EXTENDS Naturals

CONSTANTS
    TestItems,     \* how many items the test set of a claim has, 0 for no test set
    DownloadTries  \* download_attempts

ASSUME InputsAssumption == TestItems \in Nat /\ DownloadTries \in Nat \ {0}

Archive == 0
Files == 0..TestItems

VARIABLES
    xfer,     \* the transfer under way: at, file, bytes of the partial file, try, outcome
    place,    \* by file: what is under its name (an item: in the staging directory)
    testSet,  \* the directory inputs/test_set, by item; absent when it has none
    flat      \* the directory inputs/prepared_flat

inputVars == <<xfer, place, testSet, flat>>

Contents == {"none", "verified", "wrong"}

InputsTypeOK ==
    /\ xfer \in [at : {"off", "look", "stream", "check", "link", "wait", "collect", "unpack", "done"},
                 file : Files, bytes : {"none", "short", "wrong", "whole"},
                 try : 1..DownloadTries, outcome : {"none", "ok", "error", "cancelled"}]
    /\ place \in [Files -> Contents]
    /\ testSet \in [1..TestItems -> Contents]
    /\ flat \in Contents

NoTransfer == [at |-> "off", file |-> Archive, bytes |-> "none", try |-> 1, outcome |-> "none"]

InputsInit ==
    /\ xfer = NoTransfer
    /\ place = [f \in Files |-> "none"]
    /\ testSet = [i \in 1..TestItems |-> "none"]
    /\ flat = "none"

\* A claim gets a workspace of its own.
PrepareWorkspace ==
    /\ xfer' = NoTransfer
    /\ place' = [f \in Files |-> "none"]
    /\ testSet' = [i \in 1..TestItems |-> "none"]
    /\ flat' = "none"

\* The stage starts; validation and unpacking read the archive again.
StartInputs(what) ==
    /\ xfer.at = "off"
    /\ xfer' = [NoTransfer EXCEPT !.at = IF what = "downloading_dataset" THEN "look" ELSE "unpack"]
    /\ UNCHANGED <<place, testSet, flat>>

\* The stage is over: the partial file and the staging directory are removed.
Over(outcome) ==
    /\ xfer' = [NoTransfer EXCEPT !.at = "done", !.outcome = outcome]
    /\ place' = [f \in Files |-> IF f = Archive THEN place[f] ELSE "none"]

Removed == [xfer EXCEPT !.bytes = "none"]

\* A retryable failure: once more after a delay, unless the attempts are used up.
Again ==
    IF xfer.try < DownloadTries
    THEN xfer' = [Removed EXCEPT !.at = "wait", !.try = xfer.try + 1] /\ UNCHANGED place
    ELSE Over("error")

\* A file is there: on to the next one, or to the collected test set.
NextFile ==
    xfer' = IF xfer.file < TestItems
            THEN [NoTransfer EXCEPT !.at = "look", !.file = xfer.file + 1]
            ELSE IF TestItems = 0 THEN [NoTransfer EXCEPT !.at = "done", !.outcome = "ok"]
            ELSE [NoTransfer EXCEPT !.at = "collect"]

\* _existing_dataset_is_valid, _existing_test_set_item_is_valid: a verified file is
\* taken, another one is an error, and none is requested.
LookForFile ==
    /\ xfer.at = "look"
    /\ CASE place[xfer.file] = "verified" -> NextFile /\ UNCHANGED place
         [] place[xfer.file] = "wrong" -> Over("error")
         [] place[xfer.file] = "none" ->
              xfer' = [xfer EXCEPT !.at = "stream"] /\ UNCHANGED place
    /\ UNCHANGED <<testSet, flat>>

\* The response, from the Manager or after one redirect from the object store, into
\* the partial file: the bytes of the claim, fewer of them, or others.
StreamResponse(Fault, NoFault) ==
    /\ xfer.at = "stream"
    /\ \/ NoFault /\ xfer' = [xfer EXCEPT !.at = "check", !.bytes = "whole"] /\ UNCHANGED place
       \/ /\ Fault
          /\ xfer' \in {[xfer EXCEPT !.at = "check", !.bytes = b] : b \in {"short", "wrong"}}
          /\ UNCHANGED place
       \/ Fault /\ (Again \/ Over("error"))
    /\ UNCHANGED <<testSet, flat>>

\* Size and checksum against the claim.
Checks(bytes) == bytes = "whole"

CheckResponse ==
    /\ xfer.at = "check"
    /\ IF Checks(xfer.bytes) THEN xfer' = [xfer EXCEPT !.at = "link"] /\ UNCHANGED place
                             ELSE Over("error")
    /\ UNCHANGED <<testSet, flat>>

Linked == [place EXCEPT ![xfer.file] =
             IF @ = "none" THEN IF xfer.bytes = "whole" THEN "verified" ELSE "wrong" ELSE @]

\* _publish_dataset_partial, _publish_test_set_partial: a hard link that replaces
\* nothing; the directory sync behind it may fail, and the call may have timed out.
LinkFile(Fault, NoFault) ==
    /\ xfer.at = "link"
    /\ \/ NoFault /\ place' = Linked /\ NextFile
       \/ /\ Fault /\ xfer.try < DownloadTries
          /\ place' = Linked
          /\ xfer' = [Removed EXCEPT !.at = "wait", !.try = xfer.try + 1]
       \/ /\ Fault
          /\ xfer' = [NoTransfer EXCEPT !.at = "done", !.outcome = "error"]
          /\ place' = [f \in Files |-> IF f = Archive THEN Linked[f] ELSE "none"]
    /\ UNCHANGED <<testSet, flat>>

\* The delay before the next attempt.
RetryFile ==
    /\ xfer.at = "wait"
    /\ xfer' = [xfer EXCEPT !.at = "look"]
    /\ UNCHANGED <<place, testSet, flat>>

\* The transfer stops at its next check of the cancellation.
CancelTransfer(cancelled) ==
    /\ cancelled
    /\ xfer.at \in {"look", "stream", "check", "link", "wait", "collect", "unpack"}
    /\ \/ Over("cancelled")
       \/ xfer.at = "link" /\ xfer.file = Archive \* the thread is joined first
          /\ place' = Linked /\ xfer' = [NoTransfer EXCEPT !.at = "done", !.outcome = "cancelled"]
    /\ UNCHANGED <<testSet, flat>>

\* _validate_materialization of the staging directory and its rename; the marker.
CollectTestSet(Fault, NoFault) ==
    /\ xfer.at = "collect"
    /\ LET complete == \A i \in 1..TestItems : place[i] = "verified" IN
       \/ /\ NoFault
          /\ IF complete THEN testSet' = [i \in 1..TestItems |-> place[i]] /\ Over("ok")
                         ELSE Over("error") /\ UNCHANGED testSet
       \/ Fault /\ Over("error")
          /\ testSet' \in {testSet} \cup
               (IF complete THEN {[i \in 1..TestItems |-> place[i]]} ELSE {})
    /\ UNCHANGED flat

\* _read_prepared_flat_archive: checked from its first byte, with or without writing
\* the members; materialize_prepared_flat_archive renames what was written.
ReadArchive(Fault, NoFault, extract) ==
    /\ xfer.at = "unpack"
    /\ \/ /\ NoFault
          /\ IF place[Archive] = "verified"
             THEN Over("ok") /\ flat' = IF extract THEN "verified" ELSE flat
             ELSE Over("error") /\ UNCHANGED flat
       \/ /\ Fault /\ Over("error")
          /\ flat' \in {flat} \cup (IF extract /\ place[Archive] = "verified" THEN {"verified"} ELSE {})
    /\ UNCHANGED testSet

InputsStep(Fault, NoFault, cancelled, extract) ==
    \/ StreamResponse(Fault, NoFault) \/ LinkFile(Fault, NoFault) \/ CollectTestSet(Fault, NoFault)
    \/ ReadArchive(Fault, NoFault, extract)
    \/ (LookForFile \/ CheckResponse \/ RetryFile \/ CancelTransfer(cancelled)) /\ NoFault

\* The executor takes the outcome.
EndInputs == xfer' = NoTransfer /\ UNCHANGED <<place, testSet, flat>>

\* What training and inference read is complete and was checked against the claim.
InputsReady ==
    /\ place[Archive] = "verified"
    /\ \A i \in 1..TestItems : testSet[i] = "verified"
    /\ flat = "verified"
=============================================================================
