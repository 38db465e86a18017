--------------------------- MODULE DatasetIngestion ---------------------------
(***************************************************************************)
(* What dataset_ingestion.py makes of an uploaded archive: the validation  *)
(* of its members, the pass that copies, inspects and deduplicates them    *)
(* one by one, and the verdict of prepare_dataset_snapshot on the result.  *)
(*                                                                         *)
(* An archive is a sequence of members in the order of the ZIP directory;  *)
(* a single audio file is an archive of one.  A member has the rank of its *)
(* normalised, case-folded path, a kind and the digest of its bytes;       *)
(* member sizes are one unit.  Audio analysis is left out: a WAV file is   *)
(* either valid PCM or not.                                                *)
(***************************************************************************)
EXTENDS Naturals, Sequences, FiniteSets, Functions

CONSTANTS
    Archives,   \* what may be uploaded
    MaxEntries, \* dataset_max_entries
    MaxUnits    \* dataset_max_total_uncompressed_bytes, in members

\* "unsafe": refused by its name, type, flags, compression or size; "corrupt": its
\* bytes do not match the size or the checksum of the directory.
Kinds == {"dir", "unsafe", "hidden", "other", "corrupt", "empty", "badwav", "wav", "mp3"}
Members == [path : Nat, kind : Kinds, digest : Nat]

ASSUME IngestionAssumption ==
    /\ Archives \subseteq Seq(Members)
    /\ MaxEntries \in Nat /\ MaxUnits \in Nat

\* Members that the pass opens.
Read == {"corrupt", "empty", "badwav", "wav", "mp3"}

Weight(m) == IF m.kind \in {"dir", "empty"} THEN 0 ELSE 1

\* _validate_archive_members
Rejected(a) ==
    \/ Len(a) > MaxEntries
    \/ \E i, j \in DOMAIN a : i # j /\ a[i].path = a[j].path
    \/ \E i \in DOMAIN a : a[i].kind = "unsafe"
    \/ Cardinality({i \in DOMAIN a : Weight(a[i]) = 1}) > MaxUnits

VARIABLES
    archive,    \* the upload
    left,       \* positions of the members that the pass has still to read
    state,      \* _CollectionState
    step        \* where the pass is, or what it concluded

ingestVars == <<archive, left, state, step>>

Empty == [files |-> <<>>, skipped |-> {}, rejected |-> {}, duplicates |-> {}]

IngestInit ==
    /\ archive \in Archives
    /\ left = {} /\ state = Empty /\ step = "validate"

-----------------------------------------------------------------------------
Validate ==
    /\ step = "validate"
    /\ \/ Rejected(archive) /\ step' = "unusable" /\ UNCHANGED left
       \/ ~Rejected(archive) /\ step' = "collect" /\ left' = DOMAIN archive
    /\ UNCHANGED <<archive, state>>

\* The included files with the bytes of m: digest_to_path.
Originals(m, files) == {f \in Range(files) : f.digest = m.digest}

\* (mutant) duplicates are told by their path
CollectSeenPath(m, s) ==
    LET originals == {f \in Range(s.files) : f.path = m.path} IN
    IF m.kind = "dir" THEN s
    ELSE IF m.kind \notin Read THEN [s EXCEPT !.skipped = @ \cup {m}]
    ELSE IF m.kind \in {"empty", "badwav"} THEN [s EXCEPT !.rejected = @ \cup {m}]
    ELSE IF originals # {} THEN [s EXCEPT !.duplicates = @ \cup ({m} \X originals)]
    ELSE [s EXCEPT !.files = Append(@, m)]

\* _collect_audio_stream and the skips of _collect_zip, for one intact member.
Collect(m, s) ==
    LET originals == Originals(m, s.files) IN
    IF m.kind = "dir" THEN s
    ELSE IF m.kind \notin Read THEN [s EXCEPT !.skipped = @ \cup {m}]
    ELSE IF m.kind \in {"empty", "badwav"} THEN [s EXCEPT !.rejected = @ \cup {m}]
    ELSE IF originals # {} THEN [s EXCEPT !.duplicates = @ \cup ({m} \X originals)]
    ELSE [s EXCEPT !.files = Append(@, m)]

\* The members are read in the order of their paths; a corrupt one ends the pass.
ReadMember(i) ==
    /\ step = "collect" /\ i \in left
    /\ \A j \in left : archive[i].path <= archive[j].path
    /\ left' = left \ {i}
    /\ \/ archive[i].kind = "corrupt" /\ step' = "unusable" /\ UNCHANGED state
       \/ archive[i].kind # "corrupt" /\ state' = Collect(archive[i], state) /\ UNCHANGED step
    /\ UNCHANGED archive

DecoderPending(s) == \E f \in Range(s.files) : f.kind # "wav"

\* A refused archive and one without usable audio are errors that a retry does not
\* cure; otherwise the dataset is ready unless a file waits for a decoder.
Conclude ==
    /\ step = "collect" /\ left = {}
    /\ step' = IF state.files = <<>> THEN "unusable"
               ELSE IF DecoderPending(state) THEN "decoder_pending" ELSE "ready"
    /\ UNCHANGED <<archive, left, state>>

\* An input or output error: the staging directory is removed, a retry may cure it.
IngestFails ==
    /\ step \in {"validate", "collect"}
    /\ step' = "error"
    /\ UNCHANGED <<archive, left, state>>

IngestNext ==
    \/ Validate \/ Conclude \/ IngestFails
    \/ \E i \in left : ReadMember(i)

IngestSpec == IngestInit /\ [][IngestNext]_ingestVars

-----------------------------------------------------------------------------
(* The reference, which knows the members only as a set.                   *)

Usable(m) == m.kind \in {"wav", "mp3"}

\* Of the usable members with the same bytes, the one with the first path.
Canonical(M) ==
    {m \in M : Usable(m) /\ \A n \in M : Usable(n) /\ n.digest = m.digest => m.path <= n.path}

\* What prepare_dataset_snapshot makes of an archive.
Verdict(a) ==
    IF Rejected(a) \/ (\E m \in Range(a) : m.kind = "corrupt") \/ Canonical(Range(a)) = {}
    THEN "unusable"
    ELSE IF \E m \in Canonical(Range(a)) : m.kind # "wav" THEN "decoder_pending" ELSE "ready"

\* The result for the members M: one file for each digest, named by the first path that
\* has it and numbered in the order of those paths, every duplicate attributed to the
\* file that has its bytes, and every other entry skipped or rejected.
Reference(s, M) ==
    /\ Range(s.files) = Canonical(M)
    /\ \A i, j \in DOMAIN s.files : i < j => s.files[i].path < s.files[j].path
    /\ s.duplicates = {d \in (M \ Canonical(M)) \X Canonical(M) :
                          Usable(d[1]) /\ d[1].digest = d[2].digest}
    /\ s.skipped = {m \in M : m.kind \in {"hidden", "other"}}
    /\ s.rejected = {m \in M : m.kind \in {"empty", "badwav"}}

\* Whatever the order of the members in the ZIP directory, a pass that comes to a verdict
\* comes to the reference verdict, and what it publishes is the reference result.
IngestionMatchesReference ==
    /\ step \in {"ready", "decoder_pending", "unusable"} => step = Verdict(archive)
    /\ step \in {"ready", "decoder_pending"} => Reference(state, Range(archive))
=============================================================================
