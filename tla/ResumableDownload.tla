-------------------------- MODULE ResumableDownload --------------------------
(***************************************************************************)
(* One tracked resource through its downloads: DownloadManager.            *)
(* _download_with_retry and _download_once (download/manager.py), the      *)
(* planner's verdict on a tracked file (photos/planner.py, _is_complete)   *)
(* and the answers of the CDN as open_resource sees them.                  *)
(*                                                                         *)
(* A file is a sequence of bytes.  Byte i of edition e is <<e, i>>; bytes  *)
(* that belong to no edition are Foreign.  The disk outlives a crash up to *)
(* the bytes that no fsync made durable.  A target has one .part file at   *)
(* a time, whose name carries what the metadata says of an edition.        *)
(***************************************************************************)
EXTENDS Naturals, Sequences

CONSTANTS
    Edition,     \* remote editions of the resource
    Size,        \* [Edition -> Nat], the length in bytes
    Metadata,    \* what the remote metadata may carry: sets of "size", "checksum", and
                 \* "sha256" for a checksum that is one
    MaxRetries,  \* account.download.max_retries
    MaxFaults,   \* bound: faults and outside events in one behaviour
    Foreign,     \* a byte of no edition: a corrupted or misdirected response
    NoFile       \* no file, or no database row

ASSUME MetadataAssumption ==
    /\ Metadata \subseteq SUBSET {"size", "checksum", "sha256"}
    /\ \A known \in Metadata : "sha256" \in known => "checksum" \in known

ASSUME BoundsAssumption == MaxRetries \in Nat /\ MaxFaults \in Nat

ASSUME ConstantsAssumption ==
    /\ Size \in [Edition -> Nat \ {0}]
    /\ Foreign \notin Edition \X Nat
    /\ NoFile \notin Seq((Edition \X Nat) \cup {Foreign})

Byte == (Edition \X Nat) \cup {Foreign}

Content(e) == [i \in 1..Size[e] |-> <<e, i>>]

VARIABLES
    checks,   \* what the metadata of this resource carries
    remote,   \* the edition iCloud has now
    partial,  \* the .part file
    named,    \* the edition whose fingerprint is in its name
    durable,  \* bytes of it that survive a crash
    marks,    \* history of the .part file: "swapped", a refreshed URL served another edition
              \* into it; "cutOff", it was whole when a death, the database or the
              \* rename ended the attempt
    target,   \* the formal file
    row,      \* the VERIFIED row: the content whose size and SHA-256 it has
    pc,       \* where the download task is; "idle" between runs
    task,     \* the edition the task was planned for
    attempt,  \* retries made so far
    stream,   \* bytes the open response will still deliver
    faults    \* bound: faults so far

part == <<partial, named, durable, marks>>
vars == <<checks, remote, part, target, row, pc, task, attempt, stream, faults>>

File == Seq(Byte) \cup {NoFile}

Step == {"idle", "attempt", "open", "receive", "record", "replace", "post"}

TypeOK ==
    /\ checks \in Metadata
    /\ remote \in Edition /\ task \in Edition /\ named \in Edition
    /\ partial \in File
    /\ marks \subseteq {"swapped", "cutOff"}
    /\ durable \in Nat /\ attempt \in 0..MaxRetries /\ faults \in 0..MaxFaults
    /\ target \in File /\ row \in File
    /\ pc \in Step
    /\ stream \in Seq(Byte)
    /\ pc \in {"receive", "record", "replace"} => partial # NoFile

Init ==
    /\ checks \in Metadata
    /\ remote \in Edition /\ task = remote /\ named = remote
    /\ partial = NoFile /\ marks = {}
    /\ durable = 0 /\ attempt = 0 /\ faults = 0
    /\ target = NoFile /\ row = NoFile
    /\ pc = "idle"
    /\ stream = <<>>

FileLen(f) == IF f = NoFile THEN 0 ELSE Len(f)

\* verify_metadata: only what the metadata carries is compared, and of checksums only
\* those that are a SHA-256.
Verified(f, e) ==
    /\ "size" \in checks => Len(f) = Size[e]
    /\ "sha256" \in checks => f = Content(e)

\* partial_path_for: the editions of one resource whose .part files have the same name.
SameName(e, d) ==
    /\ "size" \in checks => Size[e] = Size[d]
    /\ "checksum" \in checks => e = d

\* The planner reads sizes, never bytes (planner.py:277-281).
IsComplete ==
    /\ row # NoFile /\ target # NoFile
    /\ Len(target) = Len(row)
    /\ "size" \in checks => Len(target) = Size[remote]

Fault == faults < MaxFaults /\ faults' = faults + 1

(***************************************************************************)
(* A run plans the resource: nothing to do, or a download of what the scan *)
(* saw.                                                                    *)
(***************************************************************************)
Plan ==
    /\ pc = "idle" /\ ~IsComplete
    /\ pc' = "attempt" /\ task' = remote /\ attempt' = 0
    /\ UNCHANGED <<checks, remote, part, target, row, stream, faults>>

\* A complete resource is listed under plan.skips and not downloaded.
Skip == pc = "idle" /\ IsComplete /\ UNCHANGED vars

\* Mutant of BeginAttempt: the .part file is named for the target only, so what is
\* there belongs to any edition.
BeginAttemptUnbound ==
    /\ pc = "attempt"
    /\ pc' = "open" /\ named' = task
    /\ UNCHANGED <<checks, remote, partial, durable, marks, target, row, task, attempt,
                   stream, faults>>

\* partial_path_for and cleanup_stale_partials: a .part file of any other name than the
\* task's is removed, and the length of the one that remains is the offset.
BeginAttempt ==
    /\ pc = "attempt"
    /\ pc' = "open" /\ named' = task
    /\ IF SameName(named, task)
       THEN UNCHANGED <<partial, durable, marks>>
       ELSE partial' = NoFile /\ durable' = 0 /\ marks' = {}
    /\ UNCHANGED <<checks, remote, target, row, task, attempt, stream, faults>>

offset == FileLen(partial)

\* Mutant of GiveUpOrRetry: one attempt too many.
GiveUpOrRetryLate(retryable) ==
    IF retryable /\ attempt <= MaxRetries
    THEN pc' = "attempt" /\ attempt' = attempt + 1
    ELSE pc' = "idle" /\ UNCHANGED attempt

\* The handler of _download_with_retry: one more attempt, or the task has failed.
GiveUpOrRetry(retryable) ==
    IF retryable /\ attempt < MaxRetries
    THEN pc' = "attempt" /\ attempt' = attempt + 1
    ELSE pc' = "idle" /\ UNCHANGED attempt

(***************************************************************************)
(* open_resource, with the edition e that the URL serves.                  *)
(***************************************************************************)

\* No Range header: the whole resource, written from the start ("wb").
OpenFromStart(e) ==
    /\ pc = "open" /\ offset = 0
    /\ partial' = <<>> /\ durable' = 0
    /\ marks' = IF SameName(e, task) THEN {} ELSE {"swapped"}
    /\ stream' = Content(e)
    /\ pc' = "receive"
    /\ UNCHANGED <<checks, remote, named, target, row, task, attempt>>

\* The stream is appended to the .part file ("ab").
Resume(e, bytes) ==
    /\ marks' = IF SameName(e, task) THEN marks ELSE marks \cup {"swapped"}
    /\ stream' = bytes
    /\ pc' = "receive"
    /\ UNCHANGED <<checks, remote, partial, named, durable, target, row, task, attempt>>

\* 206: the bytes after the offset.
OpenRange(e) ==
    /\ pc = "open" /\ 0 < offset /\ offset < Size[e]
    /\ Resume(e, SubSeq(Content(e), offset + 1, Size[e]))

\* 416: nothing lies at or after the offset.  raise_for_status raises before the
\* try block that would delete the .part file, with a retryable code.
OpenUnsatisfiable(e) ==
    /\ pc = "open" /\ offset >= Size[e]
    /\ GiveUpOrRetry(TRUE)
    /\ UNCHANGED <<checks, remote, part, target, row, task, stream>>

\* The URL of the plan serves what was planned.
OpenPlanned ==
    /\ OpenFromStart(task) \/ OpenRange(task) \/ OpenUnsatisfiable(task)
    /\ UNCHANGED faults

\* The URL of the plan has expired: a refreshed one serves the edition iCloud has, or
\* had when an earlier refresh filled the cache.
OpenRefreshed ==
    /\ Fault
    /\ \E e \in Edition : OpenFromStart(e) \/ OpenRange(e) \/ OpenUnsatisfiable(e)

\* 200 without Accept-Ranges: drop the .part file and ask again from the start.
OpenIgnoresRange ==
    /\ pc = "open" /\ offset > 0
    /\ Fault
    /\ partial' = NoFile /\ durable' = 0 /\ marks' = {}
    /\ UNCHANGED <<checks, remote, named, target, row, pc, task, attempt, stream>>

\* 200 with Accept-Ranges: supports_range holds, so the whole resource is appended
\* to the prefix.  Asset.download, which a refreshed asset without a URL falls back to,
\* sends no Range header and is answered like this.
OpenIgnoresRangeUnnoticed ==
    /\ pc = "open" /\ offset > 0
    /\ Fault
    /\ \E e \in Edition : Resume(e, Content(e))

OpenFails ==
    /\ pc = "open"
    /\ Fault
    /\ \E retryable \in BOOLEAN : GiveUpOrRetry(retryable)
    /\ UNCHANGED <<checks, remote, part, target, row, task, stream>>

(***************************************************************************)
(* The stream.                                                             *)
(***************************************************************************)
Write(b) ==
    /\ pc = "receive" /\ stream # <<>>
    /\ partial' = Append(partial, b) /\ stream' = Tail(stream)
    /\ UNCHANGED <<checks, remote, named, durable, marks, target, row, pc, task, attempt>>

Receive == Write(Head(stream)) /\ UNCHANGED faults

\* A byte arrives damaged, and nothing on the way noticed.
ReceiveForeign == Write(Foreign) /\ Fault

\* Mutant of DropFullPartial: the .part file always stays, to be resumed.
DropFullPartialNever == UNCHANGED part

\* The except block of _download_once: a .part file that already has the expected
\* size is dropped, a shorter one or one of unknown size is kept to be resumed.
DropFullPartial ==
    IF "size" \in checks /\ Len(partial) >= Size[task]
    THEN /\ partial' = NoFile /\ durable' = 0 /\ marks' = {}
         /\ UNCHANGED named
    ELSE UNCHANGED part

StreamBreaks ==
    /\ pc = "receive"
    /\ Fault
    /\ DropFullPartial /\ GiveUpOrRetry(TRUE)
    /\ stream' = <<>>
    /\ UNCHANGED <<checks, remote, target, row, task>>

\* Mutant of FinishStream: verify_metadata is not called.
FinishStreamUnverified(ended) ==
    /\ pc = "receive" /\ ended
    /\ pc' = "record" /\ durable' = Len(partial)
    /\ stream' = <<>>
    /\ UNCHANGED <<checks, remote, partial, named, marks, target, row, task, attempt>>

\* The stream ends by itself: flush, fsync, verify_metadata.
FinishStream(ended) ==
    /\ pc = "receive" /\ ended
    /\ IF Verified(partial, task)
       THEN /\ pc' = "record" /\ durable' = Len(partial)
            /\ UNCHANGED <<partial, named, marks, attempt>>
       ELSE DropFullPartial /\ GiveUpOrRetry(TRUE)
    /\ stream' = <<>>
    /\ UNCHANGED <<checks, remote, target, row, task>>

StreamEnds == FinishStream(stream = <<>>) /\ UNCHANGED faults
StreamEndsEarly == FinishStream(stream # <<>>) /\ Fault

(***************************************************************************)
(* Commit the row, then rename.                                            *)
(***************************************************************************)

\* Mutant of RecordDownload: INSERT ... ON CONFLICT DO NOTHING.
RecordDownloadOnce ==
    /\ pc = "record"
    /\ row' = IF row = NoFile THEN partial ELSE row
    /\ pc' = "replace"
    /\ UNCHANGED <<checks, remote, part, target, task, attempt, stream, faults>>

\* record_download overwrites the row of the resource, whatever its content was.
RecordDownload ==
    /\ pc = "record"
    /\ row' = partial
    /\ pc' = "replace"
    /\ UNCHANGED <<checks, remote, part, target, task, attempt, stream, faults>>

\* A database error is no HarborError: execute() contains it and the task has failed.
RecordFails ==
    /\ pc = "record"
    /\ Fault
    /\ pc' = "idle" /\ marks' = marks \cup {"cutOff"}
    /\ UNCHANGED <<checks, remote, partial, named, durable, target, row, task, attempt, stream>>

Replace ==
    /\ pc = "replace"
    /\ target' = partial
    /\ partial' = NoFile /\ durable' = 0 /\ marks' = {}
    /\ pc' = "post"
    /\ UNCHANGED <<checks, remote, named, row, task, attempt, stream, faults>>

ReplaceFails ==
    /\ pc = "replace"
    /\ Fault
    /\ GiveUpOrRetry(TRUE)
    /\ marks' = marks \cup {"cutOff"}
    /\ UNCHANGED <<checks, remote, partial, named, durable, target, row, task, stream>>

PostProcess ==
    /\ pc = "post"
    /\ pc' = "idle"
    /\ UNCHANGED <<checks, remote, part, target, row, task, attempt, stream, faults>>

\* An OSError of the JPEG conversion retries the whole download.
PostProcessFails ==
    /\ pc = "post"
    /\ Fault
    /\ GiveUpOrRetry(TRUE)
    /\ UNCHANGED <<checks, remote, part, target, row, task, stream>>

(***************************************************************************)
(* The outside world.                                                      *)
(***************************************************************************)

\* The process or the machine dies: the open .part file keeps its durable bytes
\* and any number of the later ones.
Crash ==
    /\ pc # "idle"
    /\ Fault
    /\ IF partial = NoFile
       THEN UNCHANGED <<partial, durable, marks>>
       ELSE \E n \in 0..Len(partial) :
              /\ n >= durable
              /\ partial' = SubSeq(partial, 1, n)
              /\ durable' = 0
              /\ marks' = IF n >= Size[named] THEN marks \cup {"cutOff"} ELSE marks \ {"cutOff"}
    /\ pc' = "idle" /\ stream' = <<>>
    /\ UNCHANGED <<checks, remote, named, target, row, task, attempt>>

\* The owner edits the photo: iCloud serves another edition from now on.
RemoteEdit ==
    /\ Fault
    /\ \E e \in Edition \ {remote} : remote' = e
    /\ UNCHANGED <<checks, part, target, row, pc, task, attempt, stream>>

\* Somebody removes the formal file.
LocalLoss ==
    /\ target # NoFile
    /\ Fault
    /\ target' = NoFile
    /\ UNCHANGED <<checks, remote, part, row, pc, task, attempt, stream>>

Program ==
    \/ Plan \/ Skip \/ BeginAttempt
    \/ OpenPlanned
    \/ Receive \/ StreamEnds
    \/ RecordDownload \/ Replace \/ PostProcess

Environment ==
    \/ OpenRefreshed \/ OpenIgnoresRange \/ OpenIgnoresRangeUnnoticed \/ OpenFails
    \/ ReceiveForeign \/ StreamBreaks \/ StreamEndsEarly
    \/ RecordFails \/ ReplaceFails \/ PostProcessFails
    \/ Crash \/ RemoteEdit \/ LocalLoss

Next == Program \/ Environment

Spec == Init /\ [][Next]_vars

\* The scheduler keeps starting runs and a started download keeps moving.  Faults
\* are finitely many, so from some point on the network and the disk work.
FairSpec == Spec /\ WF_vars(Program)

(***************************************************************************)
(* Properties.                                                             *)
(***************************************************************************)

\* Whatever sequence of breaks, resumptions, retries and crashes produced it, the
\* formal file passed every check the metadata of some edition allows
\* (CONFIGURATION.md:536).
FormalFileVerified ==
    target # NoFile => \E e \in Edition : Verified(target, e)

\* The old prefix is not continued with bytes of an edition whose size or checksum says
\* that it is another one (CONFIGURATION.md:111), over breaks, crashes, retries and edits.
\* Editions of which the metadata tells neither apart share a .part file, and a URL
\* refreshed after an edit ("swapped") brings the new bytes under the old name.
PartialsArePure ==
    partial # NoFile /\ "swapped" \notin marks =>
        \A i \in 1..Len(partial) :
            partial[i] # Foreign => SameName(partial[i][1], named)

\* What appears at the formal path is what the database already recorded: the row is
\* never behind the file, on a first download, a repair or an update.
PlacedBytesAreRecorded ==
    [][target' # target /\ target' # NoFile => row = target']_vars

\* The .part file that the next attempt finds is as long as the resource or longer, so
\* that its resumption is answered 416.  With a known size the except block drops such a
\* file, unless a death, the database or the rename ended the attempt; with an unknown
\* size it is kept whatever its bytes are.
Stuck ==
    /\ SameName(named, remote) /\ FileLen(partial) >= Size[remote]
    /\ "cutOff" \in marks \/ "size" \notin checks

\* Once faults stop, the resource is complete or stuck in one of these two ways: no other
\* state can be permanent.
EndsCompleteOrStuck == <>[](IsComplete \/ Stuck)

\* manager.py:259-261 promises that after a death before the rename the next plan
\* repairs the path: the resource ends complete.
EventuallyComplete == <>[](pc = "idle" /\ IsComplete)

\* The same promise as a state property: a whole file that the planner skips is the
\* file whose size and SHA-256 are in the row.
Whole(f) == \E e \in Edition : f = Content(e)
SkippedFileIsTheRecordedOne ==
    pc = "idle" /\ IsComplete /\ Whole(target) /\ Whole(row) => target = row
=============================================================================
