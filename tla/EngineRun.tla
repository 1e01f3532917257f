------------------------------ MODULE EngineRun ------------------------------
(***************************************************************************)
(* A run of PhotosEngine (photos/engine.py, run) from its row in sync_runs *)
(* to its end: the checks before it, the scans of several libraries, the   *)
(* batches of downloads, the deletions, the commits of the libraries'      *)
(* cursors, each in a transaction of its own, and the row's last word.     *)
(* Around it iCloud changes, calls fail, the run raises, the process dies, *)
(* the mount of the photo disk comes and goes, and the disk fills up.      *)
(*                                                                         *)
(* Every asset has one resource.  Nothing narrows the scans here: filters  *)
(* are the subject of CursorScan, the paths of files that of FileOwnership *)
(* and ResourcePaths; a download with its JPEG is one step.                *)
(***************************************************************************)
EXTENDS Integers, FiniteSets

CONSTANTS
    Library,    \* the selected libraries
    Root,       \* the personal library, the only one with recently deleted assets
    Asset,
    LibraryOf,  \* [Asset -> Library]
    AddedAt,    \* [Asset -> Nat], distinct: the order of added_at
    BatchSize,  \* batch_size, fifty in the code
    File,       \* files of the destination; the file of asset a is a itself
    JpegOf,     \* [Asset -> the JPEG that is made of its file, or no file]
    Block,      \* blocks of the photo disk
    Blocks,     \* [File -> the blocks it takes]
    Known,      \* assets whose size iCloud tells
    Capacity,   \* how many blocks the photo disk has for files
    Minimum,    \* minimum_free_space
    NoCursor,   \* last_cursor is NULL
    MaxEvents   \* bound: outside events and failures in one behaviour

ASSUME ConstantsAssumption ==
    /\ IsFiniteSet(Asset)
    /\ Root \in Library /\ LibraryOf \in [Asset -> Library]
    /\ AddedAt \in [Asset -> Nat]
    /\ \A a, b \in Asset : AddedAt[a] = AddedAt[b] => a = b
    /\ BatchSize \in Nat \ {0}
    /\ Asset \subseteq File /\ JpegOf \in [Asset -> SUBSET (File \ Asset)]
    /\ IsFiniteSet(Block) /\ Blocks \in [File -> SUBSET Block]
    /\ Known \subseteq Asset /\ Capacity \in Nat /\ Minimum \in Nat
    /\ NoCursor \notin Nat
    /\ MaxEvents \in Nat

VARIABLES
    remote,     \* [Asset -> where iCloud has the asset]
    version,    \* [Library -> the number of changes so far]; a cursor is such a number
    cursor,     \* [Library -> last_cursor]
    fullDue,    \* libraries whose last_full_scan_at is missing or too old
    row,        \* [Asset -> status of its local_files row]
    mounted,    \* the photo disk, with its marker, is mounted
    onMount,    \* files on the photo disk
    onBare,     \* files in the directory below the mount point
    run,        \* the latest row of sync_runs
    pc,         \* the step of the run; "idle" between runs
    toScan,     \* libraries whose scan has not begun
    current,    \* the library whose scan has begun and has not ended, if any
    next,       \* [Library -> the cursor of cursor_updates]
    full,       \* libraries with was_full
    listed,     \* discovered_assets
    deleted,    \* deleted_assets
    queue,      \* assets of the batches to come
    first,      \* the batch is the first one
    skips,      \* complete assets of the batch that are not processed yet
    tasks,      \* downloads of the batch that are not finished
    downloaded, \* total_downloaded
    failed,     \* total_failed
    victims,    \* assets whose files are still to be deleted
    toCommit,   \* libraries whose cursor is still to be written
    placed,     \* history: assets downloaded by the latest run
    lost,       \* history: assets that failed in it
    wrote,      \* history: files it wrote on the photo disk
    counted,    \* history: assets whose bytes _check_plan_space counted
    gaps,       \* history: assets a run may leave out for a known reason
    steady,     \* history: the mount has not changed since the run began
    died,       \* history: the latest run left without a word
    events      \* bound: events so far

remoteVars == <<remote, version>>
libraryVars == <<cursor, fullDue>>
diskVars == <<mounted, onMount, onBare>>
scanVars == <<toScan, current, next, full, listed, deleted>>
countVars == <<downloaded, failed>>
batchVars == <<queue, first, skips, tasks>>
localVars == <<scanVars, batchVars, countVars, victims, toCommit>>
spaceVars == <<wrote, counted>>
historyVars == <<placed, lost, spaceVars, gaps, steady, died>>
vars == <<remoteVars, libraryVars, row, diskVars, run, pc, localVars, historyVars, events>>

Cursor == Nat \cup {NoCursor}
Status == {"NONE", "RUNNING", "COMPLETED", "PARTIAL", "FAILED", "SKIPPED_ALREADY_RUNNING"}

ScanStep == {"scan", "cursor", "changed", "unchanged", "relist"}

RemoteOK ==
    /\ remote \in [Asset -> {"absent", "active", "deleted", "purged"}]
    /\ version \in [Library -> Nat]
CursorsOK ==
    /\ cursor \in [Library -> Cursor] /\ next \in [Library -> Cursor]
    /\ fullDue \subseteq Library /\ full \subseteq Library
    /\ toScan \subseteq Library /\ current \subseteq Library /\ toCommit \subseteq Library
AssetsOK ==
    /\ row \in [Asset -> {"none", "VERIFIED", "DELETE_FAILED", "DELETED_REMOTE"}]
    /\ onMount \subseteq File /\ onBare \subseteq File /\ wrote \subseteq File
    /\ listed \subseteq Asset /\ deleted \subseteq Asset
    /\ queue \subseteq Asset /\ skips \subseteq Asset /\ tasks \subseteq Asset
    /\ victims \subseteq Asset /\ counted \subseteq Asset
    /\ placed \subseteq Asset /\ lost \subseteq Asset /\ gaps \subseteq Asset
RunOK ==
    /\ run \in [status : Status, downloaded : Nat, failed : Nat]
    /\ pc \in {"idle", "lock", "check", "plan", "download", "delete", "commit"}
              \cup ScanStep
    /\ downloaded \in Nat /\ failed \in Nat
    /\ events \in 0..MaxEvents
FlagsOK ==
    mounted \in BOOLEAN /\ first \in BOOLEAN /\ steady \in BOOLEAN /\ died \in BOOLEAN
TypeOK == RemoteOK /\ CursorsOK /\ AssetsOK /\ RunOK /\ FlagsOK

NoRun == [status |-> "NONE", downloaded |-> 0, failed |-> 0]

Init ==
    /\ remote \in [Asset -> {"absent", "active"}]
    /\ version = [l \in Library |-> 0]
    /\ cursor = [l \in Library |-> NoCursor] /\ fullDue = Library
    /\ row = [a \in Asset |-> "none"]
    /\ mounted = TRUE /\ onMount = {} /\ onBare = {}
    /\ run = NoRun /\ pc = "idle"
    /\ toScan = Library /\ current = {} /\ next = cursor /\ full = {}
    /\ listed = {} /\ deleted = {}
    /\ queue = {} /\ first = TRUE /\ skips = {} /\ tasks = {}
    /\ downloaded = 0 /\ failed = 0
    /\ victims = {} /\ toCommit = {}
    /\ placed = {} /\ lost = {} /\ wrote = {} /\ counted = {} /\ gaps = {}
    /\ steady = TRUE /\ died = FALSE
    /\ events = 0

Event == events < MaxEvents /\ events' = events + 1

ActiveIn(l) == {a \in Asset : LibraryOf[a] = l /\ remote[a] = "active"}

\* What the program finds at the destination, and how much room the photo disk has.  The
\* room below the mount point is that of another disk, and not counted.
Visible == IF mounted THEN onMount ELSE onBare
BlocksOf(F) == UNION {Blocks[f] : f \in F}
Free == Capacity - Cardinality(BlocksOf(onMount))
RoomFor(F) == mounted => Cardinality(BlocksOf(onMount \cup F)) <= Capacity

(***************************************************************************)
(* The row of the run.                                                     *)
(***************************************************************************)

\* create_run, before the lock is asked for.
CreateRun ==
    /\ pc = "idle"
    /\ run' = [status |-> "RUNNING", downloaded |-> 0, failed |-> 0]
    /\ pc' = "lock"
    /\ placed' = {} /\ lost' = {} /\ wrote' = {} /\ counted' = {}
    /\ steady' = TRUE /\ died' = FALSE
    /\ UNCHANGED <<remoteVars, libraryVars, row, diskVars, localVars, gaps, events>>

\* What the run knows ends with it.
Forget ==
    /\ toScan' = Library /\ current' = {}
    /\ next' = [l \in Library |-> NoCursor] /\ full' = {}
    /\ listed' = {} /\ deleted' = {}
    /\ queue' = {} /\ first' = TRUE /\ skips' = {} /\ tasks' = {}
    /\ downloaded' = 0 /\ failed' = 0
    /\ victims' = {} /\ toCommit' = {}

FinishRun(status, placedCount, failedCount) ==
    /\ run' = [status |-> status, downloaded |-> placedCount, failed |-> failedCount]
    /\ pc' = "idle" /\ Forget
    /\ UNCHANGED <<remoteVars, libraryVars, row, diskVars, historyVars>>

\* The except clause knows no counts.
Fails(status) == FinishRun(status, 0, 0)

LockRefused ==
    /\ pc = "lock"
    /\ Fails("SKIPPED_ALREADY_RUNNING") /\ UNCHANGED events

TakeLock ==
    /\ pc = "lock" /\ pc' = "check"
    /\ UNCHANGED <<remoteVars, libraryVars, row, diskVars, run, localVars, historyVars,
                   events>>

\* The lock, the checks, the session, the selection of libraries, a scan, the plan of any
\* batch, a commit or the last finish_run raises.  The downloads catch what goes wrong.
RunRaises ==
    /\ pc \in {"lock", "check", "plan", "delete", "commit"} \cup ScanStep
    /\ Event
    /\ Fails("FAILED")

\* The process dies, or the finish_run of the except clause raises as well.
RunDies ==
    /\ pc # "idle"
    /\ Event
    /\ pc' = "idle" /\ died' = TRUE /\ Forget
    /\ UNCHANGED <<remoteVars, libraryVars, row, diskVars, run, placed, lost, spaceVars,
                   gaps, steady>>

(***************************************************************************)
(* _precheck.                                                              *)
(***************************************************************************)
Ready == mounted /\ Free >= Minimum

CheckFails ==
    /\ pc = "check" /\ ~Ready
    /\ Fails("FAILED") /\ UNCHANGED events

CheckPasses ==
    /\ pc = "check" /\ Ready
    /\ pc' = "scan"
    /\ UNCHANGED <<remoteVars, libraryVars, row, diskVars, run, localVars, historyVars,
                   events>>

(***************************************************************************)
(* The scans, library after library, then the recently deleted assets.     *)
(***************************************************************************)
UseFull(l) == cursor[l] = NoCursor \/ l \in fullDue

Scans ==
    UNCHANGED <<remoteVars, libraryVars, row, diskVars, run, deleted, batchVars, countVars,
                victims, toCommit, placed, lost, spaceVars, steady, died, events>>

\* iter_changes asks for the changes since the cursor, then for the next cursor, and only
\* if there were changes for the whole library.
IterChanges(l) ==
    /\ pc = "scan" /\ l \in toScan /\ ~UseFull(l)
    /\ toScan' = toScan \ {l} /\ current' = {l}
    /\ pc' = IF cursor[l] = version[l] THEN "unchanged" ELSE "changed"
    /\ UNCHANGED <<next, full, listed, gaps>>
    /\ Scans

\* What came after the changes, none of which there were, is covered by the cursor unseen.
NextCursor(l) ==
    /\ pc \in {"changed", "unchanged"} /\ l \in current
    /\ next' = [next EXCEPT ![l] = version[l]]
    /\ IF pc = "changed" THEN pc' = "relist" /\ UNCHANGED <<current, gaps>>
       ELSE /\ pc' = "scan" /\ current' = {}
            /\ gaps' = IF cursor[l] = version[l] THEN gaps
                       ELSE gaps \cup (ActiveIn(l) \ onMount)
    /\ UNCHANGED <<toScan, full, listed>>
    /\ Scans

Relist(l) ==
    /\ pc = "relist" /\ l \in current
    /\ current' = {} /\ pc' = "scan"
    /\ listed' = listed \cup ActiveIn(l)
    /\ UNCHANGED <<toScan, next, full, gaps>>
    /\ Scans

\* A full scan is wanted, or iCloud no longer accepts the cursor, as any call of iter_changes
\* may find.
ListAssets(l) ==
    /\ \/ pc = "scan" /\ l \in toScan
       \/ pc \in {"changed", "unchanged", "relist"} /\ l \in current
    /\ toScan' = toScan \ {l} /\ current' = {l}
    /\ listed' = listed \cup ActiveIn(l)
    /\ pc' = "cursor"
    /\ UNCHANGED <<next, full, gaps>>
    /\ Scans

\* What came between the listing and its cursor is covered by the cursor unseen.
GetSyncCursor(l) ==
    /\ pc = "cursor" /\ l \in current
    /\ current' = {} /\ pc' = "scan"
    /\ next' = [next EXCEPT ![l] = version[l]] /\ full' = full \cup {l}
    /\ gaps' = gaps \cup (ActiveIn(l) \ listed)
    /\ UNCHANGED <<toScan, listed>>
    /\ Scans

ListRecentlyDeleted ==
    /\ pc = "scan" /\ toScan = {}
    /\ deleted' = {a \in Asset : LibraryOf[a] = Root /\ remote[a] = "deleted"}
    /\ queue' = listed
    /\ pc' = "plan"
    /\ UNCHANGED <<remoteVars, libraryVars, row, diskVars, run, toScan, current, next, full,
                   listed, first, skips, tasks, countVars, victims, toCommit, historyVars,
                   events>>

(***************************************************************************)
(* The batches, the newest assets first.                                   *)
(***************************************************************************)
Batch(S) == {a \in S : Cardinality({b \in S : AddedAt[b] > AddedAt[a]}) < BatchSize}

IsComplete(a) == row[a] = "VERIFIED" /\ a \in Visible
Missing(S) == {a \in S : ~IsComplete(a)}

\* _check_plan_space: what iCloud tells of the downloads of the first batch.
Fits(S) == Free >= Minimum + Cardinality(BlocksOf(S \cap Known))

\* disk_usage knows the disk that is mounted.
PlanRefused ==
    /\ pc = "plan" /\ queue # {}
    /\ first /\ (mounted => ~Fits(Missing(Batch(queue))))
    /\ Fails("FAILED") /\ UNCHANGED events

\* A file below the mount point passes for the one on the photo disk.
Take(S) ==
    /\ queue' = queue \ S /\ tasks' = Missing(S) /\ skips' = S \ Missing(S)
    /\ counted' = IF first THEN Missing(S) \cap Known ELSE counted
    /\ gaps' = IF mounted THEN gaps ELSE gaps \cup S
    /\ pc' = "download"
    /\ UNCHANGED <<remoteVars, libraryVars, row, diskVars, run, scanVars, first, victims,
                   toCommit, placed, lost, wrote, steady, died, events>>

\* Mutants of PlanBatch: the totals are those of the last batch; the space is not checked.
PlanBatchForgetful ==
    /\ pc = "plan" /\ queue # {}
    /\ first /\ mounted => Fits(Missing(Batch(queue)))
    /\ Take(Batch(queue)) /\ downloaded' = 0 /\ failed' = 0

PlanBatchUnchecked ==
    /\ pc = "plan" /\ queue # {}
    /\ Take(Batch(queue)) /\ UNCHANGED countVars

PlanBatch ==
    /\ pc = "plan" /\ queue # {}
    /\ first /\ mounted => Fits(Missing(Batch(queue)))
    /\ Take(Batch(queue)) /\ UNCHANGED countVars

Put(F) ==
    IF mounted
    THEN /\ onMount' = onMount \cup F /\ wrote' = wrote \cup F /\ gaps' = gaps \ F
         /\ UNCHANGED onBare
    ELSE /\ onBare' = onBare \cup F /\ gaps' = gaps \cup (F \cap Asset)
         /\ UNCHANGED <<onMount, wrote>>

\* ensure_jpeg makes a JPEG that is not there; no estimate has counted it.
NewJpeg(a) == JpegOf[a] \ Visible

Works ==
    UNCHANGED <<remoteVars, libraryVars, mounted, run, pc, scanVars, queue, first, victims,
                toCommit, counted, steady, died>>

\* The complete assets of the batch come first.
ProcessExisting(a) ==
    /\ pc = "download" /\ a \in skips
    /\ RoomFor(NewJpeg(a)) /\ Put(NewJpeg(a))
    /\ skips' = skips \ {a}
    /\ UNCHANGED <<row, tasks, countVars, placed, lost, events>> /\ Works

ProcessExistingFails(a) ==
    /\ pc = "download" /\ a \in skips
    /\ \/ (a \in Visible => ~RoomFor(NewJpeg(a))) /\ UNCHANGED events
       \/ Event
    /\ skips' = skips \ {a}
    /\ failed' = failed + 1 /\ lost' = lost \cup {a}
    /\ UNCHANGED <<row, onMount, onBare, tasks, downloaded, placed, wrote, gaps>> /\ Works

Download(a) ==
    /\ pc = "download" /\ skips = {} /\ a \in tasks
    /\ RoomFor({a} \cup NewJpeg(a))
    /\ Put({a} \cup NewJpeg(a)) /\ row' = [row EXCEPT ![a] = "VERIFIED"]
    /\ tasks' = tasks \ {a}
    /\ downloaded' = downloaded + 1 /\ placed' = placed \cup {a}
    /\ UNCHANGED <<skips, failed, lost, events>> /\ Works

\* For want of space, or for any other reason.
DownloadFails(a) ==
    /\ pc = "download" /\ skips = {} /\ a \in tasks
    /\ \/ ~RoomFor({a}) /\ UNCHANGED events
       \/ Event
    /\ tasks' = tasks \ {a}
    /\ failed' = failed + 1 /\ lost' = lost \cup {a}
    /\ UNCHANGED <<row, onMount, onBare, skips, downloaded, placed, wrote, gaps>> /\ Works

\* The file is recorded and in its place; then process_download raises to the last.
PostprocessFails(a) ==
    /\ pc = "download" /\ skips = {} /\ a \in tasks
    /\ RoomFor({a})
    /\ \/ ~RoomFor({a} \cup NewJpeg(a)) /\ UNCHANGED events
       \/ Event
    /\ Put({a}) /\ row' = [row EXCEPT ![a] = "VERIFIED"]
    /\ tasks' = tasks \ {a}
    /\ failed' = failed + 1 /\ lost' = lost \cup {a}
    /\ UNCHANGED <<skips, downloaded, placed>> /\ Works

EndBatch ==
    /\ pc = "download" /\ skips = {} /\ tasks = {}
    /\ first' = FALSE
    /\ pc' = "plan"
    /\ UNCHANGED <<remoteVars, libraryVars, row, diskVars, run, scanVars, queue, skips,
                   tasks,
                   countVars, victims, toCommit, historyVars, events>>

(***************************************************************************)
(* add_local_deletions, LocalDeletionManager, the commits, the end.        *)
(***************************************************************************)
Managed(a) == row[a] \in {"VERIFIED", "DELETE_FAILED"}

StartDeletions ==
    /\ pc = "plan" /\ queue = {}
    /\ victims' = IF failed = 0 THEN {a \in deleted \ listed : Managed(a)} ELSE {}
    /\ pc' = "delete"
    /\ UNCHANGED <<remoteVars, libraryVars, row, diskVars, run, scanVars, batchVars,
                   countVars, toCommit, historyVars, events>>

\* A file that is not there counts as deleted.
DeleteFile(a) ==
    /\ pc = "delete" /\ a \in victims
    /\ victims' = victims \ {a}
    /\ row' = [row EXCEPT ![a] = "DELETED_REMOTE"]
    /\ IF mounted THEN onMount' = onMount \ {a} /\ UNCHANGED onBare
       ELSE onBare' = onBare \ {a} /\ UNCHANGED onMount
    /\ UNCHANGED <<remoteVars, libraryVars, mounted, run, pc, scanVars, batchVars,
                   countVars, toCommit, historyVars, events>>

\* Refused by the preflight, which leaves the row alone, or failed afterwards.
DeletionFails(a) ==
    /\ pc = "delete" /\ a \in victims
    /\ Event
    /\ victims' = victims \ {a}
    /\ row' \in {row, [row EXCEPT ![a] = "DELETE_FAILED"]}
    /\ failed' = failed + 1 /\ lost' = lost \cup {a}
    /\ UNCHANGED <<remoteVars, libraryVars, diskVars, run, pc, scanVars, batchVars,
                   downloaded,
                   toCommit, placed, spaceVars, gaps, steady, died>>

StartCommits ==
    /\ pc = "delete" /\ victims = {}
    /\ toCommit' = IF failed = 0 THEN Library ELSE {}
    /\ pc' = "commit"
    /\ UNCHANGED <<remoteVars, libraryVars, row, diskVars, run, scanVars, batchVars,
                   countVars, victims, historyVars, events>>

\* Mutant of UpdateLibraryCursor: the cursor goes back by one change.
UpdateLibraryCursorBack(l) ==
    /\ pc = "commit" /\ l \in toCommit
    /\ toCommit' = toCommit \ {l}
    /\ cursor' = [cursor EXCEPT ![l] = next[l] - 1]
    /\ fullDue' = IF l \in full THEN fullDue \ {l} ELSE fullDue
    /\ UNCHANGED <<remoteVars, row, diskVars, run, pc, scanVars, batchVars, countVars,
                   victims, historyVars, events>>

UpdateLibraryCursor(l) ==
    /\ pc = "commit" /\ l \in toCommit
    /\ toCommit' = toCommit \ {l}
    /\ cursor' = [cursor EXCEPT ![l] = next[l]]
    /\ fullDue' = IF l \in full THEN fullDue \ {l} ELSE fullDue
    /\ UNCHANGED <<remoteVars, row, diskVars, run, pc, scanVars, batchVars, countVars,
                   victims, historyVars, events>>

Finish ==
    /\ pc = "commit" /\ toCommit = {}
    /\ FinishRun(IF failed = 0 THEN "COMPLETED" ELSE "PARTIAL", downloaded, failed)
    /\ UNCHANGED events

(***************************************************************************)
(* The outside world.                                                      *)
(***************************************************************************)
RemoteChange(a) ==
    /\ Event
    /\ \E state \in {"active", "deleted", "purged"} :
         /\ \/ remote[a] = "absent" /\ state = "active"
            \/ remote[a] = "active" /\ state = "deleted"
            \/ remote[a] = "deleted" /\ state \in {"active", "purged"}
         /\ remote' = [remote EXCEPT ![a] = state]
    /\ version' = [version EXCEPT ![LibraryOf[a]] = @ + 1]
    /\ UNCHANGED <<libraryVars, row, diskVars, run, pc, localVars, historyVars>>

\* The marker is on the photo disk: without the mount it is not found.
MountChanges ==
    /\ Event
    /\ mounted' = ~mounted /\ steady' = FALSE
    /\ UNCHANGED <<remoteVars, libraryVars, row, onMount, onBare, run, pc, localVars,
                   placed, lost, spaceVars, gaps, died>>

\* As in FileOwnership, users leave the folder alone while the program works on it.
UserRemoves(a) ==
    /\ Event /\ pc = "idle"
    /\ a \in onMount
    /\ onMount' = onMount \ {a} /\ gaps' = gaps \cup {a}
    /\ UNCHANGED <<remoteVars, libraryVars, row, mounted, onBare, run, pc, localVars,
                   placed, lost, spaceVars, steady, died>>

\* full_scan_interval has passed.
IntervalPasses(l) ==
    /\ l \notin fullDue
    /\ fullDue' = fullDue \cup {l}
    /\ UNCHANGED <<remoteVars, cursor, row, diskVars, run, pc, localVars, historyVars,
                   events>>

Next ==
    \/ CreateRun \/ TakeLock \/ LockRefused \/ RunRaises \/ RunDies
    \/ CheckFails \/ CheckPasses
    \/ \E l \in Library : IterChanges(l) \/ NextCursor(l) \/ Relist(l)
    \/ \E l \in Library : ListAssets(l) \/ GetSyncCursor(l)
    \/ ListRecentlyDeleted
    \/ PlanBatch \/ PlanRefused \/ EndBatch
    \/ \E a \in Asset : ProcessExisting(a) \/ ProcessExistingFails(a)
    \/ \E a \in Asset : Download(a) \/ DownloadFails(a) \/ PostprocessFails(a)
    \/ StartDeletions
    \/ \E a \in Asset : DeleteFile(a) \/ DeletionFails(a)
    \/ StartCommits \/ Finish
    \/ \E l \in Library : UpdateLibraryCursor(l) \/ IntervalPasses(l)
    \/ \E a \in Asset : RemoteChange(a) \/ UserRemoves(a)
    \/ MountChanges

Spec == Init /\ [][Next]_vars

(***************************************************************************)
(* Properties.                                                             *)
(***************************************************************************)

\* What the next run will leave out is there: when a library's cursor says that nothing
\* changed and no full scan is due, every active asset of the library has its file on the
\* photo disk, whatever failed in this or another library, and wherever among the commits
\* a run ended.  The exceptions: the user removed the file, the asset came between a
\* listing and its cursor, or the run worked without the mount (engine.py:307-314,
\* CONFIGURATION.md:535).
LeftOut(l) == cursor[l] = version[l] /\ l \notin fullDue
LeftOutAssetsAreBackedUp ==
    \A l \in Library : LeftOut(l) => ActiveIn(l) \subseteq onMount \cup gaps

\* The row of a run that ended as COMPLETED or PARTIAL counts what the run did, over all
\* batches and deletions.  A FAILED row counts nothing: it is true exactly of a run that
\* broke off before it placed or lost anything, and wrong after every batch that did.  A
\* row that is left RUNNING belongs to a run that died (engine.py:306-342).
CountsAll == run.downloaded = Cardinality(placed) /\ run.failed = Cardinality(lost)
RunRowsAreTrue ==
    /\ run.status = "RUNNING" => pc # "idle" \/ died
    /\ run.status \in {"COMPLETED", "PARTIAL"} =>
         CountsAll /\ (run.status = "COMPLETED" <=> lost = {})
    /\ run.status = "FAILED" => (CountsAll <=> placed = {} /\ lost = {})

\* Of minimum_free_space a run that keeps its mount takes no more than the bytes it wrote
\* and _check_plan_space had not counted: those of resources whose size iCloud does not
\* tell, of JPEGs, and of all batches after the first (engine.py:229-231; planner.py:53-54).
\* CONFIGURATION.md:95 promises that nothing of it is taken.
MinimumSpaceIsKept ==
    steady /\ pc \in {"plan", "download", "delete", "commit"} \cup ScanStep =>
      Free + Cardinality(BlocksOf(wrote \ counted)) >= Minimum
=============================================================================
