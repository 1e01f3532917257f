---------------------------- MODULE FileOwnership ----------------------------
(***************************************************************************)
(* Which asset owns which path of the destination: the planner             *)
(* (photos/planner.py), the rows it reads and writes                       *)
(* (database/repository.py), the placing of downloads                      *)
(* (download/manager.py), the deletion of recently deleted assets          *)
(* (download/deletion.py) and the run that strings them together           *)
(* (photos/engine.py), against a library that changes meanwhile, a user    *)
(* who adds and removes files, failing calls and crashes.                  *)
(*                                                                         *)
(* Every asset has one resource.  Contents are told apart by identity and  *)
(* by size; how their bytes arrive is the subject of ResumableDownload.    *)
(* A run is one batch, auto_delete is on, the conflict policy is           *)
(* suffix_asset_id, and the lock sync:<account> admits one run at a time.  *)
(***************************************************************************)
EXTENDS Naturals, FiniteSets, FiniteSetsExt

CONSTANTS
    Asset,       \* iCloud assets; the content of asset a is a itself
    AddedAt,     \* [Asset -> Nat], distinct: the order of added_at
    UserContent, \* contents of files that a user puts into the destination
    SizeOf,      \* [Asset \cup UserContent -> Nat]
    Path,        \* paths of one folder of the destination
    Base,        \* [Asset -> Path], PathNamer.relative_path
    Conflict,    \* [Asset -> numbered paths]: PathNamer.resolve_conflict, then with _2, _3 ...
    NoFile,      \* nothing at a path
    NoRow,       \* the asset has no local_files row
    NoPath,      \* the run has not reserved a path for the asset
    NoAsset,     \* no asset is being deleted
    MaxEvents    \* bound: outside events and failures in one behaviour

Content == Asset \cup UserContent
RowStatus == {"VERIFIED", "DELETE_PENDING", "DELETED_REMOTE", "DELETE_FAILED"}
Row == [path : Path, content : Content, status : RowStatus]

ASSUME ConstantsAssumption ==
    /\ IsFiniteSet(Asset)
    /\ AddedAt \in [Asset -> Nat]
    /\ \A a, b \in Asset : AddedAt[a] = AddedAt[b] => a = b
    /\ SizeOf \in [Content -> Nat]
    /\ Base \in [Asset -> Path] /\ Conflict \in [Asset -> [1..Cardinality(Asset) -> Path]]
    /\ \A a \in Asset : \A m, n \in 1..Cardinality(Asset) :
         Conflict[a][m] = Conflict[a][n] => m = n
    /\ Asset \cap UserContent = {}
    /\ NoFile \notin Content /\ NoRow \notin Row
    /\ NoPath \notin Path /\ NoAsset \notin Asset
    /\ MaxEvents \in Nat

VARIABLES
    remote,   \* [Asset -> where iCloud has the asset]
    recent,   \* filters.recent_only: how many of the newest assets are listed
    disk,     \* [Path -> Content \cup {NoFile}]
    folder,   \* the folder of these paths exists
    row,      \* [Asset -> its local_files row or NoRow]
    pc,       \* the step of the run; "idle" between runs
    active,   \* the assets the scan listed
    deleted,  \* the assets of the recently deleted scan
    queue,    \* listed assets that are not planned yet
    reserved, \* [Asset -> Path \cup {NoPath}], the reserved_paths of the run
    tasks,    \* downloads of the plan that are not finished
    failed,   \* some download of the run failed
    victims,  \* assets whose files are still to be deleted
    victim,   \* the asset whose file is being deleted, or NoAsset
    events    \* bound: events so far

remoteVars == <<remote, recent>>
diskVars == <<disk, folder>>
planVars == <<active, deleted, queue, reserved, tasks, failed>>
deletionVars == <<victims, victim>>
vars == <<remoteVars, diskVars, row, pc, planVars, deletionVars, events>>

Task == [asset : Asset, path : Path, repair : BOOLEAN, recorded : BOOLEAN]

WorldOK ==
    /\ remote \in [Asset -> {"absent", "active", "deleted", "purged"}]
    /\ recent \in 1..Cardinality(Asset)
    /\ events \in 0..MaxEvents
DiskOK ==
    /\ disk \in [Path -> Content \cup {NoFile}] /\ folder \in BOOLEAN
    /\ ~folder => disk = [p \in Path |-> NoFile]
RowsOK == row \in [Asset -> Row \cup {NoRow}]
RunOK ==
    /\ pc \in {"idle", "scanned", "plan", "download", "delete", "unlink", "mark"}
    /\ active \subseteq Asset /\ deleted \subseteq Asset /\ queue \subseteq active
    /\ reserved \in [Asset -> Path \cup {NoPath}]
    /\ victims \subseteq Asset /\ victim \in Asset \cup {NoAsset}
TasksOK == tasks \subseteq Task
TypeOK == WorldOK /\ DiskOK /\ RowsOK /\ RunOK /\ TasksOK /\ failed \in BOOLEAN

Init ==
    /\ remote = [a \in Asset |-> "absent"]
    /\ recent \in 1..Cardinality(Asset)
    /\ disk = [p \in Path |-> NoFile] /\ folder = FALSE
    /\ row = [a \in Asset |-> NoRow]
    /\ pc = "idle"
    /\ active = {} /\ deleted = {} /\ queue = {}
    /\ reserved = [a \in Asset |-> NoPath]
    /\ tasks = {} /\ failed = FALSE
    /\ victims = {} /\ victim = NoAsset
    /\ events = 0

Event == events < MaxEvents /\ events' = events + 1

In(state) == {a \in Asset : remote[a] = state}

\* list_assets with limit and _limit_assets: the newest assets of the library.
Newest(S) == {a \in S : Cardinality({b \in S : AddedAt[b] > AddedAt[a]}) < recent}

(***************************************************************************)
(* The run: two scans, the plan, the downloads, the deletions.             *)
(***************************************************************************)
Scan ==
    /\ pc = "idle"
    /\ active' = Newest(In("active")) /\ queue' = active'
    /\ reserved' = [a \in Asset |-> NoPath]
    /\ tasks' = {} /\ failed' = FALSE
    /\ pc' = "scanned"
    /\ UNCHANGED <<remoteVars, diskVars, row, deleted, deletionVars, events>>

ListRecentlyDeleted ==
    /\ pc = "scanned"
    /\ deleted' = In("deleted")
    /\ pc' = "plan"
    /\ UNCHANGED <<remoteVars, diskVars, row, active, queue, reserved, tasks, failed,
                   deletionVars, events>>

(***************************************************************************)
(* AssetPlanner.build, one asset after the other, the newest first.        *)
(***************************************************************************)
Planning(a) ==
    /\ pc = "plan" /\ a \in queue
    /\ \A b \in queue : AddedAt[b] <= AddedAt[a]
    /\ queue' = queue \ {a}
    /\ UNCHANGED <<remoteVars, diskVars, pc, active, deleted, failed, deletionVars, events>>

ReservedByOther(a, p) == \E b \in Asset \ {a} : reserved[b] = p
Reserve(a, p) == reserved' = [reserved EXCEPT ![a] = p]

\* Mutant of ConflictPath: the loop over reserved_paths is missing.
ConflictPathUnnumbered(a) == Conflict[a][1]

\* _conflict_path: the name with the end of the asset's id, which several assets may have
\* in common, then numbers until the plan has no other use for the path.
FreeNumbers(a) == {n \in 1..Cardinality(Asset) : ~ReservedByOther(a, Conflict[a][n])}
ConflictPath(a) == Conflict[a][Min(FreeNumbers(a))]

Download(a, p, repair) ==
    /\ Reserve(a, p)
    /\ tasks' = tasks \cup {[asset |-> a, path |-> p, repair |-> repair, recorded |-> FALSE]}
    /\ UNCHANGED row

\* Sizes are compared, never hashes.
IsComplete(a) ==
    /\ row[a].status = "VERIFIED" /\ disk[row[a].path] # NoFile
    /\ SizeOf[disk[row[a].path]] = SizeOf[row[a].content]
    /\ SizeOf[row[a].content] = SizeOf[a]

\* Mutant of PlanTracked: the path in the row is used without asking reserved_paths.
PlanTrackedUnreserved(a) ==
    /\ Planning(a)
    /\ row[a] # NoRow
    /\ IF IsComplete(a)
       THEN Reserve(a, row[a].path) /\ UNCHANGED <<row, tasks>>
       ELSE Download(a, row[a].path, TRUE)

\* A resource with a row keeps its path, unless an earlier asset of this plan has it.
PlanTracked(a) ==
    /\ Planning(a)
    /\ row[a] # NoRow
    /\ IF ReservedByOther(a, row[a].path) THEN Download(a, ConflictPath(a), TRUE)
       ELSE IF IsComplete(a)
       THEN Reserve(a, row[a].path) /\ UNCHANGED <<row, tasks>>
       ELSE Download(a, row[a].path, TRUE)

RowOwners(p) == {b \in Asset : row[b] # NoRow /\ row[b].path = p}

\* The path of a resource without a row: its base path, or its conflict path when the
\* plan reserved the base path or another asset's row claims the file found there.
UntrackedPath(a) ==
    IF \/ ReservedByOther(a, Base[a])
       \/ disk[Base[a]] # NoFile /\ RowOwners(Base[a]) \ {a} # {}
    THEN ConflictPath(a)
    ELSE Base[a]

\* A file that is already there is adopted: recorded with its own size and hash,
\* whatever the remote size is.
PlanUntracked(a) ==
    /\ Planning(a)
    /\ row[a] = NoRow
    /\ LET p == UntrackedPath(a) IN
       IF disk[p] = NoFile
       THEN Download(a, p, FALSE)
       ELSE /\ row' = [row EXCEPT ![a] =
                         [path |-> p, content |-> disk[p], status |-> "VERIFIED"]]
            /\ Reserve(a, p)
            /\ UNCHANGED tasks

StartDownloads ==
    /\ pc = "plan" /\ queue = {}
    /\ pc' = "download"
    /\ UNCHANGED <<remoteVars, diskVars, row, planVars, deletionVars, events>>

(***************************************************************************)
(* DownloadManager.execute: the tasks run concurrently.  Each one records  *)
(* the verified .part file and then renames it onto the target.            *)
(***************************************************************************)

Recorded(t) ==
    [asset |-> t.asset, path |-> t.path, repair |-> t.repair, recorded |-> TRUE]

\* Mutant of RecordDownload: the path and the digest change places.
RecordDownloadSwapped(t) ==
    /\ pc = "download" /\ t \in tasks /\ ~t.recorded
    /\ row' = [row EXCEPT ![t.asset] =
                 [path |-> t.asset, content |-> t.path, status |-> "VERIFIED"]]
    /\ folder' = TRUE
    /\ tasks' = (tasks \ {t}) \cup {Recorded(t)}
    /\ UNCHANGED <<remoteVars, disk, pc, active, deleted, queue, reserved, failed,
                   deletionVars, events>>

RecordDownload(t) ==
    /\ pc = "download" /\ t \in tasks /\ ~t.recorded
    /\ row' = [row EXCEPT ![t.asset] =
                 [path |-> t.path, content |-> t.asset, status |-> "VERIFIED"]]
    /\ folder' = TRUE
    /\ tasks' = (tasks \ {t}) \cup {Recorded(t)}
    /\ UNCHANGED <<remoteVars, disk, pc, active, deleted, queue, reserved, failed,
                   deletionVars, events>>

Replace(t) ==
    /\ pc = "download" /\ t \in tasks /\ t.recorded
    /\ disk' = [disk EXCEPT ![t.path] = t.asset] /\ folder' = TRUE
    /\ tasks' = tasks \ {t}
    /\ UNCHANGED <<remoteVars, row, pc, active, deleted, queue, reserved, failed,
                   deletionVars, events>>

\* The download, its record or its rename fails for good.
DownloadFails(t) ==
    /\ pc = "download" /\ t \in tasks
    /\ Event
    /\ tasks' = tasks \ {t} /\ failed' = TRUE
    /\ UNCHANGED <<remoteVars, diskVars, row, pc, active, deleted, queue, reserved,
                   deletionVars>>

(***************************************************************************)
(* LocalDeletionManager, after a run whose downloads all succeeded.        *)
(***************************************************************************)

\* Mutant of Managed: only VERIFIED rows are managed.
ManagedVerified(a) == row[a] # NoRow /\ row[a].status = "VERIFIED"

\* managed_files_for_asset leaves out what a finished deletion marked.
Managed(a) == row[a] # NoRow /\ row[a].status # "DELETED_REMOTE"

StartDeletions ==
    /\ pc = "download" /\ tasks = {}
    /\ pc' = "delete"
    /\ victims' = IF failed THEN {} ELSE {a \in deleted \ active : Managed(a)}
    /\ UNCHANGED <<remoteVars, diskVars, row, planVars, victim, events>>

\* Mutant of Refused: the hash is not compared.
RefusedUnhashed(a) == RowOwners(row[a].path) # {a}

\* _preflight: the path belongs to this asset alone and a file found there is, byte
\* for byte, the recorded one.
Refused(a) ==
    \/ RowOwners(row[a].path) # {a}
    \/ disk[row[a].path] \notin {NoFile, row[a].content}

SetStatus(a, status) ==
    row' = [row EXCEPT ![a] =
              [path |-> row[a].path, content |-> row[a].content, status |-> status]]

RefuseDeletion(a) ==
    /\ pc = "delete" /\ a \in victims /\ Refused(a)
    /\ victims' = victims \ {a}
    /\ UNCHANGED <<remoteVars, diskVars, row, pc, planVars, victim, events>>

PrepareDeletion(a) ==
    /\ pc = "delete" /\ a \in victims /\ ~Refused(a)
    /\ victims' = victims \ {a} /\ victim' = a
    /\ SetStatus(a, "DELETE_PENDING")
    /\ pc' = "unlink"
    /\ UNCHANGED <<remoteVars, diskVars, planVars, events>>

Unlink ==
    /\ pc = "unlink"
    /\ disk' = [disk EXCEPT ![row[victim].path] = NoFile]
    /\ pc' = "mark"
    /\ UNCHANGED <<remoteVars, folder, row, planVars, deletionVars, events>>

UnlinkFails ==
    /\ pc = "unlink"
    /\ Event
    /\ SetStatus(victim, "DELETE_FAILED")
    /\ victim' = NoAsset
    /\ pc' = "delete"
    /\ UNCHANGED <<remoteVars, diskVars, planVars, victims>>

\* The row is marked; then cleanup_stale_partials lists the folder, and when the
\* folder is gone its OSError marks the row again.
MarkDeleted ==
    /\ pc = "mark"
    /\ SetStatus(victim, IF folder THEN "DELETED_REMOTE" ELSE "DELETE_FAILED")
    /\ victim' = NoAsset
    /\ pc' = "delete"
    /\ UNCHANGED <<remoteVars, diskVars, planVars, victims, events>>

Finish ==
    /\ pc = "delete" /\ victims = {}
    /\ pc' = "idle"
    /\ active' = {} /\ deleted' = {}
    /\ reserved' = [a \in Asset |-> NoPath]
    /\ UNCHANGED <<remoteVars, diskVars, row, queue, tasks, failed, deletionVars, events>>

(***************************************************************************)
(* The outside world.                                                      *)
(***************************************************************************)
Crash ==
    /\ pc # "idle"
    /\ Event
    /\ pc' = "idle"
    /\ active' = {} /\ deleted' = {} /\ queue' = {} /\ tasks' = {} /\ failed' = FALSE
    /\ reserved' = [a \in Asset |-> NoPath]
    /\ victims' = {} /\ victim' = NoAsset
    /\ UNCHANGED <<remoteVars, diskVars, row>>

\* Upload (added_at grows with every upload), delete, restore, purge after the thirty
\* days of the recently deleted album.
RemoteChange(a) ==
    /\ Event
    /\ \E state \in {"active", "deleted", "purged"} :
         /\ \/ remote[a] = "absent" /\ state = "active"
               /\ \A b \in Asset : remote[b] # "absent" => AddedAt[b] < AddedAt[a]
            \/ remote[a] = "active" /\ state = "deleted"
            \/ remote[a] = "deleted" /\ state \in {"active", "purged"}
         /\ remote' = [remote EXCEPT ![a] = state]
    /\ UNCHANGED <<recent, diskVars, row, pc, planVars, deletionVars>>

\* Assumption: nobody touches the folder while the program works on it, between a
\* plan's look at a path and the rename, or between a hash and the unlink.
Undisturbed == pc \in {"idle", "scanned"}

UserPuts(p, c) ==
    /\ Event /\ Undisturbed
    /\ disk[p] = NoFile
    /\ disk' = [disk EXCEPT ![p] = c] /\ folder' = TRUE
    /\ UNCHANGED <<remoteVars, row, pc, planVars, deletionVars>>

UserRemoves(p) ==
    /\ Event /\ Undisturbed
    /\ disk[p] # NoFile
    /\ disk' = [disk EXCEPT ![p] = NoFile]
    /\ UNCHANGED <<remoteVars, folder, row, pc, planVars, deletionVars>>

UserRemovesFolder ==
    /\ Event /\ Undisturbed
    /\ folder
    /\ disk' = [p \in Path |-> NoFile] /\ folder' = FALSE
    /\ UNCHANGED <<remoteVars, row, pc, planVars, deletionVars>>

Program ==
    \/ Scan \/ ListRecentlyDeleted
    \/ \E a \in Asset : PlanTracked(a) \/ PlanUntracked(a)
    \/ StartDownloads
    \/ \E t \in tasks : RecordDownload(t) \/ Replace(t)
    \/ StartDeletions
    \/ \E a \in Asset : RefuseDeletion(a) \/ PrepareDeletion(a)
    \/ Unlink \/ MarkDeleted \/ Finish

Environment ==
    \/ \E t \in tasks : DownloadFails(t)
    \/ UnlinkFails \/ Crash
    \/ \E a \in Asset : RemoteChange(a)
    \/ \E p \in Path, c \in UserContent : UserPuts(p, c)
    \/ \E p \in Path : UserRemoves(p)
    \/ UserRemovesFolder

Next == Program \/ Environment

Spec == Init /\ [][Next]_vars

\* The scheduler starts run after run, and a started run goes on.
FairSpec == Spec /\ WF_vars(Program)

(***************************************************************************)
(* Properties.                                                             *)
(***************************************************************************)

\* No two resources of one plan, skipped, adopted or to be downloaded, have the same
\* path: concurrent downloads never rename onto one file (planner.py:109-144).
PlannedPathsAreDistinct ==
    \A a, b \in Asset : reserved[a] = reserved[b] /\ reserved[a] # NoPath => a = b

\* A file the program removes was the recorded content of an asset that the scan saw
\* deleted and not active, at a path that no other asset's row claims
\* (CONFIGURATION.md:56-57, 538).
DeletionIsExact ==
    [][\A p \in Path :
         events' = events /\ disk[p] # NoFile /\ disk'[p] = NoFile =>
           \E a \in deleted \ active :
              RowOwners(p) = {a} /\ row[a].content = disk[p]]_vars

\* A download that is no repair never lands on a file: what was at the path when
\* the plan was made has been adopted or avoided (planner.py:145-214).
FreshDownloadsOverwriteNothing ==
    \A t \in tasks : ~t.repair => disk[t.path] = NoFile

\* Once the outside world stops changing, every listed asset has, for good, a file of
\* its remote size at a path of its own; a resource that shares its path because of
\* a restored asset is moved away from it.
BackedUp(a) == row[a] # NoRow /\ IsComplete(a)
EventuallyBackedUp ==
    <>[](\A a, b \in Newest(In("active")) :
            BackedUp(a) /\ BackedUp(b) /\ (row[a].path = row[b].path => a = b))

\* An asset that stays recently deleted loses its local file, whatever crash or
\* failure interrupted an earlier deletion, unless the deletion is refused or the
\* folder of the file is gone.
Cleaned(a) == row[a] = NoRow \/ row[a].status = "DELETED_REMOTE"
EventuallyCleaned ==
    \A a \in Asset :
        <>[](remote[a] = "deleted") => <>[](Cleaned(a) \/ Refused(a) \/ ~folder)

\* planner.py:167-170: a file found on the disk is adopted so that it is not downloaded
\* again, whether or not the remote size agrees.
Adopted(a) ==
    /\ row[a] # NoRow /\ row[a].status = "VERIFIED"
    /\ row[a].content \in UserContent /\ disk[row[a].path] = row[a].content
AdoptedFilesAreNotDownloadedAgain ==
    \A t \in tasks : ~(Adopted(t.asset) /\ t.path = row[t.asset].path)
=============================================================================
