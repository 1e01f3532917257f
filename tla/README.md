# iCloudHarbor: specifications and proofs

This directory holds TLA+ specifications of iCloudHarbor, the TLC models that check
them and the TLAPS proofs about them. Paths such as `photos/engine.py` are relative to
`src/icloudharbor/` of the repository.

To check one model: `tlc -config MCLockCoordinator.cfg MCLockCoordinator`.
To check the proofs of a module: `tlapm LockCoordinatorProofs.tla`, and likewise the seven
other modules whose names end in `Proofs`.

## 1. The system

iCloudHarbor mirrors an iCloud photo library into a folder. One long-running process,
the daemon, owns a scheduler; short-lived commands (`setup`, `sync`, `plan`, `reset`, `list`)
run in the same container and meet the daemon only in the SQLite database, in lock files
and in the stored Apple session.

| component | state it keeps | operations | interacts with |
|---|---|---|---|
| Lock coordinator, `scheduler/locks.py` | `threading.Lock`s, lock files, rows of `locks` | acquire, recover, release | everything that runs for an account |
| Sync requests, `cli.py`, `scheduler/service.py`, `application.py` | row of `sync_requests`, `_active_accounts`, `_queued_accounts`, scheduler jobs, cached protocol objects | request, poll, execute, acknowledge, retry | commands and daemon over the database |
| Sync engine, `photos/engine.py` | cursor and full-scan date of a library, rows of `sync_runs` | check, scan, limit, batch, plan, download, delete, commit, preview | adapter, planner, download and deletion managers |
| Planner, `photos/planner.py` | reserved paths of a run, adopted rows | build, conflict path, add deletions | repository, disk |
| Download manager, `download/manager.py` | `.part` files, formal files, `local_files` rows | attempt, resume, verify, record, rename, retry | adapter, repository, postprocessor |
| Local deletion, `download/deletion.py` | status of `local_files` rows, the files | preflight, prepare, unlink, mark | repository, disk |
| Repository, `database/repository.py` | all rows | one transaction per call | all |
| Protocol adapter, `protocol/pyicloud_adapter.py` | Apple session, asset cache | authenticate, list, changes, open resource | iCloud |
| Authentication, `auth/` | session files, status row | login, two-factor code, logout | adapter, notifications |
| Notifications, `notify/base.py`, `application.py` | claim rows of `notification_state` | claim, send, release | application |
| Naming and policies, `photos/naming.py`, `photos/policies.py` | none | paths, conflicts, selection | planner |
| Postprocessor, `download/postprocess.py` | derived JPEG files, rows of `local_artifacts` | convert, protect | download manager |
| Configuration, credentials, observability | files, logs | parse, encrypt, print | start-up |

What is hard in it, and makes each component correct:

* *Locks*: threads of one process, several processes, expiring leases and dead owners
  meet in one name. Exclusion must survive all of them and recovery must not rob anyone.
* *Sync requests*: a generation is written by one process, read, served and acknowledged
  later by another. No request may be lost or acknowledged unseen.
* *Engine*: the library changes while it is listed, the cursor is a second call, and any
  call may fail. What was not backed up must be found again. A run has batches, libraries and
  deletions, and may end between any two of them; its row must tell the truth, its cursors
  must not cover what is not on the disk, and the disk must not fill up.
* *Planner and deletion*: assets that share a name compete for a path with each other,
  with earlier rows and with files of the user. Deletion must hit exactly its own file.
* *Postprocessor*: a JPEG is named and made after the plan, beside other downloads, and later
  batches plan around it. It must not take the place of a photo.
* *Download*: an interrupted file is resumed by another attempt, run or process, after
  the remote file may have changed. Only verified bytes may be placed, and an old prefix
  must not be continued with bytes of another file where the metadata tells them apart.
* *Authentication*: the session lives in files, in the daemon's memory and at Apple, and a
  row describes it. Logins, logouts, expiry and deaths must not leave the row telling a lie.
* *Notifications*: a claim row must suppress repeated reminders and no others.

`PROJECT.json` lists the individual hazards with their source lines and the properties
that cover them.

## 2. Modules

| module | models |
|---|---|
| `Exclusion` | abstract: a lock that somebody holds or nobody |
| `LockCoordinator` | `LockCoordinator.acquire` call by call over `repository.acquire_lock`, `clear_lock`, `release_lock` |
| `LockCoordinatorProofs` | its theorems |
| `ResumableDownload` | one resource: `_download_with_retry`, `_download_once`, `verify_metadata`, `open_resource`'s answers, the planner's verdict |
| `ResumableDownloadProofs` | its theorems |
| `FileOwnership` | the paths of several assets: `AssetPlanner.build`, `record_download`, rename, `LocalDeletionManager`, within a run |
| `FileOwnershipProofs` | its theorems |
| `CursorScan` | `_scan_library`, `_limit_assets`, `iter_changes`, `get_sync_cursor`, commit of the cursor |
| `CursorScanProofs` | its theorems |
| `EngineRun` | `PhotosEngine.run` from `create_run` to `finish_run`: checks, libraries, batches, deletions, commits |
| `EngineRunProofs` | its theorems |
| `ResourcePaths` | versions, resources, names, plans of several resources and batches, derived JPEGs, artifacts, preview |
| `ResourcePathsProofs` | its theorems |
| `SyncRequests` | `_request_background_sync`, `setup`, the daemon's poll, `SchedulerService`, `_run_daemon_sync`, `run_sync` |
| `SyncRequestsProofs` | its theorems |
| `AuthSession` | `AuthManager`, the adapter's session calls, `ensure_session`, `setup`, `reset`, `list`, the daemon's start and runs as far as the session matters, `notify_auth_required` |
| `AuthSessionProofs` | its theorems |
| `MC...` | the constants of a model |

Definitions named `...Swapped`, `...Unverified` and so on, introduced by a comment
"Mutant of X", are wrong variants of X. Nothing uses them; replacing X by its mutant
makes the property that `PROJECT.json` names fail, which shows that the property
depends on that piece of code.

### LockCoordinator

`phase[w][n]` is the program counter of worker `w` in the acquisition of the name `n`:
each value names the call that comes next, so that other workers interleave between any
two calls. `processLocked`, `fileHolder` and `lease` are the three locks. The row's owner
is a fresh uuid in the code; here it is the worker while the acquisition lives and
`Orphan` afterwards, since nothing can match it any more. `Expire` lets a row pass its
`expires_at` at any time, also under its holder. `Crash` ends a process. Names nest as
`account_operation` around `PhotosEngine.run` does (`Outer`).

`release_lock` may raise inside the `finally` block; then `process_lock.release()` is not
reached. `leaked` records those locks: `OnlyFailedReleaseLeaks` says that this is the only
way to lose one.

### ResumableDownload

A file is a sequence of bytes that know their edition. There is one `.part` file at a time:
`partial`, under the name of the edition `named`. The name carries only what the metadata
tells (`partial_path_for`: type, version, checksum, size), so an attempt for another edition
of the same name (`SameName`) finds the prefix of the first and continues it; one of another
name deletes it (`cleanup_stale_partials`, in `BeginAttempt`). Bytes after the last
fsync may be lost in a crash. The answers of the CDN are actions: complete, 206, 416,
200 without and with `Accept-Ranges`, failing, breaking off, ending early, damaged.
`checks` says whether the metadata has a size, a checksum, and one that is a SHA-256.
`OpenRefreshed` is the URL that the adapter refreshes when the planned one has expired
(`pyicloud_adapter.py:366-374`, `454-525`): it may serve any edition, under the name of the
planned one.

CONFIGURATION.md:111 says that an old piece is not continued once version, size or checksum
of the resource have changed. The code keeps this as far as names go, and `PartialsArePure`
says how far that is: a `.part` file has bytes of two editions only if the metadata tells them
apart neither by size nor by checksum, or if a refreshed URL served the second under the name of
the first ("swapped" in `marks`, a history of the `.part` file), which the sentence overlooks.

### FileOwnership

Contents are told apart by identity, and by size where the code only compares sizes.
`row` is the `local_files` row of each asset, `reserved` and `tasks` are the plan of the
run. Conflict paths are numbered (`Conflict[a][n]`, the names `_2`, `_3` of the loop in
`_conflict_path`), and those of two assets may be the same; only the numbers of one asset lead
to different paths. Downloads interleave with each other; record and rename are two steps. After them
come the deletions, whose preflight and prepare are one step (a reading check followed by
one transaction) and whose unlink and mark are two. Crashes and remote changes may come
at any step. `Undisturbed` is the one assumption about users: they do not touch the folder
during a run after its scans. Without it the window between hash and unlink, or between
plan and rename, could be hit, and the code has no way to close it.

### CursorScan

A cursor is the set of assets the library had when iCloud issued it; changes since a
cursor exist when the sets differ. The listing and the cursor are separate calls, as in
the code. Filters change between runs, as when the container is recreated with another
`.env`. The limits of `recent_only` and `until_found` are 1. `scope` is what narrows the scan;
`wanted` is what `asset_allowed` lets through of its result (favorites, hidden, dates, media),
after the limits and without a trace in cursor or `was_full`. A run with such filters therefore
writes `last_full_scan_at`, and `FullScansAreComplete` says what the date means: everything
that the filters in force let through is complete. Widening them forces nothing
until `full_scan_interval` has passed.

### EngineRun

The modules above each follow one part of a run; this one follows the run. `run` is its row in
`sync_runs`, written by `CreateRun` before the lock is asked for and by `FinishRun`. `pc` goes
through lock, check, scan, plan and download (batch after batch), delete, commit. `toScan`,
`toCursor` and `next` are the scans of the libraries; a cursor is the number of changes the
library had. `queue`, `tasks` and `first` are the batches, `victims` the deletions,
`toCommit` the cursors, each committed in a transaction of its own. `iter_changes` is three
calls: `IterChanges`, then `NextCursor` and, if there are changes, `Relist`; a cursor that is
refused in any of them leads back to the full listing. The skips of a batch are processed before
its downloads (`ProcessExisting`). A download is one step here and many in `ResumableDownload`.

Space: an asset has one file, of any set of blocks, and a HEIC photo a JPEG besides (`JpegOf`),
which is made with a download or for a skipped file. `Fits` is the estimate of
`_check_plan_space`: it knows the sizes that iCloud tells (`Known`), counts others as zero,
does not know of JPEGs, and is asked for the first batch only. `counted` are the files it counted.

`RunRaises` is an exception anywhere outside the downloads, which catch their own: the row
becomes FAILED and has no counts. `RunDies` is a death, or a `finish_run` that raises in the
except clause: the row stays RUNNING. `MountChanges` takes the photo disk away or brings it
back. The program looks for the marker in `_precheck` only, so what `Visible` and `Put`
do afterwards happens in the directory below the mount point.

The history variable `gaps` has the exceptions of `LeftOutAssetsAreBackedUp`: an asset that came
between a listing and its cursor (finding 3), one the user removed, one that was planned or
placed without the mount. `MinimumSpaceIsKept` says that a run takes no more of
`minimum_free_space` than the files it wrote and had not counted: resources of unknown size,
JPEGs, and all batches after the first. CONFIGURATION.md:95 promises that nothing of it is taken,
and the comment at engine.py:230 speaks of an estimate scaled to the total; nothing is scaled,
and even the first batch can go below the minimum. A run whose mount goes away is excepted
(`steady`).

`RunRowsAreTrue` says of every row when it is true. A FAILED one has no counts, whatever
earlier batches placed (engine.py:341-342): it tells the truth if and only if nothing was placed
and nothing failed before the exception.

### ResourcePaths

Here the assets have several versions. `ResourceType`, `Select` and `AssetAllowed` are the adapter's
types and the policies. `pc` goes through plan, build, work (batch after batch) and delete, or
through preview; with `until_found` a run begins with "look". There the scan and then the limit
plan one asset after the other, newest first, until enough in a row are there (`SelectAsset`,
`Enough`); `EndLook` forgets the plans, keeps what they adopted, and leaves in `limited` the assets the
batches are made of. The two passes are one in the model, since the second repeats the first.
A preview plans in the same order and adopts nothing.
In "build", "look" and "preview" `AssetPlanner.build` plans one resource per step
(`PlanResource`), in the order of the listing (`Before`); `todo` has those still to come. Its branches
are `PlanTracked`, for a resource with a row, and `PlanUntracked`, which finds a path in the stages
`FirstPath`, `UnownedPath`, `UntrackedPath` and then plans a download (`Plan`) or adopts (`Adopt`);
`Raise` is the policy `error`. `Fetch`, `LookForJpeg` and `Convert` are what a download does to
a path, `LookForJpeg` being `target.is_file()` and `Convert` the rename after the conversion.
`DeleteFiles` is the deletion of an asset with its JPEGs, as one step; failures inside it are
the subject of `FileOwnership`.

A path has a root, the parts of its stem, an extension and two numbers: `copy` counts what
`_conflict_path`'s loop appended (`_2`, then `_2_3`, each turn to the name before), `made` the marks
`_from_HEIC`, `_from_HEIC_2` of a JPEG. A name that ends by itself like such a suffix is therefore
not identified with the path that has the suffix. Users put files at `UserNames`, stems without
marks. Contents all differ in size, so `IsComplete` compares them. `preferOwn` is the order in which
`local_file_owners_for_path` answers, which no ORDER BY fixes; the path that comes of it may
differ between preview and run. `promise` is what a preview announced, tasks with their paths and
the skips, `planned` the same of the run's batches; `settled` says that the last run was complete.
The promise and `settled` end with the next outside event.

Its properties name exceptions that the model exhibits:

* `swayed`: a JPEG that the run itself made from a HEIC photo (`made`) lies where it plans a resource in
  a later batch. `protect_download_paths` knows only the current batch, and the planner asks
  `local_files` for owners, not `local_artifacts`; a new photo is taken for present or displaced,
  and a photo that was to be repaired because the user had removed such a JPEG from its row's
  path is skipped instead. The next run repairs what differs in size, if the size is known. Or
  a file has several owners, and the path depends on which one counts. Or, with `until_found`,
  the scan adopts a file that has an owner or is not of the size iCloud tells (`Claims`): the
  preview announced that it stays, and the batches of the same run repair over it. The comment at
  engine.py:208-211 calls the assignments stable across all batches.
* `Twins`: IMG.HEIC and IMG.HEIF of one batch have one place for their JPEGs
  (postprocess.py:80, 98). Both look there before either converts, and the JPEG that is ready later
  replaces the other. `PlacesStayFree` says that this is the only way a JPEG lands on a file.
* `foreign`: the run adopted a file that is not the resource's own, usually a user's. Its size
  decides one run later (finding 2).
* `renewed`: after a loss of the database an asset may adopt the photo of another one of
  its name, and its deletion then removes that photo. CONFIGURATION.md:405-407 promises that files
  are adopted again after such a loss, and says nothing of deletions.
* `LeftBehind`: a row moves to a conflict path when another resource has its path, and if that
  one's download then fails, the photo stays where it was, with no row. It can lie where
  the JPEG of a HEIC photo belongs; then it is recorded as that JPEG, and a deletion takes
  it. This takes more events than the run has: the proof of `DeletedFilesAreOwn` found it.
* Equal `ShortId`s: conflict paths do not tell the two assets apart, so that one may adopt the
  other's file (hazard at naming.py:112).

Two facts the model shows that no property states: a conflict path is not asked for
owners; the policy `error` fails the run but keeps the adoptions made before.

`MCResourcePaths` also evaluates two ASSUMEs: over all assets of up to three versions out
of seven, `Select` takes what CONFIGURATION.md:59-75 promises for each size, RAW mode and
Live Photo setting.

### SyncRequests

The commands and the two scheduler jobs (`sync:<id>` from the schedule, `sync-now:<id>`
from the poll and from retries) are processes. The account-operation lock is the abstract
lock `Exclusion`, which `LockCoordinator` is proved to implement and this model to use as allowed
(section 5). `covered` and `owed` are
history variables: the generation at the start of the last run, and a successful setup
that no run has followed. `stale` says that the cached protocol object is older than
the last setup; a run without a request may log in again or not.

### AuthSession

`pc[p]` is the next call of the daemon or of a command; the daemon runs again and again.
`cookies` says what the session directory lets a login do: nothing, log in without a code
("device"), or without a password too ("session"); `Reply` is the answer of Apple, external.
`api` is the daemon's session object. It outlives runs, is discarded when a run answers a
request (`TakeLock`) and keeps calling itself authenticated after Apple ended the session
(`lapsed`): such a run fails with `AUTH_ERROR`, which sends no reminder. Commands have
objects of their own that end with them, so `Logout` of a command does not touch `api`.

`account_operation` is one variable, `holder`: `LockCoordinator` shows why that is right.
`list` does not take it. `claimed` is the row that `claim_notification` inserts and that a
login, the end of a run with a live object, a failed delivery and `notify_auth_recovered`
delete. `TERMS_REQUIRED` stands for the three statuses that only the user can end on the
web (terms, web access, advanced data protection), all treated alike. A sync request is one
flag here, since `SyncRequests` has the generations.

History variables name the exceptions the properties allow: `died` (between claim and
delivery), `abandoned` (during a login), `unrecorded` (a session deleted while `list` was
logging in, or by a process that died before it wrote the status), `distrusted` (Apple's
doing) and `relied` (the setup relied on a request that was already served, finding 4).

## 3. Runs

| run | expected | what it shows |
|---|---|---|
| `locks` | holds | exclusion, recovery, refinement of `Exclusion`, no deadlock |
| `download` | holds | verified and recorded bytes, editions mixed only where name or URL hide it; ends complete or stuck in one of two ways |
| `download_stuck` | violated | one crash can block a resource for ever |
| `ownership` | holds | exact deletion, nothing overwritten by fresh downloads, everything settles |
| `ownership_adopted` | violated | an adopted file of another size is downloaded over |
| `cursor` | holds | failures are looked at again, full scans are full for the filters in force, all is backed up in the end |
| `cursor_beyond` | violated | a committed cursor can cover an asset no run has seen |
| `engine` | holds | what the next run leaves out is backed up, run rows are true or FAILED after some work, only uncounted files take of the minimum of free space |
| `resources` | holds | files and JPEGs keep apart, runs without failures are complete and settle, previews are true, deletions take nothing of another asset, each but for the exceptions named above |
| `requests` | holds | requests are covered, served freshly and handled |
| `requests_lost` | violated | a setup can be left without a run |
| `auth` | holds | a true status row, one reminder per outage, a setup that takes effect |

Bounds, and why they are enough for what is asked:

* `locks`: three workers in two processes and two nested names. Two workers in one process
  compete for the process lock, the third for the file lock. No bound on steps, crashes or
  expiries. The theorems hold without any bound.
* `download`: three editions, two of one length and one longer, every combination of known
  size, checksum and SHA-256, one retry, four faults. Two
  faults reach an edit during a broken download, three a crash on top, four a second edit.
* `ownership`: three assets with one base path and one sequence of conflict paths, which takes
  the counter to `_2`, one user file of the size of one of them, `recent_only` up to three, five
  events. Four events bring an asset through upload of two, deletion and restoration, which is
  how two rows come to share a path; one remains for a failure, a crash or the user.
* `cursor`: three assets, one of them in the albums, two let through by the filters, seven events.
* `engine`: two libraries, three assets in batches of one, the second of unknown size and two
  blocks, the third with a JPEG; room for four of the five blocks, a minimum of one; three
  events. A partial commit takes one event, a mount that goes and comes two, a third shows what
  the next run makes of it. Three batches are what it takes for a batch that is neither first nor
  last. The theorems hold without these bounds.
* `resources`: a HEIC photo, a HEIF photo with a smaller JPEG and a JPEG of unknown size, all named
  IMG, the first two in one batch and the third in another; five configurations, one with
  `until_found`; three events. Originals and renditions, the JPEGs of twins, a JPEG against an
  original of its batch and of the next batch, a scan that stops early, one that adopts what
  is repaired later, and the counter `_2` all occur. The identifiers of the assets end
  differently, or the exception for equal ones would hide the rest. The theorems hold without these bounds,
  for equal endings too.
* `requests`: one setup and one sync process, three commands, two faults.
* `auth`: two commands, two faults. A setup, the end of its session and a second setup
  are what it takes to see an old session object reused; a failed delivery or a death comes
  on top. The safety properties are proved for any number of both.

The violation runs use smaller bounds or no schedule, only to make the counterexample
short; each is a behaviour of the code as it is.

`EventuallyBackedUp` of `ownership` speaks of sizes, because the planner does
(planner.py:277-281): an equally long file of other content counts as complete.

Fairness. `EngineRun` and `ResourcePaths` have safety properties only and assume none. Every other
concrete specification assumes that a started program goes on (weak fairness of its
steps) and that runs are started again and again, which the schedule does. Faults and
events of the environment are never fair, and each model bounds their number, so "in the
end" means: once they stop. `SyncRequests` assumes weak fairness per thread and
per started command; `CursorScan` also that `full_scan_interval` passes again and again; `AuthSession` weak
fairness of the daemon and of each command, whose user answers its questions. In
`requests_lost` there is no schedule (`sync.schedule` may be empty), and the state in
which the system stops is the point, hence `CHECK_DEADLOCK FALSE` there.

## 4. Findings

1. **A full `.part` file is never completed** (manager.py:213; `download_stuck`). When the
   process dies after the last byte, or the database or the rename fails, the `.part` file
   has full length. The next attempt asks for the range after its end, gets 416, which is
   raised outside the `try` block that deletes full `.part` files, and so for ever.
   `EndsCompleteOrStuck` shows that there is one other way, and no third: a resource of unknown
   size, whose `.part` file the `except` block keeps whatever its bytes are (manager.py:250-256).
   If it arrives damaged, or longer than it is, it fails verification, stays, and is asked for
   the range after its end for ever, without any crash.
2. **Adoption does not avoid the download** (planner.py:126, 167-170; `ownership_adopted`).
   A file of another size is adopted and, one run later, downloaded over.
3. **The cursor can cover unseen assets** (engine.py:410; `cursor_beyond`).
   `EventuallyBackedUp` shows that the periodic full scan makes up for it.
4. **A setup can be left without a run** (cli.py:237; `requests_lost`).

## 5. Proofs

TLAPS checks, for every value of the constants that meets their assumptions:

* `LockCoordinatorProofs`. The inductive invariant `IInv` strengthens `TypeOK` by: a worker
  past the file step holds the file lock, and the file lock has such a worker; a lease
  owned by a live worker belongs to one that is inside or was purged; between "clear" and
  "relock" the row is absent. `MutualExclusion` alone is not inductive because nothing in it
  says that a worker that waits for its lease already has the file lock. From `IInv` follow
  `MutualExclusion`, `RecoverySucceeds`, the action property `LeaseSurvivesRecovery`
  and the refinement of `Exclusion`, step by step.
  `LeaseIsTheHolders` is a conjunct of it; `OnlyFailedReleaseLeaks` is inductive by itself.
* `ResumableDownloadProofs`. Besides `TypeOK`, for any editions, lengths, metadata, retries
  and faults: `FormalFileVerified` and `PlacedBytesAreRecorded` from `PlacedInv`, which adds
  what the steps before the rename established (the `.part` file is verified from "record"
  on, and is what the row says at "replace"); and `PartialsArePure` from `PureInv`, which
  types the `.part` file and the open stream by the bytes of the editions of its name (`Like`),
  as long as no refreshed URL served another, and says that the name is the task's from the
  opening on. `SameName` is an equivalence, so a name that is taken over keeps the type.
  Assumed of the constants: lengths are positive, `Foreign` is a byte of no edition, `NoFile` is
  not a file, a SHA-256 is a checksum.
* `AuthSessionProofs`, for any number of commands and faults: `TypeOK`, the two properties
  of reminders and the two of the status row. `LockInv` says at which steps each process
  has the account-operation lock; from it, a logout meets no login but one of `list`, and no
  error of a login, a code or a run leaves the lock taken (`LockFollowsSections`).
  `RowInv` adds that an answered login has earned its status before it writes it.
  `ReminderInv` adds that a delivered reminder has its claim, without which a second
  claim could succeed.
* `SyncRequestsProofs`, for any commands, generations and faults. `AcknowledgedWereCovered`
  is `handled <= covered`, which an acknowledgement would break if it knew nothing
  of the job: `ReadInv` adds that what a running or acknowledging job has read is covered by a
  run that began later. `RequestedRunsAreFresh` needs `LockInv`: a job that runs, and a setup that is
  at work, hold the account-operation lock, so no setup can make the protocol stale in
  the middle of a run.
  `LockFollowsSections` is `HolderIsInside`, a part of `LockInv`: whoever has the lock is inside its
  section, so no failure, refusal or restart leaves it taken.
* `LockIsExclusion`, of `SyncRequests` and of `AuthSession`: both use the lock as `Exclusion`
  allows, which is what `LockCoordinatorProofs` shows of the coordinator. The three models are
  composed by this specification: what they assume of the lock is what is proved of it.
* `CursorScanProofs`, for any assets and filters. `CursorInv` says that a library never shrinks
  below a cursor, `LooksInv` that a run which planned or failed anything had, from its start,
  a reason to look that no step but the commit takes away; the commit asks for no failures.
  `FullInv` says that a full scan has planned, failed or found backed up all that was there
  at its start and that `asset_allowed` lets through.
* `FileOwnershipProofs`, for any assets, paths and files of users. `PlanInv` adds to the two
  properties of plans where rows and reservations can lie (base or conflict path of their
  asset), that queued assets have no reservation, and that tasks agree with reservations. Paths
  of a plan are distinct although base and conflict paths of all assets may coincide: fewer
  reservations than assets are made before one is planned, and the numbers of its conflict path
  lead to as many different paths as there are assets, so one is free; the loop finds
  the first. `DeletionInv` carries what the preflight saw to
  the unlink. The assumption `Undisturbed`, that users leave the folder alone during a run,
  is in the specification, as a guard.
* `EngineRunProofs`, for any libraries, assets, batch size, disk and number of events. `CountInv`
  counts finite sets: an asset that was placed or failed is in no later batch, so no count takes
  it twice. `SpaceInv` says that there is a set of blocks with room above the minimum that
  has all that is on the disk or still to come of what the check counted (`Foreseen`), and that
  whatever else lies there was written uncounted. `CoverInv` follows each listed asset through queue, tasks, failures and disk to the
  commit, and says of every library that a cursor equal to its version certifies only what was
  listed; `BoundInv` says that no cursor is ahead of its library.

* `ResourcePathsProofs`, for any assets, versions, configurations, names, users' files, batch size
  and number of events. First the operators: `_conflict_path` and `jpeg_target` try numbers one
  after the other without a limit, and end, because the paths in use are finitely many and
  their tries all differ (`ConflictPathIsFree`, `JpegTargetIsFree`, `JpegTargetsDiffer`;
  `FiniteInv` keeps the paths finite). Then three arguments:
  * Places. `ReservedInv`: a resource has at most one path, which it gets when its turn comes, in
    the destination and with its asset's identifier at the end of any longer stem. `TaskInv`: a
    task's path is reserved and protected and has or has no file as its stage says; a
    conversion writes outside the protected paths. `JpegInv`: skips are dealt with one after the
    other, before the downloads, so only conversions after downloads meet, and two of them
    have one target only if their photos differ in nothing but the extension
    (`JpegTargetsDiffer`). Hence `PlacesStayFree`.
  * Owners. `DeletedFilesAreOwn` needs to know whose file lies where, although planners adopt
    whatever they find. `MovedInv`: a row and its task part only when another resource has the
    row's path. `KnownInv`: a photo at a path without a suffix lies at some row's path, so that no
    other asset adopts it there; elsewhere the path ends in the identifier of its asset.
    `OwnInv` and `MadeInv` carry this to what rows, tasks and JPEGs have, and the owners' check
    of the deletion does the rest.
  * Completeness. `CompleteInv`: until something fails, each wanted resource of an asset the run
    goes for (`limited`) is in a later batch, or not yet planned, or a task to download, or at the path of its row,
    which the run has reserved for it (`Kept`). No later batch writes there, no conversion does
    (`TaskInv`), and a deletion is refused when a row of another asset has the path (`FilesStay`).
    At the end only `Kept` is left, which is `CleanRunsAreComplete`; from there, `SettledInv` says that
    every row stays complete and every reservation is that of a row, so that the next run
    takes the branch "skip" each time: `CompleteRunsSettle`.

  * Promises. `PromisesAreKept` compares two executions of the planner, that of the preview, one
    batch with a path map of its own, and that of the run, whose batches convert, record and adopt
    between one plan and the next. The order of the plan is total on what is listed
    (`PlanIsOrdered`), and the batches are cut along it (`NewestFirst`, `OrderInv`): when its turn
    comes, a resource is preceded by the same resources in both. `Decision` is what the planner
    decides about a resource as a function of the path map, the rows and the disk. `PreviewInv`:
    the preview's tasks are the decisions that follow from the tasks before them (`Prior`).
    `PromiseInv`: the run has reserved for each resource what the preview gave it, and about the
    others the planner would still decide as promised. The steps of the run keep it because
    `_conflict_path` asks of the disk only where directories are (`ConflictPathStays`), a planner
    looks for files and owners only at unassigned paths (`FirstPathIsFree`), and
    downloads, adoptions and their rows touch only assigned ones (`Spares`, `DecisionStays`);
    `MovedInv` says so of the path an old row gives up. What remains are the places where the run
    makes a JPEG (`Met`), which is an exception, `swayed`.
    With `until_found` the scan plans first, adopts, and is forgotten but for its rows. An adoption
    of a file without owner and of the right size is decided alike when the batches come to it
    (`AdoptionStands`), and no other resource would have had the file (`AdoptionSpares`); others
    are the exception. So the scan has planned what the preview had, and `Ends` says where each
    stops: at the first asset where enough in a row are there (`NotBefore`), hence at
    the same one (`LookAgrees`).
    TLC checked the three invariants before they were proved. With batches of one it refuted
    an earlier, narrower exception, which knew only JPEGs at the path the templates give: the
    planner also looks at conflict paths and at the paths of rows.

  Assumed of the constants: the assets are finitely many and `added_at` orders them, `NoFile` and
  `Directory` are no contents, and two literals are strings, which the provers do not know.
  Nothing is assumed of names and identifiers: they may all be equal.

Every safety property of the runs is proved. Only model-checked are the liveness properties,
which the prover cannot treat. `PlannedPathsAreDistinct` and `LeaseIsTheHolders` are parts of inductive
invariants: they are proved and in no run.

## 6. Not modelled

Retry delays, progress messages and logging; configuration parsing, credentials,
notification channels and observability (no interaction with the state above); the warning
that a session will expire and its daily claim; security keys; the status file that repeats
the status row (nothing reads it); albums; the templates of names and the cleaning of names, which
are constants; file modes, capture times and EXIF data; symbolic links; event rows, listing
queries and backups of the database; the integrity check and the inodes of `_precheck`, which raise
like the rest. What pyicloud does when Apple ends a session
is outside the repository: `AuthSession` takes the session object not to notice.

`PROJECT.json` lists the hazards no property covers, with the reasons.

## 7. What could follow

1. A run of `AuthSession` that states what `reset` promises, that the session is gone, against
   the daemon that keeps its session object; the claim of the expiry warning.
2. Failing and interrupted deletions of assets with artifacts: `FileOwnership` has the failures,
   `ResourcePaths` the artifacts.
3. Rows whose sizes agree while their hashes differ, over two interrupted updates
   (`SkippedFileIsTheRecordedOne` in `ResumableDownload`).
