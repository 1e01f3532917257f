---------------------------- MODULE ResourcePaths ----------------------------
(***************************************************************************)
(* From the versions iCloud offers of an asset to files on the disk: the   *)
(* adapter that types them (protocol/pyicloud_adapter.py), the media and   *)
(* filter policies (photos/policies.py), the names (photos/naming.py), the *)
(* planner for assets of several resources and runs of several batches     *)
(* (photos/planner.py, photos/engine.py), the JPEGs derived from HEIC      *)
(* files while other downloads of the batch go on                          *)
(* (download/postprocess.py, download/manager.py), the rows of originals   *)
(* and JPEGs and the deletion of both, and the preview of a run.           *)
(*                                                                         *)
(* Contents differ in size and in hash; files of equal size, crashes and   *)
(* failing deletions are the subject of FileOwnership; albums, recent_only *)
(* and the cursor that of CursorScan.                                      *)
(***************************************************************************)
EXTENDS Naturals, FiniteSets, SequencesExt

CONSTANTS
    Asset,
    AddedAt,     \* [Asset -> Nat], distinct: the order of added_at
    CreatedAt,   \* [Asset -> Nat]
    Name,        \* the folder and the stem that the templates give, sanitized
    ShortId,     \* [Asset -> the last eight characters of its identifier], two may be equal
    Stamp,       \* [Asset -> created_at as the conflict policy timestamp writes it]
    Traits,      \* [Asset -> [live, hidden, favorite, video : BOOLEAN, ext : STRING]]
    Versions,    \* [Asset -> Seq([version, ext : STRING, sized : BOOLEAN])], as iCloud has them
    Configs,     \* the configurations a user may choose
    BatchSize,   \* batch_size, fifty in the code
    UserNames,   \* the stems and extensions of the files and folders users put there
    NoFile, Directory, Unknown,
    MaxEvents    \* bound: outside events and failures in one behaviour

ASSUME ConstantsAssumption ==
    /\ IsFiniteSet(Asset)
    /\ AddedAt \in [Asset -> Nat] /\ CreatedAt \in [Asset -> Nat]
    /\ \A a, b \in Asset : AddedAt[a] = AddedAt[b] => a = b
    /\ {Name, ShortId, Stamp} \subseteq [Asset -> STRING]
    /\ \A a \in Asset : Traits[a].ext \in STRING
    /\ Versions \in [Asset -> Seq([version : STRING, ext : STRING, sized : BOOLEAN])]
    /\ UserNames \subseteq (Seq(STRING) \ {<<>>}) \X STRING
    /\ BatchSize \in Nat \ {0} /\ MaxEvents \in Nat

\* True of any literals; the provers do not know it.
ASSUME LiteralsAreStrings == {"original", "JPG"} \subseteq STRING

VARIABLES
    remote,      \* [Asset -> "absent", "active" or "deleted"]
    config,      \* the configuration, read when the program starts
    disk,        \* [paths in use -> content or Directory]
    row,         \* [resources with a local_files row -> path, content, status]
    artifacts,   \* the local_artifacts rows
    pc,          \* "idle", "preview", "look", "plan", "build", "work" or "delete"
    queue,       \* active assets the scan or the batches have still to come to
    limited,     \* limited_assets, those the batches of the run are made of
    todo,        \* resources of the batch that are still to be planned
    reserved,    \* [paths the scan or the batches have assigned -> resource]
    protected,   \* protected_relative_paths of the batch
    tasks,       \* skips and downloads of the plan that are not finished
    victims,     \* deleted assets whose files are still to be deleted
    failed,      \* total_failed > 0
    planned,     \* history: the tasks of the plans of the run
    foreign,     \* history: the run adopted a file that is not the resource's own
    made,        \* history: the paths where the run has made JPEGs
    swayed,      \* history: the run planned otherwise for one of them, for a file the scan
                 \* adopted, or by an undefined choice
    promise,     \* history: the tasks of the last preview while nothing changes, or Unknown
    settled,     \* history: the run before was complete, and nothing has happened since
    renewed,     \* history: the database was lost
    events       \* bound: events so far

outsideVars == <<remote, config>>
rowVars == <<row, artifacts>>
planVars == <<queue, limited, todo, reserved>>
workVars == <<protected, tasks>>
historyVars == <<planned, foreign, made, swayed, promise, settled, renewed>>
vars == <<outsideVars, disk, rowVars, pc, planVars, workVars, victims, failed, historyVars, events>>

(***************************************************************************)
(* _normalize_asset and _resource_type.                                    *)
(***************************************************************************)
IsVideo(ext) == ext \in {"MOV", "MP4"}
IsRaw(ext) == ext \in {"DNG", "CR2"}
LiveVideoVersions == {"original_video", "medium_video", "thumb_video"}
StillVersions == {"original", "medium", "thumb"}

NamedType == [alternative |-> "jpeg_alternative", sidecar |-> "xmp_sidecar",
              medium_image |-> "video_poster_medium", thumb_image |-> "video_poster_thumb"]
VideoType == [adjusted |-> "video_adjusted", medium |-> "video_medium",
              thumb |-> "video_thumbnail"]
PhotoType == [adjusted |-> "photo_adjusted", medium |-> "photo_medium",
              thumb |-> "photo_thumbnail"]
Lookup(table, key, default) == IF key \in DOMAIN table THEN table[key] ELSE default

ResourceType(version, ext, live) ==
    IF live /\ (IsVideo(ext) \/ version \in LiveVideoVersions) THEN "live_photo_video"
    ELSE IF version = "raw" \/ IsRaw(ext) THEN "raw_original"
    ELSE IF live /\ version \in StillVersions THEN "live_photo_image"
    ELSE Lookup(NamedType, version,
                IF IsVideo(ext) THEN Lookup(VideoType, version, "video_original")
                ELSE Lookup(PhotoType, version, "photo_original"))

\* Without versions the asset itself is the one resource, of unknown size.
NormalizeAsset(a) ==
    LET offered == IF Versions[a] # <<>> THEN Versions[a]
                   ELSE <<[version |-> "original", ext |-> Traits[a].ext, sized |-> FALSE]>>
    IN [i \in DOMAIN offered |->
          [asset |-> a, version |-> offered[i].version, ext |-> offered[i].ext,
           sized |-> offered[i].sized,
           type |-> ResourceType(offered[i].version, offered[i].ext, Traits[a].live)]]

Resource == UNION {ToSet(NormalizeAsset(a)) : a \in Asset}

(***************************************************************************)
(* asset_allowed and select_resources.                                     *)
(***************************************************************************)
AssetAllowed(a) ==
    /\ Traits[a].live => config.live
    /\ Traits[a].hidden => config.hidden
    /\ config.favorites => Traits[a].favorite
    /\ CreatedAt[a] \in config.after .. config.before
    /\ Traits[a].video => config.videos

LiveTypes == {"live_photo_image", "live_photo_video"}
PhotoTypes == {"photo_original", "photo_medium", "photo_thumbnail", "photo_adjusted"}
PosterTypes == {"video_poster_medium", "video_poster_thumb"}
VideoTypes == {"video_original", "video_medium", "video_thumbnail", "video_adjusted"} \cup PosterTypes

LiveSize(r) ==
    CASE r.version \in {"thumb", "thumb_video", "thumb_image"} -> "thumb"
      [] r.version \in {"medium", "medium_video", "medium_image"} -> "medium"
      [] OTHER -> "original"

SizeByType ==
    [photo_original |-> "original", photo_medium |-> "medium", photo_thumbnail |-> "thumb",
     photo_adjusted |-> "adjusted", jpeg_alternative |-> "alternative",
     video_original |-> "original", video_medium |-> "medium", video_thumbnail |-> "thumb",
     video_adjusted |-> "adjusted"]

\* The components of a Live Photo, then a RAW and its companions, then the rest, each
\* in the order iCloud has them.  Every type the adapter gives is a known one.
Select(rs, isLive, c) ==
    LET IsLive(r) == r.type \in LiveTypes \cup (IF isLive THEN PhotoTypes \cup VideoTypes ELSE {})
        IsRawFile(r) == ~IsLive(r) /\ r.type = "raw_original"
        IsCompanion(r) == ~IsLive(r) /\ r.type \in {"photo_original", "jpeg_alternative"}
        Pick(Test(_)) == SelectSeq(rs, Test)
        live == Pick(LAMBDA r : IsLive(r) /\ c.live /\ LiveSize(r) = c.liveSize)
        raws == Pick(IsRawFile)
        companions == Pick(IsCompanion)
        pair == CASE raws = <<>> -> <<>>
                  [] raws # <<>> /\ c.raw = "raw_only" -> raws
                  [] raws # <<>> /\ c.raw = "jpeg_only" -> companions
                  [] raws # <<>> /\ c.raw = "both" -> raws \o companions
                  [] raws # <<>> /\ c.raw = "prefer_raw" -> <<raws[1]>>
                  [] raws # <<>> /\ c.raw = "prefer_jpeg" ->
                       <<IF companions # <<>> THEN companions[1] ELSE raws[1]>>
        Wanted(r) ==
            /\ ~IsLive(r) /\ (raws # <<>> => ~IsRawFile(r) /\ ~IsCompanion(r))
            /\ c.raw = "raw_only" => r.type \notin PhotoTypes \cup {"jpeg_alternative"}
            /\ r.type \in VideoTypes => c.videos
            /\ IF r.type \in PosterTypes
               THEN c.posters /\ r.type = "video_poster_medium"
               ELSE Lookup(SizeByType, r.type, "none") \in c.sizes
    IN live \o pair \o Pick(Wanted)

SelectResources(a) == Select(NormalizeAsset(a), Traits[a].live, config)

(***************************************************************************)
(* PathNamer.  A path is a root, the parts of its stem between underscores *)
(* and an extension; copy counts the numbers _2, _2_3, ... appended to a   *)
(* conflict path, made the marks _from_HEIC, _from_HEIC_2, ... of a JPEG.  *)
(***************************************************************************)
Path == [root : {"destination", "jpeg"}, stem : Seq(STRING) \ {<<>>}, copy : Nat,
         made : Nat, ext : STRING]

InDestination(stem, ext) ==
    [root |-> "destination", stem |-> stem, copy |-> 0, made |-> 0, ext |-> ext]

\* Mutant of RelativePath: the template gives no name.
RelativePathNameless(r) == InDestination(<<>>, r.ext)

RelativePath(r) ==
    InDestination(IF config.policy = "always_asset_id" THEN <<Name[r.asset], ShortId[r.asset]>>
                  ELSE <<Name[r.asset]>>, r.ext)

ConflictSuffix(r, sameAsset) ==
    CASE sameAsset -> <<r.version, ShortId[r.asset]>>
      [] ~sameAsset /\ config.policy = "timestamp" -> <<Stamp[r.asset], ShortId[r.asset]>>
      [] ~sameAsset /\ config.policy # "timestamp" -> <<ShortId[r.asset]>>

\* The conflict path with n numbers appended.
ResolveConflict(r, sameAsset, n) ==
    [RelativePath(r) EXCEPT !.stem = @ \o ConflictSuffix(r, sameAsset), !.copy = n]

\* A dictionary with one more entry, or another value for one it has.
Put(f, k, v) == [x \in DOMAIN f \cup {k} |-> IF x = k THEN v ELSE f[x]]

At(p) == IF p \in DOMAIN disk THEN disk[p] ELSE NoFile
IsFile(p) == At(p) \notin {NoFile, Directory}

\* _conflict_path: the first that is assigned to no resource and where no directory is.
ConflictPath(r, sameAsset, assigned) ==
    LET used == Cardinality(DOMAIN assigned) + Cardinality(DOMAIN disk)
        free == {n \in 0..used : LET p == ResolveConflict(r, sameAsset, n)
                                 IN p \notin DOMAIN assigned /\ At(p) # Directory}
    IN ResolveConflict(r, sameAsset, Min(free))

(***************************************************************************)
(* What is on the disk and in the rows.                                    *)
(***************************************************************************)
UserFile == [kind |-> "user", of |-> NoFile]
Original(r) == [kind |-> "original", of |-> r]
JpegOf(c) == [kind |-> "jpeg", of |-> c]
Sources == {Original(r) : r \in Resource} \cup {UserFile}
Content == Sources \cup {JpegOf(c) : c \in Sources}

ASSUME ContentAssumption == NoFile # Directory /\ {NoFile, Directory} \cap Content = {}

\* local_file_owners_for_path: the rows only, not the artifacts.
Owners(p) == {r \in DOMAIN row : row[r].path = p}

IsComplete(r) ==
    /\ row[r].status = "VERIFIED" /\ At(row[r].path) = row[r].content
    /\ r.sized => row[r].content = Original(r)

(***************************************************************************)
(* AssetPlanner.build, one resource of the listed assets after the other:  *)
(* newer assets first, the resources of one as select_resources has them.  *)
(***************************************************************************)
Newer(a, b) == AddedAt[a] > AddedAt[b]
Newest(S, n) == {a \in S : Cardinality({b \in S : Newer(b, a)}) < n}
Oldest(S, n) == {a \in S : Cardinality({b \in S : Newer(a, b)}) < n}

ResourcesOf(S) ==
    {r \in Resource : /\ r.asset \in S /\ AssetAllowed(r.asset)
                      /\ r \in ToSet(SelectResources(r.asset))}

Before(q, r) ==
    \/ Newer(q.asset, r.asset)
    \/ /\ q.asset = r.asset
       /\ LET rs == SelectResources(r.asset)
          IN \E i, j \in DOMAIN rs : i < j /\ rs[i] = q /\ rs[j] = r

\* Mutant of FirstPath: the planner does not ask which paths the run has assigned.
FirstPathUnreserved(r, assigned) == RelativePath(r)

\* The path of a new resource: its own; the conflict path if a resource of this run has
\* that one; the conflict path if a row has the file found there; and if a directory is
\* there, the conflict path.  Of several owners, which one counts is undefined.
FirstPath(r, assigned) ==
    LET p == RelativePath(r)
    IN IF p \in DOMAIN assigned THEN ConflictPath(r, assigned[p].asset = r.asset, assigned) ELSE p

UnownedPath(r, preferOwn, assigned) ==
    LET p == FirstPath(r, assigned)
        others == IF IsFile(p) THEN Owners(p) \ {r} ELSE {}
        own == {q \in others : q.asset = r.asset}
    IN IF others = {} THEN p
       ELSE ConflictPath(r, IF preferOwn THEN own # {} ELSE own = others, assigned)

UntrackedPath(r, preferOwn, assigned) ==
    LET p == UnownedPath(r, preferOwn, assigned)
    IN IF At(p) = Directory THEN ConflictPath(r, FALSE, assigned) ELSE p

\* A JPEG the run has made lies where the planner looks, or it matters who owns a file.
Looked(r, assigned) ==
    IF r \in DOMAIN row THEN {row[r].path}
    ELSE {FirstPath(r, assigned)} \cup {UntrackedPath(r, b, assigned) : b \in BOOLEAN}
Sways(r) ==
    /\ pc # "preview"
    /\ \/ Looked(r, reserved) \cap made # {}
       \/ r \notin DOMAIN row /\ UntrackedPath(r, TRUE, reserved) # UntrackedPath(r, FALSE, reserved)

\* The scan adopts a file that has an owner, or one that the next plan repairs.
Claims(r, p, stage) ==
    /\ pc = "look" /\ r \notin DOMAIN row /\ stage = "skip"
    /\ Owners(p) # {} \/ (r.sized /\ disk[p] # Original(r))

Reserve(r, p, stage) ==
    /\ reserved' = Put(reserved, p, r)
    /\ tasks' = tasks \cup {[resource |-> r, path |-> p, stage |-> stage]}
    /\ todo' = todo \ {r}
    /\ swayed' = (swayed \/ Sways(r) \/ Claims(r, p, stage))
    /\ UNCHANGED <<pc, queue, limited, protected, victims, planned, made, promise, settled>>

Plan(r, p, stage) == Reserve(r, p, stage) /\ UNCHANGED <<row, foreign>>

\* persist_adoptions: a preview adopts without a row.
Adopt(r, p) ==
    /\ Reserve(r, p, "skip")
    /\ IF pc # "preview"
       THEN /\ row' = Put(row, r, [path |-> p, content |-> disk[p], status |-> "VERIFIED"])
            /\ foreign' = (foreign \/ disk[p] # Original(r))
       ELSE UNCHANGED <<row, foreign>>

\* What the run remembers of itself is forgotten at its end.
RunForgotten == planned' = {} /\ foreign' = FALSE /\ made' = {} /\ swayed' = FALSE

\* _conflict_path raises under the policy error: the end of the run, or of the preview.
Refuses == config.policy = "error"
Raise ==
    /\ pc' = "idle" /\ queue' = {} /\ limited' = {} /\ todo' = {} /\ reserved' = <<>>
    /\ protected' = {} /\ tasks' = {} /\ victims' = {}
    /\ RunForgotten /\ promise' = Unknown /\ settled' = FALSE
    /\ UNCHANGED row

PlanTracked(r) ==
    LET p == row[r].path IN
    /\ r \in DOMAIN row
    /\ IF p \in DOMAIN reserved /\ reserved[p] # r
       THEN IF Refuses THEN Raise
            ELSE Plan(r, ConflictPath(r, reserved[p].asset = r.asset, reserved), "repair")
       ELSE Plan(r, p, IF IsComplete(r) THEN "skip" ELSE "repair")

\* A file found is adopted.
PlanUntracked(r, preferOwn) ==
    LET p == UntrackedPath(r, preferOwn, reserved) IN
    /\ r \notin DOMAIN row
    /\ IF Refuses /\ p # RelativePath(r) THEN Raise
       ELSE IF IsFile(p) THEN Adopt(r, p) ELSE Plan(r, p, "get")

Statuses == {"VERIFIED", "DELETED_REMOTE"}
Stages == {"skip", "get", "repair", "fetched", "kept", "converting"}

TypeOK ==
    /\ remote \in [Asset -> {"absent", "active", "deleted"}] /\ config \in Configs
    /\ DOMAIN disk \subseteq Path
    /\ \A p \in DOMAIN disk : disk[p] \in Content \cup {Directory}
    /\ DOMAIN row \subseteq Resource
    /\ \A r \in DOMAIN row : row[r] \in [path : Path, content : Content, status : Statuses]
    /\ artifacts \subseteq
         [resource : Resource, path : Path, content : Content, status : Statuses]
    /\ pc \in {"idle", "preview", "look", "plan", "build", "work", "delete"}
    /\ queue \subseteq Asset /\ limited \subseteq Asset /\ todo \subseteq Resource
    /\ DOMAIN reserved \subseteq Path /\ \A p \in DOMAIN reserved : reserved[p] \in Resource
    /\ protected \subseteq Path
    /\ tasks \subseteq [resource : Resource, path : Path, stage : Stages]
    /\ victims \subseteq Asset /\ failed \in BOOLEAN
    /\ planned \subseteq [resource : Resource, path : Path, stage : Stages]
    /\ made \subseteq Path /\ foreign \in BOOLEAN /\ swayed \in BOOLEAN
    /\ promise # Unknown => promise \subseteq [resource : Resource, path : Path, stage : Stages]
    /\ settled \in BOOLEAN /\ renewed \in BOOLEAN
    /\ events \in 0..MaxEvents

(***************************************************************************)
(* The run and its preview.                                                *)
(***************************************************************************)
Listed == {a \in Asset : remote[a] = "active"}

Init ==
    /\ remote \in [Asset -> {"absent", "active"}] /\ config \in Configs
    /\ disk = <<>> /\ row = <<>> /\ artifacts = {}
    /\ pc = "idle" /\ queue = {} /\ limited = {} /\ todo = {} /\ reserved = <<>>
    /\ protected = {} /\ tasks = {} /\ victims = {} /\ failed = FALSE
    /\ planned = {} /\ foreign = FALSE /\ made = {} /\ swayed = FALSE /\ promise = Unknown
    /\ settled = FALSE /\ renewed = FALSE /\ events = 0

Event == events < MaxEvents /\ events' = events + 1

\* A path map of its own; nothing of it is kept.
Preview ==
    /\ pc = "idle" /\ promise = Unknown
    /\ pc' = "preview" /\ queue' = Listed
    /\ UNCHANGED <<outsideVars, disk, rowVars, limited, todo, reserved, workVars, victims,
                   failed, historyVars, events>>

\* Of what is planned, the last until_found assets before the rest are there already.
Existing(plan, a) ==
    LET own == {t \in plan : t.resource.asset = a}
    IN own # {} /\ \A t \in own : t.stage = "skip"
Enough(plan, rest) ==
    LET last == Oldest(Listed \ rest, config.untilFound)
    IN /\ config.untilFound # 0
       /\ Cardinality(last) = config.untilFound /\ \A a \in last : Existing(plan, a)

\* _scan_until_found and _limit_assets plan one asset after the other, newest first; the
\* second repeats the first on what that has selected, and one pass stands for both.
\* Without until_found a preview plans all assets, in the same order.
SelectAsset ==
    /\ pc \in {"preview", "look"} /\ todo = {}
    /\ queue # {} /\ ~Enough(tasks, queue)
    /\ todo' = ResourcesOf(Newest(queue, 1)) /\ queue' = queue \ Newest(queue, 1)
    /\ UNCHANGED <<outsideVars, disk, rowVars, pc, limited, reserved, workVars, victims,
                   failed, historyVars, events>>

EndPreview ==
    /\ pc = "preview" /\ todo = {} /\ (queue = {} \/ Enough(tasks, queue))
    /\ pc' = "idle" /\ promise' = tasks
    /\ queue' = {} /\ reserved' = <<>> /\ tasks' = {}
    /\ UNCHANGED <<outsideVars, disk, rowVars, limited, todo, protected, victims, failed,
                   planned, foreign, made, swayed, settled, renewed, events>>

StartRun ==
    /\ pc = "idle" /\ queue' = Listed
    /\ IF config.untilFound = 0 THEN pc' = "plan" /\ limited' = Listed
       ELSE pc' = "look" /\ UNCHANGED limited
    /\ victims' = {a \in Asset : remote[a] = "deleted"} /\ failed' = FALSE
    /\ UNCHANGED <<outsideVars, disk, rowVars, todo, reserved, workVars, historyVars, events>>

\* Of the scan's planning only the adoptions are kept.
EndLook ==
    /\ pc = "look" /\ todo = {} /\ (queue = {} \/ Enough(tasks, queue))
    /\ pc' = "plan" /\ limited' = Listed \ queue /\ queue' = limited'
    /\ reserved' = <<>> /\ tasks' = {}
    /\ UNCHANGED <<outsideVars, disk, rowVars, todo, protected, victims, failed, historyVars,
                   events>>

PlanBatch ==
    /\ pc = "plan" /\ queue # {}
    /\ pc' = "build"
    /\ todo' = ResourcesOf(Newest(queue, BatchSize)) /\ queue' = queue \ Newest(queue, BatchSize)
    /\ UNCHANGED <<outsideVars, disk, rowVars, limited, reserved, workVars, victims, failed,
                   historyVars, events>>

PlanResource(r) ==
    /\ pc \in {"preview", "look", "build"} /\ r \in todo
    /\ \A q \in todo : ~Before(q, r)
    /\ PlanTracked(r) \/ \E preferOwn \in BOOLEAN : PlanUntracked(r, preferOwn)
    /\ UNCHANGED <<outsideVars, disk, artifacts, failed, renewed, events>>

\* protect_download_paths.
EndPlan ==
    /\ pc = "build" /\ todo = {}
    /\ pc' = "work"
    /\ protected' = {t.path : t \in tasks} /\ planned' = planned \cup tasks
    /\ UNCHANGED <<outsideVars, disk, rowVars, planVars, tasks, victims, failed,
                   foreign, made, swayed, promise, settled, renewed, events>>

\* Mutant of EndBatch: each batch begins with an empty path map.
EndBatchForgetful ==
    /\ pc = "work" /\ tasks = {}
    /\ pc' = "plan" /\ reserved' = <<>>
    /\ UNCHANGED <<outsideVars, disk, rowVars, queue, limited, todo, workVars, victims, failed,
                   historyVars, events>>

EndBatch ==
    /\ pc = "work" /\ tasks = {}
    /\ pc' = "plan"
    /\ UNCHANGED <<outsideVars, disk, rowVars, planVars, workVars, victims, failed,
                   historyVars, events>>

(***************************************************************************)
(* DownloadManager.execute: first the skips, then the downloads, which run *)
(* concurrently; and ensure_jpeg after either.                             *)
(***************************************************************************)
\* The suffix is compared in lower case.
HeicExtensions == {"HEIC", "HEIF", "heic", "heif"}
WantsJpeg(t) == config.convert /\ t.path.ext \in HeicExtensions

\* ensure_jpeg, the n-th path it tries.
JpegPath(p, n) ==
    [p EXCEPT !.root = IF config.jpegApart THEN "jpeg" ELSE @, !.ext = "JPG", !.made = n]

\* Mutant of JpegTarget: protected_relative_paths is not asked.
JpegTargetUnprotected(p) == JpegPath(p, 0)

\* A JPEG in the destination gives way to the files of the batch, not to those of others.
JpegTarget(p) ==
    JpegPath(p, Min({n \in 0..Cardinality(protected) : JpegPath(p, n) \notin protected}))

\* _record_artifacts.
Artifacts(t, p, c) ==
    {x \in artifacts : x.resource # t.resource \/ x.path # p}
    \cup {[resource |-> t.resource, path |-> p, content |-> c, status |-> "VERIFIED"]}

AtStage(t, stage) == (tasks \ {t}) \cup {[t EXCEPT !.stage = stage]}

WorkStep ==
    /\ pc = "work"
    /\ UNCHANGED <<outsideVars, pc, planVars, protected, victims, planned, foreign, swayed,
                   promise, settled, renewed>>

\* Mutant of Fetch: the record has the path without the suffix of the conflict.
FetchMisrecorded(t) ==
    /\ t \in tasks /\ t.stage \in {"get", "repair"}
    /\ \A u \in tasks : u.stage # "skip" /\ u.stage # "kept"
    /\ At(t.path) # Directory
    /\ row' = Put(row, t.resource, [path |-> RelativePath(t.resource), status |-> "VERIFIED",
                                    content |-> Original(t.resource)])
    /\ disk' = Put(disk, t.path, Original(t.resource))
    /\ tasks' = AtStage(t, "fetched")
    /\ UNCHANGED <<artifacts, failed, made, events>>
    /\ WorkStep

\* record_download, then the rename.
Fetch(t) ==
    /\ t \in tasks /\ t.stage \in {"get", "repair"}
    /\ \A u \in tasks : u.stage # "skip" /\ u.stage # "kept"
    /\ At(t.path) # Directory
    /\ row' = Put(row, t.resource, [path |-> t.path, content |-> Original(t.resource),
                                    status |-> "VERIFIED"])
    /\ disk' = Put(disk, t.path, Original(t.resource))
    /\ tasks' = AtStage(t, "fetched")
    /\ UNCHANGED <<artifacts, failed, made, events>>
    /\ WorkStep

\* ensure_jpeg, up to target.is_file().  The skips are dealt with one after the other.
LookForJpeg(t) ==
    /\ t \in tasks /\ t.stage \in {"skip", "fetched"}
    /\ t.stage = "skip" => \A u \in tasks : u.stage # "kept"
    /\ LET p == JpegTarget(t.path) IN
       IF ~WantsJpeg(t) THEN tasks' = tasks \ {t} /\ UNCHANGED artifacts
       ELSE IF IsFile(p) THEN tasks' = tasks \ {t} /\ artifacts' = Artifacts(t, p, disk[p])
       ELSE /\ tasks' = AtStage(t, IF t.stage = "skip" THEN "kept" ELSE "converting")
            /\ UNCHANGED artifacts
    /\ UNCHANGED <<disk, row, failed, made, events>>
    /\ WorkStep

Convert(t) ==
    /\ t \in tasks /\ t.stage \in {"kept", "converting"}
    /\ LET p == JpegTarget(t.path) IN
       /\ At(p) # Directory
       /\ disk' = Put(disk, p, JpegOf(disk[t.path]))
       /\ artifacts' = Artifacts(t, p, JpegOf(disk[t.path]))
       /\ made' = made \cup {p}
    /\ tasks' = tasks \ {t}
    /\ UNCHANGED <<row, failed, events>>
    /\ WorkStep

\* The download or the conversion fails for good.
TaskFails(t) ==
    /\ t \in tasks /\ t.stage # "skip"
    /\ \/ t.stage \in {"get", "repair"} /\ At(t.path) = Directory /\ UNCHANGED events
       \/ t.stage \in {"kept", "converting"} /\ At(JpegTarget(t.path)) = Directory
          /\ UNCHANGED events
       \/ t.stage # "fetched" /\ Event
    /\ tasks' = tasks \ {t} /\ failed' = TRUE
    /\ UNCHANGED <<disk, rowVars, made>>
    /\ WorkStep

(***************************************************************************)
(* The deletions, each in one step, and the end of the run.                *)
(***************************************************************************)
StartDeletions ==
    /\ pc = "plan" /\ queue = {}
    /\ pc' = "delete"
    /\ victims' = IF failed THEN {} ELSE victims
    /\ UNCHANGED <<outsideVars, disk, rowVars, planVars, workVars, failed, historyVars, events>>

Live(x) == x.status # "DELETED_REMOTE"
ArtifactsOf(r) == {x \in artifacts : x.resource = r /\ Live(x)}
Managed(a) == {r \in DOMAIN row : r.asset = a /\ (Live(row[r]) \/ ArtifactsOf(r) # {})}
Entries(a) == {row[r] : r \in Managed(a)} \cup UNION {ArtifactsOf(r) : r \in Managed(a)}

\* local_path_asset_ids: the originals and the artifacts, whatever their status.
OwnerAssets(p) ==
    {r.asset : r \in {q \in DOMAIN row : row[q].path = p}}
    \cup {x.resource.asset : x \in {y \in artifacts : y.path = p}}

\* Mutant of Refused: the owners of the path are not asked for.
RefusedUnowned(a) == \E e \in Entries(a) : At(e.path) \notin {NoFile, e.content}

Refused(a) ==
    \E e \in Entries(a) : OwnerAssets(e.path) # {a} \/ At(e.path) \notin {NoFile, e.content}

DeleteFiles(a) ==
    /\ pc = "delete" /\ a \in victims
    /\ victims' = victims \ {a}
    /\ IF Refused(a) THEN failed' = TRUE /\ UNCHANGED <<disk, rowVars>>
       ELSE LET gone == {e.path : e \in Entries(a)}
                managed == Managed(a)
            IN /\ disk' = [p \in DOMAIN disk \ gone |-> disk[p]]
               /\ row' = [r \in DOMAIN row |->
                            IF r \in managed THEN [row[r] EXCEPT !.status = "DELETED_REMOTE"]
                            ELSE row[r]]
               /\ artifacts' = {IF x.resource \in managed
                                THEN [x EXCEPT !.status = "DELETED_REMOTE"] ELSE x :
                                  x \in artifacts}
               /\ UNCHANGED failed
    /\ UNCHANGED <<outsideVars, pc, planVars, workVars, historyVars, events>>

\* A run that dealt with all that iCloud lists, failed in nothing and adopted only files of
\* their own resources is complete.
Finish ==
    /\ pc = "delete" /\ victims = {}
    /\ pc' = "idle"
    /\ promise' = Unknown /\ settled' = (~failed /\ ~foreign /\ limited = Listed)
    /\ limited' = {} /\ reserved' = <<>> /\ protected' = {} /\ failed' = FALSE
    /\ RunForgotten
    /\ UNCHANGED <<outsideVars, disk, rowVars, queue, todo, tasks, victims, renewed, events>>

(***************************************************************************)
(* The outside world, between runs.                                        *)
(***************************************************************************)
OutsideStep ==
    /\ Event /\ pc = "idle"
    /\ promise' = Unknown /\ settled' = FALSE
    /\ UNCHANGED <<pc, planVars, workVars, victims, failed, planned, foreign, made, swayed>>

RemoteChange(a) ==
    /\ OutsideStep
    /\ \E state \in {"active", "deleted"} :
         /\ state # remote[a] /\ (remote[a] = "absent" => state = "active")
         /\ remote' = [remote EXCEPT ![a] = state]
    /\ UNCHANGED <<config, disk, rowVars, renewed>>

ChangeConfig(c) ==
    /\ OutsideStep
    /\ c # config /\ config' = c
    /\ UNCHANGED <<remote, disk, rowVars, renewed>>

UserPuts ==
    /\ OutsideStep
    /\ \E name \in UserNames, c \in {UserFile, Directory} :
         LET p == InDestination(name[1], name[2])
         IN At(p) = NoFile /\ disk' = Put(disk, p, c)
    /\ UNCHANGED <<outsideVars, rowVars, renewed>>

UserRemoves(p) ==
    /\ OutsideStep
    /\ p \in DOMAIN disk
    /\ disk' = [q \in DOMAIN disk \ {p} |-> disk[q]]
    /\ UNCHANGED <<outsideVars, rowVars, renewed>>

\* CONFIGURATION.md:406-407 speaks of it: the files are there, the database is a new one.
LoseDatabase ==
    /\ OutsideStep
    /\ row # <<>>
    /\ row' = <<>> /\ artifacts' = {} /\ renewed' = TRUE
    /\ UNCHANGED <<outsideVars, disk>>

Next ==
    \/ Preview \/ SelectAsset \/ EndPreview \/ StartRun \/ EndLook
    \/ PlanBatch \/ EndPlan \/ EndBatch
    \/ \E r \in todo : PlanResource(r)
    \/ \E t \in tasks : Fetch(t) \/ LookForJpeg(t) \/ Convert(t) \/ TaskFails(t)
    \/ StartDeletions \/ Finish
    \/ \E a \in Asset : DeleteFiles(a) \/ RemoteChange(a)
    \/ \E c \in Configs : ChangeConfig(c)
    \/ \E p \in DOMAIN disk : UserRemoves(p)
    \/ UserPuts \/ LoseDatabase

Spec == Init /\ [][Next]_vars

(***************************************************************************)
(* Properties.                                                             *)
(***************************************************************************)
\* Every resource of a batch has a path to itself.  A download that is no repair finds its
\* path still free when it is renamed, although JPEGs of other assets of the batch are
\* made meanwhile, and a JPEG finds its own place free after the time the conversion
\* took (postprocess.py:78-110, manager.py:95-97).  The exception, since with_suffix drops
\* what tells them apart: of IMG.HEIC and IMG.HEIF, downloaded by one batch, the JPEG that
\* is ready later replaces the other's.
Twins(p, q) == p # q /\ {p.ext, q.ext} \subseteq HeicExtensions /\ p = [q EXCEPT !.ext = p.ext]
PlacesStayFree ==
    \A t \in tasks :
        /\ t.path \in DOMAIN reserved /\ reserved[t.path] = t.resource
        /\ t.stage = "get" => ~IsFile(t.path)
        /\ t.stage = "kept" => ~IsFile(JpegTarget(t.path))
        /\ t.stage = "converting" /\ IsFile(JpegTarget(t.path)) =>
             JpegTarget(t.path) \in made /\ \E q \in protected : Twins(t.path, q)

\* A run that has failed in nothing has backed up everything it went for: after all batches,
\* conversions and deletions each resource has a verified row and at its path the file the
\* row tells of, apart from the files of all others; and where nothing foreign was adopted,
\* that is what iCloud has, as far as sizes tell (planner.py:100-144, engine.py:306-314).
CleanRunsAreComplete ==
    pc = "delete" /\ ~failed =>
        \A r, q \in ResourcesOf(limited) :
            /\ r \in DOMAIN row /\ q \in DOMAIN row
            /\ row[r].status = "VERIFIED" /\ At(row[r].path) = row[r].content
            /\ r.sized /\ ~foreign => row[r].content = Original(r)
            /\ row[r].path = row[q].path => r = q

\* A run plans what a preview just before it planned: the same resources, to be downloaded,
\* repaired or left alone at the same paths, batch after batch with files and rows changing
\* in between.  The exceptions: a JPEG that a batch made lies where a later one looks; a
\* choice among several owners of a file; and, with until_found, a file the scan adopts
\* though it has an owner or not the size iCloud tells, which the batches then repair
\* (engine.py:90-140, 208-227, 412-440, 504-538).
PromisesAreKept == pc = "delete" /\ promise # Unknown => swayed \/ planned = promise

\* A run after a complete one, with nothing changed outside, has nothing to download, although
\* conversions and deletions of the run before came after its plan (planner.py:113-132,
\* 266-281).
CompleteRunsSettle == pc = "delete" /\ settled => \A t \in planned : t.stage = "skip"

\* What a deletion takes away was made from the deleted asset, or was a file that the
\* user had put there: never the photo or the JPEG of another asset, although planners
\* adopt what they find and conversions record it.  The exceptions: a photo recorded as a
\* derived JPEG and left behind where its row no longer is, after it had to give way to
\* another resource whose download then failed; a new database, which knows no owners;
\* and an asset whose identifier ends like that of the deleted one, for conflict paths do
\* not tell the two apart (CONFIGURATION.md:538, deletion.py:132-202, naming.py:112).
Source(c) == IF c.kind = "jpeg" THEN c.of ELSE c
LeftBehind(p) ==
    /\ \E x \in artifacts : x.path = p /\ x.content = disk[p]
    /\ disk[p].kind = "original" /\ disk[p].of \in DOMAIN row /\ row[disk[p].of].path # p
DeletedFilesAreOwn ==
    [][\A a \in victims \ victims', p \in DOMAIN disk \ DOMAIN disk' :
         \/ renewed \/ LeftBehind(p)
         \/ Source(disk[p]) = UserFile
         \/ ShortId[Source(disk[p]).of.asset] = ShortId[a]]_vars
=============================================================================
