--------------------------- MODULE EngineRunProofs ---------------------------
(***************************************************************************)
(* Proofs about EngineRun, for any libraries, assets, batch size and disk. *)
(* RunRowsAreTrue counts: every asset is downloaded, or fails, at most     *)
(* once in a run (CountInv).  MinimumSpaceIsKept counts blocks: what is on *)
(* the disk lies in a set of blocks that leaves the minimum, but for what  *)
(* the run wrote and had not counted (SpaceInv).                           *)
(* LeftOutAssetsAreBackedUp follows each listed asset through queue, tasks *)
(* and disk to the commit (CoverInv); a cursor that equals the version     *)
(* certifies nothing that came later.                                      *)
(***************************************************************************)
EXTENDS EngineRun, FiniteSetTheorems, TLAPS

\* The types of what iCloud has.
LEMMA RemoteStep == TypeOK /\ [Next]_vars => RemoteOK'
<1> SUFFICES ASSUME TypeOK, [Next]_vars PROVE RemoteOK'
  OBVIOUS
<1> USE ConstantsAssumption DEF TypeOK, RemoteOK, remoteVars, libraryVars, diskVars,
        scanVars, batchVars, countVars, localVars, spaceVars, historyVars
<1>1. ASSUME NEW a \in Asset, RemoteChange(a) PROVE RemoteOK'
  BY <1>1 DEF RemoteChange
<1>2. CASE LockRefused \/ RunRaises \/ RunDies \/ CheckFails \/ PlanRefused \/ Finish
  BY <1>2 DEF LockRefused, Fails, FinishRun, Forget, RunRaises, RunDies, CheckFails,
     PlanRefused, Finish
<1>3. CASE
       \/ CreateRun \/ TakeLock \/ CheckPasses \/ ListRecentlyDeleted \/ PlanBatch
       \/ EndBatch \/ StartDeletions \/ StartCommits \/ MountChanges
  BY <1>3 DEF CreateRun, TakeLock, CheckPasses, ListRecentlyDeleted, PlanBatch, Take,
     EndBatch, StartDeletions, StartCommits, MountChanges
<1>4. ASSUME NEW l \in Library,
            \/ IterChanges(l) \/ NextCursor(l) \/ Relist(l) \/ ListAssets(l)
            \/ GetSyncCursor(l)
            \/ UpdateLibraryCursor(l) \/ IntervalPasses(l)
     PROVE  RemoteOK'
  BY <1>4 DEF IterChanges, NextCursor, Relist, Scans, ListAssets, GetSyncCursor,
     UpdateLibraryCursor,
     IntervalPasses
<1>5. ASSUME NEW a \in Asset,
            \/ ProcessExisting(a) \/ ProcessExistingFails(a) \/ Download(a)
            \/ DownloadFails(a) \/ PostprocessFails(a) \/ DeleteFile(a) \/ DeletionFails(a)
            \/ UserRemoves(a)
     PROVE  RemoteOK'
  BY <1>5 DEF ProcessExisting, ProcessExistingFails, Download, DownloadFails,
     PostprocessFails, Works, DeleteFile, DeletionFails, UserRemoves
<1>6. CASE UNCHANGED vars
  BY <1>6 DEF vars
<1> QED
  BY <1>1, <1>2, <1>3, <1>4, <1>5, <1>6
     DEF Next

\* The types of the cursors and the sets of libraries.
LEMMA CursorsStep == TypeOK /\ [Next]_vars => CursorsOK'
<1> SUFFICES ASSUME TypeOK, [Next]_vars PROVE CursorsOK'
  OBVIOUS
<1> USE DEF TypeOK, RemoteOK, CursorsOK, Cursor, remoteVars, libraryVars, diskVars,
        scanVars, batchVars, countVars, localVars, spaceVars, historyVars
<1>1. ASSUME NEW l \in Library, IterChanges(l) PROVE CursorsOK'
  BY <1>1 DEF IterChanges, Scans
<1>2. ASSUME NEW l \in Library, ListAssets(l) PROVE CursorsOK'
  BY <1>2 DEF ListAssets, Scans
<1>3. ASSUME NEW l \in Library, GetSyncCursor(l) PROVE CursorsOK'
  BY <1>3 DEF GetSyncCursor, Scans
<1>4. CASE StartCommits
  BY <1>4 DEF StartCommits
<1>5. ASSUME NEW l \in Library, UpdateLibraryCursor(l) PROVE CursorsOK'
  BY <1>5 DEF UpdateLibraryCursor
<1>6. ASSUME NEW l \in Library, IntervalPasses(l) PROVE CursorsOK'
  BY <1>6 DEF IntervalPasses
<1>7. CASE LockRefused \/ RunRaises \/ RunDies \/ CheckFails \/ PlanRefused \/ Finish
  BY <1>7 DEF LockRefused, Fails, FinishRun, Forget, RunRaises, RunDies, CheckFails,
     PlanRefused, Finish
<1>8. CASE
       \/ CreateRun \/ TakeLock \/ CheckPasses \/ ListRecentlyDeleted \/ PlanBatch
       \/ EndBatch \/ StartDeletions \/ MountChanges
  BY <1>8 DEF CreateRun, TakeLock, CheckPasses, ListRecentlyDeleted, PlanBatch, Take,
     EndBatch, StartDeletions, MountChanges
<1>9. ASSUME NEW a \in Asset,
            \/ ProcessExisting(a) \/ ProcessExistingFails(a) \/ Download(a)
            \/ DownloadFails(a) \/ PostprocessFails(a) \/ DeleteFile(a) \/ DeletionFails(a)
            \/ RemoteChange(a) \/ UserRemoves(a)
     PROVE  CursorsOK'
  BY <1>9 DEF ProcessExisting, ProcessExistingFails, Download, DownloadFails,
     PostprocessFails, Works, DeleteFile, DeletionFails, RemoteChange,
     UserRemoves
<1>10. ASSUME NEW l \in Library, NextCursor(l) PROVE CursorsOK'
  BY <1>10 DEF NextCursor, Scans
<1>11. ASSUME NEW l \in Library, Relist(l) PROVE CursorsOK'
  BY <1>11 DEF Relist, Scans
<1>12. CASE UNCHANGED vars
  BY <1>12 DEF vars
<1> QED
  BY <1>1, <1>2, <1>3, <1>4, <1>5, <1>6, <1>7, <1>8, <1>9, <1>10, <1>11, <1>12
     DEF Next

\* What a file and its JPEG are, and where Put leaves them.
LEMMA JpegType == ASSUME NEW a \in Asset PROVE {a} \cup NewJpeg(a) \in SUBSET File
  BY ConstantsAssumption DEF NewJpeg

LEMMA PutType ==
  ASSUME AssetsOK, NEW F \in SUBSET File, Put(F)
  PROVE  /\ onMount' \subseteq File /\ onBare' \subseteq File
         /\ wrote' \subseteq File /\ gaps' \subseteq Asset
  BY DEF AssetsOK, Put

\* The types of the rows and the sets of assets.
LEMMA AssetsStep == TypeOK /\ [Next]_vars => AssetsOK'
<1> SUFFICES ASSUME TypeOK, [Next]_vars PROVE AssetsOK'
  OBVIOUS
<1> USE DEF TypeOK, AssetsOK, remoteVars, libraryVars, diskVars, scanVars, batchVars,
        countVars,
        localVars, spaceVars, historyVars
<1>1. CASE CreateRun
  BY <1>1 DEF CreateRun
<1>2. ASSUME NEW l \in Library, IterChanges(l) PROVE AssetsOK'
  BY <1>2 DEF IterChanges, Scans
<1>3. ASSUME NEW l \in Library, ListAssets(l) PROVE AssetsOK'
  BY <1>3 DEF ListAssets, Scans, ActiveIn
<1>4. ASSUME NEW l \in Library, GetSyncCursor(l) PROVE AssetsOK'
  BY <1>4 DEF GetSyncCursor, Scans, ActiveIn
<1>5. CASE ListRecentlyDeleted
  BY <1>5 DEF ListRecentlyDeleted
<1>6. CASE PlanBatch
  BY <1>6, ConstantsAssumption DEF PlanBatch, Take, Batch, Missing
<1>7. ASSUME NEW a \in Asset, Download(a) PROVE AssetsOK'
  <2> DEFINE F == {a} \cup NewJpeg(a)
  <2>1. Put(F) /\ F \in SUBSET File
    BY <1>7, JpegType DEF Download
  <2> HIDE DEF F
  <2>2. /\ onMount' \subseteq File /\ onBare' \subseteq File
        /\ wrote' \subseteq File /\ gaps' \subseteq Asset
    BY <2>1, PutType
  <2> QED
    BY <1>7, <2>2 DEF Download, Works
<1>8. ASSUME NEW a \in Asset, DownloadFails(a) PROVE AssetsOK'
  BY <1>8 DEF DownloadFails, Works
<1>9. CASE StartDeletions
  BY <1>9 DEF StartDeletions
<1>10. ASSUME NEW a \in Asset, DeleteFile(a) PROVE AssetsOK'
  BY <1>10 DEF DeleteFile
<1>11. ASSUME NEW a \in Asset, DeletionFails(a) PROVE AssetsOK'
  BY <1>11 DEF DeletionFails
<1>12. ASSUME NEW a \in Asset, UserRemoves(a) PROVE AssetsOK'
  BY <1>12 DEF UserRemoves
<1>13. CASE LockRefused \/ RunRaises \/ RunDies \/ CheckFails \/ PlanRefused \/ Finish
  BY <1>13 DEF LockRefused, Fails, FinishRun, Forget, RunRaises, RunDies, CheckFails,
     PlanRefused, Finish
<1>14. CASE TakeLock \/ CheckPasses \/ EndBatch \/ StartCommits \/ MountChanges
  BY <1>14 DEF TakeLock, CheckPasses, EndBatch, StartCommits, MountChanges
<1>15. ASSUME NEW l \in Library,
            UpdateLibraryCursor(l) \/ IntervalPasses(l)
     PROVE  AssetsOK'
  BY <1>15 DEF UpdateLibraryCursor, IntervalPasses
<1>16. ASSUME NEW a \in Asset, RemoteChange(a) PROVE AssetsOK'
  BY <1>16 DEF RemoteChange
<1>17. ASSUME NEW l \in Library, NextCursor(l) PROVE AssetsOK'
  BY <1>17 DEF NextCursor, Scans, ActiveIn
<1>18. ASSUME NEW l \in Library, Relist(l) PROVE AssetsOK'
  BY <1>18 DEF Relist, Scans, ActiveIn
<1>19. ASSUME NEW a \in Asset, ProcessExisting(a) PROVE AssetsOK'
  BY <1>19, ConstantsAssumption DEF ProcessExisting, Works, Put, NewJpeg
<1>20. ASSUME NEW a \in Asset, ProcessExistingFails(a) PROVE AssetsOK'
  BY <1>20 DEF ProcessExistingFails, Works
<1>21. ASSUME NEW a \in Asset, PostprocessFails(a) PROVE AssetsOK'
  BY <1>21, ConstantsAssumption DEF PostprocessFails, Works, Put
<1>22. CASE UNCHANGED vars
  BY <1>22 DEF vars
<1> QED
  BY <1>1, <1>2, <1>3, <1>4, <1>5, <1>6, <1>7, <1>8, <1>9, <1>10, <1>11, <1>12,
     <1>13, <1>14, <1>15, <1>16, <1>17, <1>18, <1>19, <1>20, <1>21, <1>22
     DEF Next

\* The types of the run, its step and its counts.
LEMMA RunStep == TypeOK /\ [Next]_vars => RunOK'
<1> SUFFICES ASSUME TypeOK, [Next]_vars PROVE RunOK'
  OBVIOUS
<1> USE ConstantsAssumption DEF TypeOK, RunOK, Status, ScanStep, remoteVars, libraryVars,
        diskVars, scanVars, batchVars, countVars, localVars, spaceVars, historyVars
<1>1. CASE CreateRun
  BY <1>1 DEF CreateRun
<1>2. CASE RunRaises
  BY <1>2 DEF RunRaises, Fails, FinishRun, Forget, Event
<1>3. CASE RunDies
  BY <1>3 DEF RunDies, Forget, Event
<1>4. ASSUME NEW a \in Asset, Download(a) PROVE RunOK'
  BY <1>4 DEF Download, Works
<1>5. ASSUME NEW a \in Asset, DownloadFails(a) PROVE RunOK'
  BY <1>5 DEF DownloadFails, Works, Event
<1>6. ASSUME NEW a \in Asset, DeletionFails(a) PROVE RunOK'
  BY <1>6 DEF DeletionFails, Event
<1>7. CASE Finish
  BY <1>7 DEF Finish, FinishRun, Forget
<1>8. ASSUME NEW a \in Asset, RemoteChange(a) PROVE RunOK'
  BY <1>8 DEF RemoteChange, Event
<1>9. CASE MountChanges
  BY <1>9 DEF MountChanges, Event
<1>10. ASSUME NEW a \in Asset, UserRemoves(a) PROVE RunOK'
  BY <1>10 DEF UserRemoves, Event
<1>11. CASE LockRefused \/ CheckFails \/ PlanRefused
  BY <1>11 DEF LockRefused, Fails, FinishRun, Forget, CheckFails, PlanRefused
<1>12. CASE
       \/ TakeLock \/ CheckPasses \/ ListRecentlyDeleted \/ PlanBatch \/ EndBatch
       \/ StartDeletions \/ StartCommits
  BY <1>12 DEF TakeLock, CheckPasses, ListRecentlyDeleted, PlanBatch, Take,
     EndBatch, StartDeletions, StartCommits
<1>13. ASSUME NEW l \in Library,
            \/ IterChanges(l) \/ NextCursor(l) \/ Relist(l) \/ ListAssets(l)
            \/ GetSyncCursor(l)
            \/ UpdateLibraryCursor(l) \/ IntervalPasses(l)
     PROVE  RunOK'
  BY <1>13 DEF IterChanges, NextCursor, Relist, Scans, ListAssets, GetSyncCursor,
     UpdateLibraryCursor,
     IntervalPasses
<1>14. ASSUME NEW a \in Asset, DeleteFile(a) PROVE RunOK'
  BY <1>14 DEF DeleteFile
<1>15. ASSUME NEW a \in Asset, ProcessExisting(a) PROVE RunOK'
  BY <1>15 DEF ProcessExisting, Works
<1>16. ASSUME NEW a \in Asset, ProcessExistingFails(a) PROVE RunOK'
  BY <1>16 DEF ProcessExistingFails, Works, Event
<1>17. ASSUME NEW a \in Asset, PostprocessFails(a) PROVE RunOK'
  BY <1>17 DEF PostprocessFails, Works, Event
<1>18. CASE UNCHANGED vars
  BY <1>18 DEF vars
<1> QED
  BY <1>1, <1>2, <1>3, <1>4, <1>5, <1>6, <1>7, <1>8, <1>9, <1>10, <1>11, <1>12,
     <1>13, <1>14, <1>15, <1>16, <1>17, <1>18
     DEF Next

\* The types of the flags.
LEMMA FlagsStep == TypeOK /\ [Next]_vars => FlagsOK'
<1> SUFFICES ASSUME TypeOK, [Next]_vars PROVE FlagsOK'
  OBVIOUS
<1> USE DEF TypeOK, FlagsOK, remoteVars, libraryVars, diskVars, scanVars, batchVars,
        countVars,
        localVars, spaceVars, historyVars
<1>1. CASE CreateRun
  BY <1>1 DEF CreateRun
<1>2. CASE RunDies
  BY <1>2 DEF RunDies, Forget
<1>3. CASE EndBatch
  BY <1>3 DEF EndBatch
<1>4. CASE MountChanges
  BY <1>4 DEF MountChanges
<1>5. CASE LockRefused \/ RunRaises \/ CheckFails \/ PlanRefused \/ Finish
  BY <1>5 DEF LockRefused, Fails, FinishRun, Forget, RunRaises, CheckFails, PlanRefused,
     Finish
<1>6. CASE
       \/ TakeLock \/ CheckPasses \/ ListRecentlyDeleted \/ PlanBatch \/ StartDeletions
       \/ StartCommits
  BY <1>6 DEF TakeLock, CheckPasses, ListRecentlyDeleted, PlanBatch, Take, StartDeletions,
     StartCommits
<1>7. ASSUME NEW l \in Library,
            \/ IterChanges(l) \/ NextCursor(l) \/ Relist(l) \/ ListAssets(l)
            \/ GetSyncCursor(l)
            \/ UpdateLibraryCursor(l) \/ IntervalPasses(l)
     PROVE  FlagsOK'
  BY <1>7 DEF IterChanges, NextCursor, Relist, Scans, ListAssets, GetSyncCursor,
     UpdateLibraryCursor,
     IntervalPasses
<1>8. ASSUME NEW a \in Asset,
            \/ ProcessExisting(a) \/ ProcessExistingFails(a) \/ Download(a)
            \/ DownloadFails(a) \/ PostprocessFails(a) \/ DeleteFile(a) \/ DeletionFails(a)
            \/ RemoteChange(a) \/ UserRemoves(a)
     PROVE  FlagsOK'
  BY <1>8 DEF ProcessExisting, ProcessExistingFails, Download, Put, DownloadFails,
     PostprocessFails, Works, DeleteFile, DeletionFails, RemoteChange,
     UserRemoves
<1>9. CASE UNCHANGED vars
  BY <1>9 DEF vars
<1> QED
  BY <1>1, <1>2, <1>3, <1>4, <1>5, <1>6, <1>7, <1>8, <1>9
     DEF Next

\* All types together.
LEMMA TypeStep == TypeOK /\ [Next]_vars => TypeOK'
  BY RemoteStep, CursorsStep, AssetsStep, RunStep, FlagsStep DEF TypeOK

\* Type correctness of the rows, the cursors, the disk and the run.
THEOREM TypeCorrect == Spec => []TypeOK
<1>1. Init => TypeOK
  <2> SUFFICES ASSUME Init PROVE TypeOK
    OBVIOUS
  <2>1. RemoteOK
    BY DEF Init, RemoteOK
  <2>2. CursorsOK
    BY DEF Init, CursorsOK, Cursor
  <2>3. AssetsOK
    BY DEF Init, AssetsOK
  <2>4. RunOK
    BY ConstantsAssumption DEF Init, RunOK, NoRun, Status
  <2>5. FlagsOK
    BY DEF Init, FlagsOK
  <2> QED
    BY <2>1, <2>2, <2>3, <2>4, <2>5 DEF TypeOK
<1>2. TypeOK /\ [Next]_vars => TypeOK'
  BY TypeStep
<1> QED
  BY <1>1, <1>2, PTL DEF Spec

\* What the run knows at which step.
ControlInv ==
    /\ pc # "download" => skips = {} /\ tasks = {}
    /\ pc \notin {"plan", "download"} => queue = {}
    /\ pc # "delete" => victims = {}
    /\ pc # "commit" => toCommit = {}
    /\ pc \in {"lock", "check"} \cup ScanStep =>
         /\ downloaded = 0 /\ failed = 0 /\ placed = {} /\ lost = {}
         /\ wrote = {} /\ counted = {}
    /\ pc \in {"idle", "lock", "check"} \cup ScanStep => deleted = {}
    /\ pc = "plan" /\ first => wrote = {} /\ counted = {}
    /\ pc = "idle" => downloaded = 0 /\ failed = 0
    /\ pc # "idle" => run.status = "RUNNING"
    /\ queue \subseteq listed /\ skips \cup tasks \subseteq listed \ queue
    /\ skips \cap tasks = {}
    /\ victims \subseteq deleted \ listed

\* Every step keeps the run's variables in their place.
LEMMA ControlStep == TypeOK /\ ControlInv /\ [Next]_vars => ControlInv'
<1> SUFFICES ASSUME TypeOK, ControlInv, [Next]_vars PROVE ControlInv'
  OBVIOUS
<1> USE DEF TypeOK, AssetsOK, RunOK, ControlInv, ScanStep, remoteVars, libraryVars,
        diskVars, scanVars, batchVars, countVars, localVars, spaceVars, historyVars
<1>1. CASE CreateRun
  BY <1>1 DEF CreateRun
<1>2. CASE TakeLock
  BY <1>2 DEF TakeLock
<1>3. CASE CheckPasses
  BY <1>3 DEF CheckPasses
<1>4. ASSUME NEW l \in Library,
            \/ IterChanges(l) \/ NextCursor(l) \/ Relist(l) \/ ListAssets(l)
            \/ GetSyncCursor(l)
      PROVE  ControlInv'
  <2>1. pc \in ScanStep /\ pc' \in ScanStep
    BY <1>4 DEF IterChanges, NextCursor, Relist, ListAssets, GetSyncCursor
  <2>2. UNCHANGED <<run, deleted, batchVars, countVars, victims, toCommit, placed, lost,
                    spaceVars>>
    BY <1>4 DEF IterChanges, NextCursor, Relist, ListAssets, GetSyncCursor, Scans
  <2> QED
    BY <2>1, <2>2
<1>5. CASE ListRecentlyDeleted
  <2>1. skips = {} /\ tasks = {} /\ victims = {} /\ UNCHANGED <<skips, tasks, victims,
                                                                listed>>
    BY <1>5 DEF ListRecentlyDeleted
  <2>2. queue' = listed /\ pc' = "plan" /\ pc = "scan"
    BY <1>5 DEF ListRecentlyDeleted
  <2>3. UNCHANGED <<toCommit, run, countVars, placed, lost, spaceVars>>
    BY <1>5 DEF ListRecentlyDeleted
  <2> QED
    BY <2>1, <2>2, <2>3
<1>6. CASE PlanBatch
  BY <1>6 DEF PlanBatch, Take, Batch, Missing
<1>7. ASSUME NEW a \in Asset, Download(a) PROVE ControlInv'
  BY <1>7 DEF Download, Works
<1>8. ASSUME NEW a \in Asset, DownloadFails(a) PROVE ControlInv'
  BY <1>8 DEF DownloadFails, Works
<1>9. ASSUME NEW a \in Asset, PostprocessFails(a) PROVE ControlInv'
  BY <1>9 DEF PostprocessFails, Works
<1>10. ASSUME NEW a \in Asset, ProcessExisting(a) \/ ProcessExistingFails(a)
       PROVE  ControlInv'
  BY <1>10 DEF ProcessExisting, ProcessExistingFails, Works
<1>11. CASE EndBatch
  BY <1>11 DEF EndBatch
<1>12. CASE StartDeletions
  BY <1>12 DEF StartDeletions
<1>13. ASSUME NEW a \in Asset, DeleteFile(a) PROVE ControlInv'
  BY <1>13 DEF DeleteFile
<1>14. ASSUME NEW a \in Asset, DeletionFails(a) PROVE ControlInv'
  BY <1>14 DEF DeletionFails
<1>15. CASE StartCommits
  BY <1>15 DEF StartCommits
<1>16. ASSUME NEW l \in Library, UpdateLibraryCursor(l) PROVE ControlInv'
  BY <1>16 DEF UpdateLibraryCursor
<1>17. CASE LockRefused \/ RunRaises \/ RunDies \/ CheckFails \/ PlanRefused \/ Finish
  BY <1>17 DEF LockRefused, Fails, FinishRun, Forget, RunRaises, RunDies, CheckFails,
     PlanRefused, Finish
<1>18. CASE MountChanges
  BY <1>18 DEF MountChanges
<1>19. ASSUME NEW l \in Library, IntervalPasses(l) PROVE ControlInv'
  BY <1>19 DEF IntervalPasses
<1>20. ASSUME NEW a \in Asset, RemoteChange(a) \/ UserRemoves(a) PROVE ControlInv'
  BY <1>20 DEF RemoteChange, UserRemoves
<1>21. CASE UNCHANGED vars
  BY <1>21 DEF vars
<1> QED
  BY <1>1, <1>2, <1>3, <1>4, <1>5, <1>6, <1>7, <1>8, <1>9, <1>10, <1>11, <1>12, <1>13,
     <1>14, <1>15, <1>16, <1>17, <1>18, <1>19, <1>20, <1>21
     DEF Next

\* Finite sets of assets.
LEMMA AssetSets ==
  ASSUME NEW S \in SUBSET Asset
  PROVE  /\ IsFiniteSet(S) /\ Cardinality(S) \in Nat
         /\ Cardinality(S) = 0 <=> S = {}
  BY ConstantsAssumption, FS_Subset, FS_CardinalityType, FS_EmptySet

\* One asset more, one asset less.
LEMMA AddAsset ==
  ASSUME NEW S \in SUBSET Asset, NEW a \in Asset \ S
  PROVE  Cardinality(S \cup {a}) = Cardinality(S) + 1
  BY AssetSets, FS_AddElement

\* No asset is counted twice: neither a downloaded nor a failed one comes again.
CountInv ==
    /\ pc # "idle" => downloaded = Cardinality(placed) /\ failed = Cardinality(lost)
    /\ placed \cap (queue \cup skips \cup tasks) = {}
    /\ lost \cap (queue \cup skips \cup tasks \cup victims) = {}
    /\ RunRowsAreTrue

\* Every step keeps the counts.
LEMMA CountStep == TypeOK /\ ControlInv /\ CountInv /\ [Next]_vars => CountInv'
<1> SUFFICES ASSUME TypeOK, ControlInv, CountInv, [Next]_vars PROVE CountInv'
  OBVIOUS
<1> USE DEF TypeOK, AssetsOK, RunOK, ControlInv, CountInv, RunRowsAreTrue, CountsAll,
        ScanStep,
        remoteVars, libraryVars, diskVars, scanVars, batchVars, countVars, localVars, spaceVars,
        historyVars
<1>1. CASE CreateRun
  BY <1>1, FS_EmptySet DEF CreateRun
<1>2. CASE RunRaises
  <2>1. Cardinality(placed) = 0 /\ Cardinality(lost) = 0 <=> placed = {} /\ lost = {}
    BY AssetSets
  <2> QED
    BY <1>2, <2>1 DEF RunRaises, Fails, FinishRun, Forget
<1>3. CASE RunDies
  BY <1>3 DEF RunDies, Forget
<1>4. ASSUME NEW l \in Library,
            \/ IterChanges(l) \/ NextCursor(l) \/ Relist(l) \/ ListAssets(l)
            \/ GetSyncCursor(l)
      PROVE  CountInv'
  <2>1. pc \in ScanStep /\ pc' \in ScanStep
    BY <1>4 DEF IterChanges, NextCursor, Relist, ListAssets, GetSyncCursor
  <2>2. UNCHANGED <<run, batchVars, countVars, victims, placed, lost, died>>
    BY <1>4 DEF IterChanges, NextCursor, Relist, ListAssets, GetSyncCursor, Scans
  <2> QED
    BY <2>1, <2>2
<1>5. CASE ListRecentlyDeleted
  BY <1>5 DEF ListRecentlyDeleted
<1>6. CASE PlanBatch
  BY <1>6 DEF PlanBatch, Take, Batch, Missing
<1>7. ASSUME NEW a \in Asset, Download(a) PROVE CountInv'
  BY <1>7, AddAsset DEF Download, Works
<1>8. ASSUME NEW a \in Asset, DownloadFails(a) PROVE CountInv'
  BY <1>8, AddAsset DEF DownloadFails, Works
<1>9. ASSUME NEW a \in Asset, PostprocessFails(a) PROVE CountInv'
  BY <1>9, AddAsset DEF PostprocessFails, Works
<1>10. ASSUME NEW a \in Asset, ProcessExisting(a) \/ ProcessExistingFails(a)
       PROVE  CountInv'
  BY <1>10, AddAsset DEF ProcessExisting, ProcessExistingFails, Works
<1>11. CASE StartDeletions
  BY <1>11, AssetSets DEF StartDeletions
<1>12. ASSUME NEW a \in Asset, DeleteFile(a) PROVE CountInv'
  BY <1>12 DEF DeleteFile
<1>13. ASSUME NEW a \in Asset, DeletionFails(a) PROVE CountInv'
  BY <1>13, AddAsset DEF DeletionFails
<1>14. CASE StartCommits
  BY <1>14 DEF StartCommits
<1>15. ASSUME NEW l \in Library, UpdateLibraryCursor(l) PROVE CountInv'
  BY <1>15 DEF UpdateLibraryCursor
<1>16. CASE Finish
  BY <1>16, AssetSets DEF Finish, FinishRun, Forget
<1>17. CASE LockRefused \/ CheckFails \/ PlanRefused
  <2>1. Cardinality(placed) = 0 /\ Cardinality(lost) = 0 <=> placed = {} /\ lost = {}
    BY AssetSets
  <2> QED
    BY <1>17, <2>1 DEF LockRefused, Fails, FinishRun, Forget, CheckFails, PlanRefused
<1>18. CASE TakeLock \/ CheckPasses \/ EndBatch \/ MountChanges
  BY <1>18 DEF TakeLock, CheckPasses, EndBatch, MountChanges
<1>19. ASSUME NEW l \in Library, IntervalPasses(l) PROVE CountInv'
  BY <1>19 DEF IntervalPasses
<1>20. ASSUME NEW a \in Asset, RemoteChange(a) \/ UserRemoves(a) PROVE CountInv'
  BY <1>20 DEF RemoteChange, UserRemoves
<1>21. CASE UNCHANGED vars
  BY <1>21 DEF vars
<1> QED
  BY <1>1, <1>2, <1>3, <1>4, <1>5, <1>6, <1>7, <1>8, <1>9, <1>10, <1>11, <1>12, <1>13,
     <1>14, <1>15, <1>16, <1>17, <1>18, <1>19, <1>20, <1>21
     DEF Next

\* A COMPLETED or PARTIAL row counts what the run did, over all batches and deletions; a
\* FAILED row does so only when that is nothing; a row that is left RUNNING belongs to a
\* run that died (engine.py, run).
THEOREM RunRows == Spec => []RunRowsAreTrue
<1>1. Init => ControlInv /\ CountInv
  BY FS_EmptySet DEF Init, NoRun, ControlInv, CountInv, RunRowsAreTrue, CountsAll,
         ScanStep
<1>2. CountInv => RunRowsAreTrue
  BY DEF CountInv
<1> QED
  BY <1>1, <1>2, ControlStep, CountStep, TypeCorrect, PTL DEF Spec

\* Sets of blocks.
LEMMA BlockSets ==
  ASSUME NEW F, F \subseteq File
  PROVE  /\ BlocksOf(F) \in SUBSET Block
         /\ IsFiniteSet(BlocksOf(F)) /\ Cardinality(BlocksOf(F)) \in Nat
<1>1. BlocksOf(F) \in SUBSET Block
  BY ConstantsAssumption DEF BlocksOf
<1> QED
  BY <1>1, ConstantsAssumption, FS_Subset, FS_CardinalityType

\* The blocks of more files are more blocks.
LEMMA MoreBlocks ==
  ASSUME NEW E, NEW F, E \subseteq F
  PROVE  BlocksOf(E) \subseteq BlocksOf(F)
  BY DEF BlocksOf

\* The blocks of the files of two sets.
LEMMA BothBlocks ==
  ASSUME NEW E, NEW F
  PROVE  BlocksOf(E \cup F) = BlocksOf(E) \cup BlocksOf(F)
  BY DEF BlocksOf

\* A set of blocks that, taken, leaves minimum_free_space.
Spare(S) == S \in SUBSET Block /\ Capacity - Cardinality(S) >= Minimum

\* What the run has not written unforeseen lies, with all that was foreseen, in such a set.
Foreseen(S) ==
    /\ Spare(S)
    /\ BlocksOf(onMount) \subseteq S \cup BlocksOf(wrote \ counted)
    /\ BlocksOf(counted) \subseteq S
Working == {"plan", "download", "delete", "commit"} \cup ScanStep
SpaceInv == steady /\ pc \in Working => mounted /\ \E S \in SUBSET Block : Foreseen(S)

\* The set of the check before the scans is what the disk holds.
LEMMA CheckedSpace ==
  ASSUME TypeOK, ControlInv, CheckPasses
  PROVE  mounted' /\ \E S \in SUBSET Block : Foreseen(S)'
<1>1. mounted /\ Free >= Minimum /\ UNCHANGED <<mounted, onMount, wrote, counted>>
  BY DEF CheckPasses, Ready, diskVars, historyVars, spaceVars
<1>2. wrote = {} /\ counted = {}
  BY DEF CheckPasses, ControlInv
<1>3. BlocksOf(counted) = {}
  BY <1>2 DEF BlocksOf
<1>4. Spare(BlocksOf(onMount))
  BY <1>1, BlockSets DEF Spare, Free, TypeOK, AssetsOK
<1>5. Foreseen(BlocksOf(onMount))
  BY <1>3, <1>4 DEF Foreseen
<1>6. BlocksOf(onMount)' = BlocksOf(onMount) /\ BlocksOf(counted)' = BlocksOf(counted)
      /\ BlocksOf(wrote \ counted)' = BlocksOf(wrote \ counted)
  BY <1>1 DEF BlocksOf
<1>7. Foreseen(BlocksOf(onMount))'
  BY <1>5, <1>6 DEF Foreseen, Spare
<1> QED
  BY <1>1, <1>4, <1>5, <1>6 DEF Foreseen, Spare

\* The set of the check of the first batch holds its counted downloads as well.
LEMMA PlannedSpace ==
  ASSUME TypeOK, ControlInv, SpaceInv, PlanBatch, steady
  PROVE  mounted' /\ \E S \in SUBSET Block : Foreseen(S)'
<1>1. mounted /\ pc = "plan" /\ UNCHANGED <<mounted, onMount, wrote>>
  BY DEF SpaceInv, Working, PlanBatch, Take, diskVars
<1>2. PICK S \in SUBSET Block : Foreseen(S)
  BY <1>1 DEF SpaceInv, Working
<1>3. CASE ~first
  <2>1. counted' = counted
    BY <1>3 DEF PlanBatch, Take
  <2>2. Foreseen(S)'
    BY <1>1, <1>2, <2>1 DEF Foreseen, Spare, BlocksOf
  <2> QED
    BY <1>1, <2>2
<1>4. CASE first
  <2> DEFINE H == BlocksOf(onMount)
             K == BlocksOf(Missing(Batch(queue)) \cap Known)
  <2>1. counted' = Missing(Batch(queue)) \cap Known /\ wrote = {} /\ wrote' = {}
    BY <1>1, <1>4 DEF PlanBatch, Take, ControlInv
  <2>2. Fits(Missing(Batch(queue)))
    BY <1>1, <1>4 DEF PlanBatch
  <2>3. Missing(Batch(queue)) \cap Known \subseteq File /\ onMount \subseteq File
    BY ConstantsAssumption DEF TypeOK, AssetsOK
  <2>4. /\ IsFiniteSet(H) /\ Cardinality(H) \in Nat /\ H \in SUBSET Block
        /\ IsFiniteSet(K) /\ Cardinality(K) \in Nat /\ K \in SUBSET Block
    BY <2>3, BlockSets
  <2>5. Capacity - Cardinality(H) >= Minimum + Cardinality(K)
    BY <2>2 DEF Fits, Free
  <2>6. BlocksOf(onMount)' = H /\ BlocksOf(counted)' = K
    BY <1>1, <2>1 DEF BlocksOf
  <2> HIDE DEF H, K
  <2>7. /\ IsFiniteSet(H \cup K) /\ Cardinality(H \cup K) \in Nat
        /\ Cardinality(H \cup K) <= Cardinality(H) + Cardinality(K)
    <3>1. /\ IsFiniteSet(H \cup K) /\ Cardinality(H \cap K) \in Nat
          /\ Cardinality(H \cup K) = Cardinality(H) + Cardinality(K) - Cardinality(H \cap K)
      BY <2>4, FS_Union, FS_Intersection, FS_CardinalityType
    <3> QED
      BY <2>4, <3>1, FS_CardinalityType
  <2>8. Spare(H \cup K)
    BY <2>4, <2>5, <2>7, ConstantsAssumption DEF Spare
  <2>9. PICK S1 \in SUBSET Block : S1 = H \cup K
    BY <2>4
  <2>10. Foreseen(S1)'
    BY <2>6, <2>8, <2>9 DEF Foreseen, Spare
  <2> QED
    BY <1>1, <2>10
<1> QED
  BY <1>3, <1>4

\* A file that is put on the disk was foreseen, or is among the others afterwards.
LEMMA PutSpace ==
  ASSUME mounted, NEW F, Put(F), counted' = counted, NEW S \in SUBSET Block, Foreseen(S)
  PROVE  Foreseen(S)'
<1>1. onMount' = onMount \cup F /\ wrote' = wrote \cup F
  BY DEF Put
<1>2. BlocksOf(onMount)' = BlocksOf(onMount) \cup BlocksOf(F)
  BY <1>1, BothBlocks DEF BlocksOf
<1>3. BlocksOf(wrote \ counted) \subseteq BlocksOf(wrote \ counted)'
  BY <1>1 DEF BlocksOf
<1>4. BlocksOf(F) \subseteq BlocksOf(counted) \cup BlocksOf(wrote \ counted)'
  BY <1>1 DEF BlocksOf
<1>5. BlocksOf(counted)' = BlocksOf(counted)
  BY DEF BlocksOf
<1> QED
  BY <1>2, <1>3, <1>4, <1>5 DEF Foreseen, Spare

\* Fewer files need no other set.
LEMMA SameSpace ==
  ASSUME onMount' \subseteq onMount, UNCHANGED <<mounted, wrote, counted>>,
         mounted, NEW S \in SUBSET Block, Foreseen(S)
  PROVE  mounted' /\ \E T \in SUBSET Block : Foreseen(T)'
<1>1. BlocksOf(onMount)' \subseteq BlocksOf(onMount)
  BY DEF BlocksOf
<1>2. /\ BlocksOf(wrote \ counted)' = BlocksOf(wrote \ counted)
      /\ BlocksOf(counted)' = BlocksOf(counted)
  BY DEF BlocksOf
<1>3. Foreseen(S)'
  BY <1>1, <1>2 DEF Foreseen, Spare
<1> QED
  BY <1>3

\* The steps that write no files, and change neither the mount nor the estimate, unless
\* the run ends, begins or checks.
LEMMA QuietStep ==
  ASSUME TypeOK, ControlInv, [Next]_vars, pc' \in Working, steady', ~CheckPasses, ~PlanBatch,
         \A a \in Asset : ~Download(a) /\ ~PostprocessFails(a) /\ ~ProcessExisting(a)
  PROVE  /\ pc \in Working /\ steady /\ onMount' \subseteq onMount
         /\ UNCHANGED <<mounted, wrote, counted>>
<1> USE DEF Working, ScanStep, diskVars, spaceVars, historyVars
<1>1. CASE
       \/ CreateRun \/ TakeLock \/ LockRefused \/ RunRaises \/ RunDies \/ CheckFails
       \/ PlanRefused \/ Finish \/ MountChanges
  BY <1>1 DEF CreateRun, TakeLock, LockRefused, RunRaises, RunDies, CheckFails,
     PlanRefused, Finish, MountChanges, Fails, FinishRun
<1>2. CASE ListRecentlyDeleted \/ EndBatch \/ StartDeletions \/ StartCommits
  BY <1>2 DEF ListRecentlyDeleted, EndBatch, StartDeletions, StartCommits
<1>3. ASSUME NEW l \in Library,
            \/ IterChanges(l) \/ NextCursor(l) \/ Relist(l) \/ ListAssets(l)
            \/ GetSyncCursor(l) \/ UpdateLibraryCursor(l) \/ IntervalPasses(l)
      PROVE  /\ pc \in Working /\ steady /\ onMount' \subseteq onMount
             /\ UNCHANGED <<mounted, wrote, counted>>
  BY <1>3 DEF IterChanges, NextCursor, Relist, ListAssets, GetSyncCursor, Scans,
     UpdateLibraryCursor, IntervalPasses
<1>4. ASSUME NEW a \in Asset,
            \/ ProcessExistingFails(a) \/ DownloadFails(a) \/ DeleteFile(a)
            \/ DeletionFails(a) \/ RemoteChange(a) \/ UserRemoves(a)
      PROVE  /\ pc \in Working /\ steady /\ onMount' \subseteq onMount
             /\ UNCHANGED <<mounted, wrote, counted>>
  BY <1>4 DEF ProcessExistingFails, DownloadFails, Works, DeleteFile, DeletionFails,
     RemoteChange, UserRemoves
<1>5. CASE UNCHANGED vars
  BY <1>5 DEF vars
<1> QED
  BY <1>1, <1>2, <1>3, <1>4, <1>5 DEF Next

\* Every step keeps what was foreseen in its set.
LEMMA SpaceStep == TypeOK /\ ControlInv /\ SpaceInv /\ [Next]_vars => SpaceInv'
<1> SUFFICES ASSUME TypeOK, ControlInv, SpaceInv, [Next]_vars, steady', pc' \in Working
             PROVE  mounted' /\ \E S \in SUBSET Block : Foreseen(S)'
  BY DEF SpaceInv, Working
<1>1. CASE CheckPasses
  BY <1>1, CheckedSpace
<1>2. CASE PlanBatch
  <2>1. steady
    BY <1>2 DEF PlanBatch, Take
  <2> QED
    BY <1>2, <2>1, PlannedSpace
<1>3. ASSUME NEW a \in Asset, Download(a) \/ PostprocessFails(a) \/ ProcessExisting(a)
      PROVE  mounted' /\ \E S \in SUBSET Block : Foreseen(S)'
  <2>1. pc = "download" /\ steady /\ UNCHANGED <<mounted, counted>>
    BY <1>3 DEF Download, PostprocessFails, ProcessExisting, Works
  <2>2. PICK F : Put(F)
    BY <1>3 DEF Download, PostprocessFails, ProcessExisting
  <2>3. mounted /\ \E S \in SUBSET Block : Foreseen(S)
    BY <2>1 DEF SpaceInv, Working
  <2>4. PICK S \in SUBSET Block : Foreseen(S)
    BY <2>3
  <2>5. Foreseen(S)'
    BY <2>1, <2>2, <2>3, <2>4, PutSpace
  <2> QED
    BY <2>1, <2>3, <2>5
<1>4. ASSUME ~CheckPasses, ~PlanBatch,
             \A a \in Asset : ~Download(a) /\ ~PostprocessFails(a) /\ ~ProcessExisting(a)
      PROVE  mounted' /\ \E S \in SUBSET Block : Foreseen(S)'
  <2>1. /\ pc \in Working /\ steady /\ onMount' \subseteq onMount
        /\ UNCHANGED <<mounted, wrote, counted>>
    BY <1>4, QuietStep
  <2>2. mounted /\ \E S \in SUBSET Block : Foreseen(S)
    BY <2>1 DEF SpaceInv
  <2>3. PICK S \in SUBSET Block : Foreseen(S)
    BY <2>2
  <2> QED
    BY <2>1, <2>2, <2>3, SameSpace
<1> QED
  BY <1>1, <1>2, <1>3, <1>4

\* Of minimum_free_space a run that keeps its mount takes no more than the bytes it wrote
\* and had not counted beforehand (engine.py, _precheck and _check_plan_space).
THEOREM MinimumSpace == Spec => []MinimumSpaceIsKept
<1>1. Init => ControlInv /\ SpaceInv
  BY DEF Init, NoRun, ControlInv, SpaceInv, Working, ScanStep
<1>2. TypeOK /\ SpaceInv => MinimumSpaceIsKept
  <2> SUFFICES ASSUME TypeOK, SpaceInv, steady, pc \in Working
               PROVE  Free + Cardinality(BlocksOf(wrote \ counted)) >= Minimum
    BY DEF MinimumSpaceIsKept, Working
  <2> DEFINE H == BlocksOf(onMount)
             W == BlocksOf(wrote \ counted)
  <2>1. PICK S \in SUBSET Block : Foreseen(S)
    BY DEF SpaceInv
  <2>2. onMount \subseteq File /\ wrote \ counted \subseteq File
    BY DEF TypeOK, AssetsOK
  <2>3. /\ IsFiniteSet(H) /\ Cardinality(H) \in Nat
        /\ IsFiniteSet(W) /\ Cardinality(W) \in Nat
    BY <2>2, BlockSets
  <2>4. /\ IsFiniteSet(S) /\ Cardinality(S) \in Nat /\ H \subseteq S \cup W
        /\ Capacity - Cardinality(S) >= Minimum
    BY <2>1, ConstantsAssumption, FS_Subset, FS_CardinalityType DEF Foreseen, Spare
  <2> HIDE DEF H, W
  <2>5. Cardinality(H) <= Cardinality(S \cup W)
    BY <2>3, <2>4, FS_Union, FS_Subset
  <2>6. Cardinality(S \cup W) = Cardinality(S) + Cardinality(W) - Cardinality(S \cap W)
    BY <2>3, <2>4, FS_Union
  <2>7. Cardinality(S \cap W) \in Nat
    BY <2>4, FS_Intersection, FS_CardinalityType
  <2> QED
    BY <2>3, <2>4, <2>5, <2>6, <2>7, ConstantsAssumption DEF Free, H, W
<1> QED
  BY <1>1, <1>2, ControlStep, SpaceStep, TypeCorrect, PTL DEF Spec

\* What a listed asset can still hope for, and what a cursor certifies.
BoundInv ==
    \A l \in Library :
      /\ cursor[l] # NoCursor => cursor[l] <= version[l]
      /\ next[l] # NoCursor => next[l] <= version[l]
CoverInv ==
    /\ BoundInv
    /\ \A a \in deleted :
         \/ cursor[LibraryOf[a]] = version[LibraryOf[a]]
         \/ next[LibraryOf[a]] = version[LibraryOf[a]]
         => remote[a] # "active"
    /\ \A k, l \in current : k = l
    /\ \A l \in Library :
         /\ next[l] = version[l] /\ ~(pc = "relist" /\ l \in current) =>
              ActiveIn(l) \subseteq listed \cup onMount \cup gaps
         /\ pc = "unchanged" /\ l \in current /\ cursor[l] = version[l] =>
              ActiveIn(l) \subseteq onMount \cup gaps
    /\ pc \in {"plan", "download", "delete", "commit"} =>
         listed \subseteq queue \cup tasks \cup lost \cup onMount \cup gaps
    /\ toCommit # {} => lost = {}
    /\ LeftOutAssetsAreBackedUp

\* Every step keeps the cursors behind the library.
LEMMA BoundStep == TypeOK /\ BoundInv /\ [Next]_vars => BoundInv'
<1> SUFFICES ASSUME TypeOK, BoundInv, [Next]_vars PROVE BoundInv'
  OBVIOUS
<1> USE ConstantsAssumption DEF TypeOK, RemoteOK, CursorsOK, Cursor, BoundInv,
        remoteVars, libraryVars, diskVars, scanVars, batchVars, countVars, localVars,
        spaceVars, historyVars
<1>1. ASSUME NEW l \in Library, NextCursor(l) PROVE BoundInv'
  BY <1>1 DEF NextCursor, Scans
<1>2. ASSUME NEW l \in Library, GetSyncCursor(l) PROVE BoundInv'
  BY <1>2 DEF GetSyncCursor, Scans
<1>3. ASSUME NEW l \in Library, UpdateLibraryCursor(l) PROVE BoundInv'
  BY <1>3 DEF UpdateLibraryCursor
<1>4. ASSUME NEW a \in Asset, RemoteChange(a) PROVE BoundInv'
  BY <1>4 DEF RemoteChange
<1>5. CASE LockRefused \/ RunRaises \/ RunDies \/ CheckFails \/ PlanRefused \/ Finish
  BY <1>5 DEF LockRefused, Fails, FinishRun, Forget, RunRaises, RunDies, CheckFails,
     PlanRefused, Finish
<1>6. CASE
       \/ CreateRun \/ TakeLock \/ CheckPasses \/ ListRecentlyDeleted \/ PlanBatch
       \/ EndBatch \/ StartDeletions \/ StartCommits \/ MountChanges
  BY <1>6 DEF CreateRun, TakeLock, CheckPasses, ListRecentlyDeleted, PlanBatch, Take,
     EndBatch, StartDeletions, StartCommits, MountChanges
<1>7. ASSUME NEW l \in Library,
            IterChanges(l) \/ Relist(l) \/ ListAssets(l) \/ IntervalPasses(l)
      PROVE  BoundInv'
  BY <1>7 DEF IterChanges, Relist, ListAssets, Scans, IntervalPasses
<1>8. ASSUME NEW a \in Asset,
            \/ ProcessExisting(a) \/ ProcessExistingFails(a) \/ Download(a)
            \/ DownloadFails(a) \/ PostprocessFails(a) \/ DeleteFile(a)
            \/ DeletionFails(a) \/ UserRemoves(a)
     PROVE  BoundInv'
  BY <1>8 DEF ProcessExisting, ProcessExistingFails, Download, DownloadFails,
     PostprocessFails, Works, DeleteFile, DeletionFails, UserRemoves
<1>9. CASE UNCHANGED vars
  BY <1>9 DEF vars
<1> QED
  BY <1>1, <1>2, <1>3, <1>4, <1>5, <1>6, <1>7, <1>8, <1>9
     DEF Next

\* Every step keeps listed assets in sight.
LEMMA CoverStep ==
  TypeOK /\ ControlInv /\ CountInv /\ CoverInv /\ [Next]_vars => CoverInv'
<1> SUFFICES ASSUME TypeOK, ControlInv, CountInv, CoverInv, [Next]_vars PROVE CoverInv'
  OBVIOUS
<1> USE ConstantsAssumption, BoundStep DEF TypeOK, RemoteOK, CursorsOK, AssetsOK, RunOK,
        Cursor, ControlInv, CoverInv, LeftOutAssetsAreBackedUp, LeftOut, ActiveIn,
        remoteVars, libraryVars, diskVars, scanVars, batchVars, countVars, localVars,
        spaceVars, historyVars
<1>1. CASE CreateRun
  BY <1>1 DEF CreateRun
<1>2. CASE RunDies
  BY <1>2 DEF RunDies, Forget
<1>3. ASSUME NEW l \in Library, IterChanges(l) PROVE CoverInv'
  <2>1. /\ UNCHANGED <<version, remote, cursor, next, fullDue, listed, onMount>>
        /\ UNCHANGED <<lost, toCommit, deleted, gaps>> /\ deleted = {}
    BY <1>3 DEF IterChanges, Scans
  <2>2. /\ pc = "scan" /\ current' = {l} /\ pc' \in {"unchanged", "changed"}
        /\ cursor[l] = version[l] => LeftOut(l)
    BY <1>3 DEF IterChanges, UseFull
  <2>3. BoundInv' /\ LeftOutAssetsAreBackedUp'
    BY <1>3, <2>1
  <2> QED
    BY <2>1, <2>2, <2>3
<1>4. ASSUME NEW l \in Library, NextCursor(l) PROVE CoverInv'
  <2>1. /\ UNCHANGED <<version, remote, cursor, fullDue, listed, onMount>>
        /\ UNCHANGED <<lost, toCommit, deleted>> /\ deleted = {} /\ gaps \subseteq gaps'
    BY <1>4 DEF NextCursor, Scans
  <2>2. /\ next' = [next EXCEPT ![l] = version[l]] /\ l \in current
        /\ current' \subseteq current /\ pc' \in {"scan", "relist"}
        /\ pc' = "relist" => current' = current /\ pc = "changed"
        /\ pc' = "scan" => /\ pc = "unchanged"
                           /\ gaps' = IF cursor[l] = version[l] THEN gaps
                                      ELSE gaps \cup (ActiveIn(l) \ onMount)
    BY <1>4 DEF NextCursor
  <2>3. pc' = "scan" => ActiveIn(l) \subseteq onMount \cup gaps'
    BY <2>2
  <2>4. BoundInv' /\ LeftOutAssetsAreBackedUp'
    BY <1>4, <2>1
  <2>5. ASSUME NEW k \in Library, next'[k] = version[k], ~(pc' = "relist" /\ k \in current')
        PROVE  ActiveIn(k) \subseteq listed \cup onMount \cup gaps'
    <3>1. CASE k = l
      BY <2>2, <2>3, <2>5, <3>1
    <3>2. CASE k # l
      BY <2>1, <2>2, <2>5, <3>2
    <3> QED
      BY <3>1, <3>2
  <2> QED
    BY <2>1, <2>2, <2>4, <2>5
<1>5. ASSUME NEW l \in Library, Relist(l) PROVE CoverInv'
  BY <1>5 DEF Relist, Scans
<1>6. ASSUME NEW l \in Library, ListAssets(l) \/ GetSyncCursor(l) PROVE CoverInv'
  BY <1>6 DEF ListAssets, GetSyncCursor, Scans
<1>7. CASE ListRecentlyDeleted
  BY <1>7 DEF ListRecentlyDeleted
<1>8. CASE PlanBatch
  BY <1>8 DEF PlanBatch, Take, Missing, IsComplete, Visible
<1>9. ASSUME NEW a \in Asset,
            \/ ProcessExisting(a) \/ ProcessExistingFails(a) \/ Download(a)
            \/ DownloadFails(a) \/ PostprocessFails(a)
      PROVE  CoverInv'
  <2>1. /\ UNCHANGED <<remote, version, cursor, fullDue, next, current, listed, deleted,
                       pc>>
        /\ UNCHANGED <<toCommit, queue>> /\ pc = "download" /\ toCommit = {}
    BY <1>9 DEF ProcessExisting, ProcessExistingFails, Download, DownloadFails,
       PostprocessFails, Works
  <2>2. onMount \cup gaps \subseteq onMount' \cup gaps'
    BY <1>9 DEF ProcessExisting, ProcessExistingFails, Download, DownloadFails,
       PostprocessFails, Put
  <2>3. listed \subseteq queue \cup tasks' \cup lost' \cup onMount' \cup gaps'
    <3>1. tasks \subseteq tasks' \cup lost' \cup onMount' \cup gaps' /\ lost \subseteq lost'
      BY <1>9 DEF ProcessExisting, ProcessExistingFails, Download, DownloadFails,
         PostprocessFails, Put
    <3> QED
      BY <2>1, <2>2, <3>1
  <2>4. BoundInv' /\ LeftOutAssetsAreBackedUp'
    BY <1>9, <2>1, <2>2
  <2> QED
    BY <2>1, <2>2, <2>3, <2>4
<1>10. CASE EndBatch
  BY <1>10 DEF EndBatch
<1>11. CASE StartDeletions
  BY <1>11 DEF StartDeletions
<1>12. ASSUME NEW a \in Asset, DeleteFile(a) PROVE CoverInv'
  BY <1>12 DEF DeleteFile
<1>13. ASSUME NEW a \in Asset, DeletionFails(a) PROVE CoverInv'
  BY <1>13 DEF DeletionFails
<1>14. CASE StartCommits
  <2>1. toCommit' # {} => lost = {}
    BY <1>14, AssetSets DEF StartCommits, CountInv
  <2> QED
    BY <1>14, <2>1 DEF StartCommits
<1>15. ASSUME NEW l \in Library, UpdateLibraryCursor(l) PROVE CoverInv'
  BY <1>15 DEF UpdateLibraryCursor
<1>16. ASSUME NEW a \in Asset, RemoteChange(a) PROVE CoverInv'
  <2>1. /\ UNCHANGED <<cursor, fullDue, onMount, pc, current, queue, tasks, lost, toCommit>>
        /\ UNCHANGED <<next, listed, deleted, gaps>>
        /\ \A b \in Asset : b # a => remote'[b] = remote[b]
        /\ \A k \in Library :
             version'[k] = IF k = LibraryOf[a] THEN version[k] + 1 ELSE version[k]
    <3>1. /\ UNCHANGED <<cursor, fullDue, onMount, pc, current, queue, tasks, lost,
                         toCommit>>
          /\ UNCHANGED <<next, listed, deleted, gaps>>
      BY <1>16 DEF RemoteChange
    <3>2. \A b \in Asset : b # a => remote'[b] = remote[b]
      BY <1>16 DEF RemoteChange
    <3>3. version' = [version EXCEPT ![LibraryOf[a]] = version[LibraryOf[a]] + 1]
      BY <1>16 DEF RemoteChange
    <3> QED
      BY <3>1, <3>2, <3>3
  <2>2. /\ cursor[LibraryOf[a]] # version'[LibraryOf[a]]
        /\ next[LibraryOf[a]] # version'[LibraryOf[a]]
    <3>1. /\ LibraryOf[a] \in Library /\ version[LibraryOf[a]] \in Nat
          /\ cursor[LibraryOf[a]] \in Nat \cup {NoCursor}
          /\ next[LibraryOf[a]] \in Nat \cup {NoCursor}
          /\ version'[LibraryOf[a]] = version[LibraryOf[a]] + 1
      BY <2>1
    <3> QED
      BY <3>1 DEF BoundInv
  <2>3. ASSUME NEW k \in Library, k # LibraryOf[a]
        PROVE  version'[k] = version[k] /\ ActiveIn(k)' = ActiveIn(k)
    BY <2>1, <2>3
  <2> HIDE DEF ActiveIn
  <2>4. LeftOutAssetsAreBackedUp'
    BY <2>1, <2>2, <2>3
  <2>5. \A k \in Library :
          /\ next[k] = version'[k] /\ ~(pc = "relist" /\ k \in current) =>
               ActiveIn(k)' \subseteq listed \cup onMount \cup gaps
          /\ pc = "unchanged" /\ k \in current /\ cursor[k] = version'[k] =>
               ActiveIn(k)' \subseteq onMount \cup gaps
    BY <2>1, <2>2, <2>3
  <2>6. \A b \in deleted :
          \/ cursor[LibraryOf[b]] = version'[LibraryOf[b]]
          \/ next[LibraryOf[b]] = version'[LibraryOf[b]]
          => remote'[b] # "active"
    BY <2>1, <2>2
  <2> QED
    BY <2>1, <2>4, <2>5, <2>6
<1>17. ASSUME NEW a \in Asset, UserRemoves(a) PROVE CoverInv'
  BY <1>17 DEF UserRemoves
<1>18. ASSUME NEW l \in Library, IntervalPasses(l) PROVE CoverInv'
  BY <1>18 DEF IntervalPasses
<1>19. CASE LockRefused \/ RunRaises \/ CheckFails \/ PlanRefused \/ Finish
  BY <1>19 DEF LockRefused, Fails, FinishRun, Forget, RunRaises, CheckFails,
     PlanRefused, Finish
<1>20. CASE TakeLock \/ CheckPasses \/ MountChanges
  BY <1>20 DEF TakeLock, CheckPasses, MountChanges
<1>21. CASE UNCHANGED vars
  BY <1>21 DEF vars
<1> QED
  BY <1>1, <1>2, <1>3, <1>4, <1>5, <1>6, <1>7, <1>8, <1>9, <1>10, <1>11, <1>12, <1>13,
     <1>14, <1>15, <1>16, <1>17, <1>18, <1>19, <1>20, <1>21
     DEF Next

\* Every active asset of a library that the next run will leave out has its file on the
\* photo disk, wherever among the commits a run ended (engine.py, run).
THEOREM LeftOutAssets == Spec => []LeftOutAssetsAreBackedUp
<1>1. Init => ControlInv /\ CountInv /\ CoverInv
  BY FS_EmptySet, ConstantsAssumption
     DEF Init, NoRun, ControlInv, CountInv, RunRowsAreTrue, CountsAll, ScanStep, CoverInv,
         BoundInv,
         LeftOutAssetsAreBackedUp, LeftOut
<1>2. CoverInv => LeftOutAssetsAreBackedUp
  BY DEF CoverInv
<1> QED
  BY <1>1, <1>2, ControlStep, CountStep, CoverStep, TypeCorrect, PTL DEF Spec
=============================================================================
