------------------------- MODULE FileOwnershipProofs -------------------------
(***************************************************************************)
(* Proofs about FileOwnership, for any assets, paths, sizes and users'     *)
(* files, whatever names the assets have in common.  The other assets      *)
(* reserve fewer paths than an asset has numbered conflict paths, so the   *)
(* loop of _conflict_path ends at a path that is free (ConflictIsFree),    *)
(* and a plan keeps its paths apart (PlanInv).  From the preflight to the  *)
(* unlink the row and the file of the victim stay as they were             *)
(* (DeletionInv).                                                          *)
(***************************************************************************)
EXTENDS FileOwnership, TLAPS, FiniteSetTheorems, WellFoundedInduction

\* The planner takes the first number that is free; there is a first.
LEMMA FirstNumber ==
  ASSUME NEW S \in SUBSET Nat, S # {}
  PROVE  Min(S) \in S
<1> DEFINE R == {ss \in Nat \X Nat : ss[1] < ss[2]}
<1>1. IsWellFoundedOn(R, Nat)
  BY NatLessThanWellFounded DEF OpToRel
<1>2. PICK n \in S : \A m \in S : ~(<<m, n>> \in R)
  <2> HIDE DEF R
  <2> QED
    BY <1>1, WFMin
<1>3. ASSUME NEW m \in S PROVE n <= m
  <2>1. m \in Nat /\ n \in Nat /\ ~(<<m, n>> \in R)
    BY <1>2
  <2>2. <<m, n>> \in Nat \X Nat /\ (<<m, n>>)[1] = m /\ (<<m, n>>)[2] = n
    BY <2>1
  <2> QED
    BY <2>1, <2>2
<1> QED
  BY <1>3 DEF Min

\* _conflict_path ends, at a path that no other asset of the plan has: there are more
\* numbers than other assets.
LEMMA ConflictIsFree ==
  ASSUME TypeOK, NEW a \in Asset
  PROVE  ConflictPath(a) \in Path /\ ~ReservedByOther(a, ConflictPath(a))
<1> DEFINE numbers == 1..Cardinality(Asset)
           others == Asset \ {a}
           holder == [n \in numbers |-> CHOOSE b \in others : reserved[b] = Conflict[a][n]]
<1>1. /\ Cardinality(Asset) \in Nat /\ IsFiniteSet(others)
      /\ Cardinality(others) = Cardinality(Asset) - 1
  <2>1. IsFiniteSet(Asset)
    BY ConstantsAssumption
  <2> QED
    BY <2>1, FS_CardinalityType, FS_RemoveElement
<1>2. IsFiniteSet(numbers) /\ Cardinality(numbers) = Cardinality(Asset)
  <2>1. /\ IsFiniteSet(1..Cardinality(Asset))
        /\ Cardinality(1..Cardinality(Asset)) =
             IF 1 > Cardinality(Asset) THEN 0 ELSE Cardinality(Asset) - 1 + 1
    BY <1>1, FS_Interval
  <2> QED
    BY <1>1, <2>1
<1>3. Cardinality(others) < Cardinality(numbers)
  <2> HIDE DEF others, numbers
  <2> QED
    BY <1>1, <1>2
<1>4. /\ \A n \in numbers : Conflict[a][n] \in Path
      /\ \A m, n \in numbers : Conflict[a][m] = Conflict[a][n] => m = n
  <2>1. Conflict[a] \in [numbers -> Path]
    BY ConstantsAssumption
  <2> QED
    BY <2>1, ConstantsAssumption
<1>5. FreeNumbers(a) # {}
  <2> SUFFICES ASSUME FreeNumbers(a) = {} PROVE FALSE
    OBVIOUS
  <2>1. \A n \in numbers : \E b \in others : reserved[b] = Conflict[a][n]
    BY DEF FreeNumbers, ReservedByOther
  <2>2. \A n \in numbers : holder[n] \in others /\ reserved[holder[n]] = Conflict[a][n]
    BY <2>1
  <2>3. holder \in [numbers -> others]
    BY <2>2
  <2>4. PICK m, n \in numbers : m # n /\ holder[m] = holder[n]
    <3> HIDE DEF holder, numbers, others
    <3> QED
      BY <1>1, <1>2, <1>3, <2>3, FS_PigeonHole
  <2> HIDE DEF holder, numbers
  <2> QED
    BY <1>4, <2>2, <2>4
<1>6. Min(FreeNumbers(a)) \in FreeNumbers(a)
  <2>1. FreeNumbers(a) \in SUBSET Nat
    BY <1>1 DEF FreeNumbers
  <2> QED
    BY <1>5, <2>1, FirstNumber
<1>7. \A n \in FreeNumbers(a) : Conflict[a][n] \in Path /\ ~ReservedByOther(a, Conflict[a][n])
  BY <1>4 DEF FreeNumbers
<1> QED
  BY <1>6, <1>7 DEF ConflictPath

\* The fields of a task.
LEMMA TaskType ==
  ASSUME NEW a \in Asset, NEW p \in Path, NEW repair \in BOOLEAN, NEW recorded \in BOOLEAN
  PROVE  [asset |-> a, path |-> p, repair |-> repair, recorded |-> recorded] \in Task
  BY DEF Task

\* The other way round.
LEMMA TaskFields ==
  ASSUME NEW t \in Task
  PROVE  /\ t.asset \in Asset /\ t.path \in Path
         /\ t.repair \in BOOLEAN /\ t.recorded \in BOOLEAN
  BY DEF Task

\* Recording changes one field only.
LEMMA RecordedTask ==
  ASSUME NEW t \in Task
  PROVE  /\ Recorded(t) \in Task
         /\ Recorded(t).asset = t.asset /\ Recorded(t).path = t.path
         /\ Recorded(t).repair = t.repair
  BY TaskFields, TaskType DEF Recorded

\* A planned download is a task.
LEMMA DownloadType ==
  ASSUME NEW a \in Asset, NEW p \in Path, NEW repair \in BOOLEAN, TasksOK,
         Download(a, p, repair)
  PROVE  TasksOK'
  BY TaskType DEF Download, TasksOK

\* Reserving a path keeps the reservations' type.
LEMMA ReserveType ==
  ASSUME NEW a \in Asset, NEW p \in Path, RunOK, Reserve(a, p)
  PROVE  reserved' \in [Asset -> Path \cup {NoPath}]
  BY DEF Reserve, RunOK

\* Which of the run's variables are in use at which step, and whose rows exist.
ControlInv ==
    /\ pc \notin {"plan", "download"} => tasks = {}
    /\ pc \notin {"scanned", "plan"} => queue = {}
    /\ pc \in {"delete", "unlink", "mark"} => victims \subseteq deleted \ active
    /\ pc \notin {"delete", "unlink", "mark"} => victims = {}
    /\ pc \in {"unlink", "mark"} => victim \in deleted \ active /\ row[victim] # NoRow
    /\ \A a \in victims : row[a] # NoRow

\* Every step keeps the types.
LEMMA TypeStep == TypeOK /\ ControlInv /\ [Next]_vars => TypeOK'
<1> SUFFICES ASSUME TypeOK, ControlInv, [Next]_vars PROVE TypeOK'
  OBVIOUS
<1> USE ConstantsAssumption DEF TypeOK, WorldOK, DiskOK, RowsOK, RunOK, TasksOK, Row,
        RowStatus, Task, Content, ControlInv, remoteVars, diskVars, planVars,
        deletionVars
<1>1. CASE Scan
  BY <1>1 DEF Scan, Newest, In
<1>2. CASE ListRecentlyDeleted
  BY <1>2 DEF ListRecentlyDeleted, In
<1>3. ASSUME NEW a \in Asset, PlanTracked(a) PROVE TypeOK'
  <2> ConflictPath(a) \in Path
    BY ConflictIsFree
  <2>6. PICK p \in Path : Reserve(a, p)
    BY <1>3 DEF PlanTracked, Download
  <2>1. WorldOK' /\ DiskOK'
    BY <1>3 DEF PlanTracked, Planning, Download, Reserve
  <2>2. RowsOK'
    BY <1>3 DEF PlanTracked, Planning, Download, Reserve
  <2>3. RunOK'
    BY <1>3, <2>6, ReserveType DEF PlanTracked, Planning
  <2>4. TasksOK'
    <3> HIDE DEF Task
    <3>1. CASE Download(a, ConflictPath(a), TRUE)
      BY <3>1, DownloadType
    <3>2. CASE Download(a, row[a].path, TRUE) /\ row[a] # NoRow
      BY <3>2, DownloadType
    <3> QED
      BY <1>3, <3>1, <3>2 DEF PlanTracked
  <2>5. failed' \in BOOLEAN
    BY <1>3 DEF PlanTracked, Planning, Download, Reserve
  <2> QED
    BY <2>1, <2>2, <2>3, <2>4, <2>5
<1>4. ASSUME NEW a \in Asset, PlanUntracked(a) PROVE TypeOK'
  <2> UntrackedPath(a) \in Path
    BY ConflictIsFree DEF UntrackedPath
  <2>6. Reserve(a, UntrackedPath(a))
    BY <1>4 DEF PlanUntracked, Download
  <2>1. WorldOK' /\ DiskOK'
    BY <1>4 DEF PlanUntracked, Planning, Download
  <2>2. RowsOK'
    <3>1. CASE UNCHANGED row
      BY <3>1
    <3>2. CASE /\ disk[UntrackedPath(a)] # NoFile
               /\ row' = [row EXCEPT ![a] =
                            [path |-> UntrackedPath(a), content |-> disk[UntrackedPath(a)],
                             status |-> "VERIFIED"]]
      BY <3>2
    <3> QED
      BY <1>4, <3>1, <3>2 DEF PlanUntracked, Download
  <2>3. RunOK'
    BY <1>4, <2>6, ReserveType DEF PlanUntracked, Planning
  <2>4. TasksOK'
    <3> HIDE DEF Task
    <3>2. CASE Download(a, UntrackedPath(a), FALSE)
      BY <3>2, DownloadType
    <3> QED
      BY <1>4, <3>2 DEF PlanUntracked
  <2>5. failed' \in BOOLEAN
    BY <1>4 DEF PlanUntracked, Planning, Download, Reserve, UntrackedPath
  <2> QED
    BY <2>1, <2>2, <2>3, <2>4, <2>5
<1>5. CASE StartDownloads
  BY <1>5 DEF StartDownloads
<1>6. ASSUME NEW t \in tasks, RecordDownload(t) PROVE TypeOK'
  <2>1. WorldOK' /\ DiskOK'
    BY <1>6 DEF RecordDownload, Recorded
  <2>2. RowsOK'
    BY <1>6 DEF RecordDownload, Recorded
  <2>3. RunOK'
    BY <1>6 DEF RecordDownload, Recorded
  <2>4. TasksOK'
    <3> HIDE DEF Task
    <3> QED
      BY <1>6, RecordedTask DEF RecordDownload
  <2>5. failed' \in BOOLEAN
    BY <1>6 DEF RecordDownload, Recorded
  <2> QED
    BY <2>1, <2>2, <2>3, <2>4, <2>5
<1>7. ASSUME NEW t \in tasks, Replace(t) PROVE TypeOK'
  BY <1>7 DEF Replace
<1>8. CASE StartDeletions
  BY <1>8 DEF StartDeletions, Managed
<1>9. ASSUME NEW a \in Asset, RefuseDeletion(a) PROVE TypeOK'
  BY <1>9 DEF RefuseDeletion
<1>10. ASSUME NEW a \in Asset, PrepareDeletion(a) PROVE TypeOK'
  BY <1>10 DEF PrepareDeletion, SetStatus
<1>11. CASE Unlink
  BY <1>11 DEF Unlink
<1>12. CASE MarkDeleted
  BY <1>12 DEF MarkDeleted, SetStatus
<1>13. CASE Finish
  BY <1>13 DEF Finish
<1>14. ASSUME NEW t \in tasks, DownloadFails(t) PROVE TypeOK'
  BY <1>14 DEF DownloadFails, Event
<1>15. CASE UnlinkFails
  BY <1>15 DEF UnlinkFails, SetStatus, Event
<1>16. CASE Crash
  <2>1. WorldOK' /\ DiskOK'
    BY <1>16 DEF Crash, Event
  <2>2. RowsOK'
    BY <1>16 DEF Crash, Event
  <2>3. RunOK'
    BY <1>16 DEF Crash, Event
  <2>4. TasksOK'
    BY <1>16 DEF Crash
  <2>5. failed' \in BOOLEAN
    BY <1>16 DEF Crash, Event
  <2> QED
    BY <2>1, <2>2, <2>3, <2>4, <2>5
<1>17. ASSUME NEW a \in Asset, RemoteChange(a) PROVE TypeOK'
  BY <1>17 DEF RemoteChange, Event
<1>18. ASSUME NEW p \in Path, NEW c \in UserContent, UserPuts(p, c) PROVE TypeOK'
  BY <1>18 DEF UserPuts, Event
<1>19. ASSUME NEW p \in Path, UserRemoves(p) PROVE TypeOK'
  BY <1>19 DEF UserRemoves, Event
<1>20. CASE UserRemovesFolder
  <2>1. WorldOK' /\ disk' \in [Path -> Content \cup {NoFile}]
    BY <1>20 DEF UserRemovesFolder, Event
  <2>6. folder' \in BOOLEAN /\ disk' = [p \in Path |-> NoFile]
    BY <1>20 DEF UserRemovesFolder
  <2>2. RowsOK'
    BY <1>20 DEF UserRemovesFolder, Event
  <2>3. RunOK'
    BY <1>20 DEF UserRemovesFolder, Event
  <2>4. TasksOK'
    BY <1>20 DEF UserRemovesFolder
  <2>5. failed' \in BOOLEAN
    BY <1>20 DEF UserRemovesFolder, Event
  <2> QED
    BY <2>1, <2>2, <2>3, <2>4, <2>5, <2>6
<1>21. CASE UNCHANGED vars
  BY <1>21 DEF vars
<1> QED
  BY <1>1, <1>2, <1>3, <1>4, <1>5, <1>6, <1>7, <1>8, <1>9, <1>10, <1>11, <1>12, <1>13,
     <1>14, <1>15, <1>16, <1>17, <1>18, <1>19, <1>20, <1>21
     DEF Next, Program, Environment

\* Every step keeps the run's variables in their place.
LEMMA ControlStep == TypeOK /\ ControlInv /\ [Next]_vars => ControlInv'
<1> SUFFICES ASSUME TypeOK, ControlInv, [Next]_vars PROVE ControlInv'
  OBVIOUS
<1> USE ConstantsAssumption DEF TypeOK, WorldOK, DiskOK, RowsOK, RunOK, TasksOK, Row,
        RowStatus, Task, Content, ControlInv, remoteVars, diskVars, planVars,
        deletionVars
<1>1. CASE Scan
  BY <1>1 DEF Scan, Newest, In
<1>2. CASE ListRecentlyDeleted
  BY <1>2 DEF ListRecentlyDeleted, In
<1>3. ASSUME NEW a \in Asset, PlanTracked(a) PROVE ControlInv'
  BY <1>3 DEF PlanTracked, Planning, Download, Reserve
<1>4. ASSUME NEW a \in Asset, PlanUntracked(a) PROVE ControlInv'
  BY <1>4 DEF PlanUntracked, Planning, Download, Reserve, UntrackedPath
<1>5. CASE StartDownloads
  BY <1>5 DEF StartDownloads
<1>6. ASSUME NEW t \in tasks, RecordDownload(t) PROVE ControlInv'
  BY <1>6 DEF RecordDownload, Recorded
<1>7. ASSUME NEW t \in tasks, Replace(t) PROVE ControlInv'
  BY <1>7 DEF Replace
<1>8. CASE StartDeletions
  BY <1>8 DEF StartDeletions, Managed
<1>9. ASSUME NEW a \in Asset, RefuseDeletion(a) PROVE ControlInv'
  BY <1>9 DEF RefuseDeletion
<1>10. ASSUME NEW a \in Asset, PrepareDeletion(a) PROVE ControlInv'
  BY <1>10 DEF PrepareDeletion, SetStatus
<1>11. CASE Unlink
  BY <1>11 DEF Unlink
<1>12. CASE MarkDeleted
  BY <1>12 DEF MarkDeleted, SetStatus
<1>13. CASE Finish
  BY <1>13 DEF Finish
<1>14. ASSUME NEW t \in tasks, DownloadFails(t) PROVE ControlInv'
  BY <1>14 DEF DownloadFails
<1>15. CASE UnlinkFails
  BY <1>15 DEF UnlinkFails, SetStatus
<1>16. CASE Crash
  BY <1>16 DEF Crash
<1>17. ASSUME NEW a \in Asset, RemoteChange(a) PROVE ControlInv'
  BY <1>17 DEF RemoteChange
<1>18. ASSUME NEW p \in Path, NEW c \in UserContent, UserPuts(p, c) PROVE ControlInv'
  BY <1>18 DEF UserPuts, Undisturbed
<1>19. ASSUME NEW p \in Path, UserRemoves(p) PROVE ControlInv'
  BY <1>19 DEF UserRemoves, Undisturbed
<1>20. CASE UserRemovesFolder
  BY <1>20 DEF UserRemovesFolder, Undisturbed
<1>21. CASE UNCHANGED vars
  BY <1>21 DEF vars
<1> QED
  BY <1>1, <1>2, <1>3, <1>4, <1>5, <1>6, <1>7, <1>8, <1>9, <1>10, <1>11, <1>12, <1>13,
     <1>14, <1>15, <1>16, <1>17, <1>18, <1>19, <1>20, <1>21
     DEF Next, Program, Environment

\* Type correctness, together with the control of the run.
THEOREM TypeCorrect == Spec => [](TypeOK /\ ControlInv)
<1>1. Init => TypeOK /\ ControlInv
  <2> SUFFICES ASSUME Init PROVE TypeOK /\ ControlInv
    OBVIOUS
  <2> USE ConstantsAssumption
      DEF Init, TypeOK, WorldOK, DiskOK, RowsOK, RunOK, TasksOK, ControlInv
  <2>1. WorldOK /\ disk \in [Path -> Content \cup {NoFile}]
    OBVIOUS
  <2>2. RowsOK /\ RunOK /\ TasksOK /\ ControlInv
    OBVIOUS
  <2>3. failed \in BOOLEAN /\ folder \in BOOLEAN /\ disk = [p \in Path |-> NoFile]
    OBVIOUS
  <2> QED
    BY <2>1, <2>2, <2>3
<1> QED
  BY <1>1, TypeStep, ControlStep, PTL DEF Spec

\* A task has the path that its asset reserved, and it is the asset's only one; nothing
\* lies where a fresh download will land.
PlanInv ==
    /\ \A a \in queue : reserved[a] = NoPath
    /\ \A t \in tasks : reserved[t.asset] = t.path
    /\ \A t, u \in tasks : t.asset = u.asset => t = u
    /\ PlannedPathsAreDistinct
    /\ FreshDownloadsOverwriteNothing

\* Planning one asset at a path that is not reserved, with a task or without.
LEMMA ReserveStep ==
  ASSUME TypeOK, PlanInv, NEW a \in queue, NEW p \in Path,
         ~ReservedByOther(a, p), Reserve(a, p), queue' = queue \ {a},
         UNCHANGED <<tasks, disk>>
  PROVE  PlanInv'
<1> USE ConstantsAssumption DEF TypeOK, RunOK, TasksOK, PlanInv
<1>1. a \in Asset
  OBVIOUS
<1>2. \A b \in Asset : reserved'[b] = IF b = a THEN p ELSE reserved[b]
  BY <1>1 DEF Reserve
<1>3. \A t \in tasks : t.asset # a
  BY <1>1, TaskFields
<1>4. PlannedPathsAreDistinct'
  BY <1>1, <1>2 DEF PlannedPathsAreDistinct, ReservedByOther
<1> QED
  BY <1>1, <1>2, <1>3, <1>4, TaskFields DEF FreshDownloadsOverwriteNothing

\* The same with a task, that lands on nothing unless it is a repair.
LEMMA DownloadStep ==
  ASSUME TypeOK, PlanInv, NEW a \in queue, NEW p \in Path,
         ~ReservedByOther(a, p), NEW repair \in BOOLEAN, Download(a, p, repair),
         repair \/ disk[p] = NoFile, queue' = queue \ {a}, UNCHANGED disk
  PROVE  PlanInv'
<1> DEFINE new == [asset |-> a, path |-> p, repair |-> repair, recorded |-> FALSE]
<1> USE ConstantsAssumption DEF TypeOK, RunOK, TasksOK, PlanInv
<1>1. a \in Asset /\ tasks' = tasks \cup {new} /\ UNCHANGED row
  BY DEF Download
<1>2. \A b \in Asset : reserved'[b] = IF b = a THEN p ELSE reserved[b]
  BY <1>1 DEF Download, Reserve
<1>3. \A t \in tasks : t.asset # a
  BY <1>1, TaskFields
<1>4. new.asset = a /\ new.path = p /\ (new.repair <=> repair)
  OBVIOUS
<1>5. PlannedPathsAreDistinct'
  BY <1>1, <1>2 DEF PlannedPathsAreDistinct, ReservedByOther
<1> HIDE DEF new
<1>6. FreshDownloadsOverwriteNothing'
  BY <1>1, <1>4 DEF FreshDownloadsOverwriteNothing
<1>7. /\ \A t \in tasks' : reserved'[t.asset] = t.path
      /\ \A t, u \in tasks' : t.asset = u.asset => t = u
  BY <1>1, <1>2, <1>3, <1>4, TaskFields
<1> QED
  BY <1>1, <1>2, <1>5, <1>6, <1>7

\* Every step keeps the paths apart.
LEMMA PlanStep == TypeOK /\ ControlInv /\ PlanInv /\ [Next]_vars => PlanInv'
<1> SUFFICES ASSUME TypeOK, ControlInv, PlanInv, [Next]_vars PROVE PlanInv'
  OBVIOUS
<1> USE ConstantsAssumption DEF TypeOK, WorldOK, DiskOK, RowsOK, RunOK, TasksOK, Row,
        RowStatus, Task, Content, ControlInv, PlanInv, PlannedPathsAreDistinct,
        FreshDownloadsOverwriteNothing, remoteVars, diskVars, planVars, deletionVars
<1>1. CASE Scan
  BY <1>1 DEF Scan, Newest, In
<1>2. CASE ListRecentlyDeleted
  BY <1>2 DEF ListRecentlyDeleted, In
<1>3. ASSUME NEW a \in Asset, PlanTracked(a) PROVE PlanInv'
  <2> HIDE DEF Task, PlanInv
  <2>1. a \in queue /\ queue' = queue \ {a} /\ UNCHANGED disk
    BY <1>3 DEF PlanTracked, Planning
  <2>2. row[a] # NoRow /\ row[a].path \in Path
    BY <1>3 DEF PlanTracked
  <2>3. CASE Download(a, ConflictPath(a), TRUE)
    BY <2>1, <2>3, ConflictIsFree, DownloadStep
  <2>4. CASE ~ReservedByOther(a, row[a].path) /\ Download(a, row[a].path, TRUE)
    BY <2>1, <2>2, <2>4, DownloadStep
  <2>5. CASE /\ ~ReservedByOther(a, row[a].path)
             /\ Reserve(a, row[a].path) /\ UNCHANGED <<row, tasks>>
    BY <2>1, <2>2, <2>5, ReserveStep
  <2> QED
    BY <1>3, <2>3, <2>4, <2>5 DEF PlanTracked
<1>4. ASSUME NEW a \in Asset, PlanUntracked(a) PROVE PlanInv'
  <2> HIDE DEF Task, PlanInv
  <2> DEFINE p == UntrackedPath(a)
  <2>1. a \in queue /\ queue' = queue \ {a} /\ UNCHANGED disk
    BY <1>4 DEF PlanUntracked, Planning
  <2>2. p \in Path /\ ~ReservedByOther(a, p)
    BY ConflictIsFree DEF UntrackedPath
  <2>3. CASE disk[p] = NoFile /\ Download(a, p, FALSE)
    BY <2>1, <2>2, <2>3, DownloadStep
  <2>4. CASE /\ disk[p] # NoFile
             /\ row' = [row EXCEPT ![a] =
                          [path |-> p, content |-> disk[p], status |-> "VERIFIED"]]
             /\ Reserve(a, p) /\ UNCHANGED tasks
    BY <2>1, <2>2, <2>4, ReserveStep
  <2> QED
    BY <1>4, <2>3, <2>4 DEF PlanUntracked
<1>5. CASE StartDownloads
  BY <1>5 DEF StartDownloads
<1>6. ASSUME NEW t \in tasks, RecordDownload(t) PROVE PlanInv'
  <2> HIDE DEF Task
  <2>1. /\ t \in Task /\ tasks' = (tasks \ {t}) \cup {Recorded(t)}
        /\ UNCHANGED <<disk, queue, reserved>>
    BY <1>6 DEF RecordDownload
  <2>2. /\ Recorded(t).asset = t.asset /\ Recorded(t).path = t.path
        /\ Recorded(t).repair = t.repair /\ t.asset \in Asset /\ t.path \in Path
    BY <2>1, RecordedTask, TaskFields
  <2>4. \A u, v \in tasks' : u.asset = v.asset => u = v
    BY <2>1, <2>2
  <2> QED
    BY <2>1, <2>2, <2>4
<1>7. ASSUME NEW t \in tasks, Replace(t) PROVE PlanInv'
  BY <1>7 DEF Replace
<1>8. CASE StartDeletions
  BY <1>8 DEF StartDeletions, Managed
<1>9. ASSUME NEW a \in Asset, RefuseDeletion(a) PROVE PlanInv'
  BY <1>9 DEF RefuseDeletion
<1>10. ASSUME NEW a \in Asset, PrepareDeletion(a) PROVE PlanInv'
  BY <1>10 DEF PrepareDeletion, SetStatus
<1>11. CASE Unlink
  BY <1>11 DEF Unlink
<1>12. CASE MarkDeleted
  BY <1>12 DEF MarkDeleted, SetStatus
<1>13. CASE Finish
  BY <1>13 DEF Finish
<1>14. ASSUME NEW t \in tasks, DownloadFails(t) PROVE PlanInv'
  BY <1>14 DEF DownloadFails
<1>15. CASE UnlinkFails
  BY <1>15 DEF UnlinkFails, SetStatus
<1>16. CASE Crash
  BY <1>16 DEF Crash
<1>17. ASSUME NEW a \in Asset, RemoteChange(a) PROVE PlanInv'
  BY <1>17 DEF RemoteChange
<1>18. ASSUME NEW p \in Path, NEW c \in UserContent, UserPuts(p, c) PROVE PlanInv'
  BY <1>18 DEF UserPuts, Undisturbed
<1>19. ASSUME NEW p \in Path, UserRemoves(p) PROVE PlanInv'
  BY <1>19 DEF UserRemoves, Undisturbed
<1>20. CASE UserRemovesFolder
  BY <1>20 DEF UserRemovesFolder, Undisturbed
<1>21. CASE UNCHANGED vars
  BY <1>21 DEF vars
<1> QED
  BY <1>1, <1>2, <1>3, <1>4, <1>5, <1>6, <1>7, <1>8, <1>9, <1>10, <1>11, <1>12, <1>13,
     <1>14, <1>15, <1>16, <1>17, <1>18, <1>19, <1>20, <1>21
     DEF Next, Program, Environment

\* No two resources of a plan have one path, in every state of every behaviour
\* (planner.py:110-123, reserved_paths).
THEOREM PlannedPaths == Spec => []PlannedPathsAreDistinct
<1>1. Init => PlanInv
  BY DEF Init, PlanInv, PlannedPathsAreDistinct, FreshDownloadsOverwriteNothing
<1>2. PlanInv => PlannedPathsAreDistinct
  BY DEF PlanInv
<1> QED
  BY <1>1, <1>2, PlanStep, TypeCorrect, PTL DEF Spec

\* A download that is no repair is renamed onto a free path (planner.py:145-215).
THEOREM FreshDownloads == Spec => []FreshDownloadsOverwriteNothing
<1>1. Init => PlanInv
  BY DEF Init, PlanInv, PlannedPathsAreDistinct, FreshDownloadsOverwriteNothing
<1>2. PlanInv => FreshDownloadsOverwriteNothing
  BY DEF PlanInv
<1> QED
  BY <1>1, <1>2, PlanStep, TypeCorrect, PTL DEF Spec

\* What the preflight saw still holds when the file is unlinked.
DeletionInv ==
    pc = "unlink" =>
      /\ RowOwners(row[victim].path) = {victim}
      /\ disk[row[victim].path] \in {NoFile, row[victim].content}

\* Every step keeps what the preflight saw.
LEMMA DeletionStep == TypeOK /\ ControlInv /\ DeletionInv /\ [Next]_vars => DeletionInv'
<1> SUFFICES ASSUME TypeOK, ControlInv, DeletionInv, [Next]_vars PROVE DeletionInv'
  OBVIOUS
<1> USE DEF TypeOK, WorldOK, DiskOK, RowsOK, RunOK, TasksOK, Row, RowStatus, Task,
        Content, ControlInv, DeletionInv, RowOwners, remoteVars, diskVars, planVars,
        deletionVars
<1>1. CASE Scan \/ ListRecentlyDeleted \/ StartDownloads \/ StartDeletions
  BY <1>1 DEF Scan, ListRecentlyDeleted, StartDownloads, StartDeletions
<1>2. ASSUME NEW a \in Asset, PlanTracked(a) \/ PlanUntracked(a) PROVE DeletionInv'
  BY <1>2 DEF PlanTracked, Planning, PlanUntracked
<1>3. ASSUME NEW t \in tasks,
            RecordDownload(t) \/ Replace(t) \/ DownloadFails(t)
     PROVE  DeletionInv'
  BY <1>3 DEF RecordDownload, Recorded, Replace, DownloadFails
<1>4. ASSUME NEW a \in Asset, RefuseDeletion(a) PROVE DeletionInv'
  BY <1>4 DEF RefuseDeletion
<1>5. ASSUME NEW a \in Asset, PrepareDeletion(a) PROVE DeletionInv'
  <2>1. /\ victim' = a /\ UNCHANGED disk /\ row[a] \in Row
        /\ RowOwners(row[a].path) = {a} /\ disk[row[a].path] \in {NoFile, row[a].content}
    BY <1>5 DEF PrepareDeletion, Refused, RowOwners
  <2>2. row'[a] # NoRow /\ row[a] # NoRow
    BY <1>5, <2>1, ConstantsAssumption DEF PrepareDeletion, SetStatus
  <2>3. row'[a].path = row[a].path /\ row'[a].content = row[a].content
    BY <1>5 DEF PrepareDeletion, SetStatus
  <2>4. \A b \in Asset : b # a => row'[b] = row[b]
    BY <1>5 DEF PrepareDeletion, SetStatus
  <2>5. RowOwners(row[a].path)' = RowOwners(row[a].path)
    BY <2>2, <2>3, <2>4 DEF RowOwners
  <2> QED
    BY <2>1, <2>3, <2>5
<1>6. CASE Unlink \/ MarkDeleted \/ Finish \/ UnlinkFails \/ Crash
  BY <1>6 DEF Unlink, MarkDeleted, Finish, UnlinkFails, Crash
<1>7. ASSUME NEW a \in Asset, RemoteChange(a) PROVE DeletionInv'
  BY <1>7 DEF RemoteChange
<1>8. ASSUME NEW p \in Path, NEW c \in UserContent, UserPuts(p, c) PROVE DeletionInv'
  BY <1>8 DEF UserPuts, Undisturbed
<1>9. ASSUME NEW p \in Path, UserRemoves(p) PROVE DeletionInv'
  BY <1>9 DEF UserRemoves, Undisturbed
<1>10. CASE UserRemovesFolder
  BY <1>10 DEF UserRemovesFolder, Undisturbed
<1>11. CASE UNCHANGED vars
  BY <1>11 DEF vars
<1> QED
  BY <1>1, <1>2, <1>3, <1>4, <1>5, <1>6, <1>7, <1>8, <1>9, <1>10, <1>11
     DEF Next, Program, Environment

\* A file the program removes was the recorded content of an asset that the scan saw
\* deleted and not active, at a path that no other asset's row claims (deletion.py).
THEOREM Deletion == Spec => DeletionIsExact
<1> DEFINE Exact ==
      \A p \in Path :
         events' = events /\ disk[p] # NoFile /\ disk'[p] = NoFile =>
           \E a \in deleted \ active : RowOwners(p) = {a} /\ row[a].content = disk[p]
<1>1. Init => DeletionInv
  BY DEF Init, DeletionInv
<1>2. TypeOK /\ ControlInv /\ DeletionInv /\ [Next]_vars => [Exact]_vars
  <2> SUFFICES ASSUME TypeOK, ControlInv, DeletionInv, [Next]_vars,
                      NEW p \in Path, events' = events, disk[p] # NoFile, disk'[p] = NoFile
               PROVE  \E a \in deleted \ active : RowOwners(p) = {a} /\ row[a].content = disk[p]
    OBVIOUS
  <2> USE DEF TypeOK, WorldOK, DiskOK, RowsOK, RunOK, TasksOK
  <2>1. CASE Unlink
    BY <2>1 DEF Unlink, ControlInv, DeletionInv
  <2>2. ASSUME NEW t \in tasks, Replace(t) PROVE FALSE
    BY <2>2, ConstantsAssumption DEF Replace, Task, Content
  <2>3. CASE Environment
    BY <2>3 DEF Environment, DownloadFails, UnlinkFails, Crash, RemoteChange, UserPuts,
       UserRemoves, UserRemovesFolder, Event
  <2>4. disk' = disk \/ Unlink \/ Environment \/ \E t \in tasks : Replace(t)
    BY DEF Next, Program, Scan, ListRecentlyDeleted, PlanTracked, PlanUntracked, Planning,
       StartDownloads, RecordDownload, StartDeletions, RefuseDeletion, PrepareDeletion,
       MarkDeleted, Finish, vars, diskVars
  <2> QED
    BY <2>1, <2>2, <2>3, <2>4
<1>3. Spec => [](TypeOK /\ ControlInv /\ DeletionInv)
  BY <1>1, DeletionStep, TypeCorrect, PTL DEF Spec
<1> QED
  BY <1>2, <1>3, PTL DEF Spec, DeletionIsExact
=============================================================================
