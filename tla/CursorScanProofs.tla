--------------------------- MODULE CursorScanProofs ---------------------------
(***************************************************************************)
(* Proofs about CursorScan, for any library and any number of failures.    *)
(* A run with failures had planned something, and it plans something only  *)
(* after a listing or after a change since the cursor: the next run looks  *)
(* again (LooksInv).  What a full run planned had every asset the library  *)
(* had when the run began and asset_allowed lets through (FullInv).        *)
(***************************************************************************)
EXTENDS CursorScan, TLAPS

\* Every step keeps the types.
LEMMA TypeStep == TypeOK /\ [Next]_vars => TypeOK'
<1> SUFFICES ASSUME TypeOK, [Next]_vars PROVE TypeOK'
  OBVIOUS
<1> USE ConstantsAssumption DEF TypeOK, Cursor, Scope, filters, runVars
<1>1. CASE StartRun
  BY <1>1 DEF StartRun
<1>2. CASE ListAssets
  BY <1>2 DEF ListAssets, Plan, Limited
<1>3. CASE GetSyncCursor
  BY <1>3 DEF GetSyncCursor
<1>4. CASE IterChanges
  BY <1>4 DEF IterChanges
<1>5. CASE NextCursor
  BY <1>5 DEF NextCursor
<1>6. CASE Relist
  BY <1>6 DEF Relist, Plan, Limited
<1>7. ASSUME NEW a \in Asset, Download(a) PROVE TypeOK'
  BY <1>7 DEF Download
<1>8. CASE Commit
  BY <1>8 DEF Commit
<1>9. ASSUME NEW a \in Asset, DownloadFails(a) PROVE TypeOK'
  BY <1>9 DEF DownloadFails
<1>10. ASSUME NEW a \in Asset, Upload(a) PROVE TypeOK'
  BY <1>10 DEF Upload
<1>11. CASE RunDies
  BY <1>11 DEF RunDies
<1>12. CASE CursorExpires
  BY <1>12 DEF CursorExpires
<1>13. CASE ChangeFilters
  BY <1>13 DEF ChangeFilters
<1>14. CASE IntervalPasses
  BY <1>14 DEF IntervalPasses
<1>15. CASE UNCHANGED vars
  BY <1>15 DEF vars
<1> QED
  BY <1>1, <1>2, <1>3, <1>4, <1>5, <1>6, <1>7, <1>8, <1>9, <1>10, <1>11, <1>12, <1>13,
     <1>14, <1>15
     DEF Next, Program, Environment

\* Type correctness; cursors are states of the library.
THEOREM TypeCorrect == Spec => []TypeOK
<1>1. Init => TypeOK
  BY DEF Init, TypeOK, Cursor, Scope
<1> QED
  BY <1>1, TypeStep, PTL DEF Spec

\* A cursor stands for a library that has not shrunk since.
CursorInv ==
    /\ cursor = NoCursor \/ cursor \subseteq library
    /\ next = NoCursor \/ next \subseteq library

\* Every step keeps the cursors inside the library.
LEMMA CursorStep == TypeOK /\ CursorInv /\ [Next]_vars => CursorInv'
<1> SUFFICES ASSUME TypeOK, CursorInv, [Next]_vars PROVE CursorInv'
  OBVIOUS
<1> USE DEF TypeOK, Cursor, Scope, filters, runVars, CursorInv
<1>1. CASE StartRun
  BY <1>1 DEF StartRun
<1>2. CASE GetSyncCursor
  BY <1>2 DEF GetSyncCursor
<1>3. CASE NextCursor
  BY <1>3 DEF NextCursor
<1>4. CASE Commit
  BY <1>4 DEF Commit
<1>5. ASSUME NEW a \in Asset, Upload(a) PROVE CursorInv'
  BY <1>5 DEF Upload
<1>6. CASE CursorExpires
  BY <1>6 DEF CursorExpires
<1>7. CASE ListAssets \/ IterChanges \/ Relist
  BY <1>7 DEF ListAssets, IterChanges, Relist
<1>8. ASSUME NEW a \in Asset, Download(a) \/ DownloadFails(a) PROVE CursorInv'
  BY <1>8 DEF Download, DownloadFails
<1>9. CASE RunDies \/ ChangeFilters \/ IntervalPasses
  BY <1>9 DEF RunDies, ChangeFilters, IntervalPasses
<1>10. CASE UNCHANGED vars
  BY <1>10 DEF vars
<1> QED
  BY <1>1, <1>2, <1>3, <1>4, <1>5, <1>6, <1>7, <1>8, <1>9, <1>10
     DEF Next, Program, Environment

\* A run that planned something, or that may still plan, has its reason to look, and
\* the reason lasts until a run without failures commits its cursor.
LooksInv ==
    /\ pc \in {"list", "cursor", "changed", "relist"} => LooksAgain
    /\ pc \in {"list", "changes", "changed", "unchanged", "relist"} =>
         planned = {} /\ failed = {}
    /\ pc # "idle" /\ planned \cup failed # {} => LooksAgain
    /\ pc = "changes" => scope # "albums" /\ cursor # NoCursor

\* Every step keeps the reason.
LEMMA LooksStep == TypeOK /\ CursorInv /\ LooksInv /\ [Next]_vars => LooksInv'
<1> SUFFICES ASSUME TypeOK, CursorInv, LooksInv, [Next]_vars PROVE LooksInv'
  OBVIOUS
<1> USE ConstantsAssumption DEF TypeOK, Cursor, Scope, filters, runVars, CursorInv, LooksInv,
        LooksAgain, UseFull
<1>1. CASE StartRun
  BY <1>1 DEF StartRun
<1>2. CASE ListAssets
  BY <1>2 DEF ListAssets, Plan
<1>3. CASE GetSyncCursor
  BY <1>3 DEF GetSyncCursor
<1>4. CASE IterChanges
  BY <1>4 DEF IterChanges
<1>5. CASE NextCursor
  BY <1>5 DEF NextCursor
<1>6. CASE Relist
  BY <1>6 DEF Relist, Plan
<1>7. ASSUME NEW a \in Asset, Download(a) PROVE LooksInv'
  BY <1>7 DEF Download
<1>8. CASE Commit
  BY <1>8 DEF Commit
<1>9. ASSUME NEW a \in Asset, DownloadFails(a) PROVE LooksInv'
  BY <1>9 DEF DownloadFails
<1>10. ASSUME NEW a \in Asset, Upload(a) PROVE LooksInv'
  BY <1>10 DEF Upload
<1>11. CASE RunDies
  BY <1>11 DEF RunDies
<1>12. CASE CursorExpires
  BY <1>12 DEF CursorExpires
<1>13. CASE ChangeFilters
  BY <1>13 DEF ChangeFilters
<1>14. CASE IntervalPasses
  BY <1>14 DEF IntervalPasses
<1>15. CASE UNCHANGED vars
  BY <1>15 DEF vars
<1> QED
  BY <1>1, <1>2, <1>3, <1>4, <1>5, <1>6, <1>7, <1>8, <1>9, <1>10, <1>11, <1>12, <1>13,
     <1>14, <1>15
     DEF Next, Program, Environment

\* After a run with failures the next run under the same filters looks at the library
\* again, wherever among its steps the run died (engine.py, _scan_library).
THEOREM Retried == Spec => FailedAssetsAreRetried
<1>1. Init => CursorInv /\ LooksInv
  BY DEF Init, CursorInv, LooksInv, LooksAgain, UseFull
<1>2. /\ TypeOK /\ CursorInv /\ LooksInv /\ [Next]_vars
      => [pc # "idle" /\ pc' = "idle" /\ failed # {} => LooksAgain']_vars
  <2> SUFFICES ASSUME TypeOK, CursorInv, LooksInv, [Next]_vars,
                      pc # "idle", pc' = "idle", failed # {}
               PROVE  LooksAgain'
    OBVIOUS
  <2>1. LooksAgain
    BY DEF LooksInv
  <2>2. CASE Commit
    BY <2>1, <2>2 DEF Commit, LooksAgain, UseFull, filters
  <2>3. CASE RunDies
    BY <2>1, <2>3 DEF RunDies, LooksAgain, UseFull, filters
  <2>4. CASE ~(Commit \/ RunDies)
    BY <2>4 DEF Next, Program, Environment, StartRun, ListAssets, GetSyncCursor, IterChanges,
       NextCursor, Relist, Download, DownloadFails, Upload, CursorExpires, ChangeFilters,
       IntervalPasses, vars, filters, runVars
  <2> QED
    BY <2>2, <2>3, <2>4
<1> QED
  BY <1>1, <1>2, CursorStep, LooksStep, TypeCorrect, PTL DEF Spec, FailedAssetsAreRetried

\* What a full run will have completed includes what asset_allowed lets through of the
\* library at its start.
FullInv ==
    /\ pc = "cursor" => scope = "all" /\ began \cap wanted \subseteq backed \cup planned \cup failed
    /\ pc = "download" /\ full => began \cap wanted \subseteq backed \cup planned \cup failed
    /\ pc \notin {"idle", "download"} => ~full

\* Every step keeps the listing of a full run complete.
LEMMA FullStep == TypeOK /\ FullInv /\ [Next]_vars => FullInv'
<1> SUFFICES ASSUME TypeOK, FullInv, [Next]_vars PROVE FullInv'
  OBVIOUS
<1> USE DEF TypeOK, Cursor, Scope, filters, runVars, FullInv
<1>1. CASE StartRun
  BY <1>1 DEF StartRun
<1>2. CASE ListAssets
  BY <1>2 DEF ListAssets, Plan, Limited
<1>3. CASE GetSyncCursor
  BY <1>3 DEF GetSyncCursor
<1>4. CASE IterChanges
  BY <1>4 DEF IterChanges
<1>5. CASE NextCursor
  BY <1>5 DEF NextCursor
<1>6. CASE Relist
  BY <1>6 DEF Relist, Plan
<1>7. ASSUME NEW a \in Asset, Download(a) PROVE FullInv'
  BY <1>7 DEF Download
<1>8. CASE Commit
  BY <1>8 DEF Commit
<1>9. ASSUME NEW a \in Asset, DownloadFails(a) PROVE FullInv'
  BY <1>9 DEF DownloadFails
<1>10. ASSUME NEW a \in Asset, Upload(a) PROVE FullInv'
  BY <1>10 DEF Upload
<1>11. CASE RunDies
  BY <1>11 DEF RunDies
<1>12. CASE CursorExpires
  BY <1>12 DEF CursorExpires
<1>13. CASE ChangeFilters
  BY <1>13 DEF ChangeFilters
<1>14. CASE IntervalPasses
  BY <1>14 DEF IntervalPasses
<1>15. CASE UNCHANGED vars
  BY <1>15 DEF vars
<1> QED
  BY <1>1, <1>2, <1>3, <1>4, <1>5, <1>6, <1>7, <1>8, <1>9, <1>10, <1>11, <1>12, <1>13,
     <1>14, <1>15
     DEF Next, Program, Environment

\* last_full_scan_at moves only when every asset the library had at the start of the run,
\* and that asset_allowed lets through, is complete (policies.py, asset_allowed;
\* engine.py, run; repository.py, update_library_cursor).
THEOREM FullScans == Spec => FullScansAreComplete
<1>1. Init => FullInv
  BY DEF Init, FullInv
<1>2. TypeOK /\ FullInv /\ [Next]_vars => [fullDue /\ ~fullDue' => began \cap wanted \subseteq backed]_vars
  <2> SUFFICES ASSUME TypeOK, FullInv, [Next]_vars, fullDue, ~fullDue'
               PROVE  began \cap wanted \subseteq backed
    OBVIOUS
  <2>1. CASE Commit
    BY <2>1 DEF Commit, FullInv
  <2>2. CASE ~Commit
    BY <2>2 DEF Next, Program, Environment, StartRun, ListAssets, GetSyncCursor, IterChanges,
       NextCursor, Relist, Download, DownloadFails, RunDies, Upload, CursorExpires,
       ChangeFilters, IntervalPasses, vars, filters, runVars
  <2> QED
    BY <2>1, <2>2
<1> QED
  BY <1>1, <1>2, FullStep, TypeCorrect, PTL DEF Spec, FullScansAreComplete
=============================================================================
