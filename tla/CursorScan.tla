------------------------------ MODULE CursorScan ------------------------------
(***************************************************************************)
(* What a run looks at, and what the next run may skip: the scan of one    *)
(* library with its synchronization cursor (photos/engine.py,              *)
(* _scan_library, _limit_assets and run; iter_changes and get_sync_cursor  *)
(* of protocol/pyicloud_adapter.py; update_library_cursor), with the       *)
(* strategy `cursor'.  The library grows while it is scanned, downloads    *)
(* fail, runs die, and the owner changes the filters between runs.         *)
(*                                                                         *)
(* A cursor of iCloud stands for the library at the moment it was issued:  *)
(* it is the set of the assets there were.                                 *)
(***************************************************************************)
EXTENDS Naturals

CONSTANTS
    Asset,      \* assets, named for the order of added_at
    Album,      \* the assets of the albums that filters.albums names
    Allowed,    \* what asset_allowed lets through when filters or media narrow it
    MaxEvents,  \* bound: outside events and failures in one behaviour
    NoCursor    \* last_cursor is NULL

ASSUME ConstantsAssumption ==
    /\ Asset \subseteq Nat
    /\ Album \subseteq Asset /\ Allowed \subseteq Asset
    /\ MaxEvents \in Nat
    /\ \A S \in SUBSET Asset : NoCursor # S

VARIABLES
    library,   \* the assets iCloud has
    scope,     \* what narrows the scan: albums, recent_only, until_found or nothing
    wanted,    \* what asset_allowed lets through: Allowed, or everything
    cursor,    \* last_cursor
    valid,     \* iCloud still accepts last_cursor
    fullDue,   \* last_full_scan_at is missing or older than full_scan_interval
    backed,    \* the assets whose file is complete
    pc,        \* the step of the run; "idle" between runs
    planned,   \* the assets of the run that are neither complete nor failed yet
    next,      \* the cursor the run will commit
    full,      \* the run will count as a full scan
    failed,    \* assets whose download failed in this run, or in the last one
    began,     \* history: the library when the run began
    events     \* bound: events so far

filters == <<scope, wanted>>
runVars == <<pc, planned, next, full, failed, began>>
vars == <<library, filters, cursor, valid, fullDue, backed, runVars, events>>

Scope == {"all", "albums", "recent_only", "until_found"}
Cursor == {NoCursor} \cup SUBSET Asset

TypeOK ==
    /\ library \subseteq Asset /\ backed \subseteq library
    /\ scope \in Scope /\ wanted \in {Allowed, Asset}
    /\ cursor \in Cursor /\ next \in Cursor
    /\ valid \in BOOLEAN /\ fullDue \in BOOLEAN /\ full \in BOOLEAN
    /\ pc \in {"idle", "list", "cursor", "changes", "changed", "unchanged", "relist", "download"}
    /\ planned \subseteq library /\ failed \subseteq library /\ began \subseteq library

Init ==
    /\ library = {} /\ backed = {}
    /\ scope \in Scope /\ wanted \in {Allowed, Asset}
    /\ cursor = NoCursor /\ valid = TRUE /\ fullDue = TRUE
    /\ pc = "idle"
    /\ planned = {} /\ next = NoCursor /\ full = FALSE /\ failed = {} /\ began = {}
    /\ events = 0

Event == events < MaxEvents /\ events' = events + 1

(***************************************************************************)
(* recent_only keeps the newest asset (N = 1); until_found stops after the *)
(* first asset that is complete (N = 1), and an asset that asset_allowed   *)
(* refuses, whatever it has on the disk, is none.                          *)
(***************************************************************************)
Newer(a, S) == {b \in S : b > a}

Limited(S) ==
    IF scope = "recent_only" THEN {a \in S : Newer(a, S) = {}}
    ELSE IF scope = "until_found" THEN {a \in S : Newer(a, S) \cap backed \cap wanted = {}}
    ELSE S

(***************************************************************************)
(* _scan_library.                                                          *)
(***************************************************************************)
UseFull == cursor = NoCursor \/ fullDue

StartRun ==
    /\ pc = "idle"
    /\ pc' = IF scope # "albums" /\ ~UseFull THEN "changes" ELSE "list"
    /\ planned' = {} /\ failed' = {} /\ next' = NoCursor /\ full' = FALSE
    /\ began' = library
    /\ UNCHANGED <<library, filters, cursor, valid, fullDue, backed, events>>

\* asset_allowed comes after the limits, and leaves the cursor and was_full as they are.
Plan(S) == planned' = (Limited(S) \cap wanted) \ backed

\* Mutants of ListAssets: the album's members are not looked up in the library; a
\* truncated listing also gets its cursor and counts as full.
ListAssetsCached ==
    /\ pc = "list"
    /\ Plan(IF scope = "albums" THEN Album ELSE library)
    /\ pc' = IF scope = "all" THEN "cursor" ELSE "download"
    /\ UNCHANGED <<library, filters, cursor, valid, fullDue, backed, next, full, failed,
                   began, events>>

ListAssetsAlike ==
    /\ pc = "list"
    /\ Plan(IF scope = "albums" THEN library \cap Album ELSE library)
    /\ pc' = "cursor"
    /\ UNCHANGED <<library, filters, cursor, valid, fullDue, backed, next, full, failed,
                   began, events>>

\* Only a listing that nothing narrows goes on to get_sync_cursor; every other one
\* returns no cursor.
ListAssets ==
    /\ pc = "list"
    /\ Plan(IF scope = "albums" THEN library \cap Album ELSE library)
    /\ pc' = IF scope = "all" THEN "cursor" ELSE "download"
    /\ UNCHANGED <<library, filters, cursor, valid, fullDue, backed, next, full, failed,
                   began, events>>

GetSyncCursor ==
    /\ pc = "cursor"
    /\ next' = library /\ full' = TRUE
    /\ pc' = "download"
    /\ UNCHANGED <<library, filters, cursor, valid, fullDue, backed, planned, failed,
                   began, events>>

\* iter_changes: the changes since the cursor, then the new cursor, then, if there
\* were changes, the whole library.  CursorInvalid falls back to a full listing.
IterChanges ==
    /\ pc = "changes"
    /\ pc' = IF ~valid THEN "list" ELSE IF library # cursor THEN "changed" ELSE "unchanged"
    /\ UNCHANGED <<library, filters, cursor, valid, fullDue, backed, planned, next, full,
                   failed, began, events>>

NextCursor ==
    /\ pc \in {"changed", "unchanged"}
    /\ next' = library
    /\ pc' = IF pc = "changed" THEN "relist" ELSE "download"
    /\ UNCHANGED <<library, filters, cursor, valid, fullDue, backed, planned, full, failed,
                   began, events>>

Relist ==
    /\ pc = "relist"
    /\ Plan(library)
    /\ pc' = "download"
    /\ UNCHANGED <<library, filters, cursor, valid, fullDue, backed, next, full, failed,
                   began, events>>

(***************************************************************************)
(* The downloads and the commit.                                           *)
(***************************************************************************)
Download(a) ==
    /\ pc = "download" /\ a \in planned
    /\ planned' = planned \ {a} /\ backed' = backed \cup {a}
    /\ UNCHANGED <<library, filters, cursor, valid, fullDue, pc, next, full, failed,
                   began, events>>

DownloadFails(a) ==
    /\ pc = "download" /\ a \in planned
    /\ Event
    /\ planned' = planned \ {a} /\ failed' = failed \cup {a}
    /\ UNCHANGED <<library, filters, cursor, valid, fullDue, backed, pc, next, full, began>>

\* Mutants of Commit: the cursor moves in spite of failures; last_full_scan_at is written
\* by a full run.
CommitAlways ==
    /\ pc = "download" /\ planned = {}
    /\ cursor' = next /\ valid' = TRUE
    /\ fullDue' = (fullDue /\ ~full)
    /\ pc' = "idle"
    /\ UNCHANGED <<library, filters, backed, planned, next, full, failed, began, events>>

CommitInverted ==
    /\ pc = "download" /\ planned = {}
    /\ IF failed = {}
       THEN /\ cursor' = next /\ valid' = TRUE
            /\ fullDue' = (fullDue /\ full)
       ELSE UNCHANGED <<cursor, valid, fullDue>>
    /\ pc' = "idle"
    /\ UNCHANGED <<library, filters, backed, planned, next, full, failed, began, events>>

\* Only a run without failures moves the cursor, and only a full one the date of the
\* last full scan.
Commit ==
    /\ pc = "download" /\ planned = {}
    /\ IF failed = {}
       THEN /\ cursor' = next /\ valid' = TRUE
            /\ fullDue' = (fullDue /\ ~full)
       ELSE UNCHANGED <<cursor, valid, fullDue>>
    /\ pc' = "idle"
    /\ UNCHANGED <<library, filters, backed, planned, next, full, failed, began, events>>

(***************************************************************************)
(* The outside world.                                                      *)
(***************************************************************************)

\* The process dies, or the scan raises and the run ends as FAILED.
RunDies ==
    /\ pc # "idle"
    /\ Event
    /\ pc' = "idle" /\ planned' = {}
    /\ UNCHANGED <<library, filters, cursor, valid, fullDue, backed, next, full, failed, began>>

Upload(a) ==
    /\ a \notin library /\ \A b \in library : b < a
    /\ Event
    /\ library' = library \cup {a}
    /\ UNCHANGED <<filters, cursor, valid, fullDue, backed, runVars>>

CursorExpires ==
    /\ cursor # NoCursor /\ valid
    /\ Event
    /\ valid' = FALSE
    /\ UNCHANGED <<library, filters, cursor, fullDue, backed, runVars>>

\* The container is started again with other filters.
ChangeFilters ==
    /\ pc = "idle"
    /\ Event
    /\ scope' \in Scope /\ wanted' \in {Allowed, Asset}
    /\ <<scope', wanted'>> # <<scope, wanted>>
    /\ UNCHANGED <<library, cursor, valid, fullDue, backed, runVars>>

IntervalPasses ==
    /\ ~fullDue
    /\ fullDue' = TRUE
    /\ UNCHANGED <<library, filters, cursor, valid, backed, runVars, events>>

Program ==
    \/ StartRun \/ ListAssets \/ GetSyncCursor
    \/ IterChanges \/ NextCursor \/ Relist
    \/ \E a \in Asset : Download(a)
    \/ Commit

Environment ==
    \/ \E a \in Asset : DownloadFails(a) \/ Upload(a)
    \/ RunDies \/ CursorExpires \/ ChangeFilters

Next == Program \/ Environment \/ IntervalPasses

Spec == Init /\ [][Next]_vars

\* Runs are started for ever and go on; full_scan_interval passes again and again.
FairSpec == Spec /\ WF_vars(Program) /\ WF_vars(IntervalPasses)

(***************************************************************************)
(* Properties.                                                             *)
(***************************************************************************)

\* After a run with failures the next run under the same filters looks at the library
\* again: there is no cursor, a full scan is due, or the cursor still differs from the
\* library (CONFIGURATION.md:535).
LooksAgain == scope = "albums" \/ UseFull \/ ~valid \/ cursor # library
FailedAssetsAreRetried ==
    [][pc # "idle" /\ pc' = "idle" /\ failed # {} => LooksAgain']_vars

\* last_full_scan_at moves only when every asset the library had at the start of the
\* run, and that asset_allowed lets through, is complete: it never certifies a truncated
\* or a partly failed scan (engine.py:405-410).  The date does not tell which filters
\* were in force, so that it may stand for less than the filters of the next run want.
FullScansAreComplete == [][fullDue /\ ~fullDue' => began \cap wanted \subseteq backed]_vars

\* Once no option narrows the scan, every asset that asset_allowed lets through is
\* complete in the end, whatever a cursor or narrower filters made earlier runs miss:
\* the periodic full scan finds it (engine.py:383-386).
EventuallyBackedUp == <>[](scope = "all") => <>[](library \cap wanted \subseteq backed)

\* engine.py:407-408: the complete-library cursor is not advanced beyond resources the
\* user has not seen, where nothing narrows what the user wants.
CursorStaysBehind == cursor # NoCursor /\ Allowed = Asset => cursor \subseteq backed
=============================================================================
