---------------------------- MODULE MCEngineRun ----------------------------
(***************************************************************************)
(* Two libraries, three assets in three batches, the newest a HEIC photo   *)
(* whose JPEG no estimate counts, the second of unknown size and twice as  *)
(* big; the files of all of them do not fit on the disk.                   *)
(***************************************************************************)
EXTENDS EngineRun, TLC

CONSTANTS root, shared, old, mid, new, jpeg

MCLibraryOf == (old :> root) @@ (mid :> shared) @@ (new :> root)
MCAddedAt == (old :> 1) @@ (mid :> 2) @@ (new :> 3)
MCJpegOf == (old :> {}) @@ (mid :> {}) @@ (new :> {jpeg})
MCBlocks == (old :> {1}) @@ (mid :> {2, 3}) @@ (new :> {4}) @@ (jpeg :> {5})
=============================================================================
