----------------------------- MODULE MCCursorScan -----------------------------
(***************************************************************************)
(* Three assets, the oldest of which is in the chosen albums.              *)
(***************************************************************************)
EXTENDS CursorScan

MCAsset == 1..3
=============================================================================
