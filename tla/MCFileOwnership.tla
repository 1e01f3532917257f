--------------------------- MODULE MCFileOwnership ---------------------------
(***************************************************************************)
(* Three assets of one name, hence of one base path, whose ids end alike,  *)
(* hence of one conflict path; and a user's file that has the size of one  *)
(* of them.                                                                *)
(***************************************************************************)
EXTENDS FileOwnership, TLC

CONSTANTS oldest, older, newer, mine, img, imgX, imgX2, imgX3

MCAddedAt == (oldest :> 1) @@ (older :> 2) @@ (newer :> 3)
MCSizeOf == (oldest :> 1) @@ (older :> 1) @@ (newer :> 2) @@ (mine :> 2)
MCBase == (oldest :> img) @@ (older :> img) @@ (newer :> img)
MCConflict == [a \in {oldest, older, newer} |-> <<imgX, imgX2, imgX3>>]
=============================================================================
