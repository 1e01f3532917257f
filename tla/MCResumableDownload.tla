------------------------- MODULE MCResumableDownload -------------------------
(***************************************************************************)
(* Two editions of the same length, which the planner cannot tell apart,   *)
(* and a longer one.                                                       *)
(***************************************************************************)
EXTENDS ResumableDownload, TLC

CONSTANTS original, adjusted, readjusted

MCMetadata ==
    {known \in SUBSET {"size", "checksum", "sha256"} : "sha256" \in known => "checksum" \in known}

MCSize == (original :> 2) @@ (adjusted :> 2) @@ (readjusted :> 3)
=============================================================================
