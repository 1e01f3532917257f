--------------------------- MODULE MCSyncRequests ---------------------------
(***************************************************************************)
(* One setup and two sync processes against the daemon.                    *)
(***************************************************************************)
EXTENDS SyncRequests

CONSTANTS s1, c1, c2
=============================================================================
