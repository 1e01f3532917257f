--------------------------- MODULE MCAuthSession ---------------------------
(***************************************************************************)
(* One daemon and one process of each command.                             *)
(***************************************************************************)
EXTENDS AuthSession
=============================================================================
