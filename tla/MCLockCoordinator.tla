-------------------------- MODULE MCLockCoordinator --------------------------
(***************************************************************************)
(* Two scheduler threads of the daemon and one setup command, with the two *)
(* lock names of one account: sync is only taken inside account-operation. *)
(***************************************************************************)
EXTENDS LockCoordinator, TLC

CONSTANTS daemon, setup, d1, d2, s1, operation, sync

MCProcessOf == (d1 :> daemon) @@ (d2 :> daemon) @@ (s1 :> setup)
MCOuter == (operation :> None) @@ (sync :> operation)
=============================================================================
