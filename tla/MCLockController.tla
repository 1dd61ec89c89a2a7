-------------------------- MODULE MCLockController --------------------------
(***************************************************************************)
(* Small instances of LockController for TLC.                              *)
(***************************************************************************)
EXTENDS LockController

CONSTANTS p1, p2

=============================================================================
