------------------------------ MODULE MCCounter ------------------------------
(***************************************************************************)
(* Small instances of Counter for TLC.                                     *)
(***************************************************************************)
EXTENDS Counter

CONSTANTS p1, p2

=============================================================================
