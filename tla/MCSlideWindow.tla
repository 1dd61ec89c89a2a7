---------------------------- MODULE MCSlideWindow ----------------------------
(***************************************************************************)
(* Small instances of SlideWindow for TLC.                                 *)
(***************************************************************************)
EXTENDS SlideWindow

CONSTANTS c1, c2, c3

=============================================================================
