------------------------------ MODULE MCPusher ------------------------------
(***************************************************************************)
(* Small instances of Pusher for TLC.                                      *)
(***************************************************************************)
EXTENDS Pusher

CONSTANTS c1, c2

=============================================================================
