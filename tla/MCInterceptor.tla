---------------------------- MODULE MCInterceptor ----------------------------
(***************************************************************************)
(* Small instances of Interceptor for TLC.                                 *)
(***************************************************************************)
EXTENDS Interceptor

CONSTANTS p1, p2, b1, b2

=============================================================================
