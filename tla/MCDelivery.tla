------------------------------ MODULE MCDelivery ------------------------------
(***************************************************************************)
(* Small instances of Delivery for TLC.                                    *)
(***************************************************************************)
EXTENDS Delivery

CONSTANTS p1, p2, k1, k2


=============================================================================
