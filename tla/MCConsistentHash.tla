-------------------------- MODULE MCConsistentHash --------------------------
(***************************************************************************)
(* Small instances of ConsistentHash for TLC.                              *)
(***************************************************************************)
EXTENDS ConsistentHash

CONSTANTS p1, p2, p3, t1, t2, t3

\* A ring of three points per device type: the owner is the first node met
\* clockwise, as in a consistent hash.
Clockwise == [t \in Types |-> CASE t = t1 -> <<p1, p2, p3>>
                                [] t = t2 -> <<p2, p3, p1>>
                                [] OTHER  -> <<p3, p1, p2>>]

MCOwner == [S \in SUBSET Pods |-> [t \in Types |->
  IF S = {} THEN NoPod
  ELSE LET first == CHOOSE i \in 1..3 :
             /\ Clockwise[t][i] \in S
             /\ \A j \in 1..(i - 1) : Clockwise[t][j] \notin S
       IN Clockwise[t][first]]]

=============================================================================
