------------------------------ MODULE HashRing ------------------------------
(***************************************************************************)
(* The consistent-hash ring of github.com/serialx/hashring as              *)
(* internal/component/hash.go uses it: hashring.New(nodes), AddNode and    *)
(* RemoveNode build a ring from a set of pod names, and GetNode(t) names   *)
(* the pod that owns device type t.  The library is not in the repository; *)
(* what the code relies on is that GetNode is a function of the set of     *)
(* nodes, that it names a node of the ring, that it names none when the    *)
(* ring is empty, and that a node that joins takes types over but moves    *)
(* none between the others.  A ring is therefore the set of its nodes.     *)
(***************************************************************************)
CONSTANTS
  Pods,    \* names of the service instances (config.Register.PodName)
  Types,   \* device types (deviceconfig.Devices)
  NoPod,   \* the "" that GetNode returns on an empty ring
  Owner    \* Owner[ring][t]: the node that GetNode(t) returns

ASSUME OwnerAssumption ==
  /\ NoPod \notin Pods
  /\ Owner \in [SUBSET Pods -> [Types -> Pods \cup {NoPod}]]
  /\ \A S \in (SUBSET Pods) \ {{}} : \A t \in Types : Owner[S][t] \in S
  /\ \A t \in Types : Owner[{}][t] = NoPod

\* Consistent hashing: the points of a node depend on its name alone, so that the
\* owner on a larger ring, if the smaller one has it, is the owner there too.
ASSUME MonotoneAssumption ==
  \A R \in SUBSET Pods : \A S \in SUBSET R : \A t \in Types :
    Owner[R][t] \in S => Owner[S][t] = Owner[R][t]

\* ConsistentHash.hash: the device types pod p must produce for, on ring S.
KeysOf(S, p) == {t \in Types : Owner[S][t] = p}

=============================================================================
