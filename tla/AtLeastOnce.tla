----------------------------- MODULE AtLeastOnce -----------------------------
(***************************************************************************)
(* What the consumers promise about the messages of a partition: that one  *)
(* is acknowledged only after it has been delivered, and that what is      *)
(* acknowledged stays so.  A message may be delivered again.  The promise  *)
(* begins at the offset start: until something is acknowledged, a consumer *)
(* may begin at the end of the partition and pass over what is before.     *)
(***************************************************************************)
EXTENDS Naturals

CONSTANTS
  Partitions,
  NoOffset      \* no offset of the partition has been acknowledged; not a number

VARIABLES
  log,          \* log[k]: the number of messages of partition k
  start,        \* the first message of k that is promised to be delivered
  acked,        \* the first message of k that is not acknowledged
  delivered     \* the messages of k that have been delivered

vars == <<log, start, acked, delivered>>

Init ==
  /\ log = [k \in Partitions |-> 0]
  /\ start = [k \in Partitions |-> 0]
  /\ acked \in [Partitions -> {NoOffset, 0}]
  /\ delivered = [k \in Partitions |-> {}]

Send(k) ==
  /\ log' = [log EXCEPT ![k] = @ + 1]
  /\ UNCHANGED <<start, acked, delivered>>

\* Consumers begin with partitions that nothing has been acknowledged of.
BeginAtEnd(K) ==
  /\ \A k \in K : acked[k] = NoOffset
  /\ start' = [k \in Partitions |-> IF k \in K THEN log[k] ELSE start[k]]
  /\ UNCHANGED <<log, acked, delivered>>

Deliver(k, i) ==
  /\ i < log[k]
  /\ delivered' = [delivered EXCEPT ![k] = @ \cup {i}]
  /\ UNCHANGED <<log, start, acked>>

\* All messages of k before n may be acknowledged.
Acknowledgeable(k, n) ==
  /\ n \in start[k]..log[k]
  /\ acked[k] # NoOffset => acked[k] < n
  /\ start[k]..(n - 1) \subseteq delivered[k]

\* Some partitions are acknowledged further than before.
Acknowledge ==
  /\ DOMAIN acked' = Partitions
  /\ \A k \in Partitions : acked'[k] # acked[k] => Acknowledgeable(k, acked'[k])
  /\ UNCHANGED <<log, start, delivered>>

Next ==
  \/ \E K \in SUBSET Partitions : BeginAtEnd(K)
  \/ Acknowledge
  \/ \E k \in Partitions : Send(k) \/ \E i \in 0..log[k] : Deliver(k, i)

Spec == Init /\ [][Next]_vars

=============================================================================
