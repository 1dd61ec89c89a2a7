------------------------------ MODULE Delivery ------------------------------
(***************************************************************************)
(* How messages get from Kafka to the push worker.                         *)
(*                                                                         *)
(* Every pod starts one consumer of the group "offlinepush:group"          *)
(* (internal/component/consumer.go) and calls cg.Consume once.  The client *)
(* library joins the group, is assigned partitions, and for each of them   *)
(* passes batches of messages to BatchConsume, which gives every message   *)
(* to a goroutine of the work pool and waits for all of them               *)
(* (internal/component/worker.go).  When BatchConsume returns the library  *)
(* marks the batch, and commits marked offsets from time to time and at    *)
(* the end of a session.  A session ends when the group changes, and       *)
(* Consume returns with it.                                                *)
(*                                                                         *)
(* Pushes within a batch happen in any order.  A batch of no messages,     *)
(* with which the library also calls BatchConsume, changes nothing.        *)
(***************************************************************************)
EXTENDS Naturals, FiniteSets

CONSTANTS
  Pods,
  Partitions,   \* of the topics of pushconfig.PushMap
  BatchSize,    \* the most messages of a batch
  NoOffset,     \* the group has not committed an offset of the partition
  MaxMessages,  \* bounds: messages of a partition, and faults of each kind
  MaxCrashes,
  MaxExpulsions,
  MaxErrors

ASSUME DeliveryAssumption ==
  /\ BatchSize \in Nat \ {0}
  /\ NoOffset \notin Nat
  /\ {MaxMessages, MaxCrashes, MaxExpulsions, MaxErrors} \subseteq Nat

VARIABLES
  \* Kafka
  log,          \* log[k]: the number of messages of partition k
  committed,    \* the offset the group has committed of k
  rebalancing,  \* a pod has joined or left since partitions were assigned
  \* a pod
  consumer,     \* the consumer group's goroutine
  claim,        \* claim[p][k]: the goroutine that handles partition k for p
  \* bookkeeping
  pushed,       \* pushed[k][i]: how often message i of k was pushed
  start,        \* history: where the group last began k without an offset
  faults        \* how many faults of each kind happened

kafkaVars == <<log, committed, rebalancing>>
vars == <<kafkaVars, consumer, claim, pushed, start, faults>>

Offsets   == 0..(MaxMessages - 1)
Consumer  == {"down", "joining", "session", "ending", "expelled", "returned"}
Claim     == [at : {"off", "poll", "work"}, next : Nat, mark : Nat \cup {NoOffset}, left : SUBSET Offsets]
FaultKinds == {"crash", "expulsion", "error"}

NoClaim   == [at |-> "off", next |-> 0, mark |-> NoOffset, left |-> {}]
NoClaims  == [k \in Partitions |-> NoClaim]

TypeOK ==
  /\ log \in [Partitions -> 0..MaxMessages]
  /\ committed \in [Partitions -> Nat \cup {NoOffset}]
  /\ rebalancing \in BOOLEAN
  /\ consumer \in [Pods -> Consumer]
  /\ claim \in [Pods -> [Partitions -> Claim]]
  /\ pushed \in [Partitions -> [Offsets -> Nat]]
  /\ start \in [Partitions -> Nat]
  /\ faults \in [FaultKinds -> Nat]

\* A group that is new, or has consumed before.
Init ==
  /\ log = [k \in Partitions |-> 0]
  /\ committed \in [Partitions -> {NoOffset, 0}]
  /\ rebalancing = FALSE
  /\ consumer = [p \in Pods |-> "down"]
  /\ claim = [p \in Pods |-> NoClaims]
  /\ pushed = [k \in Partitions |-> [i \in Offsets |-> 0]]
  /\ start = [k \in Partitions |-> 0]
  /\ faults = [f \in FaultKinds |-> 0]

Fault(kind, max) ==
  /\ faults[kind] < max
  /\ faults' = [faults EXCEPT ![kind] = @ + 1]

\* A producer's message arrives.
Send(k) ==
  /\ log[k] < MaxMessages
  /\ log' = [log EXCEPT ![k] = @ + 1]
  /\ UNCHANGED <<committed, rebalancing, consumer, claim, pushed, start, faults>>

-----------------------------------------------------------------------------
(***************************************************************************)
(* The group                                                               *)
(***************************************************************************)

\* Consumer.Run: StartBatch creates the group client and calls Consume, in a
\* goroutine that ends when it returns.  Consume joins the group.
Run(p) ==
  /\ consumer[p] = "down"
  /\ consumer' = [consumer EXCEPT ![p] = "joining"]
  /\ rebalancing' = TRUE
  /\ UNCHANGED <<log, committed, claim, pushed, start, faults>>

\* Consume fails before it has a session: the error is logged, and the goroutine
\* ends as it does after a session.
JoinFails(p) ==
  /\ consumer[p] = "joining"
  /\ Fault("error", MaxErrors)
  /\ consumer' = [consumer EXCEPT ![p] = "returned"]
  /\ UNCHANGED <<kafkaVars, claim, pushed, start>>

\* A heartbeat tells a member that the group is changing.
Heartbeat(p) ==
  /\ rebalancing
  /\ consumer[p] = "session"
  /\ consumer' = [consumer EXCEPT ![p] = "ending"]
  /\ UNCHANGED <<kafkaVars, claim, pushed, start, faults>>

\* What the group commits of the partitions that p handles.
Flushed(p) == [k \in Partitions |->
  IF claim[p][k].mark = NoOffset THEN committed[k] ELSE claim[p][k].mark]

\* Marked offsets are committed from time to time ...
Commit(p) ==
  /\ consumer[p] \in {"session", "ending"}
  /\ committed' = Flushed(p)
  /\ UNCHANGED <<log, rebalancing, consumer, claim, pushed, start, faults>>

\* Mutant: the session does not flush.
EndSessionUnflushed(p) ==
  /\ consumer[p] \in {"ending", "expelled"}
  /\ \A k \in Partitions : claim[p][k].at # "work"
  /\ consumer' = [consumer EXCEPT ![p] = "returned"]
  /\ claim' = [claim EXCEPT ![p] = NoClaims]
  /\ UNCHANGED <<kafkaVars, pushed, start, faults>>

\* Mutant: an expelled member's offsets are accepted.
EndSessionLate(p) ==
  /\ consumer[p] \in {"ending", "expelled"}
  /\ \A k \in Partitions : claim[p][k].at # "work"
  /\ consumer' = [consumer EXCEPT ![p] = "returned"]
  /\ claim' = [claim EXCEPT ![p] = NoClaims]
  /\ committed' = Flushed(p)
  /\ UNCHANGED <<log, rebalancing, pushed, start, faults>>

\* ... and, once the handlers are back, when the session ends, unless the group
\* has gone on without this member.  Consume returns, and with it the goroutine.
EndSession(p) ==
  /\ consumer[p] \in {"ending", "expelled"}
  /\ \A k \in Partitions : claim[p][k].at # "work"
  /\ consumer' = [consumer EXCEPT ![p] = "returned"]
  /\ claim' = [claim EXCEPT ![p] = NoClaims]
  /\ committed' = IF consumer[p] = "expelled" THEN committed ELSE Flushed(p)
  /\ UNCHANGED <<log, rebalancing, pushed, start, faults>>

Joining == {p \in Pods : consumer[p] = "joining"}

\* Mutant: no initial offset.
BeginUnset(k) == committed[k]

\* A partition is handled from the committed offset on.  The client is not
\* configured otherwise, so without one it begins with the messages to come.
Begin(k) == IF committed[k] = NoOffset THEN log[k] ELSE committed[k]

\* With the old sessions over, the partitions are divided among those who joined.
Assign ==
  /\ rebalancing /\ Joining # {}
  /\ \A p \in Pods : consumer[p] \notin {"session", "ending"}
  /\ \E member \in [Partitions -> Joining] :
       claim' = [p \in Pods |->
         IF p \notin Joining THEN claim[p]
         ELSE [k \in Partitions |->
                IF member[k] # p THEN NoClaim
                ELSE [at |-> "poll", next |-> Begin(k), mark |-> NoOffset, left |-> {}]]]
  /\ consumer' = [p \in Pods |-> IF p \in Joining THEN "session" ELSE consumer[p]]
  /\ start' = [k \in Partitions |-> IF committed[k] = NoOffset THEN log[k] ELSE start[k]]
  /\ rebalancing' = FALSE
  /\ UNCHANGED <<log, committed, pushed, faults>>

\* The group does not hear from a member in time and goes on without it.
Expel(p) ==
  /\ consumer[p] \in {"session", "ending"}
  /\ Fault("expulsion", MaxExpulsions)
  /\ consumer' = [consumer EXCEPT ![p] = "expelled"]
  /\ rebalancing' = TRUE
  /\ UNCHANGED <<log, committed, claim, pushed, start>>

\* The process ends.
Crash(p) ==
  /\ consumer[p] # "down"
  /\ Fault("crash", MaxCrashes)
  /\ consumer' = [consumer EXCEPT ![p] = "down"]
  /\ claim' = [claim EXCEPT ![p] = NoClaims]
  /\ rebalancing' = (rebalancing \/ consumer[p] \in {"session", "ending"})
  /\ UNCHANGED <<log, committed, pushed, start>>

-----------------------------------------------------------------------------
(***************************************************************************)
(* Batches                                                                 *)
(***************************************************************************)

\* Mutant: waits for a full batch.
BatchConsumeFull(p, k) ==
  /\ consumer[p] \in {"session", "expelled"}
  /\ claim[p][k].at = "poll"
  /\ LET from == claim[p][k].next
         n == BatchSize IN
       /\ from + n <= log[k]
       /\ claim' = [claim EXCEPT ![p][k].at = "work", ![p][k].next = from + n,
                                 ![p][k].left = from..(from + n - 1)]
  /\ UNCHANGED <<kafkaVars, consumer, pushed, start, faults>>

\* The handler has read some messages and calls BatchConsume, which hands each
\* of them to a goroutine of the pool.  The pool has no limit and is never
\* released, so that Invoke returns no error: that branch, after which wg.Wait
\* would wait for ever, is left out.
BatchConsume(p, k) ==
  /\ consumer[p] \in {"session", "expelled"}
  /\ claim[p][k].at = "poll"
  /\ \E n \in 1..BatchSize :
       LET from == claim[p][k].next IN
       /\ from + n <= log[k]
       /\ claim' = [claim EXCEPT ![p][k].at = "work", ![p][k].next = from + n,
                                 ![p][k].left = from..(from + n - 1)]
  /\ UNCHANGED <<kafkaVars, consumer, pushed, start, faults>>

\* A goroutine of the pool: Push, and then Wg.Done.
Work(p, k) ==
  /\ \E i \in claim[p][k].left :
       /\ pushed' = [pushed EXCEPT ![k][i] = @ + 1]
       /\ claim' = [claim EXCEPT ![p][k].left = @ \ {i}]
  /\ UNCHANGED <<kafkaVars, consumer, start, faults>>

\* Mutant: no wg.Wait.
BatchDoneEarly(p, k) ==
  /\ claim[p][k].at = "work"
  /\ LET c == claim[p][k] IN
       claim' = [claim EXCEPT ![p][k] =
                   [at |-> "poll", next |-> c.next, mark |-> c.next, left |-> c.left]]
  /\ UNCHANGED <<kafkaVars, consumer, pushed, start, faults>>

\* wg.Wait returns, BatchConsume does, and the handler marks the batch.
BatchDone(p, k) ==
  /\ claim[p][k].at = "work"
  /\ claim[p][k].left = {}
  /\ LET c == claim[p][k] IN
       claim' = [claim EXCEPT ![p][k] =
                   [at |-> "poll", next |-> c.next, mark |-> c.next, left |-> {}]]
  /\ UNCHANGED <<kafkaVars, consumer, pushed, start, faults>>

-----------------------------------------------------------------------------
Group(p) == Run(p) \/ Heartbeat(p) \/ EndSession(p)
Handle(p, k) == BatchConsume(p, k) \/ Work(p, k) \/ BatchDone(p, k)

Next ==
  \/ Assign
  \/ \E k \in Partitions : Send(k)
  \/ \E p \in Pods : \/ Group(p) \/ Commit(p) \/ JoinFails(p) \/ Expel(p) \/ Crash(p)
                     \/ \E k \in Partitions : Handle(p, k)

Spec == Init /\ [][Next]_vars

\* The library's goroutines and the pool's are scheduled, pods are started
\* again, and the coordinator completes a rebalance.
Fairness ==
  /\ WF_vars(Assign)
  /\ \A p \in Pods : /\ WF_vars(Group(p))
                     /\ \A k \in Partitions : WF_vars(Handle(p, k))

FairSpec == Spec /\ Fairness

-----------------------------------------------------------------------------
(***************************************************************************)
(* Properties                                                              *)
(***************************************************************************)

Pushed(k) == {i \in Offsets : pushed[k][i] > 0}

\* An offset is committed only when every message before it has been pushed,
\* counted from where the group last began the partition without an offset.
\* Once there is an offset, neither the goroutines of a batch, which finish in
\* any order, nor the end of a session, a crash or an expulsion in the middle
\* of a batch lets a message be passed over.  Until there is one, every
\* assignment begins at the end of the partition again, and may pass over what
\* was sent since the one before, read or not: this is not promised.
CommittedArePushed == \A k \in Partitions :
  committed[k] # NoOffset => start[k]..(committed[k] - 1) \subseteq Pushed(k)

\* Rebalances alone never push a message again; every crash or expulsion can
\* do so once.
PushedAgainOnlyByFault == \A k \in Partitions : \A i \in Offsets :
  pushed[k][i] <= 1 + faults["crash"] + faults["expulsion"]

\* Messages reach the worker as AtLeastOnce promises; in particular an
\* expelled member cannot take back what its successor has committed.
Promise == INSTANCE AtLeastOnce WITH acked <- committed,
             delivered <- [k \in Partitions |-> Pushed(k)]
PromiseKept == Promise!Spec

\* While a session goes on, every message of its partitions gets pushed.
Serving(p, k) == consumer[p] = "session" /\ claim[p][k].at # "off"
AllPushed(k)  == start[k]..(log[k] - 1) \subseteq Pushed(k)

ServedToTheEnd == \A p \in Pods, k \in Partitions :
  <>[]Serving(p, k) => <>[]AllPushed(k)

-----------------------------------------------------------------------------
(***************************************************************************)
(* What a comment says and the code does not do.                           *)
(***************************************************************************)

\* consumer.go calls what the goroutine runs a "consume loop": messages are
\* consumed as long as pods run, whatever sessions end.
EveryMessagePushed == \A k \in Partitions : <>[]AllPushed(k)

=============================================================================
