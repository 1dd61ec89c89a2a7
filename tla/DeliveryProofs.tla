--------------------------- MODULE DeliveryProofs ---------------------------
(***************************************************************************)
(* Proofs about Delivery, for every number of pods, partitions, messages   *)
(* and faults, and every size of a batch: nothing is acknowledged before   *)
(* it is pushed, each crash or expulsion has a message pushed again at     *)
(* most once, and Delivery implements AtLeastOnce.                         *)
(***************************************************************************)
EXTENDS Delivery, FiniteSetTheorems, TLAPS

-----------------------------------------------------------------------------
(***************************************************************************)
(* Types                                                                   *)
(***************************************************************************)

LEMMA NoClaimType == NoClaims \in [Partitions -> Claim]
BY DEF NoClaims, NoClaim, Claim

LEMMA TypeInit == Init => TypeOK
<1> SUFFICES ASSUME Init PROVE TypeOK
  OBVIOUS
<1>1. log \in [Partitions -> 0..MaxMessages] /\ start \in [Partitions -> Nat]
  BY DeliveryAssumption DEF Init
<1>2. claim \in [Pods -> [Partitions -> Claim]]
  BY NoClaimType DEF Init
<1>3. committed \in [Partitions -> Nat \cup {NoOffset}]
  BY DEF Init
<1>4. pushed \in [Partitions -> [Offsets -> Nat]] /\ faults \in [FaultKinds -> Nat]
  BY DEF Init
<1> QED BY <1>1, <1>2, <1>3, <1>4 DEF Init, TypeOK, Consumer

LEMMA FaultType ==
  ASSUME faults \in [FaultKinds -> Nat], NEW kind \in FaultKinds, NEW max, Fault(kind, max)
  PROVE  faults' \in [FaultKinds -> Nat]
BY DEF Fault

LEMMA FlushedType ==
  ASSUME TypeOK, NEW p \in Pods
  PROVE  Flushed(p) \in [Partitions -> Nat \cup {NoOffset}]
BY DEF TypeOK, Flushed, Claim

\* A claim changes, and no other.
LEMMA ClaimUpdated ==
  ASSUME TypeOK, NEW p \in Pods, NEW k \in Partitions, NEW d,
         claim' = [claim EXCEPT ![p] = [claim[p] EXCEPT ![k] = d]]
  PROVE  /\ claim'[p][k] = d
         /\ \A q \in Pods, j \in Partitions : q # p \/ j # k => claim'[q][j] = claim[q][j]
         /\ d \in Claim => claim' \in [Pods -> [Partitions -> Claim]]
BY DEF TypeOK

\* BatchConsume changes the claim of p on k to one that is at work on n messages.
Batch(c, n) == [at |-> "work", next |-> c.next + n, mark |-> c.mark,
                left |-> c.next..(c.next + n - 1)]

LEMMA BatchConsumed ==
  ASSUME TypeOK, NEW p \in Pods, NEW k \in Partitions, BatchConsume(p, k)
  PROVE  \E n \in 1..BatchSize :
           /\ claim[p][k].next + n <= log[k]
           /\ claim' = [claim EXCEPT ![p] =
                          [claim[p] EXCEPT ![k] = Batch(claim[p][k], n)]]
<1>1. PICK n \in 1..BatchSize :
        /\ claim[p][k].next + n <= log[k]
        /\ claim' = [claim EXCEPT ![p][k].at = "work",
                                  ![p][k].next = claim[p][k].next + n,
                                  ![p][k].left = claim[p][k].next..(claim[p][k].next + n - 1)]
  BY DEF BatchConsume
<1>2. claim \in [Pods -> [Partitions -> Claim]] /\ claim[p][k] \in Claim
  BY DEF TypeOK
<1>3. claim' = [claim EXCEPT ![p] = [claim[p] EXCEPT ![k] = Batch(claim[p][k], n)]]
  BY <1>1, <1>2 DEF Claim, Batch
<1> QED BY <1>1, <1>3

\* Work takes one message off the claim.
LEMMA Worked ==
  ASSUME TypeOK, NEW p \in Pods, NEW k \in Partitions, Work(p, k)
  PROVE  \E i \in claim[p][k].left :
           /\ pushed' = [pushed EXCEPT ![k] = [pushed[k] EXCEPT ![i] = pushed[k][i] + 1]]
           /\ claim' = [claim EXCEPT ![p] = [claim[p] EXCEPT ![k] =
                [claim[p][k] EXCEPT !.left = claim[p][k].left \ {i}]]]
<1>1. PICK i \in claim[p][k].left :
        /\ pushed' = [pushed EXCEPT ![k][i] = @ + 1]
        /\ claim' = [claim EXCEPT ![p][k].left = @ \ {i}]
  BY DEF Work
<1> QED BY <1>1 DEF TypeOK, Claim

\* BatchDone marks what the claim has read.
Marked(c) == [at |-> "poll", next |-> c.next, mark |-> c.next, left |-> {}]

LEMMA MarkedType == \A c \in Claim : Marked(c) \in Claim
BY DEF Claim, Marked

LEMMA BatchMarked ==
  ASSUME TypeOK, NEW p \in Pods, NEW k \in Partitions, BatchDone(p, k)
  PROVE  claim' = [claim EXCEPT ![p] = [claim[p] EXCEPT ![k] = Marked(claim[p][k])]]
BY DEF BatchDone, Marked, TypeOK

LEMMA HandleType ==
  ASSUME TypeOK, NEW p \in Pods, NEW k \in Partitions, Handle(p, k)
  PROVE  TypeOK'
<1>1. /\ claim \in [Pods -> [Partitions -> Claim]] /\ claim[p][k] \in Claim
      /\ log[k] \in 0..MaxMessages /\ MaxMessages \in Nat
      /\ pushed \in [Partitions -> [Offsets -> Nat]]
  BY DeliveryAssumption DEF TypeOK
<1>2. CASE BatchConsume(p, k)
  <2>1. PICK n \in 1..BatchSize :
          /\ claim[p][k].next + n <= log[k]
          /\ claim' = [claim EXCEPT ![p] =
                         [claim[p] EXCEPT ![k] = Batch(claim[p][k], n)]]
    BY <1>2, BatchConsumed
  <2>2. n \in Nat /\ claim[p][k].next \in Nat /\ claim[p][k].mark \in Nat \cup {NoOffset}
    BY <1>1, <2>1, DeliveryAssumption DEF Claim
  <2>3. claim[p][k].next..(claim[p][k].next + n - 1) \subseteq Offsets
    BY <1>1, <2>1, <2>2 DEF Offsets
  <2>4. Batch(claim[p][k], n) \in Claim
    BY <2>2, <2>3 DEF Claim, Batch
  <2>5. claim' \in [Pods -> [Partitions -> Claim]]
    BY <2>1, <2>4, ClaimUpdated
  <2> QED BY <1>2, <2>5 DEF BatchConsume, TypeOK, kafkaVars
<1>3. CASE Work(p, k)
  <2>1. PICK i \in claim[p][k].left :
          /\ pushed' = [pushed EXCEPT ![k] = [pushed[k] EXCEPT ![i] = pushed[k][i] + 1]]
          /\ claim' = [claim EXCEPT ![p] = [claim[p] EXCEPT ![k] =
               [claim[p][k] EXCEPT !.left = claim[p][k].left \ {i}]]]
    BY <1>3, Worked
  <2>2. i \in Offsets
    BY <1>1, <2>1 DEF Claim
  <2>3. claim' \in [Pods -> [Partitions -> Claim]]
    BY <1>1, <2>1 DEF Claim
  <2>4. pushed' \in [Partitions -> [Offsets -> Nat]]
    BY <1>1, <2>1, <2>2
  <2> QED BY <1>3, <2>3, <2>4 DEF Work, TypeOK, kafkaVars
<1>4. CASE BatchDone(p, k)
  <2>1. Marked(claim[p][k]) \in Claim
    BY <1>1, MarkedType
  <2>2. claim' = [claim EXCEPT ![p] = [claim[p] EXCEPT ![k] = Marked(claim[p][k])]]
    BY <1>4, BatchMarked
  <2>3. claim' \in [Pods -> [Partitions -> Claim]]
    BY <2>1, <2>2, ClaimUpdated
  <2> QED BY <1>4, <2>3 DEF BatchDone, TypeOK, kafkaVars
<1> QED BY <1>2, <1>3, <1>4 DEF Handle

LEMMA TypeNext == TypeOK /\ [Next]_vars => TypeOK'
<1> SUFFICES ASSUME TypeOK, [Next]_vars PROVE TypeOK'
  OBVIOUS
<1>1. CASE Assign
  <2>1. PICK member \in [Partitions -> Joining] :
          claim' = [p \in Pods |->
            IF p \notin Joining THEN claim[p]
            ELSE [k \in Partitions |->
                   IF member[k] # p THEN NoClaim
                   ELSE [at |-> "poll", next |-> Begin(k), mark |-> NoOffset, left |-> {}]]]
    BY <1>1 DEF Assign
  <2>2. \A k \in Partitions : Begin(k) \in Nat /\ log[k] \in Nat
    BY DEF TypeOK, Begin
  <2>3. claim' \in [Pods -> [Partitions -> Claim]]
    BY <2>1, <2>2 DEF TypeOK, NoClaim, Claim
  <2>4. start' \in [Partitions -> Nat]
    BY <1>1, <2>2 DEF Assign, TypeOK
  <2>5. consumer' \in [Pods -> Consumer]
    BY <1>1 DEF Assign, TypeOK, Consumer
  <2> QED BY <1>1, <2>3, <2>4, <2>5 DEF Assign, TypeOK
<1>2. ASSUME NEW k \in Partitions, Send(k) PROVE TypeOK'
  <2>1. log' \in [Partitions -> 0..MaxMessages]
    BY <1>2, DeliveryAssumption DEF Send, TypeOK
  <2> QED BY <1>2, <2>1 DEF Send, TypeOK
<1>3. ASSUME NEW p \in Pods, Run(p) \/ Heartbeat(p) PROVE TypeOK'
  BY <1>3 DEF Run, Heartbeat, TypeOK, Consumer, kafkaVars
<1>4. ASSUME NEW p \in Pods, Commit(p) PROVE TypeOK'
  BY <1>4, FlushedType DEF Commit, TypeOK
<1>5. ASSUME NEW p \in Pods, EndSession(p) PROVE TypeOK'
  <2>1. committed' \in [Partitions -> Nat \cup {NoOffset}]
    BY <1>5, FlushedType DEF EndSession, TypeOK
  <2>2. claim' \in [Pods -> [Partitions -> Claim]] /\ consumer' \in [Pods -> Consumer]
    BY <1>5, NoClaimType DEF EndSession, TypeOK, Consumer
  <2> QED BY <1>5, <2>1, <2>2 DEF EndSession, TypeOK
<1>6. ASSUME NEW p \in Pods, JoinFails(p) \/ Expel(p) \/ Crash(p) PROVE TypeOK'
  <2>1. faults' \in [FaultKinds -> Nat]
    BY <1>6, FaultType DEF JoinFails, Expel, Crash, TypeOK, FaultKinds
  <2>2. claim' \in [Pods -> [Partitions -> Claim]] /\ consumer' \in [Pods -> Consumer]
    BY <1>6, NoClaimType DEF JoinFails, Expel, Crash, TypeOK, Consumer
  <2> QED BY <1>6, <2>1, <2>2 DEF JoinFails, Expel, Crash, TypeOK, kafkaVars
<1>7. CASE UNCHANGED vars
  BY <1>7 DEF vars, kafkaVars, TypeOK
<1> QED BY <1>1, <1>2, <1>3, <1>4, <1>5, <1>6, <1>7, HandleType DEF Next, Group

\* Every variable of Delivery keeps its type; in particular a claim never
\* reads past the messages there are.
THEOREM TypeCorrect == Spec => []TypeOK
BY TypeInit, TypeNext, PTL DEF Spec

-----------------------------------------------------------------------------
(***************************************************************************)
(* The inductive invariant                                                 *)
(***************************************************************************)

\* A member of the group's current generation, and the partitions it handles.
Member(p)     == consumer[p] \in {"session", "ending"}
Handles(p, k) == Member(p) /\ claim[p][k].at # "off"

\* No partition is handled by two members.
OneHandler == \A p, q \in Pods, k \in Partitions :
  Handles(p, k) /\ Handles(q, k) => p = q

\* A claim, be it a member's or that of a pod which was expelled, is on
\* messages that exist.
ClaimOK(p, k) ==
  /\ claim[p][k].next <= log[k]
  /\ claim[p][k].left \subseteq 0..(log[k] - 1)
  /\ claim[p][k].at # "work" => claim[p][k].left = {}
  /\ claim[p][k].at = "off" => claim[p][k].mark = NoOffset

\* What the group has committed of k has been pushed.
CommittedOK(k) ==
  /\ start[k] <= log[k]
  /\ committed[k] # NoOffset =>
       /\ start[k] <= committed[k] /\ committed[k] <= log[k]
       /\ start[k]..(committed[k] - 1) \subseteq Pushed(k)

\* What a member has read of k has been pushed, or is in the batch at work;
\* what it has marked has been pushed, and is not behind what is committed.
ProgressOK(p, k) == Handles(p, k) =>
  /\ start[k] <= claim[p][k].next
  /\ start[k]..(claim[p][k].next - 1) \subseteq Pushed(k) \cup claim[p][k].left
  /\ committed[k] # NoOffset => committed[k] <= claim[p][k].next
  /\ claim[p][k].mark # NoOffset =>
       /\ start[k] <= claim[p][k].mark /\ claim[p][k].mark <= claim[p][k].next
       /\ start[k]..(claim[p][k].mark - 1) \subseteq Pushed(k)
       /\ committed[k] # NoOffset => committed[k] <= claim[p][k].mark

DeliveryInv ==
  /\ TypeOK
  /\ OneHandler
  /\ \A k \in Partitions : CommittedOK(k)
  /\ \A p \in Pods, k \in Partitions : ClaimOK(p, k) /\ ProgressOK(p, k)

-----------------------------------------------------------------------------
(***************************************************************************)
(* The steps that preserve it                                              *)
(***************************************************************************)

LEMMA Types ==
  ASSUME TypeOK
  PROVE  /\ \A k \in Partitions : /\ log[k] \in Nat /\ start[k] \in Nat
                                  /\ committed[k] \in Nat \cup {NoOffset}
                                  /\ \A i \in Offsets : pushed[k][i] \in Nat
         /\ \A p \in Pods, k \in Partitions :
              /\ claim[p][k] \in Claim
              /\ claim[p][k].next \in Nat
              /\ claim[p][k].mark \in Nat \cup {NoOffset}
              /\ claim[p][k].left \in SUBSET Offsets
BY DeliveryAssumption DEF TypeOK, Claim

LEMMA InvInit == Init => DeliveryInv
<1> SUFFICES ASSUME Init PROVE DeliveryInv
  OBVIOUS
<1>1. TypeOK
  BY TypeInit
<1>2. \A p \in Pods, k \in Partitions : ~Handles(p, k)
  BY DEF Init, Handles, Member
<1>3. \A p \in Pods, k \in Partitions : ClaimOK(p, k)
  BY DEF Init, ClaimOK, NoClaims, NoClaim
<1>4. \A k \in Partitions : CommittedOK(k)
  BY DeliveryAssumption DEF Init, CommittedOK
<1> QED BY <1>1, <1>2, <1>3, <1>4 DEF DeliveryInv, OneHandler, ProgressOK

\* Messages arrive and members leave; claims and offsets stay.
LEMMA Unclaimed ==
  ASSUME DeliveryInv, TypeOK',
         UNCHANGED <<committed, claim, pushed, start>>,
         \A k \in Partitions : log[k] <= log'[k],
         \A p \in Pods : Member(p)' => Member(p)
  PROVE  DeliveryInv'
<1>1. \A k \in Partitions : /\ log[k] \in Nat /\ log'[k] \in Nat /\ log[k] <= log'[k]
                            /\ start[k] \in Nat /\ committed[k] \in Nat \cup {NoOffset}
                            /\ Pushed(k)' = Pushed(k)
  BY Types DEF DeliveryInv, TypeOK, Pushed
<1>2. \A p \in Pods, k \in Partitions : Handles(p, k)' => Handles(p, k)
  BY DEF Handles
<1>3. \A p \in Pods, k \in Partitions : ClaimOK(p, k)'
  BY <1>1, Types DEF DeliveryInv, ClaimOK
<1>4. \A k \in Partitions : CommittedOK(k)'
  BY <1>1 DEF DeliveryInv, CommittedOK
<1>5. \A p \in Pods, k \in Partitions : ProgressOK(p, k)'
  BY <1>1, <1>2 DEF DeliveryInv, ProgressOK
<1> QED BY <1>2, <1>3, <1>4, <1>5 DEF DeliveryInv, OneHandler

\* What a member flushes has been pushed, and takes nothing back.
LEMMA FlushOK ==
  ASSUME DeliveryInv, NEW p \in Pods, Member(p), NEW k \in Partitions,
         Flushed(p)[k] # committed[k]
  PROVE  /\ Handles(p, k)
         /\ Flushed(p)[k] = claim[p][k].mark /\ Flushed(p)[k] # NoOffset
         /\ start[k] <= Flushed(p)[k] /\ Flushed(p)[k] <= log[k]
         /\ start[k]..(Flushed(p)[k] - 1) \subseteq Pushed(k)
         /\ committed[k] # NoOffset => committed[k] < Flushed(p)[k]
<1>1. Flushed(p)[k] = claim[p][k].mark /\ claim[p][k].mark # NoOffset
  BY DEF Flushed
<1>2. Handles(p, k)
  BY <1>1 DEF Handles, DeliveryInv, ClaimOK
<1>3. /\ start[k] \in Nat /\ log[k] \in Nat /\ claim[p][k].next \in Nat
      /\ claim[p][k].mark \in Nat /\ committed[k] \in Nat \cup {NoOffset}
  BY <1>1, Types DEF DeliveryInv
<1> QED BY <1>1, <1>2, <1>3 DEF DeliveryInv, ProgressOK, ClaimOK

\* A member flushes, and its claims stay or, with the session, end.
LEMMA Flushing ==
  ASSUME DeliveryInv, TypeOK', NEW p \in Pods, Member(p),
         committed' = Flushed(p), UNCHANGED <<log, pushed, start>>,
         \A q \in Pods : claim'[q] = claim[q] \/ (claim'[q] = NoClaims /\ ~Member(q)'),
         \A q \in Pods : Member(q)' => Member(q)
  PROVE  DeliveryInv'
<1>1. \A k \in Partitions : /\ Pushed(k)' = Pushed(k) /\ log[k] \in Nat /\ start[k] \in Nat
                            /\ committed'[k] = Flushed(p)[k]
  BY Types DEF DeliveryInv, Pushed
<1>2. \A q \in Pods, k \in Partitions : Handles(q, k)' =>
        Handles(q, k) /\ claim'[q][k] = claim[q][k]
  BY DEF Handles
<1>3. \A q \in Pods, k \in Partitions : ClaimOK(q, k)'
  BY <1>1 DEF DeliveryInv, ClaimOK, NoClaims, NoClaim
<1>4. \A k \in Partitions : CommittedOK(k)'
  BY <1>1, FlushOK DEF DeliveryInv, CommittedOK
<1>5. ASSUME NEW q \in Pods, NEW k \in Partitions, Handles(q, k)'
      PROVE  ProgressOK(q, k)'
  <2>1. Handles(q, k) /\ claim'[q][k] = claim[q][k]
    BY <1>2, <1>5
  <2>2. CASE committed'[k] = committed[k]
    BY <1>1, <2>1, <2>2 DEF DeliveryInv, ProgressOK
  <2>3. CASE committed'[k] # committed[k]
    <3>1. Handles(p, k) /\ committed'[k] = claim[p][k].mark /\ claim[p][k].mark # NoOffset
      BY <1>1, <2>3, FlushOK
    <3>2. q = p
      BY <2>1, <3>1 DEF DeliveryInv, OneHandler
    <3>3. claim[p][k].mark \in Nat /\ claim[p][k].next \in Nat
      BY <3>1, Types DEF DeliveryInv
    <3> QED BY <1>1, <2>1, <3>1, <3>2, <3>3 DEF DeliveryInv, ProgressOK
  <2> QED BY <2>2, <2>3
<1> QED BY <1>2, <1>3, <1>4, <1>5 DEF DeliveryInv, OneHandler, ProgressOK

\* A pod's claims end, with its membership, and nothing is flushed.
LEMMA Leaving ==
  ASSUME DeliveryInv, TypeOK', NEW p \in Pods, ~Member(p)',
         UNCHANGED <<log, committed, pushed, start>>,
         claim' = [claim EXCEPT ![p] = NoClaims],
         \A q \in Pods : Member(q)' => Member(q)
  PROVE  DeliveryInv'
<1>1. \A k \in Partitions : Pushed(k)' = Pushed(k) /\ log[k] \in Nat
  BY Types DEF DeliveryInv, Pushed
<1>2. \A q \in Pods : q # p => claim'[q] = claim[q]
  BY DEF DeliveryInv, TypeOK
<1>3. claim'[p] = NoClaims
  BY DEF DeliveryInv, TypeOK
<1>4. \A q \in Pods, k \in Partitions : Handles(q, k)' => Handles(q, k) /\ q # p
  BY <1>2 DEF Handles
<1>5. \A q \in Pods, k \in Partitions : ClaimOK(q, k)'
  BY <1>1, <1>2, <1>3 DEF DeliveryInv, ClaimOK, NoClaims, NoClaim
<1>6. \A k \in Partitions : CommittedOK(k)'
  BY <1>1 DEF DeliveryInv, CommittedOK
<1>7. \A q \in Pods, k \in Partitions : ProgressOK(q, k)'
  BY <1>1, <1>2, <1>4 DEF DeliveryInv, ProgressOK
<1> QED BY <1>4, <1>5, <1>6, <1>7 DEF DeliveryInv, OneHandler

\* A claim that begins at offset n.
Begun(n) == [at |-> "poll", next |-> n, mark |-> NoOffset, left |-> {}]

LEMMA AssignInv ==
  ASSUME DeliveryInv, TypeOK', Assign
  PROVE  DeliveryInv'
<1>1. PICK member \in [Partitions -> Joining] :
        claim' = [p \in Pods |->
          IF p \notin Joining THEN claim[p]
          ELSE [k \in Partitions |->
                 IF member[k] # p THEN NoClaim
                 ELSE [at |-> "poll", next |-> Begin(k), mark |-> NoOffset, left |-> {}]]]
  BY DEF Assign
<1>2. \A p \in Joining, k \in Partitions :
        claim'[p][k] = IF member[k] # p THEN NoClaim ELSE Begun(Begin(k))
  BY <1>1 DEF Joining, Begun
<1>3. \A p \in Pods : p \notin Joining => claim'[p] = claim[p]
  BY <1>1
<1>4. \A k \in Partitions :
        /\ log[k] \in Nat /\ start[k] \in Nat /\ committed[k] \in Nat \cup {NoOffset}
        /\ Pushed(k)' = Pushed(k)
        /\ start'[k] = IF committed[k] = NoOffset THEN log[k] ELSE start[k]
        /\ log' = log /\ committed' = committed
  BY Types DEF DeliveryInv, Assign, Pushed
<1>5. \A p \in Pods : Member(p)' => p \in Joining
  BY DEF Assign, Member, DeliveryInv, TypeOK
<1>6. \A p \in Pods, k \in Partitions : Handles(p, k)' =>
        p \in Joining /\ member[k] = p /\ claim'[p][k] = Begun(Begin(k))
  BY <1>2, <1>5 DEF Handles, NoClaim
<1>7. \A k \in Partitions : /\ Begin(k) \in Nat /\ Begin(k) <= log[k]
                            /\ committed[k] # NoOffset => Begin(k) = committed[k]
                            /\ start'[k] <= Begin(k)
                            /\ start'[k]..(Begin(k) - 1) \subseteq Pushed(k)
  BY <1>4 DEF Begin, DeliveryInv, CommittedOK
<1>8. OneHandler'
  BY <1>6 DEF OneHandler
<1>9. \A k \in Partitions : CommittedOK(k)'
  BY <1>4 DEF DeliveryInv, CommittedOK
<1>10. ASSUME NEW p \in Pods, NEW k \in Partitions PROVE ClaimOK(p, k)'
  <2>1. CASE p \notin Joining
    BY <1>3, <1>4, <2>1 DEF DeliveryInv, ClaimOK
  <2>2. CASE p \in Joining /\ member[k] # p
    <3>1. claim'[p][k] = NoClaim /\ log'[k] \in Nat
      BY <1>2, <1>4, <2>2
    <3> QED BY <3>1 DEF ClaimOK, NoClaim
  <2>3. CASE p \in Joining /\ member[k] = p
    <3>1. claim'[p][k] = Begun(Begin(k)) /\ log'[k] \in Nat /\ Begin(k) <= log'[k]
      BY <1>2, <1>4, <1>7, <2>3
    <3> QED BY <3>1 DEF ClaimOK, Begun
  <2> QED BY <2>1, <2>2, <2>3
<1>11. ASSUME NEW p \in Pods, NEW k \in Partitions, Handles(p, k)'
       PROVE  ProgressOK(p, k)'
  <2>1. /\ claim'[p][k].next = Begin(k) /\ claim'[p][k].mark = NoOffset
        /\ claim'[p][k].left = {}
    <3>1. claim'[p][k] = Begun(Begin(k))
      BY <1>6, <1>11
    <3> QED BY <3>1 DEF Begun
  <2>2. /\ Begin(k) \in Nat /\ committed'[k] = committed[k] /\ Pushed(k)' = Pushed(k)
        /\ committed[k] # NoOffset => Begin(k) = committed[k]
        /\ start'[k] <= Begin(k)
        /\ start'[k]..(Begin(k) - 1) \subseteq Pushed(k)
    BY <1>4, <1>7
  <2> QED BY <2>1, <2>2 DEF ProgressOK
<1> QED BY <1>8, <1>9, <1>10, <1>11 DEF DeliveryInv, ProgressOK

LEMMA BatchConsumeInv ==
  ASSUME DeliveryInv, TypeOK', NEW p \in Pods, NEW k \in Partitions, BatchConsume(p, k)
  PROVE  DeliveryInv'
<1> DEFINE c == claim[p][k]
<1>1. PICK n \in 1..BatchSize :
        /\ c.next + n <= log[k]
        /\ claim' = [claim EXCEPT ![p] = [claim[p] EXCEPT ![k] = Batch(c, n)]]
  BY BatchConsumed DEF DeliveryInv
<1>2. /\ c.next \in Nat /\ n \in Nat /\ log[k] \in Nat /\ start[k] \in Nat
      /\ c.mark \in Nat \cup {NoOffset} /\ committed[k] \in Nat \cup {NoOffset}
      /\ c.left = {} /\ c.at = "poll"
  <2>1. TypeOK /\ ClaimOK(p, k)
    BY DEF DeliveryInv
  <2>2. c.at = "poll" /\ c.left = {}
    BY <2>1 DEF BatchConsume, ClaimOK
  <2>3. n \in Nat
    BY DeliveryAssumption
  <2>4. /\ c.next \in Nat /\ log[k] \in Nat /\ start[k] \in Nat
        /\ c.mark \in Nat \cup {NoOffset} /\ committed[k] \in Nat \cup {NoOffset}
    BY <2>1, Types
  <2> QED BY <2>2, <2>3, <2>4
<1>3. claim'[p][k] = [at |-> "work", next |-> c.next + n, mark |-> c.mark,
                      left |-> c.next..(c.next + n - 1)]
  <2>1. claim'[p][k] = Batch(c, n)
    BY <1>1 DEF DeliveryInv, TypeOK
  <2> QED BY <2>1 DEF Batch
<1>4. \A q \in Pods, j \in Partitions : q # p \/ j # k => claim'[q][j] = claim[q][j]
  BY <1>1, ClaimUpdated DEF DeliveryInv
<1>5. /\ UNCHANGED <<log, committed, consumer, start>>
      /\ \A j \in Partitions : Pushed(j)' = Pushed(j)
  BY DEF BatchConsume, kafkaVars, Pushed
<1>6. \A q \in Pods, j \in Partitions : Handles(q, j)' => Handles(q, j)
  BY <1>2, <1>4, <1>5 DEF Handles, Member
<1>7. \A j \in Partitions : CommittedOK(j)'
  BY <1>5 DEF DeliveryInv, CommittedOK
<1>8. ClaimOK(p, k)'
  BY <1>1, <1>2, <1>3, <1>5 DEF ClaimOK
<1>9. ASSUME Handles(p, k)' PROVE ProgressOK(p, k)'
  <2>1. /\ Handles(p, k) /\ ProgressOK(p, k)
    BY <1>6, <1>9 DEF DeliveryInv
  <2>2. start[k]..(c.next + n - 1) \subseteq Pushed(k) \cup (c.next..(c.next + n - 1))
    BY <1>2, <2>1 DEF ProgressOK
  <2> HIDE DEF c
  <2>3. start[k] <= c.next + n /\ (committed[k] # NoOffset => committed[k] <= c.next + n)
    BY <1>2, <2>1 DEF ProgressOK, c
  <2> QED BY <1>2, <1>3, <1>5, <2>1, <2>2, <2>3 DEF ProgressOK, c
<1>10. ASSUME NEW q \in Pods, NEW j \in Partitions, q # p \/ j # k
       PROVE  ClaimOK(q, j)' /\ (Handles(q, j)' => ProgressOK(q, j)')
  BY <1>4, <1>5, <1>6, <1>10 DEF DeliveryInv, ClaimOK, ProgressOK
<1> QED BY <1>6, <1>7, <1>8, <1>9, <1>10 DEF DeliveryInv, OneHandler, ProgressOK

LEMMA WorkInv ==
  ASSUME DeliveryInv, TypeOK', NEW p \in Pods, NEW k \in Partitions, Work(p, k)
  PROVE  DeliveryInv'
<1>1. PICK i \in claim[p][k].left :
        /\ pushed' = [pushed EXCEPT ![k] = [pushed[k] EXCEPT ![i] = pushed[k][i] + 1]]
        /\ claim' = [claim EXCEPT ![p] = [claim[p] EXCEPT ![k] =
             [claim[p][k] EXCEPT !.left = claim[p][k].left \ {i}]]]
  BY Worked DEF DeliveryInv
<1>2. i \in Offsets /\ claim[p][k] \in Claim
  BY <1>1, Types DEF DeliveryInv
<1>3. /\ Pushed(k)' = Pushed(k) \cup {i}
      /\ \A j \in Partitions : j # k => Pushed(j)' = Pushed(j)
  BY <1>1, <1>2, Types DEF DeliveryInv, TypeOK, Pushed
<1>4. /\ claim'[p][k].at = claim[p][k].at /\ claim'[p][k].next = claim[p][k].next
      /\ claim'[p][k].mark = claim[p][k].mark
      /\ claim'[p][k].left = claim[p][k].left \ {i}
  BY <1>1, <1>2 DEF DeliveryInv, TypeOK, Claim
<1>5. \A q \in Pods, j \in Partitions : q # p \/ j # k => claim'[q][j] = claim[q][j]
  BY <1>1, ClaimUpdated DEF DeliveryInv
<1>6. UNCHANGED <<log, committed, consumer, start>>
  BY DEF Work, kafkaVars
<1>7. \A q \in Pods, j \in Partitions : Handles(q, j)' => Handles(q, j)
  BY <1>4, <1>5, <1>6 DEF Handles, Member
<1>8. \A j \in Partitions : Pushed(j) \subseteq Pushed(j)'
  BY <1>3
<1>9. \A j \in Partitions : CommittedOK(j)'
  BY <1>6, <1>8 DEF DeliveryInv, CommittedOK
<1>10. ClaimOK(p, k)' /\ (Handles(p, k)' => ProgressOK(p, k)')
  BY <1>3, <1>4, <1>6, <1>7 DEF DeliveryInv, ClaimOK, ProgressOK
<1>11. ASSUME NEW q \in Pods, NEW j \in Partitions, q # p \/ j # k
       PROVE  ClaimOK(q, j)' /\ (Handles(q, j)' => ProgressOK(q, j)')
  BY <1>5, <1>6, <1>7, <1>8, <1>11 DEF DeliveryInv, ClaimOK, ProgressOK
<1> QED BY <1>7, <1>9, <1>10, <1>11 DEF DeliveryInv, OneHandler, ProgressOK

LEMMA BatchDoneInv ==
  ASSUME DeliveryInv, TypeOK', NEW p \in Pods, NEW k \in Partitions, BatchDone(p, k)
  PROVE  DeliveryInv'
<1> DEFINE c == claim[p][k]
<1>1. /\ claim' = [claim EXCEPT ![p] = [claim[p] EXCEPT ![k] = Marked(c)]]
      /\ c.left = {} /\ c.at = "work"
  BY BatchMarked DEF DeliveryInv, BatchDone
<1>2. claim'[p][k] = [at |-> "poll", next |-> c.next, mark |-> c.next, left |-> {}]
  <2>1. claim'[p][k] = Marked(c)
    BY <1>1 DEF DeliveryInv, TypeOK
  <2> QED BY <2>1 DEF Marked
<1>3. \A q \in Pods, j \in Partitions : q # p \/ j # k => claim'[q][j] = claim[q][j]
  BY <1>1, ClaimUpdated DEF DeliveryInv
<1>4. /\ UNCHANGED <<log, committed, consumer, start>>
      /\ \A j \in Partitions : Pushed(j)' = Pushed(j)
  BY DEF BatchDone, kafkaVars, Pushed
<1>5. c.next \in Nat
  BY Types DEF DeliveryInv
<1>6. \A q \in Pods, j \in Partitions : Handles(q, j)' => Handles(q, j)
  BY <1>1, <1>3, <1>4 DEF Handles, Member
<1>7. \A j \in Partitions : CommittedOK(j)'
  BY <1>4 DEF DeliveryInv, CommittedOK
<1>8. ClaimOK(p, k)' /\ (Handles(p, k)' => ProgressOK(p, k)')
  BY <1>1, <1>2, <1>4, <1>5, <1>6 DEF DeliveryInv, ClaimOK, ProgressOK
<1>9. ASSUME NEW q \in Pods, NEW j \in Partitions, q # p \/ j # k
      PROVE  ClaimOK(q, j)' /\ (Handles(q, j)' => ProgressOK(q, j)')
  BY <1>3, <1>4, <1>6, <1>9 DEF DeliveryInv, ClaimOK, ProgressOK
<1> QED BY <1>6, <1>7, <1>8, <1>9 DEF DeliveryInv, OneHandler, ProgressOK

LEMMA InvNext == DeliveryInv /\ [Next]_vars => DeliveryInv'
<1> SUFFICES ASSUME DeliveryInv, [Next]_vars PROVE DeliveryInv'
  OBVIOUS
<1>0. TypeOK' /\ consumer \in [Pods -> Consumer]
  BY TypeNext DEF DeliveryInv, TypeOK
<1>1. CASE Assign
  BY <1>0, <1>1, AssignInv
<1>2. ASSUME NEW k \in Partitions, Send(k) PROVE DeliveryInv'
  <2>1. \A j \in Partitions : log[j] <= log'[j]
    BY <1>2, Types DEF DeliveryInv, TypeOK, Send
  <2> QED BY <1>0, <1>2, <2>1, Unclaimed DEF Send, Member
<1>3. ASSUME NEW p \in Pods, Run(p) \/ JoinFails(p) \/ Heartbeat(p) \/ Expel(p) PROVE DeliveryInv'
  <2>1. \A j \in Partitions : log[j] <= log'[j]
    BY <1>3, Types DEF DeliveryInv, Run, JoinFails, Heartbeat, Expel, kafkaVars
  <2>2. \A q \in Pods : Member(q)' => Member(q)
    BY <1>0, <1>3 DEF Run, JoinFails, Heartbeat, Expel, Member
  <2> QED BY <1>0, <1>3, <2>1, <2>2, Unclaimed DEF Run, JoinFails, Heartbeat, Expel, kafkaVars
<1>4. ASSUME NEW p \in Pods, Commit(p) PROVE DeliveryInv'
  BY <1>0, <1>4, Flushing DEF Commit, Member
<1>5. ASSUME NEW p \in Pods, EndSession(p) PROVE DeliveryInv'
  <2>1. /\ \A q \in Pods : Member(q)' => Member(q)
        /\ ~Member(p)'
    BY <1>0, <1>5 DEF EndSession, Member
  <2>2. CASE consumer[p] = "expelled"
    BY <1>0, <1>5, <2>1, <2>2, Leaving DEF EndSession
  <2>3. CASE consumer[p] = "ending"
    <3>1. \A q \in Pods : claim'[q] = claim[q] \/ (claim'[q] = NoClaims /\ ~Member(q)')
      BY <1>5, <2>1 DEF EndSession, DeliveryInv, TypeOK
    <3>2. Member(p) /\ committed' = Flushed(p) /\ UNCHANGED <<log, pushed, start>>
      BY <1>5, <2>3 DEF EndSession, Member
    <3> QED BY <1>0, <2>1, <3>1, <3>2, Flushing
  <2> QED BY <1>5, <2>2, <2>3 DEF EndSession
<1>6. ASSUME NEW p \in Pods, Crash(p) PROVE DeliveryInv'
  <2>1. /\ \A q \in Pods : Member(q)' => Member(q)
        /\ ~Member(p)'
    BY <1>0, <1>6 DEF Crash, Member
  <2> QED BY <1>0, <1>6, <2>1, Leaving DEF Crash
<1>7. ASSUME NEW p \in Pods, NEW k \in Partitions, Handle(p, k) PROVE DeliveryInv'
  BY <1>0, <1>7, BatchConsumeInv, WorkInv, BatchDoneInv DEF Handle
<1>8. CASE UNCHANGED vars
  <2>1. \A j \in Partitions : log[j] <= log'[j]
    BY <1>8, Types DEF DeliveryInv, vars, kafkaVars
  <2> QED BY <1>0, <1>8, <2>1, Unclaimed DEF vars, kafkaVars, Member
<1> QED BY <1>1, <1>2, <1>3, <1>4, <1>5, <1>6, <1>7, <1>8 DEF Next, Group

LEMMA InvAlways == Spec => []DeliveryInv
BY InvInit, InvNext, PTL DEF Spec

-----------------------------------------------------------------------------
(***************************************************************************)
(* Theorems                                                                *)
(***************************************************************************)

\* Whatever the order in which the pool pushes a batch, and wherever a rebalance,
\* a crash or an expulsion interrupts it, an offset is committed only when every
\* message before it has been pushed, counted from where the group last began the
\* partition without an offset.
THEOREM NothingPassedOver == Spec => []CommittedArePushed
<1>1. DeliveryInv => CommittedArePushed
  BY DEF DeliveryInv, CommittedOK, CommittedArePushed
<1> QED BY InvAlways, <1>1, PTL

-----------------------------------------------------------------------------
(***************************************************************************)
(* How often a message is pushed                                           *)
(*                                                                         *)
(* PushedAgainOnlyByFault counts pushes that were made.  The invariant     *)
(* adds those that may still be made of a message: one by every pod that   *)
(* was expelled while it had the message before it, and one by the group.  *)
(* A push takes one of these, and only a fault makes one more.             *)
(***************************************************************************)

\* The claim of p on k has message i in its batch, or still to read.
Pending(p, k, i) ==
  claim[p][k].at # "off" /\ (i \in claim[p][k].left \/ i >= claim[p][k].next)

\* The pods outside the group that may push message i of k ...
Late(k, i) == {p \in Pods : consumer[p] = "expelled" /\ Pending(p, k, i)}

\* ... and whether the group may: a member has it before it, or the member
\* that comes to handle k will.
ToCome(k, i) ==
  \/ \E p \in Pods : Member(p) /\ Pending(p, k, i)
  \/ (\A p \in Pods : ~Handles(p, k)) /\ i >= Begin(k)

FaultCount == faults["crash"] + faults["expulsion"]

Budget(k, i) ==
  /\ IsFiniteSet(Late(k, i))
  /\ pushed[k][i] + Cardinality(Late(k, i)) + (IF ToCome(k, i) THEN 1 ELSE 0)
       <= 1 + FaultCount

\* Who has claims; a batch is what was read last; and a member between two
\* batches would commit exactly what it has read.
PlaceOK(p, k) ==
  /\ claim[p][k].at # "off" => consumer[p] \in {"session", "ending", "expelled"}
  /\ \A i \in claim[p][k].left : i < claim[p][k].next
  /\ Member(p) /\ claim[p][k].at = "poll" =>
       \/ claim[p][k].mark = claim[p][k].next
       \/ claim[p][k].mark = NoOffset /\ committed[k] \in {NoOffset, claim[p][k].next}

PlaceInv  == \A p \in Pods, k \in Partitions : PlaceOK(p, k)
BudgetInv == \A k \in Partitions, i \in Offsets : Budget(k, i)

LEMMA PlaceInit == Init => PlaceInv
BY DEF Init, PlaceInv, PlaceOK, NoClaims, NoClaim

LEMMA PlaceNext == DeliveryInv /\ PlaceInv /\ [Next]_vars => PlaceInv'
<1> SUFFICES ASSUME DeliveryInv, PlaceInv, [Next]_vars,
                    NEW q \in Pods, NEW j \in Partitions
             PROVE  PlaceOK(q, j)'
  BY DEF PlaceInv
<1>0. /\ TypeOK /\ consumer \in [Pods -> Consumer] /\ PlaceOK(q, j)
      /\ claim \in [Pods -> [Partitions -> Claim]]
  BY DEF DeliveryInv, TypeOK, PlaceInv
\* The claim and the membership of q stay, and what is committed of j does too
\* unless q has just committed it.
<1>1. ASSUME claim'[q][j] = claim[q][j],
             claim[q][j].at # "off" => consumer'[q] \in {"session", "ending", "expelled"},
             Member(q)' => Member(q),
             Member(q)' /\ claim[q][j].mark # claim[q][j].next => committed'[j] = committed[j]
      PROVE  PlaceOK(q, j)'
  BY <1>0, <1>1 DEF PlaceOK
<1>2. CASE Assign
  <2>1. PICK member \in [Partitions -> Joining] :
          claim' = [p \in Pods |->
            IF p \notin Joining THEN claim[p]
            ELSE [k \in Partitions |->
                   IF member[k] # p THEN NoClaim
                   ELSE [at |-> "poll", next |-> Begin(k), mark |-> NoOffset, left |-> {}]]]
    BY <1>2 DEF Assign
  <2>2. committed' = committed /\ ~Member(q)
    BY <1>2 DEF Assign, Member
  <2>3. consumer'[q] = IF q \in Joining THEN "session" ELSE consumer[q]
    BY <1>2 DEF Assign
  <2>4. CASE q \notin Joining
    BY <1>0, <1>1, <2>1, <2>2, <2>3, <2>4 DEF PlaceOK, Member
  <2>5. CASE q \in Joining /\ member[j] # q
    <3>1. claim'[q][j] = NoClaim
      BY <2>1, <2>5
    <3> QED BY <3>1 DEF PlaceOK, NoClaim
  <2>6. CASE q \in Joining /\ member[j] = q
    <3>1. /\ claim'[q][j].left = {} /\ claim'[q][j].mark = NoOffset
          /\ claim'[q][j].next = Begin(j)
      BY <2>1, <2>6
    <3>2. committed'[j] \in {NoOffset, Begin(j)}
      BY <2>2 DEF Begin
    <3> QED BY <2>3, <2>6, <3>1, <3>2 DEF PlaceOK
  <2> QED BY <2>4, <2>5, <2>6
<1>3. ASSUME NEW k \in Partitions, Send(k) PROVE PlaceOK(q, j)'
  BY <1>0, <1>1, <1>3 DEF Send, PlaceOK, Member
<1>4. ASSUME NEW p \in Pods, Run(p) \/ JoinFails(p) \/ Heartbeat(p) \/ Expel(p) PROVE PlaceOK(q, j)'
  <2>1. UNCHANGED <<claim, committed>>
    BY <1>4 DEF Run, JoinFails, Heartbeat, Expel, kafkaVars
  <2>2. claim[q][j].at # "off" => consumer'[q] \in {"session", "ending", "expelled"}
    BY <1>0, <1>4 DEF Run, JoinFails, Heartbeat, Expel, PlaceOK
  <2>3. Member(q)' => Member(q)
    BY <1>0, <1>4 DEF Run, JoinFails, Heartbeat, Expel, Member
  <2> QED BY <1>1, <2>1, <2>2, <2>3
<1>5. ASSUME NEW p \in Pods, Member(p), committed' = Flushed(p), Handles(q, j),
             claim[q][j].mark # claim[q][j].next, claim[q][j].at = "poll"
      PROVE  committed'[j] = committed[j]
  <2>1. SUFFICES ASSUME Flushed(p)[j] # committed[j] PROVE FALSE
    BY <1>5
  <2>2. Handles(p, j) /\ claim[p][j].mark # NoOffset
    BY <1>5, <2>1, FlushOK
  <2>3. p = q
    BY <1>5, <2>2 DEF DeliveryInv, OneHandler
  <2> QED BY <1>0, <1>5, <2>2, <2>3 DEF PlaceOK, Handles
<1>6. ASSUME NEW p \in Pods, Commit(p) PROVE PlaceOK(q, j)'
  <2>1. Member(p) /\ committed' = Flushed(p) /\ UNCHANGED <<claim, consumer>>
    BY <1>6 DEF Commit, Member
  <2>2. CASE claim[q][j].at = "poll" /\ Member(q)
    BY <1>0, <1>1, <1>5, <2>1, <2>2 DEF Handles, PlaceOK, Member
  <2>3. CASE ~(claim[q][j].at = "poll" /\ Member(q))
    BY <1>0, <2>1, <2>3 DEF PlaceOK, Member
  <2> QED BY <2>2, <2>3
<1>7. ASSUME NEW p \in Pods, EndSession(p) \/ Crash(p) PROVE PlaceOK(q, j)'
  <2>1. claim' = [claim EXCEPT ![p] = NoClaims]
    BY <1>7 DEF EndSession, Crash
  <2>2. CASE p = q
    <3>1. claim'[q][j] = NoClaim
      BY <1>0, <2>1, <2>2 DEF NoClaims
    <3> QED BY <3>1 DEF PlaceOK, NoClaim
  <2>3. CASE p # q
    <3>1. claim'[q] = claim[q] /\ consumer'[q] = consumer[q]
      BY <1>0, <1>7, <2>1, <2>3 DEF EndSession, Crash
    <3>2. committed' = committed \/ (Member(p) /\ committed' = Flushed(p))
      BY <1>7 DEF EndSession, Crash, Member
    <3>3. CASE claim[q][j].at = "poll" /\ Member(q)
      BY <1>0, <1>1, <1>5, <3>1, <3>2, <3>3 DEF Handles, PlaceOK, Member
    <3>4. CASE ~(claim[q][j].at = "poll" /\ Member(q))
      BY <1>0, <3>1, <3>4 DEF PlaceOK, Member
    <3> QED BY <3>3, <3>4
  <2> QED BY <2>2, <2>3
<1>8. ASSUME NEW p \in Pods, NEW k \in Partitions, Handle(p, k) PROVE PlaceOK(q, j)'
  <2>1. UNCHANGED <<committed, consumer>>
    BY <1>8 DEF Handle, BatchConsume, Work, BatchDone, kafkaVars
  <2>2. CASE BatchConsume(p, k)
    <3>1. PICK n \in 1..BatchSize :
            claim' = [claim EXCEPT ![p] = [claim[p] EXCEPT ![k] = Batch(claim[p][k], n)]]
      BY <1>0, <2>2, BatchConsumed
    <3>2. CASE q = p /\ j = k
      <4>1. /\ claim'[q][j].at = "work" /\ claim'[q][j].next = claim[q][j].next + n
            /\ claim'[q][j].left = claim[q][j].next..(claim[q][j].next + n - 1)
        BY <1>0, <3>1, <3>2 DEF Batch
      <4>2. claim[q][j].next \in Nat /\ n \in Nat
        BY <1>0, DeliveryAssumption, Types
      <4>3. consumer'[q] \in {"session", "expelled"}
        BY <2>1, <2>2, <3>2 DEF BatchConsume
      <4> QED BY <4>1, <4>2, <4>3 DEF PlaceOK
    <3>3. CASE q # p \/ j # k
      BY <1>0, <1>1, <2>1, <3>1, <3>3, ClaimUpdated DEF PlaceOK, Member
    <3> QED BY <3>2, <3>3
  <2>3. CASE Work(p, k)
    <3>1. PICK i \in claim[p][k].left :
            /\ pushed' = [pushed EXCEPT ![k] = [pushed[k] EXCEPT ![i] = pushed[k][i] + 1]]
            /\ claim' = [claim EXCEPT ![p] = [claim[p] EXCEPT ![k] =
                 [claim[p][k] EXCEPT !.left = claim[p][k].left \ {i}]]]
      BY <1>0, <2>3, Worked
    <3>2. CASE q = p /\ j = k
      <4>1. /\ claim'[q][j].at = claim[q][j].at /\ claim'[q][j].next = claim[q][j].next
            /\ claim'[q][j].mark = claim[q][j].mark
            /\ claim'[q][j].left \subseteq claim[q][j].left
        BY <1>0, <3>1, <3>2 DEF Claim
      <4> QED BY <1>0, <2>1, <4>1 DEF PlaceOK, Member
    <3>3. CASE q # p \/ j # k
      BY <1>0, <1>1, <2>1, <3>1, <3>3, ClaimUpdated DEF PlaceOK, Member
    <3> QED BY <3>2, <3>3
  <2>4. CASE BatchDone(p, k)
    <3>1. claim' = [claim EXCEPT ![p] = [claim[p] EXCEPT ![k] = Marked(claim[p][k])]]
      BY <1>0, <2>4, BatchMarked
    <3>2. CASE q = p /\ j = k
      <4>1. claim'[q][j] = Marked(claim[q][j])
        BY <1>0, <3>1, <3>2
      <4>2. claim[q][j].at = "work"
        BY <2>4, <3>2 DEF BatchDone
      <4> QED BY <1>0, <2>1, <4>1, <4>2 DEF PlaceOK, Marked
    <3>3. CASE q # p \/ j # k
      BY <1>0, <1>1, <2>1, <3>1, <3>3, ClaimUpdated DEF PlaceOK, Member
    <3> QED BY <3>2, <3>3
  <2> QED BY <1>8, <2>2, <2>3, <2>4 DEF Handle
<1>9. CASE UNCHANGED vars
  BY <1>0, <1>1, <1>9 DEF vars, kafkaVars, PlaceOK, Member
<1> QED BY <1>2, <1>3, <1>4, <1>6, <1>7, <1>8, <1>9 DEF Next, Group

LEMMA FaultCounts ==
  ASSUME TypeOK
  PROVE  /\ FaultCount \in Nat
         /\ \A max : Fault("crash", max) \/ Fault("expulsion", max)
                       => FaultCount' = FaultCount + 1
<1>1. /\ faults \in [FaultKinds -> Nat]
      /\ "crash" \in FaultKinds /\ "expulsion" \in FaultKinds
  BY DEF TypeOK, FaultKinds
<1>2. ASSUME NEW max, Fault("crash", max) PROVE FaultCount' = FaultCount + 1
  <2>1. /\ faults'["crash"] = faults["crash"] + 1
        /\ faults'["expulsion"] = faults["expulsion"]
    BY <1>1, <1>2 DEF Fault
  <2> QED BY <1>1, <2>1 DEF FaultCount
<1>3. ASSUME NEW max, Fault("expulsion", max) PROVE FaultCount' = FaultCount + 1
  <2>1. /\ faults'["expulsion"] = faults["expulsion"] + 1
        /\ faults'["crash"] = faults["crash"]
    BY <1>1, <1>3 DEF Fault
  <2> QED BY <1>1, <2>1 DEF FaultCount
<1> QED BY <1>1, <1>2, <1>3 DEF FaultCount

\* Nothing is pushed, and what may be pushed becomes no more.
LEMMA BudgetKept ==
  ASSUME TypeOK, TypeOK', NEW k \in Partitions, NEW i \in Offsets, Budget(k, i),
         FaultCount' = FaultCount, pushed'[k][i] = pushed[k][i],
         Late(k, i)' \subseteq Late(k, i), ToCome(k, i)' => ToCome(k, i)
  PROVE  Budget(k, i)'
<1>1. /\ IsFiniteSet(Late(k, i)')
      /\ Cardinality(Late(k, i)') <= Cardinality(Late(k, i))
  BY FS_Subset DEF Budget
<1>2. Cardinality(Late(k, i)) \in Nat /\ Cardinality(Late(k, i)') \in Nat
  BY <1>1, FS_CardinalityType DEF Budget
<1>3. FaultCount' = FaultCount /\ FaultCount \in Nat /\ pushed[k][i] \in Nat
  BY FaultCounts, Types
<1> QED BY <1>1, <1>2, <1>3 DEF Budget

\* A fault lets one more push be made: by the pod that it puts out of the group,
\* or by the one that takes its place.
LEMMA BudgetRaised ==
  ASSUME TypeOK, TypeOK', NEW k \in Partitions, NEW i \in Offsets, Budget(k, i),
         FaultCount' = FaultCount + 1, UNCHANGED pushed, NEW p \in Pods,
         \/ Late(k, i)' \subseteq Late(k, i)
         \/ Late(k, i)' \subseteq Late(k, i) \cup {p} /\ ToCome(k, i)
  PROVE  Budget(k, i)'
<1>1. Cardinality(Late(k, i)) \in Nat
  BY FS_CardinalityType DEF Budget
<1>2. FaultCount \in Nat /\ pushed[k][i] \in Nat
  BY FaultCounts, Types
<1>3. CASE Late(k, i)' \subseteq Late(k, i)
  <2>1. /\ IsFiniteSet(Late(k, i)')
        /\ Cardinality(Late(k, i)') <= Cardinality(Late(k, i))
    BY <1>3, FS_Subset DEF Budget
  <2>2. Cardinality(Late(k, i)') \in Nat
    BY <2>1, FS_CardinalityType
  <2> QED BY <1>1, <1>2, <2>1, <2>2 DEF Budget
<1>4. CASE Late(k, i)' \subseteq Late(k, i) \cup {p} /\ ToCome(k, i)
  <2> DEFINE more == Late(k, i) \cup {p}
  <2>0. /\ IsFiniteSet(more)
        /\ Cardinality(more) = IF p \in Late(k, i) THEN Cardinality(Late(k, i))
                               ELSE Cardinality(Late(k, i)) + 1
    BY FS_AddElement DEF Budget
  <2>1. IsFiniteSet(more) /\ Cardinality(more) <= Cardinality(Late(k, i)) + 1
    BY <1>1, <2>0
  <2> HIDE DEF more
  <2>2. Late(k, i)' \subseteq more
    BY <1>4 DEF more
  <2>3. /\ IsFiniteSet(Late(k, i)')
        /\ Cardinality(Late(k, i)') <= Cardinality(more)
    BY <2>1, <2>2, FS_Subset
  <2>4. Cardinality(Late(k, i)') \in Nat /\ Cardinality(more) \in Nat
    BY <2>1, <2>3, FS_CardinalityType
  <2> QED BY <1>1, <1>2, <1>4, <2>1, <2>3, <2>4 DEF Budget
<1> QED BY <1>3, <1>4

\* A push uses up the turn of the group, or that of a pod outside of it.
LEMMA BudgetUsed ==
  ASSUME TypeOK, TypeOK', NEW k \in Partitions, NEW i \in Offsets, Budget(k, i),
         UNCHANGED faults, pushed'[k][i] = pushed[k][i] + 1, NEW p \in Pods,
         \/ Late(k, i)' \subseteq Late(k, i) /\ ToCome(k, i) /\ ~ToCome(k, i)'
         \/ /\ p \in Late(k, i) /\ Late(k, i)' \subseteq Late(k, i) \ {p}
            /\ ToCome(k, i)' => ToCome(k, i)
  PROVE  Budget(k, i)'
<1>1. Cardinality(Late(k, i)) \in Nat
  BY FS_CardinalityType DEF Budget
<1>2. FaultCount' = FaultCount /\ FaultCount \in Nat /\ pushed[k][i] \in Nat
  BY FaultCounts, Types DEF FaultCount
<1>3. CASE Late(k, i)' \subseteq Late(k, i) /\ ToCome(k, i) /\ ~ToCome(k, i)'
  <2>1. /\ IsFiniteSet(Late(k, i)')
        /\ Cardinality(Late(k, i)') <= Cardinality(Late(k, i))
    BY <1>3, FS_Subset DEF Budget
  <2>2. Cardinality(Late(k, i)') \in Nat
    BY <2>1, FS_CardinalityType
  <2> QED BY <1>1, <1>2, <1>3, <2>1, <2>2 DEF Budget
<1>4. CASE /\ p \in Late(k, i) /\ Late(k, i)' \subseteq Late(k, i) \ {p}
           /\ ToCome(k, i)' => ToCome(k, i)
  <2> DEFINE less == Late(k, i) \ {p}
  <2>1. IsFiniteSet(less) /\ Cardinality(less) = Cardinality(Late(k, i)) - 1
    BY <1>4, FS_RemoveElement DEF Budget
  <2> HIDE DEF less
  <2>2. Late(k, i)' \subseteq less
    BY <1>4 DEF less
  <2>3. /\ IsFiniteSet(Late(k, i)')
        /\ Cardinality(Late(k, i)') <= Cardinality(less)
    BY <2>1, <2>2, FS_Subset
  <2>4. Cardinality(Late(k, i)') \in Nat /\ Cardinality(less) \in Nat
    BY <2>1, <2>3, FS_CardinalityType
  <2> QED BY <1>1, <1>2, <1>4, <2>1, <2>3, <2>4 DEF Budget
<1> QED BY <1>3, <1>4

LEMMA BudgetInit == Init => BudgetInv
<1> SUFFICES ASSUME Init, NEW k \in Partitions, NEW i \in Offsets PROVE Budget(k, i)
  BY DEF BudgetInv
<1>1. Late(k, i) = {} /\ pushed[k][i] = 0 /\ FaultCount = 0
  BY DEF Init, Late, FaultCount, FaultKinds
<1>2. IsFiniteSet(Late(k, i)) /\ Cardinality(Late(k, i)) = 0
  BY <1>1, FS_EmptySet
<1> QED BY <1>1, <1>2 DEF Budget

\* Claims and memberships stay, and where nobody handles k its next handler
\* will not begin further back.
LEMMA BudgetFrame ==
  ASSUME TypeOK, TypeOK', NEW k \in Partitions, NEW i \in Offsets, Budget(k, i),
         UNCHANGED <<pushed, FaultCount>>,
         \A q \in Pods : consumer'[q] = "expelled" => consumer[q] = "expelled",
         \A q \in Pods : Member(q)' <=> Member(q),
         \A q \in Pods : claim'[q][k].at = "off" <=> claim[q][k].at = "off",
         \A q \in Pods : Pending(q, k, i)' => Pending(q, k, i),
         (\A q \in Pods : ~Handles(q, k)) /\ i >= Begin(k)' => i >= Begin(k)
  PROVE  Budget(k, i)'
<1>1. Late(k, i)' \subseteq Late(k, i)
  BY DEF Late
<1>2. \A q \in Pods : Handles(q, k)' <=> Handles(q, k)
  BY DEF Handles
<1>3. ToCome(k, i)' => ToCome(k, i)
  BY <1>2 DEF ToCome
<1> QED BY <1>1, <1>3, BudgetKept

LEMMA BudgetAssign ==
  ASSUME DeliveryInv, TypeOK', NEW k \in Partitions, NEW i \in Offsets, Budget(k, i), Assign
  PROVE  Budget(k, i)'
<1>0. TypeOK
  BY DEF DeliveryInv
<1>1. PICK member \in [Partitions -> Joining] :
        claim' = [p \in Pods |->
          IF p \notin Joining THEN claim[p]
          ELSE [j \in Partitions |->
                 IF member[j] # p THEN NoClaim
                 ELSE [at |-> "poll", next |-> Begin(j), mark |-> NoOffset, left |-> {}]]]
  BY DEF Assign
<1>2. \A q \in Pods : q \notin Joining => claim'[q] = claim[q] /\ consumer'[q] = consumer[q]
  BY <1>1 DEF Assign
<1>3. \A q \in Joining : consumer'[q] = "session"
  BY DEF Assign, Joining
<1>4. \A q \in Pods : ~Member(q)
  BY DEF Assign, Member
<1>5. Late(k, i)' \subseteq Late(k, i)
  BY <1>2, <1>3 DEF Late, Pending
<1>6. Begin(k)' = Begin(k)
  BY DEF Assign, Begin
<1>7. ASSUME NEW q \in Pods, Member(q)', Pending(q, k, i)' PROVE i >= Begin(k)
  <2>1. q \in Joining
    BY <1>2, <1>4, <1>7 DEF Member
  <2>2. claim'[q][k] = IF member[k] # q THEN NoClaim
          ELSE [at |-> "poll", next |-> Begin(k), mark |-> NoOffset, left |-> {}]
    BY <1>1, <2>1
  <2>3. CASE member[k] # q
    <3>1. claim'[q][k] = NoClaim
      BY <2>2, <2>3
    <3> QED BY <1>7, <3>1 DEF Pending, NoClaim
  <2>4. CASE member[k] = q
    <3>1. claim'[q][k].next = Begin(k) /\ claim'[q][k].left = {}
      BY <2>2, <2>4
    <3> QED BY <1>7, <3>1 DEF Pending
  <2> QED BY <2>3, <2>4
<1>8. ToCome(k, i)' => ToCome(k, i)
  BY <1>4, <1>6, <1>7 DEF ToCome, Handles
<1>9. UNCHANGED <<pushed, faults>>
  BY DEF Assign
<1> QED BY <1>0, <1>5, <1>8, <1>9, BudgetKept DEF FaultCount

\* A session that ends commits what its pod has read, so that the next handler
\* begins where this one stopped; one that was given up commits nothing.
LEMMA BudgetEndSession ==
  ASSUME DeliveryInv, TypeOK', PlaceInv, NEW k \in Partitions, NEW i \in Offsets,
         Budget(k, i), NEW p \in Pods, EndSession(p)
  PROVE  Budget(k, i)'
<1>0. /\ TypeOK /\ consumer \in [Pods -> Consumer]
      /\ claim \in [Pods -> [Partitions -> Claim]]
  BY DEF DeliveryInv, TypeOK
<1>1. /\ UNCHANGED <<log, pushed, faults>>
      /\ claim'[p] = NoClaims /\ consumer'[p] = "returned"
      /\ \A q \in Pods \ {p} : claim'[q] = claim[q] /\ consumer'[q] = consumer[q]
  BY <1>0 DEF EndSession
<1>2. ~Pending(p, k, i)' /\ ~Handles(p, k)' /\ ~Member(p)'
  BY <1>1 DEF Pending, Handles, Member, NoClaims, NoClaim
<1>3. \A q \in Pods \ {p} : /\ Pending(q, k, i)' <=> Pending(q, k, i)
                            /\ Member(q)' <=> Member(q)
                            /\ Handles(q, k)' <=> Handles(q, k)
  BY <1>1 DEF Pending, Handles, Member
<1>4. Late(k, i)' \subseteq Late(k, i)
  BY <1>1, <1>2, <1>3 DEF Late
<1>5. ASSUME \A q \in Pods : ~Handles(q, k)', i >= Begin(k)' PROVE ToCome(k, i)
  <2>1. CASE Handles(p, k)
    <3>1. consumer[p] = "ending" /\ committed' = Flushed(p)
      BY <2>1 DEF Handles, Member, EndSession
    <3>2. claim[p][k].at = "poll" /\ PlaceOK(p, k) /\ ClaimOK(p, k) /\ Member(p)
      BY <1>0, <2>1 DEF Handles, EndSession, PlaceInv, DeliveryInv, Claim
    <3>3. /\ committed'[k] = IF claim[p][k].mark = NoOffset THEN committed[k]
                             ELSE claim[p][k].mark
          /\ log[k] \in Nat /\ claim[p][k].next \in Nat /\ claim[p][k].next <= log[k]
      BY <1>0, <3>1, <3>2, Types DEF Flushed, ClaimOK
    <3>4. claim[p][k].next <= Begin(k)'
      <4>1. CASE claim[p][k].mark = claim[p][k].next
        <5>1. committed'[k] = claim[p][k].next /\ committed'[k] # NoOffset
          BY <3>3, <4>1, DeliveryAssumption
        <5> QED BY <3>3, <5>1 DEF Begin
      <4>2. CASE claim[p][k].mark = NoOffset /\ committed[k] \in {NoOffset, claim[p][k].next}
        <5>1. committed'[k] \in {NoOffset, claim[p][k].next}
          BY <3>3, <4>2
        <5> QED BY <1>1, <3>3, <5>1 DEF Begin
      <4> QED BY <3>2, <4>1, <4>2 DEF PlaceOK
    <3>5. Begin(k)' \in Nat /\ i \in Nat
      <4>1. committed'[k] \in Nat \cup {NoOffset} /\ log'[k] = log[k]
        BY <1>1 DEF TypeOK
      <4> QED BY <3>3, <4>1 DEF Begin, Offsets
    <3>6. i >= claim[p][k].next
      BY <1>5, <3>3, <3>4, <3>5
    <3> QED BY <3>2, <3>6 DEF ToCome, Pending
  <2>2. CASE ~Handles(p, k)
    <3>1. committed'[k] = committed[k]
      <4>1. CASE consumer[p] = "expelled"
        BY <4>1 DEF EndSession
      <4>2. CASE consumer[p] = "ending"
        <5>1. committed' = Flushed(p) /\ Member(p)
          BY <4>2 DEF EndSession, Member
        <5> QED BY <2>2, <5>1, FlushOK
      <4> QED BY <4>1, <4>2 DEF EndSession
    <3>2. Begin(k)' = Begin(k)
      BY <1>1, <3>1 DEF Begin
    <3>3. \A q \in Pods : ~Handles(q, k)
      BY <1>3, <1>5, <2>2
    <3> QED BY <1>5, <3>2, <3>3 DEF ToCome
  <2> QED BY <2>1, <2>2
<1>6. ASSUME NEW q \in Pods, Member(q)', Pending(q, k, i)' PROVE ToCome(k, i)
  BY <1>2, <1>3, <1>6 DEF ToCome
<1>7. ToCome(k, i)' => ToCome(k, i)
  BY <1>5, <1>6 DEF ToCome
<1> QED BY <1>0, <1>1, <1>4, <1>7, BudgetKept DEF FaultCount

\* A pod that is put out of the group takes with it what it had before it.
LEMMA BudgetExpel ==
  ASSUME DeliveryInv, TypeOK', NEW k \in Partitions, NEW i \in Offsets, Budget(k, i),
         NEW p \in Pods, Expel(p)
  PROVE  Budget(k, i)'
<1>0. TypeOK /\ consumer \in [Pods -> Consumer]
  BY DEF DeliveryInv, TypeOK
<1>1. /\ UNCHANGED <<claim, pushed>> /\ Member(p)
      /\ \A q \in Pods \ {p} : consumer'[q] = consumer[q]
  BY <1>0 DEF Expel, Member
<1>2. FaultCount' = FaultCount + 1
  BY <1>0, FaultCounts DEF Expel
<1>3. Late(k, i)' \subseteq Late(k, i) \cup {p}
  BY <1>1 DEF Late, Pending
<1>4. CASE Pending(p, k, i)
  <2>1. ToCome(k, i)
    BY <1>1, <1>4 DEF ToCome
  <2> QED BY <1>0, <1>1, <1>2, <1>3, <2>1, BudgetRaised
<1>5. CASE ~Pending(p, k, i)
  <2>1. Late(k, i)' \subseteq Late(k, i)
    BY <1>1, <1>5 DEF Late, Pending
  <2> QED BY <1>0, <1>1, <1>2, <2>1, BudgetRaised
<1> QED BY <1>4, <1>5

\* A pod that ends leaves what it had before it to the next handler.
LEMMA BudgetCrash ==
  ASSUME DeliveryInv, TypeOK', NEW k \in Partitions, NEW i \in Offsets, Budget(k, i),
         NEW p \in Pods, Crash(p)
  PROVE  Budget(k, i)'
<1>0. /\ TypeOK /\ consumer \in [Pods -> Consumer]
      /\ claim \in [Pods -> [Partitions -> Claim]]
  BY DEF DeliveryInv, TypeOK
<1>1. /\ UNCHANGED pushed /\ consumer'[p] = "down"
      /\ \A q \in Pods \ {p} : claim'[q] = claim[q] /\ consumer'[q] = consumer[q]
  BY <1>0 DEF Crash
<1>2. FaultCount' = FaultCount + 1
  BY <1>0, FaultCounts DEF Crash
<1>3. Late(k, i)' \subseteq Late(k, i)
  BY <1>1 DEF Late, Pending
<1> QED BY <1>0, <1>1, <1>2, <1>3, BudgetRaised

\* A push of message x of j, by p.
LEMMA BudgetWork ==
  ASSUME DeliveryInv, TypeOK', PlaceInv, NEW k \in Partitions, NEW i \in Offsets,
         Budget(k, i), NEW p \in Pods, NEW j \in Partitions, Work(p, j)
  PROVE  Budget(k, i)'
<1>0. /\ TypeOK /\ claim \in [Pods -> [Partitions -> Claim]]
      /\ pushed \in [Partitions -> [Offsets -> Nat]] /\ PlaceOK(p, j) /\ ClaimOK(p, j)
  BY DEF DeliveryInv, TypeOK, PlaceInv
<1>1. PICK x \in claim[p][j].left :
        /\ pushed' = [pushed EXCEPT ![j] = [pushed[j] EXCEPT ![x] = pushed[j][x] + 1]]
        /\ claim' = [claim EXCEPT ![p] = [claim[p] EXCEPT ![j] =
             [claim[p][j] EXCEPT !.left = claim[p][j].left \ {x}]]]
  BY <1>0, Worked
<1>2. UNCHANGED <<log, committed, consumer, faults>>
  BY DEF Work, kafkaVars
<1>3. /\ claim'[p][j].at = claim[p][j].at /\ claim'[p][j].next = claim[p][j].next
      /\ claim'[p][j].left = claim[p][j].left \ {x}
  BY <1>0, <1>1 DEF Claim
<1>4. \A q \in Pods, l \in Partitions : q # p \/ l # j => claim'[q][l] = claim[q][l]
  BY <1>0, <1>1, ClaimUpdated
<1>5. /\ \A q \in Pods : Member(q)' <=> Member(q)
      /\ \A q \in Pods : claim'[q][k].at = "off" <=> claim[q][k].at = "off"
      /\ \A q \in Pods : Pending(q, k, i)' => Pending(q, k, i)
  BY <1>2, <1>3, <1>4 DEF Member, Pending
<1>6. \A q \in Pods : Handles(q, k)' <=> Handles(q, k)
  BY <1>5 DEF Handles
<1>7. Begin(k)' = Begin(k)
  BY <1>2 DEF Begin
<1>8. CASE j # k \/ x # i
  <2>1. pushed'[k][i] = pushed[k][i]
    BY <1>0, <1>1, <1>8
  <2>2. Late(k, i)' \subseteq Late(k, i)
    BY <1>2, <1>5 DEF Late
  <2>3. ToCome(k, i)' => ToCome(k, i)
    BY <1>5, <1>6, <1>7 DEF ToCome
  <2> QED BY <1>0, <1>2, <2>1, <2>2, <2>3, BudgetKept DEF FaultCount
<1>9. CASE j = k /\ x = i
  <2>1. pushed'[k][i] = pushed[k][i] + 1
    BY <1>0, <1>1, <1>9
  <2>2. /\ claim[p][k].at = "work" /\ i \in claim[p][k].left /\ i < claim[p][k].next
        /\ claim[p][k].next \in Nat
    BY <1>0, <1>1, <1>9, Types DEF ClaimOK, PlaceOK, Claim
  <2>3. Pending(p, k, i) /\ ~Pending(p, k, i)'
    BY <1>3, <1>9, <2>2 DEF Pending, Offsets
  <2>4. consumer[p] \in {"session", "ending", "expelled"}
    BY <1>0, <1>9, <2>2 DEF PlaceOK
  <2>5. CASE consumer[p] = "expelled"
    <3>1. p \in Late(k, i) /\ Late(k, i)' \subseteq Late(k, i) \ {p}
      BY <1>2, <1>5, <2>3, <2>5 DEF Late
    <3>2. ToCome(k, i)' => ToCome(k, i)
      BY <1>5, <1>6, <1>7 DEF ToCome
    <3> QED BY <1>0, <1>2, <2>1, <3>1, <3>2, BudgetUsed
  <2>6. CASE Member(p)
    <3>1. Handles(p, k) /\ ToCome(k, i)
      BY <2>2, <2>3, <2>6 DEF Handles, ToCome
    <3>2. \A q \in Pods : Handles(q, k) => q = p
      BY <3>1 DEF DeliveryInv, OneHandler
    <3>3. \A q \in Pods : ~(Member(q)' /\ Pending(q, k, i)')
      BY <1>5, <2>3, <3>2 DEF Handles, Pending
    <3>4. ~ToCome(k, i)'
      BY <1>6, <3>1, <3>3 DEF ToCome
    <3>5. Late(k, i)' \subseteq Late(k, i)
      BY <1>2, <1>5 DEF Late
    <3> QED BY <1>0, <1>2, <2>1, <3>1, <3>4, <3>5, BudgetUsed
  <2> QED BY <2>4, <2>5, <2>6 DEF Member
<1> QED BY <1>8, <1>9

\* Reading a batch moves messages from those to be read to the batch.
LEMMA BudgetBatch ==
  ASSUME DeliveryInv, TypeOK', NEW k \in Partitions, NEW i \in Offsets, Budget(k, i),
         NEW p \in Pods, NEW j \in Partitions, BatchConsume(p, j) \/ BatchDone(p, j)
  PROVE  Budget(k, i)'
<1>0. TypeOK /\ claim \in [Pods -> [Partitions -> Claim]]
  BY DEF DeliveryInv, TypeOK
<1>1. UNCHANGED <<log, committed, consumer, pushed, faults>>
  BY DEF BatchConsume, BatchDone, kafkaVars
<1>2. claim[p][j].at # "off"
  BY DEF BatchConsume, BatchDone
<1>3. PICK d : claim' = [claim EXCEPT ![p] = [claim[p] EXCEPT ![j] = d]] /\
               d.at # "off" /\ (i \in d.left \/ i >= d.next => Pending(p, j, i))
  <2>1. CASE BatchConsume(p, j)
    <3>1. PICK n \in 1..BatchSize :
            claim' = [claim EXCEPT ![p] = [claim[p] EXCEPT ![j] = Batch(claim[p][j], n)]]
      BY <1>0, <2>1, BatchConsumed
    <3>2. claim[p][j].next \in Nat /\ n \in Nat /\ i \in Nat
      BY <1>0, DeliveryAssumption, Types DEF Offsets
    <3> DEFINE d == Batch(claim[p][j], n)
    <3>3. d.at # "off" /\ (i \in d.left \/ i >= d.next => Pending(p, j, i))
      BY <1>2, <3>2 DEF Batch, Pending
    <3> HIDE DEF d
    <3> QED BY <3>1, <3>3 DEF d
  <2>2. CASE BatchDone(p, j)
    <3>1. claim' = [claim EXCEPT ![p] = [claim[p] EXCEPT ![j] = Marked(claim[p][j])]]
      BY <1>0, <2>2, BatchMarked
    <3> DEFINE d == Marked(claim[p][j])
    <3>2. d.at # "off" /\ (i \in d.left \/ i >= d.next => Pending(p, j, i))
      BY <1>2 DEF Marked, Pending
    <3> HIDE DEF d
    <3> QED BY <3>1, <3>2 DEF d
  <2> QED BY <2>1, <2>2
<1>4. /\ claim'[p][j] = d
      /\ \A q \in Pods, l \in Partitions : q # p \/ l # j => claim'[q][l] = claim[q][l]
  BY <1>0, <1>3, ClaimUpdated
<1>5. \A q \in Pods : claim'[q][k].at = "off" <=> claim[q][k].at = "off"
  BY <1>2, <1>3, <1>4
<1>6. \A q \in Pods : Pending(q, k, i)' => Pending(q, k, i)
  BY <1>3, <1>4 DEF Pending
<1>7. \A q \in Pods : Member(q)' <=> Member(q)
  BY <1>1 DEF Member
<1>8. Begin(k)' = Begin(k)
  BY <1>1 DEF Begin
<1> QED BY <1>0, <1>1, <1>5, <1>6, <1>7, <1>8, BudgetFrame DEF FaultCount

LEMMA BudgetNext == DeliveryInv /\ PlaceInv /\ BudgetInv /\ [Next]_vars => BudgetInv'
<1> SUFFICES ASSUME DeliveryInv, PlaceInv, BudgetInv, [Next]_vars,
                    NEW k \in Partitions, NEW i \in Offsets
             PROVE  Budget(k, i)'
  BY DEF BudgetInv
<1>0. /\ TypeOK /\ TypeOK' /\ Budget(k, i) /\ consumer \in [Pods -> Consumer]
      /\ log[k] \in Nat /\ log'[k] \in Nat /\ i \in Nat
  BY TypeNext DEF DeliveryInv, BudgetInv, TypeOK, Offsets
<1>1. ASSUME UNCHANGED <<claim, pushed, FaultCount>>,
             \A q \in Pods : consumer'[q] = "expelled" => consumer[q] = "expelled",
             \A q \in Pods : Member(q)' <=> Member(q),
             (\A q \in Pods : ~Handles(q, k)) /\ i >= Begin(k)' => i >= Begin(k)
      PROVE  Budget(k, i)'
  BY <1>0, <1>1, BudgetFrame DEF Pending
<1>2. ASSUME NEW j \in Partitions, Send(j) PROVE Budget(k, i)'
  <2>1. log[k] <= log'[k] /\ committed' = committed
    BY <1>0, <1>2 DEF Send, TypeOK
  <2>2. i >= Begin(k)' => i >= Begin(k)
    BY <1>0, <2>1 DEF Begin
  <2> QED BY <1>1, <1>2, <2>2 DEF Send, Member, FaultCount
<1>3. ASSUME NEW p \in Pods, Run(p) \/ JoinFails(p) \/ Heartbeat(p) PROVE Budget(k, i)'
  <2>1. Begin(k)' = Begin(k) /\ UNCHANGED <<claim, pushed>>
    BY <1>3 DEF Run, JoinFails, Heartbeat, Begin, kafkaVars
  <2>3. UNCHANGED FaultCount
    BY <1>0, <1>3 DEF Run, JoinFails, Heartbeat, kafkaVars, Fault, FaultCount, FaultKinds, TypeOK
  <2>2. \A q \in Pods : /\ consumer'[q] = "expelled" => consumer[q] = "expelled"
                        /\ Member(q)' <=> Member(q)
    BY <1>0, <1>3 DEF Run, JoinFails, Heartbeat, Member
  <2> QED BY <1>1, <2>1, <2>2, <2>3
<1>4. ASSUME NEW p \in Pods, Commit(p) PROVE Budget(k, i)'
  <2>1. Member(p) /\ committed' = Flushed(p) /\ UNCHANGED <<log, claim, consumer, pushed, faults>>
    BY <1>4 DEF Commit, Member
  <2>2. ASSUME \A q \in Pods : ~Handles(q, k) PROVE Begin(k)' = Begin(k)
    <3>1. Flushed(p)[k] = committed[k]
      BY <2>1, <2>2, FlushOK
    <3> QED BY <2>1, <3>1 DEF Begin
  <2> QED BY <1>1, <2>1, <2>2 DEF Member, FaultCount
<1>5. ASSUME NEW p \in Pods, NEW j \in Partitions, Handle(p, j) PROVE Budget(k, i)'
  BY <1>0, <1>5, BudgetWork, BudgetBatch DEF Handle
<1>6. CASE UNCHANGED vars
  <2>1. Begin(k)' = Begin(k)
    BY <1>6 DEF vars, kafkaVars, Begin
  <2> QED BY <1>1, <1>6, <2>1 DEF vars, kafkaVars, Member, FaultCount
<1> QED BY <1>0, <1>2, <1>3, <1>4, <1>5, <1>6, BudgetAssign, BudgetEndSession, BudgetExpel,
           BudgetCrash DEF Next, Group

\* Every crash, and every expulsion, of any pod and at any point, costs a message
\* at most one more push; rebalances and the ends of sessions cost none.
THEOREM AgainOnlyByFault == Spec => []PushedAgainOnlyByFault
<1>1. DeliveryInv /\ BudgetInv => PushedAgainOnlyByFault
  <2> SUFFICES ASSUME DeliveryInv, BudgetInv, NEW k \in Partitions, NEW i \in Offsets
               PROVE  pushed[k][i] <= 1 + faults["crash"] + faults["expulsion"]
    BY DEF PushedAgainOnlyByFault
  <2>1. Budget(k, i) /\ TypeOK
    BY DEF BudgetInv, DeliveryInv
  <2>2. Cardinality(Late(k, i)) \in Nat
    BY <2>1, FS_CardinalityType DEF Budget
  <2>3. pushed[k][i] \in Nat /\ faults["crash"] \in Nat /\ faults["expulsion"] \in Nat
    BY <2>1 DEF TypeOK, FaultKinds
  <2> QED BY <2>1, <2>2, <2>3 DEF Budget, FaultCount
<1> QED
  BY InvInit, InvNext, PlaceInit, PlaceNext, BudgetInit, BudgetNext, <1>1, PTL DEF Spec

-----------------------------------------------------------------------------
(***************************************************************************)
(* Delivery implements AtLeastOnce                                         *)
(***************************************************************************)

LEMMA PromiseInit == Init => Promise!Init
<1> SUFFICES ASSUME Init PROVE Promise!Init
  OBVIOUS
<1>1. \A k \in Partitions : Pushed(k) = {}
  BY DEF Init, Pushed
<1> QED BY <1>1 DEF Init, Promise!Init

\* The offsets a member flushes are an acknowledgement.
LEMMA FlushAcknowledges ==
  ASSUME DeliveryInv, NEW p \in Pods, Member(p), committed' = Flushed(p),
         UNCHANGED <<log, pushed, start>>
  PROVE  Promise!Acknowledge
<1>1. DOMAIN committed' = Partitions
  BY DEF Flushed
<1>2. [k \in Partitions |-> Pushed(k)]' = [k \in Partitions |-> Pushed(k)]
  BY DEF Pushed
<1>3. ASSUME NEW k \in Partitions, committed'[k] # committed[k]
      PROVE  Promise!Acknowledgeable(k, committed'[k])
  <2>1. /\ committed'[k] = claim[p][k].mark /\ committed'[k] # NoOffset
        /\ start[k] <= committed'[k] /\ committed'[k] <= log[k]
        /\ start[k]..(committed'[k] - 1) \subseteq Pushed(k)
        /\ committed[k] # NoOffset => committed[k] < committed'[k]
    BY <1>3, FlushOK
  <2>2. committed'[k] \in Nat /\ start[k] \in Nat /\ log[k] \in Nat
    BY <2>1, Types DEF DeliveryInv
  <2> QED BY <2>1, <2>2 DEF Promise!Acknowledgeable
<1> QED BY <1>1, <1>2, <1>3 DEF Promise!Acknowledge

\* A push is a delivery of a message that exists.
LEMMA WorkDelivers ==
  ASSUME DeliveryInv, NEW p \in Pods, NEW k \in Partitions, Work(p, k)
  PROVE  \E i \in 0..log[k] : Promise!Deliver(k, i)
<1>1. PICK i \in claim[p][k].left :
        pushed' = [pushed EXCEPT ![k] = [pushed[k] EXCEPT ![i] = pushed[k][i] + 1]]
  BY Worked DEF DeliveryInv
<1>2. i \in Offsets /\ log[k] \in Nat /\ i \in 0..(log[k] - 1)
  BY <1>1, Types DEF DeliveryInv, ClaimOK
<1>3. /\ Pushed(k)' = Pushed(k) \cup {i}
      /\ \A j \in Partitions : j # k => Pushed(j)' = Pushed(j)
  BY <1>1, <1>2, Types DEF DeliveryInv, TypeOK, Pushed
<1>4. [j \in Partitions |-> Pushed(j)]'
        = [[j \in Partitions |-> Pushed(j)] EXCEPT ![k] = @ \cup {i}]
  BY <1>3
<1>5. i \in 0..log[k] /\ i < log[k]
  BY <1>2
<1>6. UNCHANGED <<log, start, committed>>
  BY DEF Work, kafkaVars
<1> QED BY <1>4, <1>5, <1>6 DEF Promise!Deliver

LEMMA PromiseNext == DeliveryInv /\ [Next]_vars => [Promise!Next]_(Promise!vars)
<1> SUFFICES ASSUME DeliveryInv, [Next]_vars PROVE [Promise!Next]_(Promise!vars)
  OBVIOUS
<1>0. ASSUME UNCHANGED <<log, start, committed, pushed>> PROVE UNCHANGED Promise!vars
  <2>1. [k \in Partitions |-> Pushed(k)]' = [k \in Partitions |-> Pushed(k)]
    BY <1>0 DEF Pushed
  <2> QED BY <1>0, <2>1 DEF Promise!vars
<1>1. CASE Assign
  <2> DEFINE K == {k \in Partitions : committed[k] = NoOffset}
  <2>1. [k \in Partitions |-> Pushed(k)]' = [k \in Partitions |-> Pushed(k)]
    BY <1>1 DEF Assign, Pushed
  <2>2. start' = [k \in Partitions |-> IF k \in K THEN log[k] ELSE start[k]]
    BY <1>1 DEF Assign
  <2>3. Promise!BeginAtEnd(K)
    BY <1>1, <2>1, <2>2 DEF Assign, Promise!BeginAtEnd
  <2> QED BY <2>3 DEF Promise!Next
<1>2. ASSUME NEW k \in Partitions, Send(k) PROVE Promise!Next
  <2>1. [j \in Partitions |-> Pushed(j)]' = [j \in Partitions |-> Pushed(j)]
    BY <1>2 DEF Send, Pushed
  <2>2. Promise!Send(k)
    BY <1>2, <2>1 DEF Send, Promise!Send
  <2> QED BY <2>2 DEF Promise!Next
<1>3. ASSUME NEW p \in Pods, Run(p) \/ JoinFails(p) \/ Heartbeat(p) \/ Expel(p) \/ Crash(p)
      PROVE  UNCHANGED Promise!vars
  BY <1>0, <1>3 DEF Run, JoinFails, Heartbeat, Expel, Crash, kafkaVars
<1>4. ASSUME NEW p \in Pods, Commit(p) PROVE Promise!Next
  BY <1>4, FlushAcknowledges DEF Commit, Member, Promise!Next
<1>5. ASSUME NEW p \in Pods, EndSession(p) PROVE [Promise!Next]_(Promise!vars)
  <2>1. CASE consumer[p] = "expelled"
    BY <1>0, <1>5, <2>1 DEF EndSession
  <2>2. CASE consumer[p] = "ending"
    BY <1>5, <2>2, FlushAcknowledges DEF EndSession, Member, Promise!Next
  <2> QED BY <1>5, <2>1, <2>2 DEF EndSession
<1>6. ASSUME NEW p \in Pods, NEW k \in Partitions, Handle(p, k)
      PROVE  [Promise!Next]_(Promise!vars)
  <2>1. CASE Work(p, k)
    BY <2>1, WorkDelivers DEF Promise!Next
  <2>2. CASE BatchConsume(p, k) \/ BatchDone(p, k)
    BY <1>0, <2>2 DEF BatchConsume, BatchDone, kafkaVars
  <2> QED BY <1>6, <2>1, <2>2 DEF Handle
<1>7. CASE UNCHANGED vars
  BY <1>0, <1>7 DEF vars, kafkaVars
<1> QED BY <1>1, <1>2, <1>3, <1>4, <1>5, <1>6, <1>7 DEF Next, Group

\* The consumers of any number of pods keep the promise of AtLeastOnce: every
\* step that moves a committed offset moves it forward, over messages that have
\* been delivered, and no other step moves it.
THEOREM KeepsPromise == Spec => PromiseKept
BY InvAlways, PromiseInit, PromiseNext, PTL DEF Spec, PromiseKept, Promise!Spec

=============================================================================
