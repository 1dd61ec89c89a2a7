------------------------ MODULE ConsistentHashProofs ------------------------
(***************************************************************************)
(* Proofs about ConsistentHash and, at the end, TaskDivision, for every    *)
(* set of pods and of device types, every placement of types on rings and  *)
(* every number of faults.                                                 *)
(***************************************************************************)
EXTENDS TaskDivision, TLAPS

\* A rehash yields a set of device types, whatever rings it happens to read.
LEMMA HashResultsAreShares ==
  ASSUME NEW p, NEW others, NEW keys \in HashResults(p, others)
  PROVE  keys \subseteq Types
BY DEF HashResults

\* Publishing appends one event to some of the watches.
LEMMA PublishType ==
  ASSUME events \in [Pods -> Seq(Event)], NEW e \in Event, Publish(e)
  PROVE  events' \in [Pods -> Seq(Event)]
<1>1. ASSUME NEW p \in Pods PROVE Append(events[p], e) \in Seq(Event)
  OBVIOUS
<1> QED BY <1>1 DEF Publish

LEMMA AtType == \A stage \in {"off", "idle", "store", "hash", "offer"} : At(stage) \in Job
BY DEF At, Job

LEMMA TypeInit == Init => TypeOK
BY AtType DEF Init, TypeOK, Handoff, NoHandoff, FaultKinds

LEMMA TypeNext == TypeOK /\ [Next]_vars => TypeOK'
<1> SUFFICES ASSUME TypeOK, [Next]_vars PROVE TypeOK'
  OBVIOUS
<1> USE DEF TypeOK
<1>1. ASSUME NEW p \in Pods, Register(p) PROVE TypeOK'
  <2>1. [type |-> "put", pod |-> p] \in Event
    BY DEF Event
  <2>2. events' \in [Pods -> Seq(Event)]
    BY <1>1, <2>1, PublishType DEF Register
  <2> QED BY <1>1, <2>2 DEF Register, historyVars
<1>2. ASSUME NEW p \in Pods, Crash(p) PROVE TypeOK'
  <2>1. <<>> \in Seq(Event)
    OBVIOUS
  <2>2. [g \in Goroutines |-> At("off")] \in [Goroutines -> Job]
    BY AtType
  <2> QED BY <1>2, <2>1, <2>2 DEF Crash, Fault, FaultKinds, Handoff, NoHandoff
<1>3. ASSUME NEW p \in Pods, LoseLease(p) PROVE TypeOK'
  BY <1>3 DEF LoseLease, Fault, FaultKinds, historyVars
<1>4. ASSUME NEW p \in Pods, ExpireLease(p) PROVE TypeOK'
  <2>1. [type |-> "delete", pod |-> p] \in Event
    BY DEF Event
  <2>2. events' \in [Pods -> Seq(Event)]
    BY <1>4, <2>1, PublishType DEF ExpireLease
  <2> QED BY <1>4, <2>2 DEF ExpireLease, historyVars
<1>5. ASSUME NEW p \in Pods, CancelWatch(p) PROVE TypeOK'
  BY <1>5 DEF CancelWatch, Fault, FaultKinds, historyVars
<1>6. ASSUME NEW p \in Pods, NewConsistentHash(p) PROVE TypeOK'
  BY <1>6, AtType DEF NewConsistentHash, Registered, Goroutines, etcdVars, historyVars
<1>7. ASSUME NEW p \in Pods, WatchNodes(p) PROVE TypeOK'
  BY <1>7, AtType DEF WatchNodes, Goroutines, historyVars
<1>8. ASSUME NEW p \in Pods, NewProducer(p) PROVE TypeOK'
  <2>1. PICK keys \in HashResults(p, Goroutines) :
          responsibleTypes' = [responsibleTypes EXCEPT ![p] = keys]
    BY <1>8 DEF NewProducer
  <2>2. keys \subseteq Types
    BY <2>1, HashResultsAreShares
  <2> QED BY <1>8, <2>1, <2>2 DEF NewProducer, etcdVars
<1>9. ASSUME NEW p \in Pods, RunProducer(p) PROVE TypeOK'
  BY <1>9 DEF RunProducer, Handoff, etcdVars, historyVars
<1>10. ASSUME NEW p \in Pods, OnAddNode(p) PROVE TypeOK'
  <2>1. PICK e \in Event : Receive(p, e) /\ Rebuild(p, "watcher", ring[p] \cup {e.pod})
    BY <1>10 DEF OnAddNode
  <2>2. Tail(events[p]) \in Seq(Event)
    BY <2>1 DEF Receive
  <2> QED BY <1>10, <2>1, <2>2
          DEF OnAddNode, Receive, Rebuild, Overlaps, Active, Job, Event, Goroutines, Other
<1>11. ASSUME NEW p \in Pods, OnDelNode(p) PROVE TypeOK'
  <2>1. PICK e \in Event : Receive(p, e) /\ Rebuild(p, "watcher", ring[p] \ {e.pod})
    BY <1>11 DEF OnDelNode
  <2>2. Tail(events[p]) \in Seq(Event)
    BY <2>1 DEF Receive
  <2> QED BY <1>11, <2>1, <2>2
          DEF OnDelNode, Receive, Rebuild, Overlaps, Active, Job, Event, Goroutines, Other
<1>12. ASSUME NEW p \in Pods, IgnoreEvent(p) PROVE TypeOK'
  <2>1. PICK e \in Event : Receive(p, e)
    BY <1>12 DEF IgnoreEvent
  <2>2. Tail(events[p]) \in Seq(Event)
    BY <2>1 DEF Receive
  <2> QED BY <1>12, <2>1, <2>2 DEF IgnoreEvent, Receive, historyVars
<1>13. ASSUME NEW p \in Pods, ListNodes(p) PROVE TypeOK'
  BY <1>13 DEF ListNodes, Rebuild, Overlaps, Active, Registered, Job, Goroutines, Other, etcdVars
<1>14. ASSUME NEW p \in Pods, ListNodesFails(p) PROVE TypeOK'
  BY <1>14 DEF ListNodesFails, Rebuild, Overlaps, Active, Fault, FaultKinds, Job, Goroutines,
               Other, etcdVars
<1>15. ASSUME NEW p \in Pods, NEW g \in Goroutines, StoreRing(p, g) PROVE TypeOK'
  BY <1>15, AtType DEF StoreRing, Job, etcdVars, historyVars
<1>16. ASSUME NEW p \in Pods, NEW g \in Goroutines, HashKeys(p, g) PROVE TypeOK'
  <2>1. PICK keys \in HashResults(p, {Other(g)}) :
          job' = [job EXCEPT ![p][g] = [at |-> "offer", nodes |-> {}, keys |-> keys]]
    BY <1>16 DEF HashKeys
  <2>2. keys \subseteq Types
    BY <2>1, HashResultsAreShares
  <2> QED BY <1>16, <2>1, <2>2 DEF HashKeys, Job, etcdVars, historyVars
<1>17. ASSUME NEW p \in Pods, NEW g \in Goroutines, Offer(p, g) PROVE TypeOK'
  <2>1. job' \in [Pods -> [Goroutines -> Job]]
    BY <1>17, AtType DEF Offer
  <2>2. job[p][g].keys \in SUBSET Types
    BY DEF Job
  <2>3. [at |-> "send", keys |-> job[p][g].keys] \in Handoff
    BY <2>2 DEF Handoff
  <2>4. handoff' \in [Pods -> Handoff]
    BY <1>17, <2>3 DEF Offer
  <2> QED BY <1>17, <2>1, <2>4 DEF Offer, etcdVars
<1>18. ASSUME NEW p \in Pods, Deliver(p) PROVE TypeOK'
  BY <1>18 DEF Deliver, Handoff, etcdVars, historyVars
<1>19. ASSUME UNCHANGED vars PROVE TypeOK'
  BY <1>19 DEF vars, etcdVars, historyVars
<1> QED
  BY <1>1, <1>2, <1>3, <1>4, <1>5, <1>6, <1>7, <1>8, <1>9, <1>10, <1>11, <1>12, <1>13,
     <1>14, <1>15, <1>16, <1>17, <1>18, <1>19
     DEF Next, Start, Watcher, Timer, Publisher, Failure

\* Every variable keeps its type in every behaviour: in particular a pod's
\* ring holds names of pods and its share device types only, whatever its
\* listings, its watch and its goroutines deliver, and in whatever order.
THEOREM TypeCorrect == Spec => []TypeOK
BY TypeInit, TypeNext, PTL DEF Spec

-----------------------------------------------------------------------------
(***************************************************************************)
(* A pod's share follows its ring.                                         *)
(***************************************************************************)

\* StaleOnlyByDropOrOverlap says nothing while a goroutine is at work, and its
\* other parts are needed there: without an overlap only one goroutine is at
\* work, so the ring stands still between its hash and its offer; and a pod
\* that is not serving yet has nothing on the way to its producer.
FreshPod(p) ==
  /\ ~overlapped[p] => \E g \in Goroutines : ~Active(p, g)
  /\ ~overlapped[p] => \A g \in Goroutines :
        job[p][g].at = "offer" => job[p][g].keys = KeysOf(ring[p], p)
  /\ Serving(p) /\ Idle(p) /\ Undisturbed(p) => LatestShare(p) = KeysOf(ring[p], p)
  /\ watch[p] = "none" => job[p]["watcher"].at = "off"
  /\ main[p] # "running" => handoff[p].at = "none"
  /\ main[p] \in {"down", "registered"} =>
        /\ watch[p] = "none"
        /\ \A g \in Goroutines : job[p][g].at = "off"

FreshInv == \A p \in Pods : FreshPod(p)

\* A rehash that meets no ring about to be stored yields the share of c.ring.
LEMMA UndisturbedHash ==
  ASSUME NEW p, NEW others, NEW keys \in HashResults(p, others),
         \A g \in others : job[p][g].at # "store"
  PROVE  keys = KeysOf(ring[p], p)
<1>1. RingsRead(p, others) = {ring[p]}
  BY DEF RingsRead
<1>2. PICK seen \in [Types -> {ring[p]}] : keys = {t \in Types : Owner[seen[t]][t] = p}
  BY <1>1 DEF HashResults
<1>3. \A t \in Types : seen[t] = ring[p]
  BY <1>2
<1> QED BY <1>2, <1>3 DEF KeysOf

\* The part of a pod's state that only its own steps, and no other pod's,
\* can change.
PodState(p) == <<lease[p], watch[p], main[p], ring[p], job[p], handoff[p],
                 responsibleTypes[p], dropped[p], overlapped[p], listFailed[p]>>

PodStep(p) == \/ Start(p) \/ Watcher(p) \/ Timer(p) \/ Publisher(p) \/ Failure(p)
              \/ ExpireLease(p)

LEMMA OthersUnchanged ==
  ASSUME TypeOK, NEW p \in Pods, PodStep(p), NEW q \in Pods, q # p
  PROVE  UNCHANGED PodState(q)
<1> USE DEF TypeOK, PodState, etcdVars, historyVars
<1>1. CASE Start(p)
  BY <1>1 DEF Start, Register, NewConsistentHash, NewProducer, RunProducer
<1>2. CASE WatchNodes(p) \/ IgnoreEvent(p)
  BY <1>2 DEF WatchNodes, IgnoreEvent
<1>3. CASE OnAddNode(p) \/ OnDelNode(p)
  BY <1>3 DEF OnAddNode, OnDelNode, Rebuild
<1>4. CASE Timer(p)
  BY <1>4 DEF Timer, ListNodes, ListNodesFails, Rebuild
<1>5. CASE Publisher(p)
  <2>1. ASSUME NEW g \in Goroutines, StoreRing(p, g) PROVE UNCHANGED PodState(q)
    BY <2>1 DEF StoreRing
  <2>2. ASSUME NEW g \in Goroutines, HashKeys(p, g) PROVE UNCHANGED PodState(q)
    BY <2>2 DEF HashKeys
  <2>3. ASSUME NEW g \in Goroutines, Offer(p, g) PROVE UNCHANGED PodState(q)
    BY <2>3 DEF Offer
  <2>4. ASSUME Deliver(p) PROVE UNCHANGED PodState(q)
    BY <2>4 DEF Deliver
  <2> QED BY <1>5, <2>1, <2>2, <2>3, <2>4 DEF Publisher
<1>6. CASE Failure(p)
  BY <1>6 DEF Failure, Crash, LoseLease, CancelWatch
<1>7. CASE ExpireLease(p)
  BY <1>7 DEF ExpireLease
<1> QED BY <1>1, <1>2, <1>3, <1>4, <1>5, <1>6, <1>7 DEF PodStep, Watcher

LEMMA FreshInit == Init => FreshInv
<1> SUFFICES ASSUME Init, NEW p \in Pods PROVE FreshPod(p)
  BY DEF FreshInv
<1>1. \A g \in Goroutines : job[p][g].at = "off"
  BY DEF Init, At
<1>2. main[p] = "down" /\ watch[p] = "none" /\ handoff[p].at = "none"
  BY DEF Init, NoHandoff
<1> QED BY <1>1, <1>2 DEF FreshPod, Active, Serving, Goroutines

\* A step of p itself.  The goroutine that steps is g, the other one h.
LEMMA FreshStep ==
  ASSUME TypeOK, NEW p \in Pods, FreshPod(p), PodStep(p)
  PROVE  FreshPod(p)'
<1> USE DEF TypeOK, Serving, Undisturbed, etcdVars, historyVars
<1>1. ASSUME Register(p) PROVE FreshPod(p)'
  BY <1>1 DEF Register, FreshPod, Active, Idle, LatestShare
<1>2. ASSUME Crash(p) PROVE FreshPod(p)'
  <2>1. \A g \in Goroutines : job'[p][g].at = "off"
    BY <1>2 DEF Crash, At
  <2>2. main'[p] = "down" /\ watch'[p] = "none" /\ handoff'[p].at = "none"
    BY <1>2 DEF Crash, NoHandoff
  <2> QED BY <2>1, <2>2 DEF FreshPod, Active, Goroutines
<1>3. ASSUME LoseLease(p) \/ CancelWatch(p) \/ ExpireLease(p) \/ IgnoreEvent(p)
      PROVE  FreshPod(p)'
  BY <1>3 DEF LoseLease, CancelWatch, ExpireLease, IgnoreEvent, FreshPod, Active, Idle,
              LatestShare
<1>4. ASSUME NewConsistentHash(p) PROVE FreshPod(p)'
  <2>1. \A g \in Goroutines : job'[p][g].at \in {"off", "idle"}
    BY <1>4 DEF NewConsistentHash, FreshPod, At, Goroutines
  <2>2. job'[p]["watcher"].at = "off"
    BY <1>4 DEF NewConsistentHash, FreshPod, Goroutines
  <2> QED BY <1>4, <2>1, <2>2 DEF NewConsistentHash, FreshPod, Active, Goroutines
<1>5. ASSUME WatchNodes(p) PROVE FreshPod(p)'
  <2>1. job[p]["watcher"].at = "off" /\ job'[p]["watcher"].at = "idle"
    BY <1>5 DEF WatchNodes, FreshPod, At, Goroutines
  <2>2. job'[p]["timer"] = job[p]["timer"]
    BY <1>5 DEF WatchNodes, Goroutines
  <2> QED BY <1>5, <2>1, <2>2
          DEF WatchNodes, FreshPod, Active, Idle, LatestShare, Goroutines
<1>6. ASSUME NewProducer(p) PROVE FreshPod(p)'
  <2>1. PICK keys \in HashResults(p, Goroutines) :
          responsibleTypes' = [responsibleTypes EXCEPT ![p] = keys]
    BY <1>6 DEF NewProducer
  <2>2. handoff'[p].at = "none" /\ responsibleTypes'[p] = keys
    BY <1>6, <2>1 DEF NewProducer, FreshPod
  <2>3. Idle(p) => keys = KeysOf(ring[p], p)
    BY UndisturbedHash DEF Idle, Active
  <2> QED BY <1>6, <2>2, <2>3 DEF NewProducer, FreshPod, Active, Idle, LatestShare
<1>7. ASSUME RunProducer(p) PROVE FreshPod(p)'
  <2>1. handoff[p].at = "none" /\ handoff'[p].at = "recv"
    BY <1>7 DEF RunProducer, FreshPod
  <2> QED BY <1>7, <2>1 DEF RunProducer, FreshPod, Active, Idle, LatestShare
<1>8. ASSUME NEW g \in Goroutines, NEW nodes \in SUBSET Pods, Rebuild(p, g, nodes),
             UNCHANGED <<watch, main, ring, handoff>>
      PROVE  FreshPod(p)'
  <2>1. job[p][g].at = "idle" /\ job'[p][g].at = "store"
    BY <1>8 DEF Rebuild
  <2>2. job'[p][Other(g)] = job[p][Other(g)] /\ Other(g) \in Goroutines
    BY <1>8 DEF Rebuild, Other, Goroutines
  <2>3. \A h \in Goroutines : h = g \/ h = Other(g)
    BY DEF Other, Goroutines
  <2>4. overlapped'[p] = (overlapped[p] \/ Overlaps(p, g))
    BY <1>8 DEF Rebuild
  <2>5. ~overlapped'[p] => ~Active(p, Other(g))'
    BY <2>2, <2>4 DEF Overlaps, Active
  <2>6. ~Idle(p)'
    BY <2>1 DEF Idle, Active
  <2>7. watch[p] = "none" => g # "watcher"
    BY <2>1 DEF FreshPod
  <2>8. main[p] \notin {"down", "registered"}
    BY <2>1 DEF FreshPod
  <2> QED BY <1>8, <2>1, <2>2, <2>3, <2>4, <2>5, <2>6, <2>7, <2>8 DEF FreshPod, Goroutines
<1>9. ASSUME NEW g \in Goroutines, StoreRing(p, g) PROVE FreshPod(p)'
  <2>1. job[p][g].at = "store" /\ job'[p][g].at = "hash"
    BY <1>9 DEF StoreRing, At
  <2>2. job'[p][Other(g)] = job[p][Other(g)] /\ Other(g) \in Goroutines
    BY <1>9 DEF StoreRing, Other, Goroutines
  <2>3. \A h \in Goroutines : h = g \/ h = Other(g)
    BY DEF Other, Goroutines
  <2>4. ~overlapped[p] => ~Active(p, Other(g))
    BY <2>1, <2>3 DEF FreshPod, Active
  <2>5. ~Idle(p)'
    BY <2>1 DEF Idle, Active
  <2> QED BY <1>9, <2>1, <2>2, <2>3, <2>4, <2>5 DEF StoreRing, FreshPod, Active, Goroutines
<1>10. ASSUME NEW g \in Goroutines, HashKeys(p, g) PROVE FreshPod(p)'
  <2>1. PICK keys \in HashResults(p, {Other(g)}) :
          job' = [job EXCEPT ![p][g] = [at |-> "offer", nodes |-> {}, keys |-> keys]]
    BY <1>10 DEF HashKeys
  <2>2. job[p][g].at = "hash" /\ job'[p][g].at = "offer" /\ job'[p][g].keys = keys
    BY <1>10, <2>1 DEF HashKeys
  <2>3. job'[p][Other(g)] = job[p][Other(g)] /\ Other(g) \in Goroutines
    BY <2>1 DEF Other, Goroutines
  <2>4. \A h \in Goroutines : h = g \/ h = Other(g)
    BY DEF Other, Goroutines
  <2>5. ~overlapped[p] => ~Active(p, Other(g))
    BY <2>2, <2>4 DEF FreshPod, Active
  <2>6. ASSUME ~overlapped[p] PROVE keys = KeysOf(ring[p], p)
    <3>1. \A h \in {Other(g)} : job[p][h].at # "store"
      BY <2>5, <2>6 DEF Active
    <3> DEFINE others == {Other(g)}
    <3>2. keys \in HashResults(p, others) /\ \A h \in others : job[p][h].at # "store"
      BY <2>1, <3>1
    <3> HIDE DEF others
    <3> QED BY <3>2, UndisturbedHash
  <2>7. ~Idle(p)'
    BY <2>2 DEF Idle, Active
  <2> QED BY <1>10, <2>2, <2>3, <2>4, <2>5, <2>6, <2>7
          DEF HashKeys, FreshPod, Active, Goroutines
<1>11. ASSUME NEW g \in Goroutines, Offer(p, g) PROVE FreshPod(p)'
  <2>1. job[p][g].at = "offer" /\ job'[p][g].at \in {"off", "idle"}
    BY <1>11 DEF Offer, At
  <2>2. job'[p][Other(g)] = job[p][Other(g)] /\ Other(g) \in Goroutines
    BY <1>11 DEF Offer, Other, Goroutines
  <2>3. \A h \in Goroutines : h = g \/ h = Other(g)
    BY DEF Other, Goroutines
  <2>4. watch[p] = "none" => g = "timer" /\ job'[p]["watcher"].at = "off"
    BY <2>1, <2>2, <2>3 DEF FreshPod, Other, Goroutines
  <2>5. ~overlapped[p] => job[p][g].keys = KeysOf(ring[p], p)
    BY <2>1 DEF FreshPod
  <2>6. dropped'[p] \/ (handoff'[p].at = "send" /\ handoff'[p].keys = job[p][g].keys)
    <3>1. CASE handoff[p].at = "recv"
      <4>1. handoff' = [handoff EXCEPT ![p] = [at |-> "send", keys |-> job[p][g].keys]]
        BY <1>11, <3>1 DEF Offer
      <4> QED BY <4>1
    <3>2. CASE handoff[p].at # "recv"
      <4>1. dropped' = [dropped EXCEPT ![p] = TRUE]
        BY <1>11, <3>2 DEF Offer
      <4>2. dropped'[p]
        BY <4>1
      <4> QED BY <4>2
    <3> QED BY <3>1, <3>2
  <2>7. main[p] # "running" => handoff'[p].at = "none"
    BY <1>11 DEF Offer, FreshPod
  <2>8. main[p] \notin {"down", "registered"}
    BY <2>1 DEF FreshPod
  <2>9. UNCHANGED <<watch, main, ring, overlapped>>
    BY <1>11 DEF Offer
  <2> QED BY <2>1, <2>2, <2>3, <2>4, <2>5, <2>6, <2>7, <2>8, <2>9
          DEF FreshPod, Active, LatestShare, Goroutines
<1>12. ASSUME Deliver(p) PROVE FreshPod(p)'
  <2>1. handoff[p].at = "send" /\ handoff'[p].at = "recv"
    BY <1>12 DEF Deliver
  <2>2. responsibleTypes'[p] = handoff[p].keys
    BY <1>12 DEF Deliver
  <2> QED BY <1>12, <2>1, <2>2 DEF Deliver, FreshPod, Active, Idle, LatestShare
<1>13. ASSUME OnAddNode(p) \/ OnDelNode(p) PROVE FreshPod(p)'
  <2>1. PICK e \in Event : \/ Rebuild(p, "watcher", ring[p] \cup {e.pod})
                          \/ Rebuild(p, "watcher", ring[p] \ {e.pod})
    BY <1>13 DEF OnAddNode, OnDelNode
  <2>2. e.pod \in Pods
    BY DEF Event
  <2> QED BY <1>8, <1>13, <2>1, <2>2 DEF OnAddNode, OnDelNode, Goroutines
<1>14. ASSUME ListNodes(p) \/ ListNodesFails(p) PROVE FreshPod(p)'
  BY <1>8, <1>14 DEF ListNodes, ListNodesFails, Registered, Goroutines
<1> QED
  BY <1>1, <1>2, <1>3, <1>4, <1>5, <1>6, <1>7, <1>9, <1>10, <1>11, <1>12, <1>13, <1>14
     DEF PodStep, Start, Watcher, Timer, Publisher, Failure

LEMMA FreshNext == TypeOK /\ FreshInv /\ [Next]_vars => FreshInv'
<1> SUFFICES ASSUME TypeOK, FreshInv, [Next]_vars, NEW q \in Pods PROVE FreshPod(q)'
  BY DEF FreshInv
<1>1. FreshPod(q)
  BY DEF FreshInv
<1>2. ASSUME UNCHANGED PodState(q) PROVE FreshPod(q)'
  BY <1>1, <1>2 DEF PodState, FreshPod, Active, Idle, Serving, Undisturbed, LatestShare
<1>3. ASSUME NEW p \in Pods, PodStep(p) PROVE FreshPod(q)'
  BY <1>1, <1>2, <1>3, FreshStep, OthersUnchanged
<1>4. CASE UNCHANGED vars
  BY <1>2, <1>4 DEF vars, etcdVars, historyVars, PodState
<1> QED BY <1>3, <1>4 DEF Next, PodStep

\* At rest, a producer's share is that of its pod's ring unless its last
\* offer was dropped or the unlocked timer and watcher met.
THEOREM ShareFollowsRing == Spec => []StaleOnlyByDropOrOverlap
<1>1. FreshInv => StaleOnlyByDropOrOverlap
  BY DEF FreshInv, FreshPod, StaleOnlyByDropOrOverlap
<1> QED BY TypeInit, TypeNext, FreshInit, FreshNext, <1>1, PTL DEF Spec

\* Pods at rest that agree on being the ring divide the types among them.
THEOREM TypesAreDivided == Spec => []OneProducerPerType
<1>1. TypeOK /\ FreshInv => OneProducerPerType
  <2> SUFFICES ASSUME TypeOK, FreshInv, NEW S \in (SUBSET Pods) \ {{}},
                      \A p \in S : Settled(p) /\ Undisturbed(p) /\ ring[p] = S,
                      NEW t \in Types
               PROVE  \E p \in S : /\ t \in responsibleTypes[p]
                                   /\ \A q \in S \ {p} : t \notin responsibleTypes[q]
    BY DEF OneProducerPerType
  <2>1. ASSUME NEW p \in S PROVE responsibleTypes[p] = KeysOf(S, p)
    <3>1. FreshPod(p)
      BY DEF FreshInv
    <3> QED BY <3>1 DEF FreshPod, Settled, Serving, LatestShare
  <2>2. Owner[S][t] \in S
    BY OwnerAssumption
  <2>3. \A p \in S : t \in responsibleTypes[p] <=> Owner[S][t] = p
    BY <2>1 DEF KeysOf
  <2> QED BY <2>2, <2>3
<1> QED BY TypeInit, TypeNext, FreshInit, FreshNext, <1>1, PTL DEF Spec

-----------------------------------------------------------------------------
(***************************************************************************)
(* A registered pod is on its own ring.                                    *)
(***************************************************************************)

\* The ring loses p only to an event or a listing; so a pod that holds its
\* lease must not have its own departure among the events it still has to
\* receive, and the ring that is about to be stored must have the pod too.
SelfPod(p) ==
  /\ main[p] = "down" => lease[p] # "live"
  /\ main[p] \in {"down", "registered"} => events[p] = <<>>
  /\ lease[p] = "live" =>
       \A i \in 1..Len(events[p]) : events[p][i] # [type |-> "delete", pod |-> p]
  /\ lease[p] = "live" /\ ~listFailed[p] =>
       /\ main[p] \notin {"down", "registered"} => p \in ring[p]
       /\ \A g \in Goroutines : job[p][g].at = "store" => p \in job[p][g].nodes

SelfInv == \A p \in Pods : SelfPod(p)

LEMMA SelfInit == Init => SelfInv
BY DEF Init, SelfInv, SelfPod, At

\* What another pod publishes leaves p's own departure out of its events.
LEMMA PublishOther ==
  ASSUME TypeOK, NEW q \in Pods, FreshPod(q), SelfPod(q), UNCHANGED PodState(q),
         NEW e \in Event, Publish(e), e # [type |-> "delete", pod |-> q]
  PROVE  SelfPod(q)'
<1>1. events'[q] = IF watch[q] = "open" THEN Append(events[q], e) ELSE events[q]
  BY DEF Publish
<1>2. events[q] \in Seq(Event)
  BY DEF TypeOK
<1>3. main[q] \in {"down", "registered"} => events'[q] = <<>>
  BY <1>1 DEF FreshPod, SelfPod
<1>4. lease[q] = "live" =>
        \A i \in 1..Len(events'[q]) : events'[q][i] # [type |-> "delete", pod |-> q]
  BY <1>1, <1>2 DEF SelfPod
<1> QED BY <1>3, <1>4 DEF PodState, SelfPod

\* A step that leaves the events of q alone, and its state too.
LEMMA SelfFrame ==
  ASSUME NEW q \in Pods, SelfPod(q), UNCHANGED PodState(q), UNCHANGED events[q]
  PROVE  SelfPod(q)'
BY DEF PodState, SelfPod

\* Every other step of p leaves the events of other pods alone.
LEMMA EventsOfOthers ==
  ASSUME TypeOK, NEW p \in Pods, PodStep(p), NEW q \in Pods, q # p
  PROVE  \/ UNCHANGED events[q]
         \/ \E e \in Event : Publish(e) /\ e.pod = p
<1> USE DEF TypeOK, etcdVars, historyVars
<1>1. CASE Register(p) \/ ExpireLease(p)
  <2>1. [type |-> "put", pod |-> p] \in Event /\ [type |-> "delete", pod |-> p] \in Event
    BY DEF Event
  <2> QED BY <1>1, <2>1 DEF Register, ExpireLease
<1>2. CASE NewConsistentHash(p) \/ NewProducer(p) \/ RunProducer(p) \/ WatchNodes(p)
  BY <1>2 DEF NewConsistentHash, NewProducer, RunProducer, WatchNodes
<1>3. CASE OnAddNode(p) \/ OnDelNode(p) \/ IgnoreEvent(p)
  BY <1>3 DEF OnAddNode, OnDelNode, IgnoreEvent, Receive
<1>4. CASE Timer(p)
  BY <1>4 DEF Timer, ListNodes, ListNodesFails
<1>5. CASE Publisher(p)
  BY <1>5 DEF Publisher, StoreRing, HashKeys, Offer, Deliver
<1>6. CASE Failure(p)
  BY <1>6 DEF Failure, Crash, LoseLease, CancelWatch
<1> QED BY <1>1, <1>2, <1>3, <1>4, <1>5, <1>6 DEF PodStep, Start, Watcher

LEMMA SelfStep ==
  ASSUME TypeOK, NEW p \in Pods, FreshPod(p), SelfPod(p), PodStep(p)
  PROVE  SelfPod(p)'
<1> USE DEF TypeOK, etcdVars, historyVars
<1>0. events[p] \in Seq(Event)
  OBVIOUS
<1>1. ASSUME Register(p) PROVE SelfPod(p)'
  <2>1. events'[p] = <<>> /\ main'[p] = "registered"
    BY <1>1 DEF Register, Publish, FreshPod, SelfPod
  <2>2. \A g \in Goroutines : job'[p][g].at = "off"
    BY <1>1 DEF Register, FreshPod
  <2> QED BY <2>1, <2>2 DEF SelfPod
<1>2. ASSUME Crash(p) PROVE SelfPod(p)'
  <2>1. events'[p] = <<>> /\ lease'[p] # "live"
    BY <1>2 DEF Crash
  <2> QED BY <2>1 DEF SelfPod
<1>3. ASSUME LoseLease(p) PROVE SelfPod(p)'
  <2>1. lease'[p] = "orphan" /\ UNCHANGED <<main, events>>
    BY <1>3 DEF LoseLease
  <2> QED BY <2>1 DEF SelfPod
<1>4. ASSUME ExpireLease(p) PROVE SelfPod(p)'
  <2>1. lease'[p] = "none" /\ UNCHANGED main
    BY <1>4 DEF ExpireLease
  <2>2. main[p] \in {"down", "registered"} => events'[p] = <<>>
    BY <1>4 DEF ExpireLease, Publish, FreshPod, SelfPod
  <2> QED BY <2>1, <2>2 DEF SelfPod
<1>5. ASSUME CancelWatch(p) \/ NewProducer(p) \/ RunProducer(p) \/ Deliver(p)
      PROVE  SelfPod(p)'
  BY <1>5 DEF CancelWatch, NewProducer, RunProducer, Deliver, SelfPod
<1>6. ASSUME NewConsistentHash(p) PROVE SelfPod(p)'
  <2>1. lease[p] = "live" => p \in ring'[p]
    BY <1>6 DEF NewConsistentHash, Registered
  <2>2. \A g \in Goroutines : job'[p][g].at # "store"
    BY <1>6 DEF NewConsistentHash, FreshPod, At
  <2>3. main[p] = "registered" /\ main'[p] = "hashed" /\ UNCHANGED <<lease, events, listFailed>>
    BY <1>6 DEF NewConsistentHash
  <2> QED BY <2>1, <2>2, <2>3 DEF SelfPod
<1>7. ASSUME WatchNodes(p) PROVE SelfPod(p)'
  <2>1. \A g \in Goroutines : job'[p][g].at = "store" => job'[p][g] = job[p][g]
    BY <1>7 DEF WatchNodes, At
  <2> QED BY <1>7, <2>1 DEF WatchNodes, SelfPod
<1>8. ASSUME NEW g \in Goroutines, NEW nodes \in SUBSET Pods, Rebuild(p, g, nodes),
             lease[p] = "live" /\ ~listFailed'[p] => p \in nodes,
             events'[p] \in {events[p], Tail(events[p])}, events[p] = <<>> => events'[p] = <<>>,
             UNCHANGED <<lease, main, ring>>, listFailed[p] => listFailed'[p]
      PROVE  SelfPod(p)'
  <2>1. job[p][g].at = "idle" /\ job'[p][g].nodes = nodes
    BY <1>8 DEF Rebuild
  <2>2. \A h \in Goroutines \ {g} : job'[p][h] = job[p][h]
    BY <1>8 DEF Rebuild
  <2>3. main[p] \notin {"down", "registered"}
    BY <2>1 DEF FreshPod
  <2>4. lease[p] = "live" =>
          \A i \in 1..Len(events'[p]) : events'[p][i] # [type |-> "delete", pod |-> p]
    <3>1. CASE events'[p] = events[p]
      BY <3>1 DEF SelfPod
    <3>2. CASE events'[p] = Tail(events[p]) /\ events[p] # <<>>
      BY <1>0, <3>2 DEF SelfPod
    <3> QED BY <1>8, <3>1, <3>2
  <2> QED BY <1>8, <2>1, <2>2, <2>3, <2>4 DEF SelfPod
<1>9. ASSUME OnAddNode(p) PROVE SelfPod(p)'
  <2>1. PICK e \in Event : Receive(p, e) /\ Rebuild(p, "watcher", ring[p] \cup {e.pod})
    BY <1>9 DEF OnAddNode
  <2>2. main[p] \notin {"down", "registered"} /\ "watcher" \in Goroutines
    BY <2>1 DEF Rebuild, FreshPod, Goroutines
  <2>3. lease[p] = "live" /\ ~listFailed[p] => p \in ring[p] \cup {e.pod}
    BY <2>2 DEF SelfPod
  <2>4. events'[p] = Tail(events[p]) /\ events[p] # <<>>
    BY <2>1 DEF Receive
  <2>5. ring[p] \cup {e.pod} \in SUBSET Pods
    BY DEF Event
  <2> QED BY <1>8, <1>9, <2>1, <2>2, <2>3, <2>4, <2>5 DEF OnAddNode
<1>10. ASSUME OnDelNode(p) PROVE SelfPod(p)'
  <2>1. PICK e \in Event : /\ Receive(p, e) /\ e.type = "delete"
                          /\ Rebuild(p, "watcher", ring[p] \ {e.pod})
    BY <1>10 DEF OnDelNode
  <2>2. main[p] \notin {"down", "registered"} /\ "watcher" \in Goroutines
    BY <2>1 DEF Rebuild, FreshPod, Goroutines
  <2>3. events'[p] = Tail(events[p]) /\ events[p] # <<>> /\ e = events[p][1]
    BY <1>0, <2>1 DEF Receive
  <2>4. 1 \in 1..Len(events[p])
    BY <1>0, <2>3
  <2>5. lease[p] = "live" => e.pod # p
    BY <2>1, <2>3, <2>4 DEF SelfPod, Event
  <2>6. lease[p] = "live" /\ ~listFailed[p] => p \in ring[p] \ {e.pod}
    BY <2>2, <2>5 DEF SelfPod
  <2>7. ring[p] \ {e.pod} \in SUBSET Pods
    OBVIOUS
  <2> QED BY <1>8, <1>10, <2>1, <2>2, <2>3, <2>6, <2>7 DEF OnDelNode
<1>11. ASSUME IgnoreEvent(p) PROVE SelfPod(p)'
  <2>1. events'[p] = Tail(events[p]) /\ events[p] # <<>>
    BY <1>11 DEF IgnoreEvent, Receive
  <2>2. lease[p] = "live" =>
          \A i \in 1..Len(events'[p]) : events'[p][i] # [type |-> "delete", pod |-> p]
    <3>1. \A i \in 1..Len(Tail(events[p])) :
            i + 1 \in 1..Len(events[p]) /\ Tail(events[p])[i] = events[p][i + 1]
      BY <1>0, <2>1
    <3>2. ASSUME lease[p] = "live", NEW i \in 1..Len(Tail(events[p]))
          PROVE  Tail(events[p])[i] # [type |-> "delete", pod |-> p]
      <4>1. i + 1 \in 1..Len(events[p]) /\ Tail(events[p])[i] = events[p][i + 1]
        BY <3>1, <3>2
      <4>2. \A j \in 1..Len(events[p]) : events[p][j] # [type |-> "delete", pod |-> p]
        BY <3>2 DEF SelfPod
      <4> QED BY <4>1, <4>2
    <3> QED BY <2>1, <3>2
  <2>3. UNCHANGED <<lease, main, ring, job, listFailed>>
    BY <1>11 DEF IgnoreEvent
  <2> QED BY <2>1, <2>2, <2>3 DEF SelfPod
<1>12. ASSUME ListNodes(p) PROVE SelfPod(p)'
  <2>1. Registered \in SUBSET Pods /\ (lease[p] = "live" => p \in Registered)
    BY DEF Registered
  <2> QED BY <1>8, <1>12, <2>1 DEF ListNodes, Goroutines
<1>13. ASSUME ListNodesFails(p) PROVE SelfPod(p)'
  BY <1>8, <1>13 DEF ListNodesFails, Goroutines
<1>14. ASSUME NEW g \in Goroutines, StoreRing(p, g) PROVE SelfPod(p)'
  <2>1. job[p][g].at = "store" /\ ring'[p] = job[p][g].nodes
    BY <1>14 DEF StoreRing
  <2>2. \A h \in Goroutines : job'[p][h].at = "store" => job'[p][h] = job[p][h]
    BY <1>14 DEF StoreRing, At
  <2> QED BY <1>14, <2>1, <2>2 DEF StoreRing, SelfPod
<1>15. ASSUME NEW g \in Goroutines, HashKeys(p, g) PROVE SelfPod(p)'
  <2>1. \A h \in Goroutines : job'[p][h].at = "store" => job'[p][h] = job[p][h]
    BY <1>15 DEF HashKeys
  <2> QED BY <1>15, <2>1 DEF HashKeys, SelfPod
<1>16. ASSUME NEW g \in Goroutines, Offer(p, g) PROVE SelfPod(p)'
  <2>1. \A h \in Goroutines : job'[p][h].at = "store" => job'[p][h] = job[p][h]
    BY <1>16 DEF Offer, At
  <2> QED BY <1>16, <2>1 DEF Offer, SelfPod
<1> QED
  BY <1>1, <1>2, <1>3, <1>4, <1>5, <1>6, <1>7, <1>9, <1>10, <1>11, <1>12, <1>13, <1>14,
     <1>15, <1>16
     DEF PodStep, Start, Watcher, Timer, Publisher, Failure

LEMMA SelfNext == TypeOK /\ FreshInv /\ SelfInv /\ [Next]_vars => SelfInv'
<1> SUFFICES ASSUME TypeOK, FreshInv, SelfInv, [Next]_vars, NEW q \in Pods PROVE SelfPod(q)'
  BY DEF SelfInv
<1>1. FreshPod(q) /\ SelfPod(q)
  BY DEF FreshInv, SelfInv
<1>2. ASSUME NEW p \in Pods, PodStep(p), q # p PROVE SelfPod(q)'
  <2>1. UNCHANGED PodState(q)
    BY <1>2, OthersUnchanged
  <2>2. CASE UNCHANGED events[q]
    BY <1>1, <2>1, <2>2, SelfFrame
  <2>3. CASE \E e \in Event : Publish(e) /\ e.pod = p
    BY <1>1, <1>2, <2>1, <2>3, PublishOther
  <2> QED BY <1>2, <2>2, <2>3, EventsOfOthers
<1>3. ASSUME PodStep(q) PROVE SelfPod(q)'
  BY <1>1, <1>3, SelfStep
<1>4. CASE UNCHANGED vars
  BY <1>1, <1>4, SelfFrame DEF vars, etcdVars, historyVars, PodState
<1> QED BY <1>2, <1>3, <1>4 DEF Next, PodStep

\* A pod that holds its registration stays on its own ring until a listing
\* fails.
THEOREM PodKnowsItself == Spec => []SelfInRing
<1>1. SelfInv => SelfInRing
  BY DEF SelfInv, SelfPod, SelfInRing
<1> QED
  BY TypeInit, TypeNext, FreshInit, FreshNext, SelfInit, SelfNext, <1>1, PTL DEF Spec

-----------------------------------------------------------------------------
(***************************************************************************)
(* After its second listing a pod knows who is registered.                 *)
(***************************************************************************)

\* What a ring should say of q. It has to miss a pod that is gone only where
\* departures are reported.
Agrees(nodes, q) ==
  /\ q \in Registered => q \in nodes
  /\ DeleteHasValue /\ q \in nodes => q \in Registered

\* The ring that p works with, or is about to store, is right about q.
Knows(p, q) ==
  /\ \A g \in Goroutines : job[p][g].at = "store" => Agrees(job[p][g].nodes, q)
  /\ (\A g \in Goroutines : job[p][g].at # "store") => Agrees(ring[p], q)

Mentions(p, q) == \E i \in 1..Len(events[p]) : events[p][i].pod = q
LastWord(p, i) == \A j \in 1..Len(events[p]) :
                    j > i => events[p][j].pod # events[p][i].pod

\* The second listing is under way or done, and its watch preceded it.
Follows(p) ==
  /\ watch[p] = "open" /\ job[p]["timer"].at # "idle"
  /\ ~overlapped[p] /\ ~listFailed[p]

\* KnowsRegistered speaks of a pod that has read its watch to the end. On the
\* way there, the last event about a pod tells what has become of it, and the
\* ring is right about every pod that no event is still to come of.
FollowPod(p) ==
  /\ watch[p] = "none" =>
       /\ events[p] = <<>>
       /\ \/ main[p] \in {"down", "registered"}
          \/ job[p]["timer"].at = "idle"
          \/ overlapped[p]
  /\ watch[p] = "open" => \A i \in 1..Len(events[p]) :
       LastWord(p, i) => (events[p][i].type = "put" <=> events[p][i].pod \in Registered)
  /\ Follows(p) => \A q \in Pods : Mentions(p, q) \/ Knows(p, q)

FollowInv == \A p \in Pods : FollowPod(p)

LEMMA FollowInit == Init => FollowInv
BY DEF Init, FollowInv, FollowPod, Follows

\* A change of the registry reaches p with the event that tells of it.
LEMMA FollowPublish ==
  ASSUME TypeOK, NEW p \in Pods, FollowPod(p),
         UNCHANGED <<watch[p], main[p], ring[p], job[p], overlapped[p], listFailed[p]>>,
         NEW e \in Event, Publish(e), e.type = "put" <=> e.pod \in Registered',
         \A q \in Pods \ {e.pod} : q \in Registered' <=> q \in Registered
  PROVE  FollowPod(p)'
<1>1. events'[p] = IF watch[p] = "open" THEN Append(events[p], e) ELSE events[p]
  BY DEF Publish
<1>2. events[p] \in Seq(Event)
  BY DEF TypeOK
<1>3. CASE watch[p] = "open"
  <2>1. /\ Len(events'[p]) = Len(events[p]) + 1
        /\ events'[p][Len(events[p]) + 1] = e
        /\ \A i \in 1..Len(events[p]) : events'[p][i] = events[p][i]
        /\ Len(events[p]) \in Nat
    BY <1>1, <1>2, <1>3
  <2>2. ASSUME NEW i \in 1..Len(events'[p]), LastWord(p, i)'
        PROVE  events'[p][i].type = "put" <=> events'[p][i].pod \in Registered'
    <3>1. CASE i = Len(events[p]) + 1
      BY <2>1, <3>1
    <3>2. CASE i # Len(events[p]) + 1
      <4>1. i \in 1..Len(events[p]) /\ events'[p][i] = events[p][i]
        BY <2>1, <3>2
      <4>2. e.pod # events[p][i].pod
        BY <2>1, <2>2, <4>1 DEF LastWord
      <4>3. LastWord(p, i)
        BY <2>1, <2>2, <4>1 DEF LastWord
      <4>4. events[p][i].type = "put" <=> events[p][i].pod \in Registered
        BY <1>3, <4>1, <4>3 DEF FollowPod
      <4>5. events[p][i] \in Event
        BY <1>2, <4>1
      <4>6. events[p][i].pod \in Pods \ {e.pod}
        BY <4>2, <4>5 DEF Event
      <4> QED BY <4>1, <4>4, <4>6
    <3> QED BY <3>1, <3>2
  <2>3. ASSUME Follows(p)', NEW q \in Pods, ~Mentions(p, q)' PROVE Knows(p, q)'
    <3>1. q # e.pod
      BY <2>1, <2>3 DEF Mentions
    <3>2. ~Mentions(p, q)
      BY <2>1, <2>3 DEF Mentions
    <3>3. Knows(p, q)
      BY <2>3, <3>2 DEF FollowPod, Follows
    <3>4. q \in Registered' <=> q \in Registered
      BY <3>1
    <3> QED BY <3>3, <3>4 DEF Knows, Agrees
  <2> QED BY <1>3, <2>2, <2>3 DEF FollowPod
<1>4. CASE watch[p] # "open"
  BY <1>1, <1>4 DEF FollowPod, Follows
<1> QED BY <1>3, <1>4

\* A step that changes neither the registry nor what p knows of it.
LEMMA FollowFrame ==
  ASSUME NEW p \in Pods, FollowPod(p), UNCHANGED Registered, UNCHANGED events[p],
         UNCHANGED <<watch[p], main[p], ring[p], job[p], overlapped[p], listFailed[p]>>
  PROVE  FollowPod(p)'
BY DEF FollowPod, Follows, Mentions, LastWord, Knows, Agrees

\* The steps of p that change the registry, for p alone, publish the change.
LEMMA RegistryPublishes ==
  ASSUME TypeOK, NEW p \in Pods, Register(p) \/ ExpireLease(p)
  PROVE  \E e \in Event :
           /\ Publish(e) /\ e.pod = p /\ (e.type = "put" <=> p \in Registered')
           /\ \A q \in Pods \ {p} : q \in Registered' <=> q \in Registered
           /\ UNCHANGED <<watch, ring, job, overlapped, listFailed>>
           /\ UNCHANGED main[p] \/ (main[p] = "down" /\ main'[p] = "registered")
<1> USE DEF TypeOK, historyVars
<1>1. CASE Register(p)
  <2> DEFINE e == [type |-> "put", pod |-> p]
  <2>1. e \in Event
    BY DEF Event
  <2>2. p \in Registered' /\ \A q \in Pods \ {p} : q \in Registered' <=> q \in Registered
    BY <1>1 DEF Register, Registered
  <2> QED BY <1>1, <2>1, <2>2 DEF Register
<1>2. CASE ExpireLease(p)
  <2> DEFINE e == [type |-> "delete", pod |-> p]
  <2>1. e \in Event
    BY DEF Event
  <2>2. p \notin Registered' /\ \A q \in Pods \ {p} : q \in Registered' <=> q \in Registered
    BY <1>2 DEF ExpireLease, Registered
  <2>3. Publish(e) /\ UNCHANGED <<watch, ring, job, overlapped, listFailed>> /\ UNCHANGED main[p]
    BY <1>2 DEF ExpireLease
  <2>4. e.pod = p /\ (e.type = "put" <=> p \in Registered')
    BY <2>2
  <2> QED BY <2>1, <2>2, <2>3, <2>4
<1> QED BY <1>1, <1>2

\* Every other step of p leaves it, and the events of the other pods, alone.
LEMMA RegistryKept ==
  ASSUME TypeOK, NEW p \in Pods, PodStep(p), ~Register(p), ~ExpireLease(p)
  PROVE  UNCHANGED Registered /\ \A q \in Pods \ {p} : UNCHANGED events[q]
<1> USE DEF TypeOK, etcdVars, historyVars
<1>1. CASE NewConsistentHash(p) \/ NewProducer(p) \/ RunProducer(p) \/ WatchNodes(p)
  BY <1>1 DEF NewConsistentHash, NewProducer, RunProducer, WatchNodes, Registered
<1>2. CASE OnAddNode(p) \/ OnDelNode(p) \/ IgnoreEvent(p)
  BY <1>2 DEF OnAddNode, OnDelNode, IgnoreEvent, Receive, Registered
<1>3. CASE Timer(p)
  BY <1>3 DEF Timer, ListNodes, ListNodesFails, Registered
<1>4. CASE Publisher(p)
  <2>1. UNCHANGED <<lease, events>>
    BY <1>4 DEF Publisher, StoreRing, HashKeys, Offer, Deliver
  <2> QED BY <2>1 DEF Registered
<1>5. CASE Failure(p)
  <2>1. Registered' = Registered
    BY <1>5 DEF Failure, Crash, LoseLease, CancelWatch, Registered
  <2> QED BY <1>5, <2>1 DEF Failure, Crash, LoseLease, CancelWatch
<1> QED BY <1>1, <1>2, <1>3, <1>4, <1>5 DEF PodStep, Start, Watcher

\* p takes the next event. What is left still tells what has become of each
\* pod, and where it mentions a pod no more the event was the last word on it.
LEMMA ReceiveKeepsLastWord ==
  ASSUME TypeOK, NEW p \in Pods, FollowPod(p), watch[p] = "open", NEW e \in Event,
         Receive(p, e), UNCHANGED Registered
  PROVE  /\ \A i \in 1..Len(events'[p]) : LastWord(p, i)' =>
              (events'[p][i].type = "put" <=> events'[p][i].pod \in Registered')
         /\ \A q \in Pods : ~Mentions(p, q)' =>
              \/ ~Mentions(p, q)
              \/ e.pod = q /\ (e.type = "put" <=> q \in Registered)
<1>1. events[p] \in Seq(Event) /\ events[p] # <<>> /\ events'[p] = Tail(events[p])
  BY DEF TypeOK, Receive
<1>2. e = events[p][1]
  BY <1>1 DEF Receive
<1>3. /\ Len(events[p]) \in Nat \ {0} /\ Len(events'[p]) = Len(events[p]) - 1
      /\ \A i \in 1..Len(events'[p]) :
           i + 1 \in 1..Len(events[p]) /\ events'[p][i] = events[p][i + 1]
  BY <1>1
<1>4. \A j \in 2..Len(events[p]) :
        j - 1 \in 1..Len(events'[p]) /\ events'[p][j - 1] = events[p][j]
  BY <1>3
<1>5. ASSUME NEW i \in 1..Len(events'[p]), LastWord(p, i)'
      PROVE  events'[p][i].type = "put" <=> events'[p][i].pod \in Registered'
  <2>1. ASSUME NEW j \in 1..Len(events[p]), j > i + 1
        PROVE  events[p][j].pod # events[p][i + 1].pod
    <3>1. j \in 2..Len(events[p]) /\ j - 1 > i
      BY <1>3, <2>1
    <3> QED BY <1>3, <1>4, <1>5, <3>1 DEF LastWord
  <2>2. i + 1 \in 1..Len(events[p]) /\ LastWord(p, i + 1)
    BY <1>3, <2>1 DEF LastWord
  <2>3. events[p][i + 1].type = "put" <=> events[p][i + 1].pod \in Registered
    BY <2>2 DEF FollowPod
  <2> QED BY <1>3, <2>3
<1>6. ASSUME NEW q \in Pods, ~Mentions(p, q)', Mentions(p, q)
      PROVE  e.pod = q /\ (e.type = "put" <=> q \in Registered)
  <2>1. \A j \in 2..Len(events[p]) : events[p][j].pod # q
    BY <1>4, <1>6 DEF Mentions
  <2>2. events[p][1].pod = q
    BY <1>3, <1>6, <2>1 DEF Mentions
  <2>3. LastWord(p, 1) /\ 1 \in 1..Len(events[p])
    BY <1>3, <2>1, <2>2 DEF LastWord
  <2> QED BY <1>2, <2>2, <2>3 DEF FollowPod
<1> QED BY <1>5, <1>6

\* The watcher acts on an event: its new ring is right about the event's pod,
\* and about the others as c.ring was.
LEMMA FollowAct ==
  ASSUME TypeOK, NEW p \in Pods, FreshPod(p), FollowPod(p), NEW e \in Event,
         NEW nodes \in SUBSET Pods, Receive(p, e), Rebuild(p, "watcher", nodes),
         \A q \in Pods \ {e.pod} : q \in nodes <=> q \in ring[p],
         e.pod \in nodes <=> e.type = "put", e.type = "put" \/ DeleteHasValue,
         UNCHANGED <<lease, watch, main, ring, listFailed>>
  PROVE  FollowPod(p)'
<1>1. UNCHANGED Registered
  BY DEF Registered
<1>2. job[p]["watcher"].at = "idle" /\ job'[p]["timer"] = job[p]["timer"]
  BY DEF Rebuild, TypeOK, Goroutines
<1>3. job'[p]["watcher"].at = "store" /\ job'[p]["watcher"].nodes = nodes
  BY DEF Rebuild, TypeOK, Goroutines
<1>4. watch[p] # "none"
  BY <1>2 DEF FreshPod
<1>5. ASSUME Follows(p)', NEW q \in Pods, ~Mentions(p, q)' PROVE Knows(p, q)'
  <2>1. overlapped'[p] = (overlapped[p] \/ Overlaps(p, "watcher"))
    BY DEF Rebuild, TypeOK
  <2>2. ~overlapped[p] /\ ~Active(p, "timer")
    BY <1>5, <2>1 DEF Follows, Overlaps, Other
  <2>3. Follows(p)
    BY <1>2, <1>5, <2>2 DEF Follows
  <2>4. Agrees(nodes, q)
    <3>1. CASE ~Mentions(p, q)
      <4>1. Knows(p, q)
        BY <2>3, <3>1 DEF FollowPod
      <4>2. Agrees(ring[p], q)
        BY <1>2, <2>2, <4>1 DEF Knows, Active, Goroutines
      <4>3. CASE q = e.pod
        <5>1. LastWord(p, 1) /\ e = events[p][1] /\ 1 \in 1..Len(events[p])
          BY <3>1, <4>3 DEF Receive, Mentions, TypeOK
        <5> QED BY <3>1, <4>3, <5>1 DEF Mentions
      <4> QED BY <4>2, <4>3 DEF Agrees
    <3>2. CASE e.pod = q /\ (e.type = "put" <=> q \in Registered)
      BY <3>2 DEF Agrees
    <3> QED BY <1>1, <1>5, <2>3, <3>1, <3>2, ReceiveKeepsLastWord DEF Follows
  <2>5. job'[p]["timer"].at # "store"
    BY <1>2, <2>2 DEF Active
  <2> QED BY <1>1, <1>3, <2>4, <2>5 DEF Knows, Agrees, Goroutines
<1>6. watch'[p] = "open" => \A i \in 1..Len(events'[p]) : LastWord(p, i)' =>
        (events'[p][i].type = "put" <=> events'[p][i].pod \in Registered')
  BY <1>1, ReceiveKeepsLastWord
<1> QED BY <1>4, <1>5, <1>6 DEF FollowPod

LEMMA FollowStep ==
  ASSUME TypeOK, NEW p \in Pods, FreshPod(p), FollowPod(p), PodStep(p)
  PROVE  FollowPod(p)'
<1> USE DEF TypeOK, etcdVars, historyVars
<1>0. /\ main[p] = "down" => watch[p] = "none"
      /\ main[p] \in {"down", "registered"} =>
           watch[p] = "none" /\ \A g \in Goroutines : job[p][g].at = "off"
  BY DEF FreshPod
<1>1. ASSUME Register(p) \/ ExpireLease(p) PROVE FollowPod(p)'
  <2>1. PICK e \in Event :
          /\ Publish(e) /\ e.pod = p /\ (e.type = "put" <=> p \in Registered')
          /\ \A q \in Pods \ {p} : q \in Registered' <=> q \in Registered
          /\ UNCHANGED <<watch, ring, job, overlapped, listFailed>>
          /\ UNCHANGED main[p] \/ (main[p] = "down" /\ main'[p] = "registered")
    BY <1>1, RegistryPublishes
  <2>2. CASE UNCHANGED main[p]
    <3>1. UNCHANGED <<watch[p], main[p], ring[p], job[p], overlapped[p], listFailed[p]>>
      BY <2>1, <2>2
    <3>2. /\ e.type = "put" <=> e.pod \in Registered'
          /\ \A q \in Pods \ {e.pod} : q \in Registered' <=> q \in Registered
      BY <2>1
    <3> QED BY <2>1, <3>1, <3>2, FollowPublish
  <2>3. CASE main[p] = "down" /\ main'[p] = "registered"
    <3>1. watch'[p] = "none" /\ events'[p] = <<>>
      BY <1>0, <2>1, <2>3 DEF Publish, FollowPod
    <3> QED BY <2>3, <3>1 DEF FollowPod, Follows
  <2> QED BY <2>1, <2>2, <2>3
<1>2. ASSUME Crash(p) PROVE FollowPod(p)'
  <2>1. watch'[p] = "none" /\ events'[p] = <<>> /\ main'[p] = "down"
    BY <1>2 DEF Crash
  <2> QED BY <2>1 DEF FollowPod, Follows
<1>3. ASSUME LoseLease(p) \/ NewProducer(p) \/ RunProducer(p) \/ Deliver(p)
      PROVE  FollowPod(p)'
  <2>1. UNCHANGED Registered
    BY <1>3 DEF LoseLease, NewProducer, RunProducer, Deliver, Registered
  <2>2. /\ UNCHANGED <<watch[p], ring[p], job[p], overlapped[p], listFailed[p], events[p]>>
        /\ main'[p] \in {"down", "registered"} <=> main[p] \in {"down", "registered"}
    BY <1>3 DEF LoseLease, NewProducer, RunProducer, Deliver
  <2>3. FollowPod(p)
    OBVIOUS
  <2>4. /\ Follows(p)' <=> Follows(p)
        /\ \A q \in Pods : (Mentions(p, q) \/ Knows(p, q)) => (Mentions(p, q) \/ Knows(p, q))'
    BY <2>1, <2>2 DEF Follows, Mentions, Knows, Agrees
  <2>5. \A i \in 1..Len(events'[p]) : LastWord(p, i)' <=> LastWord(p, i)
    BY <2>2 DEF LastWord
  <2>6. watch'[p] = "none" => /\ events'[p] = <<>>
                             /\ \/ main'[p] \in {"down", "registered"}
                                \/ job'[p]["timer"].at = "idle"
                                \/ overlapped'[p]
    BY <2>2, <2>3 DEF FollowPod
  <2>7. watch'[p] = "open" => \A i \in 1..Len(events'[p]) :
          LastWord(p, i)' => (events'[p][i].type = "put" <=> events'[p][i].pod \in Registered')
    BY <2>1, <2>2, <2>3, <2>5 DEF FollowPod
  <2> HIDE DEF TypeOK
  <2> QED BY <2>3, <2>4, <2>6, <2>7 DEF FollowPod
<1>4. ASSUME CancelWatch(p) PROVE FollowPod(p)'
  <2>1. watch'[p] = "cancelled"
    BY <1>4 DEF CancelWatch
  <2> QED BY <2>1 DEF FollowPod, Follows
<1>5. ASSUME NewConsistentHash(p) PROVE FollowPod(p)'
  <2>1. watch'[p] = "none" /\ events'[p] = <<>>
    BY <1>0, <1>5 DEF NewConsistentHash, FollowPod
  <2>2. job'[p]["timer"].at = "idle"
    BY <1>5 DEF NewConsistentHash, At, Goroutines
  <2> QED BY <2>1, <2>2 DEF FollowPod, Follows
<1>6. ASSUME WatchNodes(p) PROVE FollowPod(p)'
  <2>1. watch'[p] = "open" /\ events'[p] = <<>>
    BY <1>6 DEF WatchNodes, FollowPod
  <2>2. job'[p]["timer"] = job[p]["timer"] /\ UNCHANGED overlapped
    BY <1>6 DEF WatchNodes, Goroutines
  <2>3. ~Follows(p)'
    BY <1>6, <2>2 DEF WatchNodes, FollowPod, Follows
  <2> QED BY <2>1, <2>3 DEF FollowPod
<1>7. ASSUME OnAddNode(p) PROVE FollowPod(p)'
  <2>1. PICK e \in Event : /\ Receive(p, e) /\ e.type = "put"
                          /\ Rebuild(p, "watcher", ring[p] \cup {e.pod})
    BY <1>7 DEF OnAddNode
  <2>2. ring[p] \cup {e.pod} \in SUBSET Pods
    BY DEF Event
  <2> QED BY <1>7, <2>1, <2>2, FollowAct DEF OnAddNode
<1>8. ASSUME OnDelNode(p) PROVE FollowPod(p)'
  <2>1. PICK e \in Event : /\ Receive(p, e) /\ e.type = "delete" /\ DeleteHasValue
                          /\ Rebuild(p, "watcher", ring[p] \ {e.pod})
    BY <1>8 DEF OnDelNode, Parses
  <2>2. ring[p] \ {e.pod} \in SUBSET Pods
    OBVIOUS
  <2> QED BY <1>8, <2>1, <2>2, FollowAct DEF OnDelNode
<1>9. ASSUME IgnoreEvent(p) PROVE FollowPod(p)'
  <2>1. PICK e \in Event : Receive(p, e) /\ e.type = "delete" /\ ~DeleteHasValue
    BY <1>9 DEF IgnoreEvent, Parses
  <2>2. UNCHANGED <<lease, watch, main, ring, job, overlapped, listFailed>>
    BY <1>9 DEF IgnoreEvent
  <2>3. UNCHANGED Registered
    BY <2>2 DEF Registered
  <2>4. watch[p] # "none"
    BY <2>1 DEF Receive, FreshPod
  <2>5. ASSUME Follows(p)', NEW q \in Pods, ~Mentions(p, q)' PROVE Knows(p, q)'
    <3>1. Follows(p)
      BY <2>2, <2>5 DEF Follows
    <3>2. CASE ~Mentions(p, q)
      BY <2>2, <2>3, <3>1, <3>2 DEF FollowPod, Knows, Agrees
    <3>3. CASE q \notin Registered
      BY <2>1, <2>3, <3>3 DEF Knows, Agrees
    <3> QED BY <2>1, <2>3, <2>5, <3>1, <3>2, <3>3, ReceiveKeepsLastWord DEF Follows
  <2>6. watch'[p] = "open" => \A i \in 1..Len(events'[p]) : LastWord(p, i)' =>
          (events'[p][i].type = "put" <=> events'[p][i].pod \in Registered')
    BY <2>1, <2>2, <2>3, ReceiveKeepsLastWord
  <2> QED BY <2>2, <2>4, <2>5, <2>6 DEF FollowPod
<1>10. ASSUME ListNodes(p) PROVE FollowPod(p)'
  <2>1. job[p]["timer"].at = "idle" /\ job'[p]["watcher"] = job[p]["watcher"]
    BY <1>10 DEF ListNodes, Rebuild, Goroutines
  <2>2. job'[p]["timer"].at = "store" /\ job'[p]["timer"].nodes = Registered
    BY <1>10 DEF ListNodes, Rebuild, Goroutines
  <2>3. UNCHANGED <<lease, watch, events, main>> /\ UNCHANGED Registered
    BY <1>10 DEF ListNodes, Registered
  <2>4. overlapped'[p] = (overlapped[p] \/ Overlaps(p, "timer"))
    BY <1>10 DEF ListNodes, Rebuild
  <2>5. ASSUME ~overlapped'[p], NEW q \in Pods PROVE Knows(p, q)'
    <3>1. ~Active(p, "watcher")
      BY <2>4, <2>5 DEF Overlaps, Other
    <3>2. job'[p]["watcher"].at # "store"
      BY <2>1, <3>1 DEF Active
    <3> QED BY <2>2, <2>3, <3>2 DEF Knows, Agrees, Goroutines
  <2>6. watch[p] = "none" => overlapped'[p]
    BY <2>4 DEF Overlaps
  <2>7. watch'[p] = "open" => \A i \in 1..Len(events'[p]) : LastWord(p, i)' =>
          (events'[p][i].type = "put" <=> events'[p][i].pod \in Registered')
    <3>1. UNCHANGED events[p] /\ UNCHANGED watch[p]
      BY <2>3
    <3>2. \A i \in 1..Len(events[p]) : LastWord(p, i)' => LastWord(p, i)
      BY <3>1 DEF LastWord
    <3> QED BY <2>3, <3>1, <3>2 DEF FollowPod
  <2>8. watch'[p] = "none" => events'[p] = <<>>
    BY <2>3 DEF FollowPod
  <2>9. Follows(p)' => ~overlapped'[p]
    BY DEF Follows
  <2> QED BY <2>3, <2>5, <2>6, <2>7, <2>8, <2>9 DEF FollowPod
<1>11. ASSUME ListNodesFails(p) PROVE FollowPod(p)'
  <2>1. listFailed'[p] /\ UNCHANGED <<lease, watch, events, main>> /\ UNCHANGED Registered
    BY <1>11 DEF ListNodesFails, Registered
  <2>2. overlapped'[p] = (overlapped[p] \/ Overlaps(p, "timer"))
    BY <1>11 DEF ListNodesFails, Rebuild
  <2>3. watch[p] = "none" => overlapped'[p]
    BY <2>2 DEF Overlaps
  <2> QED BY <2>1, <2>3 DEF FollowPod, Follows, LastWord
<1>12. ASSUME NEW g \in Goroutines, StoreRing(p, g) \/ HashKeys(p, g) \/ Offer(p, g)
       PROVE  FollowPod(p)'
  <2>1. UNCHANGED <<lease, watch, events, main, overlapped, listFailed>> /\ UNCHANGED Registered
    BY <1>12 DEF StoreRing, HashKeys, Offer, Registered
  <2>2. job'[p][Other(g)] = job[p][Other(g)] /\ Other(g) \in Goroutines
    BY <1>12 DEF StoreRing, HashKeys, Offer, Other, Goroutines
  <2>3. \A h \in Goroutines : h = g \/ h = Other(g)
    BY DEF Other, Goroutines
  <2>4. job[p][g].at \in {"store", "hash", "offer"} /\ job'[p][g].at # "store"
    BY <1>12, AtType DEF StoreRing, HashKeys, Offer, At
  <2>5. \/ job[p][g].at = "store" /\ ring'[p] = job[p][g].nodes
        \/ job[p][g].at # "store" /\ ring'[p] = ring[p]
    BY <1>12 DEF StoreRing, HashKeys, Offer
  <2>6. job'[p]["timer"].at = "idle" <=> job[p]["timer"].at = "idle"
    BY <1>12, <2>2, <2>3, <2>4 DEF StoreRing, HashKeys, Offer, At, Goroutines
  <2>7. ~overlapped[p] => job[p][Other(g)].at # "store"
    BY <2>2, <2>3, <2>4 DEF FreshPod, Active
  <2>8. ASSUME ~overlapped[p], NEW q \in Pods, Knows(p, q) PROVE Knows(p, q)'
    BY <2>1, <2>2, <2>3, <2>4, <2>5, <2>7, <2>8 DEF Knows, Agrees
  <2> QED BY <2>1, <2>6, <2>8 DEF FollowPod, Follows, Mentions, LastWord
<1> QED
  BY <1>1, <1>2, <1>3, <1>4, <1>5, <1>6, <1>7, <1>8, <1>9, <1>10, <1>11, <1>12
     DEF PodStep, Start, Watcher, Timer, Publisher, Failure

LEMMA FollowNext == TypeOK /\ FreshInv /\ FollowInv /\ [Next]_vars => FollowInv'
<1> SUFFICES ASSUME TypeOK, FreshInv, FollowInv, [Next]_vars, NEW q \in Pods
             PROVE  FollowPod(q)'
  BY DEF FollowInv
<1>1. FreshPod(q) /\ FollowPod(q)
  BY DEF FreshInv, FollowInv
<1>2. ASSUME NEW p \in Pods, PodStep(p), q # p PROVE FollowPod(q)'
  <2>1. UNCHANGED <<watch[q], main[q], ring[q], job[q], overlapped[q], listFailed[q]>>
    BY <1>2, OthersUnchanged DEF PodState
  <2>2. CASE Register(p) \/ ExpireLease(p)
    <3>1. PICK e \in Event :
            /\ Publish(e) /\ e.pod = p /\ (e.type = "put" <=> p \in Registered')
            /\ \A r \in Pods \ {p} : r \in Registered' <=> r \in Registered
      BY <1>2, <2>2, RegistryPublishes
    <3>2. /\ e.type = "put" <=> e.pod \in Registered'
          /\ \A r \in Pods \ {e.pod} : r \in Registered' <=> r \in Registered
      BY <3>1
    <3> QED BY <1>1, <2>1, <3>1, <3>2, FollowPublish
  <2>3. CASE ~Register(p) /\ ~ExpireLease(p)
    <3>1. UNCHANGED Registered /\ UNCHANGED events[q]
      BY <1>2, <2>3, RegistryKept
    <3> QED BY <1>1, <2>1, <3>1, FollowFrame
  <2> QED BY <2>2, <2>3
<1>3. ASSUME PodStep(q) PROVE FollowPod(q)'
  BY <1>1, <1>3, FollowStep
<1>4. CASE UNCHANGED vars
  BY <1>1, <1>4, FollowFrame DEF vars, etcdVars, historyVars, Registered
<1> QED BY <1>2, <1>3, <1>4 DEF Next, PodStep

\* What p has read to the end leaves nothing to be learnt of any pod.
LEMMA CaughtUpKnows ==
  ASSUME NEW p \in Pods, FollowPod(p), CaughtUp(p), NEW q \in Pods
  PROVE  Agrees(ring[p], q)
<1>1. Follows(p) /\ ~Mentions(p, q)
  BY DEF CaughtUp, Follows, Mentions
<1>2. \A g \in Goroutines : job[p][g].at # "store"
  BY DEF CaughtUp, Idle, Active
<1> QED BY <1>1, <1>2 DEF FollowPod, Knows

\* A pod whose second listing found its watch in place, and that has read the
\* watch to the end, knows every registered pod, whether or not the registry
\* reports departures: none of those that registered between its first listing
\* and its watch is missed.
THEOREM RegisteredAreKnown == Spec => []KnowsRegistered
<1>1. FollowInv => KnowsRegistered
  BY CaughtUpKnows DEF FollowInv, KnowsRegistered, Agrees, Registered
<1> QED
  BY TypeInit, TypeNext, FreshInit, FreshNext, FollowInit, FollowNext, <1>1, PTL DEF Spec

\* What hash.go would do on a registry that reports who departed, which etcd does
\* not: the pod has dropped every pod that is gone.
LEMMA DepartedAreForgotten == ASSUME DeleteHasValue PROVE Spec => []ForgetsDeparted
<1>1. TypeOK /\ FollowInv => ForgetsDeparted
  BY CaughtUpKnows DEF TypeOK, FollowInv, ForgetsDeparted, Agrees
<1> QED
  BY TypeInit, TypeNext, FreshInit, FreshNext, FollowInit, FollowNext, <1>1, PTL DEF Spec

\* A ring that has all of S gives a pod of S no more than S alone would.
LEMMA LargerRing ==
  ASSUME NEW S \in SUBSET Pods, NEW R \in SUBSET Pods, S \subseteq R, NEW t \in Types,
         Owner[R][t] \in S
  PROVE  Owner[S][t] = Owner[R][t]
<1>1. S \in SUBSET R
  OBVIOUS
<1> QED BY <1>1, MonotoneAssumption

\* On any registry, etcd or one that reports departures: registered pods at rest
\* that have read their watches to the end share no device type, whatever
\* departed pods their rings have kept, and a type that is without a producer
\* among them is left to such a pod.
THEOREM ProducersAreUnique == Spec => []AtMostOneProducer
<1>1. TypeOK /\ FreshInv /\ KnowsRegistered => AtMostOneProducer
  <2> SUFFICES ASSUME TypeOK, FreshInv, KnowsRegistered PROVE AtMostOneProducer
    OBVIOUS
  <2> DEFINE AtRest(p) == Settled(p) /\ Undisturbed(p) /\ CaughtUp(p)
  <2>1. Registered \in SUBSET Pods
    BY DEF Registered
  <2>2. ASSUME NEW p \in Registered, AtRest(p)
        PROVE  /\ ring[p] \in SUBSET Pods /\ Registered \subseteq ring[p]
               /\ responsibleTypes[p] = KeysOf(ring[p], p)
    <3>1. p \in Pods /\ FreshPod(p)
      BY <2>1 DEF FreshInv
    <3>2. responsibleTypes[p] = KeysOf(ring[p], p)
      BY <2>2, <3>1 DEF FreshPod, Settled, Serving, LatestShare
    <3> QED BY <2>2, <3>1, <3>2 DEF TypeOK, KnowsRegistered
  <2>3. ASSUME NEW p \in Registered, AtRest(p), NEW t \in responsibleTypes[p]
        PROVE  t \in Types /\ Owner[Registered][t] = p
    <3>1. t \in Types /\ Owner[ring[p]][t] = p
      BY <2>2, <2>3 DEF KeysOf
    <3> QED BY <2>1, <2>2, <2>3, <3>1, LargerRing
  <2>4. ASSUME NEW p \in Registered, AtRest(p), NEW q \in Registered, AtRest(q), q # p
        PROVE  responsibleTypes[p] \cap responsibleTypes[q] = {}
    BY <2>3, <2>4
  <2>5. ASSUME NEW p \in Registered, AtRest(p),
               NEW t \in KeysOf(Registered, p) \ responsibleTypes[p]
        PROVE  Owner[ring[p]][t] \notin Registered
    <3>1. t \in Types /\ Owner[Registered][t] = p /\ Owner[ring[p]][t] # p
      BY <2>2, <2>5 DEF KeysOf
    <3> QED BY <2>1, <2>2, <2>5, <3>1, LargerRing
  <2> QED BY <2>4, <2>5 DEF AtMostOneProducer
<1> QED
  BY TypeInit, TypeNext, FreshInit, FreshNext, RegisteredAreKnown, <1>1, PTL DEF Spec

-----------------------------------------------------------------------------
(***************************************************************************)
(* A task is divided once: TaskDivision.                                   *)
(***************************************************************************)

\* What a task does leaves the pods and etcd as they are.
LEMMA TaskStepIsStep == [TaskNext]_<<vars, taskVars>> => [Next]_vars
BY DEF TaskNext, AddTask, TakeTask, RingStep

LEMMA TaskTypeInit == TaskInit => TypeOK /\ TaskTypeOK
BY TypeInit DEF TaskInit, TaskTypeOK

LEMMA TaskTypeNext ==
  TypeOK /\ TaskTypeOK /\ [TaskNext]_<<vars, taskVars>> => TaskTypeOK'
<1> SUFFICES ASSUME TypeOK, TaskTypeOK, [TaskNext]_<<vars, taskVars>> PROVE TaskTypeOK'
  OBVIOUS
<1> USE DEF TaskTypeOK
<1>0. \A p \in Pods : OnRings(p) \subseteq Pods
  BY DEF OnRings, RingsRead, TypeOK, Job
<1>1. ASSUME AddTask PROVE TaskTypeOK'
  <2>1. Acquainted \in BOOLEAN
    BY DEF Acquainted
  <2> QED BY <1>0, <1>1, <2>1 DEF AddTask
<1>2. ASSUME NEW p \in Pods, TakeTask(p) PROVE TaskTypeOK'
  BY <1>2 DEF TakeTask, TypeOK
<1>3. ASSUME RingStep PROVE TaskTypeOK'
  <2>1. TypeOK'
    BY <1>3, TypeNext DEF RingStep
  <2>2. \A p \in Pods : OnRings(p)' \subseteq Pods
    BY <2>1 DEF OnRings, RingsRead, TypeOK, Job
  <2>3. steady' \in BOOLEAN
    BY <1>3 DEF RingStep, StaysSteady
  <2>4. met' \in [Pods -> SUBSET Pods]
    BY <1>3, <2>2 DEF RingStep
  <2> QED BY <1>3, <2>3, <2>4 DEF RingStep
<1>4. CASE UNCHANGED <<vars, taskVars>>
  BY <1>4 DEF taskVars
<1> QED BY <1>1, <1>2, <1>3, <1>4 DEF TaskNext

\* The state of a task keeps its type: in particular a pod takes device types.
THEOREM TaskTypeCorrect == TaskSpec => []TaskTypeOK
BY TaskTypeInit, TypeNext, TaskStepIsStep, TaskTypeNext, PTL DEF TaskSpec

\* What pod p may have of a task that was put for S, when its rings have had the
\* pods of M since: nothing that falls to another pod of S, and all that falls to
\* itself but for what M gives to a pod outside S.
Fits(p, S, M, keys) ==
  /\ keys \subseteq KeysOf(S, p)
  /\ \A t \in KeysOf(S, p) \ keys : Owner[M][t] \notin S

\* DividedOnce speaks of what was taken. Until then p has all of S on each of its
\* rings, and what fits wherever its share is: with the goroutine that is to offer
\* it, with the forwarder, or with the producer.
WaitsWell(p, S, M) ==
  /\ main[p] = "running"
  /\ \A R \in RingsRead(p, Goroutines) : S \subseteq R /\ R \subseteq M
  /\ \A g \in Goroutines : job[p][g].at = "offer" => Fits(p, S, M, job[p][g].keys)
  /\ handoff[p].at = "send" => Fits(p, S, M, handoff[p].keys)
  /\ Fits(p, S, M, responsibleTypes[p])

DivisionInv ==
  /\ \A p \in Pods : task[p] # "taken" => produces[p] = {}
  /\ steady =>
       /\ Asked \subseteq Registered
       /\ \A p \in Pods : task[p] = "sent" => WaitsWell(p, Asked, met[p])
       /\ \A p \in Pods : task[p] = "taken" => Fits(p, Asked, met[p], produces[p])

LEMMA DivisionInit == TaskInit => DivisionInv
BY DEF TaskInit, DivisionInv

\* A pod that comes onto the rings takes types over and moves none between the
\* pods of S.
LEMMA FitsGrows ==
  ASSUME NEW S \in SUBSET Pods, NEW M \in SUBSET Pods, NEW N \in SUBSET Pods,
         S \subseteq M, M \subseteq N, NEW p, NEW keys, Fits(p, S, M, keys)
  PROVE  Fits(p, S, N, keys)
<1> SUFFICES ASSUME NEW t \in KeysOf(S, p) \ keys, Owner[N][t] \in S PROVE FALSE
  BY DEF Fits
<1>1. t \in Types /\ Owner[N][t] \in M
  BY DEF KeysOf
<1>2. Owner[M][t] = Owner[N][t]
  BY <1>1, LargerRing
<1> QED BY <1>2 DEF Fits

\* So whichever of its rings a rehash meets, for each type another, it fits.
LEMMA HashFits ==
  ASSUME NEW S \in SUBSET Pods, NEW M \in SUBSET Pods, NEW p \in S, NEW others,
         \A R \in RingsRead(p, others) : S \subseteq R /\ R \subseteq M,
         NEW keys \in HashResults(p, others)
  PROVE  Fits(p, S, M, keys)
<1>1. PICK seen \in [Types -> RingsRead(p, others)] :
        keys = {t \in Types : Owner[seen[t]][t] = p}
  BY DEF HashResults
<1>2. ASSUME NEW t \in Types
      PROVE  seen[t] \in SUBSET Pods /\ S \subseteq seen[t] /\ seen[t] \subseteq M
  BY <1>1
<1>3. ASSUME NEW t \in keys PROVE t \in KeysOf(S, p)
  <2>1. t \in Types /\ Owner[seen[t]][t] = p
    BY <1>1
  <2>2. Owner[S][t] = p
    BY <1>2, <2>1, LargerRing
  <2> QED BY <2>1, <2>2 DEF KeysOf
<1>4. ASSUME NEW t \in KeysOf(S, p) \ keys, Owner[M][t] \in S PROVE FALSE
  <2>1. t \in Types /\ Owner[S][t] = p /\ Owner[seen[t]][t] # p
    BY <1>1 DEF KeysOf
  <2>2. Owner[seen[t]][t] = Owner[M][t]
    <3>1. Owner[M][t] \in seen[t]
      BY <1>2, <1>4, <2>1
    <3> QED BY <1>2, <2>1, <3>1, LargerRing
  <2>3. Owner[S][t] = Owner[seen[t]][t]
    BY <1>2, <1>4, <2>1, <2>2, LargerRing
  <2> QED BY <2>1, <2>3
<1> QED BY <1>3, <1>4 DEF Fits

LEMMA SomeRings ==
  ASSUME NEW p, NEW others \in SUBSET Goroutines
  PROVE  RingsRead(p, others) \subseteq RingsRead(p, Goroutines)
BY DEF RingsRead

\* The rings of a waiting pod keep those that were asked: on etcd the watch takes
\* nobody off a ring, and a listing has everybody who is registered.
LEMMA RingsKeepAsked ==
  ASSUME TypeOK, ~DeleteHasValue, NEW p \in Pods, NEW S \in SUBSET Pods,
         S \subseteq Registered, main[p] = "running", PodStep(p), main'[p] = "running",
         \A R \in RingsRead(p, Goroutines) : S \subseteq R,
         ~listFailed'[p]
  PROVE  \A R \in RingsRead(p, Goroutines)' : S \subseteq R
<1> USE DEF TypeOK, etcdVars, historyVars
<1>0. /\ S \subseteq ring[p]
      /\ \A g \in Goroutines : job[p][g].at = "store" => S \subseteq job[p][g].nodes
  BY DEF RingsRead
<1> SUFFICES /\ S \subseteq ring'[p]
             /\ \A g \in Goroutines : job'[p][g].at = "store" => S \subseteq job'[p][g].nodes
  BY DEF RingsRead
<1>1. CASE Start(p) \/ Crash(p)
  BY <1>1 DEF Start, Register, NewConsistentHash, NewProducer, RunProducer, Crash
<1>2. CASE LoseLease(p) \/ CancelWatch(p) \/ ExpireLease(p) \/ IgnoreEvent(p) \/ Deliver(p)
  BY <1>0, <1>2 DEF LoseLease, CancelWatch, ExpireLease, IgnoreEvent, Deliver
<1>3. CASE WatchNodes(p)
  BY <1>0, <1>3 DEF WatchNodes, At, Goroutines
<1>4. CASE OnAddNode(p)
  BY <1>0, <1>4 DEF OnAddNode, Rebuild, Goroutines
<1>5. CASE OnDelNode(p)
  BY <1>5 DEF OnDelNode, Parses
<1>6. CASE ListNodes(p)
  BY <1>0, <1>6 DEF ListNodes, Rebuild, Goroutines
<1>7. CASE ListNodesFails(p)
  BY <1>7 DEF ListNodesFails
<1>8. ASSUME NEW g \in Goroutines, StoreRing(p, g) \/ HashKeys(p, g) \/ Offer(p, g)
      PROVE  /\ S \subseteq ring'[p]
             /\ \A h \in Goroutines : job'[p][h].at = "store" => S \subseteq job'[p][h].nodes
  <2>1. \A h \in Goroutines \ {g} : job'[p][h] = job[p][h]
    BY <1>8 DEF StoreRing, HashKeys, Offer
  <2>2. job'[p][g].at # "store"
    BY <1>8 DEF StoreRing, HashKeys, Offer, At
  <2>3. S \subseteq ring'[p]
    BY <1>0, <1>8 DEF StoreRing, HashKeys, Offer
  <2> QED BY <1>0, <2>1, <2>2, <2>3
<1> QED
  BY <1>1, <1>2, <1>3, <1>4, <1>5, <1>6, <1>7, <1>8
     DEF PodStep, Watcher, Timer, Publisher, Failure

\* A step of a pod that waits leaves what it has, wherever it has it, fitting.
LEMMA WaitingStep ==
  ASSUME TypeOK, ~DeleteHasValue, NEW p \in Pods, NEW S \in SUBSET Pods, p \in S,
         S \subseteq Registered, NEW M \in SUBSET Pods, NEW N \in SUBSET Pods,
         M \subseteq N, WaitsWell(p, S, M), PodStep(p), main'[p] = "running",
         ~listFailed'[p], \A R \in RingsRead(p, Goroutines)' : R \subseteq N
  PROVE  WaitsWell(p, S, N)'
<1> USE DEF TypeOK, etcdVars, historyVars
<1>1. main[p] = "running" /\ \A R \in RingsRead(p, Goroutines) : S \subseteq R /\ R \subseteq M
  BY DEF WaitsWell
<1>2. \A R \in RingsRead(p, Goroutines)' : S \subseteq R
  BY <1>1, RingsKeepAsked
<1>3. S \subseteq M
  BY <1>1 DEF RingsRead
<1>4. ASSUME NEW keys, Fits(p, S, M, keys) PROVE Fits(p, S, N, keys)
  BY <1>3, <1>4, FitsGrows
<1>5. /\ \A g \in Goroutines : job[p][g].at = "offer" => Fits(p, S, N, job[p][g].keys)
      /\ handoff[p].at = "send" => Fits(p, S, N, handoff[p].keys)
      /\ Fits(p, S, N, responsibleTypes[p])
  BY <1>4 DEF WaitsWell
<1>6. ASSUME /\ \A g \in Goroutines :
                  job'[p][g].at = "offer" => Fits(p, S, N, job'[p][g].keys)
             /\ handoff'[p].at = "send" => Fits(p, S, N, handoff'[p].keys)
             /\ Fits(p, S, N, responsibleTypes'[p])
      PROVE  WaitsWell(p, S, N)'
  BY <1>2, <1>6 DEF WaitsWell, Fits, KeysOf
<1>7. CASE Start(p) \/ Crash(p)
  BY <1>1, <1>7 DEF Start, Register, NewConsistentHash, NewProducer, RunProducer, Crash
<1>8. CASE LoseLease(p) \/ CancelWatch(p) \/ ExpireLease(p) \/ IgnoreEvent(p)
  <2>1. UNCHANGED <<job, handoff, responsibleTypes>>
    BY <1>8 DEF LoseLease, CancelWatch, ExpireLease, IgnoreEvent
  <2> QED BY <1>5, <1>6, <2>1
<1>9. CASE WatchNodes(p)
  <2>1. /\ \A g \in Goroutines : job'[p][g] = job[p][g] \/ job'[p][g].at # "offer"
        /\ UNCHANGED <<handoff, responsibleTypes>>
    BY <1>9 DEF WatchNodes, At, Goroutines
  <2> QED BY <1>5, <1>6, <2>1
<1>10. CASE OnAddNode(p) \/ OnDelNode(p) \/ Timer(p)
  <2>1. PICK g \in Goroutines : \E nodes : Rebuild(p, g, nodes)
    BY <1>10 DEF OnAddNode, OnDelNode, Timer, ListNodes, ListNodesFails, Goroutines
  <2>2. \A h \in Goroutines : job'[p][h] = job[p][h] \/ job'[p][h].at # "offer"
    BY <2>1 DEF Rebuild
  <2>3. UNCHANGED <<handoff, responsibleTypes>>
    BY <1>10 DEF OnAddNode, OnDelNode, Timer, ListNodes, ListNodesFails
  <2> QED BY <1>5, <1>6, <2>2, <2>3
<1>11. ASSUME NEW g \in Goroutines, StoreRing(p, g) PROVE WaitsWell(p, S, N)'
  <2>1. /\ \A h \in Goroutines : job'[p][h] = job[p][h] \/ job'[p][h].at # "offer"
        /\ UNCHANGED <<handoff, responsibleTypes>>
    BY <1>11 DEF StoreRing, At
  <2> QED BY <1>5, <1>6, <2>1
<1>12. ASSUME NEW g \in Goroutines, HashKeys(p, g) PROVE WaitsWell(p, S, N)'
  <2> DEFINE others == {Other(g)}
  <2>1. PICK keys \in HashResults(p, others) :
          job' = [job EXCEPT ![p][g] = [at |-> "offer", nodes |-> {}, keys |-> keys]]
    BY <1>12 DEF HashKeys
  <2>2. others \in SUBSET Goroutines
    BY DEF Other, Goroutines
  <2> HIDE DEF others
  <2>3. \A R \in RingsRead(p, others) : S \subseteq R /\ R \subseteq M
    BY <1>1, <2>2, SomeRings
  <2>4. Fits(p, S, M, keys)
    BY <2>3, HashFits
  <2>5. Fits(p, S, N, keys)
    BY <1>4, <2>4
  <2>6. job'[p][g].keys = keys /\ \A h \in Goroutines \ {g} : job'[p][h] = job[p][h]
    BY <2>1
  <2>7. UNCHANGED <<handoff, responsibleTypes>>
    BY <1>12 DEF HashKeys
  <2> QED BY <1>5, <1>6, <2>5, <2>6, <2>7
<1>13. ASSUME NEW g \in Goroutines, Offer(p, g) PROVE WaitsWell(p, S, N)'
  <2>1. \A h \in Goroutines : job'[p][h] = job[p][h] \/ job'[p][h].at # "offer"
    BY <1>13 DEF Offer, At
  <2>2. job[p][g].at = "offer" /\ UNCHANGED responsibleTypes
    BY <1>13 DEF Offer
  <2>3. handoff'[p] = handoff[p] \/ handoff'[p].keys = job[p][g].keys
    BY <1>13 DEF Offer
  <2> QED BY <1>5, <1>6, <2>1, <2>2, <2>3
<1>14. CASE Deliver(p)
  <2>1. /\ handoff[p].at = "send" /\ handoff'[p].at = "recv"
        /\ responsibleTypes'[p] = handoff[p].keys /\ UNCHANGED job
    BY <1>14 DEF Deliver
  <2> QED BY <1>5, <1>6, <2>1
<1> QED
  BY <1>7, <1>8, <1>9, <1>10, <1>11, <1>12, <1>13, <1>14
     DEF PodStep, Watcher, Publisher, Failure

\* Where the pods that run are acquainted, each waits well for what is put now.
LEMMA AcquaintedWait ==
  ASSUME TypeOK, FreshInv, Acquainted, NEW p \in Running
  PROVE  WaitsWell(p, Running, OnRings(p))
<1>1. p \in Pods /\ FreshPod(p) /\ Settled(p) /\ Undisturbed(p) /\ Running \subseteq ring[p]
  BY DEF FreshInv, Acquainted, Running
<1>2. \A g \in Goroutines : job[p][g].at \notin {"store", "offer"}
  BY <1>1 DEF Settled, Idle, Active
<1>3. RingsRead(p, Goroutines) = {ring[p]} /\ OnRings(p) = ring[p]
  BY <1>2 DEF RingsRead, OnRings
<1>4. responsibleTypes[p] = KeysOf(ring[p], p)
  BY <1>1 DEF FreshPod, Settled, Serving, LatestShare
<1>5. Running \in SUBSET Pods /\ ring[p] \in SUBSET Pods
  BY <1>1 DEF Running, TypeOK
<1>6. KeysOf(ring[p], p) \in HashResults(p, {})
  <2>1. RingsRead(p, {}) = {ring[p]}
    BY DEF RingsRead
  <2> DEFINE seen == [t \in Types |-> ring[p]]
  <2>2. seen \in [Types -> RingsRead(p, {})]
    BY <2>1
  <2>3. KeysOf(ring[p], p) = {t \in Types : Owner[seen[t]][t] = p}
    BY DEF KeysOf
  <2> HIDE DEF seen
  <2> QED BY <2>2, <2>3 DEF HashResults
<1>7. Fits(p, Running, ring[p], responsibleTypes[p])
  <2>1. \A R \in RingsRead(p, {}) : Running \subseteq R /\ R \subseteq ring[p]
    BY <1>1 DEF RingsRead
  <2> QED BY <1>4, <1>5, <1>6, <2>1, HashFits
<1> QED BY <1>1, <1>2, <1>3, <1>7 DEF WaitsWell, Settled

\* Another pod's step leaves it waiting well.
LEMMA WaitingFrame ==
  ASSUME NEW p \in Pods, NEW S \in SUBSET Pods, NEW M \in SUBSET Pods,
         NEW N \in SUBSET Pods, M \subseteq N, WaitsWell(p, S, M), UNCHANGED PodState(p)
  PROVE  WaitsWell(p, S, N)'
<1>1. S \subseteq M
  BY DEF WaitsWell, RingsRead
<1>2. ASSUME NEW keys, Fits(p, S, M, keys) PROVE Fits(p, S, N, keys)
  BY <1>1, <1>2, FitsGrows
<1>3. WaitsWell(p, S, N)
  BY <1>2 DEF WaitsWell
<1> QED BY <1>3 DEF WaitsWell, RingsRead, Fits, KeysOf, PodState

LEMMA RunsOrEnds ==
  ASSUME TypeOK, NEW p \in Pods, PodStep(p), main[p] = "running"
  PROVE  main'[p] \in {"running", "down"}
<1> USE DEF TypeOK
<1>1. CASE Start(p) \/ Failure(p) \/ ExpireLease(p)
  BY <1>1 DEF Start, Register, NewConsistentHash, NewProducer, RunProducer, Failure, Crash,
              LoseLease, CancelWatch, ExpireLease
<1>2. CASE Watcher(p) \/ Timer(p)
  BY <1>2 DEF Watcher, WatchNodes, OnAddNode, OnDelNode, IgnoreEvent, Timer, ListNodes,
              ListNodesFails
<1>3. CASE Publisher(p)
  BY <1>3 DEF Publisher, StoreRing, HashKeys, Offer, Deliver
<1> QED BY <1>1, <1>2, <1>3 DEF PodStep

LEMMA DivisionNext ==
  ASSUME ~DeleteHasValue, TypeOK, TaskTypeOK, FreshInv, DivisionInv,
         [TaskNext]_<<vars, taskVars>>
  PROVE  DivisionInv'
<1> USE DEF TaskTypeOK
<1>1. ASSUME AddTask PROVE DivisionInv'
  <2>1. \A p \in Pods : task'[p] = (IF p \in Running THEN "sent" ELSE "none")
    BY <1>1 DEF AddTask
  <2>2. Asked' = Running
    BY <2>1 DEF Asked, Running
  <2>3. \A p \in Pods : produces'[p] = {} /\ task'[p] # "taken"
    BY <1>1, <2>1 DEF AddTask, DivisionInv
  <2>4. UNCHANGED vars /\ \A p \in Pods : met'[p] = OnRings(p)
    BY <1>1 DEF AddTask
  <2>5. ASSUME steady' PROVE Acquainted /\ Asked' \subseteq Registered'
    <3>1. Acquainted
      BY <1>1, <2>5 DEF AddTask
    <3>2. Registered' = Registered
      BY <2>4 DEF vars, etcdVars, Registered
    <3> QED BY <2>2, <3>1, <3>2 DEF Acquainted
  <2>6. ASSUME steady', NEW p \in Pods, task'[p] = "sent"
        PROVE  WaitsWell(p, Asked, met[p])'
    <3>1. p \in Running
      BY <2>1, <2>6
    <3>2. WaitsWell(p, Running, OnRings(p))
      BY <2>5, <2>6, <3>1, AcquaintedWait
    <3>3. PICK S, M : S = Running /\ M = OnRings(p)
      OBVIOUS
    <3>4. WaitsWell(p, S, M)
      BY <3>2, <3>3
    <3>5. WaitsWell(p, S, M)'
      BY <2>4, <3>4 DEF WaitsWell, RingsRead, Fits, KeysOf, vars
    <3>6. Asked' = S /\ met'[p] = M
      BY <2>2, <2>4, <3>3
    <3> QED BY <3>5, <3>6 DEF WaitsWell, Fits, KeysOf
  <2> QED BY <2>3, <2>5, <2>6 DEF DivisionInv
<1>2. ASSUME NEW p \in Pods, TakeTask(p) PROVE DivisionInv'
  <2>1. task[p] = "sent" /\ task' = [task EXCEPT ![p] = "taken"]
    BY <1>2 DEF TakeTask
  <2>2. produces' = [produces EXCEPT ![p] = responsibleTypes[p]]
    BY <1>2 DEF TakeTask
  <2>3. UNCHANGED <<vars, met, steady>>
    BY <1>2 DEF TakeTask
  <2>4. Asked' = Asked /\ Registered' = Registered
    BY <2>1, <2>3 DEF Asked, vars, etcdVars, Registered
  <2>5. ASSUME steady PROVE Fits(p, Asked, met[p], produces'[p])
    BY <2>1, <2>2, <2>5 DEF DivisionInv, WaitsWell
  <2>6. ASSUME steady, NEW q \in Pods, task'[q] = "sent" PROVE WaitsWell(q, Asked, met[q])'
    <3>1. WaitsWell(q, Asked, met[q])
      BY <2>1, <2>6 DEF DivisionInv
    <3> QED BY <2>3, <2>4, <3>1 DEF WaitsWell, RingsRead, Fits, KeysOf, vars
  <2>7. ASSUME steady, NEW q \in Pods, task'[q] = "taken"
        PROVE  Fits(q, Asked, met[q], produces[q])'
    <3>1. Fits(q, Asked, met[q], produces'[q])
      BY <2>1, <2>2, <2>5, <2>7 DEF DivisionInv
    <3> QED BY <2>3, <2>4, <3>1 DEF Fits, KeysOf
  <2>8. \A q \in Pods : task'[q] # "taken" => produces'[q] = {}
    BY <2>1, <2>2 DEF DivisionInv
  <2> QED BY <2>3, <2>4, <2>6, <2>7, <2>8 DEF DivisionInv
<1>3. ASSUME RingStep PROVE DivisionInv'
  <2>1. PICK p \in Pods : PodStep(p)
    BY <1>3 DEF RingStep, Next, PodStep
  <2>2. UNCHANGED produces
    BY <1>3 DEF RingStep
  <2>3. /\ \A q \in Pods : task'[q] =
              (IF task[q] = "sent" /\ main'[q] = "down" THEN "lost" ELSE task[q])
        /\ \A q \in Pods : met'[q] =
              (IF task[q] = "sent" THEN met[q] \cup OnRings(q)' ELSE met[q])
    BY <1>3 DEF RingStep
  <2>4. Asked' = Asked
    BY <2>3 DEF Asked
  <2>5. \A q \in Pods : task'[q] # "taken" => produces'[q] = {}
    BY <2>2, <2>3 DEF DivisionInv
  <2>6. ASSUME steady' PROVE steady /\ Asked' \subseteq Registered'
    <3>1. steady /\ \A q \in Asked : q \in Pods /\ lease'[q] # "none"
      BY <1>3, <2>6 DEF RingStep, StaysSteady, Asked
    <3> QED BY <2>4, <3>1 DEF Registered
  <2>7. ASSUME steady', NEW q \in Pods, task'[q] = "taken"
        PROVE  Fits(q, Asked, met[q], produces[q])'
    <3>1. Fits(q, Asked, met[q], produces[q])
      BY <2>3, <2>6, <2>7 DEF DivisionInv
    <3> QED BY <2>2, <2>3, <2>4, <2>7, <3>1 DEF Fits, KeysOf
  <2>8. ASSUME steady', NEW q \in Pods, task'[q] = "sent"
        PROVE  WaitsWell(q, Asked, met[q])'
    <3>1. task[q] = "sent" /\ main'[q] # "down" /\ q \in Asked
      BY <2>3, <2>8 DEF Asked
    <3>2. WaitsWell(q, Asked, met[q]) /\ Asked \subseteq Registered /\ ~listFailed'[q]
      BY <1>3, <2>6, <2>8, <3>1 DEF DivisionInv, RingStep, StaysSteady
    <3>3. PICK S \in SUBSET Pods, M \in SUBSET Pods, N \in SUBSET Pods :
            S = Asked /\ M = met[q] /\ N = met'[q]
      <4>1. TaskTypeOK'
        BY TaskTypeNext
      <4> QED BY <4>1 DEF Asked
    <3>4. M \subseteq N /\ \A R \in RingsRead(q, Goroutines)' : R \subseteq N
      BY <2>3, <3>1, <3>3 DEF OnRings
    <3>5. WaitsWell(q, S, M)
      BY <3>2, <3>3
    <3>6. CASE q = p
      <4>1. main[q] = "running" /\ PodStep(q)
        BY <2>1, <3>5, <3>6 DEF WaitsWell
      <4>2. main'[q] = "running"
        BY <3>1, <4>1, RunsOrEnds
      <4>3. WaitsWell(q, S, N)'
        BY <3>1, <3>2, <3>3, <3>4, <3>5, <4>1, <4>2, WaitingStep
      <4> QED BY <2>4, <3>3, <4>3 DEF WaitsWell, Fits, KeysOf
    <3>7. CASE q # p
      <4>1. UNCHANGED PodState(q)
        BY <2>1, <3>7, OthersUnchanged
      <4>2. WaitsWell(q, S, N)'
        BY <3>4, <3>5, <4>1, WaitingFrame
      <4> QED BY <2>4, <3>3, <4>2 DEF WaitsWell, Fits, KeysOf
    <3> QED BY <3>6, <3>7
  <2> QED BY <2>5, <2>6, <2>7, <2>8 DEF DivisionInv
<1>4. CASE UNCHANGED <<vars, taskVars>>
  <2>1. UNCHANGED <<vars, task, produces, met, steady>>
    BY <1>4 DEF taskVars
  <2>2. Asked' = Asked /\ Registered' = Registered
    BY <2>1 DEF Asked, vars, etcdVars, Registered
  <2> QED BY <2>1, <2>2 DEF DivisionInv, WaitsWell, RingsRead, Fits, KeysOf, vars
<1> QED BY <1>1, <1>2, <1>3, <1>4 DEF TaskNext

\* On etcd, a task put while the running pods knew each other produces no device
\* type twice, whoever comes, crashes or comes back and however shares change
\* before it is taken, and a type that is passed over falls to a pod that was not
\* asked, as long as those that were stay registered.
THEOREM TaskIsDividedOnce == ASSUME ~DeleteHasValue PROVE TaskSpec => []DividedOnce
<1>1. DivisionInv => DividedOnce
  <2> SUFFICES ASSUME DivisionInv, steady PROVE DividedOnce
    BY DEF DividedOnce
  <2>1. ASSUME NEW p \in Pods, NEW t \in produces[p] PROVE Owner[Asked][t] = p
    BY <2>1 DEF DivisionInv, Fits, KeysOf
  <2>2. ASSUME NEW p \in Pods, task[p] = "taken", NEW t \in KeysOf(Asked, p) \ produces[p]
        PROVE  Owner[met[p]][t] \notin Asked
    BY <2>2 DEF DivisionInv, Fits
  <2> QED BY <2>1, <2>2 DEF DividedOnce
<1>2. TaskInit => FreshInv
  BY FreshInit DEF TaskInit
<1> QED
  BY TaskTypeInit, TypeNext, TaskStepIsStep, TaskTypeNext, <1>2, FreshNext, DivisionInit,
     DivisionNext, <1>1, PTL DEF TaskSpec

=============================================================================
