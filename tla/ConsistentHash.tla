--------------------------- MODULE ConsistentHash ---------------------------
(***************************************************************************)
(* Which device types each pod produces for.                               *)
(*                                                                         *)
(* A pod registers itself in etcd (cmd/main/main.go), lists the registered *)
(* pods once, watches them from then on, and lists them a second and last  *)
(* time two minutes later (internal/component/hash.go).  Each change       *)
(* rebuilds the hash ring, rehashes the device types, and offers the pod's *)
(* share to the producer, through an unbuffered channel and a forwarding   *)
(* goroutine, with a send that gives up when nobody is receiving.          *)
(*                                                                         *)
(* The goroutines of a pod: main, the watcher (watchNodes), the timer      *)
(* (time.AfterFunc), and the forwarder (Subscribe).  Watcher and timer     *)
(* share c.ring without a lock; the model interleaves their reads and      *)
(* writes of it.                                                           *)
(***************************************************************************)
EXTENDS HashRing, Naturals, Sequences

CONSTANTS
  Observed,       \* the pods whose goroutines are followed; of the others,
                  \* which meet them in etcd only, just the registration is
  DeleteHasValue, \* does a DELETE event carry the removed instance?  FALSE
                  \* for etcd, whose DELETE events have an empty Kv.Value
  MaxCrashes,     \* bounds on the faults of a behaviour
  MaxLeaseLosses,
  MaxCancels,
  MaxListErrors

ASSUME FaultAssumption ==
  /\ Observed \subseteq Pods
  /\ DeleteHasValue \in BOOLEAN
  /\ {MaxCrashes, MaxLeaseLosses, MaxCancels, MaxListErrors} \subseteq Nat

VARIABLES
  \* etcd, as seen by this service
  lease,      \* the lease of the key ServiceName/p: "live" kept alive by a
              \* session, "orphan" no longer refreshed, "none" no key
  watch,      \* p's watch of ServiceName: "none", "open" or "cancelled"
  events,     \* the events of that watch that p has not yet received
  \* a pod
  main,       \* progress of main.go
  ring,       \* c.ring
  job,        \* what the watcher and the timer are doing
  handoff,    \* the forwarding goroutine of Subscribe
  responsibleTypes,  \* p.responsibleTypes
  \* bookkeeping
  faults,     \* how many faults of each kind happened
  dropped,    \* history: the share last offered was not taken
  overlapped, \* history: the timer once ran while the watcher was at work
              \* or had not yet subscribed
  listFailed  \* history: the timer's listing failed

etcdVars    == <<lease, watch, events>>
historyVars == <<dropped, overlapped, listFailed>>
vars == <<etcdVars, main, ring, job, handoff, responsibleTypes, faults,
          historyVars>>

Goroutines == {"watcher", "timer"}
Other(g)   == IF g = "watcher" THEN "timer" ELSE "watcher"

Event   == [type : {"put", "delete"}, pod : Pods]
Job     == [at : {"off", "idle", "store", "hash", "offer"},
            nodes : SUBSET Pods, keys : SUBSET Types]
Handoff == [at : {"none", "recv", "send"}, keys : SUBSET Types]
FaultKinds == {"crash", "lease", "cancel", "list"}

At(stage) == [at |-> stage, nodes |-> {}, keys |-> {}]
NoHandoff == [at |-> "none", keys |-> {}]

TypeOK ==
  /\ lease \in [Pods -> {"none", "live", "orphan"}]
  /\ watch \in [Pods -> {"none", "open", "cancelled"}]
  /\ events \in [Pods -> Seq(Event)]
  /\ main \in [Pods -> {"down", "registered", "hashed", "assigned", "running"}]
  /\ ring \in [Pods -> SUBSET Pods]
  /\ job \in [Pods -> [Goroutines -> Job]]
  /\ handoff \in [Pods -> Handoff]
  /\ responsibleTypes \in [Pods -> SUBSET Types]
  /\ faults \in [FaultKinds -> Nat]
  /\ dropped \in [Pods -> BOOLEAN]
  /\ overlapped \in [Pods -> BOOLEAN]
  /\ listFailed \in [Pods -> BOOLEAN]

Init ==
  /\ lease = [p \in Pods |-> "none"]
  /\ watch = [p \in Pods |-> "none"]
  /\ events = [p \in Pods |-> <<>>]
  /\ main = [p \in Pods |-> "down"]
  /\ ring = [p \in Pods |-> {}]
  /\ job = [p \in Pods |-> [g \in Goroutines |-> At("off")]]
  /\ handoff = [p \in Pods |-> NoHandoff]
  /\ responsibleTypes = [p \in Pods |-> {}]
  /\ faults = [k \in FaultKinds |-> 0]
  /\ dropped = [p \in Pods |-> FALSE]
  /\ overlapped = [p \in Pods |-> FALSE]
  /\ listFailed = [p \in Pods |-> FALSE]

-----------------------------------------------------------------------------
(***************************************************************************)
(* etcd                                                                    *)
(***************************************************************************)

\* What ListService returns: the instances whose key is still there.
Registered == {p \in Pods : lease[p] # "none"}

\* etcd delivers every change of the prefix, in order, to the open watches.
Publish(e) ==
  events' = [p \in Pods |->
               IF watch[p] = "open" THEN Append(events[p], e) ELSE events[p]]

Fault(kind, max) ==
  /\ faults[kind] < max
  /\ faults' = [faults EXCEPT ![kind] = @ + 1]

\* main: rg.Register puts the pod's key under the lease of a new session.
Register(p) ==
  /\ main[p] = "down"
  /\ main' = [main EXCEPT ![p] = "registered"]
  /\ lease' = [lease EXCEPT ![p] = "live"]
  /\ Publish([type |-> "put", pod |-> p])
  /\ UNCHANGED <<watch, ring, job, handoff, responsibleTypes, faults,
                 historyVars>>

\* The process ends: SIGINT and every panic leave the key to its lease, since
\* main.go no longer calls GracefulShutdown.
Crash(p) ==
  /\ main[p] # "down"
  /\ Fault("crash", MaxCrashes)
  /\ main' = [main EXCEPT ![p] = "down"]
  /\ lease' = [lease EXCEPT ![p] = IF @ = "live" THEN "orphan" ELSE @]
  /\ watch' = [watch EXCEPT ![p] = "none"]
  /\ events' = [events EXCEPT ![p] = <<>>]
  /\ ring' = [ring EXCEPT ![p] = {}]
  /\ job' = [job EXCEPT ![p] = [g \in Goroutines |-> At("off")]]
  /\ handoff' = [handoff EXCEPT ![p] = NoHandoff]
  /\ responsibleTypes' = [responsibleTypes EXCEPT ![p] = {}]
  /\ dropped' = [dropped EXCEPT ![p] = FALSE]
  /\ overlapped' = [overlapped EXCEPT ![p] = FALSE]
  /\ listFailed' = [listFailed EXCEPT ![p] = FALSE]

\* The session of a running process stops being kept alive (a partition);
\* nothing in the code notices or registers again.
LoseLease(p) ==
  /\ main[p] # "down"
  /\ lease[p] = "live"
  /\ Fault("lease", MaxLeaseLosses)
  /\ lease' = [lease EXCEPT ![p] = "orphan"]
  /\ UNCHANGED <<watch, events, main, ring, job, handoff, responsibleTypes,
                 historyVars>>

\* An unrefreshed lease runs out and etcd deletes the key.
ExpireLease(p) ==
  /\ lease[p] = "orphan"
  /\ lease' = [lease EXCEPT ![p] = "none"]
  /\ Publish([type |-> "delete", pod |-> p])
  /\ UNCHANGED <<watch, main, ring, job, handoff, responsibleTypes, faults,
                 historyVars>>

\* etcd cancels a watch (WithRequireLeader: the cluster lost its leader).
\* Subscribe returns at the cancelled response; it never watches again and
\* does not close the channel it handed out.
CancelWatch(p) ==
  /\ watch[p] = "open"
  /\ Fault("cancel", MaxCancels)
  /\ watch' = [watch EXCEPT ![p] = "cancelled"]
  /\ UNCHANGED <<lease, events, main, ring, job, handoff, responsibleTypes,
                 historyVars>>

-----------------------------------------------------------------------------
(***************************************************************************)
(* Start-up: NewConsistentHash, NewProducer, Producer.Run                  *)
(***************************************************************************)

\* Mutant: the second listing is never armed.
NewConsistentHashOnce(p) ==
  /\ p \in Observed
  /\ main[p] = "registered"
  /\ main' = [main EXCEPT ![p] = "hashed"]
  /\ ring' = [ring EXCEPT ![p] = Registered]
  /\ UNCHANGED <<etcdVars, job, handoff, responsibleTypes, faults, historyVars>>

\* The first listing builds the ring; the offer that OnSetNodes makes finds
\* no receiver yet and is given up.  The watcher goroutine is started, not
\* awaited, and the timer is armed.  An error here is a panic: see Crash.
NewConsistentHash(p) ==
  /\ p \in Observed
  /\ main[p] = "registered"
  /\ main' = [main EXCEPT ![p] = "hashed"]
  /\ ring' = [ring EXCEPT ![p] = Registered]
  /\ job' = [job EXCEPT ![p]["timer"] = At("idle")]
  /\ UNCHANGED <<etcdVars, handoff, responsibleTypes, faults, historyVars>>

\* watchNodes gets to registry.Subscribe: it sees the changes from now on.
WatchNodes(p) ==
  /\ main[p] \in {"hashed", "assigned", "running"}
  /\ watch[p] = "none"
  /\ watch' = [watch EXCEPT ![p] = "open"]
  /\ job' = [job EXCEPT ![p]["watcher"] = At("idle")]
  /\ UNCHANGED <<lease, events, main, ring, handoff, responsibleTypes, faults,
                 historyVars>>

\* The rings a loop of hash can meet: it reads c.ring once per device type,
\* and another goroutine may be storing a new ring meanwhile.
RingsRead(p, others) ==
  {ring[p]} \cup {job[p][g].nodes : g \in {h \in others : job[p][h].at = "store"}}

HashResults(p, others) ==
  {{t \in Types : Owner[seen[t]][t] = p} : seen \in [Types -> RingsRead(p, others)]}

\* Mutant: the producer waits for an offer instead of asking.
NewProducerWaiting(p) ==
  /\ main[p] = "hashed"
  /\ main' = [main EXCEPT ![p] = "assigned"]
  /\ dropped' = [dropped EXCEPT ![p] = FALSE]
  /\ UNCHANGED <<etcdVars, ring, job, handoff, responsibleTypes, faults,
                 overlapped, listFailed>>

\* NewProducer takes the current share directly from GetResponsibleKeys.
NewProducer(p) ==
  /\ main[p] = "hashed"
  /\ main' = [main EXCEPT ![p] = "assigned"]
  /\ \E keys \in HashResults(p, Goroutines) :
       responsibleTypes' = [responsibleTypes EXCEPT ![p] = keys]
  /\ dropped' = [dropped EXCEPT ![p] = FALSE]
  /\ UNCHANGED <<etcdVars, ring, job, handoff, faults, overlapped, listFailed>>

\* watchResponsibleTypeCh: the forwarder starts receiving offers.
RunProducer(p) ==
  /\ main[p] = "assigned"
  /\ main' = [main EXCEPT ![p] = "running"]
  /\ handoff' = [handoff EXCEPT ![p] = [at |-> "recv", keys |-> {}]]
  /\ UNCHANGED <<etcdVars, ring, job, responsibleTypes, faults, historyVars>>

-----------------------------------------------------------------------------
(***************************************************************************)
(* The watcher and the timer                                               *)
(***************************************************************************)
Active(p, g) == job[p][g].at \in {"store", "hash", "offer"}
Idle(p)      == \A g \in Goroutines : ~Active(p, g)

\* Goroutine g starts on a new ring while the other one is not at rest.
Overlaps(p, g) == Active(p, Other(g)) \/ watch[p] = "none"

\* Goroutine g of p has built a ring of the given nodes and is to store it.
Rebuild(p, g, nodes) ==
  /\ job[p][g].at = "idle"
  /\ job' = [job EXCEPT ![p][g] = [at |-> "store", nodes |-> nodes, keys |-> {}]]
  /\ overlapped' = [overlapped EXCEPT ![p] = @ \/ Overlaps(p, g)]

\* Subscribe parses the value of an event and hands it to the watcher; an
\* event whose value does not parse arrives as the zero Event.
Receive(p, e) ==
  /\ job[p]["watcher"].at = "idle"
  /\ events[p] # <<>>
  /\ e = Head(events[p])
  /\ events' = [events EXCEPT ![p] = Tail(@)]

Parses(e) == e.type = "delete" => DeleteHasValue

\* Mutant: the new ring is of the added pod, instead of the old ring and it.
OnAddNodeAlone(p) ==
  /\ \E e \in Event :
       /\ Receive(p, e)
       /\ Parses(e) /\ e.type = "put"
       /\ Rebuild(p, "watcher", {e.pod})
  /\ UNCHANGED <<lease, watch, main, ring, handoff, responsibleTypes, faults,
                 dropped, listFailed>>

OnAddNode(p) ==
  /\ \E e \in Event :
       /\ Receive(p, e)
       /\ Parses(e) /\ e.type = "put"
       /\ Rebuild(p, "watcher", ring[p] \cup {e.pod})
  /\ UNCHANGED <<lease, watch, main, ring, handoff, responsibleTypes, faults,
                 dropped, listFailed>>

\* Mutant: the ring that RemoveNode returns is thrown away.
OnDelNodeDiscarded(p) ==
  /\ \E e \in Event :
       /\ Receive(p, e)
       /\ Parses(e) /\ e.type = "delete"
       /\ Rebuild(p, "watcher", ring[p])
  /\ UNCHANGED <<lease, watch, main, ring, handoff, responsibleTypes, faults,
                 dropped, listFailed>>

OnDelNode(p) ==
  /\ \E e \in Event :
       /\ Receive(p, e)
       /\ Parses(e) /\ e.type = "delete"
       /\ Rebuild(p, "watcher", ring[p] \ {e.pod})
  /\ UNCHANGED <<lease, watch, main, ring, handoff, responsibleTypes, faults,
                 dropped, listFailed>>

\* The zero Event is neither a put nor a delete.
IgnoreEvent(p) ==
  /\ \E e \in Event : Receive(p, e) /\ ~Parses(e)
  /\ UNCHANGED <<lease, watch, main, ring, job, handoff, responsibleTypes,
                 faults, historyVars>>

\* Mutant: the pod lists its peers only.
ListPeers(p) ==
  /\ Rebuild(p, "timer", Registered \ {p})
  /\ UNCHANGED <<etcdVars, main, ring, handoff, responsibleTypes, faults,
                 dropped, listFailed>>

\* Mutant: the listing is of the pod's own key, without the prefix.
ListSelf(p) ==
  /\ Rebuild(p, "timer", {p})
  /\ UNCHANGED <<etcdVars, main, ring, handoff, responsibleTypes, faults,
                 dropped, listFailed>>

\* Mutant: listNodes fails with the list of one empty name.
ListBlank(p) ==
  /\ Rebuild(p, "timer", {NoPod})
  /\ Fault("list", MaxListErrors)
  /\ listFailed' = [listFailed EXCEPT ![p] = TRUE]
  /\ UNCHANGED <<etcdVars, main, ring, handoff, responsibleTypes, dropped>>

\* The second listing, two minutes after the first.
ListNodes(p) ==
  /\ Rebuild(p, "timer", Registered)
  /\ UNCHANGED <<etcdVars, main, ring, handoff, responsibleTypes, faults,
                 dropped, listFailed>>

\* When it fails the error is logged and setNodes gets the empty list.
ListNodesFails(p) ==
  /\ Rebuild(p, "timer", {})
  /\ Fault("list", MaxListErrors)
  /\ listFailed' = [listFailed EXCEPT ![p] = TRUE]
  /\ UNCHANGED <<etcdVars, main, ring, handoff, responsibleTypes, dropped>>

\* Mutant: the new ring is stored and nobody is told.
StoreRingSilently(p, g) ==
  /\ job[p][g].at = "store"
  /\ ring' = [ring EXCEPT ![p] = job[p][g].nodes]
  /\ job' = [job EXCEPT ![p][g] = At(IF g = "timer" THEN "off" ELSE "idle")]
  /\ UNCHANGED <<etcdVars, main, handoff, responsibleTypes, faults, historyVars>>

\* c.ring = ring
StoreRing(p, g) ==
  /\ job[p][g].at = "store"
  /\ ring' = [ring EXCEPT ![p] = job[p][g].nodes]
  /\ job' = [job EXCEPT ![p][g] = At("hash")]
  /\ UNCHANGED <<etcdVars, main, handoff, responsibleTypes, faults, historyVars>>

\* c.hash(c.podName), the operand of the send.
HashKeys(p, g) ==
  /\ job[p][g].at = "hash"
  /\ \E keys \in HashResults(p, {Other(g)}) :
       job' = [job EXCEPT ![p][g] = [at |-> "offer", nodes |-> {}, keys |-> keys]]
  /\ UNCHANGED <<etcdVars, main, ring, handoff, responsibleTypes, faults,
                 historyVars>>

\* select { case c.responsibleKeysCh <- keys: default: }.  The send succeeds
\* only while the forwarder is receiving.  The timer has then finished.
Offer(p, g) ==
  /\ job[p][g].at = "offer"
  /\ job' = [job EXCEPT ![p][g] = At(IF g = "timer" THEN "off" ELSE "idle")]
  /\ IF handoff[p].at = "recv"
     THEN /\ handoff' = [handoff EXCEPT ![p] =
                           [at |-> "send", keys |-> job[p][g].keys]]
          /\ dropped' = [dropped EXCEPT ![p] = FALSE]
     ELSE /\ dropped' = [dropped EXCEPT ![p] = TRUE]
          /\ UNCHANGED handoff
  /\ UNCHANGED <<etcdVars, main, ring, responsibleTypes, faults, overlapped,
                 listFailed>>

\* The forwarder's ch <- keys meets watchResponsibleTypeCh's receive; the
\* forwarder is then back at its select.
Deliver(p) ==
  /\ handoff[p].at = "send"
  /\ responsibleTypes' = [responsibleTypes EXCEPT ![p] = handoff[p].keys]
  /\ handoff' = [handoff EXCEPT ![p] = [at |-> "recv", keys |-> {}]]
  /\ UNCHANGED <<etcdVars, main, ring, job, faults, historyVars>>

-----------------------------------------------------------------------------
Start(p)  == Register(p) \/ NewConsistentHash(p) \/ NewProducer(p) \/ RunProducer(p)
Watcher(p) == WatchNodes(p) \/ OnAddNode(p) \/ OnDelNode(p) \/ IgnoreEvent(p)
Timer(p)  == ListNodes(p) \/ ListNodesFails(p)
Publisher(p) == \/ \E g \in Goroutines : StoreRing(p, g) \/ HashKeys(p, g) \/ Offer(p, g)
                \/ Deliver(p)
Failure(p) == Crash(p) \/ LoseLease(p) \/ CancelWatch(p)

Next == \E p \in Pods :
  Start(p) \/ Watcher(p) \/ Timer(p) \/ Publisher(p) \/ Failure(p) \/ ExpireLease(p)

Spec == Init /\ [][Next]_vars

\* Goroutines are scheduled, timers fire, a pod is (re)started by its
\* Deployment and an unrefreshed lease runs out.  Faults may never happen.
Fairness == \A p \in Pods :
  /\ WF_vars(Start(p)) /\ WF_vars(Watcher(p)) /\ WF_vars(ListNodes(p))
  /\ WF_vars(Deliver(p)) /\ WF_vars(ExpireLease(p))
  /\ \A g \in Goroutines : WF_vars(StoreRing(p, g) \/ HashKeys(p, g) \/ Offer(p, g))

FairSpec == Spec /\ Fairness

-----------------------------------------------------------------------------
(***************************************************************************)
(* Properties                                                              *)
(***************************************************************************)
Serving(p) == main[p] \in {"assigned", "running"}
Undisturbed(p) == ~dropped[p] /\ ~overlapped[p]

\* The share the producer has, or is about to receive from the forwarder.
LatestShare(p) ==
  IF handoff[p].at = "send" THEN handoff[p].keys ELSE responsibleTypes[p]

\* Between two rebuilds the producer's share is that of the pod's current
\* ring, through every order of watcher, timer, forwarder and producer, unless
\* the last offer found the forwarder busy (the default branch of the selects
\* in hash.go) or the unlocked timer and watcher met.  There is no third way
\* for a pod to keep working on an outdated share.
StaleOnlyByDropOrOverlap == \A p \in Pods :
  Serving(p) /\ Idle(p) /\ Undisturbed(p) => LatestShare(p) = KeysOf(ring[p], p)

\* Pods that are at rest and agree that they are the whole ring split the
\* device types: each type has exactly one of them as its producer, so a
\* task that all of them receive is produced completely and only once.
Settled(p) == main[p] = "running" /\ Idle(p) /\ handoff[p].at = "recv"

OneProducerPerType == \A S \in (SUBSET Pods) \ {{}} :
  (\A p \in S : Settled(p) /\ Undisturbed(p) /\ ring[p] = S) =>
    \A t \in Types : \E p \in S :
      t \in responsibleTypes[p] /\ \A q \in S \ {p} : t \notin responsibleTypes[q]

\* A pod that holds its registration is on its own ring from the first listing
\* on (it registers before it lists, main.go), whatever its watcher and timer
\* do, until a listing fails; otherwise it would produce nothing.
SelfInRing == \A p \in Pods :
  main[p] \notin {"down", "registered"} /\ lease[p] = "live" /\ ~listFailed[p]
    => p \in ring[p]

\* After the second listing, with its watch alive and read to the end, a pod
\* knows every registered pod: what registered between the first listing and
\* the start of the watch is caught by the timer.
CaughtUp(p) ==
  /\ watch[p] = "open" /\ events[p] = <<>> /\ Idle(p) /\ job[p]["timer"].at = "off"
  /\ ~overlapped[p] /\ ~listFailed[p]

KnowsRegistered == \A p \in Pods : CaughtUp(p) => Registered \subseteq ring[p]

\* ... and it has dropped every pod that is gone, so that no device type is
\* left to a pod that no longer exists.
ForgetsDeparted == \A p \in Pods : CaughtUp(p) => ring[p] \subseteq Registered

\* Whatever departed pods their rings have kept, registered pods at rest that have
\* read their watches to the end have no device type in common, and one that they
\* would divide among them is without a producer only where the ring of the pod
\* that should have it still leaves it to a departed one.
AtMostOneProducer ==
  LET atRest == {p \in Registered : Settled(p) /\ Undisturbed(p) /\ CaughtUp(p)}
  IN  \A p \in atRest :
        /\ \A q \in atRest \ {p} : responsibleTypes[p] \cap responsibleTypes[q] = {}
        /\ \A t \in KeysOf(Registered, p) \ responsibleTypes[p] :
             Owner[ring[p]][t] \notin Registered

\* Once the faults are over all pods come to run on the same ring, the
\* registered pods, and their producers get its shares, except where an offer
\* was dropped or timer and watcher overlapped.
Converges == <>[](\A p \in Observed :
  \/ overlapped[p]
  \/ /\ main[p] = "running" /\ ring[p] = Registered
     /\ dropped[p] \/ responsibleTypes[p] = KeysOf(ring[p], p))

=============================================================================
