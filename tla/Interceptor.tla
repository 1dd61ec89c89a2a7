----------------------------- MODULE Interceptor -----------------------------
(***************************************************************************)
(* The switch of each business (internal/component/interceptor.go).        *)
(*                                                                         *)
(* Every pod has a map of switches, all on when it starts.  A request to   *)
(* pause or resume a business does not change the map of the pod that gets *)
(* it: it puts one key, the same for all, in etcd, and every pod changes   *)
(* its map when its watch of that key (pkg/registry/etcd) tells it.  The   *)
(* mutex of the map is held during the put.  The key hangs on the lease of *)
(* the pod that put it last.                                               *)
(*                                                                         *)
(* A watch gets what happens to the key after it began, in order and       *)
(* without a gap, so it is a position in etcd's history of the key.        *)
(***************************************************************************)
EXTENDS Integers, Sequences

CONSTANTS
  Pods,
  Biz,          \* the keys of pushconfig.PushMap
  MaxRequests,  \* bounds: requests that are not refused,
  MaxFaults     \* and crashes, failed puts and cancelled watches

ASSUME InterceptorAssumption == {MaxRequests, MaxFaults} \subseteq Nat

VARIABLES
  \* a pod
  Switch,
  request,    \* the request that holds the mutex
  watcher,    \* the goroutine of watchCh
  \* etcd
  history,    \* what has happened to the key
  lease,      \* of the key: the pod that put it, and whether it still runs
  watch,      \* p's watch of the key: where it began, has come to, and ends
  \* bookkeeping
  happened    \* how many inputs and faults of each kind there were

podVars == <<Switch, request, watcher>>
vars    == <<podVars, history, lease, watch, happened>>

Kinds   == {"request", "fault"}
Put     == [biz : Biz, status : BOOLEAN]
Deleted == [deleted |-> TRUE]
NoWatch == [open |-> FALSE, begin |-> 0, pos |-> 0, end |-> 0]
Idle    == [at |-> "none"]

TypeOK ==
  /\ Switch \in [Pods -> [Biz -> BOOLEAN]]
  /\ request \in [Pods -> {Idle} \cup [at : {"put", "return"}, put : Put]]
  /\ watcher \in [Pods -> {"off", "subscribe", "recv", "lock"}]
  /\ history \in Seq(Put \cup {Deleted})
  /\ lease \in [Pods -> {"none", "live", "orphan"}]
  /\ watch \in [Pods -> [open : BOOLEAN, begin : Nat, pos : Nat, end : Nat]]
  /\ happened \in [Kinds -> Nat]

Init ==
  /\ Switch = [p \in Pods |-> [b \in Biz |-> TRUE]]
  /\ request = [p \in Pods |-> Idle]
  /\ watcher = [p \in Pods |-> "off"]
  /\ history = <<>>
  /\ lease = [p \in Pods |-> "none"]
  /\ watch = [p \in Pods |-> NoWatch]
  /\ happened = [k \in Kinds |-> 0]

Happens(kind, max) ==
  /\ happened[kind] < max
  /\ happened' = [happened EXCEPT ![kind] = @ + 1]

Up(p) == watcher[p] # "off"
Moves(p, from, to) == watcher[p] = from /\ watcher' = [watcher EXCEPT ![p] = to]

\* The last event that p's watch has for it.
End(p) == IF watch[p].open THEN Len(history) ELSE watch[p].end

-----------------------------------------------------------------------------
(***************************************************************************)
(* Pods and leases                                                         *)
(***************************************************************************)

\* NewInterceptor waits for watchCh to run, and not for its subscription.
NewInterceptor(p) ==
  /\ Moves(p, "off", "subscribe")
  /\ Switch' = [Switch EXCEPT ![p] = [b \in Biz |-> TRUE]]
  /\ UNCHANGED <<request, history, lease, watch, happened>>

Subscribe(p) ==
  /\ Moves(p, "subscribe", "recv")
  /\ watch' = [watch EXCEPT ![p] =
       [open |-> TRUE, begin |-> Len(history), pos |-> Len(history), end |-> 0]]
  /\ UNCHANGED <<Switch, request, history, lease, happened>>

\* The process ends, and leaves the key to its lease if it has put it.
Crash(p) ==
  /\ Up(p)
  /\ Happens("fault", MaxFaults)
  /\ watcher' = [watcher EXCEPT ![p] = "off"]
  /\ Switch' = [Switch EXCEPT ![p] = [b \in Biz |-> TRUE]]
  /\ request' = [request EXCEPT ![p] = Idle]
  /\ lease' = [lease EXCEPT ![p] = IF @ = "live" THEN "orphan" ELSE @]
  /\ watch' = [watch EXCEPT ![p] = NoWatch]
  /\ UNCHANGED history

\* Mutant: the deletion comes as a pair without values.
ExpireLeaseZero(p) ==
  /\ lease[p] = "orphan"
  /\ lease' = [lease EXCEPT ![p] = "none"]
  /\ history' = Append(history, [biz |-> "", status |-> FALSE])
  /\ UNCHANGED <<podVars, watch, happened>>

\* The lease of a process that ended runs out, and etcd deletes the key.
ExpireLease(p) ==
  /\ lease[p] = "orphan"
  /\ lease' = [lease EXCEPT ![p] = "none"]
  /\ history' = Append(history, Deleted)
  /\ UNCHANGED <<podVars, watch, happened>>

\* etcd cancels the watch; Subscribe's goroutine ends without a word.
CancelWatch(p) ==
  /\ watch[p].open
  /\ Happens("fault", MaxFaults)
  /\ watch' = [watch EXCEPT ![p] =
       [open |-> FALSE, begin |-> @.begin, pos |-> @.pos, end |-> Len(history)]]
  /\ UNCHANGED <<podVars, history, lease>>

-----------------------------------------------------------------------------
(***************************************************************************)
(* ResumeBiz and PauseBiz                                                  *)
(***************************************************************************)

\* With the mutex: what the switch says already is a repeated operation.
Request(p, biz, status) ==
  /\ Up(p)
  /\ request[p] = Idle
  /\ Switch[p][biz] # status
  /\ Happens("request", MaxRequests)
  /\ request' = [request EXCEPT ![p] = [at |-> "put", put |-> [biz |-> biz, status |-> status]]]
  /\ UNCHANGED <<Switch, watcher, history, lease, watch>>

\* Register puts the key, on the lease of p ...
Register(p) ==
  /\ request[p].at = "put"
  /\ history' = Append(history, request[p].put)
  /\ lease' = [q \in Pods |-> IF q = p THEN "live" ELSE "none"]
  /\ request' = [request EXCEPT ![p].at = "return"]
  /\ UNCHANGED <<Switch, watcher, watch, happened>>

\* Mutant: an error leaves the mutex locked.
RegisterFailsLocked(p) ==
  /\ request[p].at = "put"
  /\ Happens("fault", MaxFaults)
  /\ request' = [request EXCEPT ![p].at = "failed"]
  /\ UNCHANGED <<Switch, watcher, history, lease, watch>>

\* ... or fails.
RegisterFails(p) ==
  /\ request[p].at = "put"
  /\ Happens("fault", MaxFaults)
  /\ request' = [request EXCEPT ![p].at = "return"]
  /\ UNCHANGED <<Switch, watcher, history, lease, watch>>

\* The mutex is free again.
Return(p) ==
  /\ request[p].at = "return"
  /\ request' = [request EXCEPT ![p] = Idle]
  /\ UNCHANGED <<Switch, watcher, history, lease, watch, happened>>

-----------------------------------------------------------------------------
(***************************************************************************)
(* watchCh                                                                 *)
(***************************************************************************)

Advance(p) ==
  /\ watch[p].pos < End(p)
  /\ watch' = [watch EXCEPT ![p].pos = @ + 1]

\* Mutant: an event that finds the mutex taken is dropped.
ReceiveOrDrop(p) ==
  /\ Advance(p)
  /\ history[watch[p].pos + 1] # Deleted
  /\ IF request[p] = Idle THEN Moves(p, "recv", "lock")
                         ELSE watcher[p] = "recv" /\ UNCHANGED watcher
  /\ UNCHANGED <<Switch, request, history, lease, happened>>

\* A put is to be stored, with the mutex.
Receive(p) ==
  /\ Advance(p)
  /\ history[watch[p].pos + 1] # Deleted
  /\ Moves(p, "recv", "lock")
  /\ UNCHANGED <<Switch, request, history, lease, happened>>

\* Mutant: the deletion of the key turns the businesses off.
IgnoreStops(p) ==
  /\ watcher[p] = "recv"
  /\ Advance(p)
  /\ history[watch[p].pos + 1] = Deleted
  /\ Switch' = [Switch EXCEPT ![p] = [b \in Biz |-> FALSE]]
  /\ UNCHANGED <<request, watcher, history, lease, happened>>

\* The deletion of the key comes as a zero Event, which is not a put.
Ignore(p) ==
  /\ watcher[p] = "recv"
  /\ Advance(p)
  /\ history[watch[p].pos + 1] = Deleted
  /\ UNCHANGED <<podVars, history, lease, happened>>

\* Mutant: the status of the event is not looked at.
ApplyToggle(p) ==
  LET put == history[watch[p].pos] IN
  /\ request[p] = Idle
  /\ Moves(p, "lock", "recv")
  /\ Switch' = [Switch EXCEPT ![p][put.biz] = ~@]
  /\ UNCHANGED <<request, history, lease, watch, happened>>

Apply(p) ==
  LET put == history[watch[p].pos] IN
  /\ request[p] = Idle
  /\ Moves(p, "lock", "recv")
  /\ Switch' = [Switch EXCEPT ![p][put.biz] = put.status]
  /\ UNCHANGED <<request, history, lease, watch, happened>>

-----------------------------------------------------------------------------
Requests(p) == Register(p) \/ Return(p)
WatchCh(p)  == Subscribe(p) \/ Receive(p) \/ Ignore(p) \/ Apply(p)

Next == \E p \in Pods :
  \/ NewInterceptor(p) \/ Crash(p) \/ ExpireLease(p) \/ CancelWatch(p)
  \/ \E biz \in Biz, status \in BOOLEAN : Request(p, biz, status)
  \/ Requests(p) \/ RegisterFails(p) \/ WatchCh(p)

Spec == Init /\ [][Next]_vars

\* Goroutines are scheduled, etcd answers, and a pod is started again.
Fairness == \A p \in Pods :
  WF_vars(NewInterceptor(p)) /\ WF_vars(Requests(p)) /\ WF_vars(WatchCh(p))

FairSpec == Spec /\ Fairness

-----------------------------------------------------------------------------
(***************************************************************************)
(* Properties                                                              *)
(***************************************************************************)

\* What p's map must say of biz when the watch has come to n: what the last put
\* of biz since the watch began says, and on if there was none.
Says(p, biz, n) ==
  {history[i].status : i \in {j \in (watch[p].begin + 1)..n :
     /\ history[j] # Deleted
     /\ history[j].biz = biz
     /\ \A k \in (j + 1)..n : history[k] = Deleted \/ history[k].biz # biz}}

CaughtUp(p) == watcher[p] = "recv" /\ watch[p].open /\ watch[p].pos = Len(history)

\* The last put wins: a pod that has received everything says of a business what
\* was put last since its watch began, in the order of etcd, whichever pods the
\* requests came to and however they overlapped. So the answer "repeated
\* operation" of such a pod is right, and the end of a lease switches nothing.
LastPutWins == \A p \in Pods : CaughtUp(p) => \A biz \in Biz :
  Says(p, biz, Len(history)) \subseteq {Switch[p][biz]}

\* Nothing else switches: without a put since its watch began, a business is on.
OnUnlessPut == \A p \in Pods : CaughtUp(p) => \A biz \in Biz :
  Says(p, biz, Len(history)) = {} => Switch[p][biz]

\* Requests end, and every pod whose watch stays open comes to agree with every
\* other on a business that was put since both of their watches began.
Agree(p, q) == \A biz \in Biz :
  Says(p, biz, Len(history)) # {} /\ Says(q, biz, Len(history)) # {}
    => Switch[p][biz] = Switch[q][biz]

PodsAgree == <>[](\A p, q \in Pods :
  /\ request[p] = Idle
  /\ watch[p].open /\ watch[q].open => Agree(p, q))

=============================================================================
