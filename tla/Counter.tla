------------------------------- MODULE Counter -------------------------------
(***************************************************************************)
(* How many messages were hoped for and pushed, over all pods.             *)
(*                                                                         *)
(* Each pod keeps two counters (internal/component/counter.go): producers  *)
(* add to hopeCount, the worker's goroutines to pushedCount.  One          *)
(* goroutine puts the pair under the pod's key in etcd every second, where *)
(* GetCount of any pod lists it (internal/service/service.go).  Another    *)
(* one watches the reset key, which ResetCounter puts, and clears the      *)
(* counters at every event of it.  Each counter is atomic, the pair is     *)
(* not.  All keys hang on the lease of the pod that put them last.         *)
(***************************************************************************)
EXTENDS Integers, Sequences

CONSTANTS
  Pods,
  NoPod,
  Deltas,       \* what a finished task adds to hopeCount
  MaxCounts,    \* bounds: inputs and faults of each kind
  MaxResets,
  MaxCrashes,
  MaxEtcdErrors

ASSUME CounterAssumption ==
  /\ NoPod \notin Pods
  /\ Deltas \subseteq Int
  /\ {MaxCounts, MaxResets, MaxCrashes, MaxEtcdErrors} \subseteq Nat

VARIABLES
  \* a pod
  hopeCount,
  pushedCount,
  uploader,     \* the goroutine of Upload and what it has read
  resetter,     \* the goroutine of ListenReset; "off" while the pod is down
  \* etcd
  counts,       \* the key ReadCountKey/p
  resetKey,     \* the key WriteCountKey/, and whose lease it hangs on
  watch,        \* p's watch of WriteCountKey
  events,       \* the events of that watch that p has not received
  \* bookkeeping
  happened,     \* how many inputs and faults of each kind there were
  quiet,        \* history: since the last reset was asked for, nothing was counted
  clears        \* history: how often ListenReset of p has cleared

podVars  == <<hopeCount, pushedCount, uploader, resetter>>
etcdVars == <<counts, resetKey, watch, events>>
vars     == <<podVars, etcdVars, happened, quiet, clears>>

Kinds    == {"count", "reset", "crash", "etcd error"}
Pair     == [hope : Int, pushed : Nat]
Uploader == [at : {"off", "tick", "half", "put"}, pair : Pair]
Zero     == [hope |-> 0, pushed |-> 0]
Count(lease, pair) == [lease |-> lease, pair |-> pair]
NoReset  == [lease |-> "none", pod |-> NoPod]

TypeOK ==
  /\ hopeCount \in [Pods -> Int]
  /\ pushedCount \in [Pods -> Nat]
  /\ uploader \in [Pods -> Uploader]
  /\ resetter \in [Pods -> {"off", "recv", "half"}]
  /\ counts \in [Pods -> [lease : {"none", "live", "orphan"}, pair : Pair]]
  /\ resetKey \in {NoReset} \cup [lease : {"live", "orphan"}, pod : Pods]
  /\ watch \in [Pods -> {"none", "open", "cancelled"}]
  /\ events \in [Pods -> Seq({"put", "delete"})]
  /\ happened \in [Kinds -> Nat]
  /\ quiet \in BOOLEAN
  /\ clears \in [Pods -> Nat]

Init ==
  /\ hopeCount = [p \in Pods |-> 0]
  /\ pushedCount = [p \in Pods |-> 0]
  /\ uploader = [p \in Pods |-> [at |-> "off", pair |-> Zero]]
  /\ resetter = [p \in Pods |-> "off"]
  /\ counts = [p \in Pods |-> Count("none", Zero)]
  /\ resetKey = NoReset
  /\ watch = [p \in Pods |-> "none"]
  /\ events = [p \in Pods |-> <<>>]
  /\ happened = [k \in Kinds |-> 0]
  /\ quiet = FALSE
  /\ clears = [p \in Pods |-> 0]

Happens(kind, max) ==
  /\ happened[kind] < max
  /\ happened' = [happened EXCEPT ![kind] = @ + 1]

Up(p) == resetter[p] # "off"

\* The reset key changes, and the open watches are told.
Publish(type) == events' =
  [p \in Pods |-> IF watch[p] = "open" THEN Append(events[p], type) ELSE events[p]]

-----------------------------------------------------------------------------
(***************************************************************************)
(* Pods and leases                                                         *)
(***************************************************************************)

\* NewCounter and Counter.Run: the ticker and the watch of the reset key.
Run(p) ==
  /\ ~Up(p)
  /\ uploader' = [uploader EXCEPT ![p].at = "tick"]
  /\ resetter' = [resetter EXCEPT ![p] = "recv"]
  /\ watch' = [watch EXCEPT ![p] = "open"]
  /\ UNCHANGED <<hopeCount, pushedCount, counts, resetKey, events, happened, quiet, clears>>

\* The process ends, and leaves its keys to its lease.
Orphaned(lease) == IF lease = "live" THEN "orphan" ELSE lease

Crash(p) ==
  /\ Up(p)
  /\ Happens("crash", MaxCrashes)
  /\ hopeCount' = [hopeCount EXCEPT ![p] = 0]
  /\ pushedCount' = [pushedCount EXCEPT ![p] = 0]
  /\ uploader' = [uploader EXCEPT ![p] = [at |-> "off", pair |-> Zero]]
  /\ resetter' = [resetter EXCEPT ![p] = "off"]
  /\ counts' = [counts EXCEPT ![p].lease = Orphaned(@)]
  /\ resetKey' = IF resetKey.pod = p THEN [resetKey EXCEPT !.lease = "orphan"] ELSE resetKey
  /\ watch' = [watch EXCEPT ![p] = "none"]
  /\ events' = [events EXCEPT ![p] = <<>>]
  /\ UNCHANGED <<quiet, clears>>

\* The lease of a process that ended runs out: etcd deletes the keys that
\* nobody has put since.
ExpireLease(p) ==
  LET hasReset == resetKey = [lease |-> "orphan", pod |-> p]
      hasCount == counts[p].lease = "orphan" IN
  /\ hasReset \/ hasCount
  /\ counts' = IF hasCount THEN [counts EXCEPT ![p] = Count("none", Zero)] ELSE counts
  /\ IF hasReset THEN resetKey' = NoReset /\ Publish("delete")
                 ELSE UNCHANGED <<resetKey, events>>
  /\ UNCHANGED <<podVars, watch, happened, quiet, clears>>

\* etcd cancels the watch; Subscribe's goroutine ends without a word.
CancelWatch(p) ==
  /\ watch[p] = "open"
  /\ Happens("etcd error", MaxEtcdErrors)
  /\ watch' = [watch EXCEPT ![p] = "cancelled"]
  /\ UNCHANGED <<podVars, counts, resetKey, events, quiet, clears>>

-----------------------------------------------------------------------------
(***************************************************************************)
(* Counting, and asking for a reset                                        *)
(***************************************************************************)

AddHopeCount(p) ==
  /\ Up(p)
  /\ Happens("count", MaxCounts)
  /\ \E delta \in Deltas : hopeCount' = [hopeCount EXCEPT ![p] = @ + delta]
  /\ quiet' = FALSE
  /\ UNCHANGED <<pushedCount, uploader, resetter, etcdVars, clears>>

IncrPushedCount(p) ==
  /\ Up(p)
  /\ Happens("count", MaxCounts)
  /\ pushedCount' = [pushedCount EXCEPT ![p] = @ + 1]
  /\ quiet' = FALSE
  /\ UNCHANGED <<hopeCount, uploader, resetter, etcdVars, clears>>

\* Mutant: the reset key is put without a lease.
ResetCounterForGood(p) ==
  /\ Up(p)
  /\ Happens("reset", MaxResets)
  /\ resetKey' = [lease |-> "live", pod |-> NoPod]
  /\ Publish("put")
  /\ quiet' = TRUE
  /\ UNCHANGED <<podVars, counts, watch, clears>>

\* PushService.ResetCounter on pod p.
ResetCounter(p) ==
  /\ Up(p)
  /\ Happens("reset", MaxResets)
  /\ resetKey' = [lease |-> "live", pod |-> p]
  /\ Publish("put")
  /\ quiet' = TRUE
  /\ UNCHANGED <<podVars, counts, watch, clears>>

-----------------------------------------------------------------------------
(***************************************************************************)
(* ListenReset                                                             *)
(***************************************************************************)

\* Any event clears the counters, whatever it says: first hopeCount ...
ClearHope(p) ==
  /\ resetter[p] = "recv"
  /\ events[p] # <<>>
  /\ events' = [events EXCEPT ![p] = Tail(@)]
  /\ hopeCount' = [hopeCount EXCEPT ![p] = 0]
  /\ resetter' = [resetter EXCEPT ![p] = "half"]
  /\ clears' = [clears EXCEPT ![p] = @ + 1]
  /\ UNCHANGED <<pushedCount, uploader, counts, resetKey, watch, happened, quiet>>

\* Mutant: clears hopeCount only.
ClearNoPushed(p) ==
  /\ resetter[p] = "half"
  /\ resetter' = [resetter EXCEPT ![p] = "recv"]
  /\ UNCHANGED <<hopeCount, pushedCount, uploader, etcdVars, happened, quiet, clears>>

\* ... then pushedCount.
ClearPushed(p) ==
  /\ resetter[p] = "half"
  /\ pushedCount' = [pushedCount EXCEPT ![p] = 0]
  /\ resetter' = [resetter EXCEPT ![p] = "recv"]
  /\ UNCHANGED <<hopeCount, uploader, etcdVars, happened, quiet, clears>>

-----------------------------------------------------------------------------
(***************************************************************************)
(* Upload                                                                  *)
(***************************************************************************)

\* A tick: GetCount reads hopeCount ...
ReadHope(p) ==
  /\ uploader[p].at = "tick"
  /\ uploader' = [uploader EXCEPT ![p] =
       [at |-> "half", pair |-> [hope |-> hopeCount[p], pushed |-> 0]]]
  /\ UNCHANGED <<hopeCount, pushedCount, resetter, etcdVars, happened, quiet, clears>>

\* ... then pushedCount.
ReadPushed(p) ==
  /\ uploader[p].at = "half"
  /\ uploader' = [uploader EXCEPT ![p] =
       [at |-> "put", pair |-> [hope |-> @.pair.hope, pushed |-> pushedCount[p]]]]
  /\ UNCHANGED <<hopeCount, pushedCount, resetter, etcdVars, happened, quiet, clears>>

\* Mutant: the reset is watched for under the key of the counts.
PutSeen(p) ==
  /\ uploader[p].at = "put"
  /\ counts' = [counts EXCEPT ![p] = Count("live", uploader[p].pair)]
  /\ uploader' = [uploader EXCEPT ![p] = [at |-> "tick", pair |-> Zero]]
  /\ Publish("put")
  /\ UNCHANGED <<hopeCount, pushedCount, resetter, resetKey, watch, happened, quiet, clears>>

\* Register puts the pair.
Put(p) ==
  /\ uploader[p].at = "put"
  /\ counts' = [counts EXCEPT ![p] = Count("live", uploader[p].pair)]
  /\ uploader' = [uploader EXCEPT ![p] = [at |-> "tick", pair |-> Zero]]
  /\ UNCHANGED <<hopeCount, pushedCount, resetter, resetKey, watch, events, happened, quiet, clears>>

\* Mutant: an error ends the goroutine.
PutFailsForGood(p) ==
  /\ uploader[p].at = "put"
  /\ Happens("etcd error", MaxEtcdErrors)
  /\ uploader' = [uploader EXCEPT ![p] = [at |-> "off", pair |-> Zero]]
  /\ UNCHANGED <<hopeCount, pushedCount, resetter, etcdVars, quiet, clears>>

\* An error is logged, and the next tick tries again.
PutFails(p) ==
  /\ uploader[p].at = "put"
  /\ Happens("etcd error", MaxEtcdErrors)
  /\ uploader' = [uploader EXCEPT ![p] = [at |-> "tick", pair |-> Zero]]
  /\ UNCHANGED <<hopeCount, pushedCount, resetter, etcdVars, quiet, clears>>

-----------------------------------------------------------------------------
ListenReset(p) == ClearHope(p) \/ ClearPushed(p)
Upload(p)      == ReadHope(p) \/ ReadPushed(p) \/ Put(p)

Next == \E p \in Pods :
  \/ Run(p) \/ Crash(p) \/ ExpireLease(p) \/ CancelWatch(p)
  \/ AddHopeCount(p) \/ IncrPushedCount(p) \/ ResetCounter(p)
  \/ ListenReset(p) \/ Upload(p) \/ PutFails(p)

Spec == Init /\ [][Next]_vars

\* Goroutines are scheduled, the ticker ticks, a pod is started again and the
\* lease of one that ended runs out.
Fairness == \A p \in Pods :
  WF_vars(Run(p)) /\ WF_vars(ExpireLease(p)) /\ WF_vars(ListenReset(p)) /\ WF_vars(Upload(p))

FairSpec == Spec /\ Fairness

-----------------------------------------------------------------------------
(***************************************************************************)
(* Properties                                                              *)
(***************************************************************************)
Shows(p, hope, pushed) == counts[p] = Count("live", [hope |-> hope, pushed |-> pushed])

\* What GetCount shows of a pod settles on the pod's counters, whatever was read
\* while a reset was half done, whichever uploads failed, and although the key
\* of the pod's former process may expire after the new one has put it.
CountsSettle == \A p \in Pods : <>[]Shows(p, hopeCount[p], pushedCount[p])

\* A reset asked for at any pod is seen at all of them: when nothing is counted
\* after it, GetCount comes to show zeros for every pod with an open watch. No
\* pair read before the reset, and no half of one, stays published.
ResetClears ==
  <>[]quiet => <>[](\A p \in Pods : watch[p] = "cancelled" \/ Shows(p, 0, 0))

\* Any event clears, but only a request brings events: a reset clears a pod at
\* most twice, when the key is put and when it goes with the lease of the pod
\* that put it, and no upload clears anything.
ClearedByResets == \A p \in Pods :
  clears[p] + Len(events[p]) + (IF resetKey = NoReset THEN 0 ELSE 1)
    <= 2 * happened["reset"]

=============================================================================
