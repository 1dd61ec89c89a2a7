# Verification of offlinepush

TLA+ modules of [offlinepush](../src/README.md), a service whose pods read device tables, turn
push tasks into Kafka messages and push what they consume. The modules are checked with TLC on
small instances and, in the `*Proofs` modules, proved with TLAPS for every value of the constants.

## 1. The system

Every pod runs the same program (`cmd/main/main.go`). On start it registers its name in etcd, and
then starts its components in this order:

| Component | State | Operations | Interacts with |
|---|---|---|---|
| **Registry** `pkg/registry/etcd` | a session with a lease, cancel functions of its watches | `Register`, `UnRegister`, `ListService`, `Subscribe`, `Close` | etcd; everybody below |
| **Interceptor** `component/interceptor.go` | a switch per business | `ResumeBiz`, `PauseBiz`, `Permit`, `watchCh` | registry (put, watch) |
| **Counter** `component/counter.go` | `hopeCount`, `pushedCount` | `AddHopeCount`, `IncrPushedCount`, `GetCount`, `ListenReset`, `Upload` | producer and worker add, registry resets and publishes |
| **Cron** `component/cron.go` | `produceChan` | `AddConfig` (a firing per entry), `Subscribe` (a forwarder) | producer, through two unbuffered channels |
| **ConsistentHash** `component/hash.go` | `ring`, `responsibleKeysCh` | first and second listing, `watchNodes`, `OnAddNode`, `OnDelNode`, `OnSetNodes`, `Subscribe` (a forwarder) | registry (list, watch), producer (share of the device types) |
| **Producer** `component/producer.go` | `responsibleTypes` | `watchResponsibleTypeCh`, `watchTaskCh`, `doTask`, `ReadAndSend` | hash, cron, registry (manual tasks), device table, Kafka, counter |
| **Consumer**, **Worker** `component/consumer.go`, `worker.go` | a pool of goroutines | `Run`, `StartBatch`, `BatchConsume`; `Work`, `Push` | Kafka's consumer group, counter |
| **PushService**, web `service/service.go`, `web/web.go` | none | `AddTask`, `ResetCounter`, `GetCount`, `PodList` | registry |
| Device table `repository`, `repository/dao` | rows of devices | `FindDevicesPage`, `Cursor` | MySQL |
| **LockController** `internal/lock` | a distributed lock | `Apply`, `AutoRefresh`, `Run`, `Stop` | redis; used by no other code |
| **Pushers** `component/pusher`, `pkg/ratelimit` | health of a pusher, a sliding window | `Push`, `markNotAvailable`; `Limit` | redis; used by no other code |
| Retry `component/retry.go` | a count of retries | `Next` | used by no other code |

A push task therefore goes: cron or HTTP → (channel | etcd) → `watchTaskCh` of every pod → for the
types that the pod's ring gives it, pages of devices → Kafka → the group's consumers → the worker.

### What is hard, and what makes each component correct

* **ConsistentHash.** Four goroutines and no lock: main, the watcher, the timer of the second
  listing, the forwarder. Shares are offered with a `select`/`default`. A pod may start, crash,
  come back or lose its lease at any moment, listings fail, watches are cancelled. Correct: settled pods
  split the types; no pod stays on an outdated share, or an outdated ring, for any reason other than
  those the code accepts; a pod is on its own ring; all pods converge.
* **Producer and Cron.** Tasks run in parallel, each reads its types in parallel, while
  `responsibleTypes` is replaced under them. Correct: no device twice in a task and none left out
  when it succeeds; the hoped count is what was sent; every task ends; no firing is lost.
* **Consumer and Worker.** The group rebalances, members crash or are expelled with batches in hand.
  Correct: an offset is committed only over pushed messages; repetitions are bounded by faults; every
  message is pushed in the end.
* **Counter.** The two counts are reset, added to and read one by one. Correct: a reset reaches every
  pod and happens only when asked for; what is published settles on the counts.
* **Interceptor.** The switch changes with the event and not with the request. Correct: pods agree on the
  last request.
* **LockController.** A refresh is retried on time-out, against an expiry not much longer than its interval.
  Correct: two pods act at once for a bounded time only; the refresh loop never waits for itself; the lock ends up with
  one pod after any failures.
* **Pushers.** Each failing push above a threshold starts a recovery goroutine, the failures of all callers share a counter; the
  window is counted in redis, by scripts that may overtake each other. Correct: a service out of use is on its way back, through as many
  pings in a row as are asked for; a message that was taken is repeated only after an answer that came too late or through the failures of others; no more
  milliseconds in a window than the rate, and nobody limited by what is old.
* **Composition.** Every pod takes a task on the share it has at that moment. Correct: no device type of a task is produced twice,
  though rings and shares change before all have taken it, and none is left out but for a pod that was not asked.

`PROJECT.json` lists the hazards at their lines.

## 2. Modules

| Module | Models | Kind |
|---|---|---|
| `HashRing` | the ring: a set of names and the owner of a type, a constant function of it with the monotonicity of consistent hashing (the library is not in the repository) | operators |
| `ConsistentHash` | hash.go, Registry, start and end of a pod, the hand-over to the producer | state machine |
| `ConsistentHashProofs` | also of `TaskDivision`, which extends `ConsistentHash` | theorems |
| `Producer` | producer.go, cron.go, the paging query, manual tasks | state machine of one pod |
| `ProducerProofs` | | theorems |
| `AtLeastOnce` | what consumers promise about a partition | abstract specification |
| `Delivery` | consumer.go, worker.go and, external, the consumer group | state machine, implements `AtLeastOnce` |
| `DeliveryProofs` | | theorems |
| `Counter` | counter.go of every pod, `ResetCounter` and what `GetCount` lists | state machine |
| `CounterProofs` | | theorems |
| `TaskDivision` | `ConsistentHash` composed with a manual task and what each pod takes of it | composition |
| `LockController` | lock.go, with time, and, external, the redis lock | state machine |
| `LockControllerProofs` | | theorems |
| `Pusher` | ratelimit.go and failover.go of `component/pusher` | state machine |
| `PusherProofs` | | theorems |
| `SlideWindow` | pkg/ratelimit with its script, for one key | state machine |
| `SlideWindowProofs` | | theorems |
| `Interceptor` | interceptor.go on several pods, with etcd's history of the key | state machine |
| `InterceptorProofs` | | theorems |
| `MCConsistentHash`, `MCProducer`, `MCDelivery`, `MCCounter`, `MCTaskDivision`, `MCLockController`, `MCPusher`, `MCSlideWindow`, `MCInterceptor` | | instances for TLC |

The mutated operators marked "Mutant" in the modules are used by no specification. Each stands for a
plausible bug, and shows that the property named in `PROJECT.json` would find it.

### ConsistentHash

| Model | Code |
|---|---|
| `lease`, `Register`, `LoseLease`, `ExpireLease` | the key under the session's lease, `Registry.Register`; a key whose session is gone stays until the lease runs out |
| `watch`, `events`, `WatchNodes`, `CancelWatch` | `Registry.Subscribe` with its goroutine; the events not yet handed over |
| `main` | how far `main()` is: registered, `NewConsistentHash` done, `NewProducer` done, `Run` done |
| `ring`, `job` | `c.ring`; what the watcher or the timer has built and not stored, hashed and not offered |
| `handoff`, `Offer`, `Deliver` | `responsibleKeysCh` and the forwarder of `Subscribe` |
| `responsibleTypes` | the producer's field |
| `dropped`, `overlapped`, `listFailed` | history, for the properties only |

Storing the ring, hashing and offering are three actions, since another goroutine may run in between;
hashing reads `c.ring` once per type and so may mix two rings (`RingsRead`). Left out: `c.nodes` and
`getNodes`, which nothing reads. The offer that the constructor makes finds no receiver and is no
action. A pod that restarts keeps its name, as a pod of a StatefulSet or a local process does; one that comes
back under another name is another element of `Pods`. Pods outside `Observed` only register,
crash and lose leases: they bound the state and matter to the followed ones through etcd alone. A cancelled
watch loses the events that come after; those already received by the client are still handed over.
`DeleteHasValue = FALSE` is etcd, which sends a DELETE without the old value, so that `Unmarshal` fails and
the watcher gets a zero `Event`. With `TRUE` the registry reports departures as its interface
promises and the code of hash.go is written for: the `contract` run asks what that code does then.

### Producer

One pod. `share` and `incoming` are `responsibleTypes` and the one being assigned; a slice is three words, and a
task that reads it meanwhile sees the old one, the new one, or the array of one with the length
of the other (`SharesRead`). `forwarder` is the goroutine of `Cron.Subscribe`; `CronFires` is the
entry's function with its `default` branch; `manual` the events of the manual-task key (`NoConfig` the zero event of an expired key,
which does not unmarshal). `task` and `reader` are the goroutines of
`doTask` and of its `errgroup`; `sent` counts, per task, what Kafka accepted of each row. Rows are numbers, in
table order; `FindDevicesPage` is the query without `ORDER BY`, its page the first rows that
satisfy the condition. A failure strikes a query or a send, the latter after any part of the page.
Left out: the fields of a message (the query selects only `c_id`, so that the type is empty in every
message), retries inside the Kafka client, which can duplicate a message, and the counter's reset
through etcd: `hope` is the hoped count since the start of the process.

### Delivery

The group is external and is modelled as the code uses it: Consume joins, the partitions are divided when all old sessions
have ended, or `Consume` fails before (`JoinFails`), a session ends on a rebalance, marked offsets are committed from time to time and at the end of a session, an
expelled member's are refused. `claim` is the goroutine that handles a partition: what it has read, what it
has marked, and the messages of its batch that the pool has not pushed. `Begin` is the offset configuration that
`cmd/ioc/kafka.go` leaves at its default, the newest message. `Run`, `BatchConsume`, `Work`, `BatchDone` and `EndSession` are the repository's
code. `EndSession` and `JoinFails` end the goroutine for good: `Consume` is not called again. The worker's push always
succeeds, as `worker.Push` does. Left out: the error of `Invoke` (consumer.go:90), after which `wg.Wait` would wait for ever;
the pool has no limit and is never released.

`AtLeastOnce` has the offset acknowledged and the set of messages delivered of each partition, and
no pods. `PromiseKept` maps `committed` to the former and the messages pushed at least once to the latter.
The promise begins at `start`, where the group last began a partition without an offset: until the first commit every assignment
begins at the end of the partition anew, and passes over what is there already, also what a member has read and not committed.

### Counter

`hopeCount` and `pushedCount` are the two atomics of each pod, `counts` and `resetKey` the keys that `Upload` and
`ResetCounter` put in etcd, each with the lease it hangs on: `live`, or `orphan` when its process has ended and
the lease has not run out yet. `ListenReset` is two actions (`ClearHope`, `ClearPushed`), `Upload` three
(`ReadHope`, `ReadPushed`, `Put` or `PutFails`), so that counting, another reset or a crash comes between any two of them.
`events` are those of the reset key that a pod has not received; every one clears, whatever it says. `CancelWatch` is as in
`ConsistentHash`. `IncrPushedCount` and `AddHopeCount` may happen at any time: who calls them is in
`Delivery` and `Producer`. `Shows` is one pod's entry in the answer of `GetCount`; the list itself, which by its prefix
also holds the reset key, is left out, and so are the loss of a running pod's lease (its uploads then fail for good) and
the end of a goroutine by its context, which is the end of the process.

### TaskDivision

It extends `ConsistentHash`: `RingStep` is any of its steps. `AddTask` is a request at any running pod (`web.go`, `service.go`): the
put reaches the watches of the pods that run (`Asked`). `TakeTask` is `doTask` reading `responsibleTypes`: from then on the pod
produces what it took, as `Producer` shows, whatever the ring does. Between the two rings and shares change, pods join, offers are dropped or
overtaken. `met` keeps the pods that were on a pod's rings from when the task was put until it took it. `steady` says that the
running pods were at rest and knew each other when the task was put (`Acquainted`: their rings may also keep departed pods, and different
ones), that none of those asked has lost its registration or ended, and that no listing of one that waits has failed: without that two pods may produce for one
type. The task is for all types; a task for fewer is the intersection with them. Two tasks do not meet here: in `Producer` they do.

### LockController

`at` is where the goroutine of `Run` is: `apply`, `trying` (`TryLock` under way), `select` (of `AutoRefresh`), `refresh` and `retry` (a
call of `Refresh`, for the ticker or for `retryCh`), `stop`, `unlock`, `clear`. `owner` and `ttl` are redis' key, external: it is set
if nobody has it, extended and deleted for the pod whose name it holds, and runs out. A call acts at redis (`Extend`) and returns
(`Refreshed`, `TimesOut`, `RefreshFails`) in separate steps, so that it can time out after redis has extended the key.
Time is discrete; `Tick` waits for what is `Due`: goroutines are never late, and answers to `TryLock` take at most `MaxDelay`.
`LockConfig` has 6 s, 5 s, and `AutoRefresh` 300 ms and 3 retries; its `Timeout` of 200 ms is used by nothing. All that is
assumed of them is that the attempts of one tick end before the next (`LockAssumption`: 1.5 s against 5 s).
`Start(p, FALSE)` is the path on which `Apply` failed and `Run` goes on with a nil lock: the start signal is given and
`AutoRefresh` panics at its first tick, or the unlock does, when its context ends first. `Stop` only deletes the key: the goroutine then fails to
refresh and applies again. `Settle` ends the faults, for the liveness property.

### Pusher and SlideWindow

A call of `RateLimitPusher.Push` has the index `k`; its steps are the check of `Healthy`, the limiter's answer, and the push with its
count (`Accepted`, `Refused`) and the second reading of the counter (`Succeed`, `TryNext`, `Exceeded`), between which others count.
`markNotAvailable` is `Mark` and `Spawn`. `pinging` counts the recovery goroutines of a service at each of their counts; they are
interchangeable. A push that comes back with an error has not been taken, or has been taken by a service whose answer was too late
(`Refused`, both for `DeadlineExceeded` of failover.go:29); `taken` tells the two apart from a confirmed one, and `others` counts the failures
of other callers since the service took it. The limiter of `Pusher` answers anything. Left out: the contents of messages, the ticker's
period, and the metric.

In `SlideWindow` a request reads the clock (`Limit`) and redis runs the script up to `MaxLag` later (`Limited`,
`Admitted`), so that requests overtake each other. `zset` is a set of milliseconds, for the script adds the millisecond both as score and as member.
The key is dropped at `expires`, `PEXPIRE` of the last admission. The clocks of the pods agree; redis errors are answers of the limiter
in `Pusher` (`LetThrough`).

### Interceptor

`Switch` is the map of each pod, `request` the one that holds its mutex, `watcher` the goroutine of `watchCh`. `history` is what happened to
the one key in etcd, and a watch a position in it: etcd delivers it in order and without a gap from where the watch began.
`NewInterceptor` waits for the goroutine to start, but not for its subscription (`Subscribe`); what is put before that, or before the
pod started, is lost to it, and its switches are on. `Register` puts the key, and moves it to the lease of its pod; `ExpireLease` deletes it, and the
watchers get a zero event, which `Ignore` passes over. The handlers of the requests are commented out in web.go.

## 3. Runs

| Run | Instance | Shows |
|---|---|---|
| `faults` | etcd; a crash, a lost lease, a cancelled watch, a failed listing | types; a pod knows itself (`SelfInRing`) and, when it has caught up, all that are registered (`KnowsRegistered`); a share is outdated only after a dropped offer or an overlap (`StaleOnlyByDropOrOverlap`) |
| `contract` | a registry that reports departures, 2 pods, a crash and restart | `OneProducerPerType`, `ForgetsDeparted`, and, under fairness, `Converges` |
| `divided` | etcd, 2 pods that run, a third that may join, a task, a crash and restart of any | `DividedOnce`: no type of a task is produced twice, and one is left out only for a pod that was not asked, while the rings change; `AtMostOneProducer`: caught-up pods at rest have no type in common, though their rings keep departed pods |
| `tasks` | 2 tasks at once, pages of 2, tables of 3 rows and 1, a rebalance, a fault | `NoRowTwice`, `CompleteWhenDone`, `HopeIsSent` and, under fairness, `TasksEnd` |
| `delivery` | 2 pods, 1 partition, 3 messages, batches of up to 2, a crash, an expulsion, a failed join | `CommittedArePushed`, `PushedAgainOnlyByFault`, `PromiseKept` and, under fairness, `ServedToTheEnd` |
| `counter` | 2 pods, something counted, a reset, a crash and restart, a failed upload or a cancelled watch | `ClearedByResets`: a reset clears a pod at most twice and nothing else does; under fairness, `CountsSettle`: what `GetCount` shows settles on the counters; `ResetClears`: a reset clears every pod |
| `lock` | 2 pods, any number of time-outs, errors, crashes, cancellations and calls of `Stop` | `BoundedOverlap`: who acts without the key gives up in time; `NeverBlocked`; under fairness, `OneLeads` |
| `push` | 2 callers, 2 services, 3 messages, 2 failures of pushes and pings | `RecoveryUnderWay`, `RecoversByPings`, `TakenAgainByOthers` and, under fairness, `AllComeBack` |
| `rate` | 2 callers, 2 in a window of 4, scripts 1 late, more than two windows | `RateKept`, `LimitedWhenFull` |
| `switch` | 2 pods, 2 businesses, 3 requests, a crash, a failed put or a cancelled watch | `LastPutWins`, `OnUnlessPut` and, under fairness, `PodsAgree` |
| `departed`, `returned` | the smallest instance of each | what a comment says and the code does not do: see section 5 |

**Bounds.** Two pods are one that changes and one that sees it, and the second of the latter is
symmetric to the first. In `divided`, where a third pod moves types between two that have both been asked, the third only registers and
crashes; to stay small the run begins (`StartedInit`) where the two run and have heard of each other, with the second listings done or, once the
crash has been used up, still to come, and so the third may also be on the ring of one of them only. A fault of each kind is enough for
each to meet every step of the other actors, and the history variables are relative to the last start. Two types are
one that moves at a rebalance and one that does not. A table of three rows with pages of two has a full page, a
partial one and a last page that ends the table. Three messages with batches of two make a batch that
another follows; the expulsion and the crash meet in the middle of each. In `counter` each counter is cleared and published on its own, so
that one count, on either, meets every step of reset and upload; the expiry of a crashed pod's reset key is a second reset.
In `lock` nothing is counted: the faults go on until `Settle`, and the times (key 7, interval 4, time-out 1, one retry, answers 1 late) are
scaled so that the attempts of a tick outlast the key, as they do with the code's times, while a refresh that is answered comes in time (`InTime`).
The threshold of 0 in `push` makes every failure mark; two services and two attempts try each once, two pings
can be interrupted. In `rate` more than two windows pass, so that the key expires and what was let through is forgotten.
Three requests in `switch` are two that overlap and one after them. Counters are bounded in the guards
(`Max...`), never in a constraint.

**Deadlock** is checked in `counter`, where the uploads never stop, and in `lock`, where time does not. Elsewhere it is not: inputs and faults are
bounded and every pod comes to rest.

**Fairness.** Weak fairness of goroutines (the Go scheduler), of timers, of query and send
(they return, with a result or an error), of the upload's ticker, of the lease's expiry, of the restart of a pod (its Deployment) and of the
coordinator's rebalance; in `lock` of time, and of the goroutines, whose calls return; in `push` of the calls and of a ping that succeeds, which, since failures are bounded, is
a service that works again in the end; in `switch` of the requests' put and of the watcher. Fairness is never assumed of faults, firings, requests, producers of messages,
commits in mid-session, or of the second listing's failure. No run has strong fairness.

## 4. Proofs

For every set of pods and types, every ring function, table, page and batch size, every time of the lock, every rate and window, and number of
faults, from the named assumptions on constants alone:

| Theorem | States | Along |
|---|---|---|
| `ConsistentHashProofs!TypeCorrect` | `[]TypeOK` | |
| `…!ShareFollowsRing` | `[]StaleOnlyByDropOrOverlap` | `FreshInv`: while neither disturbance has happened, at most one goroutine is at work, and the share it holds, the forwarder holds or the producer has is that of the ring. The property speaks of rest only; what is in flight must be added for it to be inductive |
| `…!TypesAreDivided` | `[]OneProducerPerType` | from the above and `OwnerAssumption`: the owner is a function of the ring |
| `…!PodKnowsItself` | `[]SelfInRing` | `SelfInv`: nor is it missing in a ring that is built and not stored, and no delete of its own name is under way to it |
| `…!RegisteredAreKnown` | `[]KnowsRegistered` | `FollowInv`: while p's watch is open, the last event about a pod that p has not read says whether it is registered, and p's ring, or the one it is about to store, is right about every pod that no event is still to come of. Before its second listing p may have missed anything |
| `…!ProducersAreUnique` | `[]AtMostOneProducer` | from `RegisteredAreKnown` and `ShareFollowsRing`: both pods are on each other's rings, so that a type that each ring gave to its own pod would have two owners in the ring of both (`MonotoneAssumption`) |
| `…!TaskTypeCorrect`, `…!TaskIsDividedOnce` | `[]TaskTypeOK`; `[]DividedOnce`, if `~DeleteHasValue` | `DivisionInv`: while `steady`, every ring, built ring, hashed and offered share of a pod that waits comes from rings between the asked pods and `met`; so what it takes is at least its share of `met` and at most its share of `Asked`. A step of the composition is one of `ConsistentHash` or leaves its variables alone |
| `ProducerProofs!TypeCorrect` | `[]TypeOK` | with `Configured`, `Sending`: what is taken is a configuration |
| `…!RowsSentOnce`, `…!ReadersComplete` | `[]NoRowTwice`, `[]CompleteWhenDone` | `ReadInv`: a reader's cursor is past exactly the first `i` rows, all of which have been sent once; `NextRows` and `CursorPastPage` say what a page of an ordered table is |
| `…!HopedAreSent` | `[]HopeIsSent` | `HopeInv`, by the number of finished tasks: the messages of the one that finishes are as many as its types times `num` (`FinishedMessages`: by `ReadInv` each reader sent the first `num` rows of an ordered table) and none of them another's; `TypesRead`: a task sends nothing of a type that it has not got |
| `DeliveryProofs!TypeCorrect` | `[]TypeOK` | |
| `…!NothingPassedOver` | `[]CommittedArePushed` | `DeliveryInv`: a partition has one handler; what it has read is pushed or in its batch; what it has marked is pushed and not behind the commit, each counted from `start`. Of expelled pods only that their messages exist |
| `…!KeepsPromise` | `PromiseKept`, that is, `Delivery` implements the safety of `AtLeastOnce` | the same invariant; a step that flushes is an acknowledgement, a push a delivery |
| `…!AgainOnlyByFault` | `[]PushedAgainOnlyByFault` | `BudgetInv`: the pushes of a message so far, the expelled pods that have it in their batch or still to read, and one if the group may still come to it, are at most one more than the faults (`Late`, `ToCome`); `PlaceInv`: a member between two batches commits exactly what it has read |
| `CounterProofs!TypeCorrect` | `[]TypeOK` | |
| `…!OnlyResetsClear` | `[]ClearedByResets` | the property is inductive: it counts the clears to come, of events under way and of a key that is still to expire |
| `…!ResetLeavesZero` | when nothing was counted since a reset, a pod that has handled its events has both counts at zero | `ZeroInv`: between the two stores the first is zero, and a pod that is down comes up with zeros; the safety half of `ResetClears` |
| `LockControllerProofs!TypeCorrect`, `…!SignalsAreTaken`, `…!OverlapIsBounded` | `[]TypeOK`, `[]NeverBlocked`, `[]BoundedOverlap` | `LockInv`: what is left on the ticker says how many calls of a tick have timed out (`TimeInv`), hence how old a confirmation can be, that retries stay within their limit and that a tick never meets a full `retryCh` (`PlaceInv`); redis and the pod count from the same moment (`OwnerInv`) |
| `PusherProofs!TypeCorrect` | `[]TypeOK` | a call that has chosen a service has an attempt left |
| `…!RecoveryIsUnderWay` | `[]RecoveryUnderWay` | the property is inductive: the last goroutine of a service that ends sets it `Healthy` |
| `…!RecoversOnlyByPings` | `RecoversByPings` | `AloneInv`: a service out of use that was not marked twice has one goroutine, or one about to start, whose count is no more than the streak |
| `…!TakenAgainOnlyByOthers` | `[]TakenAgainByOthers` | `TakenInv`: after a confirmed push, the counter holds only failures of others since; after a late one nothing is said of it |
| `SlideWindowProofs!TypeCorrect`, `…!RateIsKept`, `…!OnlyFullLimits` | `[]TypeOK`, `[]RateKept`, `LimitedWhenFull` | `WindowInv`: what was let through and is no longer in redis is out of the window of the present time, whether a script or the expiry removed it, and what is in redis was let through |
| `InterceptorProofs!TypeCorrect` | `[]TypeOK` | `WatchInv`: a watch is within the history, and an event that waits for the mutex is a put |
| `…!LastPutIsKept`, `…!StaysOnUnlessPut` | `[]LastPutWins`, `[]OnUnlessPut` | `ReplayInv`: the map is what the history says at the watch's position, not only at its end |
| `…!CaughtUpAgree` | pods that have received everything agree on each business put since both watches began | from the above; the last put of a business is the same one for every watch that has seen a put of it (`OneLastPut`). The safety half of `PodsAgree` |

Each invariant was checked by TLC before it was proved. Every safety property that the passing runs check is proved, except
`ForgetsDeparted`: it needs a registry that reports departures, which etcd is not (`departed` shows it false there), and stays with the
`contract` run. Only model-checked is also liveness (`Converges`, `TasksEnd`, `ServedToTheEnd`, `CountsSettle`, `ResetClears`, `OneLeads`, `AllComeBack`,
`PodsAgree`), which is out of the prover's reach; of two of these (`ResetClears`, `PodsAgree`) a theorem states the safety half, that is, what holds at rest.

What the theorems suppose. `OwnerAssumption` of the ring (`HashRing`): the owner of a type is a member of a ring that is not empty, and a
function of the set alone; `MonotoneAssumption`: when the ring grows, a type stays with its owner or goes to a new member, which is what
makes hashing consistent. The library is not in the repository. `ProducerAssumption`: finitely many types, and a page size above 0.
`LockAssumption`: the attempts of one tick end before the next. The others only give bounds and sizes their types. `~DeleteHasValue`, that is, etcd, is a
hypothesis of one theorem, named in the table. `RowsSentOnce`, `ReadersComplete` and `HopedAreSent` speak of tables in the order of their
ids; elsewhere the paging query promises nothing.

## 5. Findings

Each of these is a run that TLC finds violated:

* `departed` — etcd's DELETE events carry no value, so departures never reach the watcher: a pod that is gone keeps its device types
  until the others restart.
* `returned` — `Consume` returns at the first rebalance, and the pod consumes nothing any more.

These are behaviours of the code that the models have and that the properties allow for:

* Two changes in quick succession: the second share may be dropped, and nothing offers it again (hash.go:108, `dropped`).
* The second listing, stored late, erases a pod that the watcher added meanwhile (hash.go:51, `overlapped`); one that fails
  empties the ring (hash.go:55, `listFailed`).
* Of two cron entries due at the same time one may find the forwarder busy and not be run (cron.go:40, `CronFires`). Cron tasks have
  no `Num` and send nothing (push.go:15).
* The reset key is deleted with the lease of the pod that put it, and that event clears the counters of the
  others as a request does (counter.go:42, the factor 2 of `ClearedByResets`).
* After an error of `TryLock` the pod signals that it has the lock, without it, until it panics (lock.go:128, `Start(p, FALSE)`). With
  the code's times a pod goes on acting after its key has expired for as long as its attempts last (`BoundedOverlap`).
* The limiter counts milliseconds, not requests: any number of requests of one millisecond are one (slide_window.lua:23), though the
  comment at redis_slide_window.go:18 speaks of the requests of an interval; and since scripts overtake each other the window that it keeps is
  shorter by the lag (`RateKept`).
* Until the group has committed an offset of a partition, each assignment begins at its end: a crash, an expulsion or a rebalance before
  the first commit passes over what was sent since the assignment before (kafka.go:11, `Begin`, `start`).
* A push that runs into its deadline may have been taken, and is sent again to the next service (failover.go:29, `Refused`).
* The failures in a row of a service outlive its recovery, so that one more marks it at once, and a push that succeeded
  can be repeated through the failures of others (failover.go:34, `TakenAgainByOthers`).
* A pod that starts late has every switch on (interceptor.go:30, `OnUnlessPut`).
* The hoped count is that of the request; messages carry no device type; the list of counts also holds
  the reset key.

## 6. Plan

Done: all modules of section 2, their runs, and the proofs of section 4. Left, in this order:

1. The loss of a running pod's lease in `Counter` and `Interceptor`, whose puts fail from then on; `ConsistentHash` has it. The
   invariants `ClearedByResets`, `ZeroInv` and `ReplayInv` have to be proved again with that action.
2. The safety halves of the remaining liveness properties: of `TasksEnd` (a reader that is not at its end can go on), of `ServedToTheEnd`
   and of `CountsSettle`.
3. A proof that `Interceptor` implements a register with one last put for each business, from `ReplayInv`.

Not modelled, and not planned: the retry strategy (a counter that nothing uses), `GracefulShutdown`, `UnRegister`, `Close` (nothing calls them), connections, metrics, logging,
ids, HTTP decoding, deployment scripts, and MySQL, etcd and Kafka themselves beyond what the
modules above mark as external.
