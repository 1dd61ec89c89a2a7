------------------------------ MODULE Producer ------------------------------
(***************************************************************************)
(* One pod's producer: what becomes of a push task.                        *)
(*                                                                         *)
(* Tasks come from the cron (internal/component/cron.go), through a send   *)
(* that gives up when the forwarding goroutine is busy, and from operators *)
(* (PushService.AddTask), as events of an etcd watch.  Each task runs in a *)
(* goroutine of its own (Producer.doTask): it takes the device types this  *)
(* pod is responsible for and reads each of them page by page, in parallel,*)
(* sending each page to Kafka (Producer.ReadAndSend, FindDevicesPage).     *)
(*                                                                         *)
(* Which types the pod is responsible for is ConsistentHash's business;    *)
(* here a new share may arrive at any time.  It is assigned without a lock *)
(* while tasks read it, so a task may see part of it.                      *)
(*                                                                         *)
(* Rows of the device table are numbered in the order the database returns *)
(* them; the order of messages within Kafka is left out.                   *)
(***************************************************************************)
EXTENDS Integers, Sequences, FiniteSetsExt

CONSTANTS
  Types,          \* device types
  Table,          \* Table[t]: the c_id of the devices of type t, in row order
  BatchSize,      \* rows of a page
  CronConfigs,    \* the push configurations of the cron entries
  ManualConfigs,  \* those that operators submit
  NoConfig,       \* a watch event without a configuration
  MaxTasks,       \* bounds on the inputs and faults of a behaviour
  MaxRebalances,
  MaxFaults

Config == [types : SUBSET Types, num : Int]

ASSUME ProducerAssumption ==
  /\ Table \in [Types -> Seq(Nat)]
  /\ IsFiniteSet(Types)
  /\ BatchSize \in Nat \ {0}
  /\ CronConfigs \cup ManualConfigs \subseteq Config
  /\ NoConfig \notin Config
  /\ {MaxTasks, MaxRebalances, MaxFaults} \subseteq Nat

Rows(t) == 1..Len(Table[t])
Devices == UNION {{t} \X Rows(t) : t \in Types}
TaskIds == 1..MaxTasks

VARIABLES
  share,      \* p.responsibleTypes
  incoming,   \* the share being assigned to it, or <<>> when none is
  forwarder,  \* the goroutine of Cron.Subscribe
  manual,     \* events of the watch of ManualTaskKey not yet received
  task,       \* the goroutines of doTask, in the order they were started
  reader,     \* their ReadAndSend calls, one per device type
  sent,       \* sent[n][<<t, j>>]: how often task n got row j of type t to Kafka
  hope,       \* counter.hopeCount
  count       \* how many inputs and faults of each kind there were

vars == <<share, incoming, forwarder, manual, task, reader, sent, hope, count>>
inputVars == <<forwarder, manual>>
shareVars == <<share, incoming>>
readVars  == <<reader, sent>>

Task   == [at : {"none", "spawned", "reading", "done", "failed", "lost"},
           cfg : Config \cup {NoConfig}, types : SUBSET Types]
Reader == [at : {"off", "find", "send", "done", "failed"},
           i : Nat, cursor : Nat, page : SUBSET Nat]
Forwarder == [at : {"none", "recv", "send"}, cfg : Config \cup {NoConfig}]
Kinds  == {"task", "rebalance", "fault"}

NoTask   == [at |-> "none", cfg |-> NoConfig, types |-> {}]
ReaderBelow == [at |-> "off", i |-> 0, cursor |-> -1, page |-> {}]  \* Mutant
NoReader == [at |-> "off", i |-> 0, cursor |-> 0, page |-> {}]
Receiving == [at |-> "recv", cfg |-> NoConfig]

TypeOK ==
  /\ share \in SUBSET Types
  /\ incoming \in {<<>>} \cup {<<K>> : K \in SUBSET Types}
  /\ forwarder \in Forwarder
  /\ manual \in Seq(Config \cup {NoConfig})
  /\ task \in [TaskIds -> Task]
  /\ reader \in [TaskIds -> [Types -> Reader]]
  /\ \A n \in TaskIds, t \in Types : reader[n][t].page \subseteq Rows(t)
  /\ sent \in [TaskIds -> [Devices -> Nat]]
  /\ hope \in Int
  /\ count \in [Kinds -> Nat]

\* NewProducer has taken the pod's first share; Run has not begun.
Init ==
  /\ share \in SUBSET Types
  /\ incoming = <<>>
  /\ forwarder = [at |-> "none", cfg |-> NoConfig]
  /\ manual = <<>>
  /\ task = [n \in TaskIds |-> NoTask]
  /\ reader = [n \in TaskIds |-> [t \in Types |-> NoReader]]
  /\ sent = [n \in TaskIds |-> [d \in Devices |-> 0]]
  /\ hope = 0
  /\ count = [k \in Kinds |-> 0]

Counted(kind, max) ==
  /\ count[kind] < max
  /\ count' = [count EXCEPT ![kind] = @ + 1]

-----------------------------------------------------------------------------
(***************************************************************************)
(* The share                                                               *)
(***************************************************************************)

\* watchResponsibleTypeCh receives a share and begins to assign it ...
Rebalance ==
  /\ forwarder.at # "none"
  /\ incoming = <<>>
  /\ Counted("rebalance", MaxRebalances)
  /\ \E keys \in SUBSET Types : incoming' = <<keys>>
  /\ UNCHANGED <<share, inputVars, task, readVars, hope>>

\* ... and has assigned it.
AssignShare ==
  /\ incoming # <<>>
  /\ share' = incoming[1]
  /\ incoming' = <<>>
  /\ UNCHANGED <<inputVars, task, readVars, hope, count>>

\* What a task reads of p.responsibleTypes: the share, or, while a new one is
\* being assigned, either of the two, or the array of the one cut at the
\* length of the other.
Cut(K, L) == {S \in SUBSET K : Cardinality(S) = Cardinality(L)}

SharesRead ==
  IF incoming = <<>> THEN {share}
  ELSE {share, incoming[1]} \cup Cut(share, incoming[1]) \cup Cut(incoming[1], share)

-----------------------------------------------------------------------------
(***************************************************************************)
(* Tasks                                                                   *)
(***************************************************************************)

\* Producer.Run: the forwarder of the cron and the watch of manual tasks.
Run ==
  /\ forwarder.at = "none"
  /\ forwarder' = Receiving
  /\ UNCHANGED <<shareVars, manual, task, readVars, hope, count>>

\* A cron entry fires: select { case produceChan <- config: default: }. When
\* the forwarder is not receiving the firing is lost.
CronFires(cfg) ==
  /\ Counted("task", MaxTasks)
  /\ forwarder' = IF forwarder.at = "recv" THEN [at |-> "send", cfg |-> cfg] ELSE forwarder
  /\ UNCHANGED <<shareVars, manual, task, readVars, hope>>

\* An event reaches the watch of ManualTaskKey: AddTask has put a task there,
\* or the lease of the pod that did so ran out, which deletes it.
ManualEvent(cfg) ==
  /\ forwarder.at # "none"
  /\ Counted("task", MaxTasks)
  /\ manual' = Append(manual, cfg)
  /\ UNCHANGED <<shareVars, forwarder, task, readVars, hope>>

\* go p.doTask(ctx, cfg)
Spawn(cfg) ==
  \E n \in TaskIds :
    /\ task[n].at = "none"
    /\ \A m \in 1..(n - 1) : task[m].at # "none"
    /\ task' = [task EXCEPT ![n] = [at |-> "spawned", cfg |-> cfg, types |-> {}]]

\* watchTaskCh receives from the forwarder ...
TakeCronTask ==
  /\ forwarder.at = "send"
  /\ Spawn(forwarder.cfg)
  /\ forwarder' = Receiving
  /\ UNCHANGED <<shareVars, manual, readVars, hope, count>>

\* ... or from the watch.  An event without a task does not unmarshal.
TakeManualTask ==
  /\ manual # <<>>
  /\ manual' = Tail(manual)
  /\ IF Head(manual) = NoConfig THEN UNCHANGED task ELSE Spawn(Head(manual))
  /\ UNCHANGED <<shareVars, forwarder, readVars, hope, count>>

\* doTask: the types of the task that the pod is responsible for, and a
\* reader for each of them.
StartTask(n) ==
  /\ task[n].at = "spawned"
  /\ \E keys \in SharesRead :
       LET types == keys \cap task[n].cfg.types IN
       /\ task' = [task EXCEPT ![n].at = "reading", ![n].types = types]
       /\ reader' = [reader EXCEPT ![n] = [t \in Types |->
            IF t \notin types THEN NoReader
            ELSE [NoReader EXCEPT !.at = IF task[n].cfg.num > 0 THEN "find" ELSE "done"]]]
  /\ UNCHANGED <<shareVars, inputVars, sent, hope, count>>

\* Mutant: hopes for every type of the task, not only this pod's.
FinishTaskAllTypes(n) ==
  /\ task[n].at = "reading"
  /\ \A t \in task[n].types : reader[n][t].at \in {"done", "failed"}
  /\ IF \E t \in task[n].types : reader[n][t].at = "failed"
     THEN /\ task' = [task EXCEPT ![n].at = "failed"]
          /\ UNCHANGED hope
     ELSE /\ task' = [task EXCEPT ![n].at = "done"]
          /\ hope' = hope + Cardinality(task[n].cfg.types) * task[n].cfg.num
  /\ UNCHANGED <<shareVars, inputVars, readVars, count>>

\* doTask: eg.Wait returns.  The hoped count is that of the configuration.
FinishTask(n) ==
  /\ task[n].at = "reading"
  /\ \A t \in task[n].types : reader[n][t].at \in {"done", "failed"}
  /\ IF \E t \in task[n].types : reader[n][t].at = "failed"
     THEN /\ task' = [task EXCEPT ![n].at = "failed"]
          /\ UNCHANGED hope
     ELSE /\ task' = [task EXCEPT ![n].at = "done"]
          /\ hope' = hope + Cardinality(task[n].types) * task[n].cfg.num
  /\ UNCHANGED <<shareVars, inputVars, readVars, count>>

-----------------------------------------------------------------------------
(***************************************************************************)
(* ReadAndSend                                                             *)
(***************************************************************************)

\* Mutant: c_id >= cursor.
FindDevicesPageFrom(t, cursor, limit) ==
  {j \in Rows(t) :
     /\ Table[t][j] >= cursor
     /\ Cardinality({k \in 1..(j - 1) : Table[t][k] >= cursor}) < limit}

\* SELECT c_id WHERE type = t AND c_id > cursor LIMIT limit: there is no
\* ORDER BY, so these are the first rows that satisfy the condition.
FindDevicesPage(t, cursor, limit) ==
  {j \in Rows(t) :
     /\ Table[t][j] > cursor
     /\ Cardinality({k \in 1..(j - 1) : Table[t][k] > cursor}) < limit}

\* cursor.Set(res[len(res)-1].CID)
Advance(t, cursor, page) == IF page = {} THEN cursor ELSE Table[t][Max(page)]

Limit(num, i) == IF num - i < BatchSize THEN num - i ELSE BatchSize

FindPage(n, t) ==
  /\ task[n].at = "reading"
  /\ reader[n][t].at = "find"
  /\ LET r    == reader[n][t]
         page == FindDevicesPage(t, r.cursor, Limit(task[n].cfg.num, r.i))
     IN reader' = [reader EXCEPT ![n][t] =
          [r EXCEPT !.at = "send", !.cursor = Advance(t, r.cursor, page), !.page = page]]
  /\ UNCHANGED <<shareVars, inputVars, task, sent, hope, count>>

\* SendMessages hands the page to the client library, and Kafka accepts its
\* messages one by one; the page holds those it has not accepted.
Accept(n, t) ==
  /\ task[n].at = "reading"
  /\ reader[n][t].at = "send"
  /\ \E j \in reader[n][t].page :
       /\ sent' = [sent EXCEPT ![n][<<t, j>>] = @ + 1]
       /\ reader' = [reader EXCEPT ![n][t].page = @ \ {j}]
  /\ UNCHANGED <<shareVars, inputVars, task, hope, count>>

\* Mutant: a last page that is not full is not read.
PageSentFull(n, t) ==
  /\ task[n].at = "reading"
  /\ reader[n][t].at = "send"
  /\ reader[n][t].page = {}
  /\ LET next == reader[n][t].i + BatchSize
     IN reader' = [reader EXCEPT ![n][t] = [@ EXCEPT !.i = next,
                      !.at = IF next + BatchSize <= task[n].cfg.num
                             THEN "find" ELSE "done"]]
  /\ UNCHANGED <<shareVars, inputVars, task, sent, hope, count>>

\* Mutant: counts the devices found, of which there may be none any more.
PageSentFound(n, t) ==
  /\ task[n].at = "reading"
  /\ reader[n][t].at = "send"
  /\ reader[n][t].page = {}
  /\ LET next == Cardinality({j \in Rows(t) : sent[n][<<t, j>>] > 0})
     IN reader' = [reader EXCEPT ![n][t] = [@ EXCEPT !.i = next,
                      !.at = IF next < task[n].cfg.num THEN "find" ELSE "done"]]
  /\ UNCHANGED <<shareVars, inputVars, task, sent, hope, count>>

\* SendMessages returns nil once it accepted all of them.  i += batchSize
PageSent(n, t) ==
  /\ task[n].at = "reading"
  /\ reader[n][t].at = "send"
  /\ reader[n][t].page = {}
  /\ LET next == reader[n][t].i + BatchSize
     IN reader' = [reader EXCEPT ![n][t] = [@ EXCEPT !.i = next,
                      !.at = IF next < task[n].cfg.num THEN "find" ELSE "done"]]
  /\ UNCHANGED <<shareVars, inputVars, task, sent, hope, count>>

\* The query fails, or SendMessages returns an error, having sent a part of
\* the page.  ReadAndSend gives up; nothing is tried again.
ReadFails(n, t) ==
  /\ task[n].at = "reading"
  /\ reader[n][t].at \in {"find", "send"}
  /\ Counted("fault", MaxFaults)
  /\ reader' = [reader EXCEPT ![n][t] = [@ EXCEPT !.at = "failed", !.page = {}]]
  /\ UNCHANGED <<shareVars, inputVars, task, sent, hope>>

\* The process ends and comes back.  What Kafka has accepted stays; nothing
\* else is kept, and no task is resumed.
Crash ==
  /\ Counted("fault", MaxFaults)
  /\ share' \in SUBSET Types
  /\ incoming' = <<>>
  /\ forwarder' = [at |-> "none", cfg |-> NoConfig]
  /\ manual' = <<>>
  /\ task' = [n \in TaskIds |->
                IF task[n].at = "none" THEN NoTask ELSE [task[n] EXCEPT !.at = "lost"]]
  /\ hope' = 0
  /\ UNCHANGED <<readVars>>

-----------------------------------------------------------------------------
Input == \/ \E cfg \in CronConfigs : CronFires(cfg)
         \/ \E cfg \in ManualConfigs \cup {NoConfig} : ManualEvent(cfg)
         \/ Rebalance
Loop  == TakeCronTask \/ TakeManualTask
Read(n, t) == FindPage(n, t) \/ Accept(n, t) \/ PageSent(n, t)
Step(n) == StartTask(n) \/ FinishTask(n) \/ \E t \in Types : Read(n, t)

Next == \/ Input \/ Run \/ AssignShare \/ Loop \/ Crash
        \/ \E n \in TaskIds : Step(n) \/ \E t \in Types : ReadFails(n, t)

Spec == Init /\ [][Next]_vars

\* The loop is scheduled, and of every task some goroutine; queries and sends
\* return.
Fairness == WF_vars(Run) /\ WF_vars(Loop) /\ \A n \in TaskIds : WF_vars(Step(n))

FairSpec == Spec /\ Fairness

-----------------------------------------------------------------------------
(***************************************************************************)
(* Properties                                                              *)
(***************************************************************************)

\* The rows of type t are in the order of their c_id, as when the ids come
\* from one snowflake generator; cursor paging relies on it.
Ordered(t) ==
  /\ \A j \in Rows(t) : Table[t][j] > 0
  /\ \A j, k \in Rows(t) : j < k => Table[t][j] < Table[t][k]

SentRows(n, t) == {j \in Rows(t) : sent[n][<<t, j>>] > 0}
FirstRows(t, k) == {j \in Rows(t) : j <= k}

\* A task sends no device twice, through page boundaries, failed queries,
\* partly sent pages and restarts.
NoRowTwice == \A n \in TaskIds, t \in Types :
  Ordered(t) => \A j \in Rows(t) : sent[n][<<t, j>>] <= 1

\* A reader that ended without an error has sent exactly the first num
\* devices of its type, or all of them when there are fewer.
CompleteWhenDone == \A n \in TaskIds, t \in Types :
  Ordered(t) /\ reader[n][t].at = "done" =>
    SentRows(n, t) = FirstRows(t, task[n].cfg.num)

\* As long as every finished task found the devices it asked for, in tables in
\* the order of their ids, the hoped count is the number of messages that the
\* finished tasks of this process have sent: what tasks that failed half way, or
\* that are still running, have sent is not hoped for, and a share read while it
\* changes does not make it differ.
Finished == {n \in TaskIds : task[n].at = "done"}
SentMessages == {m \in Finished \X Devices : sent[m[1]][m[2]] > 0}

FoundEnough == \A n \in Finished : \A t \in task[n].types :
  Ordered(t) /\ task[n].cfg.num \in 0..Len(Table[t])

HopeIsSent == FoundEnough => hope = Cardinality(SentMessages)

\* Once the inputs stop, every task that was taken from the cron or from the
\* watch has ended: no reader waits for another one or for its task.
Ended == {"none", "done", "failed", "lost"}
TasksEnd == <>[](/\ manual = <<>> /\ forwarder.at = "recv"
                 /\ \A n \in TaskIds : task[n].at \in Ended)

=============================================================================
