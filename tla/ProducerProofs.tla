--------------------------- MODULE ProducerProofs ---------------------------
(***************************************************************************)
(* Proofs about Producer, for every device table, page size, share and     *)
(* task, and every number of tasks, rebalances and faults.                 *)
(***************************************************************************)
EXTENDS Producer, FiniteSetTheorems, WellFoundedInduction, TLAPS

-----------------------------------------------------------------------------
(***************************************************************************)
(* Pages                                                                   *)
(***************************************************************************)

\* A set of row numbers has a greatest element.
LEMMA MaxRow ==
  ASSUME NEW N \in Nat, NEW S \in SUBSET (1..N), S # {}
  PROVE  Max(S) \in S /\ \A x \in S : Max(S) >= x
<1> DEFINE R == OpToRel(<, Nat)
           T == {N - x : x \in S}
<1>1. T \subseteq Nat /\ T # {}
  <2>1. \A x \in S : x \in 1..N /\ N - x \in Nat
    OBVIOUS
  <2>2. PICK x \in S : TRUE
    OBVIOUS
  <2>3. N - x \in T
    OBVIOUS
  <2> QED BY <2>1, <2>3
<1>2. PICK m \in T : \A y \in T : ~ (<<y, m>> \in R)
  BY <1>1, NatLessThanWellFounded, WFMin
<1>3. PICK x \in S : m = N - x
  BY <1>2
<1>4. \A y \in S : <<N - y, N - x>> \notin R
  BY <1>2, <1>3
<1>5. \A y \in S : ~(N - y < N - x)
  BY <1>1, <1>4 DEF OpToRel
<1>6. \A y \in S : x >= y
  BY <1>3, <1>5
<1> QED BY <1>3, <1>6 DEF Max

LEMMA TableType == \A t \in Types : /\ Len(Table[t]) \in Nat
                                    /\ \A j \in Rows(t) : Table[t][j] \in Nat
BY ProducerAssumption DEF Rows

\* The cursor that a page leaves is a natural number.
LEMMA AdvanceType ==
  ASSUME NEW t \in Types, NEW cursor \in Nat, NEW page \in SUBSET Rows(t)
  PROVE  Advance(t, cursor, page) \in Nat
BY MaxRow, TableType DEF Advance, Rows

\* Cursor c is past exactly the first k rows of type t.
Past(t, c, k) == \A j \in Rows(t) : Table[t][j] > c <=> j > k

\* In an ordered table the page after the first k rows is the next limit rows.
LEMMA NextRows ==
  ASSUME NEW t \in Types, NEW c \in Nat, NEW k \in Nat, NEW limit \in Nat, Past(t, c, k)
  PROVE  FindDevicesPage(t, c, limit) = {j \in Rows(t) : k < j /\ j <= k + limit}
<1>1. ASSUME NEW j \in Rows(t), Table[t][j] > c
      PROVE  Cardinality({x \in 1..(j - 1) : Table[t][x] > c}) = j - 1 - k
  <2>1. j \in Nat /\ k < j
    BY <1>1 DEF Past, Rows
  <2>2. \A x \in 1..(j - 1) : Table[t][x] > c <=> x > k
    BY TableType DEF Past, Rows
  <2> DEFINE before == {x \in 1..(j - 1) : Table[t][x] > c}
  <2>3. before = (k + 1)..(j - 1)
    BY <2>1, <2>2
  <2>4. Cardinality((k + 1)..(j - 1)) = IF k + 1 > j - 1 THEN 0 ELSE (j - 1) - (k + 1) + 1
    BY <2>1, FS_Interval
  <2>5. Cardinality((k + 1)..(j - 1)) = j - 1 - k
    BY <2>1, <2>4
  <2>6. Cardinality(before) = j - 1 - k
    BY <2>3, <2>5, Zenon
  <2> QED BY <2>6, Zenon
<1>2. \A j \in Rows(t) : j \in FindDevicesPage(t, c, limit) <=> k < j /\ j - 1 - k < limit
  BY <1>1 DEF FindDevicesPage, Past
<1>3. FindDevicesPage(t, c, limit) \subseteq Rows(t)
  BY DEF FindDevicesPage
<1> QED BY <1>2, <1>3 DEF Rows

\* ... and the cursor it leaves is past them.
LEMMA CursorPastPage ==
  ASSUME NEW t \in Types, Ordered(t), NEW c \in Nat, NEW k \in Nat, NEW limit \in Nat,
         Past(t, c, k)
  PROVE  Past(t, Advance(t, c, FindDevicesPage(t, c, limit)), k + limit)
<1> DEFINE page == FindDevicesPage(t, c, limit)
           n == Len(Table[t])
<1>1. page = {j \in Rows(t) : k < j /\ j <= k + limit}
  BY NextRows
<1>2. n \in Nat /\ Rows(t) = 1..n
  BY TableType DEF Rows
<1>3. CASE page = {}
  <2>1. \A j \in Rows(t) : j > k <=> j > k + limit
    BY <1>1, <1>2, <1>3
  <2> QED BY <1>3, <2>1 DEF Past, Advance
<1>4. CASE page # {}
  <2>1. Max(page) \in page /\ \A x \in page : Max(page) >= x
    BY <1>1, <1>2, <1>4, MaxRow
  <2> DEFINE m == Max(page)
  <2>2. m \in 1..n /\ k < m /\ m <= k + limit
    BY <1>1, <1>2, <2>1
  <2>3. ASSUME NEW j \in Rows(t) PROVE j > m <=> j > k + limit
    <3>1. j \in Nat /\ (j > k /\ j <= k + limit => j <= m)
      BY <1>1, <1>2, <2>1, <2>2
    <3> QED BY <2>2, <3>1
  <2>4. ASSUME NEW j \in Rows(t) PROVE Table[t][j] > Table[t][m] <=> j > m
    <3>1. m \in Rows(t) /\ j \in Nat /\ m \in Nat
      BY <1>2, <2>2
    <3>2. Table[t][j] \in Nat /\ Table[t][m] \in Nat
      BY <3>1, TableType
    <3>3. /\ j < m => Table[t][j] < Table[t][m]
          /\ m < j => Table[t][m] < Table[t][j]
      BY <3>1 DEF Ordered
    <3>4. j < m \/ j = m \/ m < j
      BY <3>1
    <3> HIDE DEF m
    <3> QED BY <3>1, <3>2, <3>3, <3>4
  <2>5. Advance(t, c, page) = Table[t][m]
    BY <1>4 DEF Advance
  <2> QED BY <2>3, <2>4, <2>5 DEF Past
<1> QED BY <1>3, <1>4

-----------------------------------------------------------------------------
(***************************************************************************)
(* Types                                                                   *)
(***************************************************************************)

LEMMA ConfigType ==
  /\ NoConfig \notin Config
  /\ CronConfigs \subseteq Config /\ ManualConfigs \subseteq Config
  /\ \A cfg \in Config : cfg.types \in SUBSET Types /\ cfg.num \in Int
BY ProducerAssumption DEF Config

LEMMA InitialRecords ==
  NoTask \in Task /\ NoReader \in Reader /\ Receiving \in Forwarder
BY DEF NoTask, NoReader, Receiving, Task, Reader, Forwarder

LEMMA TypeInit == Init => TypeOK
BY InitialRecords DEF Init, TypeOK, Forwarder, NoReader, Kinds

LEMMA SpawnType ==
  ASSUME task \in [TaskIds -> Task], NEW cfg \in Config, Spawn(cfg)
  PROVE  task' \in [TaskIds -> Task]
BY DEF Spawn, Task

\* A running task knows its configuration: only tasks not yet started lack one.
Configured == \A n \in TaskIds : task[n].at # "none" => task[n].cfg \in Config

\* What the forwarder is sending is a configuration.
Sending == forwarder.at = "send" => forwarder.cfg \in Config

TypeInv == TypeOK /\ Configured /\ Sending

LEMMA TypeInvInit == Init => TypeInv
BY TypeInit DEF Init, TypeInv, Configured, Sending, NoTask

\* A reader that becomes v leaves the types of all readers as they are.
LEMMA ReaderUpdate ==
  ASSUME TypeOK, NEW n \in TaskIds, NEW t \in Types,
         NEW v \in Reader, v.page \subseteq Rows(t), reader' = [reader EXCEPT ![n][t] = v]
  PROVE  /\ reader' \in [TaskIds -> [Types -> Reader]]
         /\ \A m \in TaskIds, u \in Types : reader'[m][u].page \subseteq Rows(u)
BY DEF TypeOK

LEMMA TypeInvNext == TypeInv /\ [Next]_vars => TypeInv'
<1> SUFFICES ASSUME TypeInv, [Next]_vars PROVE TypeInv'
  OBVIOUS
<1> USE DEF TypeInv, TypeOK, Configured, Sending, inputVars, shareVars, readVars
<1>1. CASE Rebalance
  BY <1>1 DEF Rebalance, Counted, Kinds
<1>2. CASE AssignShare
  BY <1>2 DEF AssignShare
<1>3. CASE Run
  BY <1>3, InitialRecords DEF Run, Receiving
<1>4. ASSUME NEW cfg \in CronConfigs, CronFires(cfg) PROVE TypeInv'
  <2>1. cfg \in Config /\ [at |-> "send", cfg |-> cfg] \in Forwarder
    BY ConfigType DEF Forwarder
  <2>2. CASE forwarder.at = "recv"
    BY <1>4, <2>1, <2>2 DEF CronFires, Counted, Kinds
  <2>3. CASE forwarder.at # "recv"
    BY <1>4, <2>1, <2>3 DEF CronFires, Counted, Kinds
  <2> QED BY <2>2, <2>3
<1>5. ASSUME NEW cfg \in ManualConfigs \cup {NoConfig}, ManualEvent(cfg) PROVE TypeInv'
  <2>1. Append(manual, cfg) \in Seq(Config \cup {NoConfig})
    BY ConfigType
  <2> QED BY <1>5, <2>1 DEF ManualEvent, Counted, Kinds
<1>6. CASE TakeCronTask
  <2>1. forwarder.cfg \in Config /\ Spawn(forwarder.cfg)
    BY <1>6 DEF TakeCronTask
  <2>2. task' \in [TaskIds -> Task]
    BY <2>1, SpawnType
  <2>3. Configured'
    BY <2>1 DEF Spawn, Task
  <2>4. forwarder' \in Forwarder /\ Sending'
    BY <1>6, InitialRecords DEF TakeCronTask, Receiving
  <2> QED BY <1>6, <2>2, <2>3, <2>4 DEF TakeCronTask
<1>7. CASE TakeManualTask
  <2>1. Tail(manual) \in Seq(Config \cup {NoConfig}) /\ Head(manual) \in Config \cup {NoConfig}
    BY <1>7 DEF TakeManualTask
  <2>2. CASE Head(manual) = NoConfig
    BY <1>7, <2>1, <2>2 DEF TakeManualTask
  <2>3. CASE Head(manual) # NoConfig
    <3>1. Head(manual) \in Config /\ Spawn(Head(manual))
      BY <1>7, <2>1, <2>3 DEF TakeManualTask
    <3>2. task' \in [TaskIds -> Task]
      BY <3>1, SpawnType
    <3>3. Configured'
      BY <3>1 DEF Spawn, Task
    <3> QED BY <1>7, <2>1, <3>2, <3>3 DEF TakeManualTask
  <2> QED BY <2>2, <2>3
<1>8. ASSUME NEW n \in TaskIds, StartTask(n) PROVE TypeInv'
  <2>1. task[n] \in Task /\ task[n].cfg \in Config
    BY <1>8 DEF StartTask
  <2>2. PICK types \in SUBSET Types :
          /\ task' = [task EXCEPT ![n].at = "reading", ![n].types = types]
          /\ reader' = [reader EXCEPT ![n] = [t \in Types |->
               IF t \notin types THEN NoReader
               ELSE [NoReader EXCEPT !.at =
                      IF task[n].cfg.num > 0 THEN "find" ELSE "done"]]]
    BY <1>8, <2>1, ConfigType DEF StartTask
  <2>3. task' \in [TaskIds -> Task] /\ Configured'
    BY <2>1, <2>2 DEF Task
  <2>4. ASSUME NEW at \in {"find", "done"} PROVE [NoReader EXCEPT !.at = at] \in Reader
    BY DEF NoReader, Reader
  <2>5. reader' \in [TaskIds -> [Types -> Reader]]
    BY <2>2, <2>4, InitialRecords
  <2>6. \A m \in TaskIds, t \in Types : reader'[m][t].page \subseteq Rows(t)
    BY <2>2 DEF NoReader
  <2> QED BY <1>8, <2>3, <2>5, <2>6 DEF StartTask
<1>9. ASSUME NEW n \in TaskIds, FinishTask(n) PROVE TypeInv'
  <2>1. task[n] \in Task /\ task[n].cfg \in Config
    BY <1>9 DEF FinishTask
  <2>2. PICK at \in {"failed", "done"} : task' = [task EXCEPT ![n].at = at]
    BY <1>9 DEF FinishTask
  <2>3. task' \in [TaskIds -> Task] /\ Configured'
    BY <2>1, <2>2 DEF Task
  <2>4. hope' \in Int
    <3>1. IsFiniteSet(task[n].types)
      BY <2>1, ProducerAssumption, FS_Subset DEF Task
    <3>2. Cardinality(task[n].types) \in Nat
      BY <3>1, FS_CardinalityType
    <3>3. Cardinality(task[n].types) * task[n].cfg.num \in Int
      BY <2>1, <3>2, ConfigType
    <3> QED BY <1>9, <3>3 DEF FinishTask
  <2> QED BY <1>9, <2>3, <2>4 DEF FinishTask
<1>10. ASSUME NEW n \in TaskIds, NEW t \in Types, FindPage(n, t) PROVE TypeInv'
  <2> DEFINE r == reader[n][t]
             page == FindDevicesPage(t, r.cursor, Limit(task[n].cfg.num, r.i))
             next == [r EXCEPT !.at = "send", !.cursor = Advance(t, r.cursor, page),
                               !.page = page]
  <2>1. r \in Reader /\ r.cursor \in Nat
    BY DEF Reader
  <2>2. page \in SUBSET Rows(t)
    BY DEF FindDevicesPage
  <2>3. Rows(t) \subseteq Nat
    BY TableType DEF Rows
  <2>4. Advance(t, r.cursor, page) \in Nat
    BY <2>1, <2>2, AdvanceType
  <2>5. reader' = [reader EXCEPT ![n][t] = next]
    BY <1>10 DEF FindPage
  <2> HIDE DEF page
  <2>6. next \in Reader /\ next.page = page
    BY <2>1, <2>2, <2>3, <2>4 DEF Reader
  <2> HIDE DEF next
  <2>7. /\ reader' \in [TaskIds -> [Types -> Reader]]
        /\ \A m \in TaskIds, u \in Types : reader'[m][u].page \subseteq Rows(u)
    BY <2>2, <2>5, <2>6, ReaderUpdate
  <2> QED BY <1>10, <2>7 DEF FindPage
<1>11. ASSUME NEW n \in TaskIds, NEW t \in Types, Accept(n, t) PROVE TypeInv'
  <2> DEFINE r == reader[n][t]
  <2>1. PICK j \in r.page : /\ sent' = [sent EXCEPT ![n][<<t, j>>] = @ + 1]
                            /\ reader' = [reader EXCEPT ![n][t].page = @ \ {j}]
    BY <1>11 DEF Accept
  <2> DEFINE next == [r EXCEPT !.page = r.page \ {j}]
  <2>2. next \in Reader /\ next.page \subseteq Rows(t)
    <3>1. r \in Reader /\ r.page \subseteq Rows(t)
      OBVIOUS
    <3> QED BY <3>1 DEF Reader
  <2>3. reader' = [reader EXCEPT ![n][t] = next]
    BY <2>1
  <2> HIDE DEF next
  <2>4. /\ reader' \in [TaskIds -> [Types -> Reader]]
        /\ \A m \in TaskIds, u \in Types : reader'[m][u].page \subseteq Rows(u)
    BY <2>2, <2>3, ReaderUpdate
  <2>5. <<t, j>> \in Devices
    BY DEF Devices
  <2>6. sent' \in [TaskIds -> [Devices -> Nat]]
    <3> DEFINE d == <<t, j>>
    <3>1. sent' = [sent EXCEPT ![n][d] = sent[n][d] + 1] /\ d \in Devices
      BY <2>1, <2>5
    <3> HIDE DEF d
    <3> QED BY <3>1
  <2> QED BY <1>11, <2>4, <2>6 DEF Accept
<1>12. ASSUME NEW n \in TaskIds, NEW t \in Types, PageSent(n, t) PROVE TypeInv'
  <2> DEFINE r == reader[n][t]
             i == r.i + BatchSize
             next == [r EXCEPT !.i = i,
                               !.at = IF i < task[n].cfg.num THEN "find" ELSE "done"]
  <2>1. i \in Nat /\ r \in Reader
    BY ProducerAssumption DEF Reader
  <2>2. reader' = [reader EXCEPT ![n][t] = next]
    BY <1>12 DEF PageSent
  <2>3. next \in Reader /\ next.page = r.page
    BY <2>1 DEF Reader
  <2> HIDE DEF next
  <2>4. /\ reader' \in [TaskIds -> [Types -> Reader]]
        /\ \A m \in TaskIds, u \in Types : reader'[m][u].page \subseteq Rows(u)
    BY <2>2, <2>3, ReaderUpdate
  <2> QED BY <1>12, <2>4 DEF PageSent
<1>13. ASSUME NEW n \in TaskIds, NEW t \in Types, ReadFails(n, t) PROVE TypeInv'
  <2> DEFINE r == reader[n][t]
             next == [r EXCEPT !.at = "failed", !.page = {}]
  <2>1. reader' = [reader EXCEPT ![n][t] = next]
    BY <1>13 DEF ReadFails
  <2>2. next \in Reader /\ next.page = {}
    <3>1. r \in Reader
      OBVIOUS
    <3> QED BY <3>1 DEF Reader
  <2> HIDE DEF next
  <2>3. /\ reader' \in [TaskIds -> [Types -> Reader]]
        /\ \A m \in TaskIds, u \in Types : reader'[m][u].page \subseteq Rows(u)
    BY <2>1, <2>2, ReaderUpdate
  <2> QED BY <1>13, <2>3 DEF ReadFails, Counted, Kinds
<1>14. CASE Crash
  <2>1. \A n \in TaskIds : [task[n] EXCEPT !.at = "lost"] \in Task
    BY DEF Task
  <2>2. task' \in [TaskIds -> Task]
    BY <1>14, <2>1, InitialRecords DEF Crash
  <2>3. Configured'
    BY <1>14, <2>1 DEF Crash, NoTask, Task
  <2>4. <<>> \in Seq(Config \cup {NoConfig})
    OBVIOUS
  <2>5. forwarder' \in Forwarder /\ Sending'
    BY <1>14 DEF Crash, Forwarder
  <2> QED BY <1>14, <2>2, <2>3, <2>4, <2>5 DEF Crash, Counted, Kinds
<1>15. CASE UNCHANGED vars
  BY <1>15 DEF vars
<1> QED
  BY <1>1, <1>2, <1>3, <1>4, <1>5, <1>6, <1>7, <1>8, <1>9, <1>10, <1>11, <1>12, <1>13,
     <1>14, <1>15
     DEF Next, Input, Loop, Step, Read

\* Every variable keeps its type in every behaviour: pages hold rows of the
\* table, cursors and counters stay in their ranges.
THEOREM TypeCorrect == Spec => []TypeOK
<1>1. TypeInv => TypeOK
  BY DEF TypeInv
<1> QED BY TypeInvInit, TypeInvNext, <1>1, PTL DEF Spec

-----------------------------------------------------------------------------
(***************************************************************************)
(* What a reader has sent                                                  *)
(*                                                                         *)
(* Before a page, a reader has sent the first i rows of its type and its   *)
(* cursor is past exactly those.  During a page, what it has sent and what *)
(* is left of the page are disjoint and are together the first rows up to  *)
(* the end of the page, which the cursor is already past.                  *)
(***************************************************************************)

\* Where the page being sent ends.
PageEnd(n, t) == reader[n][t].i + Limit(task[n].cfg.num, reader[n][t].i)

Unsent(n, t)  == \A j \in Rows(t) : sent[n][<<t, j>>] = 0
Once(n, t)    == \A j \in Rows(t) : sent[n][<<t, j>>] <= 1
Off(n, t)     == reader[n][t].at = "off" => Unsent(n, t)
Finding(n, t) == reader[n][t].at = "find" =>
                   /\ reader[n][t].i < task[n].cfg.num
                   /\ SentRows(n, t) = FirstRows(t, reader[n][t].i)
                   /\ Past(t, reader[n][t].cursor, reader[n][t].i)
Paging(n, t)  == reader[n][t].at = "send" =>
                   /\ reader[n][t].i < task[n].cfg.num
                   /\ reader[n][t].page \cap SentRows(n, t) = {}
                   /\ reader[n][t].page \cup SentRows(n, t) = FirstRows(t, PageEnd(n, t))
                   /\ Past(t, reader[n][t].cursor, PageEnd(n, t))
Done(n, t)    == reader[n][t].at = "done" =>
                   SentRows(n, t) = FirstRows(t, task[n].cfg.num)

ReaderOK(n, t) == Once(n, t) /\ Off(n, t) /\ Finding(n, t) /\ Paging(n, t) /\ Done(n, t)

\* A task that was not started has no reader.
Idle == \A n \in TaskIds : task[n].at \in {"none", "spawned"} =>
          \A t \in Types : reader[n][t].at = "off"

ReadersOK == \A n \in TaskIds, t \in Types : Ordered(t) => ReaderOK(n, t)

ReadInv == TypeInv /\ Idle /\ ReadersOK

LEMMA ReadInvInit == Init => ReadInv
<1> SUFFICES ASSUME Init PROVE ReadInv
  OBVIOUS
<1>1. TypeInv
  BY TypeInvInit
<1>2. Idle
  BY DEF Init, Idle, NoReader
<1>3. ASSUME NEW n \in TaskIds, NEW t \in Types PROVE ReaderOK(n, t)
  <2>1. reader[n][t].at = "off"
    BY DEF Init, NoReader
  <2>2. \A j \in Rows(t) : <<t, j>> \in Devices
    BY DEF Devices
  <2>3. Unsent(n, t)
    BY <2>2 DEF Init, Unsent
  <2> QED BY <2>1, <2>3 DEF ReaderOK, Once, Off, Finding, Paging, Done, Unsent
<1> QED BY <1>1, <1>2, <1>3 DEF ReadInv, ReadersOK

\* A step that touches neither a reader, nor what it has sent, nor the
\* configuration of its task keeps what holds of it.
LEMMA ReaderFrame ==
  ASSUME NEW n \in TaskIds, NEW t \in Types, ReaderOK(n, t),
         reader'[n][t] = reader[n][t],
         \A j \in Rows(t) : sent'[n][<<t, j>>] = sent[n][<<t, j>>],
         reader[n][t].at = "off" \/ task'[n].cfg = task[n].cfg
  PROVE  ReaderOK(n, t)'
<1>1. SentRows(n, t)' = SentRows(n, t)
  BY DEF SentRows
<1>2. Once(n, t)' /\ Off(n, t)'
  BY DEF ReaderOK, Once, Off, Unsent
<1>3. CASE reader[n][t].at = "off"
  BY <1>2, <1>3 DEF ReaderOK, Finding, Paging, Done
<1>4. CASE task'[n].cfg = task[n].cfg
  <2>1. PageEnd(n, t)' = PageEnd(n, t)
    BY <1>4 DEF PageEnd, Limit
  <2> QED BY <1>1, <1>2, <1>4, <2>1 DEF ReaderOK, Finding, Paging, Done
<1> QED BY <1>3, <1>4

LEMMA LimitType ==
  ASSUME NEW num \in Int, NEW i \in Nat, i < num
  PROVE  /\ Limit(num, i) \in Nat
         /\ i + BatchSize < num => Limit(num, i) = BatchSize
         /\ ~(i + BatchSize < num) => i + Limit(num, i) = num
BY ProducerAssumption DEF Limit

\* The readers that a task starts with.
NewReaders(n, types) == [t \in Types |->
  IF t \notin types THEN NoReader
  ELSE [NoReader EXCEPT !.at = IF task[n].cfg.num > 0 THEN "find" ELSE "done"]]

LEMMA StartUpdate ==
  ASSUME TypeInv, NEW n \in TaskIds, StartTask(n)
  PROVE  \E types \in SUBSET Types :
           /\ task' = [task EXCEPT ![n].at = "reading", ![n].types = types]
           /\ reader' = [reader EXCEPT ![n] = NewReaders(n, types)]
<1>1. task[n].cfg.types \in SUBSET Types
  BY ConfigType DEF StartTask, TypeInv, TypeOK, Configured
<1> QED BY <1>1 DEF StartTask, NewReaders

\* A new reader has sent nothing, and its cursor is before the first row.
LEMMA StartKeeps ==
  ASSUME ReadInv, NEW n \in TaskIds, StartTask(n), NEW t \in Types, Ordered(t)
  PROVE  ReaderOK(n, t)'
<1>1. task[n] \in Task /\ task[n].at = "spawned" /\ task[n].cfg \in Config
  BY DEF StartTask, ReadInv, TypeInv, TypeOK, Configured
<1>2. PICK types \in SUBSET Types :
        /\ task' = [task EXCEPT ![n].at = "reading", ![n].types = types]
        /\ reader' = [reader EXCEPT ![n] = NewReaders(n, types)]
  BY StartUpdate DEF ReadInv
<1>3. task'[n].cfg = task[n].cfg
  BY <1>1, <1>2 DEF ReadInv, TypeInv, TypeOK, Task
<1>4. reader[n][t].at = "off"
  BY <1>1 DEF ReadInv, Idle
<1>5. \A j \in Rows(t) : sent[n][<<t, j>>] = 0
  BY <1>4 DEF ReadInv, ReadersOK, ReaderOK, Off, Unsent
<1>6. SentRows(n, t)' = {} /\ Unsent(n, t)' /\ Once(n, t)'
  BY <1>5 DEF StartTask, SentRows, Unsent, Once
<1>7. /\ reader'[n][t].i = 0 /\ reader'[n][t].cursor = 0
      /\ reader'[n][t].at \in {"off", "find", "done"}
      /\ reader'[n][t].at = "find" => task[n].cfg.num > 0
      /\ reader'[n][t].at = "done" => ~(task[n].cfg.num > 0)
  BY <1>2 DEF ReadInv, TypeInv, TypeOK, NoReader, NewReaders
<1>8. task[n].cfg.num \in Int
  BY <1>1, ConfigType
<1>9. \A k \in Int : ~(k > 0) => FirstRows(t, k) = {}
  BY TableType DEF FirstRows, Rows
<1>10. Past(t, 0, 0)
  BY TableType DEF Past, Ordered, Rows
<1>11. Finding(n, t)'
  BY <1>3, <1>6, <1>7, <1>8, <1>9, <1>10 DEF Finding
<1>12. Done(n, t)'
  BY <1>3, <1>6, <1>7, <1>8, <1>9 DEF Done
<1>13. Paging(n, t)' /\ Off(n, t)'
  BY <1>6, <1>7 DEF Paging, Off
<1> QED BY <1>6, <1>11, <1>12, <1>13 DEF ReaderOK

\* The page found is the next rows, none of them sent yet.
LEMMA FindKeeps ==
  ASSUME ReadInv, NEW n \in TaskIds, NEW t \in Types, FindPage(n, t), Ordered(t)
  PROVE  ReaderOK(n, t)'
<1> DEFINE r == reader[n][t]
           limit == Limit(task[n].cfg.num, r.i)
           page == FindDevicesPage(t, r.cursor, limit)
           next == [r EXCEPT !.at = "send", !.cursor = Advance(t, r.cursor, page),
                             !.page = page]
<1>1. /\ r \in Reader /\ r.at = "find" /\ task[n].cfg \in Config
      /\ reader \in [TaskIds -> [Types -> Reader]]
  BY DEF FindPage, ReadInv, TypeInv, TypeOK, Configured
<1>2. r.i \in Nat /\ r.cursor \in Nat /\ task[n].cfg.num \in Int
  BY <1>1, ConfigType DEF Reader
<1>3. /\ r.i < task[n].cfg.num
      /\ SentRows(n, t) = FirstRows(t, r.i)
      /\ Past(t, r.cursor, r.i)
      /\ Once(n, t)
  BY <1>1 DEF ReadInv, ReadersOK, ReaderOK, Finding
<1>4. limit \in Nat
  BY <1>2, <1>3, LimitType
<1>5. page = {j \in Rows(t) : r.i < j /\ j <= r.i + limit}
  BY <1>2, <1>3, <1>4, NextRows
<1>6. Past(t, Advance(t, r.cursor, page), r.i + limit)
  BY <1>2, <1>3, <1>4, CursorPastPage
<1>7. reader' = [reader EXCEPT ![n][t] = next] /\ UNCHANGED <<sent, task>>
  BY DEF FindPage
<1> HIDE DEF page, limit
<1>8. /\ next.at = "send" /\ next.page = page /\ next.i = r.i
      /\ next.cursor = Advance(t, r.cursor, page)
  BY <1>1 DEF Reader
<1> HIDE DEF next
<1>9. reader'[n][t] = next
  BY <1>1, <1>7
<1>10. SentRows(n, t)' = SentRows(n, t) /\ Once(n, t)'
  BY <1>3, <1>7 DEF SentRows, Once
<1>11. PageEnd(n, t)' = r.i + limit
  BY <1>7, <1>8, <1>9 DEF PageEnd, limit, Limit
<1>12. page \cap FirstRows(t, r.i) = {}
  BY <1>2, <1>5, TableType DEF FirstRows, Rows
<1>13. page \cup FirstRows(t, r.i) = FirstRows(t, r.i + limit)
  BY <1>2, <1>4, <1>5, TableType DEF FirstRows, Rows
<1>14. Paging(n, t)'
  BY <1>3, <1>6, <1>7, <1>8, <1>9, <1>10, <1>11, <1>12, <1>13 DEF Paging
<1> QED BY <1>8, <1>9, <1>10, <1>14 DEF ReaderOK, Off, Finding, Done

\* A row of the page moves from the page to the rows sent.
LEMMA AcceptKeeps ==
  ASSUME ReadInv, NEW n \in TaskIds, NEW t \in Types, Accept(n, t), Ordered(t)
  PROVE  ReaderOK(n, t)'
<1> DEFINE r == reader[n][t]
<1>1. /\ r \in Reader /\ r.at = "send" /\ r.page \subseteq Rows(t)
      /\ reader \in [TaskIds -> [Types -> Reader]]
      /\ sent \in [TaskIds -> [Devices -> Nat]]
  BY DEF Accept, ReadInv, TypeInv, TypeOK
<1>2. PICK j \in r.page : /\ sent' = [sent EXCEPT ![n][<<t, j>>] = @ + 1]
                          /\ reader' = [reader EXCEPT ![n][t].page = @ \ {j}]
  BY DEF Accept
<1> DEFINE next == [r EXCEPT !.page = r.page \ {j}]
<1>3. reader' = [reader EXCEPT ![n][t] = next] /\ task' = task
  BY <1>2 DEF Accept
<1>4. /\ next.at = "send" /\ next.page = r.page \ {j} /\ next.i = r.i
      /\ next.cursor = r.cursor
  BY <1>1 DEF Reader
<1> HIDE DEF next
<1>5. reader'[n][t] = next
  BY <1>1, <1>3
<1>6. /\ r.i < task[n].cfg.num
      /\ r.page \cap SentRows(n, t) = {}
      /\ r.page \cup SentRows(n, t) = FirstRows(t, PageEnd(n, t))
      /\ Past(t, r.cursor, PageEnd(n, t))
      /\ Once(n, t)
  BY <1>1 DEF ReadInv, ReadersOK, ReaderOK, Paging
<1>7. j \in Rows(t) /\ \A k \in Rows(t) : <<t, k>> \in Devices
  BY <1>1 DEF Devices
<1>8. \A k \in Rows(t) : sent[n][<<t, k>>] \in Nat
  BY <1>1, <1>7
<1>9. sent[n][<<t, j>>] = 0
  BY <1>6, <1>7, <1>8 DEF SentRows
<1>10. \A k \in Rows(t) : sent'[n][<<t, k>>] = IF k = j THEN 1 ELSE sent[n][<<t, k>>]
  <2>1. \A k \in Rows(t) : <<t, k>> = <<t, j>> <=> k = j
    OBVIOUS
  <2> DEFINE d == <<t, j>>
  <2>2. sent' = [sent EXCEPT ![n][d] = sent[n][d] + 1] /\ d \in Devices /\ sent[n][d] = 0
    BY <1>2, <1>7, <1>9
  <2>3. ASSUME NEW e \in Devices PROVE sent'[n][e] = IF e = d THEN 1 ELSE sent[n][e]
    <3> HIDE DEF d
    <3> QED BY <1>1, <2>2
  <2> QED BY <1>7, <2>1, <2>3
<1>11. SentRows(n, t)' = SentRows(n, t) \cup {j}
  BY <1>7, <1>10 DEF SentRows
<1>12. Once(n, t)'
  BY <1>6, <1>10 DEF Once
<1>13. PageEnd(n, t)' = PageEnd(n, t)
  BY <1>3, <1>4, <1>5 DEF PageEnd, Limit
<1>14. Paging(n, t)'
  BY <1>3, <1>4, <1>5, <1>6, <1>11, <1>13 DEF Paging
<1> QED BY <1>4, <1>5, <1>12, <1>14 DEF ReaderOK, Off, Finding, Done

\* With the page sent, the reader has sent the rows up to the end of it: all
\* that were asked for, or as many as it has counted.
LEMMA PageSentKeeps ==
  ASSUME ReadInv, NEW n \in TaskIds, NEW t \in Types, PageSent(n, t), Ordered(t)
  PROVE  ReaderOK(n, t)'
<1> DEFINE r == reader[n][t]
           i == r.i + BatchSize
           next == [r EXCEPT !.i = i,
                             !.at = IF i < task[n].cfg.num THEN "find" ELSE "done"]
<1>1. /\ r \in Reader /\ r.at = "send" /\ r.page = {} /\ task[n].cfg \in Config
      /\ reader \in [TaskIds -> [Types -> Reader]]
  BY DEF PageSent, ReadInv, TypeInv, TypeOK, Configured
<1>2. r.i \in Nat /\ r.cursor \in Nat /\ task[n].cfg.num \in Int /\ i \in Nat
  BY <1>1, ConfigType, ProducerAssumption DEF Reader
<1>3. reader' = [reader EXCEPT ![n][t] = next] /\ UNCHANGED <<sent, task>>
  BY DEF PageSent
<1>4. /\ next.i = i /\ next.cursor = r.cursor
      /\ next.at = IF i < task[n].cfg.num THEN "find" ELSE "done"
  BY <1>1 DEF Reader
<1> HIDE DEF next
<1>5. reader'[n][t] = next
  BY <1>1, <1>3
<1>6. /\ r.i < task[n].cfg.num
      /\ SentRows(n, t) = FirstRows(t, PageEnd(n, t))
      /\ Past(t, r.cursor, PageEnd(n, t))
      /\ Once(n, t)
  BY <1>1 DEF ReadInv, ReadersOK, ReaderOK, Paging
<1>7. SentRows(n, t)' = SentRows(n, t) /\ Once(n, t)'
  BY <1>3, <1>6 DEF SentRows, Once
<1>8. /\ i < task[n].cfg.num => PageEnd(n, t) = i
      /\ ~(i < task[n].cfg.num) => PageEnd(n, t) = task[n].cfg.num
  BY <1>2, <1>6, LimitType DEF PageEnd
<1> HIDE DEF i
<1>9. Finding(n, t)'
  BY <1>3, <1>4, <1>5, <1>6, <1>7, <1>8 DEF Finding
<1>10. Done(n, t)'
  BY <1>3, <1>4, <1>5, <1>6, <1>7, <1>8 DEF Done
<1> QED BY <1>4, <1>5, <1>7, <1>9, <1>10 DEF ReaderOK, Off, Paging

\* An error ends a reader, whatever it has sent.
LEMMA FailKeeps ==
  ASSUME ReadInv, NEW n \in TaskIds, NEW t \in Types, ReadFails(n, t), Ordered(t)
  PROVE  ReaderOK(n, t)'
<1> DEFINE r == reader[n][t]
           next == [r EXCEPT !.at = "failed", !.page = {}]
<1>1. r \in Reader /\ reader \in [TaskIds -> [Types -> Reader]] /\ Once(n, t)
  BY DEF ReadInv, ReadersOK, ReaderOK, TypeInv, TypeOK
<1>2. reader' = [reader EXCEPT ![n][t] = next] /\ sent' = sent
  BY DEF ReadFails
<1>3. next.at = "failed"
  BY <1>1 DEF Reader
<1> HIDE DEF next
<1>4. reader'[n][t] = next
  BY <1>1, <1>2
<1> QED BY <1>1, <1>2, <1>3, <1>4 DEF ReaderOK, Once, Off, Finding, Paging, Done

\* A step on one reader leaves the others' rows and records alone.
LEMMA OthersUntouched ==
  ASSUME TypeOK, NEW n \in TaskIds, NEW t \in Types, Read(n, t) \/ ReadFails(n, t),
         NEW m \in TaskIds, NEW u \in Types, m # n \/ u # t
  PROVE  /\ reader'[m][u] = reader[m][u]
         /\ \A k \in Rows(u) : sent'[m][<<u, k>>] = sent[m][<<u, k>>]
<1>1. reader \in [TaskIds -> [Types -> Reader]] /\ sent \in [TaskIds -> [Devices -> Nat]]
  BY DEF TypeOK
<1>2. reader'[m][u] = reader[m][u]
  <2>1. PICK v : reader' = [reader EXCEPT ![n][t] = v]
    <3>1. CASE FindPage(n, t)
      BY <3>1 DEF FindPage
    <3>2. CASE Accept(n, t)
      BY <3>2 DEF Accept
    <3>3. CASE PageSent(n, t)
      BY <3>3 DEF PageSent
    <3>4. CASE ReadFails(n, t)
      BY <3>4 DEF ReadFails
    <3> QED BY <3>1, <3>2, <3>3, <3>4 DEF Read
  <2> QED BY <1>1, <2>1
<1>3. ASSUME NEW k \in Rows(u) PROVE sent'[m][<<u, k>>] = sent[m][<<u, k>>]
  <2>1. CASE Accept(n, t)
    <3>1. PICK j \in reader[n][t].page : sent' = [sent EXCEPT ![n][<<t, j>>] = @ + 1]
      BY <2>1 DEF Accept
    <3> DEFINE d == <<t, j>>
               e == <<u, k>>
    <3>2. e \in Devices /\ (m # n \/ e # d)
      BY DEF Devices
    <3>3. sent' = [sent EXCEPT ![n][d] = sent[n][d] + 1]
      BY <3>1
    <3> HIDE DEF d, e
    <3>4. sent'[m][e] = sent[m][e]
      BY <1>1, <3>2, <3>3
    <3> QED BY <3>4 DEF e
  <2>2. CASE ~ Accept(n, t)
    BY <2>2 DEF Read, FindPage, PageSent, ReadFails
  <2> QED BY <2>1, <2>2
<1> QED BY <1>2, <1>3

LEMMA OthersKeep ==
  ASSUME ReadInv, NEW n \in TaskIds, NEW t \in Types, Read(n, t) \/ ReadFails(n, t),
         NEW m \in TaskIds, NEW u \in Types, m # n \/ u # t, Ordered(u)
  PROVE  ReaderOK(m, u)'
<1>1. TypeOK /\ ReaderOK(m, u)
  BY DEF ReadInv, TypeInv, ReadersOK
<1>2. task' = task
  BY DEF Read, FindPage, Accept, PageSent, ReadFails
<1>3. /\ reader'[m][u] = reader[m][u]
      /\ \A k \in Rows(u) : sent'[m][<<u, k>>] = sent[m][<<u, k>>]
  BY <1>1, OthersUntouched
<1> QED BY <1>1, <1>2, <1>3, ReaderFrame

LEMMA ReadersOKNext == ReadInv /\ [Next]_vars => ReadersOK'
<1> SUFFICES ASSUME ReadInv, [Next]_vars, NEW m \in TaskIds, NEW u \in Types, Ordered(u)
             PROVE  ReaderOK(m, u)'
  BY DEF ReadersOK, Ordered
<1>1. ReaderOK(m, u)
  BY DEF ReadInv, ReadersOK
<1>2. task \in [TaskIds -> Task] /\ reader \in [TaskIds -> [Types -> Reader]]
  BY DEF ReadInv, TypeInv, TypeOK
<1>3. ASSUME UNCHANGED readVars, reader[m][u].at = "off" \/ task'[m].cfg = task[m].cfg
      PROVE  ReaderOK(m, u)'
  BY <1>1, <1>3, ReaderFrame DEF readVars
<1>4. ASSUME NEW cfg, Spawn(cfg), UNCHANGED readVars PROVE ReaderOK(m, u)'
  <2>1. CASE task[m].at = "none"
    BY <1>3, <1>4, <2>1 DEF ReadInv, Idle
  <2>2. CASE task[m].at # "none"
    BY <1>2, <1>3, <1>4, <2>2 DEF Spawn
  <2> QED BY <2>1, <2>2
<1>5. ASSUME Rebalance \/ AssignShare \/ Run \/ UNCHANGED vars PROVE ReaderOK(m, u)'
  BY <1>3, <1>5 DEF Rebalance, AssignShare, Run, vars, readVars
<1>6. ASSUME NEW cfg, CronFires(cfg) \/ ManualEvent(cfg) PROVE ReaderOK(m, u)'
  BY <1>3, <1>6 DEF CronFires, ManualEvent, readVars
<1>7. CASE TakeCronTask
  BY <1>4, <1>7 DEF TakeCronTask
<1>8. CASE TakeManualTask
  BY <1>3, <1>4, <1>8 DEF TakeManualTask, readVars
<1>9. ASSUME NEW n \in TaskIds, StartTask(n) PROVE ReaderOK(m, u)'
  <2>1. CASE n = m
    BY <1>9, <2>1, StartKeeps
  <2>2. CASE n # m
    <3>1. task'[m] = task[m] /\ reader'[m] = reader[m] /\ sent' = sent
      BY <1>2, <1>9, <2>2 DEF StartTask
    <3> QED BY <1>1, <3>1, ReaderFrame
  <2> QED BY <2>1, <2>2
<1>10. ASSUME NEW n \in TaskIds, FinishTask(n) PROVE ReaderOK(m, u)'
  <2>1. task'[m].cfg = task[m].cfg
    <3>1. PICK at : task' = [task EXCEPT ![n].at = at]
      BY <1>10 DEF FinishTask
    <3> QED BY <1>2, <3>1 DEF Task
  <2>2. UNCHANGED readVars
    BY <1>10 DEF FinishTask
  <2> QED BY <1>3, <2>1, <2>2
<1>11. ASSUME NEW n \in TaskIds, NEW t \in Types, Read(n, t) \/ ReadFails(n, t)
       PROVE  ReaderOK(m, u)'
  <2>1. CASE m = n /\ u = t
    BY <1>11, <2>1, FindKeeps, AcceptKeeps, PageSentKeeps, FailKeeps DEF Read
  <2>2. CASE m # n \/ u # t
    BY <1>11, <2>2, OthersKeep
  <2> QED BY <2>1, <2>2
<1>12. CASE Crash
  <2>1. CASE task[m].at = "none"
    BY <1>3, <1>12, <2>1 DEF Crash, ReadInv, Idle
  <2>2. CASE task[m].at # "none"
    <3>1. task'[m].cfg = task[m].cfg
      BY <1>2, <1>12, <2>2 DEF Crash, Task
    <3> QED BY <1>3, <1>12, <3>1 DEF Crash
  <2> QED BY <2>1, <2>2
<1> QED BY <1>5, <1>6, <1>7, <1>8, <1>9, <1>10, <1>11, <1>12
        DEF Next, Input, Loop, Step

LEMMA IdleNext == ReadInv /\ [Next]_vars => Idle'
<1> SUFFICES ASSUME ReadInv, [Next]_vars, NEW m \in TaskIds,
                    task'[m].at \in {"none", "spawned"}, NEW u \in Types
             PROVE  reader'[m][u].at = "off"
  BY DEF Idle
<1>1. task \in [TaskIds -> Task] /\ reader \in [TaskIds -> [Types -> Reader]]
  BY DEF ReadInv, TypeInv, TypeOK
<1>2. ASSUME task[m].at \in {"none", "spawned"}, reader'[m] = reader[m]
      PROVE  reader'[m][u].at = "off"
  BY <1>2 DEF ReadInv, Idle
<1>3. ASSUME NEW cfg, Spawn(cfg) PROVE task[m].at \in {"none", "spawned"}
  BY <1>1, <1>3 DEF Spawn
<1>4. CASE Rebalance \/ AssignShare \/ Run \/ UNCHANGED vars
  BY <1>2, <1>4 DEF Rebalance, AssignShare, Run, vars, readVars
<1>5. ASSUME NEW cfg, CronFires(cfg) \/ ManualEvent(cfg) PROVE reader'[m][u].at = "off"
  BY <1>2, <1>5 DEF CronFires, ManualEvent, readVars
<1>6. CASE Loop
  BY <1>2, <1>3, <1>6 DEF Loop, TakeCronTask, TakeManualTask, readVars
<1>7. ASSUME NEW n \in TaskIds, StartTask(n) PROVE reader'[m][u].at = "off"
  <2>1. CASE n = m
    BY <1>1, <1>7, <2>1 DEF StartTask, Task
  <2>2. CASE n # m
    BY <1>1, <1>2, <1>7, <2>2 DEF StartTask
  <2> QED BY <2>1, <2>2
<1>8. ASSUME NEW n \in TaskIds, FinishTask(n) PROVE reader'[m][u].at = "off"
  BY <1>1, <1>2, <1>8 DEF FinishTask, readVars, Task
<1>9. ASSUME NEW n \in TaskIds, NEW t \in Types, Read(n, t) \/ ReadFails(n, t)
      PROVE  reader'[m][u].at = "off"
  <2>1. task' = task /\ task[n].at = "reading"
    BY <1>9 DEF Read, FindPage, Accept, PageSent, ReadFails
  <2>2. m # n
    BY <2>1
  <2>3. reader'[m] = reader[m]
    BY <1>1, <1>9, <2>2 DEF Read, FindPage, Accept, PageSent, ReadFails
  <2> QED BY <1>2, <2>1, <2>3
<1>10. CASE Crash
  <2>1. task[m].at = "none"
    BY <1>1, <1>10 DEF Crash, Task
  <2> QED BY <1>2, <1>10, <2>1 DEF Crash, readVars
<1> QED BY <1>4, <1>5, <1>6, <1>7, <1>8, <1>9, <1>10 DEF Next, Input, Loop, Step

LEMMA ReadInvNext == ReadInv /\ [Next]_vars => ReadInv'
BY TypeInvNext, IdleNext, ReadersOKNext DEF ReadInv

LEMMA ReadInvAlways == Spec => []ReadInv
BY ReadInvInit, ReadInvNext, PTL DEF Spec

\* In a table whose rows are in the order of their ids, no task sends a device
\* twice: not at a page's edge, not after a page that failed half sent, and not
\* across a restart, whatever the page size and the number of devices asked for.
THEOREM RowsSentOnce == Spec => []NoRowTwice
<1>1. ReadInv => NoRowTwice
  BY DEF ReadInv, ReadersOK, ReaderOK, Once, NoRowTwice
<1> QED BY ReadInvAlways, <1>1, PTL

\* A reader that ends without an error has sent the first num devices of its
\* type, all of them when there are fewer, and nothing else.
THEOREM ReadersComplete == Spec => []CompleteWhenDone
<1>1. ReadInv => CompleteWhenDone
  BY DEF ReadInv, ReadersOK, ReaderOK, Done, CompleteWhenDone
<1> QED BY ReadInvAlways, <1>1, PTL

-----------------------------------------------------------------------------
(***************************************************************************)
(* The hoped count                                                         *)
(***************************************************************************)

\* A type that a task does not read has no messages of that task, whatever the
\* order of the table.
TypesRead == \A n \in TaskIds, t \in Types :
  /\ Off(n, t)
  /\ task[n].at \in {"reading", "done"} /\ t \notin task[n].types
       => reader[n][t].at = "off"

LEMMA TypesReadInit == Init => TypesRead
<1> SUFFICES ASSUME Init, NEW n \in TaskIds, NEW t \in Types
             PROVE  Off(n, t) /\ task[n].at \notin {"reading", "done"}
  BY DEF TypesRead
<1>1. \A j \in Rows(t) : <<t, j>> \in Devices
  BY DEF Devices
<1> QED BY <1>1 DEF Init, Off, Unsent, NoTask

LEMMA TypesReadNext == ReadInv /\ TypesRead /\ [Next]_vars => TypesRead'
<1> DEFINE Untouched(m, u) == /\ reader'[m][u] = reader[m][u]
                              /\ \A k \in Rows(u) : sent'[m][<<u, k>>] = sent[m][<<u, k>>]
           Old(m) == /\ task'[m].at \in {"reading", "done"} => task[m].at \in {"reading", "done"}
                     /\ task'[m].at \in {"reading", "done"} => task'[m].types = task[m].types
           Goal(m, u) == /\ Off(m, u)'
                         /\ task'[m].at \in {"reading", "done"} /\ u \notin task'[m].types
                              => reader'[m][u].at = "off"
<1> SUFFICES ASSUME ReadInv, TypesRead, [Next]_vars, NEW m \in TaskIds, NEW u \in Types
             PROVE  Goal(m, u)
  BY DEF TypesRead
<1>1. TypeOK /\ task \in [TaskIds -> Task] /\ reader \in [TaskIds -> [Types -> Reader]]
  BY DEF ReadInv, TypeInv, TypeOK
<1>2. ASSUME Untouched(m, u), Old(m) PROVE Goal(m, u)
  BY <1>2 DEF TypesRead, Off, Unsent
<1>3. ASSUME NEW cfg, Spawn(cfg), UNCHANGED readVars PROVE Goal(m, u)
  <2>1. Old(m)
    BY <1>1, <1>3 DEF Spawn, Task
  <2> QED BY <1>2, <1>3, <2>1 DEF readVars
<1>4. ASSUME Rebalance \/ AssignShare \/ Run \/ UNCHANGED vars PROVE Goal(m, u)
  BY <1>2, <1>4 DEF Rebalance, AssignShare, Run, vars, readVars
<1>5. ASSUME NEW cfg, CronFires(cfg) \/ ManualEvent(cfg) PROVE Goal(m, u)
  BY <1>2, <1>5 DEF CronFires, ManualEvent, readVars
<1>6. CASE Loop
  BY <1>2, <1>3, <1>6 DEF Loop, TakeCronTask, TakeManualTask, readVars
<1>7. ASSUME NEW n \in TaskIds, StartTask(n) PROVE Goal(m, u)
  <2>1. CASE n # m
    <3>1. task'[m] = task[m] /\ reader'[m] = reader[m] /\ sent' = sent
      BY <1>1, <1>7, <2>1 DEF StartTask
    <3> QED BY <1>2, <3>1
  <2>2. CASE n = m
    <3>1. task[m].at = "spawned" /\ sent' = sent
      BY <1>7, <2>2 DEF StartTask
    <3>2. reader[m][u].at = "off" /\ Unsent(m, u)
      BY <3>1 DEF ReadInv, Idle, TypesRead, Off
    <3>3. Unsent(m, u)'
      BY <3>1, <3>2 DEF Unsent
    <3>4. PICK types \in SUBSET Types :
            /\ task' = [task EXCEPT ![m].at = "reading", ![m].types = types]
            /\ reader' = [reader EXCEPT ![m] = NewReaders(m, types)]
      BY <1>7, <2>2, StartUpdate DEF ReadInv
    <3>5. task'[m].types = types
      BY <1>1, <3>4 DEF Task
    <3>6. u \notin types => reader'[m][u].at = "off"
      BY <1>1, <3>4 DEF NoReader, NewReaders
    <3> QED BY <3>3, <3>5, <3>6 DEF Off
  <2> QED BY <2>1, <2>2
<1>8. ASSUME NEW n \in TaskIds, FinishTask(n) PROVE Goal(m, u)
  <2>1. PICK at : task' = [task EXCEPT ![n].at = at]
    BY <1>8 DEF FinishTask
  <2>2. Old(m)
    BY <1>1, <1>8, <2>1 DEF FinishTask, Task
  <2> QED BY <1>2, <1>8, <2>2 DEF FinishTask, readVars
<1>9. ASSUME NEW n \in TaskIds, NEW t \in Types, Read(n, t) \/ ReadFails(n, t)
      PROVE  Goal(m, u)
  <2>1. task' = task /\ task[n].at = "reading" /\ reader[n][t].at # "off"
    BY <1>9 DEF Read, FindPage, Accept, PageSent, ReadFails
  <2>2. CASE m # n \/ u # t
    BY <1>1, <1>2, <1>9, <2>1, <2>2, OthersUntouched
  <2>3. CASE m = n /\ u = t
    <3>1. u \in task[m].types
      BY <2>1, <2>3 DEF TypesRead
    <3>2. reader'[m][u].at # "off"
      <4>1. CASE FindPage(n, t)
        BY <1>1, <2>3, <4>1 DEF FindPage, Reader
      <4>2. CASE Accept(n, t)
        BY <1>1, <2>3, <4>2 DEF Accept, Reader
      <4>3. CASE PageSent(n, t)
        BY <1>1, <2>3, <4>3 DEF PageSent, Reader
      <4>4. CASE ReadFails(n, t)
        BY <1>1, <2>3, <4>4 DEF ReadFails, Reader
      <4> QED BY <1>9, <4>1, <4>2, <4>3, <4>4 DEF Read
    <3> QED BY <2>1, <3>1, <3>2 DEF Off
  <2> QED BY <2>2, <2>3
<1>10. CASE Crash
  <2>1. task'[m].at \in {"none", "lost"}
    BY <1>1, <1>10 DEF Crash, Task, NoTask
  <2> QED BY <1>2, <1>10, <2>1 DEF Crash, readVars
<1> QED BY <1>4, <1>5, <1>6, <1>7, <1>8, <1>9, <1>10 DEF Next, Input, Step

LEMMA IntervalSize == \A k \in Nat : IsFiniteSet(1..k) /\ Cardinality(1..k) = k
<1>1. ASSUME NEW k \in Nat PROVE IsFiniteSet(1..k) /\ Cardinality(1..k) = k
  <2>1. Cardinality(1..k) = (IF 1 > k THEN 0 ELSE k - 1 + 1)
    BY FS_Interval
  <2> QED BY <2>1, FS_Interval
<1> QED BY <1>1

LEMMA DisjointUnion ==
  ASSUME NEW S, IsFiniteSet(S), NEW T, IsFiniteSet(T), S \cap T = {}
  PROVE  IsFiniteSet(S \cup T) /\ Cardinality(S \cup T) = Cardinality(S) + Cardinality(T)
<1>1. Cardinality(S \cap T) = 0
  BY FS_EmptySet
<1>2. Cardinality(S) \in Nat /\ Cardinality(T) \in Nat
  BY FS_CardinalityType
<1>3. Cardinality(S \cup T) = Cardinality(S) + Cardinality(T) - Cardinality(S \cap T)
  BY FS_Union
<1> QED BY <1>1, <1>2, <1>3, FS_Union

\* A task that finished, having found enough, has sent num messages per type.
LEMMA FinishedMessages ==
  ASSUME ReadInv, TypesRead, NEW n \in TaskIds, task[n].at = "reading",
         \A t \in task[n].types : reader[n][t].at = "done",
         \A t \in task[n].types : Ordered(t) /\ task[n].cfg.num \in 0..Len(Table[t])
  PROVE  LET New == {m \in {n} \X Devices : sent[n][m[2]] > 0}
         IN  /\ IsFiniteSet(New)
             /\ Cardinality(New) = Cardinality(task[n].types) * task[n].cfg.num
<1> DEFINE types == task[n].types
           num == task[n].cfg.num
           New == {m \in {n} \X Devices : sent[n][m[2]] > 0}
           Sent == types \X (1..num)
<1>1. types \in SUBSET Types /\ num \in Int
  BY ConfigType DEF ReadInv, TypeInv, TypeOK, Configured, Task
<1>2. ASSUME NEW t \in Types, NEW j \in Rows(t)
      PROVE  sent[n][<<t, j>>] > 0 <=> t \in types /\ j \in 1..num
  <2>1. CASE t \in types
    <3>1. Ordered(t) /\ num \in 0..Len(Table[t]) /\ SentRows(n, t) = FirstRows(t, num)
      BY <1>1, <2>1 DEF ReadInv, ReadersOK, ReaderOK, Done
    <3>2. j \in SentRows(n, t) <=> sent[n][<<t, j>>] > 0
      BY DEF SentRows
    <3>3. j \in FirstRows(t, num) <=> j \in 1..num
      BY <1>1, TableType DEF FirstRows, Rows
    <3> QED BY <2>1, <3>1, <3>2, <3>3
  <2>2. CASE t \notin types
    <3>1. sent[n][<<t, j>>] = 0
      BY <2>2 DEF TypesRead, Off, Unsent
    <3> QED BY <2>2, <3>1
  <2> QED BY <2>1, <2>2
<1>3. \A t \in types : 1..num \subseteq Rows(t)
  BY <1>1, TableType DEF Rows
<1>4. New = {n} \X Sent
  <2>1. ASSUME NEW m \in New PROVE m \in {n} \X Sent
    <3>1. PICK d \in Devices : m = <<n, d>>
      OBVIOUS
    <3>2. PICK t \in Types : d \in {t} \X Rows(t)
      BY DEF Devices
    <3>3. PICK j \in Rows(t) : m = <<n, <<t, j>>>>
      BY <3>1, <3>2
    <3>4. t \in types /\ j \in 1..num
      BY <1>2, <3>3
    <3> QED BY <3>3, <3>4
  <2>2. ASSUME NEW m \in {n} \X Sent PROVE m \in New
    <3>1. PICK t \in types, j \in 1..num : m = <<n, <<t, j>>>>
      OBVIOUS
    <3>2. t \in Types /\ j \in Rows(t) /\ <<t, j>> \in Devices
      BY <1>1, <1>3 DEF Devices
    <3>3. sent[n][<<t, j>>] > 0
      BY <1>2, <3>1, <3>2
    <3> QED BY <3>1, <3>2, <3>3
  <2> QED BY <2>1, <2>2
<1>5. IsFiniteSet(types)
  BY <1>1, ProducerAssumption, FS_Subset
<1>6. CASE types = {}
  <2>1. New = {} /\ Cardinality(types) = 0
    BY <1>4, <1>6, FS_EmptySet
  <2>2. Cardinality(types) * num = 0
    BY <1>1, <2>1
  <2> QED BY <2>1, <2>2, FS_EmptySet
<1>7. CASE types # {}
  <2>1. num \in Nat
    BY <1>1, <1>7, TableType
  <2>2. IsFiniteSet(1..num) /\ Cardinality(1..num) = num
    BY <2>1, IntervalSize
  <2>3. IsFiniteSet(Sent) /\ Cardinality(Sent) = Cardinality(types) * num
    BY <1>5, <2>2, FS_Product
  <2>4. IsFiniteSet({n}) /\ Cardinality({n}) = 1
    BY FS_Singleton
  <2>5. IsFiniteSet(New) /\ Cardinality(New) = 1 * Cardinality(Sent)
    BY <1>4, <2>3, <2>4, FS_Product
  <2>6. Cardinality(Sent) \in Nat
    BY <2>3, FS_CardinalityType
  <2> QED BY <2>3, <2>5, <2>6
<1> QED BY <1>6, <1>7

\* HopeIsSent counts what is sent, so it needs the sets to be finite as well.
HopeInv == FoundEnough =>
  IsFiniteSet(SentMessages) /\ hope = Cardinality(SentMessages)

LEMMA HopeInit == Init => HopeInv
<1> SUFFICES ASSUME Init PROVE HopeInv
  OBVIOUS
<1>1. SentMessages = {} /\ hope = 0
  BY DEF Init, SentMessages, Finished, NoTask
<1> QED BY <1>1, FS_EmptySet DEF HopeInv

\* What concerns no finished task leaves hoped and sent counts alone.
LEMMA HopeFrame ==
  ASSUME HopeInv, UNCHANGED hope,
         \A m \in TaskIds : task'[m].at = "done" <=> task[m].at = "done",
         \A m \in Finished : task'[m] = task[m] /\ \A d \in Devices : sent'[m][d] = sent[m][d]
  PROVE  HopeInv'
<1>1. Finished' = Finished
  BY DEF Finished
<1>2. FoundEnough' => FoundEnough
  <2>1. Table' = Table
    OBVIOUS
  <2> QED BY <1>1, <2>1 DEF FoundEnough, Ordered
<1>3. SentMessages' = SentMessages
  <2>1. ASSUME NEW m \in Finished \X Devices PROVE sent'[m[1]][m[2]] = sent[m[1]][m[2]]
    OBVIOUS
  <2> QED BY <1>1, <2>1 DEF SentMessages
<1> QED BY <1>2, <1>3 DEF HopeInv

\* The task that finishes adds its messages to those of the others.
LEMMA HopeFinish ==
  ASSUME ReadInv, TypesRead, HopeInv, NEW n \in TaskIds, FinishTask(n)
  PROVE  HopeInv'
<1>1. task \in [TaskIds -> Task] /\ hope \in Int
  BY DEF ReadInv, TypeInv, TypeOK
<1>2. task[n].at = "reading" /\ UNCHANGED sent
  BY DEF FinishTask, readVars
<1>3. CASE \E t \in task[n].types : reader[n][t].at = "failed"
  <2>1. task' = [task EXCEPT ![n].at = "failed"] /\ UNCHANGED hope
    BY <1>3 DEF FinishTask
  <2>2. \A m \in TaskIds : task'[m].at = "done" <=> task[m].at = "done"
    BY <1>1, <1>2, <2>1 DEF Task
  <2>3. \A m \in Finished : task'[m] = task[m]
    BY <1>1, <1>2, <2>1 DEF Finished
  <2> QED BY <1>2, <2>1, <2>2, <2>3, HopeFrame
<1>4. CASE ~ \E t \in task[n].types : reader[n][t].at = "failed"
  <2>1. /\ task' = [task EXCEPT ![n].at = "done"]
        /\ hope' = hope + Cardinality(task[n].types) * task[n].cfg.num
        /\ \A t \in task[n].types : reader[n][t].at = "done"
    BY <1>4 DEF FinishTask
  <2>2. /\ Finished' = Finished \cup {n} /\ n \notin Finished
        /\ \A m \in TaskIds : task'[m].types = task[m].types /\ task'[m].cfg = task[m].cfg
    BY <1>1, <1>2, <2>1 DEF Finished, Task
  <2>3. SUFFICES ASSUME FoundEnough'
                 PROVE  IsFiniteSet(SentMessages)' /\ hope' = Cardinality(SentMessages)'
    BY DEF HopeInv
  <2>4. FoundEnough
    BY <2>2, <2>3 DEF FoundEnough, Finished, Ordered
  <2>5. \A t \in task[n].types : Ordered(t) /\ task[n].cfg.num \in 0..Len(Table[t])
    BY <2>2, <2>3 DEF FoundEnough, Ordered
  <2> DEFINE New == {m \in {n} \X Devices : sent[n][m[2]] > 0}
             Old == SentMessages
  <2>6. IsFiniteSet(New) /\ Cardinality(New) = Cardinality(task[n].types) * task[n].cfg.num
    BY <1>2, <2>1, <2>5, FinishedMessages
  <2>7. IsFiniteSet(Old) /\ hope = Cardinality(Old)
    BY <2>4 DEF HopeInv
  <2>8. SentMessages' = Old \cup New
    BY <1>2, <2>2 DEF SentMessages
  <2>9. Old \cap New = {}
    BY <2>2 DEF SentMessages
  <2> HIDE DEF New, Old
  <2>10. IsFiniteSet(Old \cup New) /\ Cardinality(Old \cup New) = Cardinality(Old) + Cardinality(New)
    BY <2>6, <2>7, <2>9, DisjointUnion
  <2> QED BY <2>1, <2>6, <2>7, <2>8, <2>10
<1> QED BY <1>3, <1>4

LEMMA HopeNext == ReadInv /\ TypesRead /\ HopeInv /\ [Next]_vars => HopeInv'
<1> SUFFICES ASSUME ReadInv, TypesRead, HopeInv, [Next]_vars PROVE HopeInv'
  OBVIOUS
<1>1. /\ TypeOK /\ task \in [TaskIds -> Task]
      /\ sent \in [TaskIds -> [Devices -> Nat]]
  BY DEF ReadInv, TypeInv, TypeOK
<1>2. ASSUME UNCHANGED <<task, hope, sent>> PROVE HopeInv'
  BY <1>2, HopeFrame
<1>3. ASSUME NEW cfg, Spawn(cfg), UNCHANGED <<hope, sent>> PROVE HopeInv'
  <2>1. \A m \in TaskIds : task'[m].at = "done" <=> task[m].at = "done"
    BY <1>1, <1>3 DEF Spawn
  <2>2. \A m \in Finished : task'[m] = task[m]
    BY <1>1, <1>3 DEF Spawn, Finished
  <2> QED BY <1>3, <2>1, <2>2, HopeFrame
<1>4. ASSUME Rebalance \/ AssignShare \/ Run \/ UNCHANGED vars PROVE HopeInv'
  BY <1>2, <1>4 DEF Rebalance, AssignShare, Run, vars, readVars
<1>5. ASSUME NEW cfg, CronFires(cfg) \/ ManualEvent(cfg) PROVE HopeInv'
  BY <1>2, <1>5 DEF CronFires, ManualEvent, readVars
<1>6. CASE Loop
  BY <1>2, <1>3, <1>6 DEF Loop, TakeCronTask, TakeManualTask, readVars
<1>7. ASSUME NEW n \in TaskIds, StartTask(n) PROVE HopeInv'
  <2>1. task[n].at = "spawned" /\ UNCHANGED <<hope, sent>>
    BY <1>7 DEF StartTask
  <2>2. PICK types : task' = [task EXCEPT ![n].at = "reading", ![n].types = types]
    BY <1>7 DEF StartTask
  <2>3. \A m \in TaskIds : task'[m].at = "done" <=> task[m].at = "done"
    BY <1>1, <2>1, <2>2 DEF Task
  <2>4. \A m \in Finished : task'[m] = task[m]
    BY <1>1, <2>1, <2>2 DEF Finished
  <2> QED BY <2>1, <2>3, <2>4, HopeFrame
<1>8. ASSUME NEW n \in TaskIds, FinishTask(n) PROVE HopeInv'
  BY <1>8, HopeFinish
<1>9. ASSUME NEW n \in TaskIds, NEW t \in Types, Read(n, t) \/ ReadFails(n, t)
      PROVE  HopeInv'
  <2>1. UNCHANGED <<task, hope>> /\ task[n].at = "reading"
    BY <1>9 DEF Read, FindPage, Accept, PageSent, ReadFails
  <2>2. \A m \in TaskIds \ {n} : sent'[m] = sent[m]
    BY <1>1, <1>9 DEF Read, FindPage, Accept, PageSent, ReadFails
  <2>3. \A m \in Finished : m \in TaskIds \ {n}
    BY <2>1 DEF Finished
  <2> QED BY <2>1, <2>2, <2>3, HopeFrame
<1>10. CASE Crash
  <2>1. \A m \in TaskIds : task'[m].at # "done"
    BY <1>1, <1>10 DEF Crash, NoTask, Task
  <2>2. SentMessages' = {} /\ hope' = 0
    BY <1>10, <2>1 DEF Crash, SentMessages, Finished
  <2> QED BY <2>2, FS_EmptySet DEF HopeInv
<1> QED BY <1>4, <1>5, <1>6, <1>7, <1>8, <1>9, <1>10 DEF Next, Input, Step

\* While every finished task found the devices it asked for, the hoped count is
\* the number of messages that this process's finished tasks have sent,
\* whatever share each of them read and whatever other tasks failed half way.
THEOREM HopedAreSent == Spec => []HopeIsSent
<1>1. HopeInv => HopeIsSent
  BY DEF HopeInv, HopeIsSent
<1> QED
  BY ReadInvInit, ReadInvNext, TypesReadInit, TypesReadNext, HopeInit, HopeNext, <1>1, PTL
     DEF Spec

=============================================================================
