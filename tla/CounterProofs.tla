---------------------------- MODULE CounterProofs ----------------------------
(***************************************************************************)
(* Proofs about Counter, for any pods and bounds.                          *)
(***************************************************************************)
EXTENDS Counter, TLAPS

Counts == [lease : {"none", "live", "orphan"}, pair : Pair]
ResetKeys == {NoReset} \cup [lease : {"live", "orphan"}, pod : Pods]
EventSeqs == Seq({"put", "delete"})

-----------------------------------------------------------------------------
(***************************************************************************)
(* Types                                                                   *)
(***************************************************************************)
LEMMA TypeInit == Init => TypeOK
<1> SUFFICES ASSUME Init PROVE TypeOK
  OBVIOUS
<1>1. uploader \in [Pods -> Uploader] /\ counts \in [Pods -> Counts]
  BY DEF Init, Uploader, Pair, Zero, Count, Counts
<1>2. events \in [Pods -> EventSeqs]
  BY DEF Init, EventSeqs
<1>3. /\ hopeCount \in [Pods -> Int] /\ pushedCount \in [Pods -> Nat] /\ clears \in [Pods -> Nat]
      /\ happened \in [Kinds -> Nat]
  BY DEF Init
<1>4. /\ resetter \in [Pods -> {"off", "recv", "half"}]
      /\ watch \in [Pods -> {"none", "open", "cancelled"}]
      /\ resetKey \in ResetKeys
  BY DEF Init, ResetKeys
<1>5. quiet \in BOOLEAN
  BY DEF Init
<1> QED BY <1>1, <1>2, <1>3, <1>4, <1>5 DEF TypeOK, Counts, EventSeqs, ResetKeys

LEMMA HappensType ==
  ASSUME TypeOK, NEW kind \in Kinds, NEW max, Happens(kind, max)
  PROVE  happened' \in [Kinds -> Nat] /\ happened'[kind] = happened[kind] + 1
         /\ \A k \in Kinds : k # kind => happened'[k] = happened[k]
BY DEF TypeOK, Happens

\* A watch gets one event more, or none.
LEMMA PublishType ==
  ASSUME TypeOK, NEW type \in {"put", "delete"}, Publish(type)
  PROVE  /\ events' \in [Pods -> EventSeqs]
         /\ \A p \in Pods : Len(events'[p]) <= Len(events[p]) + 1
<1>1. \A p \in Pods : events[p] \in EventSeqs
  BY DEF TypeOK, EventSeqs
<1>2. \A p \in Pods : events'[p] = IF watch[p] = "open" THEN Append(events[p], type) ELSE events[p]
  BY DEF Publish
<1>3. \A s \in EventSeqs : /\ Append(s, type) \in EventSeqs /\ Len(s) \in Nat
                           /\ Len(Append(s, type)) = Len(s) + 1
  BY DEF EventSeqs
<1>4. \A p \in Pods : events'[p] \in EventSeqs /\ Len(events'[p]) <= Len(events[p]) + 1
  <2> TAKE p \in Pods
  <2>1. CASE watch[p] = "open"
    <3>1. events'[p] = Append(events[p], type)
      BY <1>2, <2>1
    <3>2. events[p] \in EventSeqs
      BY <1>1
    <3> QED BY <1>3, <3>1, <3>2
  <2>2. CASE watch[p] # "open"
    <3>1. events'[p] = events[p]
      BY <1>2, <2>2
    <3>2. events[p] \in EventSeqs /\ Len(events[p]) \in Nat
      BY <1>1, <1>3
    <3> QED BY <3>1, <3>2
  <2> QED BY <2>1, <2>2
<1>5. events' = [p \in Pods |-> IF watch[p] = "open" THEN Append(events[p], type) ELSE events[p]]
  BY DEF Publish
<1>6. events' \in [Pods -> EventSeqs]
  BY <1>4, <1>5
<1> QED BY <1>4, <1>6

LEMMA UploaderType ==
  ASSUME TypeOK, NEW p \in Pods, NEW at \in {"off", "tick", "half", "put"}, NEW h \in Int, NEW n \in Nat,
         uploader' = [uploader EXCEPT ![p] = [at |-> at, pair |-> [hope |-> h, pushed |-> n]]]
  PROVE  uploader' \in [Pods -> Uploader]
BY DEF TypeOK, Uploader, Pair

LEMMA PairType ==
  ASSUME TypeOK, NEW p \in Pods
  PROVE  /\ uploader[p].pair.hope \in Int /\ uploader[p].pair \in Pair
         /\ hopeCount[p] \in Int /\ pushedCount[p] \in Nat
BY DEF TypeOK, Uploader, Pair

LEMMA TypeNext == TypeOK /\ [Next]_vars => TypeOK'
<1> SUFFICES ASSUME TypeOK, [Next]_vars PROVE TypeOK'
  OBVIOUS
<1> USE DEF podVars, etcdVars
<1>1. ASSUME NEW p \in Pods, Run(p) PROVE TypeOK'
  <2>1. uploader' \in [Pods -> Uploader]
    BY <1>1 DEF Run, TypeOK, Uploader
  <2>2. resetter' \in [Pods -> {"off", "recv", "half"}] /\ watch' \in [Pods -> {"none", "open", "cancelled"}]
    BY <1>1 DEF Run, TypeOK
  <2> QED BY <1>1, <2>1, <2>2 DEF Run, TypeOK
<1>2. ASSUME NEW p \in Pods, Crash(p) PROVE TypeOK'
  <2>1. happened' \in [Kinds -> Nat]
    BY <1>2, HappensType DEF Crash, Kinds
  <2>2. uploader' \in [Pods -> Uploader]
    <3>1. uploader' = [uploader EXCEPT ![p] = [at |-> "off", pair |-> [hope |-> 0, pushed |-> 0]]]
      BY <1>2 DEF Crash, Zero
    <3>2. 0 \in Int /\ 0 \in Nat /\ "off" \in {"off", "tick", "half", "put"}
      OBVIOUS
    <3> QED BY <3>1, <3>2, UploaderType
  <2>3. counts' \in [Pods -> Counts]
    <3>1. counts \in [Pods -> Counts] /\ counts[p] \in Counts
      BY DEF TypeOK, Counts
    <3>2. Orphaned(counts[p].lease) \in {"none", "live", "orphan"}
      BY <3>1 DEF Counts, Orphaned
    <3>3. [counts[p] EXCEPT !.lease = Orphaned(counts[p].lease)] \in Counts
      BY <3>1, <3>2 DEF Counts
    <3>4. counts' = [counts EXCEPT ![p] = [counts[p] EXCEPT !.lease = Orphaned(counts[p].lease)]]
      BY <1>2 DEF Crash
    <3> QED BY <3>1, <3>3, <3>4
  <2>4. events' \in [Pods -> EventSeqs]
    BY <1>2 DEF Crash, TypeOK, EventSeqs
  <2>5. resetKey' \in ResetKeys
    <3>1. CASE resetKey.pod = p
      <4>1. resetKey # NoReset
        BY <3>1, CounterAssumption DEF NoReset
      <4> QED BY <1>2, <3>1, <4>1 DEF Crash, TypeOK, ResetKeys
    <3>2. CASE resetKey.pod # p
      BY <1>2, <3>2 DEF Crash, TypeOK, ResetKeys
    <3> QED BY <3>1, <3>2
  <2>6. hopeCount' \in [Pods -> Int] /\ pushedCount' \in [Pods -> Nat]
    BY <1>2 DEF Crash, TypeOK
  <2>7. resetter' \in [Pods -> {"off", "recv", "half"}] /\ watch' \in [Pods -> {"none", "open", "cancelled"}]
    BY <1>2 DEF Crash, TypeOK
  <2> QED BY <1>2, <2>1, <2>2, <2>3, <2>4, <2>5, <2>6, <2>7 DEF Crash, TypeOK, Counts, EventSeqs, ResetKeys
<1>3. ASSUME NEW p \in Pods, ExpireLease(p) PROVE TypeOK'
  <2>1. counts' \in [Pods -> Counts]
    BY <1>3 DEF ExpireLease, TypeOK, Counts, Count, Pair, Zero
  <2>2. events' \in [Pods -> EventSeqs] /\ resetKey' \in ResetKeys
    BY <1>3, PublishType DEF ExpireLease, TypeOK, EventSeqs, ResetKeys
  <2> QED BY <1>3, <2>1, <2>2 DEF ExpireLease, TypeOK, Counts, EventSeqs, ResetKeys
<1>4. ASSUME NEW p \in Pods, CancelWatch(p) PROVE TypeOK'
  <2>1. happened' \in [Kinds -> Nat]
    BY <1>4, HappensType DEF CancelWatch, Kinds
  <2> QED BY <1>4, <2>1 DEF CancelWatch, TypeOK
<1>5. ASSUME NEW p \in Pods, AddHopeCount(p) PROVE TypeOK'
  <2>1. happened' \in [Kinds -> Nat]
    BY <1>5, HappensType DEF AddHopeCount, Kinds
  <2>2. hopeCount' \in [Pods -> Int]
    BY <1>5, CounterAssumption DEF AddHopeCount, TypeOK
  <2> QED BY <1>5, <2>1, <2>2 DEF AddHopeCount, TypeOK
<1>6. ASSUME NEW p \in Pods, IncrPushedCount(p) PROVE TypeOK'
  <2>1. happened' \in [Kinds -> Nat]
    BY <1>6, HappensType DEF IncrPushedCount, Kinds
  <2>2. pushedCount' \in [Pods -> Nat]
    BY <1>6 DEF IncrPushedCount, TypeOK
  <2> QED BY <1>6, <2>1, <2>2 DEF IncrPushedCount, TypeOK
<1>7. ASSUME NEW p \in Pods, ResetCounter(p) PROVE TypeOK'
  <2>1. happened' \in [Kinds -> Nat]
    BY <1>7, HappensType DEF ResetCounter, Kinds
  <2>2. events' \in [Pods -> EventSeqs]
    BY <1>7, PublishType DEF ResetCounter
  <2>3. resetKey' \in ResetKeys
    BY <1>7 DEF ResetCounter, ResetKeys
  <2> QED BY <1>7, <2>1, <2>2, <2>3 DEF ResetCounter, TypeOK, EventSeqs, ResetKeys
<1>8. ASSUME NEW p \in Pods, ClearHope(p) PROVE TypeOK'
  <2>1. events' \in [Pods -> EventSeqs]
    <3>1. events[p] \in EventSeqs /\ events[p] # <<>>
      BY <1>8 DEF ClearHope, TypeOK, EventSeqs
    <3>2. Tail(events[p]) \in EventSeqs
      BY <3>1 DEF EventSeqs
    <3> QED BY <1>8, <3>2 DEF ClearHope, TypeOK, EventSeqs
  <2>2. hopeCount' \in [Pods -> Int] /\ clears' \in [Pods -> Nat]
    BY <1>8 DEF ClearHope, TypeOK
  <2>3. resetter' \in [Pods -> {"off", "recv", "half"}]
    BY <1>8 DEF ClearHope, TypeOK
  <2> QED BY <1>8, <2>1, <2>2, <2>3 DEF ClearHope, TypeOK, EventSeqs
<1>9. ASSUME NEW p \in Pods, ClearPushed(p) PROVE TypeOK'
  <2>1. resetter' \in [Pods -> {"off", "recv", "half"}]
    BY <1>9 DEF ClearPushed, TypeOK
  <2>2. pushedCount' \in [Pods -> Nat]
    BY <1>9 DEF ClearPushed, TypeOK
  <2> QED BY <1>9, <2>1, <2>2 DEF ClearPushed, TypeOK
<1>10. ASSUME NEW p \in Pods, ReadHope(p) PROVE TypeOK'
  <2>1. uploader' \in [Pods -> Uploader]
    BY <1>10, UploaderType, PairType DEF ReadHope
  <2> QED BY <1>10, <2>1 DEF ReadHope, TypeOK
<1>11. ASSUME NEW p \in Pods, ReadPushed(p) PROVE TypeOK'
  <2>1. uploader' \in [Pods -> Uploader]
    BY <1>11, UploaderType, PairType DEF ReadPushed
  <2> QED BY <1>11, <2>1 DEF ReadPushed, TypeOK
<1>12. ASSUME NEW p \in Pods, Put(p) PROVE TypeOK'
  <2>1. uploader' \in [Pods -> Uploader]
    <3>1. uploader' = [uploader EXCEPT ![p] = [at |-> "tick", pair |-> [hope |-> 0, pushed |-> 0]]]
      BY <1>12 DEF Put, Zero
    <3>2. 0 \in Int /\ 0 \in Nat /\ "tick" \in {"off", "tick", "half", "put"}
      OBVIOUS
    <3> QED BY <3>1, <3>2, UploaderType
  <2>2. counts' \in [Pods -> Counts]
    BY <1>12, PairType DEF Put, TypeOK, Counts, Count
  <2> QED BY <1>12, <2>1, <2>2 DEF Put, TypeOK, Counts
<1>13. ASSUME NEW p \in Pods, PutFails(p) PROVE TypeOK'
  <2>1. happened' \in [Kinds -> Nat]
    BY <1>13, HappensType DEF PutFails, Kinds
  <2>2. uploader' \in [Pods -> Uploader]
    <3>1. uploader' = [uploader EXCEPT ![p] = [at |-> "tick", pair |-> [hope |-> 0, pushed |-> 0]]]
      BY <1>13 DEF PutFails, Zero
    <3>2. 0 \in Int /\ 0 \in Nat /\ "tick" \in {"off", "tick", "half", "put"}
      OBVIOUS
    <3> QED BY <3>1, <3>2, UploaderType
  <2> QED BY <1>13, <2>1, <2>2 DEF PutFails, TypeOK
<1>14. CASE UNCHANGED vars
  BY <1>14 DEF vars, TypeOK
<1> QED BY <1>1, <1>2, <1>3, <1>4, <1>5, <1>6, <1>7, <1>8, <1>9, <1>10, <1>11, <1>12, <1>13, <1>14
        DEF Next, ListenReset, Upload

\* Every variable keeps its type.
THEOREM TypeCorrect == Spec => []TypeOK
BY TypeInit, TypeNext, PTL DEF Spec

-----------------------------------------------------------------------------
(***************************************************************************)
(* Resets                                                                  *)
(***************************************************************************)

\* A reset that is in etcd has an event to come, its deletion.
Pending == IF resetKey = NoReset THEN 0 ELSE 1

LEMMA Numbers ==
  ASSUME TypeOK, NEW p \in Pods
  PROVE  clears[p] \in Nat /\ Len(events[p]) \in Nat /\ happened["reset"] \in Nat /\ Pending \in 0..1
<1>1. events[p] \in EventSeqs
  BY DEF TypeOK, EventSeqs
<1>2. Len(events[p]) \in Nat
  BY <1>1 DEF EventSeqs
<1>3. clears[p] \in Nat /\ happened["reset"] \in Nat
  BY DEF TypeOK, Kinds
<1> QED BY <1>2, <1>3 DEF Pending

LEMMA CrashSum ==
  ASSUME NEW c \in Nat, NEW l \in Nat, NEW m \in Nat, NEW b \in 0..1, NEW d \in 0..1, NEW h \in Nat,
         c + l + b <= 2 * h, m <= l, d <= b
  PROVE  c + m + d <= 2 * h
OBVIOUS

LEMMA ResetSum ==
  ASSUME NEW c \in Nat, NEW l \in Nat, NEW m \in Nat, NEW b \in 0..1, NEW d \in 0..1, NEW h \in Nat,
         c + l + b <= 2 * h, m <= l + 1
  PROVE  c + m + d <= 2 * (h + 1)
OBVIOUS

LEMMA ResetsInit == Init => ClearedByResets
<1> SUFFICES ASSUME Init, NEW p \in Pods
             PROVE  clears[p] + Len(events[p]) + (IF resetKey = NoReset THEN 0 ELSE 1) <= 2 * happened["reset"]
  BY DEF ClearedByResets
<1>1. clears[p] = 0 /\ events[p] = <<>> /\ resetKey = NoReset
  BY DEF Init
<1>2. happened["reset"] = 0
  BY DEF Init, Kinds
<1>3. Len(events[p]) = 0
  BY <1>1
<1> QED BY <1>1, <1>2, <1>3

LEMMA ResetsNext == TypeOK /\ ClearedByResets /\ [Next]_vars => ClearedByResets'
<1> SUFFICES ASSUME TypeOK, ClearedByResets, [Next]_vars, NEW q \in Pods
             PROVE  clears'[q] + Len(events'[q]) + Pending' <= 2 * happened'["reset"]
  BY DEF ClearedByResets, Pending
<1>0. clears[q] + Len(events[q]) + Pending <= 2 * happened["reset"]
  BY DEF ClearedByResets, Pending
<1>n. /\ clears[q] \in Nat /\ Len(events[q]) \in Nat /\ happened["reset"] \in Nat
      /\ Pending \in 0..1
  BY Numbers
<1> USE DEF podVars, etcdVars
<1>1. ASSUME clears' = clears, events' = events, resetKey' = resetKey,
             happened'["reset"] = happened["reset"]
      PROVE  clears'[q] + Len(events'[q]) + Pending' <= 2 * happened'["reset"]
  BY <1>0, <1>1 DEF Pending
<1>2. ASSUME NEW p \in Pods, Crash(p)
      PROVE  clears'[q] + Len(events'[q]) + Pending' <= 2 * happened'["reset"]
  <2>1. happened'["reset"] = happened["reset"] /\ clears' = clears
    BY <1>2, HappensType DEF Crash, Kinds
  <2>2. Pending' <= Pending /\ Pending' \in 0..1
    <3>1. CASE resetKey = NoReset
      <4>1. resetKey' = resetKey
        BY <1>2, <3>1, CounterAssumption DEF Crash, NoReset
      <4> QED BY <3>1, <4>1 DEF Pending
    <3>2. CASE resetKey # NoReset
      BY <3>2 DEF Pending
    <3> QED BY <3>1, <3>2
  <2>3. Len(events'[q]) <= Len(events[q]) /\ Len(events'[q]) \in Nat
    <3>1. CASE p = q
      <4>1. events'[q] = <<>>
        BY <1>2, <3>1 DEF Crash, TypeOK
      <4> QED BY <1>n, <4>1
    <3>2. CASE p # q
      <4>1. events'[q] = events[q]
        BY <1>2, <3>2 DEF Crash, TypeOK
      <4> QED BY <1>n, <4>1
    <3> QED BY <3>1, <3>2
  <2>4. clears'[q] = clears[q]
    BY <2>1
  <2>5. clears[q] + Len(events'[q]) + Pending' <= 2 * happened["reset"]
    BY <1>0, <1>n, <2>2, <2>3, CrashSum
  <2> QED BY <2>1, <2>4, <2>5
<1>3. ASSUME NEW p \in Pods, ExpireLease(p)
      PROVE  clears'[q] + Len(events'[q]) + Pending' <= 2 * happened'["reset"]
  <2>1. happened' = happened /\ clears' = clears
    BY <1>3 DEF ExpireLease
  <2>2. CASE resetKey = [lease |-> "orphan", pod |-> p]
    <3>1. resetKey' = NoReset /\ Publish("delete") /\ resetKey # NoReset
      BY <1>3, <2>2 DEF ExpireLease, NoReset
    <3>2. Pending' = 0 /\ Pending = 1
      BY <3>1 DEF Pending
    <3>3. Len(events'[q]) <= Len(events[q]) + 1 /\ events'[q] \in EventSeqs
      BY <3>1, PublishType
    <3>4. Len(events'[q]) \in Nat
      BY <3>3 DEF EventSeqs
    <3> QED BY <1>0, <1>n, <2>1, <3>2, <3>3, <3>4
  <2>3. CASE resetKey # [lease |-> "orphan", pod |-> p]
    BY <1>1, <1>3, <2>1, <2>3 DEF ExpireLease
  <2> QED BY <2>2, <2>3
<1>4. ASSUME NEW p \in Pods, ResetCounter(p)
      PROVE  clears'[q] + Len(events'[q]) + Pending' <= 2 * happened'["reset"]
  <2>1. happened'["reset"] = happened["reset"] + 1 /\ clears' = clears
    BY <1>4, HappensType DEF ResetCounter, Kinds
  <2>2. Pending' \in 0..1
    BY DEF Pending
  <2>3. Len(events'[q]) <= Len(events[q]) + 1 /\ events'[q] \in EventSeqs
    BY <1>4, PublishType DEF ResetCounter
  <2>4. Len(events'[q]) \in Nat
    BY <2>3 DEF EventSeqs
  <2>5. clears'[q] = clears[q]
    BY <2>1
  <2>6. clears[q] + Len(events'[q]) + Pending' <= 2 * (happened["reset"] + 1)
    BY <1>0, <1>n, <2>2, <2>3, <2>4, ResetSum
  <2> QED BY <2>1, <2>5, <2>6
<1>5. ASSUME NEW p \in Pods, ClearHope(p)
      PROVE  clears'[q] + Len(events'[q]) + Pending' <= 2 * happened'["reset"]
  <2>1. happened' = happened /\ Pending' = Pending
    BY <1>5 DEF ClearHope, Pending
  <2>2. CASE p = q
    <3>1. clears'[q] = clears[q] + 1 /\ events'[q] = Tail(events[q]) /\ events[q] # <<>>
      BY <1>5, <2>2 DEF ClearHope, TypeOK
    <3>2. events[q] \in EventSeqs
      BY DEF TypeOK, EventSeqs
    <3>3. Len(events'[q]) = Len(events[q]) - 1
      BY <3>1, <3>2 DEF EventSeqs
    <3> QED BY <1>0, <1>n, <2>1, <3>1, <3>3
  <2>3. CASE p # q
    <3>1. clears'[q] = clears[q] /\ events'[q] = events[q]
      BY <1>5, <2>3 DEF ClearHope, TypeOK
    <3> QED BY <1>0, <2>1, <3>1
  <2> QED BY <2>2, <2>3
<1>6. ASSUME NEW p \in Pods, CancelWatch(p) \/ AddHopeCount(p) \/ IncrPushedCount(p) \/ PutFails(p)
      PROVE  clears'[q] + Len(events'[q]) + Pending' <= 2 * happened'["reset"]
  <2>1. happened'["reset"] = happened["reset"]
    BY <1>6, HappensType DEF CancelWatch, AddHopeCount, IncrPushedCount, PutFails, Kinds
  <2> QED BY <1>1, <1>6, <2>1 DEF CancelWatch, AddHopeCount, IncrPushedCount, PutFails
<1>7. ASSUME NEW p \in Pods, Run(p) \/ ClearPushed(p) \/ Upload(p)
      PROVE  clears'[q] + Len(events'[q]) + Pending' <= 2 * happened'["reset"]
  BY <1>1, <1>7 DEF Run, ClearPushed, Upload, ReadHope, ReadPushed, Put
<1>8. CASE UNCHANGED vars
  BY <1>1, <1>8 DEF vars
<1> QED BY <1>2, <1>3, <1>4, <1>5, <1>6, <1>7, <1>8 DEF Next, ListenReset

\* A reset clears the counters of a pod at most twice, and nothing else does.
THEOREM OnlyResetsClear == Spec => []ClearedByResets
BY TypeInit, TypeNext, ResetsInit, ResetsNext, PTL DEF Spec

-----------------------------------------------------------------------------
(***************************************************************************)
(* What a reset leaves behind                                              *)
(***************************************************************************)

\* Since the last reset was asked for nothing was counted, and the pod has
\* received and handled everything that its watch had for it.
HandledReset(p) ==
  quiet /\ watch[p] = "open" /\ events[p] = <<>> /\ resetter[p] = "recv"

ZeroAfterReset == \A p \in Pods :
  HandledReset(p) => hopeCount[p] = 0 /\ pushedCount[p] = 0

\* Between the two stores hopeCount is cleared already, and a pod that is down
\* comes up with zeros, and without the watch that it had.
ZeroPod(p) ==
  /\ resetter[p] = "off" => hopeCount[p] = 0 /\ pushedCount[p] = 0 /\ watch[p] = "none"
  /\ HandledReset(p) => hopeCount[p] = 0 /\ pushedCount[p] = 0
  /\ quiet /\ watch[p] = "open" /\ events[p] = <<>> /\ resetter[p] = "half" => hopeCount[p] = 0

ZeroInv == \A p \in Pods : ZeroPod(p)

LEMMA ZeroInit == Init => ZeroInv
BY DEF Init, ZeroInv, ZeroPod, HandledReset

\* A reset reaches every open watch, so that none of them has handled it yet.
LEMMA PublishedToOpen ==
  ASSUME TypeOK, NEW type \in {"put", "delete"}, Publish(type), NEW p \in Pods, watch[p] = "open"
  PROVE  events'[p] # <<>>
<1>1. events[p] \in EventSeqs /\ events'[p] = Append(events[p], type)
  BY DEF TypeOK, EventSeqs, Publish
<1>2. Len(events'[p]) = Len(events[p]) + 1 /\ Len(events[p]) \in Nat
  BY <1>1 DEF EventSeqs
<1> QED BY <1>2

LEMMA ZeroNext == TypeOK /\ ZeroInv /\ [Next]_vars => ZeroInv'
<1> SUFFICES ASSUME TypeOK, ZeroInv, [Next]_vars, NEW q \in Pods PROVE ZeroPod(q)'
  BY DEF ZeroInv
<1>0. ZeroPod(q)
  BY DEF ZeroInv
<1> USE DEF podVars, etcdVars
<1>1. ASSUME UNCHANGED <<hopeCount[q], pushedCount[q], resetter[q], watch[q], events[q], quiet>>
      PROVE  ZeroPod(q)'
  BY <1>0, <1>1 DEF ZeroPod, HandledReset
<1>2. ASSUME NEW p \in Pods, Run(p) PROVE ZeroPod(q)'
  BY <1>0, <1>2 DEF Run, Up, TypeOK, ZeroPod, HandledReset
<1>3. ASSUME NEW p \in Pods, Crash(p) PROVE ZeroPod(q)'
  BY <1>0, <1>3 DEF Crash, TypeOK, ZeroPod, HandledReset
<1>4. ASSUME NEW p \in Pods, ExpireLease(p) PROVE ZeroPod(q)'
  <2>1. UNCHANGED <<hopeCount, pushedCount, resetter, watch, quiet>>
    BY <1>4 DEF ExpireLease
  <2>2. CASE UNCHANGED events
    BY <1>1, <2>1, <2>2
  <2>3. CASE Publish("delete")
    <3>1. CASE watch[q] = "open"
      <4>1. events'[q] # <<>>
        BY <2>3, <3>1, PublishedToOpen
      <4> QED BY <1>0, <2>1, <4>1 DEF ZeroPod, HandledReset
    <3>2. CASE watch[q] # "open"
      BY <1>0, <2>1, <3>2 DEF ZeroPod, HandledReset
    <3> QED BY <3>1, <3>2
  <2> QED BY <1>4, <2>2, <2>3 DEF ExpireLease
<1>5. ASSUME NEW p \in Pods, ResetCounter(p) PROVE ZeroPod(q)'
  <2>1. UNCHANGED <<hopeCount, pushedCount, resetter, watch>> /\ Publish("put")
    BY <1>5 DEF ResetCounter
  <2>2. CASE watch[q] = "open"
    <3>1. events'[q] # <<>>
      BY <2>1, <2>2, PublishedToOpen
    <3> QED BY <1>0, <2>1, <3>1 DEF ZeroPod, HandledReset
  <2>3. CASE watch[q] # "open"
    BY <1>0, <2>1, <2>3 DEF ZeroPod, HandledReset
  <2> QED BY <2>2, <2>3
<1>6. ASSUME NEW p \in Pods, AddHopeCount(p) \/ IncrPushedCount(p) PROVE ZeroPod(q)'
  <2>1. ~quiet' /\ UNCHANGED <<resetter, watch, events>> /\ resetter[p] # "off"
    BY <1>6 DEF AddHopeCount, IncrPushedCount, Up
  <2>2. p # q => UNCHANGED <<hopeCount[q], pushedCount[q]>>
    BY <1>6 DEF AddHopeCount, IncrPushedCount, TypeOK
  <2> QED BY <1>0, <2>1, <2>2 DEF ZeroPod, HandledReset
<1>7. ASSUME NEW p \in Pods, ClearHope(p) PROVE ZeroPod(q)'
  BY <1>0, <1>7 DEF ClearHope, TypeOK, ZeroPod, HandledReset
<1>8. ASSUME NEW p \in Pods, ClearPushed(p) PROVE ZeroPod(q)'
  BY <1>0, <1>8 DEF ClearPushed, TypeOK, ZeroPod, HandledReset
<1>9. ASSUME NEW p \in Pods, CancelWatch(p) PROVE ZeroPod(q)'
  BY <1>0, <1>9 DEF CancelWatch, TypeOK, ZeroPod, HandledReset
<1>10. ASSUME NEW p \in Pods, Upload(p) \/ PutFails(p) PROVE ZeroPod(q)'
  BY <1>1, <1>10 DEF Upload, ReadHope, ReadPushed, Put, PutFails
<1>11. CASE UNCHANGED vars
  BY <1>1, <1>11 DEF vars
<1> QED BY <1>2, <1>3, <1>4, <1>5, <1>6, <1>7, <1>8, <1>9, <1>10, <1>11 DEF Next, ListenReset

\* The safety half of ResetClears: when nothing was counted since a reset was
\* asked for, a pod that has handled its events has both counts at zero. The
\* reset is lost neither on a pod that starts meanwhile nor between two stores.
THEOREM ResetLeavesZero == Spec => []ZeroAfterReset
<1>1. ZeroInv => ZeroAfterReset
  BY DEF ZeroInv, ZeroPod, ZeroAfterReset
<1> QED BY TypeInit, TypeNext, ZeroInit, ZeroNext, <1>1, PTL DEF Spec

=============================================================================
