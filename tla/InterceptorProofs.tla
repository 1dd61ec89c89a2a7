-------------------------- MODULE InterceptorProofs --------------------------
(***************************************************************************)
(* Proofs about Interceptor, for any pods, businesses and bounds.          *)
(***************************************************************************)
EXTENDS Interceptor, TLAPS

Requesting == [at : {"put", "return"}, put : Put]
Watches == [open : BOOLEAN, begin : Nat, pos : Nat, end : Nat]
WatcherPlaces == {"off", "subscribe", "recv", "lock"}

-----------------------------------------------------------------------------
(***************************************************************************)
(* Types                                                                   *)
(***************************************************************************)
LEMMA TypeInit == Init => TypeOK
<1> SUFFICES ASSUME Init PROVE TypeOK
  OBVIOUS
<1>1. history \in Seq(Put \cup {Deleted})
  BY DEF Init
<1>2. watch \in [Pods -> Watches]
  BY DEF Init, NoWatch, Watches
<1>3. request \in [Pods -> {Idle} \cup Requesting]
  BY DEF Init
<1>4. /\ Switch \in [Pods -> [Biz -> BOOLEAN]]
      /\ watcher \in [Pods -> WatcherPlaces]
      /\ lease \in [Pods -> {"none", "live", "orphan"}]
      /\ happened \in [Kinds -> Nat]
  BY DEF Init, WatcherPlaces
<1> QED BY <1>1, <1>2, <1>3, <1>4 DEF TypeOK, Watches, Requesting, WatcherPlaces

\* A put is not the deletion: it has other fields.
LEMMA PutNotDeleted == \A e \in Put : e # Deleted
<1> SUFFICES ASSUME NEW e \in Put, e = Deleted PROVE FALSE
  OBVIOUS
<1>1. DOMAIN e = {"biz", "status"}
  BY DEF Put
<1>2. DOMAIN e = {"deleted"}
  BY DEF Deleted
<1> QED BY <1>1, <1>2

\* A request in progress is not the idle value.
LEMMA RequestInProgress ==
  ASSUME TypeOK, NEW p \in Pods, request[p].at \in {"put", "return"}
  PROVE  request[p] \in Requesting /\ request[p].put \in Put
<1>1. request[p] \in {Idle} \cup Requesting
  BY DEF TypeOK, Requesting
<1>2. request[p] # Idle
  BY DEF Idle
<1> QED BY <1>1, <1>2 DEF Requesting

LEMMA HappensType ==
  ASSUME TypeOK, NEW kind \in Kinds, NEW max, Happens(kind, max)
  PROVE  happened' \in [Kinds -> Nat]
BY DEF TypeOK, Happens

LEMMA MovesType ==
  ASSUME TypeOK, NEW p \in Pods, NEW from, NEW to \in WatcherPlaces, Moves(p, from, to)
  PROVE  /\ watcher' \in [Pods -> WatcherPlaces]
         /\ watcher[p] = from /\ watcher'[p] = to
         /\ \A q \in Pods : q # p => watcher'[q] = watcher[q]
BY DEF TypeOK, Moves, WatcherPlaces

LEMMA AdvanceType ==
  ASSUME TypeOK, NEW p \in Pods, Advance(p)
  PROVE  /\ watch' \in [Pods -> Watches]
         /\ \A q \in Pods : q # p => watch'[q] = watch[q]
         /\ watch'[p].pos = watch[p].pos + 1
         /\ watch'[p].open = watch[p].open
         /\ watch'[p].begin = watch[p].begin
         /\ watch'[p].end = watch[p].end
<1>1. watch \in [Pods -> Watches] /\ watch[p] \in Watches
  BY DEF TypeOK, Watches
<1>2. watch' = [watch EXCEPT ![p] = [watch[p] EXCEPT !.pos = watch[p].pos + 1]]
  BY <1>1 DEF Advance
<1>3. [watch[p] EXCEPT !.pos = watch[p].pos + 1] \in Watches
  BY <1>1 DEF Watches
<1> QED BY <1>1, <1>2, <1>3 DEF Watches

LEMMA SubscribeType ==
  ASSUME TypeOK, NEW p \in Pods, Subscribe(p)
  PROVE  /\ watch' \in [Pods -> Watches]
         /\ \A q \in Pods : q # p => watch'[q] = watch[q]
         /\ watch'[p] = [open |-> TRUE, begin |-> Len(history), pos |-> Len(history), end |-> 0]
<1>1. Len(history) \in Nat
  BY DEF TypeOK
<1>2. [open |-> TRUE, begin |-> Len(history), pos |-> Len(history), end |-> 0] \in Watches
  BY <1>1 DEF Watches
<1> QED BY <1>2 DEF Subscribe, TypeOK, Watches

LEMMA CrashType ==
  ASSUME TypeOK, NEW p \in Pods, Crash(p)
  PROVE  /\ watch' = [watch EXCEPT ![p] = NoWatch] /\ watch' \in [Pods -> Watches]
         /\ watcher' = [watcher EXCEPT ![p] = "off"] /\ watcher' \in [Pods -> WatcherPlaces]
         /\ request' \in [Pods -> {Idle} \cup Requesting]
         /\ Switch' = [Switch EXCEPT ![p] = [b \in Biz |-> TRUE]]
         /\ lease' \in [Pods -> {"none", "live", "orphan"}]
         /\ history' = history
<1>1. NoWatch \in Watches
  BY DEF NoWatch, Watches
<1>2. watch' = [watch EXCEPT ![p] = NoWatch] /\ watch \in [Pods -> Watches]
  BY DEF Crash, TypeOK, Watches
<1>3. request' = [request EXCEPT ![p] = Idle] /\ request \in [Pods -> {Idle} \cup Requesting]
  BY DEF Crash, TypeOK, Requesting
<1>4. request' \in [Pods -> {Idle} \cup Requesting]
  BY <1>3
<1>5. watcher' = [watcher EXCEPT ![p] = "off"] /\ watcher' \in [Pods -> WatcherPlaces]
  BY DEF Crash, TypeOK, WatcherPlaces
<1>6. lease' \in [Pods -> {"none", "live", "orphan"}]
  BY DEF Crash, TypeOK
<1>7. Switch' = [Switch EXCEPT ![p] = [b \in Biz |-> TRUE]] /\ history' = history
  BY DEF Crash
<1> QED BY <1>1, <1>2, <1>4, <1>5, <1>6, <1>7

LEMMA CancelType ==
  ASSUME TypeOK, NEW p \in Pods, CancelWatch(p)
  PROVE  /\ watch' \in [Pods -> Watches]
         /\ \A q \in Pods : q # p => watch'[q] = watch[q]
         /\ watch[p].open /\ ~watch'[p].open /\ watch'[p].end = Len(history)
         /\ watch'[p].begin = watch[p].begin /\ watch'[p].pos = watch[p].pos
<1> DEFINE w == [open |-> FALSE, begin |-> watch[p].begin, pos |-> watch[p].pos,
                 end |-> Len(history)]
<1>1. watch \in [Pods -> Watches] /\ watch[p] \in Watches /\ Len(history) \in Nat
  BY DEF TypeOK, Watches
<1>3. watch' = [watch EXCEPT ![p] = w] /\ watch[p].open
  BY <1>1 DEF CancelWatch
<1>4. w \in Watches
  BY <1>1 DEF Watches
<1> QED BY <1>1, <1>3, <1>4

LEMMA ApplyType ==
  ASSUME TypeOK, NEW p \in Pods, Apply(p), history[watch[p].pos] \in Put
  PROVE  /\ Switch' \in [Pods -> [Biz -> BOOLEAN]]
         /\ \A q \in Pods : q # p => Switch'[q] = Switch[q]
         /\ history[watch[p].pos].biz \in Biz
         /\ Switch'[p] = [Switch[p] EXCEPT ![history[watch[p].pos].biz] = history[watch[p].pos].status]
<1> DEFINE put == history[watch[p].pos]
<1>1. Switch' = [Switch EXCEPT ![p] = [Switch[p] EXCEPT ![put.biz] = put.status]]
  BY DEF Apply, TypeOK
<1>2. put.biz \in Biz /\ put.status \in BOOLEAN
  BY DEF Put
<1>3. Switch[p] \in [Biz -> BOOLEAN]
  BY DEF TypeOK
<1> HIDE DEF put
<1>4. [Switch[p] EXCEPT ![put.biz] = put.status] \in [Biz -> BOOLEAN]
  BY <1>2, <1>3
<1>5. Switch' \in [Pods -> [Biz -> BOOLEAN]]
  BY <1>1, <1>4 DEF TypeOK
<1>6. \A q \in Pods : q # p => Switch'[q] = Switch[q]
  BY <1>1 DEF TypeOK
<1>7. Switch'[p] = [Switch[p] EXCEPT ![put.biz] = put.status]
  BY <1>1 DEF TypeOK
<1> QED BY <1>2, <1>5, <1>6, <1>7 DEF put

-----------------------------------------------------------------------------
(***************************************************************************)
(* How far a watch has come                                                *)
(***************************************************************************)

\* The last event that has reached the map: a put that waits for the mutex has
\* not.
Stored(p) == IF watcher[p] = "lock" THEN watch[p].pos - 1 ELSE watch[p].pos
Watching(p) == watcher[p] \in {"recv", "lock"}

PosInv(p) == Watching(p) =>
  /\ watch[p].begin <= Stored(p)
  /\ watch[p].pos <= End(p)
  /\ End(p) <= Len(history)
  /\ watcher[p] = "lock" => history[watch[p].pos] \in Put

WatchInv == TypeOK /\ \A p \in Pods : PosInv(p)

LEMMA Numbers ==
  ASSUME TypeOK, NEW p \in Pods
  PROVE  /\ watch[p].begin \in Nat /\ watch[p].pos \in Nat /\ watch[p].end \in Nat
         /\ Len(history) \in Nat /\ history \in Seq(Put \cup {Deleted})
         /\ watch[p].open \in BOOLEAN
         /\ \A i \in 1..Len(history) : history[i] # Deleted => history[i] \in Put
<1>1. watch[p] \in Watches /\ history \in Seq(Put \cup {Deleted})
  BY DEF TypeOK, Watches
<1>2. \A i \in 1..Len(history) : history[i] \in Put \cup {Deleted}
  BY <1>1
<1>3. Len(history) \in Nat
  BY <1>1
<1> QED BY <1>1, <1>2, <1>3 DEF Watches

\* What happens to the key comes after what has happened.
LEMMA Appended ==
  ASSUME TypeOK, NEW e \in Put \cup {Deleted}, history' = Append(history, e)
  PROVE  /\ history' \in Seq(Put \cup {Deleted})
         /\ Len(history') = Len(history) + 1
         /\ \A i \in 1..Len(history) : history'[i] = history[i]
<1>1. history \in Seq(Put \cup {Deleted})
  BY DEF TypeOK
<1> QED BY <1>1

LEMMA TypeNext == WatchInv /\ [Next]_vars => TypeOK'
<1> SUFFICES ASSUME WatchInv, [Next]_vars PROVE TypeOK'
  OBVIOUS
<1>0. TypeOK
  BY DEF WatchInv
<1> USE DEF podVars
<1>1. ASSUME NEW p \in Pods, NewInterceptor(p) PROVE TypeOK'
  <2>1. watcher' \in [Pods -> WatcherPlaces]
    BY <1>0, <1>1, MovesType DEF NewInterceptor, WatcherPlaces
  <2> QED BY <1>0, <1>1, <2>1 DEF NewInterceptor, TypeOK, WatcherPlaces
<1>2. ASSUME NEW p \in Pods, Crash(p) PROVE TypeOK'
  <2>1. happened' \in [Kinds -> Nat]
    BY <1>0, <1>2, HappensType DEF Crash, Kinds
  <2>2. Switch' \in [Pods -> [Biz -> BOOLEAN]]
    BY <1>0, <1>2 DEF Crash, TypeOK
  <2> QED BY <1>0, <1>2, <2>1, <2>2, CrashType DEF TypeOK, Watches, WatcherPlaces, Requesting
<1>3. ASSUME NEW p \in Pods, ExpireLease(p) PROVE TypeOK'
  <2>1. history' \in Seq(Put \cup {Deleted})
    BY <1>0, <1>3, Appended DEF ExpireLease
  <2> QED BY <1>0, <1>3, <2>1 DEF ExpireLease, TypeOK
<1>4. ASSUME NEW p \in Pods, CancelWatch(p) PROVE TypeOK'
  <2>1. happened' \in [Kinds -> Nat]
    BY <1>0, <1>4, HappensType DEF CancelWatch, Kinds
  <2>2. watch' \in [Pods -> Watches]
    BY <1>0, <1>4, CancelType
  <2> QED BY <1>0, <1>4, <2>1, <2>2 DEF CancelWatch, TypeOK, Watches
<1>5. ASSUME NEW p \in Pods, NEW biz \in Biz, NEW status \in BOOLEAN, Request(p, biz, status)
      PROVE  TypeOK'
  <2>1. happened' \in [Kinds -> Nat]
    BY <1>0, <1>5, HappensType DEF Request, Kinds
  <2> DEFINE r == [at |-> "put", put |-> [biz |-> biz, status |-> status]]
  <2>2. r \in Requesting
    BY DEF Requesting, Put
  <2>3. request' = [request EXCEPT ![p] = r]
    BY <1>5 DEF Request
  <2> HIDE DEF r
  <2>4. request' \in [Pods -> {Idle} \cup Requesting]
    BY <1>0, <2>2, <2>3 DEF TypeOK, Requesting
  <2> QED BY <1>0, <1>5, <2>1, <2>4 DEF Request, TypeOK, Requesting
<1>6. ASSUME NEW p \in Pods, request[p].at \in {"put", "return"},
             request' = [request EXCEPT ![p].at = "return"]
      PROVE  request' \in [Pods -> {Idle} \cup Requesting]
  <2>1. request[p] \in Requesting
    BY <1>0, <1>6, RequestInProgress
  <2>2. [request[p] EXCEPT !.at = "return"] \in Requesting
    BY <2>1 DEF Requesting
  <2> QED BY <1>0, <1>6, <2>2 DEF TypeOK, Requesting
<1>7. ASSUME NEW p \in Pods, Register(p) PROVE TypeOK'
  <2>1. history' \in Seq(Put \cup {Deleted})
    <3>1. request[p].put \in Put \cup {Deleted}
      BY <1>0, <1>7, RequestInProgress DEF Register
    <3> QED BY <1>0, <1>7, <3>1, Appended DEF Register
  <2>2. request' \in [Pods -> {Idle} \cup Requesting]
    BY <1>6, <1>7 DEF Register
  <2>3. lease' \in [Pods -> {"none", "live", "orphan"}]
    BY <1>7 DEF Register
  <2> QED BY <1>0, <1>7, <2>1, <2>2, <2>3 DEF Register, TypeOK, Requesting
<1>8. ASSUME NEW p \in Pods, RegisterFails(p) PROVE TypeOK'
  <2>1. happened' \in [Kinds -> Nat]
    BY <1>0, <1>8, HappensType DEF RegisterFails, Kinds
  <2>2. request' \in [Pods -> {Idle} \cup Requesting]
    BY <1>6, <1>8 DEF RegisterFails
  <2> QED BY <1>0, <1>8, <2>1, <2>2 DEF RegisterFails, TypeOK, Requesting
<1>9. ASSUME NEW p \in Pods, Return(p) PROVE TypeOK'
  BY <1>0, <1>9 DEF Return, TypeOK
<1>10. ASSUME NEW p \in Pods, Subscribe(p) PROVE TypeOK'
  <2>1. watcher' \in [Pods -> WatcherPlaces]
    BY <1>0, <1>10, MovesType DEF Subscribe, WatcherPlaces
  <2>2. watch' \in [Pods -> Watches]
    BY <1>0, <1>10, SubscribeType
  <2> QED BY <1>0, <1>10, <2>1, <2>2 DEF Subscribe, TypeOK, WatcherPlaces, Watches
<1>11. ASSUME NEW p \in Pods, Receive(p) PROVE TypeOK'
  <2>1. watcher' \in [Pods -> WatcherPlaces]
    BY <1>0, <1>11, MovesType DEF Receive, WatcherPlaces
  <2>2. watch' \in [Pods -> Watches]
    BY <1>0, <1>11, AdvanceType DEF Receive
  <2> QED BY <1>0, <1>11, <2>1, <2>2 DEF Receive, TypeOK, WatcherPlaces, Watches
<1>12. ASSUME NEW p \in Pods, Ignore(p) PROVE TypeOK'
  <2>1. watch' \in [Pods -> Watches]
    BY <1>0, <1>12, AdvanceType DEF Ignore
  <2> QED BY <1>0, <1>12, <2>1 DEF Ignore, TypeOK, Watches
<1>13. ASSUME NEW p \in Pods, Apply(p) PROVE TypeOK'
  <2>1. watcher' \in [Pods -> WatcherPlaces]
    BY <1>0, <1>13, MovesType DEF Apply, WatcherPlaces
  <2>2. history[watch[p].pos] \in Put
    BY <1>13 DEF Apply, Moves, WatchInv, PosInv, Watching
  <2>3. Switch' \in [Pods -> [Biz -> BOOLEAN]]
    BY <1>0, <1>13, <2>2, ApplyType
  <2> QED BY <1>0, <1>13, <2>1, <2>3 DEF Apply, TypeOK, WatcherPlaces
<1>14. CASE UNCHANGED vars
  BY <1>0, <1>14 DEF vars, TypeOK
<1> QED BY <1>1, <1>2, <1>3, <1>4, <1>5, <1>7, <1>8, <1>9, <1>10, <1>11, <1>12, <1>13, <1>14
        DEF Next, Requests, WatchCh

LEMMA WatchInit == Init => WatchInv
BY TypeInit DEF Init, WatchInv, PosInv, Watching

LEMMA WatchNext == WatchInv /\ [Next]_vars => WatchInv'
<1> SUFFICES ASSUME WatchInv, [Next]_vars, NEW q \in Pods PROVE PosInv(q)'
  BY TypeNext DEF WatchInv
<1>0. TypeOK /\ PosInv(q)
  BY DEF WatchInv
<1>00. /\ watch[q].begin \in Nat /\ watch[q].pos \in Nat /\ watch[q].end \in Nat
       /\ Len(history) \in Nat /\ watch[q].open \in BOOLEAN
       /\ \A i \in 1..Len(history) : history[i] # Deleted => history[i] \in Put
  BY <1>0, Numbers
<1> USE DEF podVars
\* Nothing that PosInv reads changes.
<1>1. ASSUME watcher'[q] = watcher[q], watch'[q] = watch[q], history' = history PROVE PosInv(q)'
  BY <1>0, <1>1 DEF PosInv, Watching, Stored, End
<1>2. ASSUME ~Watching(q)' PROVE PosInv(q)'
  BY <1>2 DEF PosInv
<1>3. ASSUME NEW e \in Put \cup {Deleted}, history' = Append(history, e),
             watcher' = watcher, watch' = watch
      PROVE  PosInv(q)'
  <2>1. CASE Watching(q)
    <3>1. /\ Len(history') = Len(history) + 1
          /\ \A i \in 1..Len(history) : history'[i] = history[i]
      BY <1>0, <1>3, Appended
    <3>2. /\ watch[q].begin <= Stored(q) /\ watch[q].pos <= End(q) /\ End(q) <= Len(history)
          /\ watcher[q] = "lock" => history[watch[q].pos] \in Put
      BY <1>0, <2>1 DEF PosInv
    <3>3. watch[q].pos <= Len(history) /\ (watcher[q] = "lock" => watch[q].pos \in 1..Len(history))
      BY <1>00, <3>2 DEF Stored, End
    <3>4. watcher[q] = "lock" => history'[watch[q].pos] \in Put
      BY <3>1, <3>2, <3>3
    <3>5. watch[q].pos <= End(q)' /\ End(q)' <= Len(history')
      BY <1>00, <1>3, <3>1, <3>2, <3>3 DEF End
    <3>6. Stored(q)' = Stored(q)
      BY <1>3 DEF Stored
    <3> QED BY <1>3, <3>2, <3>4, <3>5, <3>6 DEF PosInv
  <2>2. CASE ~Watching(q)
    BY <1>2, <1>3, <2>2 DEF Watching
  <2> QED BY <2>1, <2>2
<1>4. ASSUME NEW p \in Pods, NewInterceptor(p) PROVE PosInv(q)'
  <2>1. CASE p = q
    BY <1>0, <1>2, <1>4, <2>1, MovesType DEF NewInterceptor, WatcherPlaces, Watching
  <2>2. CASE p # q
    BY <1>0, <1>1, <1>4, <2>2, MovesType DEF NewInterceptor, WatcherPlaces
  <2> QED BY <2>1, <2>2
<1>5. ASSUME NEW p \in Pods, Crash(p) PROVE PosInv(q)'
  <2>1. CASE p = q
    <3>1. watcher'[q] = "off"
      BY <1>0, <1>5, <2>1, CrashType DEF TypeOK
    <3> QED BY <1>2, <3>1 DEF Watching
  <2>2. CASE p # q
    <3>1. watcher'[q] = watcher[q] /\ watch'[q] = watch[q] /\ history' = history
      BY <1>0, <1>5, <2>2, CrashType DEF TypeOK
    <3> QED BY <1>1, <3>1
  <2> QED BY <2>1, <2>2
<1>6. ASSUME NEW p \in Pods, ExpireLease(p) PROVE PosInv(q)'
  BY <1>3, <1>6 DEF ExpireLease
<1>7. ASSUME NEW p \in Pods, CancelWatch(p) PROVE PosInv(q)'
  <2>0. watcher' = watcher /\ history' = history
    BY <1>7 DEF CancelWatch
  <2>1. CASE p = q /\ Watching(q)
    <3>1. watch[q].open /\ ~watch'[q].open /\ watch'[q].end = Len(history)
          /\ watch'[q].begin = watch[q].begin /\ watch'[q].pos = watch[q].pos
      BY <1>0, <1>7, <2>1, CancelType
    <3>2. End(q)' = End(q) /\ Stored(q)' = Stored(q)
      BY <2>0, <3>1 DEF End, Stored
    <3> QED BY <1>0, <2>0, <2>1, <3>1, <3>2 DEF PosInv
  <2>2. CASE p # q
    BY <1>0, <1>1, <1>7, <2>0, <2>2, CancelType
  <2>3. CASE ~Watching(q)
    BY <1>2, <2>0, <2>3 DEF Watching
  <2> QED BY <2>1, <2>2, <2>3
<1>8. ASSUME NEW p \in Pods, (\E biz \in Biz, status \in BOOLEAN : Request(p, biz, status))
                              \/ RegisterFails(p) \/ Return(p)
      PROVE  PosInv(q)'
  BY <1>1, <1>8 DEF Request, RegisterFails, Return
<1>9. ASSUME NEW p \in Pods, Register(p) PROVE PosInv(q)'
  <2>1. request[p].put \in Put \cup {Deleted}
    BY <1>0, <1>9, RequestInProgress DEF Register
  <2> QED BY <1>3, <1>9, <2>1 DEF Register
<1>10. ASSUME NEW p \in Pods, Subscribe(p) PROVE PosInv(q)'
  <2>0. history' = history
    BY <1>10 DEF Subscribe
  <2>1. CASE p = q
    <3>1. /\ watch'[q].open /\ watch'[q].begin = Len(history) /\ watch'[q].pos = Len(history)
          /\ watcher'[q] = "recv"
      BY <1>0, <1>10, <2>1, SubscribeType, MovesType DEF Subscribe, WatcherPlaces
    <3>2. End(q)' = Len(history) /\ Stored(q)' = Len(history)
      BY <2>0, <3>1 DEF End, Stored
    <3> QED BY <1>00, <2>0, <3>1, <3>2 DEF PosInv
  <2>2. CASE p # q
    <3>1. watcher'[q] = watcher[q] /\ watch'[q] = watch[q]
      BY <1>0, <1>10, <2>2, SubscribeType, MovesType DEF Subscribe, WatcherPlaces
    <3> QED BY <1>1, <2>0, <3>1
  <2> QED BY <2>1, <2>2
<1>11. ASSUME NEW p \in Pods, Receive(p) PROVE PosInv(q)'
  <2>0. history' = history
    BY <1>11 DEF Receive
  <2>1. CASE p = q
    <3>1. /\ watch'[q].pos = watch[q].pos + 1 /\ watch'[q].begin = watch[q].begin
          /\ watch'[q].open = watch[q].open /\ watch'[q].end = watch[q].end
          /\ watcher[q] = "recv" /\ watcher'[q] = "lock"
      BY <1>0, <1>11, <2>1, AdvanceType, MovesType DEF Receive, WatcherPlaces
    <3>2. End(q)' = End(q) /\ Stored(q) = watch[q].pos /\ Stored(q)' = watch[q].pos
      <4>1. Stored(q)' = watch[q].pos
        BY <1>00, <3>1 DEF Stored
      <4> QED BY <2>0, <3>1, <4>1 DEF End, Stored
    <3>3. watch[q].begin <= watch[q].pos /\ watch[q].pos < End(q) /\ End(q) <= Len(history)
      BY <1>0, <1>11, <2>1, <3>1, <3>2 DEF PosInv, Watching, Receive, Advance
    <3>4. End(q) \in Nat
      BY <1>00 DEF End
    <3>5. watch[q].pos + 1 \in 1..Len(history) /\ watch[q].pos + 1 <= End(q)
      BY <1>00, <3>3, <3>4
    <3>6. history[watch[q].pos + 1] \in Put
      BY <1>00, <1>11, <2>1, <3>5 DEF Receive
    <3> QED BY <1>00, <2>0, <3>1, <3>2, <3>3, <3>5, <3>6 DEF PosInv
  <2>2. CASE p # q
    <3>1. watcher'[q] = watcher[q] /\ watch'[q] = watch[q]
      BY <1>0, <1>11, <2>2, AdvanceType, MovesType DEF Receive, WatcherPlaces
    <3> QED BY <1>1, <2>0, <3>1
  <2> QED BY <2>1, <2>2
<1>12. ASSUME NEW p \in Pods, Ignore(p) PROVE PosInv(q)'
  <2>0. history' = history /\ watcher' = watcher
    BY <1>12 DEF Ignore
  <2>1. CASE p = q
    <3>1. /\ watch'[q].pos = watch[q].pos + 1 /\ watch'[q].begin = watch[q].begin
          /\ watch'[q].open = watch[q].open /\ watch'[q].end = watch[q].end
          /\ watcher[q] = "recv"
      BY <1>0, <1>12, <2>1, AdvanceType DEF Ignore
    <3>2. End(q)' = End(q) /\ Stored(q) = watch[q].pos /\ Stored(q)' = watch[q].pos + 1
      BY <2>0, <3>1 DEF End, Stored
    <3>3. watch[q].begin <= watch[q].pos /\ watch[q].pos < End(q) /\ End(q) <= Len(history)
      BY <1>0, <1>12, <2>1, <3>1, <3>2 DEF PosInv, Watching, Ignore, Advance
    <3>4. End(q) \in Nat
      BY <1>00 DEF End
    <3> QED BY <1>00, <2>0, <3>1, <3>2, <3>3, <3>4 DEF PosInv
  <2>2. CASE p # q
    <3>1. watch'[q] = watch[q]
      BY <1>0, <1>12, <2>2, AdvanceType DEF Ignore
    <3> QED BY <1>1, <2>0, <3>1
  <2> QED BY <2>1, <2>2
<1>13. ASSUME NEW p \in Pods, Apply(p) PROVE PosInv(q)'
  <2>0. history' = history /\ watch' = watch
    BY <1>13 DEF Apply
  <2>1. CASE p = q
    <3>1. watcher[q] = "lock" /\ watcher'[q] = "recv"
      BY <1>0, <1>13, <2>1, MovesType DEF Apply, WatcherPlaces
    <3>2. Stored(q) = watch[q].pos - 1 /\ Stored(q)' = watch[q].pos /\ End(q)' = End(q)
      BY <2>0, <3>1 DEF Stored, End
    <3>3. watch[q].begin <= watch[q].pos - 1 /\ watch[q].pos <= End(q) /\ End(q) <= Len(history)
      BY <1>0, <3>1, <3>2 DEF PosInv, Watching
    <3> QED BY <1>00, <2>0, <3>1, <3>2, <3>3 DEF PosInv
  <2>2. CASE p # q
    <3>1. watcher'[q] = watcher[q]
      BY <1>0, <1>13, <2>2, MovesType DEF Apply, WatcherPlaces
    <3> QED BY <1>1, <2>0, <3>1
  <2> QED BY <2>1, <2>2
<1>14. CASE UNCHANGED vars
  BY <1>1, <1>14 DEF vars
<1> QED BY <1>4, <1>5, <1>6, <1>7, <1>8, <1>9, <1>10, <1>11, <1>12, <1>13, <1>14
        DEF Next, Requests, WatchCh

\* Every variable keeps its type. That needs that an event which waits for the
\* mutex is a put.
THEOREM TypeCorrect == Spec => []TypeOK
<1>1. WatchInv => TypeOK
  BY DEF WatchInv
<1> QED BY WatchInit, WatchNext, <1>1, PTL DEF Spec

-----------------------------------------------------------------------------
(***************************************************************************)
(* The map replays the history                                             *)
(***************************************************************************)

PutOf(h, i, biz) == h[i] # Deleted /\ h[i].biz = biz

\* Of the events b+1 to n, number j is the last put of biz.
LastPut(h, b, n, j, biz) ==
  j \in (b + 1)..n /\ PutOf(h, j, biz) /\ \A k \in (j + 1)..n : ~PutOf(h, k, biz)

\* The map sw is what the events b+1 to n make of a map that is all on.
Replay(sw, h, b, n) == \A biz \in Biz :
  /\ \A j \in (b + 1)..n : LastPut(h, b, n, j, biz) => sw[biz] = h[j].status
  /\ sw[biz] \/ \E j \in (b + 1)..n : LastPut(h, b, n, j, biz)

LEMMA ReplayNothing ==
  ASSUME NEW sw, \A biz \in Biz : sw[biz], NEW h, NEW n \in Nat
  PROVE  Replay(sw, h, n, n)
BY DEF Replay

\* A deletion changes nothing ...
LEMMA ReplayDeleted ==
  ASSUME NEW sw, NEW h, NEW b \in Nat, NEW n \in Nat, b <= n, Replay(sw, h, b, n),
         h[n + 1] = Deleted
  PROVE  Replay(sw, h, b, n + 1)
<1> SUFFICES ASSUME NEW biz \in Biz
             PROVE  /\ \A j \in (b + 1)..(n + 1) : LastPut(h, b, n + 1, j, biz) => sw[biz] = h[j].status
                    /\ sw[biz] \/ \E j \in (b + 1)..(n + 1) : LastPut(h, b, n + 1, j, biz)
  BY DEF Replay
<1>1. ~PutOf(h, n + 1, biz)
  BY DEF PutOf
<1>2. \A j : LastPut(h, b, n + 1, j, biz) <=> LastPut(h, b, n, j, biz)
  <2> SUFFICES ASSUME NEW j PROVE LastPut(h, b, n + 1, j, biz) <=> LastPut(h, b, n, j, biz)
    OBVIOUS
  <2>1. j \in (b + 1)..(n + 1) <=> j \in (b + 1)..n \/ j = n + 1
    OBVIOUS
  <2>2. ASSUME j \in (b + 1)..n
        PROVE  \A k : k \in (j + 1)..(n + 1) <=> k \in (j + 1)..n \/ k = n + 1
    BY <2>2
  <2> QED BY <1>1, <2>1, <2>2 DEF LastPut
<1>3. \A j : LastPut(h, b, n, j, biz) => j \in (b + 1)..n /\ j \in (b + 1)..(n + 1)
  BY DEF LastPut
<1> QED BY <1>2, <1>3 DEF Replay

\* ... and a put is stored.
LEMMA ReplayPut ==
  ASSUME NEW sw \in [Biz -> BOOLEAN], NEW h, NEW b \in Nat, NEW n \in Nat, b <= n,
         Replay(sw, h, b, n), h[n + 1] \in Put, h[n + 1] # Deleted
  PROVE  Replay([sw EXCEPT ![h[n + 1].biz] = h[n + 1].status], h, b, n + 1)
<1> DEFINE new == [sw EXCEPT ![h[n + 1].biz] = h[n + 1].status]
<1> SUFFICES ASSUME NEW biz \in Biz
             PROVE  /\ \A j \in (b + 1)..(n + 1) : LastPut(h, b, n + 1, j, biz) => new[biz] = h[j].status
                    /\ new[biz] \/ \E j \in (b + 1)..(n + 1) : LastPut(h, b, n + 1, j, biz)
  BY DEF Replay
<1>1. CASE h[n + 1].biz = biz
  <2>1. new[biz] = h[n + 1].status
    BY <1>1
  <2>2. PutOf(h, n + 1, biz)
    BY <1>1 DEF PutOf
  <2>3. ASSUME NEW j \in (b + 1)..(n + 1), LastPut(h, b, n + 1, j, biz) PROVE j = n + 1
    <3>1. j # n + 1 => n + 1 \in (j + 1)..(n + 1)
      OBVIOUS
    <3> QED BY <2>2, <2>3, <3>1 DEF LastPut
  <2>4. LastPut(h, b, n + 1, n + 1, biz) /\ n + 1 \in (b + 1)..(n + 1)
    <3>1. n + 1 \in (b + 1)..(n + 1) /\ (n + 1 + 1)..(n + 1) = {}
      OBVIOUS
    <3> QED BY <2>2, <3>1 DEF LastPut
  <2> HIDE DEF new
  <2> QED BY <2>1, <2>3, <2>4
<1>2. CASE h[n + 1].biz # biz
  <2>1. new[biz] = sw[biz]
    BY <1>2
  <2>2. ~PutOf(h, n + 1, biz)
    BY <1>2 DEF PutOf
  <2>3. \A j : LastPut(h, b, n + 1, j, biz) <=> LastPut(h, b, n, j, biz)
    <3> SUFFICES ASSUME NEW j PROVE LastPut(h, b, n + 1, j, biz) <=> LastPut(h, b, n, j, biz)
      OBVIOUS
    <3>1. j \in (b + 1)..(n + 1) <=> j \in (b + 1)..n \/ j = n + 1
      OBVIOUS
    <3>2. ASSUME j \in (b + 1)..n
          PROVE  \A k : k \in (j + 1)..(n + 1) <=> k \in (j + 1)..n \/ k = n + 1
      BY <3>2
    <3> QED BY <2>2, <3>1, <3>2 DEF LastPut
  <2>4. \A j : LastPut(h, b, n, j, biz) => j \in (b + 1)..n /\ j \in (b + 1)..(n + 1)
    BY DEF LastPut
  <2> HIDE DEF new
  <2> QED BY <2>1, <2>3, <2>4 DEF Replay
<1> QED BY <1>1, <1>2

\* What comes after n does not matter.
LEMMA ReplaySame ==
  ASSUME NEW sw, NEW g, NEW h, NEW b \in Nat, NEW n \in Nat, Replay(sw, g, b, n),
         \A i \in (b + 1)..n : h[i] = g[i]
  PROVE  Replay(sw, h, b, n)
<1> SUFFICES ASSUME NEW biz \in Biz
             PROVE  /\ \A j \in (b + 1)..n : LastPut(h, b, n, j, biz) => sw[biz] = h[j].status
                    /\ sw[biz] \/ \E j \in (b + 1)..n : LastPut(h, b, n, j, biz)
  BY DEF Replay
<1>1. \A i \in (b + 1)..n : PutOf(h, i, biz) <=> PutOf(g, i, biz)
  BY DEF PutOf
<1>2. \A j \in (b + 1)..n : LastPut(h, b, n, j, biz) <=> LastPut(g, b, n, j, biz)
  <2> SUFFICES ASSUME NEW j \in (b + 1)..n
               PROVE  LastPut(h, b, n, j, biz) <=> LastPut(g, b, n, j, biz)
    OBVIOUS
  <2>1. \A k \in (j + 1)..n : k \in (b + 1)..n
    OBVIOUS
  <2> QED BY <1>1, <2>1 DEF LastPut
<1> QED BY <1>2 DEF Replay

\* The map of a pod is what the events that have reached it say, and all on
\* before it watches.
ReplayInv(p) ==
  IF Watching(p) THEN Replay(Switch[p], history, watch[p].begin, Stored(p))
                 ELSE \A biz \in Biz : Switch[p][biz]

LEMMA ReplayInit == Init => \A p \in Pods : ReplayInv(p)
BY DEF Init, ReplayInv, Watching

LEMMA ReplayNext ==
  WatchInv /\ (\A p \in Pods : ReplayInv(p)) /\ [Next]_vars => (\A p \in Pods : ReplayInv(p))'
<1> SUFFICES ASSUME WatchInv, \A p \in Pods : ReplayInv(p), [Next]_vars, NEW q \in Pods
             PROVE  ReplayInv(q)'
  OBVIOUS
<1>0. TypeOK /\ PosInv(q) /\ ReplayInv(q)
  BY DEF WatchInv
<1>00. /\ watch[q].begin \in Nat /\ watch[q].pos \in Nat /\ watch[q].end \in Nat
       /\ Len(history) \in Nat /\ watch[q].open \in BOOLEAN
       /\ Switch[q] \in [Biz -> BOOLEAN]
  BY <1>0, Numbers DEF TypeOK
<1>a. Watching(q) => /\ Stored(q) \in Nat /\ watch[q].begin <= Stored(q) /\ Stored(q) <= Len(history)
                     /\ watch[q].pos <= Len(history)
  <2> SUFFICES ASSUME Watching(q)
               PROVE  /\ Stored(q) \in Nat /\ watch[q].begin <= Stored(q) /\ Stored(q) <= Len(history)
                      /\ watch[q].pos <= Len(history)
    OBVIOUS
  <2>1. watch[q].begin <= Stored(q) /\ watch[q].pos <= End(q) /\ End(q) <= Len(history)
    BY <1>0 DEF PosInv
  <2>2. watch[q].pos <= Len(history)
    BY <1>00, <2>1 DEF End
  <2>3. Stored(q) \in Int /\ Stored(q) <= watch[q].pos
    BY <1>00 DEF Stored
  <2> QED BY <1>00, <2>1, <2>2, <2>3
<1> USE DEF podVars
\* Nothing that ReplayInv reads changes.
<1>1. ASSUME watcher'[q] = watcher[q], watch'[q].begin = watch[q].begin,
             watch'[q].pos = watch[q].pos, Switch'[q] = Switch[q], history' = history
      PROVE  ReplayInv(q)'
  BY <1>0, <1>1 DEF ReplayInv, Watching, Stored
<1>2. ASSUME ~Watching(q)', \A biz \in Biz : Switch'[q][biz] PROVE ReplayInv(q)'
  BY <1>2 DEF ReplayInv
<1>3. ASSUME NEW e \in Put \cup {Deleted}, history' = Append(history, e),
             watcher' = watcher, watch' = watch, Switch' = Switch
      PROVE  ReplayInv(q)'
  <2>1. CASE Watching(q)
    <3>1. \A i \in 1..Len(history) : history'[i] = history[i]
      BY <1>0, <1>3, Appended
    <3>2. \A i \in (watch[q].begin + 1)..Stored(q) : history'[i] = history[i]
      BY <1>00, <1>a, <2>1, <3>1
    <3>3. Replay(Switch[q], history, watch[q].begin, Stored(q))
      BY <1>0, <2>1 DEF ReplayInv
    <3>4. Replay(Switch[q], history', watch[q].begin, Stored(q))
      BY <1>00, <1>a, <2>1, <3>2, <3>3, ReplaySame
    <3> QED BY <1>3, <2>1, <3>4 DEF ReplayInv, Watching, Stored
  <2>2. CASE ~Watching(q)
    BY <1>0, <1>2, <1>3, <2>2 DEF Watching, ReplayInv
  <2> QED BY <2>1, <2>2
<1>4. ASSUME NEW p \in Pods, NewInterceptor(p) PROVE ReplayInv(q)'
  <2>0. watch' = watch /\ history' = history /\ Switch' = [Switch EXCEPT ![p] = [b \in Biz |-> TRUE]]
    BY <1>4 DEF NewInterceptor
  <2>1. CASE p = q
    <3>1. watcher'[q] = "subscribe"
      BY <1>0, <1>4, <2>1, MovesType DEF NewInterceptor, WatcherPlaces
    <3>2. \A biz \in Biz : Switch'[q][biz]
      BY <1>0, <2>0, <2>1 DEF TypeOK
    <3> QED BY <1>2, <3>1, <3>2 DEF Watching
  <2>2. CASE p # q
    <3>1. watcher'[q] = watcher[q] /\ Switch'[q] = Switch[q]
      BY <1>0, <1>4, <2>0, <2>2, MovesType DEF NewInterceptor, WatcherPlaces, TypeOK
    <3> QED BY <1>1, <2>0, <3>1
  <2> QED BY <2>1, <2>2
<1>5. ASSUME NEW p \in Pods, Crash(p) PROVE ReplayInv(q)'
  <2>1. CASE p = q
    <3>1. watcher'[q] = "off" /\ \A biz \in Biz : Switch'[q][biz]
      BY <1>0, <1>5, <2>1, CrashType DEF TypeOK
    <3> QED BY <1>2, <3>1 DEF Watching
  <2>2. CASE p # q
    <3>1. /\ watcher'[q] = watcher[q] /\ watch'[q] = watch[q] /\ history' = history
          /\ Switch'[q] = Switch[q]
      BY <1>0, <1>5, <2>2, CrashType DEF TypeOK
    <3> QED BY <1>1, <3>1
  <2> QED BY <2>1, <2>2
<1>6. ASSUME NEW p \in Pods, ExpireLease(p) PROVE ReplayInv(q)'
  BY <1>3, <1>6 DEF ExpireLease
<1>7. ASSUME NEW p \in Pods, CancelWatch(p) PROVE ReplayInv(q)'
  <2>0. watcher' = watcher /\ history' = history /\ Switch' = Switch
    BY <1>7 DEF CancelWatch
  <2>1. watch'[q].begin = watch[q].begin /\ watch'[q].pos = watch[q].pos
    BY <1>0, <1>7, CancelType
  <2> QED BY <1>1, <2>0, <2>1
<1>8. ASSUME NEW p \in Pods, (\E biz \in Biz, status \in BOOLEAN : Request(p, biz, status))
                              \/ RegisterFails(p) \/ Return(p)
      PROVE  ReplayInv(q)'
  BY <1>1, <1>8 DEF Request, RegisterFails, Return
<1>9. ASSUME NEW p \in Pods, Register(p) PROVE ReplayInv(q)'
  <2>1. request[p].put \in Put \cup {Deleted}
    BY <1>0, <1>9, RequestInProgress DEF Register
  <2> QED BY <1>3, <1>9, <2>1 DEF Register
<1>10. ASSUME NEW p \in Pods, Subscribe(p) PROVE ReplayInv(q)'
  <2>0. history' = history /\ Switch' = Switch
    BY <1>10 DEF Subscribe
  <2>1. CASE p = q
    <3>1. /\ watch'[q].begin = Len(history) /\ watch'[q].pos = Len(history)
          /\ watcher[q] = "subscribe" /\ watcher'[q] = "recv"
      BY <1>0, <1>10, <2>1, SubscribeType, MovesType DEF Subscribe, WatcherPlaces
    <3>2. \A biz \in Biz : Switch[q][biz]
      BY <1>0, <3>1 DEF ReplayInv, Watching
    <3>3. Replay(Switch[q], history, Len(history), Len(history))
      BY <1>00, <3>2, ReplayNothing
    <3> QED BY <2>0, <3>1, <3>3 DEF ReplayInv, Watching, Stored
  <2>2. CASE p # q
    <3>1. watcher'[q] = watcher[q] /\ watch'[q] = watch[q]
      BY <1>0, <1>10, <2>2, SubscribeType, MovesType DEF Subscribe, WatcherPlaces
    <3> QED BY <1>1, <2>0, <3>1
  <2> QED BY <2>1, <2>2
<1>11. ASSUME NEW p \in Pods, Receive(p) PROVE ReplayInv(q)'
  <2>0. history' = history /\ Switch' = Switch
    BY <1>11 DEF Receive
  <2>1. CASE p = q
    <3>1. /\ watch'[q].pos = watch[q].pos + 1 /\ watch'[q].begin = watch[q].begin
          /\ watcher[q] = "recv" /\ watcher'[q] = "lock"
      BY <1>0, <1>11, <2>1, AdvanceType, MovesType DEF Receive, WatcherPlaces
    <3>2. Stored(q)' = watch[q].pos
      BY <1>00, <3>1 DEF Stored
    <3>3. Stored(q) = watch[q].pos
      BY <3>1 DEF Stored
    <3> QED BY <1>0, <2>0, <3>1, <3>2, <3>3 DEF ReplayInv, Watching
  <2>2. CASE p # q
    <3>1. watcher'[q] = watcher[q] /\ watch'[q] = watch[q]
      BY <1>0, <1>11, <2>2, AdvanceType, MovesType DEF Receive, WatcherPlaces
    <3> QED BY <1>1, <2>0, <3>1
  <2> QED BY <2>1, <2>2
<1>12. ASSUME NEW p \in Pods, Ignore(p) PROVE ReplayInv(q)'
  <2>0. history' = history /\ watcher' = watcher /\ Switch' = Switch
    BY <1>12 DEF Ignore
  <2>1. CASE p = q
    <3>1. /\ watch'[q].pos = watch[q].pos + 1 /\ watch'[q].begin = watch[q].begin
          /\ watcher[q] = "recv" /\ history[watch[q].pos + 1] = Deleted
      BY <1>0, <1>12, <2>1, AdvanceType DEF Ignore
    <3>2. Stored(q) = watch[q].pos /\ Stored(q)' = watch[q].pos + 1 /\ Watching(q)
      BY <2>0, <3>1 DEF Stored, Watching
    <3>3. Replay(Switch[q], history, watch[q].begin, watch[q].pos)
      BY <1>0, <3>2 DEF ReplayInv
    <3>4. Replay(Switch[q], history, watch[q].begin, watch[q].pos + 1)
      BY <1>00, <1>a, <3>1, <3>2, <3>3, ReplayDeleted
    <3> QED BY <2>0, <3>1, <3>2, <3>4 DEF ReplayInv, Watching
  <2>2. CASE p # q
    <3>1. watch'[q] = watch[q]
      BY <1>0, <1>12, <2>2, AdvanceType DEF Ignore
    <3> QED BY <1>1, <2>0, <3>1
  <2> QED BY <2>1, <2>2
<1>13. ASSUME NEW p \in Pods, Apply(p) PROVE ReplayInv(q)'
  <2>0. history' = history /\ watch' = watch
    BY <1>13 DEF Apply
  <2>p. history[watch[p].pos] \in Put
    BY <1>13 DEF Apply, Moves, WatchInv, PosInv, Watching
  <2>1. CASE p = q
    <3> DEFINE n == watch[q].pos - 1
    <3>1. watcher[q] = "lock" /\ watcher'[q] = "recv"
      BY <1>0, <1>13, <2>1, MovesType DEF Apply, WatcherPlaces
    <3>2. Stored(q) = n /\ Stored(q)' = watch[q].pos /\ Watching(q)
      BY <2>0, <3>1 DEF Stored, Watching
    <3>3. Replay(Switch[q], history, watch[q].begin, n)
      BY <1>0, <3>2 DEF ReplayInv
    <3>4. n \in Nat /\ watch[q].begin <= n /\ n + 1 = watch[q].pos
      BY <1>00, <1>a, <3>2
    <3>5. Switch'[q] = [Switch[q] EXCEPT ![history[watch[q].pos].biz] = history[watch[q].pos].status]
      BY <1>0, <1>13, <2>1, <2>p, ApplyType
    <3>6. history[n + 1] # Deleted /\ history[n + 1] \in Put
      BY <2>1, <2>p, <3>4, PutNotDeleted
    <3>7. Replay([Switch[q] EXCEPT ![history[n + 1].biz] = history[n + 1].status],
                 history, watch[q].begin, n + 1)
      <4> HIDE DEF n
      <4> QED BY <1>00, <3>3, <3>4, <3>6, ReplayPut
    <3>8. Replay(Switch'[q], history, watch[q].begin, watch[q].pos)
      BY <3>4, <3>5, <3>7
    <3> QED BY <2>0, <3>1, <3>2, <3>8 DEF ReplayInv, Watching
  <2>2. CASE p # q
    <3>1. watcher'[q] = watcher[q] /\ Switch'[q] = Switch[q]
      BY <1>0, <1>13, <2>2, <2>p, MovesType, ApplyType DEF Apply, WatcherPlaces
    <3> QED BY <1>1, <2>0, <3>1
  <2> QED BY <2>1, <2>2
<1>14. CASE UNCHANGED vars
  BY <1>1, <1>14 DEF vars
<1> QED BY <1>4, <1>5, <1>6, <1>7, <1>8, <1>9, <1>10, <1>11, <1>12, <1>13, <1>14
        DEF Next, Requests, WatchCh

LEMMA ReplayedCaughtUp ==
  ASSUME WatchInv, \A p \in Pods : ReplayInv(p), NEW p \in Pods, CaughtUp(p)
  PROVE  Replay(Switch[p], history, watch[p].begin, Len(history))
BY DEF CaughtUp, ReplayInv, Watching, Stored

\* Says is about the last puts.
LEMMA SaysLastPut ==
  ASSUME NEW p \in Pods, NEW n \in Nat, NEW biz \in Biz
  PROVE  Says(p, biz, n) = {history[j].status : j \in
           {j \in (watch[p].begin + 1)..n : LastPut(history, watch[p].begin, n, j, biz)}}
BY DEF Says, LastPut, PutOf

LEMMA CaughtUpSays ==
  WatchInv /\ (\A p \in Pods : ReplayInv(p)) => LastPutWins /\ OnUnlessPut
<1> SUFFICES ASSUME WatchInv, \A p \in Pods : ReplayInv(p), NEW p \in Pods, CaughtUp(p),
                    NEW biz \in Biz
             PROVE  /\ Says(p, biz, Len(history)) \subseteq {Switch[p][biz]}
                    /\ Says(p, biz, Len(history)) = {} => Switch[p][biz]
  BY DEF LastPutWins, OnUnlessPut
<1>1. Replay(Switch[p], history, watch[p].begin, Len(history))
  BY ReplayedCaughtUp
<1>2. Len(history) \in Nat
  BY Numbers DEF WatchInv
<1> DEFINE n == Len(history)
           J == {j \in (watch[p].begin + 1)..n : LastPut(history, watch[p].begin, n, j, biz)}
<1>3. Says(p, biz, n) = {history[j].status : j \in J}
  BY <1>2, SaysLastPut
<1>4. /\ \A j \in J : Switch[p][biz] = history[j].status
      /\ Switch[p][biz] \/ \E j \in J : TRUE
  BY <1>1 DEF Replay
<1> HIDE DEF n, J
<1>5. Says(p, biz, n) \subseteq {Switch[p][biz]} /\ (Says(p, biz, n) = {} => Switch[p][biz])
  BY <1>3, <1>4
<1> QED BY <1>5 DEF n

\* A pod that has received everything says of each business what was put last,
\* in the order of etcd, whatever the requests, crashes and leases before.
THEOREM LastPutIsKept == Spec => []LastPutWins
BY WatchInit, WatchNext, ReplayInit, ReplayNext, CaughtUpSays, PTL DEF Spec

\* And on where nothing was put since its watch began: neither a lease that
\* ends nor a request that fails switches it off.
THEOREM StaysOnUnlessPut == Spec => []OnUnlessPut
BY WatchInit, WatchNext, ReplayInit, ReplayNext, CaughtUpSays, PTL DEF Spec

\* The safety half of PodsAgree: two pods that have received everything agree on
\* each business that was put since both of their watches began, although the
\* watches may have begun at different positions and at different times.
AgreeWhenCaughtUp == \A p, q \in Pods : CaughtUp(p) /\ CaughtUp(q) => Agree(p, q)

\* There is one last put of a business, whichever watch it is looked for in.
LEMMA OneLastPut ==
  ASSUME TypeOK, NEW p \in Pods, NEW q \in Pods, NEW biz \in Biz, NEW n \in Nat,
         NEW s \in Says(p, biz, n), NEW t \in Says(q, biz, n)
  PROVE  s = t
<1>1. watch[p].begin \in Nat /\ watch[q].begin \in Nat
  BY DEF TypeOK
<1>2. PICK i \in (watch[p].begin + 1)..n :
        /\ s = history[i].status /\ history[i] # Deleted /\ history[i].biz = biz
        /\ \A k \in (i + 1)..n : history[k] = Deleted \/ history[k].biz # biz
  BY DEF Says
<1>3. PICK j \in (watch[q].begin + 1)..n :
        /\ t = history[j].status /\ history[j] # Deleted /\ history[j].biz = biz
        /\ \A k \in (j + 1)..n : history[k] = Deleted \/ history[k].biz # biz
  BY DEF Says
<1>4. i \in Nat /\ j \in Nat
  BY <1>1
<1>5. ~(i < j)
  <2>1. i < j => j \in (i + 1)..n
    BY <1>3, <1>4
  <2> QED BY <1>2, <1>3, <2>1
<1>6. ~(j < i)
  <2>1. j < i => i \in (j + 1)..n
    BY <1>2, <1>4
  <2> QED BY <1>2, <1>3, <2>1
<1>7. i = j
  BY <1>4, <1>5, <1>6
<1> QED BY <1>2, <1>3, <1>7

\* Pods that have received everything agree on what was put since they watch.
THEOREM CaughtUpAgree == Spec => []AgreeWhenCaughtUp
<1>1. WatchInv /\ LastPutWins => AgreeWhenCaughtUp
  <2> SUFFICES ASSUME WatchInv, LastPutWins, NEW p \in Pods, NEW q \in Pods,
                      CaughtUp(p), CaughtUp(q), NEW biz \in Biz,
                      NEW s \in Says(p, biz, Len(history)), NEW t \in Says(q, biz, Len(history))
               PROVE  Switch[p][biz] = Switch[q][biz]
    BY DEF AgreeWhenCaughtUp, Agree
  <2>1. TypeOK /\ Len(history) \in Nat
    BY Numbers DEF WatchInv
  <2>2. s = t
    BY <2>1, OneLastPut
  <2>3. s = Switch[p][biz] /\ t = Switch[q][biz]
    BY DEF LastPutWins
  <2> QED BY <2>2, <2>3
<1> QED BY WatchInit, WatchNext, LastPutIsKept, <1>1, PTL DEF Spec

=============================================================================
