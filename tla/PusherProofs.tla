---------------------------- MODULE PusherProofs ----------------------------
(***************************************************************************)
(* Proofs about Pusher, for any callers, services, thresholds and bounds.  *)
(***************************************************************************)
EXTENDS Pusher, TLAPS

\* A call that has chosen a service has an attempt left, so the index stays in
\* its range.
Tries == {"limit", "push", "accepted", "refused", "mark", "spawn"}
InRange == TypeOK /\ \A c \in Calls : at[c] \in Tries => k[c] < Attempts

LEMMA Constant ==
  /\ NumSvcs \in Nat /\ NumSvcs > 0 /\ PingLimit \in Nat /\ PingLimit > 0
  /\ Attempts \in Nat /\ Threshold \in Nat
BY PusherAssumption

LEMMA ServiceOfCall == ASSUME TypeOK, NEW c \in Calls PROVE Svc(c) \in Svcs
<1>1. k[c] \in Nat
  BY Constant DEF TypeOK
<1>2. \A n \in Nat : n % NumSvcs \in 0..(NumSvcs - 1)
  BY Constant
<1> QED BY <1>1, <1>2 DEF Svc, Svcs

LEMMA TypeInit == Init => InRange
BY Constant DEF Init, TypeOK, InRange, Tries

\* The goroutine that counts j instead of i is one of those there are.
LEMMA RecountsType ==
  ASSUME TypeOK, NEW s \in Svcs, NEW i \in 0..PingLimit, NEW j \in 0..PingLimit,
         i # j, Recounts(s, i, j)
  PROVE  /\ pinging' \in [Svcs -> [0..PingLimit -> Nat]]
         /\ \A r \in Svcs : r # s => pinging'[r] = pinging[r]
         /\ pinging'[s][i] = pinging[s][i] - 1
         /\ pinging'[s][j] = pinging[s][j] + 1
         /\ \A n \in 0..PingLimit : n # i /\ n # j => pinging'[s][n] = pinging[s][n]
<1> DEFINE g == [n \in 0..PingLimit |->
                   pinging[s][n] + (IF n = j THEN 1 ELSE 0) - (IF n = i THEN 1 ELSE 0)]
<1>1. pinging \in [Svcs -> [0..PingLimit -> Nat]] /\ pinging[s] \in [0..PingLimit -> Nat]
  BY DEF TypeOK
<1>2. pinging' = [pinging EXCEPT ![s] = g] /\ pinging[s][i] > 0
  BY DEF Recounts
<1>3. \A n \in 0..PingLimit : g[n] \in Nat
  BY <1>1, <1>2
<1>4. g \in [0..PingLimit -> Nat]
  BY <1>3
<1>5. /\ g[i] = pinging[s][i] - 1
      /\ g[j] = pinging[s][j] + 1
      /\ \A n \in 0..PingLimit : n # i /\ n # j => g[n] = pinging[s][n]
  BY <1>1
<1> HIDE DEF g
<1> QED BY <1>1, <1>2, <1>4, <1>5

\* What a call does to its own variables when it goes on, and when it returns.
LEMMA NextAttemptType ==
  ASSUME InRange, NEW c \in Calls, NEW from \in Tries \cup {"check"}, NextAttempt(c, from),
         k[c] < Attempts
  PROVE  /\ at' = [at EXCEPT ![c] = "check"] /\ at[c] = from
         /\ k' \in [Calls -> 0..Attempts] /\ taken' = taken /\ others' = others
         /\ \A d \in Calls : at'[d] \in Tries => k'[d] < Attempts
<1> USE Constant DEF InRange, TypeOK, NextAttempt, Moves, Tries
<1>1. k' \in [Calls -> 0..Attempts] /\ \A d \in Calls : d # c => k'[d] = k[d]
  OBVIOUS
<1>2. at'[c] = "check" /\ \A d \in Calls : d # c => at'[d] = at[d]
  OBVIOUS
<1> QED BY <1>1, <1>2

LEMMA ReturnType ==
  ASSUME InRange, NEW c \in Calls, NEW from \in Tries \cup {"check"}, Return(c, from)
  PROVE  /\ at' = [at EXCEPT ![c] = "idle"] /\ at[c] = from
         /\ k' \in [Calls -> 0..Attempts]
         /\ taken' \in [Calls -> {"no", "confirmed", "late"}] /\ others' \in [Calls -> Nat]
         /\ \A d \in Calls : at'[d] \in Tries => k'[d] < Attempts
<1> USE Constant DEF InRange, TypeOK, Return, Moves, Tries
<1>1. k' \in [Calls -> 0..Attempts] /\ \A d \in Calls : d # c => k'[d] = k[d]
  OBVIOUS
<1>2. at'[c] = "idle" /\ \A d \in Calls : d # c => at'[d] = at[d]
  OBVIOUS
<1>3. taken' \in [Calls -> {"no", "confirmed", "late"}] /\ others' \in [Calls -> Nat]
  OBVIOUS
<1> QED BY <1>1, <1>2, <1>3

LEMMA TypeNext == InRange /\ [Next]_vars => InRange'
<1> SUFFICES ASSUME InRange, [Next]_vars PROVE InRange'
  OBVIOUS
<1>0. TypeOK
  BY DEF InRange
<1> USE Constant DEF Moves, callVars, svcVars, Tries
<1>1. ASSUME NEW c \in Calls, Attempt(c) PROVE InRange'
  <2>1. CASE GiveUp(c)
    BY <2>1, ReturnType DEF GiveUp, InRange, TypeOK
  <2>2. CASE Skip(c)
    BY <2>2, NextAttemptType DEF Skip, InRange, TypeOK
  <2>3. CASE AskLimiter(c)
    BY <2>3 DEF AskLimiter, InRange, TypeOK
  <2>4. CASE Limited(c)
    <3>1. k[c] < Attempts
      BY <2>4 DEF Limited, NextAttempt, InRange
    <3> QED BY <2>4, <3>1, NextAttemptType DEF Limited, InRange, TypeOK
  <2>5. CASE LetThrough(c)
    BY <2>5 DEF LetThrough, InRange, TypeOK
  <2> QED BY <1>1, <2>1, <2>2, <2>3, <2>4, <2>5 DEF Attempt
<1>2. ASSUME NEW c \in Calls, Failover(c) PROVE InRange'
  <2>0. Svc(c) \in Svcs
    BY <1>0, ServiceOfCall
  <2>1. CASE Accepted(c)
    <3>1. /\ cnt' \in [Svcs -> Nat] /\ others' \in [Calls -> Nat]
          /\ taken' \in [Calls -> {"no", "confirmed", "late"}]
      BY <2>0, <2>1 DEF Accepted, InRange, TypeOK
    <3>2. at' \in [Calls -> {"idle"} \cup {"check"} \cup Tries]
      BY <2>1 DEF Accepted, InRange, TypeOK
    <3>3. \A d \in Calls : at'[d] \in Tries => at[d] \in Tries
      BY <2>1 DEF Accepted, InRange, TypeOK
    <3> QED BY <2>1, <3>1, <3>2, <3>3 DEF Accepted, InRange, TypeOK
  <2>2. CASE Succeed(c)
    BY <2>2, ReturnType DEF Succeed, InRange, TypeOK
  <2>3. CASE TryNext(c)
    <3>1. k[c] < Attempts
      BY <2>3 DEF TryNext, NextAttempt, InRange
    <3> QED BY <2>3, <3>1, NextAttemptType DEF TryNext, InRange, TypeOK
  <2>4. CASE Exceeded(c)
    BY <2>4 DEF Exceeded, InRange, TypeOK
  <2>5. CASE Mark(c)
    <3>1. Recovering(Svc(c)) \in BOOLEAN
      BY DEF Recovering
    <3> QED BY <2>0, <2>5, <3>1 DEF Mark, InRange, TypeOK
  <2>6. CASE Spawn(c)
    <3>1. pinging' \in [Svcs -> [0..PingLimit -> Nat]]
      BY <2>0, <2>6 DEF Spawn, InRange, TypeOK
    <3>2. k[c] < Attempts
      BY <2>6 DEF Spawn, NextAttempt, InRange
    <3> QED BY <2>6, <3>1, <3>2, NextAttemptType DEF Spawn, InRange, TypeOK
  <2> QED BY <1>2, <2>1, <2>2, <2>3, <2>4, <2>5, <2>6 DEF Failover
<1>3. ASSUME NEW c \in Calls, Push(c) PROVE InRange'
  BY <1>3 DEF Push, Counted, Kinds, InRange, TypeOK
<1>4. ASSUME NEW c \in Calls, Refused(c) PROVE InRange'
  <2>1. Svc(c) \in Svcs
    BY <1>0, ServiceOfCall
  <2>2. /\ count' \in [Kinds -> Nat]
        /\ others' \in [Calls -> Nat] /\ taken' \in [Calls -> {"no", "confirmed", "late"}]
    BY <1>4 DEF Refused, Counted, Kinds, InRange, TypeOK
  <2>3. cnt' \in [Svcs -> Nat]
    BY <1>4, <2>1 DEF Refused, InRange, TypeOK
  <2>4. at' \in [Calls -> {"idle"} \cup {"check"} \cup Tries]
    BY <1>4 DEF Refused, InRange, TypeOK
  <2>5. \A d \in Calls : at'[d] \in Tries => at[d] \in Tries
    BY <1>4 DEF Refused, InRange, TypeOK
  <2> QED BY <1>4, <2>2, <2>3, <2>4, <2>5 DEF Refused, InRange, TypeOK
<1>5. ASSUME NEW s \in Svcs, NEW i \in Counts, PingSucceeds(s, i) PROVE InRange'
  <2>1. i \in 0..PingLimit /\ i + 1 \in 0..PingLimit /\ i # i + 1
    BY DEF Counts
  <2>2. pinging' \in [Svcs -> [0..PingLimit -> Nat]]
    BY <1>0, <1>5, <2>1, RecountsType DEF PingSucceeds
  <2>3. streak' \in [Svcs -> Nat]
    BY <1>5 DEF PingSucceeds, InRange, TypeOK
  <2> QED BY <1>5, <2>2, <2>3 DEF PingSucceeds, InRange, TypeOK
<1>6. ASSUME NEW s \in Svcs, NEW i \in Counts, PingFails(s, i) PROVE InRange'
  <2>1. i \in 0..PingLimit /\ 0 \in 0..PingLimit
    BY DEF Counts
  <2>2. pinging' \in [Svcs -> [0..PingLimit -> Nat]]
    <3>1. CASE i # 0
      BY <1>0, <1>6, <2>1, <3>1, RecountsType DEF PingFails
    <3>2. CASE i = 0
      BY <1>0, <1>6, <2>1, <3>2 DEF PingFails, Recounts, TypeOK
    <3> QED BY <3>1, <3>2
  <2>3. count' \in [Kinds -> Nat]
    BY <1>6 DEF PingFails, Counted, Kinds, InRange, TypeOK
  <2> QED BY <1>6, <2>2, <2>3 DEF PingFails, InRange, TypeOK
<1>7. ASSUME NEW s \in Svcs, Recover(s) PROVE InRange'
  <2>1. pinging' \in [Svcs -> [0..PingLimit -> Nat]]
    BY <1>7 DEF Recover, InRange, TypeOK
  <2> QED BY <1>7, <2>1 DEF Recover, InRange, TypeOK
<1>8. CASE UNCHANGED vars
  BY <1>8 DEF vars, InRange, TypeOK
<1> QED BY <1>1, <1>2, <1>3, <1>4, <1>5, <1>6, <1>7, <1>8 DEF Next

\* Every variable keeps its type; the index of the services stays in its range.
THEOREM TypeCorrect == Spec => []TypeOK
<1>1. InRange => TypeOK
  BY DEF InRange
<1> QED BY TypeInit, TypeNext, <1>1, PTL DEF Spec

-----------------------------------------------------------------------------
(***************************************************************************)
(* Recovery                                                                *)
(***************************************************************************)

\* c has marked s, and is about to start the goroutine.
Spawner(c, s) == at[c] = "spawn" /\ Svc(c) = s

\* The steps that leave the recovery of the services alone.
Aside == UNCHANGED <<healthy, pinging, streak, overlapped>> /\ \A c \in Calls, s \in Svcs :
           Spawner(c, s)' <=> Spawner(c, s)

LEMMA WhatSteps ==
  ASSUME InRange, [Next]_vars
  PROVE  \/ Aside
         \/ \E c \in Calls : Mark(c) \/ Spawn(c)
         \/ \E s \in Svcs : (\E i \in Counts : PingSucceeds(s, i) \/ PingFails(s, i)) \/ Recover(s)
<1> USE DEF Aside, Spawner, Svc, Moves, callVars, svcVars
<1>1. ASSUME NEW c \in Calls, at[c] # "spawn", at'[c] # "spawn",
             at' = [at EXCEPT ![c] = at'[c]] /\ (k' = k \/ k' = [k EXCEPT ![c] = k'[c]])
      PROVE  \A d \in Calls, s \in Svcs : Spawner(d, s)' <=> Spawner(d, s)
  <2> SUFFICES ASSUME NEW d \in Calls, NEW s \in Svcs PROVE Spawner(d, s)' <=> Spawner(d, s)
    OBVIOUS
  <2>1. CASE d = c
    BY <1>1, <2>1
  <2>2. CASE d # c
    BY <1>1, <2>2 DEF InRange, TypeOK
  <2> QED BY <2>1, <2>2
<1>2. ASSUME NEW c \in Calls, Push(c) \/ Attempt(c) \/ Refused(c) PROVE Aside
  <2>1. UNCHANGED <<healthy, pinging, streak, overlapped>>
    BY <1>2 DEF Push, Attempt, Refused, GiveUp, Skip, AskLimiter, Limited, LetThrough
  <2>2. /\ at[c] # "spawn" /\ at'[c] # "spawn"
        /\ at' = [at EXCEPT ![c] = at'[c]] /\ (k' = k \/ k' = [k EXCEPT ![c] = k'[c]])
    BY <1>2 DEF Push, Attempt, Refused, GiveUp, Skip, AskLimiter, Limited, LetThrough,
                NextAttempt, Return, InRange, TypeOK
  <2> QED BY <1>1, <2>1, <2>2
<1>3. ASSUME NEW c \in Calls, Accepted(c) \/ Succeed(c) \/ TryNext(c) \/ Exceeded(c) PROVE Aside
  <2>1. UNCHANGED <<healthy, pinging, streak, overlapped>>
    BY <1>3 DEF Accepted, Succeed, TryNext, Exceeded
  <2>2. /\ at[c] # "spawn" /\ at'[c] # "spawn"
        /\ at' = [at EXCEPT ![c] = at'[c]] /\ (k' = k \/ k' = [k EXCEPT ![c] = k'[c]])
    BY <1>3 DEF Accepted, Succeed, TryNext, Exceeded, NextAttempt, Return, InRange, TypeOK
  <2> QED BY <1>1, <2>1, <2>2
<1>4. CASE UNCHANGED vars
  BY <1>4 DEF vars
<1> QED BY <1>2, <1>3, <1>4 DEF Next, Failover

\* What Mark and Spawn do to the recovery.
LEMMA MarkSteps ==
  ASSUME InRange, NEW c \in Calls, Mark(c)
  PROVE  /\ healthy' = [healthy EXCEPT ![Svc(c)] = FALSE] /\ streak' = [streak EXCEPT ![Svc(c)] = 0]
         /\ overlapped' = [overlapped EXCEPT ![Svc(c)] = Recovering(Svc(c))]
         /\ pinging' = pinging
         /\ \A s \in Svcs : s = Svc(c) => Spawner(c, s)'
         /\ \A d \in Calls, s \in Svcs : d # c \/ s # Svc(c) => (Spawner(d, s)' <=> Spawner(d, s))
BY DEF Mark, Moves, Spawner, Svc, InRange, TypeOK

LEMMA SpawnSteps ==
  ASSUME InRange, NEW c \in Calls, Spawn(c)
  PROVE  /\ UNCHANGED <<healthy, streak, overlapped>>
         /\ Spawner(c, Svc(c))
         /\ \A s \in Svcs : s # Svc(c) => pinging'[s] = pinging[s]
         /\ pinging'[Svc(c)][0] = pinging[Svc(c)][0] + 1
         /\ \A i \in 0..PingLimit : i # 0 => pinging'[Svc(c)][i] = pinging[Svc(c)][i]
         /\ \A s \in Svcs : ~Spawner(c, s)'
         /\ \A d \in Calls, s \in Svcs : d # c => (Spawner(d, s)' <=> Spawner(d, s))
<1>0. Svc(c) \in Svcs /\ pinging \in [Svcs -> [0..PingLimit -> Nat]] /\ 0 \in 0..PingLimit
  <2>1. Svc(c) \in Svcs
    BY ServiceOfCall DEF InRange
  <2>2. 0 \in 0..PingLimit
    BY Constant
  <2> QED BY <2>1, <2>2 DEF InRange, TypeOK
<1>1. UNCHANGED <<healthy, streak, overlapped>> /\ Spawner(c, Svc(c))
  BY DEF Spawn, NextAttempt, Moves, Spawner
<1>2. pinging' = [pinging EXCEPT ![Svc(c)][0] = @ + 1]
  BY DEF Spawn
<1>3. /\ \A s \in Svcs : ~Spawner(c, s)'
      /\ \A d \in Calls, s \in Svcs : d # c => (Spawner(d, s)' <=> Spawner(d, s))
  BY DEF Spawn, NextAttempt, Moves, Spawner, Svc, InRange, TypeOK
<1> HIDE DEF Svc
<1> QED BY <1>0, <1>1, <1>2, <1>3

\* What the goroutines of s do.
LEMMA PingSteps ==
  ASSUME InRange, NEW s \in Svcs, NEW i \in Counts, PingSucceeds(s, i) \/ PingFails(s, i)
  PROVE  /\ UNCHANGED <<healthy, overlapped>>
         /\ \A d \in Calls, r \in Svcs : Spawner(d, r)' <=> Spawner(d, r)
         /\ \A r \in Svcs : r # s => pinging'[r] = pinging[r] /\ streak'[r] = streak[r]
         /\ pinging[s][i] > 0
BY DEF PingSucceeds, PingFails, Recounts, Spawner, Svc, callVars, InRange, TypeOK

LEMMA RecoverSteps ==
  ASSUME InRange, NEW s \in Svcs, Recover(s)
  PROVE  /\ healthy' = [healthy EXCEPT ![s] = TRUE] /\ UNCHANGED <<streak, overlapped>>
         /\ \A d \in Calls, r \in Svcs : Spawner(d, r)' <=> Spawner(d, r)
         /\ \A r \in Svcs : r # s => pinging'[r] = pinging[r]
         /\ pinging[s][PingLimit] > 0
BY DEF Recover, Spawner, Svc, callVars, InRange, TypeOK

LEMMA RecoveringDef ==
  ASSUME NEW s \in Svcs
  PROVE  Recovering(s) <=> \/ \E i \in 0..PingLimit : pinging[s][i] > 0
                           \/ \E c \in Calls : Spawner(c, s)
BY DEF Recovering, Spawner

LEMMA RecoveryInit == Init => RecoveryUnderWay
BY DEF Init, RecoveryUnderWay

LEMMA RecoveryNext == InRange /\ RecoveryUnderWay /\ [Next]_vars => RecoveryUnderWay'
<1> SUFFICES ASSUME InRange, RecoveryUnderWay, [Next]_vars, NEW s \in Svcs, ~healthy'[s]
             PROVE  \/ \E i \in 0..PingLimit : pinging'[s][i] > 0
                    \/ \E c \in Calls : Spawner(c, s)'
  BY DEF RecoveryUnderWay, Recovering, Spawner
<1>0. /\ ~healthy[s] => \/ \E i \in 0..PingLimit : pinging[s][i] > 0
                        \/ \E c \in Calls : Spawner(c, s)
      /\ pinging \in [Svcs -> [0..PingLimit -> Nat]]
      /\ healthy \in [Svcs -> BOOLEAN]
      /\ 0 \in 0..PingLimit
  <2>1. 0 \in 0..PingLimit
    BY Constant
  <2>2. ~healthy[s] => \/ \E i \in 0..PingLimit : pinging[s][i] > 0
                       \/ \E c \in Calls : Spawner(c, s)
    BY RecoveringDef DEF RecoveryUnderWay
  <2> QED BY <2>1, <2>2 DEF InRange, TypeOK
<1>1. CASE Aside
  BY <1>0, <1>1 DEF Aside
<1>2. ASSUME NEW c \in Calls, Mark(c)
      PROVE  \/ \E i \in 0..PingLimit : pinging'[s][i] > 0
             \/ \E d \in Calls : Spawner(d, s)'
  <2>1. CASE s = Svc(c)
    <3>1. Spawner(c, s)'
      BY <1>2, <2>1 DEF Mark, Moves, Spawner, Svc, InRange, TypeOK
    <3> QED BY <3>1
  <2>2. CASE s # Svc(c)
    <3>1. healthy'[s] = healthy[s]
      BY <1>0, <1>2, <2>2, MarkSteps
    <3> QED BY <1>0, <1>2, <2>2, <3>1, MarkSteps
  <2> QED BY <2>1, <2>2
<1>3. ASSUME NEW c \in Calls, Spawn(c)
      PROVE  \/ \E i \in 0..PingLimit : pinging'[s][i] > 0
             \/ \E d \in Calls : Spawner(d, s)'
  <2>1. CASE s = Svc(c)
    <3>1. pinging'[s][0] = pinging[s][0] + 1 /\ pinging[s][0] \in Nat
      BY <1>0, <1>3, <2>1, SpawnSteps
    <3>2. pinging'[s][0] > 0
      BY <3>1
    <3> QED BY <1>0, <3>2
  <2>2. CASE s # Svc(c)
    <3>1. \A d \in Calls : Spawner(d, s) => d # c
      BY <2>2 DEF Spawner
    <3> QED BY <1>0, <1>3, <2>2, <3>1, SpawnSteps
  <2> QED BY <2>1, <2>2
<1>4. ASSUME NEW r \in Svcs, NEW i \in Counts, PingSucceeds(r, i) \/ PingFails(r, i)
      PROVE  \/ \E j \in 0..PingLimit : pinging'[s][j] > 0
             \/ \E d \in Calls : Spawner(d, s)'
  <2>1. CASE s # r
    BY <1>0, <1>4, <2>1, PingSteps
  <2>2. CASE s = r
    <3>1. ASSUME NEW j \in 0..PingLimit, Recounts(s, i, j)
          PROVE  \E n \in 0..PingLimit : pinging'[s][n] > 0
      <4>1. i \in 0..PingLimit /\ pinging[s][j] \in Nat
        <5>1. i \in 0..PingLimit
          BY Constant DEF Counts
        <5> QED BY <1>0, <5>1
      <4>2. CASE i # j
        <5>1. pinging'[s][j] = pinging[s][j] + 1
          BY <3>1, <4>1, <4>2, RecountsType DEF InRange
        <5> QED BY <4>1, <5>1
      <4>3. CASE i = j
        <5>1. pinging'[s][i] = pinging[s][i] /\ pinging[s][i] > 0
          BY <1>0, <3>1, <4>1, <4>3 DEF Recounts
        <5> QED BY <4>1, <5>1
      <4> QED BY <4>2, <4>3
    <3>2. i + 1 \in 0..PingLimit
      BY Constant DEF Counts
    <3> QED BY <1>0, <1>4, <2>2, <3>1, <3>2 DEF PingSucceeds, PingFails
  <2> QED BY <2>1, <2>2
<1>5. ASSUME NEW r \in Svcs, Recover(r)
      PROVE  \/ \E j \in 0..PingLimit : pinging'[s][j] > 0
             \/ \E d \in Calls : Spawner(d, s)'
  <2>1. s # r
    BY <1>0, <1>5, RecoverSteps
  <2> QED BY <1>0, <1>5, <2>1, RecoverSteps
<1> QED BY <1>1, <1>2, <1>3, <1>4, <1>5, WhatSteps

\* A service that is out of use is on its way back, in every order of marks,
\* pings and recoveries.
THEOREM RecoveryIsUnderWay == Spec => []RecoveryUnderWay
BY TypeInit, TypeNext, RecoveryInit, RecoveryNext, PTL DEF Spec

\* A service that is out of use and was not marked while it was recovering has
\* one goroutine at most, started or about to start, and that one has counted no
\* more than the pings that succeeded since.
Alone(s) ==
  /\ \A c, d \in Calls : Spawner(c, s) /\ Spawner(d, s) => c = d
  /\ \A c \in Calls, i \in 0..PingLimit : Spawner(c, s) => pinging[s][i] = 0
  /\ \A i \in 0..PingLimit : pinging[s][i] > 0 => pinging[s][i] = 1 /\ i <= streak[s]
  /\ \A i, j \in 0..PingLimit : pinging[s][i] > 0 /\ pinging[s][j] > 0 => i = j
AloneInv == \A s \in Svcs : ~healthy[s] /\ ~overlapped[s] => Alone(s)

LEMMA AloneInit == Init => AloneInv
BY DEF Init, AloneInv

\* What Alone reads of s.
LEMMA AloneKept ==
  ASSUME NEW s \in Svcs, Alone(s), pinging'[s] = pinging[s], streak'[s] = streak[s],
         \A c \in Calls : Spawner(c, s)' <=> Spawner(c, s)
  PROVE  Alone(s)'
BY DEF Alone

LEMMA AloneNext == InRange /\ AloneInv /\ [Next]_vars => AloneInv'
<1> SUFFICES ASSUME InRange, AloneInv, [Next]_vars,
                    NEW s \in Svcs, ~healthy'[s], ~overlapped'[s]
             PROVE  Alone(s)'
  BY DEF AloneInv
<1>0. /\ pinging \in [Svcs -> [0..PingLimit -> Nat]]
      /\ healthy \in [Svcs -> BOOLEAN]
      /\ overlapped \in [Svcs -> BOOLEAN]
      /\ streak \in [Svcs -> Nat]
  BY DEF InRange, TypeOK
<1>00. 0 \in 0..PingLimit
  BY Constant
<1>a. ~healthy[s] /\ ~overlapped[s] => Alone(s)
  BY DEF AloneInv
<1>1. CASE Aside
  BY <1>1, <1>a, AloneKept DEF Aside
<1>2. ASSUME NEW c \in Calls, Mark(c) PROVE Alone(s)'
  <2>1. CASE s = Svc(c)
    <3>1. ~Recovering(s)
      BY <1>0, <1>2, <2>1, MarkSteps
    <3>2. /\ \A i \in 0..PingLimit : ~(pinging[s][i] > 0)
          /\ \A d \in Calls : ~Spawner(d, s)
      BY <3>1, RecoveringDef
    <3>3. \A i \in 0..PingLimit : ~(pinging'[s][i] > 0) /\ pinging'[s][i] = 0
      <4>1. pinging' = pinging
        BY <1>2, MarkSteps
      <4>2. \A i \in 0..PingLimit : pinging[s][i] \in Nat
        BY <1>0
      <4>3. \A i \in 0..PingLimit : pinging[s][i] = 0
        BY <3>2, <4>2
      <4> QED BY <4>1, <4>3
    <3>4. \A d \in Calls : Spawner(d, s)' => d = c
      BY <1>2, <3>2, MarkSteps
    <3> QED BY <3>3, <3>4 DEF Alone
  <2>2. CASE s # Svc(c)
    <3>1. healthy'[s] = healthy[s] /\ overlapped'[s] = overlapped[s] /\ streak'[s] = streak[s]
      BY <1>0, <1>2, <2>2, MarkSteps
    <3>2. pinging' = pinging /\ \A d \in Calls : Spawner(d, s)' <=> Spawner(d, s)
      BY <1>2, <2>2, MarkSteps
    <3> QED BY <1>a, <3>1, <3>2, AloneKept
  <2> QED BY <2>1, <2>2
<1>3. ASSUME NEW c \in Calls, Spawn(c) PROVE Alone(s)'
  <2>0. Alone(s)
    BY <1>3, <1>a, SpawnSteps
  <2>1. CASE s = Svc(c)
    <3>1. Spawner(c, s)
      BY <1>3, <2>1, SpawnSteps
    <3>2. \A i \in 0..PingLimit : pinging[s][i] = 0
      BY <2>0, <3>1 DEF Alone
    <3>3. \A d \in Calls : ~Spawner(d, s)'
      BY <1>3, <2>0, <3>1, SpawnSteps DEF Alone
    <3>4. pinging'[s][0] = 1 /\ \A i \in 0..PingLimit : i # 0 => pinging'[s][i] = 0
      BY <1>3, <2>1, <3>2, <1>00, SpawnSteps
    <3>5. streak'[s] >= 0
      BY <1>0, <1>3, SpawnSteps
    <3> QED BY <3>3, <3>4, <3>5 DEF Alone
  <2>2. CASE s # Svc(c)
    <3>1. ~Spawner(c, s)
      BY <2>2 DEF Spawner
    <3>2. \A d \in Calls : Spawner(d, s)' <=> Spawner(d, s)
      BY <1>3, <3>1, SpawnSteps
    <3> QED BY <1>3, <2>0, <2>2, <3>2, AloneKept, SpawnSteps
  <2> QED BY <2>1, <2>2
<1>4. ASSUME NEW r \in Svcs, NEW i \in Counts, PingSucceeds(r, i) \/ PingFails(r, i)
      PROVE  Alone(s)'
  <2>0. Alone(s) /\ ~healthy[s]
    BY <1>4, <1>a, PingSteps
  <2>1. CASE s # r
    BY <1>4, <2>0, <2>1, AloneKept, PingSteps
  <2>2. CASE s = r
    <3>0. i \in 0..PingLimit /\ i + 1 \in 0..PingLimit /\ i \in Nat
      BY Constant DEF Counts
    <3>1. /\ pinging[s][i] = 1 /\ i <= streak[s]
          /\ \A j \in 0..PingLimit : j # i => pinging[s][j] = 0
      <4>1. pinging[s][i] > 0
        BY <1>4, <2>2, PingSteps
      <4>2. \A j \in 0..PingLimit : j # i => ~(pinging[s][j] > 0)
        BY <2>0, <3>0, <4>1 DEF Alone
      <4>3. \A j \in 0..PingLimit : pinging[s][j] \in Nat
        BY <1>0
      <4> QED BY <2>0, <3>0, <4>1, <4>2, <4>3 DEF Alone
    <3>2. \A d \in Calls : ~Spawner(d, s)'
      <4>1. \A d \in Calls : ~Spawner(d, s)
        BY <2>0, <3>0, <3>1 DEF Alone
      <4> QED BY <1>4, <4>1, PingSteps
    <3>3. ASSUME NEW j \in 0..PingLimit, Recounts(s, i, j)
          PROVE  pinging'[s][j] = 1 /\ \A n \in 0..PingLimit : n # j => pinging'[s][n] = 0
      <4>1. CASE i # j
        <5>1. /\ pinging'[s][i] = pinging[s][i] - 1
              /\ pinging'[s][j] = pinging[s][j] + 1
              /\ \A n \in 0..PingLimit : n # i /\ n # j => pinging'[s][n] = pinging[s][n]
          BY <3>0, <3>3, <4>1, RecountsType DEF InRange
        <5>2. pinging'[s][i] = 0 /\ pinging'[s][j] = 1
          BY <3>1, <4>1, <5>1
        <5> QED BY <3>1, <5>1, <5>2
      <4>2. CASE i = j
        <5>1. \A n \in 0..PingLimit : pinging'[s][n] = pinging[s][n]
          <6>1. pinging'[s] = [n \in 0..PingLimit |->
                  pinging[s][n] + (IF n = j THEN 1 ELSE 0) - (IF n = i THEN 1 ELSE 0)]
            BY <1>0, <3>3 DEF Recounts
          <6>2. \A n \in 0..PingLimit : pinging[s][n] \in Nat
            BY <1>0
          <6> QED BY <4>2, <6>1, <6>2
        <5> QED BY <3>1, <4>2, <5>1
      <4> QED BY <4>1, <4>2
    <3>4. CASE PingSucceeds(r, i)
      <4>1. streak'[s] = streak[s] + 1
        BY <1>0, <2>0, <2>2, <3>4 DEF PingSucceeds
      <4>2. i + 1 <= streak'[s]
        BY <1>0, <3>0, <3>1, <4>1
      <4>3. pinging'[s][i + 1] = 1 /\ \A n \in 0..PingLimit : n # i + 1 => pinging'[s][n] = 0
        BY <2>2, <3>0, <3>3, <3>4 DEF PingSucceeds
      <4>4. \A n \in 0..PingLimit : pinging'[s][n] > 0 => n = i + 1
        BY <4>3
      <4> QED BY <3>2, <4>2, <4>3, <4>4 DEF Alone
    <3>5. CASE PingFails(r, i)
      <4>1. streak'[s] = 0
        BY <1>0, <2>2, <3>5 DEF PingFails
      <4>2. pinging'[s][0] = 1 /\ \A n \in 0..PingLimit : n # 0 => pinging'[s][n] = 0
        BY <2>2, <1>00, <3>3, <3>5 DEF PingFails
      <4>3. \A n \in 0..PingLimit : pinging'[s][n] > 0 => n = 0
        BY <4>2
      <4> QED BY <3>2, <4>1, <4>2, <4>3 DEF Alone
    <3> QED BY <1>4, <3>4, <3>5
  <2> QED BY <2>1, <2>2
<1>5. ASSUME NEW r \in Svcs, Recover(r) PROVE Alone(s)'
  <2>1. s # r
    BY <1>0, <1>5, RecoverSteps
  <2>2. healthy'[s] = healthy[s] /\ overlapped' = overlapped /\ streak' = streak
    BY <1>0, <1>5, <2>1, RecoverSteps
  <2> QED BY <1>5, <1>a, <2>1, <2>2, AloneKept, RecoverSteps
<1> QED BY <1>1, <1>2, <1>3, <1>4, <1>5, WhatSteps

\* A service comes back into use after PingLimit pings in a row, unless it was
\* marked while it was recovering.
THEOREM RecoversOnlyByPings == Spec => RecoversByPings
<1>1. InRange /\ AloneInv /\ [Next]_vars =>
        [\A s \in Svcs : ~healthy[s] /\ healthy'[s] => streak[s] >= PingLimit \/ overlapped[s]]_vars
  <2> SUFFICES ASSUME InRange, AloneInv, Next, NEW s \in Svcs, ~healthy[s], healthy'[s],
                      ~overlapped[s]
               PROVE  streak[s] >= PingLimit
    OBVIOUS
  <2>0. healthy \in [Svcs -> BOOLEAN] /\ streak \in [Svcs -> Nat] /\ PingLimit \in 0..PingLimit
    BY Constant DEF InRange, TypeOK
  <2>1. ~Aside
    BY DEF Aside
  <2>2. ASSUME NEW c \in Calls PROVE ~Mark(c) /\ ~Spawn(c)
    <3>1. ~Mark(c)
      BY <2>0, MarkSteps
    <3>2. ~Spawn(c)
      BY SpawnSteps
    <3> QED BY <3>1, <3>2
  <2>3. ASSUME NEW r \in Svcs, NEW i \in Counts PROVE ~PingSucceeds(r, i) /\ ~PingFails(r, i)
    BY PingSteps
  <2>4. PICK r \in Svcs : Recover(r)
    BY <2>1, <2>2, <2>3, WhatSteps
  <2>5. r = s
    BY <2>0, <2>4, RecoverSteps
  <2>6. pinging[s][PingLimit] > 0
    BY <2>4, <2>5, RecoverSteps
  <2>7. Alone(s)
    BY DEF AloneInv
  <2>8. PingLimit <= streak[s]
    BY <2>0, <2>6, <2>7 DEF Alone
  <2> QED BY <2>0, <2>8, Constant
<1> QED BY TypeInit, TypeNext, AloneInit, AloneNext, <1>1, PTL DEF Spec, RecoversByPings

-----------------------------------------------------------------------------
(***************************************************************************)
(* A message that is taken again                                           *)
(***************************************************************************)

\* Between a success and the second reading of the counter, the failures of others
\* are the only ones that it holds: the success has set it to zero.
Taken(c) ==
  /\ at[c] = "idle" => taken[c] = "no"
  /\ at[c] = "accepted" => taken[c] = "confirmed" /\ others[c] >= cnt[Svc(c)]
  /\ at[c] \notin {"idle", "accepted"} /\ taken[c] = "confirmed" => others[c] > Threshold
TakenInv == \A c \in Calls : Taken(c)

LEMMA TakenEnough == InRange /\ TakenInv => TakenAgainByOthers
BY DEF InRange, TypeOK, TakenInv, Taken, TakenAgainByOthers

LEMMA TakenInit == Init => TakenInv
BY DEF Init, TakenInv, Taken

LEMMA TakenNext == InRange /\ TakenInv /\ [Next]_vars => TakenInv'
<1> SUFFICES ASSUME InRange, TakenInv, [Next]_vars, NEW d \in Calls PROVE Taken(d)'
  BY DEF TakenInv
<1>0. /\ at \in [Calls -> {"idle"} \cup {"check"} \cup Tries]
      /\ k \in [Calls -> 0..Attempts]
      /\ taken \in [Calls -> {"no", "confirmed", "late"}]
      /\ others \in [Calls -> Nat] /\ cnt \in [Svcs -> Nat]
      /\ \A c \in Calls : Svc(c) \in Svcs
  <2>1. \A c \in Calls : Svc(c) \in Svcs
    BY ServiceOfCall DEF InRange
  <2> QED BY <2>1 DEF InRange, TypeOK, Tries
<1>1. Taken(d)
  BY DEF TakenInv
<1>2. Threshold \in Nat
  BY Constant
<1> USE DEF Moves, callVars, svcVars
\* The counter and the call's own variables stay as they are.
<1>3. ASSUME at'[d] = at[d], k'[d] = k[d], taken'[d] = taken[d], others'[d] = others[d], cnt' = cnt
      PROVE  Taken(d)'
  BY <1>1, <1>3 DEF Taken, Svc
\* d goes on from a place that is neither idle nor accepted to another such place.
<1>4. ASSUME at[d] \notin {"idle", "accepted"}, at'[d] \notin {"idle", "accepted"},
             taken'[d] = taken[d], others'[d] = others[d]
      PROVE  Taken(d)'
  BY <1>1, <1>4 DEF Taken
<1>5. ASSUME at'[d] = "idle", taken'[d] = "no" PROVE Taken(d)'
  BY <1>5 DEF Taken
<1>6. ASSUME NEW c \in Calls, Attempt(c) PROVE Taken(d)'
  <2>0. cnt' = cnt
    BY <1>6 DEF Attempt, GiveUp, Skip, AskLimiter, Limited, LetThrough
  <2>1. CASE c # d
    <3>1. at'[d] = at[d] /\ k'[d] = k[d] /\ taken'[d] = taken[d] /\ others'[d] = others[d]
      BY <1>0, <1>6, <2>1 DEF Attempt, GiveUp, Skip, AskLimiter, Limited, LetThrough, NextAttempt, Return
    <3> QED BY <1>3, <2>0, <3>1
  <2>2. CASE c = d /\ GiveUp(c)
    BY <1>0, <1>5, <2>2 DEF GiveUp, Return
  <2>3. CASE c = d /\ ~GiveUp(c)
    <3>1. /\ at[d] \notin {"idle", "accepted"} /\ at'[d] \notin {"idle", "accepted"}
          /\ taken'[d] = taken[d] /\ others'[d] = others[d]
      BY <1>0, <1>6, <2>3 DEF Attempt, Skip, AskLimiter, Limited, LetThrough, NextAttempt
    <3> QED BY <1>4, <3>1
  <2> QED BY <2>1, <2>2, <2>3
<1>7. ASSUME NEW c \in Calls, Succeed(c) \/ TryNext(c) \/ Mark(c) \/ Spawn(c) PROVE Taken(d)'
  <2>0. cnt' = cnt
    BY <1>7 DEF Succeed, TryNext, Mark, Spawn
  <2>1. CASE c # d
    <3>1. at'[d] = at[d] /\ k'[d] = k[d] /\ taken'[d] = taken[d] /\ others'[d] = others[d]
      BY <1>0, <1>7, <2>1 DEF Succeed, TryNext, Mark, Spawn, NextAttempt, Return
    <3> QED BY <1>3, <2>0, <3>1
  <2>2. CASE c = d /\ Succeed(c)
    BY <1>0, <1>5, <2>2 DEF Succeed, Return
  <2>3. CASE c = d /\ ~Succeed(c)
    <3>1. /\ at[d] \notin {"idle", "accepted"} /\ at'[d] \notin {"idle", "accepted"}
          /\ taken'[d] = taken[d] /\ others'[d] = others[d]
      BY <1>0, <1>7, <2>3 DEF TryNext, Mark, Spawn, NextAttempt
    <3> QED BY <1>4, <3>1
  <2> QED BY <2>1, <2>2, <2>3
<1>8. ASSUME NEW c \in Calls, Exceeded(c) PROVE Taken(d)'
  <2>0. cnt' = cnt /\ k' = k /\ taken' = taken /\ others' = others
    BY <1>8 DEF Exceeded
  <2>1. CASE c # d
    <3>1. at'[d] = at[d]
      BY <1>0, <1>8, <2>1 DEF Exceeded
    <3> QED BY <1>3, <2>0, <3>1
  <2>2. CASE c = d /\ at[d] = "accepted"
    <3>1. others[d] >= cnt[Svc(d)] /\ cnt[Svc(d)] > Threshold
      BY <1>1, <1>8, <2>2 DEF Exceeded, Taken
    <3>2. others[d] \in Nat /\ cnt[Svc(d)] \in Nat
      BY <1>0
    <3>3. others[d] > Threshold
      BY <1>2, <3>1, <3>2
    <3>4. at'[d] = "mark"
      BY <1>0, <1>8, <2>2 DEF Exceeded
    <3> QED BY <2>0, <3>3, <3>4 DEF Taken
  <2>3. CASE c = d /\ at[d] # "accepted"
    <3>1. at[d] = "refused" /\ at'[d] = "mark"
      BY <1>0, <1>8, <2>3 DEF Exceeded
    <3> QED BY <1>4, <2>0, <3>1
  <2> QED BY <2>1, <2>2, <2>3
<1>9. ASSUME NEW c \in Calls, Accepted(c) PROVE Taken(d)'
  <2>0. k' = k /\ cnt' = [cnt EXCEPT ![Svc(c)] = 0]
    BY <1>9 DEF Accepted
  <2>1. Svc(d)' = Svc(d) /\ (cnt'[Svc(d)] = cnt[Svc(d)] \/ cnt'[Svc(d)] = 0)
    BY <1>0, <2>0 DEF Svc
  <2>2. CASE c # d
    <3>1. at'[d] = at[d] /\ taken'[d] = taken[d] /\ others'[d] = others[d]
      BY <1>0, <1>9, <2>2 DEF Accepted
    <3>2. others[d] \in Nat /\ cnt[Svc(d)] \in Nat
      BY <1>0
    <3> QED BY <1>1, <2>1, <3>1, <3>2 DEF Taken
  <2>3. CASE c = d
    <3>1. at'[d] = "accepted" /\ taken'[d] = "confirmed" /\ others'[d] = 0
      BY <1>0, <1>9, <2>3 DEF Accepted
    <3>2. cnt'[Svc(d)] = 0
      BY <1>0, <2>0, <2>3
    <3> QED BY <2>1, <3>1, <3>2 DEF Taken
  <2> QED BY <2>2, <2>3
<1>10. ASSUME NEW c \in Calls, Refused(c) PROVE Taken(d)'
  <2>0. k' = k /\ cnt' = [cnt EXCEPT ![Svc(c)] = @ + 1]
    BY <1>10 DEF Refused
  <2>1. CASE c # d
    <3>1. /\ at'[d] = at[d] /\ taken'[d] = taken[d]
          /\ others'[d] = IF at[d] # "idle" THEN others[d] + 1 ELSE others[d]
      BY <1>0, <1>10, <2>1 DEF Refused
    <3>2. Svc(d)' = Svc(d) /\ cnt[Svc(d)] \in Nat /\ cnt'[Svc(d)] <= cnt[Svc(d)] + 1 /\ cnt'[Svc(d)] \in Nat
      <4>1. Svc(d)' = Svc(d)
        BY <2>0 DEF Svc
      <4> QED BY <1>0, <2>0, <4>1
    <3>3. others[d] \in Nat
      BY <1>0
    <3>4. CASE at[d] = "idle"
      BY <1>1, <3>1, <3>4 DEF Taken
    <3>5. CASE at[d] = "accepted"
      BY <1>1, <3>1, <3>2, <3>3, <3>5 DEF Taken
    <3>6. CASE at[d] \notin {"idle", "accepted"}
      BY <1>1, <1>2, <3>1, <3>3, <3>6 DEF Taken
    <3> QED BY <3>4, <3>5, <3>6
  <2>2. CASE c = d
    <3>1. at[d] = "push" /\ at'[d] = "refused"
      BY <1>0, <1>10, <2>2 DEF Refused
    <3>2. taken'[d] = "late" \/ (taken'[d] = taken[d] /\ others'[d] = others[d])
      BY <1>0, <1>10, <2>2 DEF Refused
    <3> QED BY <1>1, <3>1, <3>2 DEF Taken
  <2> QED BY <2>1, <2>2
<1>11. ASSUME NEW c \in Calls, Push(c) PROVE Taken(d)'
  <2>0. taken' = taken /\ others' = others /\ k' = k /\ cnt' = cnt
    BY <1>11 DEF Push
  <2>1. CASE c # d
    BY <1>0, <1>3, <1>11, <2>0, <2>1 DEF Push
  <2>2. CASE c = d
    <3>1. at[d] = "idle" /\ at'[d] = "check"
      BY <1>0, <1>11, <2>2 DEF Push
    <3>2. taken[d] = "no"
      BY <1>1, <3>1 DEF Taken
    <3> QED BY <2>0, <3>1, <3>2 DEF Taken
  <2> QED BY <2>1, <2>2
<1>12. ASSUME NEW s \in Svcs, \/ \E i \in Counts : PingSucceeds(s, i) \/ PingFails(s, i)
                              \/ Recover(s)
       PROVE  Taken(d)'
  BY <1>3, <1>12 DEF PingSucceeds, PingFails, Recover
<1>13. CASE UNCHANGED vars
  BY <1>3, <1>13 DEF vars
<1> QED BY <1>6, <1>7, <1>8, <1>9, <1>10, <1>11, <1>12, <1>13 DEF Next, Failover

\* A message that a service has taken is pushed again only after a push that failed
\* all the same, or more than Threshold failures of other callers since.
THEOREM TakenAgainOnlyByOthers == Spec => []TakenAgainByOthers
BY TypeInit, TypeNext, TakenInit, TakenNext, TakenEnough, PTL DEF Spec

=============================================================================
