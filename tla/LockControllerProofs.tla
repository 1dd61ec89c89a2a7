------------------------ MODULE LockControllerProofs ------------------------
(***************************************************************************)
(* Proofs about LockController, for any pods and times.                    *)
(***************************************************************************)
EXTENDS LockController, TLAPS

\* How long n calls that time out take.
Lapse(n) == n * Timeout

\* The time since the ticker fired last, or was made.
Elapsed(p) == RefreshInterval - timer[p]

Acting == {"select", "refresh", "retry", "stop"}
HasLock(p) == Holding(p) \/ (l[p] /\ at[p] = "stop")

-----------------------------------------------------------------------------
(***************************************************************************)
(* The invariants                                                          *)
(***************************************************************************)

\* Where the goroutine can be with what it has.
PlaceInv(p) ==
  /\ at[p] # "blocked"
  /\ l[p] => at[p] \in Acting \cup {"unlock", "clear"}
  /\ started[p] => at[p] \in Acting
  /\ InCall(p) => l[p] /\ ~retryCh[p]
  /\ retryCh[p] => l[p] /\ at[p] \in Acting
  /\ ~InCall(p) => wait[p] = 0
  /\ answer[p] # "none" => at[p] = "trying" \/ InCall(p)

\* What a pod has left of its clock tells how many calls of a tick have timed
\* out. While it retries, the confirmation is older than the tick.
TimeInv(p) ==
  /\ at[p] = "trying" /\ answer[p] = "ok" => since[p] <= MaxDelay
  /\ l[p] /\ at[p] = "select" /\ ~retryCh[p] =>
       retryCnt[p] = 0 /\ since[p] <= MaxDelay + Elapsed(p)
  /\ l[p] /\ at[p] = "select" /\ retryCh[p] =>
       /\ retryCnt[p] <= RetryLimit
       /\ Elapsed(p) = Lapse(retryCnt[p] + 1)
       /\ since[p] <= MaxDelay + RefreshInterval + Elapsed(p)
  /\ InCall(p) =>
       /\ IF at[p] = "refresh" THEN retryCnt[p] = 0 ELSE retryCnt[p] > 0
       /\ Elapsed(p) = Lapse(retryCnt[p]) + wait[p]
       /\ since[p] <= MaxDelay + RefreshInterval + Elapsed(p)
       /\ answer[p] = "ok" => since[p] <= wait[p]
  /\ l[p] /\ at[p] = "stop" => since[p] <= MaxAge

\* Redis and the pod count from the same moment.
OwnerInv(p) == HasLock(p) =>
  IF owner = p THEN ttl + since[p] = Expiration
               ELSE since[p] >= Expiration \/ stopped[p]
KeyInv == owner = NoPod <=> ttl = 0

LockInv == TypeOK /\ KeyInv /\ \A p \in Pods : PlaceInv(p) /\ TimeInv(p) /\ OwnerInv(p)

-----------------------------------------------------------------------------
(***************************************************************************)
(* Arithmetic                                                              *)
(***************************************************************************)
LEMMA Constants ==
  /\ Expiration \in Nat /\ RefreshInterval \in Nat /\ Timeout \in Nat /\ RetryLimit \in Nat
  /\ MaxDelay \in Nat /\ Timeout > 0 /\ Expiration > 0 /\ NoPod \notin Pods
  /\ AllAttempts < RefreshInterval
BY LockAssumption

LEMMA LapseStep ==
  ASSUME NEW n \in Nat
  PROVE  /\ Lapse(n) \in Nat /\ Lapse(0) = 0 /\ Lapse(n + 1) = Lapse(n) + Timeout
         /\ Lapse(1) = Timeout
BY Constants DEF Lapse

LEMMA LapseMonotonic ==
  ASSUME NEW m \in Nat, NEW n \in Nat, m <= n
  PROVE  Lapse(m) <= Lapse(n)
<1>1. (n - m) * Timeout >= 0
  BY Constants
<1>2. n * Timeout = m * Timeout + (n - m) * Timeout
  BY Constants
<1>3. n * Timeout \in Int /\ m * Timeout \in Int /\ (n - m) * Timeout \in Int
  BY Constants
<1> QED BY <1>1, <1>2, <1>3 DEF Lapse

\* All the calls of a tick end before the next.
LEMMA LapseBound ==
  /\ AllAttempts = Lapse(RetryLimit + 2) /\ AllAttempts \in Nat
  /\ \A n \in Nat : n <= RetryLimit =>
       Lapse(n) + Timeout <= AllAttempts /\ Lapse(n + 1) + Timeout <= AllAttempts
<1>1. AllAttempts = Lapse(RetryLimit + 2) /\ AllAttempts \in Nat
  BY Constants, LapseStep DEF AllAttempts, Lapse
<1>2. ASSUME NEW n \in Nat, n <= RetryLimit
      PROVE  Lapse(n) + Timeout <= AllAttempts /\ Lapse(n + 1) + Timeout <= AllAttempts
  <2>1. /\ n + 1 \in Nat /\ n + 2 \in Nat /\ RetryLimit + 2 \in Nat
        /\ n + 1 <= RetryLimit + 2 /\ n + 2 <= RetryLimit + 2 /\ n + 1 + 1 = n + 2
    BY <1>2, Constants
  <2>2. Lapse(n + 1) = Lapse(n) + Timeout
    BY LapseStep
  <2>3. Lapse(n + 2) = Lapse(n + 1) + Timeout
    BY <2>1, LapseStep
  <2>4. Lapse(n + 1) <= Lapse(RetryLimit + 2) /\ Lapse(n + 2) <= Lapse(RetryLimit + 2)
    BY <2>1, LapseMonotonic
  <2> QED BY <1>1, <2>2, <2>3, <2>4
<1> QED BY <1>1, <1>2

-----------------------------------------------------------------------------
(***************************************************************************)
(* Steps of one pod                                                        *)
(***************************************************************************)
PodStep(p) == Goroutine(p) \/ Crash(p) \/ Cancel(p) \/ Stop(p)

\* The other pods stay as they are.
Frame(p) == \A q \in Pods : q # p =>
  /\ at'[q] = at[q] /\ l'[q] = l[q] /\ started'[q] = started[q] /\ timer'[q] = timer[q]
  /\ retryCh'[q] = retryCh[q] /\ retryCnt'[q] = retryCnt[q] /\ wait'[q] = wait[q]
  /\ answer'[q] = answer[q] /\ cancelled'[q] = cancelled[q] /\ since'[q] = since[q]
  /\ stopped'[q] = stopped[q]

LEMMA StartFrame ==
  ASSUME TypeOK, NEW p \in Pods, NEW b \in BOOLEAN, Start(p, b)
  PROVE  \A q \in Pods : q # p =>
           /\ at'[q] = at[q] /\ l'[q] = l[q] /\ started'[q] = started[q] /\ timer'[q] = timer[q]
           /\ retryCh'[q] = retryCh[q] /\ retryCnt'[q] = retryCnt[q] /\ wait'[q] = wait[q]
           /\ answer'[q] = answer[q] /\ cancelled'[q] = cancelled[q]
BY DEF TypeOK, Start

LEMMA EndFrame ==
  ASSUME TypeOK, NEW p \in Pods, End(p)
  PROVE  Frame(p)
<1>1. \A q \in Pods : q # p =>
        at'[q] = at[q] /\ l'[q] = l[q] /\ started'[q] = started[q] /\ timer'[q] = timer[q]
  BY DEF TypeOK, End
<1>2. \A q \in Pods : q # p =>
        retryCh'[q] = retryCh[q] /\ retryCnt'[q] = retryCnt[q] /\ wait'[q] = wait[q]
  BY DEF TypeOK, End
<1>3. \A q \in Pods : q # p =>
        /\ answer'[q] = answer[q] /\ cancelled'[q] = cancelled[q] /\ since'[q] = since[q]
        /\ stopped'[q] = stopped[q]
  BY DEF TypeOK, End
<1> QED BY <1>1, <1>2, <1>3 DEF Frame

LEMMA PodFrame ==
  ASSUME TypeOK, NEW p \in Pods, PodStep(p)
  PROVE  Frame(p)
<1> USE DEF Frame, TypeOK, Moves, redisVars, loopVars, histVars
<1>1. CASE Run(p) \/ Quit(p)
  BY <1>1 DEF Run, Quit
<1>2. CASE TryLock(p)
  BY <1>2 DEF TryLock
<1>3. CASE TryLockReturns(p) \/ TryLockFails(p)
  <2>1. \A q \in Pods : q # p => since'[q] = since[q] /\ stopped'[q] = stopped[q]
    BY <1>3 DEF TryLockReturns, TryLockFails
  <2>2. PICK b \in BOOLEAN : Start(p, b)
    BY <1>3 DEF TryLockReturns, TryLockFails
  <2> HIDE DEF TypeOK
  <2> QED BY <2>1, <2>2, StartFrame
<1>4. CASE TryLockRefused(p)
  BY <1>4 DEF TryLockRefused
<1>5. CASE Refresh(p) \/ Retry(p)
  BY <1>5 DEF Refresh, Retry
<1>6. CASE Extend(p)
  BY <1>6 DEF Extend
<1>7. CASE Refreshed(p)
  BY <1>7 DEF Refreshed, Return
<1>8. CASE TimesOut(p)
  BY <1>8 DEF TimesOut, Return
<1>9. CASE RefreshFails(p)
  BY <1>9 DEF RefreshFails, Return
<1>10. CASE Leave(p) \/ Unlock(p) \/ Clear(p)
  BY <1>10 DEF Leave, Unlock, Clear
<1>11. CASE SignalStop(p)
  BY <1>11 DEF SignalStop
<1>12. CASE Panic(p) \/ Crash(p)
  BY <1>12, EndFrame DEF Panic, Crash
<1>13. CASE Cancel(p) \/ Stop(p)
  BY <1>13 DEF Cancel, Stop
<1> HIDE DEF Frame, TypeOK, Moves, redisVars, loopVars, histVars
<1> QED BY <1>1, <1>2, <1>3, <1>4, <1>5, <1>6, <1>7, <1>8, <1>9, <1>10, <1>11, <1>12, <1>13
        DEF PodStep, Goroutine, Apply, AutoRefresh, Release

-----------------------------------------------------------------------------
(***************************************************************************)
(* Types                                                                   *)
(***************************************************************************)
LEMMA LockInit == Init => LockInv
<1> SUFFICES ASSUME Init PROVE LockInv
  OBVIOUS
<1>1. TypeOK
  <2>1. owner = NoPod /\ ttl \in 0..Expiration
    BY Constants DEF Init
  <2>6. calm \in BOOLEAN
    BY DEF Init
  <2>2. at \in [Pods -> Places] /\ answer \in [Pods -> {"none", "ok", "refused"}]
    BY DEF Init, Places
  <2>3. /\ l \in [Pods -> BOOLEAN] /\ started \in [Pods -> BOOLEAN] /\ retryCh \in [Pods -> BOOLEAN]
        /\ stopped \in [Pods -> BOOLEAN] /\ cancelled \in [Pods -> {"no", "yes", "left"}]
    BY DEF Init
  <2>4. timer \in [Pods -> 0..RefreshInterval] /\ wait \in [Pods -> 0..Timeout]
    BY Constants DEF Init
  <2>5. retryCnt \in [Pods -> 0..(RetryLimit + 1)] /\ since \in [Pods -> Nat]
    BY Constants DEF Init
  <2> QED BY <2>1, <2>2, <2>3, <2>4, <2>5, <2>6 DEF TypeOK
<1>2. KeyInv
  BY Constants DEF Init, KeyInv
<1>3. ASSUME NEW p \in Pods PROVE PlaceInv(p) /\ TimeInv(p) /\ OwnerInv(p)
  BY <1>3 DEF Init, PlaceInv, TimeInv, OwnerInv, HasLock, Holding, Ticking, InCall, Acting
<1> QED BY <1>1, <1>2, <1>3 DEF LockInv

\* The types of the variables that End and Start set.
PodTypes ==
  /\ at \in [Pods -> Places] /\ l \in [Pods -> BOOLEAN] /\ started \in [Pods -> BOOLEAN]
  /\ timer \in [Pods -> 0..RefreshInterval] /\ retryCh \in [Pods -> BOOLEAN]
  /\ retryCnt \in [Pods -> 0..(RetryLimit + 1)]
  /\ answer \in [Pods -> {"none", "ok", "refused"}]
OtherTypes ==
  /\ owner \in Pods \cup {NoPod} /\ ttl \in 0..Expiration
  /\ wait \in [Pods -> 0..Timeout] /\ cancelled \in [Pods -> {"no", "yes", "left"}]
  /\ since \in [Pods -> Nat] /\ stopped \in [Pods -> BOOLEAN] /\ calm \in BOOLEAN

LEMMA Types == TypeOK <=> PodTypes /\ OtherTypes
BY DEF TypeOK, PodTypes, OtherTypes

LEMMA EndTypes == ASSUME TypeOK, NEW p \in Pods, End(p) PROVE TypeOK'
<1>1. PodTypes'
  <2>1. at' \in [Pods -> Places] /\ l' \in [Pods -> BOOLEAN] /\ started' \in [Pods -> BOOLEAN]
    BY DEF TypeOK, End, Places
  <2>2. timer' \in [Pods -> 0..RefreshInterval] /\ retryCh' \in [Pods -> BOOLEAN]
    BY Constants DEF TypeOK, End
  <2>3. /\ retryCnt' \in [Pods -> 0..(RetryLimit + 1)]
        /\ answer' \in [Pods -> {"none", "ok", "refused"}]
    BY Constants DEF TypeOK, End
  <2> QED BY <2>1, <2>2, <2>3 DEF PodTypes
<1>2. OtherTypes'
  <2>1. wait' \in [Pods -> 0..Timeout] /\ cancelled' \in [Pods -> {"no", "yes", "left"}]
    BY Constants DEF TypeOK, End
  <2>2. since' \in [Pods -> Nat] /\ stopped' \in [Pods -> BOOLEAN]
    BY DEF TypeOK, End
  <2> QED BY <2>1, <2>2 DEF OtherTypes, TypeOK, End, redisVars
<1> QED BY <1>1, <1>2 DEF PodTypes, OtherTypes, TypeOK

LEMMA StartTypes ==
  ASSUME TypeOK, NEW p \in Pods, NEW b \in BOOLEAN, Start(p, b)
  PROVE  PodTypes' /\ UNCHANGED <<owner, ttl, wait, cancelled, calm>>
<1>1. at' \in [Pods -> Places] /\ l' \in [Pods -> BOOLEAN] /\ started' \in [Pods -> BOOLEAN]
  BY DEF TypeOK, Start, Places
<1>2. timer' \in [Pods -> 0..RefreshInterval] /\ retryCh' \in [Pods -> BOOLEAN]
  BY Constants DEF TypeOK, Start
<1>3. /\ retryCnt' \in [Pods -> 0..(RetryLimit + 1)]
      /\ answer' \in [Pods -> {"none", "ok", "refused"}]
  BY Constants DEF TypeOK, Start
<1> QED BY <1>1, <1>2, <1>3 DEF PodTypes, Start, redisVars

LEMMA DeleteTypes ==
  ASSUME TypeOK, NEW p \in Pods, Delete(p)
  PROVE  owner' \in Pods \cup {NoPod} /\ ttl' \in 0..Expiration
BY Constants DEF TypeOK, Delete

LEMMA ReturnTypes ==
  ASSUME TypeOK, NEW p \in Pods, Return(p)
  PROVE  /\ wait' \in [Pods -> 0..Timeout] /\ answer' \in [Pods -> {"none", "ok", "refused"}]
         /\ UNCHANGED <<owner, ttl, l, started, cancelled, since, stopped, calm>>
<1>1. wait' \in [Pods -> 0..Timeout]
  BY Constants DEF TypeOK, Return
<1>2. answer' \in [Pods -> {"none", "ok", "refused"}]
  BY DEF TypeOK, Return
<1> QED BY <1>1, <1>2 DEF Return, redisVars, histVars

\* A retry is one of those the limit allows.
LEMMA RetryCount ==
  ASSUME LockInv, NEW p \in Pods, Retry(p)
  PROVE  /\ l[p] /\ retryCnt[p] <= RetryLimit
         /\ retryCnt[p] + 1 \in 0..(RetryLimit + 1)
<1>1. l[p] /\ at[p] = "select" /\ retryCh[p]
  BY DEF LockInv, PlaceInv, Retry, Moves
<1>2. retryCnt[p] <= RetryLimit /\ retryCnt[p] \in 0..(RetryLimit + 1)
  BY <1>1 DEF LockInv, TimeInv, TypeOK
<1> QED BY <1>1, <1>2, Constants

LEMMA PodTypesNext == ASSUME LockInv, NEW p \in Pods, PodStep(p) PROVE TypeOK'
<1>0. TypeOK
  BY DEF LockInv
<1> USE DEF Moves, redisVars, loopVars, histVars
<1>1. CASE Run(p) \/ Quit(p)
  <2>1. /\ at' \in [Pods -> Places] /\ answer' \in [Pods -> {"none", "ok", "refused"}]
        /\ since' \in [Pods -> Nat]
    BY <1>0, <1>1 DEF Run, Quit, TypeOK, Places
  <2> QED BY <1>0, <1>1, <2>1 DEF Run, Quit, TypeOK
<1>2. CASE TryLock(p)
  <2>1. at' \in [Pods -> Places] /\ answer' \in [Pods -> {"none", "ok", "refused"}]
    BY <1>0, <1>2 DEF TryLock, TypeOK, Places
  <2>2. since' \in [Pods -> Nat] /\ stopped' \in [Pods -> BOOLEAN]
    BY <1>0, <1>2 DEF TryLock, TypeOK
  <2>3. owner' \in Pods \cup {NoPod} /\ ttl' \in 0..Expiration
    BY <1>0, <1>2, Constants DEF TryLock, TypeOK
  <2> QED BY <1>0, <1>2, <2>1, <2>2, <2>3 DEF TryLock, TypeOK
<1>3. CASE TryLockReturns(p) \/ TryLockFails(p)
  <2>1. since' \in [Pods -> Nat] /\ stopped' \in [Pods -> BOOLEAN]
    <3>1. CASE TryLockReturns(p)
      BY <1>0, <3>1 DEF TryLockReturns, TypeOK
    <3>2. CASE TryLockFails(p)
      BY <1>0, <3>2 DEF TryLockFails, TypeOK
    <3> QED BY <1>3, <3>1, <3>2
  <2>2. PICK b \in BOOLEAN : Start(p, b)
    BY <1>3 DEF TryLockReturns, TryLockFails
  <2>3. PodTypes' /\ UNCHANGED <<owner, ttl, wait, cancelled, calm>>
    BY <1>0, <2>2, StartTypes
  <2>4. OtherTypes
    BY <1>0, Types
  <2>5. OtherTypes'
    BY <2>1, <2>3, <2>4 DEF OtherTypes
  <2> QED BY <2>3, <2>5 DEF PodTypes, OtherTypes, TypeOK
<1>4. CASE TryLockRefused(p)
  <2>1. at' \in [Pods -> Places] /\ answer' \in [Pods -> {"none", "ok", "refused"}]
    BY <1>0, <1>4 DEF TryLockRefused, TypeOK, Places
  <2> QED BY <1>0, <1>4, <2>1 DEF TryLockRefused, TypeOK
<1>5. CASE Refresh(p)
  <2>1. at' \in [Pods -> Places] /\ timer' \in [Pods -> 0..RefreshInterval]
    BY <1>0, <1>5, Constants DEF Refresh, TypeOK, Places
  <2> QED BY <1>0, <1>5, <2>1 DEF Refresh, TypeOK
<1>6. CASE Retry(p)
  <2>1. at' \in [Pods -> Places] /\ retryCh' \in [Pods -> BOOLEAN]
    BY <1>0, <1>6 DEF Retry, TypeOK, Places
  <2>2. retryCnt' \in [Pods -> 0..(RetryLimit + 1)]
    BY <1>0, <1>6, RetryCount DEF Retry, TypeOK
  <2> QED BY <1>0, <1>6, <2>1, <2>2 DEF Retry, TypeOK
<1>7. CASE Extend(p)
  <2>1. ttl' \in 0..Expiration /\ answer' \in [Pods -> {"none", "ok", "refused"}]
    BY <1>0, <1>7, Constants DEF Extend, TypeOK
  <2>2. since' \in [Pods -> Nat]
    BY <1>0, <1>7 DEF Extend, TypeOK
  <2> QED BY <1>0, <1>7, <2>1, <2>2 DEF Extend, TypeOK
<1>8. CASE Refreshed(p) \/ TimesOut(p) \/ RefreshFails(p)
  <2>0. Return(p) /\ timer' = timer
    BY <1>8 DEF Refreshed, TimesOut, RefreshFails
  <2>1. at' \in [Pods -> Places] /\ retryCh' \in [Pods -> BOOLEAN]
    BY <1>0, <1>8 DEF Refreshed, TimesOut, RefreshFails, TypeOK, Places
  <2>2. retryCnt' \in [Pods -> 0..(RetryLimit + 1)]
    BY <1>0, <1>8, Constants DEF Refreshed, TimesOut, RefreshFails, TypeOK
  <2> QED BY <1>0, <2>0, <2>1, <2>2, ReturnTypes DEF TypeOK
<1>9. CASE Leave(p)
  <2>1. at' \in [Pods -> Places] /\ cancelled' \in [Pods -> {"no", "yes", "left"}]
    BY <1>0, <1>9 DEF Leave, TypeOK, Places
  <2> QED BY <1>0, <1>9, <2>1 DEF Leave, TypeOK
<1>10. CASE SignalStop(p)
  <2>1. at' \in [Pods -> Places] /\ started' \in [Pods -> BOOLEAN] /\ retryCh' \in [Pods -> BOOLEAN]
    BY <1>0, <1>10 DEF SignalStop, TypeOK, Places
  <2>2. timer' \in [Pods -> 0..RefreshInterval] /\ retryCnt' \in [Pods -> 0..(RetryLimit + 1)]
    BY <1>0, <1>10, Constants DEF SignalStop, TypeOK
  <2>3. since' \in [Pods -> Nat]
    BY <1>0, <1>10 DEF SignalStop, TypeOK
  <2> QED BY <1>0, <1>10, <2>1, <2>2, <2>3 DEF SignalStop, TypeOK
<1>11. CASE Unlock(p)
  <2>1. at' \in [Pods -> Places]
    BY <1>0, <1>11 DEF Unlock, TypeOK, Places
  <2>2. owner' \in Pods \cup {NoPod} /\ ttl' \in 0..Expiration
    BY <1>0, <1>11, DeleteTypes DEF Unlock, TypeOK
  <2> QED BY <1>0, <1>11, <2>1, <2>2 DEF Unlock, TypeOK
<1>12. CASE Clear(p)
  <2>1. at' \in [Pods -> Places] /\ l' \in [Pods -> BOOLEAN] /\ stopped' \in [Pods -> BOOLEAN]
    BY <1>0, <1>12 DEF Clear, TypeOK, Places
  <2> QED BY <1>0, <1>12, <2>1 DEF Clear, TypeOK
<1>13. CASE Panic(p) \/ Crash(p)
  BY <1>0, <1>13, EndTypes DEF Panic, Crash
<1>14. CASE Cancel(p)
  BY <1>0, <1>14 DEF Cancel, TypeOK
<1>15. CASE Stop(p)
  <2>1. stopped' \in [Pods -> BOOLEAN]
    BY <1>0, <1>15 DEF Stop, TypeOK
  <2> QED BY <1>0, <1>15, <2>1, DeleteTypes DEF Stop, TypeOK
<1> QED BY <1>1, <1>2, <1>3, <1>4, <1>5, <1>6, <1>7, <1>8, <1>9, <1>10, <1>11, <1>12, <1>13, <1>14, <1>15
        DEF PodStep, Goroutine, Apply, AutoRefresh, Release

LEMMA TickTypes == ASSUME LockInv, Tick PROVE TypeOK'
<1>0. TypeOK
  BY DEF LockInv
<1>1. ttl' \in 0..Expiration /\ owner' \in Pods \cup {NoPod}
  BY <1>0, Constants DEF Tick, Down, TypeOK
<1>2. timer' \in [Pods -> 0..RefreshInterval]
  BY <1>0, Constants DEF Tick, Down, TypeOK
<1>3. wait' \in [Pods -> 0..Timeout]
  <2>1. ASSUME NEW p \in Pods, InCall(p) PROVE wait[p] + 1 \in 0..Timeout
    <3>1. wait[p] # Timeout /\ wait[p] \in 0..Timeout
      BY <1>0, <2>1 DEF Tick, Due, TypeOK
    <3> QED BY <3>1, Constants
  <2> QED BY <1>0, <2>1 DEF Tick, TypeOK
<1>4. since' \in [Pods -> Nat]
  BY <1>0 DEF Tick, TypeOK
<1> QED BY <1>0, <1>1, <1>2, <1>3, <1>4 DEF Tick, TypeOK

LEMMA TypeNext == LockInv /\ [Next]_vars => TypeOK'
<1> SUFFICES ASSUME LockInv, [Next]_vars PROVE TypeOK'
  OBVIOUS
<1>1. ASSUME NEW p \in Pods, PodStep(p) PROVE TypeOK'
  BY <1>1, PodTypesNext
<1>2. CASE Settle
  BY <1>2 DEF Settle, LockInv, TypeOK, redisVars, loopVars
<1>3. CASE Tick
  BY <1>3, TickTypes
<1>4. CASE UNCHANGED vars
  BY <1>4 DEF vars, LockInv, TypeOK, redisVars, loopVars, histVars
<1> QED BY <1>1, <1>2, <1>3, <1>4 DEF Next, PodStep

-----------------------------------------------------------------------------
(***************************************************************************)
(* The pod that takes a step                                               *)
(***************************************************************************)
PodInv(p) == PlaceInv(p) /\ TimeInv(p) /\ OwnerInv(p)

LEMMA Numbers ==
  ASSUME TypeOK, NEW p \in Pods
  PROVE  /\ since[p] \in Nat /\ ttl \in Nat /\ ttl <= Expiration
         /\ timer[p] \in Nat /\ timer[p] <= RefreshInterval
         /\ wait[p] \in Nat /\ wait[p] <= Timeout
         /\ retryCnt[p] \in Nat /\ retryCnt[p] <= RetryLimit + 1
         /\ Elapsed(p) \in Nat
<1>1. timer[p] \in 0..RefreshInterval /\ wait[p] \in 0..Timeout /\ ttl \in 0..Expiration
  BY DEF TypeOK
<1>2. retryCnt[p] \in 0..(RetryLimit + 1) /\ since[p] \in Nat
  BY DEF TypeOK
<1> QED BY <1>1, <1>2, Constants DEF Elapsed

\* A pod that does not have the lock, and is not getting it.
LEMMA Without ==
  ASSUME NEW p \in Pods, TypeOK', ~l'[p], ~started'[p] \/ at'[p] \in Acting, at'[p] # "blocked",
         at'[p] \notin {"refresh", "retry"}, ~retryCh'[p], wait'[p] = 0, answer'[p] # "ok",
         answer'[p] # "none" => at'[p] = "trying"
  PROVE  PodInv(p)'
<1>1. PlaceInv(p)'
  BY DEF PlaceInv, InCall, Acting
<1>2. TimeInv(p)'
  BY DEF TimeInv, InCall
<1>3. OwnerInv(p)'
  BY DEF OwnerInv, HasLock, Holding
<1> QED BY <1>1, <1>2, <1>3 DEF PodInv

LEMMA WithoutSteps ==
  ASSUME LockInv, NEW p \in Pods, TypeOK',
         Run(p) \/ Quit(p) \/ TryLockRefused(p) \/ TryLockFails(p) \/ Clear(p) \/ End(p)
  PROVE  PodInv(p)'
<1>0. TypeOK /\ PlaceInv(p)
  BY DEF LockInv
<1> USE DEF Moves, redisVars, loopVars, histVars
<1>1. CASE Run(p) \/ Quit(p) \/ TryLockRefused(p)
  <2>1. /\ at[p] \in {"off", "apply", "trying"} /\ at'[p] \in {"apply", "done"}
        /\ answer'[p] = "none" \/ (answer' = answer /\ at[p] = "off")
        /\ l' = l /\ started' = started /\ retryCh' = retryCh /\ wait' = wait
    BY <1>0, <1>1 DEF Run, Quit, TryLockRefused, TypeOK
  <2>2. ~l[p] /\ ~started[p] /\ ~retryCh[p] /\ wait[p] = 0 /\ (at[p] = "off" => answer[p] = "none")
    BY <1>0, <2>1 DEF PlaceInv, Acting, InCall
  <2>3. ~l'[p] /\ ~started'[p] /\ ~retryCh'[p] /\ wait'[p] = 0 /\ answer'[p] = "none"
    BY <2>1, <2>2
  <2> QED BY <2>1, <2>3, Without
<1>2. CASE TryLockFails(p)
  <2>1. at[p] \in {"apply", "trying"} /\ Start(p, FALSE)
    BY <1>2 DEF TryLockFails
  <2>2. at'[p] = "select" /\ ~l'[p] /\ ~retryCh'[p] /\ answer'[p] = "none" /\ wait' = wait
    BY <1>0, <2>1 DEF Start, TypeOK
  <2>3. wait[p] = 0
    BY <1>0, <2>1 DEF PlaceInv, InCall
  <2> QED BY <2>2, <2>3, Without DEF Acting
<1>3. CASE Clear(p)
  <2>1. /\ at[p] = "clear" /\ at'[p] \in {"apply", "done"} /\ ~l'[p]
        /\ answer' = answer /\ started' = started /\ retryCh' = retryCh /\ wait' = wait
    BY <1>0, <1>3 DEF Clear, TypeOK
  <2>2. ~started[p] /\ wait[p] = 0 /\ answer[p] = "none"
    BY <1>0, <2>1 DEF PlaceInv, Acting, InCall
  <2>3. ~retryCh[p]
    BY <1>0, <2>1 DEF PlaceInv, Acting
  <2> QED BY <2>1, <2>2, <2>3, Without
<1>4. CASE End(p)
  <2>1. at'[p] = "off" /\ ~l'[p] /\ ~started'[p] /\ ~retryCh'[p]
    BY <1>0, <1>4 DEF End, TypeOK
  <2>2. wait'[p] = 0 /\ answer'[p] = "none"
    BY <1>0, <1>4 DEF End, TypeOK
  <2> QED BY <2>1, <2>2, Without
<1> QED BY <1>1, <1>2, <1>3, <1>4

\* The steps to the lock.
LEMMA GetSteps ==
  ASSUME LockInv, NEW p \in Pods, TypeOK', TryLock(p) \/ TryLockReturns(p)
  PROVE  PodInv(p)'
<1>0. TypeOK /\ PlaceInv(p) /\ TimeInv(p) /\ OwnerInv(p) /\ KeyInv
  BY DEF LockInv
<1> USE DEF Moves, redisVars, loopVars
<1>1. CASE TryLock(p)
  <2>1. /\ at[p] = "apply" /\ at'[p] = "trying" /\ since'[p] = 0
        /\ l' = l /\ started' = started /\ retryCh' = retryCh /\ wait' = wait
    BY <1>0, <1>1 DEF TryLock, TypeOK
  <2>2. \/ owner' = p /\ ttl' = Expiration /\ answer'[p] = "ok"
        \/ answer'[p] = "refused"
    BY <1>0, <1>1 DEF TryLock, TypeOK
  <2>3. ~l[p] /\ ~started[p] /\ ~retryCh[p] /\ wait[p] = 0
    BY <1>0, <2>1 DEF PlaceInv, Acting, InCall
  <2>4. PlaceInv(p)'
    BY <2>1, <2>3 DEF PlaceInv, Acting, InCall
  <2>5. TimeInv(p)'
    BY <2>1, <2>3, Constants DEF TimeInv, InCall
  <2>6. OwnerInv(p)'
    BY <2>1, <2>2, <2>3, Constants DEF OwnerInv, HasLock, Holding
  <2> QED BY <2>4, <2>5, <2>6 DEF PodInv
<1>2. CASE TryLockReturns(p)
  <2>0. at[p] = "trying" /\ answer[p] = "ok" /\ Start(p, TRUE) /\ since' = since /\ stopped' = stopped
    BY <1>2 DEF TryLockReturns
  <2>1. /\ at'[p] = "select" /\ l'[p] /\ started'[p] /\ timer'[p] = RefreshInterval
        /\ ~retryCh'[p] /\ retryCnt'[p] = 0 /\ answer'[p] = "none"
    <3>1. at'[p] = "select" /\ l'[p] /\ started'[p] /\ timer'[p] = RefreshInterval
      BY <1>0, <2>0 DEF Start, TypeOK
    <3>2. ~retryCh'[p] /\ retryCnt'[p] = 0 /\ answer'[p] = "none"
      BY <1>0, <2>0 DEF Start, TypeOK
    <3> QED BY <3>1, <3>2
  <2>2. wait[p] = 0 /\ wait' = wait /\ owner' = owner /\ ttl' = ttl
    BY <1>0, <2>0 DEF PlaceInv, InCall, Start
  <2>3. since[p] <= MaxDelay /\ since[p] \in Nat
    BY <1>0, <2>0, Numbers DEF TimeInv
  <2>4. IF owner = p THEN ttl + since[p] = Expiration ELSE since[p] >= Expiration \/ stopped[p]
    BY <1>0, <2>0 DEF OwnerInv, HasLock, Holding
  <2>5. PlaceInv(p)'
    BY <2>1, <2>2 DEF PlaceInv, Acting, InCall
  <2>6. TimeInv(p)'
    BY <2>0, <2>1, <2>3, Constants DEF TimeInv, InCall, Elapsed
  <2>7. OwnerInv(p)'
    BY <2>0, <2>2, <2>4 DEF OwnerInv
  <2> QED BY <2>5, <2>6, <2>7 DEF PodInv
<1> QED BY <1>1, <1>2

\* What redis and the pod agree on stays as long as neither of them changes it.
LEMMA OwnerKept ==
  ASSUME NEW p \in Pods, OwnerInv(p), HasLock(p), owner' = owner, ttl' = ttl,
         since'[p] = since[p], stopped'[p] = stopped[p]
  PROVE  OwnerInv(p)'
BY DEF OwnerInv

\* The calls of Refresh.
LEMMA CallSteps ==
  ASSUME LockInv, NEW p \in Pods, TypeOK', Refresh(p) \/ Retry(p) \/ Extend(p)
  PROVE  PodInv(p)'
<1>0. TypeOK /\ PlaceInv(p) /\ TimeInv(p) /\ OwnerInv(p)
  BY DEF LockInv
<1>n. /\ since[p] \in Nat /\ timer[p] \in Nat /\ wait[p] \in Nat /\ retryCnt[p] \in Nat
      /\ Elapsed(p) \in Nat /\ RefreshInterval \in Nat /\ MaxDelay \in Nat /\ Timeout \in Nat
  BY <1>0, Numbers, Constants
<1> USE DEF Moves, redisVars, loopVars, histVars
<1>1. CASE Refresh(p)
  <2>1. /\ at[p] = "select" /\ l[p] /\ timer[p] = 0
        /\ at'[p] = "refresh" /\ timer'[p] = RefreshInterval
    BY <1>0, <1>1 DEF Refresh, TypeOK
  <2>2. /\ owner' = owner /\ ttl' = ttl /\ l' = l /\ started' = started /\ retryCh' = retryCh
        /\ retryCnt' = retryCnt /\ wait' = wait /\ answer' = answer /\ since' = since /\ stopped' = stopped
    BY <1>1 DEF Refresh
  <2>3. wait[p] = 0 /\ answer[p] = "none"
    BY <1>0, <2>1 DEF PlaceInv, InCall
  <2>4. ~retryCh[p]
    <3>1. ASSUME retryCh[p] PROVE FALSE
      <4>1. retryCnt[p] <= RetryLimit /\ RefreshInterval - 0 = Lapse(retryCnt[p] + 1)
        BY <1>0, <2>1, <3>1 DEF TimeInv, Elapsed
      <4>2. Lapse(retryCnt[p] + 1) + Timeout <= AllAttempts /\ Lapse(retryCnt[p] + 1) \in Nat
        BY <1>n, <4>1, LapseBound, LapseStep
      <4> QED BY <1>n, <4>1, <4>2, Constants, LapseBound
    <3> QED BY <3>1
  <2>5. retryCnt[p] = 0 /\ since[p] <= MaxDelay + (RefreshInterval - 0)
    BY <1>0, <2>1, <2>4 DEF TimeInv, Elapsed
  <2>6. PlaceInv(p)'
    BY <1>0, <2>1, <2>2, <2>4 DEF PlaceInv, InCall, Acting
  <2>7. TimeInv(p)'
    <3>1. Elapsed(p)' = 0 /\ Lapse(0) = 0
      BY <1>n, <2>1, LapseStep DEF Elapsed
    <3>2. since[p] <= MaxDelay + RefreshInterval + 0
      BY <1>n, <2>5
    <3> QED BY <2>1, <2>2, <2>3, <2>5, <3>1, <3>2 DEF TimeInv, InCall
  <2>8. OwnerInv(p)'
    BY <1>0, <2>1, <2>2, OwnerKept DEF HasLock, Holding, Ticking
  <2> QED BY <2>6, <2>7, <2>8 DEF PodInv
<1>2. CASE Retry(p)
  <2>0. l[p] /\ retryCnt[p] <= RetryLimit
    BY <1>2, RetryCount
  <2>1. /\ at[p] = "select" /\ retryCh[p]
        /\ at'[p] = "retry" /\ ~retryCh'[p] /\ retryCnt'[p] = retryCnt[p] + 1
    BY <1>0, <1>2 DEF Retry, TypeOK
  <2>2. /\ owner' = owner /\ ttl' = ttl /\ l' = l /\ started' = started /\ timer' = timer
        /\ wait' = wait /\ answer' = answer /\ since' = since /\ stopped' = stopped
    BY <1>2 DEF Retry
  <2>3. wait[p] = 0 /\ answer[p] = "none"
    BY <1>0, <2>1 DEF PlaceInv, InCall
  <2>4. Elapsed(p) = Lapse(retryCnt[p] + 1) /\ since[p] <= MaxDelay + RefreshInterval + Elapsed(p)
    BY <1>0, <2>0, <2>1 DEF TimeInv
  <2>5. Elapsed(p)' = Elapsed(p)
    BY <2>2 DEF Elapsed
  <2>6. PlaceInv(p)'
    BY <1>0, <2>0, <2>1, <2>2 DEF PlaceInv, InCall, Acting
  <2>7. TimeInv(p)'
    <3>1. Lapse(retryCnt[p] + 1) + 0 = Lapse(retryCnt[p] + 1) /\ retryCnt[p] + 1 > 0
      BY <1>n, LapseStep
    <3> QED BY <2>1, <2>2, <2>3, <2>4, <2>5, <3>1 DEF TimeInv, InCall
  <2>8. OwnerInv(p)'
    BY <1>0, <2>0, <2>1, <2>2, OwnerKept DEF HasLock, Holding, Ticking
  <2> QED BY <2>6, <2>7, <2>8 DEF PodInv
<1>3. CASE Extend(p)
  <2>1. /\ InCall(p) /\ answer[p] = "none"
        /\ owner' = owner /\ at' = at /\ l' = l /\ started' = started /\ timer' = timer
        /\ retryCh' = retryCh /\ retryCnt' = retryCnt /\ wait' = wait /\ stopped' = stopped
    BY <1>3 DEF Extend
  <2>2. l[p] /\ ~retryCh[p] /\ at[p] \in {"refresh", "retry"}
    BY <1>0, <2>1 DEF PlaceInv, InCall
  <2>3. \/ owner = p /\ ttl' = Expiration /\ since'[p] = 0 /\ answer'[p] = "ok"
        \/ owner # p /\ ttl' = ttl /\ since' = since /\ answer'[p] = "refused"
    BY <1>0, <1>3 DEF Extend, TypeOK
  <2>4. PlaceInv(p)'
    BY <1>0, <2>1, <2>2 DEF PlaceInv, InCall, Acting
  <2>5. TimeInv(p)'
    <3>1. /\ IF at[p] = "refresh" THEN retryCnt[p] = 0 ELSE retryCnt[p] > 0
          /\ Elapsed(p) = Lapse(retryCnt[p]) + wait[p]
          /\ since[p] <= MaxDelay + RefreshInterval + Elapsed(p)
      BY <1>0, <2>1 DEF TimeInv
    <3>2. Elapsed(p)' = Elapsed(p)
      BY <2>1 DEF Elapsed
    <3>3. since'[p] <= MaxDelay + RefreshInterval + Elapsed(p) /\ (answer'[p] = "ok" => since'[p] <= wait[p])
      BY <1>n, <2>3, <3>1
    <3> QED BY <2>1, <2>2, <3>1, <3>2, <3>3 DEF TimeInv, InCall
  <2>6. OwnerInv(p)'
    <3>1. HasLock(p)
      BY <2>2 DEF HasLock, Holding, Ticking
    <3>2. IF owner = p THEN ttl + since[p] = Expiration ELSE since[p] >= Expiration \/ stopped[p]
      BY <1>0, <3>1 DEF OwnerInv
    <3> QED BY <2>1, <2>3, <3>2, Constants DEF OwnerInv
  <2> QED BY <2>4, <2>5, <2>6 DEF PodInv
<1> QED BY <1>1, <1>2, <1>3

\* In a call, or between two of them, a pod acts on a confirmation that is not
\* older than MaxAge.
LEMMA NotTooOld ==
  ASSUME LockInv, NEW p \in Pods, InCall(p) \/ (l[p] /\ at[p] = "select")
  PROVE  since[p] <= MaxAge
<1>0. TypeOK /\ TimeInv(p)
  BY DEF LockInv
<1>n. /\ since[p] \in Nat /\ wait[p] \in Nat /\ wait[p] <= Timeout /\ retryCnt[p] \in Nat
      /\ retryCnt[p] <= RetryLimit + 1 /\ Elapsed(p) \in Nat /\ Elapsed(p) <= RefreshInterval
      /\ RefreshInterval \in Nat /\ MaxDelay \in Nat /\ Timeout \in Nat /\ AllAttempts \in Nat
      /\ RetryLimit \in Nat
  <2>1. Elapsed(p) <= RefreshInterval
    BY <1>0, Numbers, Constants DEF Elapsed
  <2> QED BY <1>0, <2>1, Numbers, Constants, LapseBound
<1>1. CASE InCall(p)
  <2>1. /\ Elapsed(p) = Lapse(retryCnt[p]) + wait[p]
        /\ since[p] <= MaxDelay + RefreshInterval + Elapsed(p)
    BY <1>0, <1>1 DEF TimeInv
  <2>2. Lapse(retryCnt[p]) + Timeout <= AllAttempts /\ Lapse(retryCnt[p]) \in Nat
    <3>1. Lapse(retryCnt[p]) \in Nat
      BY <1>n, LapseStep
    <3>2. CASE retryCnt[p] <= RetryLimit
      BY <1>n, <3>1, <3>2, LapseBound
    <3>3. CASE retryCnt[p] = RetryLimit + 1
      BY <1>n, <3>1, <3>3, LapseBound
    <3> QED BY <1>n, <3>1, <3>2, <3>3
  <2>3. Elapsed(p) <= AllAttempts
    BY <1>n, <2>1, <2>2
  <2> QED BY <1>n, <2>1, <2>3 DEF MaxAge
<1>2. CASE l[p] /\ at[p] = "select" /\ ~retryCh[p]
  <2>1. since[p] <= MaxDelay + Elapsed(p)
    BY <1>0, <1>2 DEF TimeInv
  <2> QED BY <1>n, <2>1 DEF MaxAge
<1>3. CASE l[p] /\ at[p] = "select" /\ retryCh[p]
  <2>1. /\ retryCnt[p] <= RetryLimit /\ Elapsed(p) = Lapse(retryCnt[p] + 1)
        /\ since[p] <= MaxDelay + RefreshInterval + Elapsed(p)
    BY <1>0, <1>3 DEF TimeInv
  <2>2. Lapse(retryCnt[p] + 1) + Timeout <= AllAttempts
    BY <1>n, <2>1, LapseBound
  <2>3. Elapsed(p) <= AllAttempts
    BY <1>n, <2>1, <2>2
  <2> QED BY <1>n, <2>1, <2>3 DEF MaxAge
<1> QED BY <1>1, <1>2, <1>3

\* The ends of a call.
LEMMA ReturnSteps ==
  ASSUME LockInv, NEW p \in Pods, TypeOK', Refreshed(p) \/ TimesOut(p) \/ RefreshFails(p)
  PROVE  PodInv(p)'
<1>0. TypeOK /\ PlaceInv(p) /\ TimeInv(p) /\ OwnerInv(p)
  BY DEF LockInv
<1>n. /\ since[p] \in Nat /\ timer[p] \in Nat /\ wait[p] \in Nat /\ wait[p] <= Timeout
      /\ retryCnt[p] \in Nat /\ retryCnt[p] <= RetryLimit + 1
      /\ Elapsed(p) \in Nat /\ RefreshInterval \in Nat /\ MaxDelay \in Nat /\ Timeout \in Nat
      /\ RetryLimit \in Nat
  BY <1>0, Numbers, Constants
<1>1. /\ InCall(p) /\ Return(p) /\ timer' = timer
  BY DEF Refreshed, TimesOut, RefreshFails
<1>2. /\ wait'[p] = 0 /\ answer'[p] = "none"
      /\ owner' = owner /\ ttl' = ttl /\ l' = l /\ started' = started
      /\ since' = since /\ stopped' = stopped
  BY <1>0, <1>1 DEF Return, TypeOK, redisVars, histVars
<1>3. l[p] /\ ~retryCh[p] /\ at[p] \in {"refresh", "retry"}
  BY <1>0, <1>1 DEF PlaceInv, InCall
<1>4. /\ IF at[p] = "refresh" THEN retryCnt[p] = 0 ELSE retryCnt[p] > 0
      /\ Elapsed(p) = Lapse(retryCnt[p]) + wait[p]
      /\ since[p] <= MaxDelay + RefreshInterval + Elapsed(p)
      /\ answer[p] = "ok" => since[p] <= wait[p]
  BY <1>0, <1>1 DEF TimeInv
<1>5. Elapsed(p)' = Elapsed(p) /\ HasLock(p)
  BY <1>1, <1>3 DEF Elapsed, HasLock, Holding, Ticking
<1>6. OwnerInv(p)'
  BY <1>0, <1>2, <1>5, OwnerKept
<1>7. Lapse(retryCnt[p]) \in Nat /\ Lapse(retryCnt[p] + 1) = Lapse(retryCnt[p]) + Timeout
  BY <1>n, LapseStep
\* The pod gives up.
<1>8. ASSUME at'[p] = "stop", retryCh' = retryCh PROVE PodInv(p)'
  <2>1. PlaceInv(p)'
    BY <1>2, <1>3, <1>8 DEF PlaceInv, InCall, Acting
  <2>2. TimeInv(p)'
    BY <1>1, <1>2, <1>8, NotTooOld DEF TimeInv, InCall, MaxAge
  <2> QED BY <1>6, <2>1, <2>2 DEF PodInv
<1>9. CASE Refreshed(p)
  <2>1. at'[p] = "select" /\ retryCnt'[p] = 0 /\ retryCh' = retryCh /\ answer[p] = "ok"
    BY <1>0, <1>9 DEF Refreshed, TypeOK
  <2>2. PlaceInv(p)'
    BY <1>2, <1>3, <2>1 DEF PlaceInv, InCall, Acting
  <2>3. since[p] <= MaxDelay + Elapsed(p)
    BY <1>n, <1>4, <1>7, <2>1
  <2>4. TimeInv(p)'
    BY <1>2, <1>3, <1>5, <2>1, <2>3 DEF TimeInv, InCall
  <2> QED BY <1>6, <2>2, <2>4 DEF PodInv
<1>10. CASE TimesOut(p)
  <2>0. wait[p] = Timeout /\ retryCnt' = retryCnt
    BY <1>10 DEF TimesOut
  <2>1. CASE at[p] = "retry" /\ retryCnt[p] > RetryLimit
    <3>1. at'[p] = "stop" /\ retryCh' = retryCh
      BY <1>0, <1>10, <2>1 DEF TimesOut, TypeOK
    <3> QED BY <1>8, <3>1
  <2>2. CASE ~(at[p] = "retry" /\ retryCnt[p] > RetryLimit)
    <3>1. at'[p] = "select" /\ retryCh'[p]
      BY <1>0, <1>3, <1>10, <2>2 DEF TimesOut, TypeOK
    <3>2. retryCnt[p] <= RetryLimit
      BY <1>n, <1>3, <1>4, <2>2
    <3>3. Elapsed(p) = Lapse(retryCnt[p] + 1)
      BY <1>4, <1>7, <2>0
    <3>4. PlaceInv(p)'
      BY <1>2, <1>3, <3>1 DEF PlaceInv, InCall, Acting
    <3>5. TimeInv(p)'
      BY <1>2, <1>4, <1>5, <2>0, <3>1, <3>2, <3>3 DEF TimeInv, InCall
    <3> QED BY <1>6, <3>4, <3>5 DEF PodInv
  <2> QED BY <2>1, <2>2
<1>11. CASE RefreshFails(p)
  <2>1. at'[p] = "stop" /\ retryCh' = retryCh
    BY <1>0, <1>11 DEF RefreshFails, TypeOK
  <2> QED BY <1>8, <2>1
<1> QED BY <1>9, <1>10, <1>11

\* The ways out.
LEMMA LeaveSteps ==
  ASSUME LockInv, NEW p \in Pods, TypeOK', Leave(p) \/ SignalStop(p) \/ Unlock(p)
  PROVE  PodInv(p)'
<1>0. TypeOK /\ PlaceInv(p) /\ TimeInv(p) /\ OwnerInv(p)
  BY DEF LockInv
<1> USE DEF Moves, redisVars, loopVars, histVars
<1>1. CASE Leave(p)
  <2>1. /\ at[p] = "select" /\ at'[p] = "stop"
        /\ owner' = owner /\ ttl' = ttl /\ l' = l /\ started' = started /\ retryCh' = retryCh
        /\ wait' = wait /\ answer' = answer /\ since' = since /\ stopped' = stopped
    BY <1>0, <1>1 DEF Leave, TypeOK
  <2>2. PlaceInv(p)'
    BY <1>0, <2>1 DEF PlaceInv, InCall, Acting
  <2>3. TimeInv(p)'
    BY <2>1, NotTooOld DEF TimeInv, InCall, MaxAge
  <2>4. CASE l[p]
    <3>1. OwnerInv(p)'
      BY <1>0, <2>1, <2>4, OwnerKept DEF HasLock, Holding, Ticking
    <3> QED BY <2>2, <2>3, <3>1 DEF PodInv
  <2>5. CASE ~l[p]
    <3>1. OwnerInv(p)'
      BY <2>1, <2>5 DEF OwnerInv, HasLock, Holding
    <3> QED BY <2>2, <2>3, <3>1 DEF PodInv
  <2> QED BY <2>4, <2>5
<1>2. CASE SignalStop(p)
  <2>1. /\ at[p] = "stop" /\ at'[p] = "unlock" /\ ~started'[p] /\ ~retryCh'[p]
        /\ l' = l /\ wait' = wait /\ answer' = answer
    BY <1>0, <1>2 DEF SignalStop, TypeOK
  <2>2. PlaceInv(p)'
    BY <1>0, <2>1 DEF PlaceInv, InCall, Acting
  <2>3. TimeInv(p)'
    BY <2>1 DEF TimeInv, InCall
  <2>4. OwnerInv(p)'
    BY <2>1 DEF OwnerInv, HasLock, Holding, Ticking
  <2> QED BY <2>2, <2>3, <2>4 DEF PodInv
<1>3. CASE Unlock(p)
  <2>1. /\ l[p] /\ at[p] = "unlock" /\ at'[p] = "clear"
        /\ l' = l /\ started' = started /\ retryCh' = retryCh /\ wait' = wait /\ answer' = answer
    BY <1>0, <1>3 DEF Unlock, TypeOK
  <2>2. PlaceInv(p)'
    BY <1>0, <2>1 DEF PlaceInv, InCall, Acting
  <2>3. TimeInv(p)'
    BY <2>1 DEF TimeInv, InCall
  <2>4. OwnerInv(p)'
    BY <2>1 DEF OwnerInv, HasLock, Holding, Ticking
  <2> QED BY <2>2, <2>3, <2>4 DEF PodInv
<1> QED BY <1>1, <1>2, <1>3

\* What comes from elsewhere.
LEMMA ElsewhereSteps ==
  ASSUME LockInv, NEW p \in Pods, TypeOK', Cancel(p) \/ Stop(p)
  PROVE  PodInv(p)'
<1>0. TypeOK /\ PlaceInv(p) /\ TimeInv(p) /\ OwnerInv(p)
  BY DEF LockInv
<1>1. /\ at' = at /\ l' = l /\ started' = started /\ timer' = timer /\ retryCh' = retryCh
      /\ retryCnt' = retryCnt /\ wait' = wait /\ answer' = answer /\ since' = since
  BY DEF Cancel, Stop, loopVars, histVars
<1>2. PlaceInv(p)'
  BY <1>0, <1>1 DEF PlaceInv, InCall
<1>3. TimeInv(p)'
  BY <1>0, <1>1 DEF TimeInv, InCall, Elapsed
<1>4. HasLock(p)' <=> HasLock(p)
  BY <1>1 DEF HasLock, Holding, Ticking
<1>5. OwnerInv(p)'
  <2>1. CASE Cancel(p)
    BY <1>0, <1>1, <1>4, <2>1 DEF Cancel, OwnerInv, redisVars, histVars
  <2>2. CASE Stop(p)
    <3>1. stopped'[p] /\ owner' # p
      BY <1>0, <2>2, Constants DEF Stop, Delete, TypeOK
    <3> QED BY <3>1 DEF OwnerInv
  <2> QED BY <2>1, <2>2
<1> QED BY <1>2, <1>3, <1>5 DEF PodInv

LEMMA OwnNext == ASSUME LockInv, NEW p \in Pods, TypeOK', PodStep(p) PROVE PodInv(p)'
BY WithoutSteps, GetSteps, CallSteps, ReturnSteps, LeaveSteps, ElsewhereSteps
   DEF PodStep, Goroutine, Apply, AutoRefresh, Release, Panic, Crash

-----------------------------------------------------------------------------
(***************************************************************************)
(* The other pods, the key and time                                        *)
(***************************************************************************)

\* A pod gives a key to itself, extends its own and deletes its own.
LEMMA KeySteps ==
  ASSUME LockInv, NEW p \in Pods, PodStep(p)
  PROVE  \/ owner' = owner /\ ttl' = ttl
         \/ owner = NoPod /\ owner' = p /\ ttl' = Expiration
         \/ owner = p /\ owner' = p /\ ttl' = Expiration
         \/ owner = p /\ owner' = NoPod /\ ttl' = 0
<1> USE DEF redisVars, loopVars, histVars
<1>1. CASE TryLock(p)
  BY <1>1 DEF TryLock
<1>2. CASE Extend(p)
  BY <1>2 DEF Extend
<1>3. CASE Unlock(p) \/ Stop(p)
  BY <1>3 DEF Unlock, Stop, Delete
<1>4. CASE Run(p) \/ Quit(p) \/ TryLockReturns(p) \/ TryLockRefused(p) \/ TryLockFails(p)
  BY <1>4 DEF Run, Quit, TryLockReturns, TryLockRefused, TryLockFails, Start
<1>5. CASE Refresh(p) \/ Retry(p) \/ Refreshed(p) \/ TimesOut(p) \/ RefreshFails(p) \/ Leave(p)
  BY <1>5 DEF Refresh, Retry, Refreshed, TimesOut, RefreshFails, Leave, Return
<1>6. CASE SignalStop(p) \/ Clear(p) \/ Panic(p) \/ Crash(p) \/ Cancel(p)
  BY <1>6 DEF SignalStop, Clear, Panic, Crash, Cancel, End
<1> QED BY <1>1, <1>2, <1>3, <1>4, <1>5, <1>6
        DEF PodStep, Goroutine, Apply, AutoRefresh, Release

LEMMA OtherNext ==
  ASSUME LockInv, NEW p \in Pods, PodStep(p), NEW q \in Pods, q # p
  PROVE  PodInv(q)'
<1>0. PlaceInv(q) /\ TimeInv(q) /\ OwnerInv(q) /\ TypeOK
  BY DEF LockInv
<1>1. /\ at'[q] = at[q] /\ l'[q] = l[q] /\ started'[q] = started[q] /\ timer'[q] = timer[q]
      /\ retryCh'[q] = retryCh[q] /\ retryCnt'[q] = retryCnt[q] /\ wait'[q] = wait[q]
      /\ answer'[q] = answer[q] /\ since'[q] = since[q] /\ stopped'[q] = stopped[q]
  BY <1>0, PodFrame DEF Frame
<1>2. PlaceInv(q)'
  BY <1>0, <1>1 DEF PlaceInv, InCall
<1>3. TimeInv(q)'
  BY <1>0, <1>1 DEF TimeInv, InCall, Elapsed
<1>4. HasLock(q)' <=> HasLock(q)
  BY <1>1 DEF HasLock, Holding, Ticking
<1>5. \/ owner' = owner /\ ttl' = ttl
      \/ owner # q /\ owner' # q
  <2>1. \/ owner' = owner /\ ttl' = ttl
        \/ owner = NoPod /\ owner' = p
        \/ owner = p /\ owner' \in {p, NoPod}
    BY KeySteps
  <2> QED BY <2>1, Constants
<1>6. OwnerInv(q)'
  BY <1>0, <1>1, <1>4, <1>5 DEF OwnerInv
<1> QED BY <1>2, <1>3, <1>6 DEF PodInv

LEMMA TickNext ==
  ASSUME LockInv, NEW p \in Pods, Tick
  PROVE  PodInv(p)'
<1>0. PlaceInv(p) /\ TimeInv(p) /\ OwnerInv(p) /\ TypeOK /\ KeyInv
  BY DEF LockInv
<1>n. /\ since[p] \in Nat /\ timer[p] \in Nat /\ wait[p] \in Nat /\ wait[p] <= Timeout
      /\ timer[p] <= RefreshInterval /\ ttl \in Nat /\ Expiration \in Nat
      /\ retryCnt[p] \in Nat /\ retryCnt[p] <= RetryLimit + 1
      /\ Elapsed(p) \in Nat /\ RefreshInterval \in Nat /\ MaxDelay \in Nat /\ Timeout \in Nat
  BY <1>0, Numbers, Constants
<1>1. /\ at' = at /\ l' = l /\ started' = started /\ retryCh' = retryCh /\ retryCnt' = retryCnt
      /\ answer' = answer /\ stopped' = stopped
      /\ ~Due(p)
      /\ ttl' = Down(ttl) /\ owner' = IF ttl = 1 THEN NoPod ELSE owner
      /\ timer'[p] = IF Ticking(p) THEN Down(timer[p]) ELSE timer[p]
      /\ wait'[p] = IF InCall(p) THEN wait[p] + 1 ELSE wait[p]
      /\ since'[p] = IF Holding(p) THEN since[p] + 1 ELSE since[p]
  BY <1>0 DEF Tick, TypeOK
<1>2. PlaceInv(p)'
  BY <1>0, <1>1 DEF PlaceInv, InCall
\* The ticker does not fire while the calls of a tick go on, and it fires
\* before time passes.
<1>3. ASSUME Ticking(p), l[p] PROVE timer[p] > 0
  <2>1. CASE at[p] = "select"
    BY <1>n, <1>1, <2>1 DEF Due
  <2>2. CASE InCall(p)
    <3>1. Elapsed(p) = Lapse(retryCnt[p]) + wait[p]
      BY <1>0, <2>2 DEF TimeInv
    <3>2. wait[p] # Timeout
      BY <1>1, <2>2 DEF Due
    <3>3. Lapse(retryCnt[p]) + Timeout <= AllAttempts /\ Lapse(retryCnt[p]) \in Nat
      <4>1. Lapse(retryCnt[p]) \in Nat
        BY <1>n, LapseStep
      <4>2. CASE retryCnt[p] <= RetryLimit
        BY <1>n, <4>1, <4>2, LapseBound
      <4>3. CASE retryCnt[p] = RetryLimit + 1
        BY <1>n, <4>1, <4>3, LapseBound, Constants
      <4> QED BY <1>n, <4>2, <4>3, Constants
    <3>4. Elapsed(p) < RefreshInterval
      BY <1>n, <3>1, <3>2, <3>3, Constants, LapseBound
    <3> QED BY <1>n, <3>4 DEF Elapsed
  <2> QED BY <1>3, <2>1, <2>2 DEF Ticking, InCall
<1>4. ASSUME Ticking(p), l[p] PROVE Elapsed(p)' = Elapsed(p) + 1 /\ since'[p] = since[p] + 1
  <2>1. timer'[p] = timer[p] - 1
    BY <1>n, <1>1, <1>3, <1>4 DEF Down
  <2>2. RefreshInterval - (timer[p] - 1) = RefreshInterval - timer[p] + 1
    BY <1>n
  <2> QED BY <1>1, <1>4, <2>1, <2>2 DEF Elapsed, Holding
<1>5. ASSUME at[p] = "trying" PROVE ~l[p] /\ (answer[p] = "ok" => since'[p] = since[p] + 1)
  BY <1>0, <1>1, <1>5 DEF PlaceInv, Acting, Holding
<1>6. TimeInv(p)'
  <2>1. CASE at[p] = "trying"
    <3>1. answer[p] = "ok" => since'[p] <= MaxDelay
      <4> SUFFICES ASSUME answer[p] = "ok" PROVE since'[p] <= MaxDelay
        OBVIOUS
      <4>1. since[p] <= MaxDelay /\ since[p] # MaxDelay
        BY <1>0, <1>1, <2>1 DEF TimeInv, Due
      <4> QED BY <1>n, <1>5, <2>1, <4>1
    <3> QED BY <1>1, <2>1, <3>1 DEF TimeInv, InCall
  <2>2. CASE l[p] /\ at[p] = "select"
    <3>1. ~retryCh[p]
      BY <1>1, <2>2 DEF Due
    <3>2. retryCnt[p] = 0 /\ since[p] <= MaxDelay + Elapsed(p)
      BY <1>0, <2>2, <3>1 DEF TimeInv
    <3>3. Elapsed(p)' = Elapsed(p) + 1 /\ since'[p] = since[p] + 1
      BY <1>4, <2>2 DEF Ticking
    <3>4. since'[p] <= MaxDelay + (Elapsed(p) + 1)
      BY <1>n, <3>2, <3>3
    <3> QED BY <1>1, <2>2, <3>1, <3>2, <3>3, <3>4 DEF TimeInv, InCall
  <2>3. CASE InCall(p)
    <3>0. l[p] /\ Ticking(p) /\ wait'[p] = wait[p] + 1 /\ answer[p] = "none"
      BY <1>0, <1>1, <2>3 DEF PlaceInv, Due, InCall, Ticking
    <3>1. /\ IF at[p] = "refresh" THEN retryCnt[p] = 0 ELSE retryCnt[p] > 0
          /\ Elapsed(p) = Lapse(retryCnt[p]) + wait[p]
          /\ since[p] <= MaxDelay + RefreshInterval + Elapsed(p)
      BY <1>0, <2>3 DEF TimeInv
    <3>2. Elapsed(p)' = Elapsed(p) + 1 /\ since'[p] = since[p] + 1
      BY <1>4, <3>0
    <3>3. Lapse(retryCnt[p]) \in Nat
      BY <1>n, LapseStep
    <3>4. /\ Elapsed(p) + 1 = Lapse(retryCnt[p]) + (wait[p] + 1)
          /\ since[p] + 1 <= MaxDelay + RefreshInterval + (Elapsed(p) + 1)
      BY <1>n, <3>1, <3>3
    <3> QED BY <1>1, <2>3, <3>0, <3>1, <3>2, <3>4 DEF TimeInv, InCall
  <2>4. CASE at[p] \notin {"trying", "select", "refresh", "retry"}
    <3>1. at[p] # "stop"
      BY <1>1 DEF Due
    <3> QED BY <1>1, <2>4, <3>1 DEF TimeInv, InCall
  <2>5. CASE at[p] = "select" /\ ~l[p]
    BY <1>1, <2>5 DEF TimeInv, InCall
  <2> QED BY <2>1, <2>2, <2>3, <2>4, <2>5 DEF InCall
<1>7. OwnerInv(p)'
  <2> SUFFICES ASSUME HasLock(p)'
               PROVE  (IF owner = p THEN ttl + since[p] = Expiration
                                    ELSE since[p] >= Expiration \/ stopped[p])'
    BY DEF OwnerInv
  <2>1. at[p] # "stop"
    BY <1>1 DEF Due
  <2>2. Holding(p)
    BY <1>1, <2>1 DEF HasLock, Holding, Ticking
  <2>3. IF owner = p THEN ttl + since[p] = Expiration ELSE since[p] >= Expiration \/ stopped[p]
    BY <1>0, <2>2 DEF OwnerInv, HasLock
  <2>4. since'[p] = since[p] + 1
    BY <1>1, <2>2
  <2>5. CASE owner = p
    <3>1. ttl > 0 /\ ttl' = ttl - 1 /\ ttl + since[p] = Expiration
      BY <1>0, <1>n, <1>1, <2>3, <2>5, Constants DEF KeyInv, Down
    <3>2. CASE ttl = 1
      <4>1. owner' # p /\ since[p] + 1 >= Expiration
        BY <1>n, <1>1, <3>1, <3>2, Constants
      <4> QED BY <2>4, <4>1
    <3>3. CASE ttl # 1
      <4>1. owner' = p /\ (ttl - 1) + (since[p] + 1) = Expiration
        BY <1>n, <1>1, <2>5, <3>1, <3>3
      <4> QED BY <2>4, <3>1, <4>1
    <3> QED BY <3>2, <3>3
  <2>6. CASE owner # p
    <3>1. owner' # p
      BY <1>1, <2>6, Constants
    <3>2. since[p] >= Expiration => since[p] + 1 >= Expiration
      BY <1>n
    <3> QED BY <1>1, <2>3, <2>4, <2>6, <3>1, <3>2
  <2> QED BY <2>5, <2>6
<1> QED BY <1>2, <1>6, <1>7 DEF PodInv

LEMMA KeyNext == LockInv /\ [Next]_vars => KeyInv'
<1> SUFFICES ASSUME LockInv, [Next]_vars PROVE KeyInv'
  OBVIOUS
<1>0. KeyInv /\ ttl \in Nat /\ ttl \in 0..Expiration
  BY Constants DEF LockInv, TypeOK
<1>1. ASSUME NEW p \in Pods, PodStep(p) PROVE KeyInv'
  BY <1>0, <1>1, KeySteps, Constants DEF KeyInv
<1>2. CASE Settle
  BY <1>0, <1>2 DEF Settle, KeyInv, redisVars
<1>3. CASE Tick
  BY <1>0, <1>3 DEF Tick, Down, KeyInv
<1>4. CASE UNCHANGED vars
  BY <1>0, <1>4 DEF vars, KeyInv, redisVars
<1> QED BY <1>1, <1>2, <1>3, <1>4 DEF Next, PodStep

LEMMA LockNext == LockInv /\ [Next]_vars => LockInv'
<1> SUFFICES ASSUME LockInv, [Next]_vars PROVE LockInv'
  OBVIOUS
<1>0. TypeOK' /\ KeyInv'
  BY TypeNext, KeyNext
<1> SUFFICES ASSUME NEW q \in Pods PROVE PodInv(q)'
  BY <1>0 DEF LockInv, PodInv
<1>1. ASSUME NEW p \in Pods, PodStep(p) PROVE PodInv(q)'
  BY <1>0, <1>1, OwnNext, OtherNext
<1>2. CASE Tick
  BY <1>2, TickNext
<1>3. PodInv(q)
  BY DEF LockInv, PodInv
<1>4. CASE Settle
  BY <1>3, <1>4 DEF Settle, PodInv, PlaceInv, TimeInv, OwnerInv, HasLock, Holding, Ticking, InCall,
                    Elapsed, redisVars, loopVars
<1>5. CASE UNCHANGED vars
  BY <1>3, <1>5 DEF vars, PodInv, PlaceInv, TimeInv, OwnerInv, HasLock, Holding, Ticking, InCall,
                    Elapsed, redisVars, loopVars, histVars
<1> QED BY <1>1, <1>2, <1>4, <1>5 DEF Next, PodStep

-----------------------------------------------------------------------------
(***************************************************************************)
(* The theorems                                                            *)
(***************************************************************************)

LEMMA LockAlways == Spec => []LockInv
BY LockInit, LockNext, PTL DEF Spec

\* Every variable keeps its type; the retries never pass the limit and no call
\* lasts longer than its timeout.
THEOREM TypeCorrect == Spec => []TypeOK
<1>1. LockInv => TypeOK
  BY DEF LockInv
<1> QED BY LockAlways, <1>1, PTL

\* Two pods act at once only for a while, whatever the times are.
THEOREM OverlapIsBounded == Spec => []BoundedOverlap
<1>1. LockInv => BoundedOverlap
  <2> SUFFICES ASSUME LockInv, NEW p \in Pods, Acts(p)
               PROVE  /\ since[p] <= MaxAge
                      /\ owner \notin {p, NoPod} => since[p] >= Expiration \/ stopped[p]
    BY DEF BoundedOverlap
  <2>1. l[p] /\ at[p] \in Acting
    BY DEF Acts, LockInv, PlaceInv
  <2>2. since[p] <= MaxAge
    <3>1. CASE at[p] = "stop"
      BY <2>1, <3>1 DEF LockInv, TimeInv
    <3>2. CASE at[p] # "stop"
      BY <2>1, <3>2, NotTooOld DEF Acting, InCall
    <3> QED BY <3>1, <3>2
  <2>3. HasLock(p)
    BY <2>1 DEF HasLock, Holding, Ticking, Acting
  <2>4. owner # p => since[p] >= Expiration \/ stopped[p]
    BY <2>3 DEF LockInv, OwnerInv
  <2> QED BY <2>2, <2>4
<1> QED BY LockAlways, <1>1, PTL

\* AutoRefresh never waits for itself.
THEOREM SignalsAreTaken == Spec => []NeverBlocked
<1>1. LockInv => NeverBlocked
  BY DEF LockInv, PlaceInv, NeverBlocked
<1> QED BY LockAlways, <1>1, PTL

=============================================================================
