--------------------------- MODULE LockController ---------------------------
(***************************************************************************)
(* One pod at a time (internal/lock/lock.go).                              *)
(*                                                                         *)
(* Each pod applies for a lock in redis, a key that expires, signals       *)
(* startCond when it has it, and extends it at every tick of a ticker.     *)
(* Extensions that time out are retried up to a limit.  When extending has *)
(* failed the pod signals stopCond, unlocks, and applies again.            *)
(*                                                                         *)
(* Time is discrete: Tick lets one unit pass for everybody.  It waits for  *)
(* the steps that are due, so that goroutines are never late; of redis'    *)
(* answers to TryLock it is known only that they take at most MaxDelay.    *)
(* The library behind lockClient is not in the repository: a key is        *)
(* extended and deleted for the pod whose name it holds.                   *)
(***************************************************************************)
EXTENDS Integers

CONSTANTS
  Pods,
  NoPod,
  Expiration,       \* LockConfig: the life of the key
  RefreshInterval,  \* LockConfig: the period of the ticker of AutoRefresh
  Timeout,          \* of one Refresh call
  RetryLimit,       \* the 3 of "retryCnt > 3"
  MaxDelay          \* of the answer to TryLock

\* How long the attempts of one tick take that all time out: the ticker's and
\* the retries up to the one that is too many.
AllAttempts == (RetryLimit + 2) * Timeout

ASSUME LockAssumption ==
  /\ NoPod \notin Pods
  /\ {Expiration, RefreshInterval, Timeout, RetryLimit, MaxDelay} \subseteq Nat
  /\ Timeout > 0 /\ Expiration > 0
  \* The attempts of one tick end before the next tick.
  /\ AllAttempts < RefreshInterval

VARIABLES
  \* redis
  owner,     \* the pod whose name the key holds
  ttl,       \* how long the key has to live
  \* a pod
  at,        \* where the goroutine of Run is
  l,         \* whether m.l holds a lock
  started,   \* startCond was signalled, and stopCond not since
  timer,     \* when AutoRefresh's ticker fires next
  retryCh,   \* whether retryCh is full
  retryCnt,
  wait,      \* for how long the Refresh call has been under way
  answer,    \* what redis has done with the call under way
  cancelled, \* whether ctx is done, and the goroutine leaves because of it
  \* history
  since,     \* how long ago redis set or extended the key for the pod
  stopped,   \* Stop has unlocked under the pod's goroutine
  calm       \* there are no faults any more

redisVars == <<owner, ttl>>
loopVars  == <<timer, retryCh, retryCnt, wait>>
histVars  == <<since, stopped, calm>>
vars == <<redisVars, at, l, started, loopVars, answer, cancelled, histVars>>

Places == {"off", "apply", "trying", "select", "refresh", "retry", "stop",
           "unlock", "clear", "blocked", "done"}

TypeOK ==
  /\ owner \in Pods \cup {NoPod}
  /\ ttl \in 0..Expiration
  /\ at \in [Pods -> Places]
  /\ l \in [Pods -> BOOLEAN]
  /\ started \in [Pods -> BOOLEAN]
  /\ timer \in [Pods -> 0..RefreshInterval]
  /\ retryCh \in [Pods -> BOOLEAN]
  /\ retryCnt \in [Pods -> 0..(RetryLimit + 1)]
  /\ wait \in [Pods -> 0..Timeout]
  /\ answer \in [Pods -> {"none", "ok", "refused"}]
  /\ cancelled \in [Pods -> {"no", "yes", "left"}]
  /\ since \in [Pods -> Nat]
  /\ stopped \in [Pods -> BOOLEAN]
  /\ calm \in BOOLEAN

Init ==
  /\ owner = NoPod
  /\ ttl = 0
  /\ at = [p \in Pods |-> "off"]
  /\ l = [p \in Pods |-> FALSE]
  /\ started = [p \in Pods |-> FALSE]
  /\ timer = [p \in Pods |-> 0]
  /\ retryCh = [p \in Pods |-> FALSE]
  /\ retryCnt = [p \in Pods |-> 0]
  /\ wait = [p \in Pods |-> 0]
  /\ answer = [p \in Pods |-> "none"]
  /\ cancelled = [p \in Pods |-> "no"]
  /\ since = [p \in Pods |-> 0]
  /\ stopped = [p \in Pods |-> FALSE]
  /\ calm = FALSE

Moves(p, from, to) == at[p] \in from /\ at' = [at EXCEPT ![p] = to]
InCall(p) == at[p] \in {"refresh", "retry"}
Delete(p) ==
  /\ owner' = IF owner = p THEN NoPod ELSE owner
  /\ ttl' = IF owner = p THEN 0 ELSE ttl

-----------------------------------------------------------------------------
(***************************************************************************)
(* Run and Apply                                                           *)
(***************************************************************************)

Run(p) ==
  /\ Moves(p, {"off"}, "apply")
  /\ UNCHANGED <<redisVars, l, started, loopVars, answer, cancelled, histVars>>

\* A tick of Apply: redis gives the key to p if nobody has it.
TryLock(p) ==
  /\ Moves(p, {"apply"}, "trying")
  /\ IF owner = NoPod
     THEN owner' = p /\ ttl' = Expiration /\ answer' = [answer EXCEPT ![p] = "ok"]
     ELSE UNCHANGED redisVars /\ answer' = [answer EXCEPT ![p] = "refused"]
  /\ since' = [since EXCEPT ![p] = 0]
  /\ stopped' = [stopped EXCEPT ![p] = FALSE]
  /\ UNCHANGED <<l, started, loopVars, cancelled, calm>>

\* Run has a result of Apply, a lock or nil: m.l = lock, the broadcast on
\* startCond, and AutoRefresh with a new ticker.
Start(p, lock) ==
  /\ at' = [at EXCEPT ![p] = "select"]
  /\ l' = [l EXCEPT ![p] = lock]
  /\ started' = [started EXCEPT ![p] = TRUE]
  /\ timer' = [timer EXCEPT ![p] = RefreshInterval]
  /\ retryCh' = [retryCh EXCEPT ![p] = FALSE]
  /\ retryCnt' = [retryCnt EXCEPT ![p] = 0]
  /\ answer' = [answer EXCEPT ![p] = "none"]
  /\ UNCHANGED <<redisVars, wait, cancelled, calm>>

TryLockReturns(p) ==
  /\ at[p] = "trying"
  /\ answer[p] = "ok"
  /\ Start(p, TRUE)
  /\ UNCHANGED <<since, stopped>>

\* ErrFailedToPreemptLock: Apply goes on.
TryLockRefused(p) ==
  /\ Moves(p, {"trying"}, "apply")
  /\ answer[p] = "refused"
  /\ answer' = [answer EXCEPT ![p] = "none"]
  /\ UNCHANGED <<redisVars, l, started, loopVars, cancelled, histVars>>

\* Any other error, before redis has done anything or after it: Apply returns
\* nil and Run logs the error and goes on.
TryLockFails(p) ==
  /\ ~calm
  /\ at[p] \in {"apply", "trying"}
  /\ Start(p, FALSE)
  /\ since' = [since EXCEPT ![p] = 0]
  /\ UNCHANGED stopped

\* ctx is done in Apply's select, or TryLock returns because of it. What redis
\* did stays.
Quit(p) ==
  /\ cancelled[p] # "no"
  /\ Moves(p, {"apply", "trying"}, "done")
  /\ answer' = [answer EXCEPT ![p] = "none"]
  /\ since' = [since EXCEPT ![p] = 0]
  /\ UNCHANGED <<redisVars, l, started, loopVars, cancelled, stopped, calm>>

-----------------------------------------------------------------------------
(***************************************************************************)
(* AutoRefresh                                                             *)
(***************************************************************************)

\* A call of Refresh returns.
Return(p) ==
  /\ wait' = [wait EXCEPT ![p] = 0]
  /\ answer' = [answer EXCEPT ![p] = "none"]
  /\ UNCHANGED <<redisVars, l, started, cancelled, histVars>>

\* The ticker has fired.
Refresh(p) ==
  /\ timer[p] = 0
  /\ l[p]
  /\ Moves(p, {"select"}, "refresh")
  /\ timer' = [timer EXCEPT ![p] = RefreshInterval]
  /\ UNCHANGED <<redisVars, l, started, retryCh, retryCnt, wait, answer, cancelled, histVars>>

\* A signal in retryCh.
Retry(p) ==
  /\ retryCh[p]
  /\ Moves(p, {"select"}, "retry")
  /\ retryCh' = [retryCh EXCEPT ![p] = FALSE]
  /\ retryCnt' = [retryCnt EXCEPT ![p] = @ + 1]
  /\ UNCHANGED <<redisVars, l, started, timer, wait, answer, cancelled, histVars>>

\* Redis extends the key if it still is p's.
Extend(p) ==
  /\ InCall(p)
  /\ answer[p] = "none"
  /\ IF owner = p
     THEN /\ ttl' = Expiration
          /\ since' = [since EXCEPT ![p] = 0]
          /\ answer' = [answer EXCEPT ![p] = "ok"]
     ELSE answer' = [answer EXCEPT ![p] = "refused"] /\ UNCHANGED <<ttl, since>>
  /\ UNCHANGED <<owner, at, l, started, loopVars, cancelled, stopped, calm>>

Refreshed(p) ==
  /\ InCall(p)
  /\ answer[p] = "ok"
  /\ at' = [at EXCEPT ![p] = "select"]
  /\ retryCnt' = [retryCnt EXCEPT ![p] = 0]
  /\ UNCHANGED <<timer, retryCh>>
  /\ Return(p)

\* Mutants: one retry too many, and no limit.
TimesOutAgain(p) ==
  /\ ~calm
  /\ InCall(p)
  /\ wait[p] = Timeout
  /\ IF at[p] = "retry" /\ retryCnt[p] > RetryLimit + 1
     THEN at' = [at EXCEPT ![p] = "stop"] /\ UNCHANGED retryCh
     ELSE /\ at' = [at EXCEPT ![p] = IF retryCh[p] THEN "blocked" ELSE "select"]
          /\ retryCh' = [retryCh EXCEPT ![p] = TRUE]
  /\ UNCHANGED <<timer, retryCnt>>
  /\ Return(p)

TimesOutForever(p) ==
  /\ ~calm
  /\ InCall(p)
  /\ wait[p] = Timeout
  /\ at' = [at EXCEPT ![p] = IF retryCh[p] THEN "blocked" ELSE "select"]
  /\ retryCh' = [retryCh EXCEPT ![p] = TRUE]
  /\ UNCHANGED <<timer, retryCnt>>
  /\ Return(p)

\* DeadlineExceeded: the ticker's call is always retried, a retry up to a limit.
\* A send on retryCh blocks when it is full.
TimesOut(p) ==
  /\ ~calm
  /\ InCall(p)
  /\ wait[p] = Timeout
  /\ IF at[p] = "retry" /\ retryCnt[p] > RetryLimit
     THEN at' = [at EXCEPT ![p] = "stop"] /\ UNCHANGED retryCh
     ELSE /\ at' = [at EXCEPT ![p] = IF retryCh[p] THEN "blocked" ELSE "select"]
          /\ retryCh' = [retryCh EXCEPT ![p] = TRUE]
  /\ UNCHANGED <<timer, retryCnt>>
  /\ Return(p)

\* The lock is not p's any more, or any other error.
RefreshFails(p) ==
  /\ InCall(p)
  /\ answer[p] = "refused" \/ ~calm \/ (cancelled[p] # "no" /\ at[p] = "refresh")
  /\ at' = [at EXCEPT ![p] = "stop"]
  /\ UNCHANGED <<timer, retryCh, retryCnt>>
  /\ Return(p)

\* ctx is done.
Leave(p) ==
  /\ cancelled[p] # "no"
  /\ Moves(p, {"select"}, "stop")
  /\ cancelled' = [cancelled EXCEPT ![p] = "left"]
  /\ UNCHANGED <<redisVars, l, started, loopVars, answer, histVars>>

\* Mutant: stopCond is signalled only after Unlock.
SignalStopLate(p) ==
  /\ Moves(p, {"stop"}, "unlock")
  /\ timer' = [timer EXCEPT ![p] = 0]
  /\ retryCh' = [retryCh EXCEPT ![p] = FALSE]
  /\ retryCnt' = [retryCnt EXCEPT ![p] = 0]
  /\ since' = [since EXCEPT ![p] = 0]
  /\ UNCHANGED <<redisVars, l, started, wait, answer, cancelled, stopped, calm>>

\* AutoRefresh has returned: the broadcast on stopCond, before ...
SignalStop(p) ==
  /\ Moves(p, {"stop"}, "unlock")
  /\ started' = [started EXCEPT ![p] = FALSE]
  /\ timer' = [timer EXCEPT ![p] = 0]
  /\ retryCh' = [retryCh EXCEPT ![p] = FALSE]
  /\ retryCnt' = [retryCnt EXCEPT ![p] = 0]
  /\ since' = [since EXCEPT ![p] = 0]
  /\ UNCHANGED <<redisVars, l, wait, answer, cancelled, stopped, calm>>

\* ... Unlock, which may fail without a consequence, and m.l = nil.
Unlock(p) ==
  /\ l[p]
  /\ Moves(p, {"unlock"}, "clear")
  /\ Delete(p) \/ (~calm /\ UNCHANGED redisVars)
  /\ UNCHANGED <<l, started, loopVars, answer, cancelled, histVars>>

\* Mutant: the loop ends when extending has failed.
ClearAndReturn(p) ==
  /\ Moves(p, {"clear"}, "done")
  /\ l' = [l EXCEPT ![p] = FALSE]
  /\ stopped' = [stopped EXCEPT ![p] = FALSE]
  /\ UNCHANGED <<redisVars, started, loopVars, answer, cancelled, since, calm>>

Clear(p) ==
  /\ Moves(p, {"clear"}, IF cancelled[p] = "left" THEN "done" ELSE "apply")
  /\ l' = [l EXCEPT ![p] = FALSE]
  /\ stopped' = [stopped EXCEPT ![p] = FALSE]
  /\ UNCHANGED <<redisVars, started, loopVars, answer, cancelled, since, calm>>

-----------------------------------------------------------------------------
(***************************************************************************)
(* What happens to a pod, and time                                         *)
(***************************************************************************)

\* The process ends. Its key stays.
End(p) ==
  /\ at' = [at EXCEPT ![p] = "off"]
  /\ l' = [l EXCEPT ![p] = FALSE]
  /\ started' = [started EXCEPT ![p] = FALSE]
  /\ timer' = [timer EXCEPT ![p] = 0]
  /\ retryCh' = [retryCh EXCEPT ![p] = FALSE]
  /\ retryCnt' = [retryCnt EXCEPT ![p] = 0]
  /\ wait' = [wait EXCEPT ![p] = 0]
  /\ answer' = [answer EXCEPT ![p] = "none"]
  /\ cancelled' = [cancelled EXCEPT ![p] = "no"]
  /\ since' = [since EXCEPT ![p] = 0]
  /\ stopped' = [stopped EXCEPT ![p] = FALSE]
  /\ UNCHANGED <<redisVars, calm>>

Crash(p) == ~calm /\ at[p] # "off" /\ End(p)

\* Refresh, or Unlock, is called on a nil lock.
Panic(p) ==
  /\ ~l[p]
  /\ at[p] = "unlock" \/ (at[p] = "select" /\ timer[p] = 0)
  /\ End(p)

Cancel(p) ==
  /\ ~calm
  /\ at[p] \notin {"off", "done"} /\ cancelled[p] = "no"
  /\ cancelled' = [cancelled EXCEPT ![p] = "yes"]
  /\ UNCHANGED <<redisVars, at, l, started, loopVars, answer, histVars>>

\* Stop, in another goroutine.
Stop(p) ==
  /\ ~calm
  /\ l[p]
  /\ Delete(p)
  /\ stopped' = [stopped EXCEPT ![p] = TRUE]
  /\ UNCHANGED <<at, l, started, loopVars, answer, cancelled, since, calm>>

\* The faults are over.
Settle == ~calm /\ calm' = TRUE /\ UNCHANGED <<redisVars, at, l, started, loopVars,
                                              answer, cancelled, since, stopped>>

\* What a goroutine does before any time passes.
Due(p) ==
  \/ at[p] = "select" /\ (timer[p] = 0 \/ retryCh[p] \/ cancelled[p] # "no")
  \/ at[p] = "trying" /\ answer[p] = "ok" /\ since[p] = MaxDelay
  \/ InCall(p) /\ (wait[p] = Timeout \/ answer[p] # "none")
  \/ at[p] = "stop"

Ticking(p) == at[p] \in {"select", "refresh", "retry"}
\* p has the lock, as far as it knows.
Holding(p) == (at[p] = "trying" /\ answer[p] = "ok") \/ (l[p] /\ Ticking(p))
Down(n) == IF n > 0 THEN n - 1 ELSE 0

Tick ==
  /\ \A p \in Pods : ~Due(p)
  /\ ttl' = Down(ttl)
  /\ owner' = IF ttl = 1 THEN NoPod ELSE owner
  /\ timer' = [p \in Pods |-> IF Ticking(p) THEN Down(timer[p]) ELSE timer[p]]
  /\ wait' = [p \in Pods |-> IF InCall(p) THEN wait[p] + 1 ELSE wait[p]]
  /\ since' = [p \in Pods |-> IF Holding(p) THEN since[p] + 1 ELSE since[p]]
  /\ UNCHANGED <<at, l, started, retryCh, retryCnt, answer, cancelled, stopped, calm>>

-----------------------------------------------------------------------------
Apply(p) == TryLock(p) \/ TryLockReturns(p) \/ TryLockRefused(p) \/ TryLockFails(p) \/ Quit(p)
AutoRefresh(p) ==
  \/ Refresh(p) \/ Retry(p) \/ Extend(p) \/ Refreshed(p)
  \/ TimesOut(p) \/ RefreshFails(p) \/ Leave(p)
Release(p) == SignalStop(p) \/ Unlock(p) \/ Clear(p)
Goroutine(p) == Run(p) \/ Apply(p) \/ AutoRefresh(p) \/ Release(p) \/ Panic(p)

Next == \/ \E p \in Pods : Goroutine(p) \/ Crash(p) \/ Cancel(p) \/ Stop(p)
        \/ Settle
        \/ Tick

Spec == Init /\ [][Next]_vars

\* Goroutines are scheduled, redis answers, time passes.
Fairness == WF_vars(Tick) /\ \A p \in Pods : WF_vars(Goroutine(p))
FairSpec == Spec /\ Fairness

-----------------------------------------------------------------------------
(***************************************************************************)
(* Properties                                                              *)
(***************************************************************************)

\* The longest that a pod acts on a lock that redis has not confirmed: answer,
\* interval, and the calls of a tick that all time out.
MaxAge == MaxDelay + RefreshInterval + AllAttempts

Acts(p) == started[p] /\ l[p]

\* Two pods act at once only for a while: whoever still acts when another has
\* the key is one whose key expired, or was deleted by Stop, and gives up
\* MaxAge after it was last confirmed.
BoundedOverlap == \A p \in Pods : Acts(p) =>
  /\ since[p] <= MaxAge
  /\ owner \notin {p, NoPod} => since[p] >= Expiration \/ stopped[p]

\* AutoRefresh never waits for itself: when it puts a signal into retryCh, the
\* former one has been taken.
NeverBlocked == \A p \in Pods : at[p] # "blocked"

\* When the faults are over and redis answers in time, the lock ends up with one
\* pod for good, unless all were told to leave: neither a key that a dead process
\* left nor a pod that believes to have it stays in the way.
Leads(p) == Acts(p) /\ owner = p
InTime == MaxDelay + RefreshInterval + Timeout < Expiration
OneLeads == InTime => <>[](calm =>
  \/ \A p \in Pods : at[p] = "done" /\ cancelled[p] # "no"
  \/ \E p \in Pods : Leads(p))

=============================================================================
