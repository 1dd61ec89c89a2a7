------------------------------- MODULE Pusher -------------------------------
(***************************************************************************)
(* Pushing a message through one of several services                       *)
(* (internal/component/pusher).                                            *)
(*                                                                         *)
(* RateLimitPusher.Push tries the services in turn, those that are Healthy *)
(* and that the limiter lets through.  FailoverPusher.Push counts the      *)
(* failures in a row of its service, over all callers; above a threshold   *)
(* it marks the service and starts a goroutine that sets it Healthy again  *)
(* when enough pings in a row have succeeded.  The counter is atomic, but  *)
(* it is changed and read in two steps; Healthy is a plain field.          *)
(*                                                                         *)
(* The limiter may answer anything here; SlideWindow is its model.         *)
(***************************************************************************)
EXTENDS Integers

CONSTANTS
  Calls,        \* goroutines that call RateLimitPusher.Push
  NumSvcs,      \* len(r.svcs)
  Attempts,     \* the 10 of "k < 10"
  Threshold,    \* f.threshold
  PingLimit,    \* the 10 of "cnt >= 10"
  MaxPushes,    \* bounds: how many messages are pushed,
  MaxFailures   \* and how many pushes and pings fail

ASSUME PusherAssumption ==
  /\ {NumSvcs, PingLimit} \subseteq Nat \ {0}
  /\ {Attempts, Threshold, MaxPushes, MaxFailures} \subseteq Nat

Svcs == 0..(NumSvcs - 1)

VARIABLES
  \* a service
  healthy,
  cnt,         \* failures in a row
  pinging,     \* how many goroutines of markNotAvailable are at each count
  \* a call
  at,
  k,
  \* history
  taken,       \* has a service taken the message of a call, and did the call
               \* learn of it, "confirmed", or was the answer a failure, "late"?
  others,      \* how often pushes of other calls have failed since
  streak,      \* pings in a row that succeeded since the service was marked
  overlapped,  \* it was marked while it was recovering already
  count        \* how many inputs and faults of each kind there were

svcVars  == <<healthy, cnt, pinging, streak, overlapped>>
callVars == <<at, k, taken, others>>
vars == <<svcVars, callVars, count>>

Kinds == {"push", "failure"}

TypeOK ==
  /\ healthy \in [Svcs -> BOOLEAN]
  /\ cnt \in [Svcs -> Nat]
  /\ pinging \in [Svcs -> [0..PingLimit -> Nat]]
  /\ at \in [Calls -> {"idle", "check", "limit", "push", "accepted", "refused", "mark", "spawn"}]
  /\ k \in [Calls -> 0..Attempts]
  /\ taken \in [Calls -> {"no", "confirmed", "late"}]
  /\ others \in [Calls -> Nat]
  /\ streak \in [Svcs -> Nat]
  /\ overlapped \in [Svcs -> BOOLEAN]
  /\ count \in [Kinds -> Nat]

Init ==
  /\ healthy = [s \in Svcs |-> TRUE]
  /\ cnt = [s \in Svcs |-> 0]
  /\ pinging = [s \in Svcs |-> [i \in 0..PingLimit |-> 0]]
  /\ at = [c \in Calls |-> "idle"]
  /\ k = [c \in Calls |-> 0]
  /\ taken = [c \in Calls |-> "no"]
  /\ others = [c \in Calls |-> 0]
  /\ streak = [s \in Svcs |-> 0]
  /\ overlapped = [s \in Svcs |-> FALSE]
  /\ count = [i \in Kinds |-> 0]

Counted(kind, max) ==
  /\ count[kind] < max
  /\ count' = [count EXCEPT ![kind] = @ + 1]

\* svcs[k%len(r.svcs)]
Svc(c) == k[c] % NumSvcs
Moves(c, from, to) == at[c] = from /\ at' = [at EXCEPT ![c] = to]

\* The next attempt of the loop.
NextAttempt(c, from) ==
  /\ Moves(c, from, "check")
  /\ k' = [k EXCEPT ![c] = @ + 1]
  /\ UNCHANGED <<taken, others>>

Return(c, from) ==
  /\ Moves(c, from, "idle")
  /\ k' = [k EXCEPT ![c] = 0]
  /\ taken' = [taken EXCEPT ![c] = "no"]
  /\ others' = [others EXCEPT ![c] = 0]

-----------------------------------------------------------------------------
(***************************************************************************)
(* RateLimitPusher.Push                                                    *)
(***************************************************************************)

Push(c) ==
  /\ Counted("push", MaxPushes)
  /\ Moves(c, "idle", "check")
  /\ UNCHANGED <<svcVars, k, taken, others>>

\* No attempt is left: PusherError.
GiveUp(c) ==
  /\ k[c] = Attempts
  /\ Return(c, "check")
  /\ UNCHANGED <<svcVars, count>>

\* Mutant: the attempts are not counted while no service is in use.
SkipUnbounded(c) ==
  /\ ~healthy[Svc(c)]
  /\ NextAttempt(c, "check")
  /\ UNCHANGED <<svcVars, count>>

Skip(c) ==
  /\ k[c] < Attempts
  /\ ~healthy[Svc(c)]
  /\ NextAttempt(c, "check")
  /\ UNCHANGED <<svcVars, count>>

AskLimiter(c) ==
  /\ k[c] < Attempts
  /\ healthy[Svc(c)]
  /\ Moves(c, "check", "limit")
  /\ UNCHANGED <<svcVars, k, taken, others, count>>

\* Mutant: asks the limiter again, until it lets the message through.
LimitedRetried(c) ==
  /\ Moves(c, "limit", "check")
  /\ UNCHANGED <<svcVars, k, taken, others, count>>

Limited(c) ==
  /\ NextAttempt(c, "limit")
  /\ UNCHANGED <<svcVars, count>>

\* Not limited, or an error of the limiter, which is only logged.
LetThrough(c) ==
  /\ Moves(c, "limit", "push")
  /\ UNCHANGED <<svcVars, k, taken, others, count>>

-----------------------------------------------------------------------------
(***************************************************************************)
(* FailoverPusher.Push                                                     *)
(***************************************************************************)

\* Mutant: a success leaves the counter as it is.
AcceptedUncounted(c) ==
  /\ Moves(c, "push", "accepted")
  /\ taken' = [taken EXCEPT ![c] = "confirmed"]
  /\ others' = [others EXCEPT ![c] = 0]
  /\ UNCHANGED <<svcVars, k, count>>

\* The push succeeds: the counter is reset ...
Accepted(c) ==
  /\ Moves(c, "push", "accepted")
  /\ cnt' = [cnt EXCEPT ![Svc(c)] = 0]
  /\ taken' = [taken EXCEPT ![c] = "confirmed"]
  /\ others' = [others EXCEPT ![c] = 0]
  /\ UNCHANGED <<healthy, pinging, streak, overlapped, k, count>>

\* ... or fails: one more. The service may have taken the message all the same,
\* when the answer came too late (DeadlineExceeded) or got lost.
Refused(c) == \E late \in BOOLEAN :
  /\ Counted("failure", MaxFailures)
  /\ Moves(c, "push", "refused")
  /\ cnt' = [cnt EXCEPT ![Svc(c)] = @ + 1]
  /\ taken' = [taken EXCEPT ![c] = IF late THEN "late" ELSE @]
  /\ others' = [d \in Calls |-> IF d = c THEN IF late THEN 0 ELSE others[d]
                               ELSE IF at[d] # "idle" THEN others[d] + 1 ELSE others[d]]
  /\ UNCHANGED <<healthy, pinging, streak, overlapped, k>>

\* The counter is read again, with what other callers have done to it.
Succeed(c) ==
  /\ cnt[Svc(c)] <= Threshold
  /\ Return(c, "accepted")
  /\ UNCHANGED <<svcVars, count>>

TryNext(c) ==
  /\ cnt[Svc(c)] <= Threshold
  /\ NextAttempt(c, "refused")
  /\ UNCHANGED <<svcVars, count>>

Exceeded(c) ==
  /\ cnt[Svc(c)] > Threshold
  /\ Moves(c, "accepted", "mark") \/ Moves(c, "refused", "mark")
  /\ UNCHANGED <<svcVars, k, taken, others, count>>

\* Somebody is recovering s already, or is about to.
Recovering(s) ==
  \/ \E i \in 0..PingLimit : pinging[s][i] > 0
  \/ \E c \in Calls : at[c] = "spawn" /\ Svc(c) = s

\* markNotAvailable: Healthy = false ...
Mark(c) ==
  LET s == Svc(c) IN
  /\ Moves(c, "mark", "spawn")
  /\ healthy' = [healthy EXCEPT ![s] = FALSE]
  /\ streak' = [streak EXCEPT ![s] = 0]
  /\ overlapped' = [overlapped EXCEPT ![s] = Recovering(s)]
  /\ UNCHANGED <<cnt, pinging, k, taken, others, count>>

\* ... and a goroutine. PusherError: the next attempt, also of a message that
\* the service has taken.
Spawn(c) ==
  /\ pinging' = [pinging EXCEPT ![Svc(c)][0] = @ + 1]
  /\ NextAttempt(c, "spawn")
  /\ UNCHANGED <<healthy, cnt, streak, overlapped, count>>

-----------------------------------------------------------------------------
(***************************************************************************)
(* Recovery                                                                *)
(***************************************************************************)

\* One of the goroutines of s counts j instead of i.
Recounts(s, i, j) ==
  /\ pinging[s][i] > 0
  /\ pinging' = [pinging EXCEPT ![s] =
       [n \in 0..PingLimit |-> @[n] + (IF n = j THEN 1 ELSE 0) - (IF n = i THEN 1 ELSE 0)]]

PingSucceeds(s, i) ==
  /\ Recounts(s, i, i + 1)
  /\ streak' = [streak EXCEPT ![s] = IF healthy[s] THEN 0 ELSE @ + 1]
  /\ UNCHANGED <<healthy, cnt, overlapped, callVars, count>>

\* Mutants: a failed ping ends the goroutine, or leaves its count.
PingFailsForGood(s, i) ==
  /\ Counted("failure", MaxFailures)
  /\ pinging[s][i] > 0
  /\ pinging' = [pinging EXCEPT ![s][i] = @ - 1]
  /\ streak' = [streak EXCEPT ![s] = 0]
  /\ UNCHANGED <<healthy, cnt, overlapped, callVars>>

PingFailsUncounted(s, i) ==
  /\ Counted("failure", MaxFailures)
  /\ pinging[s][i] > 0
  /\ streak' = [streak EXCEPT ![s] = 0]
  /\ UNCHANGED <<healthy, cnt, pinging, overlapped, callVars>>

PingFails(s, i) ==
  /\ Counted("failure", MaxFailures)
  /\ Recounts(s, i, 0)
  /\ streak' = [streak EXCEPT ![s] = 0]
  /\ UNCHANGED <<healthy, cnt, overlapped, callVars>>

\* Enough pings in a row: the goroutine ends. The failures in a row stay
\* counted, so that the next one marks the service at once.
Recover(s) ==
  /\ pinging[s][PingLimit] > 0
  /\ pinging' = [pinging EXCEPT ![s][PingLimit] = @ - 1]
  /\ healthy' = [healthy EXCEPT ![s] = TRUE]
  /\ UNCHANGED <<cnt, streak, overlapped, callVars, count>>

-----------------------------------------------------------------------------
Attempt(c) == GiveUp(c) \/ Skip(c) \/ AskLimiter(c) \/ Limited(c) \/ LetThrough(c)
Failover(c) == Accepted(c) \/ Succeed(c) \/ TryNext(c) \/ Exceeded(c) \/ Mark(c) \/ Spawn(c)
Counts == 0..(PingLimit - 1)

Next ==
  \/ \E c \in Calls : Push(c) \/ Attempt(c) \/ Failover(c) \/ Refused(c)
  \/ \E s \in Svcs : (\E i \in Counts : PingSucceeds(s, i) \/ PingFails(s, i)) \/ Recover(s)

Spec == Init /\ [][Next]_vars

\* Calls go on and pings are answered. Nothing is assumed of failures.
Fairness ==
  /\ \A c \in Calls : WF_vars(Attempt(c) \/ Failover(c))
  /\ \A s \in Svcs : WF_vars(Recover(s)) /\ \A i \in Counts : WF_vars(PingSucceeds(s, i))

FairSpec == Spec /\ Fairness

-----------------------------------------------------------------------------
(***************************************************************************)
(* Properties                                                              *)
(***************************************************************************)

\* A service that is out of use is on its way back: somebody pings it, or is
\* about to start. No order of marks and recoveries leaves it out for good.
RecoveryUnderWay == \A s \in Svcs : ~healthy[s] => Recovering(s)

\* A service comes back into use only after PingLimit pings in a row since it
\* was marked, unless it was marked while it was recovering: then a goroutine
\* that had counted before may be the one that ends first.
RecoversByPings == [][\A s \in Svcs :
  ~healthy[s] /\ healthy'[s] => streak[s] >= PingLimit \/ overlapped[s]]_vars

\* A message that a service has taken is pushed again for two reasons only: the
\* answer of that push was a failure, or, though it was a success, more than
\* Threshold pushes of other callers have failed since, which can raise the counter
\* again before the caller reads it. Nothing tells the service of the repetition.
TakenAgainByOthers == \A c \in Calls :
  at[c] = "push" /\ taken[c] # "no" => taken[c] = "late" \/ others[c] > Threshold

\* Once nothing fails any more every service is in use, for good, and every
\* call has returned.
AllComeBack == <>[](/\ \A s \in Svcs : healthy[s]
                    /\ \A c \in Calls : at[c] = "idle")

=============================================================================
