----------------------------- MODULE SlideWindow -----------------------------
(***************************************************************************)
(* The rate limiter of the pushers (pkg/ratelimit), for one key, that is,  *)
(* one service.                                                            *)
(*                                                                         *)
(* redis keeps the milliseconds in which requests were let through as a    *)
(* sorted set, with the millisecond as member and as score, and the script *)
(* slide_window.lua forgets those out of its window.  A caller reads its   *)
(* clock before redis runs the script, so that scripts come in another     *)
(* order than the readings; the clocks of the pods are taken to agree.     *)
(***************************************************************************)
EXTENDS Integers, FiniteSets

CONSTANTS
  Calls,     \* goroutines that ask the limiter
  Rate,      \* r.rate
  Window,    \* r.interval, in milliseconds
  MaxLag,    \* how long after the caller read its clock the script runs
  MaxNow     \* bound of the time

ASSUME SlideWindowAssumption == {Rate, Window, MaxLag, MaxNow} \subseteq Nat

VARIABLES
  at,          \* per call: "idle", or its request is on the "way" to redis
  stamp,       \* per call: what it read from its clock
  zset,        \* the sorted set
  expires,     \* when redis drops it
  now,
  admitted     \* history: who was let through, with what reading

vars == <<at, stamp, zset, expires, now, admitted>>

Times == 0..MaxNow

TypeOK ==
  /\ at \in [Calls -> {"idle", "way"}]
  /\ stamp \in [Calls -> Times]
  /\ zset \in SUBSET Times
  /\ expires \in 0..(MaxNow + Window)
  /\ now \in Times
  /\ admitted \in SUBSET (Calls \X Times)

Init ==
  /\ at = [c \in Calls |-> "idle"]
  /\ stamp = [c \in Calls |-> 0]
  /\ zset = {}
  /\ expires = 0
  /\ now = 0
  /\ admitted = {}

InWindow(S, t) == {u \in S : u > t - Window}

\* Limit reads the clock and calls redis.
Limit(c) ==
  /\ at[c] = "idle"
  /\ at' = [at EXCEPT ![c] = "way"]
  /\ stamp' = [stamp EXCEPT ![c] = now]
  /\ UNCHANGED <<zset, expires, now, admitted>>

\* Mutant: counts before it forgets.
LimitedByOld(c) ==
  /\ at[c] = "way"
  /\ at' = [at EXCEPT ![c] = "idle"]
  /\ Cardinality(zset) >= Rate
  /\ zset' = InWindow(zset, stamp[c])
  /\ UNCHANGED <<stamp, expires, now, admitted>>

\* The script, with what is left in the window: "true", limited ...
Limited(c) ==
  LET rest == InWindow(zset, stamp[c]) IN
  /\ at[c] = "way"
  /\ at' = [at EXCEPT ![c] = "idle"]
  /\ Cardinality(rest) >= Rate
  /\ zset' = rest
  /\ UNCHANGED <<stamp, expires, now, admitted>>

\* Mutants: the rate is passed by one; the window is given in other units.
AdmittedOneMore(c) ==
  LET rest == InWindow(zset, stamp[c]) IN
  /\ at[c] = "way"
  /\ at' = [at EXCEPT ![c] = "idle"]
  /\ Cardinality(rest) <= Rate
  /\ zset' = rest \cup {stamp[c]}
  /\ expires' = now + Window
  /\ admitted' = admitted \cup {<<c, stamp[c]>>}
  /\ UNCHANGED <<stamp, now>>

AdmittedForSeconds(c) ==
  LET rest == InWindow(zset, stamp[c]) IN
  /\ at[c] = "way"
  /\ at' = [at EXCEPT ![c] = "idle"]
  /\ Cardinality(rest) < Rate
  /\ zset' = rest \cup {stamp[c]}
  /\ expires' = now + 1000 * Window
  /\ admitted' = admitted \cup {<<c, stamp[c]>>}
  /\ UNCHANGED <<stamp, now>>

\* ... or "false". A millisecond that is a member already counts once more as
\* nothing.
Admitted(c) ==
  LET rest == InWindow(zset, stamp[c]) IN
  /\ at[c] = "way"
  /\ at' = [at EXCEPT ![c] = "idle"]
  /\ Cardinality(rest) < Rate
  /\ zset' = rest \cup {stamp[c]}
  /\ expires' = now + Window
  /\ admitted' = admitted \cup {<<c, stamp[c]>>}
  /\ UNCHANGED <<stamp, now>>

\* Time passes, and the key may expire. No script runs more than MaxLag late.
Tick ==
  /\ now < MaxNow
  /\ \A c \in Calls : at[c] = "way" => now < stamp[c] + MaxLag
  /\ now' = now + 1
  /\ zset' = IF now' >= expires THEN {} ELSE zset
  /\ UNCHANGED <<at, stamp, expires, admitted>>

Next == (\E c \in Calls : Limit(c) \/ Limited(c) \/ Admitted(c)) \/ Tick

Spec == Init /\ [][Next]_vars

-----------------------------------------------------------------------------
(***************************************************************************)
(* Properties                                                              *)
(***************************************************************************)

\* The milliseconds whose requests were let through.
Used == {u \in Times : \E c \in Calls : <<c, u>> \in admitted}

\* In no time of Window - MaxLag does the limiter let through requests of more
\* than Rate different milliseconds, however the scripts of the callers overtake
\* each other and whenever the key expires.
RateKept == \A t \in Used :
  Cardinality({u \in Used : u <= t /\ t - u < Window - MaxLag}) <= Rate

\* A request is limited only when Rate milliseconds of its window are used: what
\* is older does not keep it out.
LimitedWhenFull == [][\A c \in Calls :
  at[c] = "way" /\ at'[c] = "idle" /\ UNCHANGED <<expires, admitted>>
    => Cardinality(InWindow(Used, stamp[c])) >= Rate \/ <<c, stamp[c]>> \in admitted]_vars

=============================================================================
