-------------------------- MODULE SlideWindowProofs --------------------------
(***************************************************************************)
(* Proofs about SlideWindow, for any callers, rate, window and lag.        *)
(***************************************************************************)
EXTENDS SlideWindow, FiniteSetTheorems, TLAPS

LEMMA TimesFinite == IsFiniteSet(Times) /\ Times \subseteq Int
BY SlideWindowAssumption, FS_Interval DEF Times

\* A set of times has no more members than one that includes it.
LEMMA FewerTimes ==
  ASSUME NEW S \in SUBSET Times, NEW T \in SUBSET Times, S \subseteq T
  PROVE  Cardinality(S) <= Cardinality(T) /\ Cardinality(S) \in Nat /\ Cardinality(T) \in Nat
BY TimesFinite, FS_Subset, FS_CardinalityType

LEMMA OneMore ==
  ASSUME NEW S \in SUBSET Times, NEW t \in Times
  PROVE  Cardinality(S \cup {t}) <= Cardinality(S) + 1
<1>1. IsFiniteSet(S)
  BY TimesFinite, FS_Subset
<1>2. Cardinality(S) \in Nat
  BY <1>1, FS_CardinalityType
<1>3. Cardinality(S \cup {t}) = IF t \in S THEN Cardinality(S) ELSE Cardinality(S) + 1
  BY <1>1, FS_AddElement
<1> QED BY <1>2, <1>3

-----------------------------------------------------------------------------
(***************************************************************************)
(* Types                                                                   *)
(***************************************************************************)
LEMMA TypeInit == Init => TypeOK
BY SlideWindowAssumption DEF Init, TypeOK, Times

LEMMA TypeNext == TypeOK /\ [Next]_vars => TypeOK'
<1> SUFFICES ASSUME TypeOK, [Next]_vars PROVE TypeOK'
  OBVIOUS
<1> USE SlideWindowAssumption DEF TypeOK
<1>1. ASSUME NEW c \in Calls, Limit(c) PROVE TypeOK'
  BY <1>1 DEF Limit
<1>2. ASSUME NEW c \in Calls, Limited(c) PROVE TypeOK'
  BY <1>2 DEF Limited, InWindow
<1>3. ASSUME NEW c \in Calls, Admitted(c) PROVE TypeOK'
  <2>1. stamp[c] \in Times /\ now + Window \in 0..(MaxNow + Window)
    BY DEF Times
  <2> QED BY <1>3, <2>1 DEF Admitted, InWindow
<1>4. ASSUME Tick PROVE TypeOK'
  <2>1. now' \in Times
    BY <1>4 DEF Tick, Times
  <2> QED BY <1>4, <2>1 DEF Tick
<1>5. CASE UNCHANGED vars
  BY <1>5 DEF vars
<1> QED BY <1>1, <1>2, <1>3, <1>4, <1>5 DEF Next

\* Every variable keeps its type.
THEOREM TypeCorrect == Spec => []TypeOK
BY TypeInit, TypeNext, PTL DEF Spec

-----------------------------------------------------------------------------
(***************************************************************************)
(* What redis has forgotten is older than the window.                      *)
(***************************************************************************)

\* A script that was read at an earlier time runs on what a later one has left,
\* so the guarantee hangs on what is no longer in the set: it is out of the
\* window of the present time, whether a script or the expiry removed it.
WindowInv ==
  /\ zset \subseteq Used
  /\ \A u \in Used : u <= now /\ u + Window <= expires
  /\ \A u \in Used \ zset : u + Window <= now
  /\ expires <= now + Window
  /\ \A c \in Calls : at[c] = "way" => stamp[c] <= now /\ now <= stamp[c] + MaxLag

LEMMA WindowInit == Init => WindowInv
BY SlideWindowAssumption DEF Init, WindowInv, Used, Times

LEMMA UsedTimes == Used \subseteq Times
BY DEF Used

\* An admission adds the reading of the call and nothing else.
LEMMA UsedAdmitted ==
  ASSUME TypeOK, NEW c \in Calls, Admitted(c)
  PROVE  Used' = Used \cup {stamp[c]}
BY DEF TypeOK, Admitted, Used

LEMMA WindowNext == TypeOK /\ WindowInv /\ [Next]_vars => WindowInv'
<1> SUFFICES ASSUME TypeOK, WindowInv, [Next]_vars PROVE WindowInv'
  OBVIOUS
<1>0. /\ Used \subseteq Int /\ now \in Int /\ expires \in Int /\ zset \subseteq Int
      /\ \A c \in Calls : stamp[c] \in Int
      /\ Window \in Nat /\ MaxLag \in Nat
  BY SlideWindowAssumption, TimesFinite, UsedTimes DEF TypeOK, Times
<1>1. ASSUME NEW c \in Calls, Limit(c) PROVE WindowInv'
  <2>1. Used' = Used
    BY <1>1 DEF Limit, Used
  <2>2. /\ zset' = zset /\ now' = now /\ expires' = expires
        /\ \A d \in Calls : d # c => at'[d] = at[d] /\ stamp'[d] = stamp[d]
        /\ stamp'[c] = now
    BY <1>1 DEF Limit, TypeOK
  <2> QED BY <1>0, <2>1, <2>2 DEF WindowInv
<1>2. ASSUME NEW c \in Calls, Limited(c) PROVE WindowInv'
  <2>1. Used' = Used
    BY <1>2 DEF Limited, Used
  <2>2. /\ now' = now /\ expires' = expires /\ stamp' = stamp
        /\ \A d \in Calls : at'[d] = "way" => at[d] = "way"
        /\ at[c] = "way"
    BY <1>2 DEF Limited, TypeOK
  <2>3. zset' = {u \in zset : u > stamp[c] - Window}
    BY <1>2 DEF Limited, InWindow
  <2>4. \A u \in Used \ zset' : u + Window <= now
    <3> SUFFICES ASSUME NEW u \in Used, u \notin zset' PROVE u + Window <= now
      OBVIOUS
    <3>1. stamp[c] <= now
      BY <2>2 DEF WindowInv
    <3>2. CASE u \notin zset
      BY <3>2 DEF WindowInv
    <3>3. CASE ~(u > stamp[c] - Window)
      BY <1>0, <3>1, <3>3
    <3> QED BY <2>3, <3>2, <3>3
  <2> QED BY <2>1, <2>2, <2>3, <2>4 DEF WindowInv
<1>3. ASSUME NEW c \in Calls, Admitted(c) PROVE WindowInv'
  <2>1. Used' = Used \cup {stamp[c]}
    BY <1>3, UsedAdmitted
  <2>2. /\ now' = now /\ expires' = now + Window /\ stamp' = stamp
        /\ \A d \in Calls : at'[d] = "way" => at[d] = "way"
        /\ at[c] = "way"
    BY <1>3 DEF Admitted, TypeOK
  <2>3. zset' = {u \in zset : u > stamp[c] - Window} \cup {stamp[c]}
    BY <1>3 DEF Admitted, InWindow
  <2>4. \A u \in Used' \ zset' : u + Window <= now
    <3> SUFFICES ASSUME NEW u \in Used', u \notin zset' PROVE u + Window <= now
      OBVIOUS
    <3>1. stamp[c] <= now
      BY <2>2 DEF WindowInv
    <3>2. u \in Used
      BY <2>1, <2>3
    <3>3. CASE u \notin zset
      BY <3>2, <3>3 DEF WindowInv
    <3>4. CASE ~(u > stamp[c] - Window)
      BY <1>0, <3>1, <3>2, <3>4
    <3> QED BY <2>3, <3>3, <3>4
  <2>5. \A u \in Used' : u <= now /\ u + Window <= now + Window
    BY <1>0, <2>1, <2>2 DEF WindowInv
  <2>6. zset' \subseteq Used'
    BY <2>1, <2>3 DEF WindowInv
  <2>7. \A d \in Calls : at'[d] = "way" => stamp'[d] <= now' /\ now' <= stamp'[d] + MaxLag
    BY <2>2 DEF WindowInv
  <2>8. expires' <= now' + Window
    BY <1>0, <2>2
  <2> QED BY <2>2, <2>4, <2>5, <2>6, <2>7, <2>8 DEF WindowInv
<1>4. ASSUME Tick PROVE WindowInv'
  <2>1. Used' = Used
    BY <1>4 DEF Tick, Used
  <2>2. /\ now' = now + 1 /\ expires' = expires /\ stamp' = stamp /\ at' = at
        /\ zset' = IF now + 1 >= expires THEN {} ELSE zset
        /\ \A d \in Calls : at[d] = "way" => now < stamp[d] + MaxLag
    BY <1>4 DEF Tick
  <2>3. zset' \subseteq Used'
    BY <2>1, <2>2 DEF WindowInv
  <2>4. ASSUME NEW u \in Used PROVE u <= now + 1 /\ u + Window <= expires
    BY <1>0 DEF WindowInv
  <2>5. ASSUME NEW u \in Used, u \notin zset' PROVE u + Window <= now + 1
    <3>1. CASE u \notin zset
      <4>1. u + Window <= now /\ u + Window \in Int
        BY <1>0, <3>1 DEF WindowInv
      <4> QED BY <1>0, <4>1
    <3>2. CASE now + 1 >= expires
      <4>1. u + Window <= expires /\ u + Window \in Int
        BY <1>0, <2>4
      <4> QED BY <1>0, <3>2, <4>1
    <3> QED BY <2>2, <2>5, <3>1, <3>2
  <2>6. ASSUME NEW d \in Calls, at[d] = "way"
        PROVE  stamp[d] <= now + 1 /\ now + 1 <= stamp[d] + MaxLag
    <3>1. stamp[d] <= now /\ now < stamp[d] + MaxLag /\ stamp[d] \in Int
      BY <1>0, <2>2, <2>6 DEF WindowInv
    <3> QED BY <1>0, <3>1
  <2>7. expires <= now + 1 + Window
    BY <1>0 DEF WindowInv
  <2> QED BY <2>1, <2>2, <2>3, <2>4, <2>5, <2>6, <2>7 DEF WindowInv
<1>5. CASE UNCHANGED vars
  BY <1>5 DEF vars, WindowInv, Used
<1> QED BY <1>1, <1>2, <1>3, <1>4, <1>5 DEF Next

-----------------------------------------------------------------------------
(***************************************************************************)
(* The rate                                                                *)
(***************************************************************************)

\* The times of the guarantee that end with t.
Recent(U, t) == {u \in U : u <= t /\ t - u < Window - MaxLag}

LEMMA RateInit == Init => RateKept
BY DEF Init, RateKept, Used

LEMMA RateNext == TypeOK /\ WindowInv /\ RateKept /\ [Next]_vars => RateKept'
<1> SUFFICES ASSUME TypeOK, WindowInv, RateKept, [Next]_vars PROVE RateKept'
  OBVIOUS
<1>1. ASSUME NEW c \in Calls, Admitted(c) PROVE RateKept'
  <2> DEFINE s == stamp[c]
             rest == InWindow(zset, s)
  <2>1. Used' = Used \cup {s}
    BY <1>1, UsedAdmitted
  <2>2. /\ s \in Times /\ zset \subseteq Times /\ rest \subseteq Times
        /\ Times \subseteq Int /\ now \in Int /\ Window \in Nat /\ MaxLag \in Nat /\ Rate \in Nat
    BY SlideWindowAssumption, TimesFinite DEF TypeOK, InWindow, Times
  <2>3. /\ at[c] = "way" /\ Cardinality(rest) < Rate
        /\ s <= now /\ now <= s + MaxLag
    BY <1>1 DEF Admitted, WindowInv
  <2>4. ASSUME NEW t \in Used' PROVE Cardinality(Recent(Used', t)) <= Rate
    <3>1. CASE s \in Recent(Used', t)
      <4>1. s <= t /\ t \in Int
        BY <2>1, <2>2, <3>1, UsedTimes DEF Recent
      <4>2. ASSUME NEW u \in Recent(Used', t), u # s PROVE u \in rest
        <5>1. u \in Used /\ u \in Int /\ t - u < Window - MaxLag
          BY <2>1, <2>2, <4>2, UsedTimes DEF Recent
        <5>0. s \in Int /\ now \in Int /\ Window \in Int /\ MaxLag \in Int
          <6> HIDE DEF s
          <6> QED BY <2>2
        <5> HIDE DEF s
        <5>2. u + Window > s + MaxLag
          BY <4>1, <5>0, <5>1
        <5>3. u + Window > now
          BY <2>3, <5>0, <5>1, <5>2
        <5>4. u \in zset
          BY <2>2, <5>1, <5>3 DEF WindowInv
        <5>5. u > s - Window
          BY <5>0, <5>1, <5>2, <2>2
        <5> QED BY <5>4, <5>5 DEF InWindow
      <4>3. Recent(Used', t) \subseteq rest \cup {s}
        BY <4>2
      <4>4. rest \cup {s} \subseteq Times
        BY <2>2
      <4>5. Recent(Used', t) \subseteq Times
        BY <4>3, <4>4
      <4>6. /\ Cardinality(Recent(Used', t)) <= Cardinality(rest \cup {s})
            /\ Cardinality(Recent(Used', t)) \in Nat
            /\ Cardinality(rest \cup {s}) \in Nat
        BY <4>3, <4>4, <4>5, FewerTimes
      <4>7. Cardinality(rest \cup {s}) <= Cardinality(rest) + 1 /\ Cardinality(rest) \in Nat
        BY <2>2, OneMore, FewerTimes
      <4> HIDE DEF rest
      <4> QED BY <2>2, <2>3, <4>6, <4>7
    <3>2. CASE s \notin Recent(Used', t)
      <4>1. Recent(Used', t) = Recent(Used, t)
        BY <2>1, <3>2 DEF Recent
      <4>2. CASE t \in Used
        BY <4>1, <4>2 DEF RateKept, Recent
      <4>3. CASE t = s
        <5>0. s \in Used' /\ s \in Int
          BY <2>1, <2>2
        <5>1. ~(s - s < Window - MaxLag)
          <6> HIDE DEF s
          <6> QED BY <3>2, <4>3, <5>0 DEF Recent
        <5>2. ASSUME NEW u \in Used' PROVE ~(u <= s /\ s - u < Window - MaxLag)
          <6>1. u \in Int /\ s \in Int
            BY <2>1, <2>2, UsedTimes
          <6> HIDE DEF s
          <6> QED BY <2>2, <5>1, <6>1
        <5>3. Recent(Used', t) = {}
          BY <4>3, <5>2 DEF Recent
        <5> QED BY <2>2, <5>3, FS_EmptySet
      <4> QED BY <2>1, <4>2, <4>3
    <3> QED BY <3>1, <3>2
  <2> QED BY <2>4 DEF RateKept, Recent
<1>2. CASE UNCHANGED admitted
  BY <1>2 DEF RateKept, Used
<1>3. CASE UNCHANGED vars
  BY <1>2, <1>3 DEF vars
<1> QED BY <1>1, <1>2, <1>3 DEF Next, Limit, Limited, Tick

\* In no time of Window - MaxLag are requests of more than Rate milliseconds let
\* through, in whatever order the scripts run and whenever the key expires.
THEOREM RateIsKept == Spec => []RateKept
BY TypeInit, TypeNext, WindowInit, WindowNext, RateInit, RateNext, PTL DEF Spec

\* A request is limited only when its window is full.
THEOREM OnlyFullLimits == Spec => LimitedWhenFull
<1>1. TypeOK /\ WindowInv /\ [Next]_vars =>
        [\A c \in Calls :
           at[c] = "way" /\ at'[c] = "idle" /\ UNCHANGED <<expires, admitted>>
             => Cardinality(InWindow(Used, stamp[c])) >= Rate \/ <<c, stamp[c]>> \in admitted]_vars
  <2> SUFFICES ASSUME TypeOK, WindowInv, Next, NEW c \in Calls,
                      at[c] = "way", at'[c] = "idle", UNCHANGED <<expires, admitted>>
               PROVE  Cardinality(InWindow(Used, stamp[c])) >= Rate \/ <<c, stamp[c]>> \in admitted
    OBVIOUS
  <2>1. CASE Limited(c)
    <3>1. InWindow(zset, stamp[c]) \subseteq InWindow(Used, stamp[c])
      BY DEF WindowInv, InWindow
    <3>2. InWindow(zset, stamp[c]) \in SUBSET Times /\ InWindow(Used, stamp[c]) \in SUBSET Times
      BY UsedTimes DEF TypeOK, InWindow
    <3>3. Cardinality(InWindow(zset, stamp[c])) >= Rate
      BY <2>1 DEF Limited
    <3> QED BY <3>1, <3>2, <3>3, FewerTimes, SlideWindowAssumption
  <2>2. CASE Admitted(c)
    BY <2>2 DEF Admitted
  <2>3. ASSUME NEW d \in Calls, d # c, Limited(d) \/ Admitted(d) PROVE FALSE
    BY <2>3 DEF Limited, Admitted, TypeOK
  <2>4. ASSUME NEW d \in Calls, Limit(d) PROVE FALSE
    BY <2>4 DEF Limit, TypeOK
  <2>5. ~Tick
    BY DEF Tick
  <2> QED BY <2>1, <2>2, <2>3, <2>4, <2>5 DEF Next
<1> QED BY TypeInit, TypeNext, WindowInit, WindowNext, <1>1, PTL DEF Spec, LimitedWhenFull

=============================================================================
