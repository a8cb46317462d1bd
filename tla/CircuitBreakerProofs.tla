------------------------ MODULE CircuitBreakerProofs ------------------------
(***************************************************************************)
(* Proofs about module CircuitBreaker, for any number of callers and any   *)
(* thresholds.                                                             *)
(*                                                                         *)
(* The inductive invariant Inv adds Streaks to the properties TLC checks:  *)
(* the counters of the code are exactly the lengths of the current runs of *)
(* equal outcomes, as far as the state the breaker is in needs them.       *)
(***************************************************************************)
EXTENDS CircuitBreaker, TLAPS

(* While closed, fails is the exact length of the current run of failures  *)
(* and short of its threshold; while half open, the last oks outcomes were *)
(* successes and the threshold is not reached.                             *)
Streaks ==
    /\ cb.state = "closed" =>
        /\ cb.fails < FailureThreshold
        /\ EndsWith(history, cb.fails, "fail")
        /\ Len(history) = cb.fails \/ history[Len(history) - cb.fails] = "ok"
    /\ cb.state = "half_open" =>
        /\ cb.oks < SuccessThreshold
        /\ EndsWith(history, cb.oks, "ok")

Inv == TypeOK /\ Streaks /\ HalfOpenAccounted

-----------------------------------------------------------------------------
(* The methods of a breaker keep its record well formed.                   *)

LEMMA AllowType ==
    ASSUME NEW b \in BreakerRecord
    PROVE  AfterAllow(b) \in BreakerRecord
  BY BreakerAssumption DEF AfterAllow, Transition, BreakerRecord, States

LEMMA SuccessType ==
    ASSUME NEW b \in BreakerRecord
    PROVE  AfterSuccess(b) \in BreakerRecord
  BY BreakerAssumption DEF AfterSuccess, Counting, Transition, Bump, BreakerRecord, States

LEMMA FailureType ==
    ASSUME NEW b \in BreakerRecord
    PROVE  AfterFailure(b) \in BreakerRecord
  BY BreakerAssumption DEF AfterFailure, Counting, Trip, Bump, BreakerRecord, States

LEMMA TickType ==
    ASSUME NEW b \in BreakerRecord
    PROVE  AfterTick(b) \in BreakerRecord
  BY BreakerAssumption DEF AfterTick, Bump, BreakerRecord, States

LEMMA WindowType ==
    /\ Window \in Nat \ {0}
    /\ Window >= FailureThreshold
    /\ Window >= SuccessThreshold
  BY BreakerAssumption DEF Window

-----------------------------------------------------------------------------
(* The trailing window, indexed from its end: the new outcome is last, and *)
(* the one k places before it is the one k-1 places before the old end.    *)
LEMMA LatestOutcome ==
    ASSUME NEW h \in Seq({"ok", "fail"}), NEW o \in {"ok", "fail"},
           NEW w \in Nat \ {0}, Len(h) <= w
    PROVE  LET t == Latest(Append(h, o), w)
           IN /\ t \in Seq({"ok", "fail"})
              /\ Len(t) = IF Len(h) < w THEN Len(h) + 1 ELSE w
              /\ t[Len(t)] = o
              /\ \A k \in 1 .. Len(t) - 1 : t[Len(t) - k] = h[Len(h) - k + 1]
<1> DEFINE a == Append(h, o)
           t == Latest(a, w)
<1>1. /\ a \in Seq({"ok", "fail"})
      /\ Len(a) = Len(h) + 1
      /\ a[Len(a)] = o
      /\ \A i \in 1 .. Len(h) : a[i] = h[i]
  OBVIOUS
<1>2. CASE Len(h) < w
  <2>1. t = a
    BY <1>1, <1>2 DEF Latest
  <2> QED
    BY <1>1, <1>2, <2>1
<1>3. CASE ~(Len(h) < w)
  <2>1. /\ Len(h) = w
        /\ t = SubSeq(a, 2, w + 1)
    BY <1>1, <1>3 DEF Latest
  <2>2. /\ t \in Seq({"ok", "fail"})
        /\ Len(t) = w
        /\ \A i \in 1 .. w : t[i] = a[i + 1]
    BY <1>1, <2>1
  <2> QED
    BY <1>1, <1>3, <2>1, <2>2
<1> QED
  BY <1>2, <1>3

-----------------------------------------------------------------------------
(* Recording an outcome that does not change the state keeps the history   *)
(* well formed and moves every entry one place from the end.               *)
LEMMA RecordedType ==
    ASSUME TypeOK, NEW o \in {"ok", "fail"}, Recorded(o)
    PROVE  history' \in Seq({"ok", "fail"}) /\ Len(history') <= Window
<1> USE WindowType DEF TypeOK
<1>1. CASE cb'.state = cb.state
  <2>1. history' = Latest(Append(history, o), Window)
    BY <1>1 DEF Recorded
  <2> QED
    BY <2>1, LatestOutcome
<1>2. CASE cb'.state # cb.state
  BY <1>2 DEF Recorded
<1> QED
  BY <1>1, <1>2

LEMMA TypeInductive ==
    ASSUME TypeOK, [Next]_vars
    PROVE  TypeOK'
<1> USE DEF TypeOK
<1>1. ASSUME NEW c \in Callers, Allow(c) PROVE TypeOK'
  <2>1. cb' \in BreakerRecord
    BY <1>1, AllowType DEF Allow
  <2>2. req' \in [Callers -> {"idle", "admitted", "probe"}]
    BY <1>1 DEF Allow
  <2>3. history' \in Seq({"ok", "fail"}) /\ Len(history') <= Window
    BY <1>1, WindowType DEF Allow
  <2> QED
    BY <2>1, <2>2, <2>3
<1>2. ASSUME NEW c \in Callers, RecordSuccess(c) PROVE TypeOK'
  <2>1. cb' \in BreakerRecord
    BY <1>2, SuccessType DEF RecordSuccess
  <2>2. req' \in [Callers -> {"idle", "admitted", "probe"}]
    BY <1>2 DEF RecordSuccess
  <2> QED
    BY <1>2, <2>1, <2>2, RecordedType DEF RecordSuccess
<1>3. ASSUME NEW c \in Callers, RecordFailure(c) PROVE TypeOK'
  <2>1. cb' \in BreakerRecord
    BY <1>3, FailureType DEF RecordFailure
  <2>2. req' \in [Callers -> {"idle", "admitted", "probe"}]
    BY <1>3 DEF RecordFailure
  <2> QED
    BY <1>3, <2>1, <2>2, RecordedType DEF RecordFailure
<1>4. CASE Tick
  BY <1>4, TickType DEF Tick
<1>5. CASE UNCHANGED vars
  BY <1>5 DEF vars
<1> QED
  BY <1>1, <1>2, <1>3, <1>4, <1>5 DEF Next

LEMMA InitInv == Init => Inv
<1> SUFFICES ASSUME Init PROVE Inv
  OBVIOUS
<1>1. TypeOK
  BY BreakerAssumption, WindowType
  DEF Init, TypeOK, NewBreaker, BreakerRecord, States
<1>2. Streaks
  BY BreakerAssumption DEF Init, Streaks, NewBreaker, EndsWith
<1>3. HalfOpenAccounted
  BY DEF Init, HalfOpenAccounted, NewBreaker
<1> QED
  BY <1>1, <1>2, <1>3 DEF Inv

-----------------------------------------------------------------------------
(* What one outcome does to the runs of equal outcomes.                    *)

LEMMA RunGrows ==
    ASSUME NEW h \in Seq({"ok", "fail"}), NEW o \in {"ok", "fail"},
           NEW w \in Nat \ {0}, Len(h) <= w,
           NEW n \in Nat, n < w, EndsWith(h, n, o)
    PROVE  EndsWith(Latest(Append(h, o), w), n + 1, o)
<1> DEFINE t == Latest(Append(h, o), w)
<1>1. /\ t \in Seq({"ok", "fail"})
      /\ Len(t) = IF Len(h) < w THEN Len(h) + 1 ELSE w
      /\ t[Len(t)] = o
      /\ \A k \in 1 .. Len(t) - 1 : t[Len(t) - k] = h[Len(h) - k + 1]
  BY LatestOutcome, ZenonT(60)
<1>2. Len(t) >= n + 1
  BY <1>1 DEF EndsWith
<1> HIDE DEF t
<1>3. ASSUME NEW i \in Len(t) - (n + 1) + 1 .. Len(t) PROVE t[i] = o
  <2>1. CASE i = Len(t)
    BY <1>1, <2>1
  <2>2. CASE i # Len(t)
    <3> DEFINE k == Len(t) - i
    <3>1. k \in 1 .. Len(t) - 1 /\ k <= n /\ i = Len(t) - k
      BY <1>1, <1>2, <2>2
    <3>2. t[i] = h[Len(h) - k + 1]
      BY <1>1, <3>1
    <3>3. Len(h) - k + 1 \in Len(h) - n + 1 .. Len(h)
      BY <3>1
    <3> QED
      BY <3>2, <3>3 DEF EndsWith
  <2> QED
    BY <2>1, <2>2
<1> QED
  BY <1>2, <1>3 DEF EndsWith, t

-----------------------------------------------------------------------------
LEMMA StreaksInductive ==
    ASSUME Inv, [Next]_vars
    PROVE  Streaks'
<1> USE BreakerAssumption, WindowType DEF Inv, TypeOK
<1>1. ASSUME NEW c \in Callers, Allow(c) PROVE Streaks'
  <2>1. CASE cb.state = "closed"
    BY <1>1, <2>1 DEF Allow, AfterAllow, Streaks
  <2>2. CASE cb.state = "open"
    BY <1>1, <2>2 DEF Allow, AllowResult, AfterAllow, Transition, Streaks, EndsWith
  <2>3. CASE cb.state = "half_open"
    BY <1>1, <2>3 DEF Allow, AllowResult
  <2> QED
    BY <2>1, <2>2, <2>3 DEF BreakerRecord, States
<1>2. ASSUME NEW c \in Callers, RecordSuccess(c) PROVE Streaks'
  <2> DEFINE t == Latest(Append(history, "ok"), Window)
  <2>1. cb' = AfterSuccess(cb) /\ Recorded("ok")
    BY <1>2 DEF RecordSuccess
  <2>2. CASE cb.state = "closed"
    <3>1. cb'.state = "closed" /\ cb'.fails = 0 /\ history' = t
      BY <2>1, <2>2 DEF AfterSuccess, Counting, Recorded
    <3>2. t \in Seq({"ok", "fail"}) /\ Len(t) >= 1 /\ t[Len(t)] = "ok"
      BY LatestOutcome
    <3> QED
      BY <3>1, <3>2 DEF Streaks, EndsWith
  <2>3. CASE cb.state = "open"
    BY <2>1, <2>3 DEF AfterSuccess, Counting, Streaks
  <2>4. CASE cb.state = "half_open" /\ cb.oks + 1 < SuccessThreshold
    <3>1. cb'.state = "half_open" /\ cb'.oks = cb.oks + 1 /\ history' = t
      BY <2>1, <2>4 DEF AfterSuccess, Counting, Bump, Recorded, BreakerRecord
    <3>2. cb.oks \in Nat /\ cb.oks < Window /\ EndsWith(history, cb.oks, "ok")
      BY <2>4 DEF Streaks, BreakerRecord
    <3>3. EndsWith(t, cb.oks + 1, "ok")
      BY <3>2, RunGrows
    <3> QED
      BY <2>4, <3>1, <3>3 DEF Streaks
  <2>5. CASE cb.state = "half_open" /\ ~(cb.oks + 1 < SuccessThreshold)
    BY <2>1, <2>5 DEF AfterSuccess, Counting, Bump, Transition, Recorded,
                      BreakerRecord, Streaks, EndsWith
  <2> QED
    BY <2>2, <2>3, <2>4, <2>5 DEF BreakerRecord, States
<1>3. ASSUME NEW c \in Callers, RecordFailure(c) PROVE Streaks'
  <2> DEFINE t == Latest(Append(history, "fail"), Window)
  <2>1. cb' = AfterFailure(cb) /\ Recorded("fail")
    BY <1>3 DEF RecordFailure
  <2>2. CASE cb.state = "closed" /\ cb.fails + 1 < FailureThreshold
    <3>1. cb'.state = "closed" /\ cb'.fails = cb.fails + 1 /\ history' = t
      BY <2>1, <2>2 DEF AfterFailure, Counting, Bump, Recorded, BreakerRecord
    <3>2. /\ cb.fails \in Nat /\ cb.fails + 1 < Window
          /\ EndsWith(history, cb.fails, "fail")
          /\ Len(history) = cb.fails \/ history[Len(history) - cb.fails] = "ok"
      BY <2>2 DEF Streaks, BreakerRecord
    <3>3. EndsWith(t, cb.fails + 1, "fail")
      BY <3>2, RunGrows
    <3>4. /\ Len(t) = IF Len(history) < Window THEN Len(history) + 1 ELSE Window
          /\ \A k \in 1 .. Len(t) - 1 : t[Len(t) - k] = history[Len(history) - k + 1]
      BY LatestOutcome
    <3> HIDE DEF t
    <3>5. Len(t) = cb.fails + 1 \/ t[Len(t) - (cb.fails + 1)] = "ok"
      <4>1. CASE Len(history) = cb.fails
        BY <3>2, <3>4, <4>1
      <4>2. CASE Len(history) # cb.fails
        <5>1. Len(history) > cb.fails /\ history[Len(history) - cb.fails] = "ok"
          BY <3>2, <4>2 DEF EndsWith
        <5>2. cb.fails + 1 \in 1 .. Len(t) - 1
          BY <3>2, <3>4, <5>1
        <5>3. t[Len(t) - (cb.fails + 1)] = history[Len(history) - (cb.fails + 1) + 1]
          BY <3>4, <5>2
        <5>4. Len(history) - (cb.fails + 1) + 1 = Len(history) - cb.fails
          BY <3>2
        <5> QED
          BY <5>1, <5>3, <5>4
      <4> QED
        BY <4>1, <4>2
    <3> QED
      BY <2>2, <3>1, <3>3, <3>5 DEF Streaks
  <2>3. CASE cb.state = "closed" /\ ~(cb.fails + 1 < FailureThreshold)
    BY <2>1, <2>3 DEF AfterFailure, Counting, Bump, Trip, BreakerRecord, Streaks
  <2>4. CASE cb.state = "open"
    BY <2>1, <2>4 DEF AfterFailure, Counting, Streaks
  <2>5. CASE cb.state = "half_open"
    BY <2>1, <2>5 DEF AfterFailure, Counting, Trip, Streaks
  <2> QED
    BY <2>2, <2>3, <2>4, <2>5 DEF BreakerRecord, States
<1>4. CASE Tick
  BY <1>4 DEF Tick, AfterTick, Streaks, BreakerRecord
<1>5. CASE UNCHANGED vars
  BY <1>5 DEF vars, Streaks
<1> QED
  BY <1>1, <1>2, <1>3, <1>4, <1>5 DEF Next

-----------------------------------------------------------------------------
LEMMA AccountedInductive ==
    ASSUME Inv, [Next]_vars
    PROVE  HalfOpenAccounted'
<1> USE BreakerAssumption DEF Inv, TypeOK, Probes, HalfOpenAccounted
<1>1. ASSUME NEW c \in Callers, Allow(c) PROVE HalfOpenAccounted'
  <2>1. CASE cb.state = "open"
    <3>1. req'[c] = "probe"
      BY <1>1, <2>1 DEF Allow
    <3> QED
      BY <3>1
  <2>2. CASE cb.state # "open"
    BY <1>1, <2>2 DEF Allow, AllowResult, AfterAllow
  <2> QED
    BY <2>1, <2>2
<1>2. ASSUME NEW c \in Callers, RecordSuccess(c) PROVE HalfOpenAccounted'
  <2>1. cb'.state = "half_open" => cb'.oks > 0
    BY <1>2 DEF RecordSuccess, AfterSuccess, Counting, Bump, Transition, BreakerRecord
  <2> QED
    BY <2>1
<1>3. ASSUME NEW c \in Callers, RecordFailure(c) PROVE HalfOpenAccounted'
  <2>1. cb'.state # "half_open"
    BY <1>3 DEF RecordFailure, AfterFailure, Counting, Trip, BreakerRecord, States
  <2> QED
    BY <2>1
<1>4. CASE Tick
  BY <1>4 DEF Tick, AfterTick, BreakerRecord
<1>5. CASE UNCHANGED vars
  BY <1>5 DEF vars
<1> QED
  BY <1>1, <1>2, <1>3, <1>4, <1>5 DEF Next

(* The inductive invariant.                                                *)
THEOREM Invariance == Spec => []Inv
<1>1. Init => Inv
  BY InitInv
<1>2. Inv /\ [Next]_vars => Inv'
  BY TypeInductive, StreaksInductive, AccountedInductive DEF Inv
<1> QED
  BY <1>1, <1>2, PTL DEF Spec

(* Counters, age and history stay within their bounds, for any thresholds  *)
(* and any number of callers (RecordSuccess, RecordFailure, transition).   *)
THEOREM TypeCorrect == Spec => []TypeOK
<1>1. Inv => TypeOK
  BY DEF Inv
<1> QED
  BY <1>1, Invariance, PTL

(* A breaker that became half open and has counted no success still has    *)
(* its probe in flight (Allow, RecordFailure).                             *)
THEOREM ProbeAccounted == Spec => []HalfOpenAccounted
<1>1. Inv => HalfOpenAccounted
  BY DEF Inv
<1> QED
  BY <1>1, Invariance, PTL

(* A closed breaker never holds FailureThreshold consecutive failures: the *)
(* counter RecordFailure compares is the exact length of the current run.  *)
THEOREM TripNeverMissed == Spec => []NoMissedTrip
<1>1. Inv => NoMissedTrip
  <2> SUFFICES ASSUME Inv, cb.state = "closed",
                      EndsWith(history, FailureThreshold, "fail")
               PROVE  FALSE
    BY DEF NoMissedTrip
  <2>1. /\ cb.fails \in Nat
        /\ cb.fails < FailureThreshold
        /\ Len(history) = cb.fails \/ history[Len(history) - cb.fails] = "ok"
    BY DEF Inv, TypeOK, BreakerRecord, Streaks
  <2>2. /\ Len(history) \in Nat
        /\ Len(history) >= FailureThreshold
        /\ \A i \in Len(history) - FailureThreshold + 1 .. Len(history) :
              history[i] = "fail"
    BY DEF Inv, TypeOK, EndsWith
  <2>3. history[Len(history) - cb.fails] = "fail"
    BY <2>1, <2>2, BreakerAssumption
  <2> QED
    BY <2>1, <2>2, <2>3, BreakerAssumption
<1> QED
  BY <1>1, Invariance, PTL

(* The breaker changes state only on the evidence its Config names.        *)
THEOREM EvidenceForTransitions == Spec => TransitionsNeedEvidence
<1> DEFINE Evidence ==
        cb'.state # cb.state =>
        \/ /\ cb.state = "closed" /\ cb'.state = "open"
           /\ EndsWith(history, FailureThreshold - 1, "fail")
           /\ cb'.age = 0
        \/ /\ cb.state = "open" /\ cb'.state = "half_open"
           /\ cb.age = ResetTimeout
           /\ \E c \in Callers : req[c] = "idle" /\ req'[c] = "probe"
        \/ /\ cb.state = "half_open" /\ cb'.state = "closed"
           /\ EndsWith(history, SuccessThreshold - 1, "ok")
        \/ /\ cb.state = "half_open" /\ cb'.state = "open"
           /\ cb'.age = 0
           Waits == (cb.state = "open" /\ cb'.state = "open") => cb'.age >= cb.age
           E == Evidence /\ Waits
<1>1. Inv /\ [Next]_vars => [E]_vars
  <2> SUFFICES ASSUME Inv, Next PROVE Evidence /\ Waits
    BY DEF vars
  <2> USE BreakerAssumption DEF Inv, TypeOK
  <2>1. ASSUME NEW c \in Callers, Allow(c) PROVE Evidence
    <3>1. CASE cb.state = "open"
      <4>1. /\ cb.age = ResetTimeout
            /\ req[c] = "idle" /\ req'[c] = "probe"
        BY <2>1, <3>1 DEF Allow, AllowResult, BreakerRecord
      <4>2. cb'.state = "half_open"
        BY <2>1, <3>1, <4>1 DEF Allow, AfterAllow, Transition
      <4> QED
        BY <3>1, <4>1, <4>2
    <3>2. CASE cb.state # "open"
      BY <2>1, <3>2 DEF Allow, AfterAllow
    <3> QED
      BY <3>1, <3>2
  <2>2. ASSUME NEW c \in Callers, RecordSuccess(c) PROVE Evidence
    <3>1. CASE cb.state = "half_open" /\ cb.oks + 1 >= SuccessThreshold
      <4>1. EndsWith(history, SuccessThreshold - 1, "ok")
        <5>1. cb.oks = SuccessThreshold - 1
          BY <3>1 DEF Streaks, BreakerRecord
        <5> QED
          BY <3>1, <5>1 DEF Streaks
      <4>2. cb'.state = "closed"
        BY <2>2, <3>1 DEF RecordSuccess, AfterSuccess, Counting, Bump, Transition,
                          BreakerRecord, Streaks
      <4> QED
        BY <3>1, <4>1, <4>2
    <3>2. CASE ~(cb.state = "half_open" /\ cb.oks + 1 >= SuccessThreshold)
      BY <2>2, <3>2 DEF RecordSuccess, AfterSuccess, Counting, Bump, BreakerRecord,
                        Streaks
    <3> QED
      BY <3>1, <3>2
  <2>3. ASSUME NEW c \in Callers, RecordFailure(c) PROVE Evidence
    <3>1. CASE cb.state = "half_open"
      BY <2>3, <3>1 DEF RecordFailure, AfterFailure, Counting, Trip
    <3>2. CASE cb.state = "closed" /\ cb.fails + 1 >= FailureThreshold
      <4>1. EndsWith(history, FailureThreshold - 1, "fail")
        <5>1. cb.fails = FailureThreshold - 1
          BY <3>2 DEF Streaks, BreakerRecord
        <5> QED
          BY <3>2, <5>1 DEF Streaks
      <4>2. cb'.state = "open" /\ cb'.age = 0
        BY <2>3, <3>2 DEF RecordFailure, AfterFailure, Counting, Bump, Trip,
                          BreakerRecord, Streaks
      <4> QED
        BY <3>2, <4>1, <4>2
    <3>3. CASE ~(cb.state = "half_open"
                 \/ (cb.state = "closed" /\ cb.fails + 1 >= FailureThreshold))
      BY <2>3, <3>3 DEF RecordFailure, AfterFailure, Counting, Bump, BreakerRecord,
                        Streaks
    <3> QED
      BY <3>1, <3>2, <3>3
  <2>4. CASE Tick
    BY <2>4 DEF Tick, AfterTick, Bump, BreakerRecord
  <2>5. ASSUME NEW c \in Callers, Allow(c) PROVE Waits
    BY <2>5 DEF Allow, AfterAllow, Transition, BreakerRecord
  <2>6. ASSUME NEW c \in Callers, RecordSuccess(c) PROVE Waits
    BY <2>6 DEF RecordSuccess, AfterSuccess, Counting, Transition, BreakerRecord
  <2>7. ASSUME NEW c \in Callers, RecordFailure(c) PROVE Waits
    BY <2>7 DEF RecordFailure, AfterFailure, Counting, Trip, BreakerRecord
  <2> QED
    BY <2>1, <2>2, <2>3, <2>4, <2>5, <2>6, <2>7 DEF Next
<1> QED
  BY <1>1, Invariance, PTL DEF Spec, TransitionsNeedEvidence

(* With a SuccessThreshold of 1 the breaker cannot wedge: whenever it is   *)
(* half open its probe is in flight.  (The code's default is 2.)           *)
THEOREM NoWedgeWithOneSuccess ==
    ASSUME SuccessThreshold = 1
    PROVE  Spec => []~Wedged
<1>1. Inv => ~Wedged
  <2> SUFFICES ASSUME Inv, Wedged PROVE FALSE
    OBVIOUS
  <2>1. cb.oks = 0
    BY DEF Inv, TypeOK, BreakerRecord, Streaks, Wedged
  <2> QED
    BY <2>1 DEF Inv, HalfOpenAccounted, Wedged, Probes, InFlight
<1> QED
  BY <1>1, Invariance, PTL

-----------------------------------------------------------------------------
(* The breaker implements its contract: every step of the code is one of   *)
(* the transitions the package comment draws, or leaves state and callers  *)
(* in flight as they are.                                                  *)
THEOREM ContractImplemented == Spec => ImplementsContract
<1>1. Init => Contract!Init
  BY DEF Init, Contract!Init, NewBreaker, InFlight
<1>2. Inv /\ [Next]_vars => [Contract!Next]_(Contract!vars)
  <2> SUFFICES ASSUME Inv, [Next]_vars
               PROVE  Contract!Next \/ UNCHANGED Contract!vars
    OBVIOUS
  <2> USE DEF Inv, TypeOK, InFlight
  <2>1. ASSUME NEW c \in Callers, Allow(c) PROVE Contract!Next
    <3>1. c \notin InFlight /\ InFlight' = InFlight \cup {c}
      BY <2>1 DEF Allow
    <3>2. CASE cb.state = "closed"
      <4>1. Contract!Admit(c)
        BY <2>1, <3>1, <3>2 DEF Allow, AfterAllow, Contract!Admit
      <4> QED
        BY <4>1 DEF Contract!Next
    <3>3. CASE cb.state = "open"
      <4>1. Contract!Probe(c)
        BY <2>1, <3>1, <3>3 DEF Allow, AllowResult, AfterAllow, Transition, Contract!Probe
      <4> QED
        BY <4>1 DEF Contract!Next
    <3> QED
      BY <2>1, <3>2, <3>3 DEF Allow, AllowResult
  <2>2. ASSUME NEW c \in Callers, RecordSuccess(c) PROVE Contract!Next
    <3>1. c \in InFlight /\ InFlight' = InFlight \ {c}
      BY <2>2 DEF RecordSuccess
    <3>2. cb'.state \in IF cb.state = "half_open" THEN {"half_open", "closed"}
                                                 ELSE {cb.state}
      BY <2>2 DEF RecordSuccess, AfterSuccess, Counting, Transition
    <3>3. Contract!Succeed(c)
      BY <3>1, <3>2 DEF Contract!Succeed
    <3> QED
      BY <3>3 DEF Contract!Next
  <2>3. ASSUME NEW c \in Callers, RecordFailure(c) PROVE Contract!Next
    <3>1. c \in InFlight /\ InFlight' = InFlight \ {c}
      BY <2>3 DEF RecordFailure
    <3>2. cb'.state \in IF cb.state = "closed" THEN {"closed", "open"} ELSE {"open"}
      BY <2>3 DEF RecordFailure, AfterFailure, Counting, Trip, BreakerRecord, States
    <3>3. Contract!Fail(c)
      BY <3>1, <3>2 DEF Contract!Fail
    <3> QED
      BY <3>3 DEF Contract!Next
  <2>4. CASE Tick
    BY <2>4 DEF Tick, AfterTick, BreakerRecord, Contract!vars
  <2>5. CASE UNCHANGED vars
    BY <2>5 DEF vars, Contract!vars
  <2> QED
    BY <2>1, <2>2, <2>3, <2>4, <2>5 DEF Next
<1> QED
  BY <1>1, <1>2, Invariance, PTL DEF Spec, ImplementsContract, Contract!Spec
=============================================================================
