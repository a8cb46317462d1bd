------------------------------- MODULE Breaker -------------------------------
(***************************************************************************)
(* The data of one circuit breaker (pkg/circuitbreaker) and what each of   *)
(* its methods does to it.  Every method of the code runs with cb.mu held  *)
(* from its first to its last statement, so each is one function of the    *)
(* breaker's record.  The modules that keep breakers in their state        *)
(* (CircuitBreaker, Proxy) build their actions from these operators.       *)
(*                                                                         *)
(* Abstractions.  openedAt is kept as its age, time.Since(openedAt), in    *)
(* ticks and saturated at ResetTimeout; the zero time of a new breaker is  *)
(* a saturated age.  The counters saturate at their thresholds: the code   *)
(* only ever asks whether they have reached them.                          *)
(***************************************************************************)
EXTENDS Integers

CONSTANTS
    FailureThreshold,   \* consecutive failures that open a closed breaker
    SuccessThreshold,   \* consecutive successes that close a half-open one
    ResetTimeout        \* ticks an open breaker waits before it probes

(* withDefaults replaces a zero by a positive default.  It keeps negative  *)
(* values, which nothing else rejects; they are not modelled.              *)
ASSUME BreakerAssumption ==
    /\ FailureThreshold \in Nat \ {0}
    /\ SuccessThreshold \in Nat \ {0}
    /\ ResetTimeout \in Nat \ {0}

States == {"closed", "open", "half_open"}

BreakerRecord ==
    [ state : States,
      fails : 0 .. FailureThreshold,
      oks   : 0 .. SuccessThreshold,
      age   : 0 .. ResetTimeout ]

(* One more, up to a cap.                                                  *)
Bump(n, cap) == IF n < cap THEN n + 1 ELSE cap

NewBreaker == [state |-> "closed", fails |-> 0, oks |-> 0, age |-> ResetTimeout]

(* The breaker with its two counters set.                                  *)
Counting(cb, fails, oks) ==
    [state |-> cb.state, fails |-> fails, oks |-> oks, age |-> cb.age]

Transition(cb, to) == [state |-> to, fails |-> 0, oks |-> 0, age |-> cb.age]

(* openedAt = time.Now() and the transition to open that follows it.       *)
Trip(cb) == [state |-> "open", fails |-> 0, oks |-> 0, age |-> 0]

-----------------------------------------------------------------------------
(* Allow.                                                                  *)

AllowResult(cb) ==
    \/ cb.state = "closed"
    \/ cb.state = "open" /\ cb.age >= ResetTimeout

(* The probe is let through but the breaker stays open.                    *)
AllowWithoutTransition(cb) == cb

AfterAllow(cb) ==
    IF cb.state = "open" /\ cb.age >= ResetTimeout
    THEN Transition(cb, "half_open")
    ELSE cb

-----------------------------------------------------------------------------
(* RecordSuccess.                                                          *)

(* A success closes the breaker from any state.                            *)
SuccessClosesAny(cb) ==
    LET counted == Counting(cb, 0, Bump(cb.oks, SuccessThreshold))
    IN IF counted.oks >= SuccessThreshold THEN Transition(counted, "closed")
                                          ELSE counted

AfterSuccess(cb) ==
    LET counted == Counting(cb, 0, Bump(cb.oks, SuccessThreshold))
    IN IF counted.state = "half_open" /\ counted.oks >= SuccessThreshold
       THEN Transition(counted, "closed")
       ELSE counted

-----------------------------------------------------------------------------
(* RecordFailure.                                                          *)

(* A failed probe leaves the breaker half open.                            *)
FailureIgnoredWhileProbing(cb) ==
    LET counted == Counting(cb, Bump(cb.fails, FailureThreshold), 0)
    IN IF counted.state = "closed" /\ counted.fails >= FailureThreshold
       THEN Trip(counted)
       ELSE counted

(* The breaker trips one failure too late.                                 *)
FailureOffByOne(cb) ==
    LET counted == Counting(cb, Bump(cb.fails, FailureThreshold), 0)
    IN IF \/ counted.state = "half_open"
          \/ counted.state = "closed" /\ cb.fails >= FailureThreshold
       THEN Trip(counted)
       ELSE counted

(* Every failure of an open breaker starts its ResetTimeout anew.          *)
FailurePostponesProbe(cb) ==
    LET counted == Counting(cb, Bump(cb.fails, FailureThreshold), 0)
    IN IF \/ counted.state # "closed"
          \/ counted.fails >= FailureThreshold
       THEN Trip(counted)
       ELSE counted

AfterFailure(cb) ==
    LET counted == Counting(cb, Bump(cb.fails, FailureThreshold), 0)
    IN IF \/ counted.state = "half_open"
          \/ counted.state = "closed" /\ counted.fails >= FailureThreshold
       THEN Trip(counted)
       ELSE counted

-----------------------------------------------------------------------------
(* The clock: time.Since(openedAt) grows.                                  *)
AfterTick(cb) == [cb EXCEPT !.age = Bump(cb.age, ResetTimeout)]
=============================================================================
