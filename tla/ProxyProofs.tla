----------------------------- MODULE ProxyProofs -----------------------------
(***************************************************************************)
(* Proofs about module Proxy, for any number of requests and instances,    *)
(* any number of retries and any thresholds of the breakers.               *)
(*                                                                         *)
(* The inductive invariant is about the local state of one request: how    *)
(* many calls an attempt may have made by each point of ProxyRequest, and  *)
(* which locals are still unset there.                                     *)
(***************************************************************************)
EXTENDS Proxy, FiniteSetTheorems, TLAPS

(* A request is at most one call ahead of its attempts, only idempotent    *)
(* ones are past their first, and a retry is due only if one is left.      *)
Counted(q) ==
    /\ q.pc = "new" => q.attempt = 0
    /\ ~q.idem => q.attempt = 0
    /\ q.pc \in {"new", "attempt", "filter"} => q.calls <= q.attempt
    /\ q.pc \in {"calling", "succeeded", "failed", "backoff"} => q.calls <= q.attempt + 1
    /\ q.pc = "done" => q.calls <= IF q.idem THEN MaxRetries + 1 ELSE 1
    /\ q.pc = "backoff" => q.idem /\ q.attempt < MaxRetries

(* Nothing is recorded before the return, and then what the result says.   *)
Judged(q) ==
    IF q.pc = "done"
    THEN (q.verdicts = 1) = (q.result \in {"ok", "upstream_error", "no_healthy"})
    ELSE q.verdicts = 0

(* The filter's sets belong to the filter, the instance to the call.       *)
Scoped(q) ==
    /\ q.pc # "filter" => q.eligible = {}
    /\ q.todo \cap q.eligible = {}
    /\ q.pc = "calling" => q.inst \in Instances

Good(q) == Counted(q) /\ Judged(q) /\ Scoped(q)

Inv == TypeOK /\ \A r \in Requests : Good(req[r])

-----------------------------------------------------------------------------
(* The methods of a breaker keep its record well formed.                   *)

LEMMA NewType == NewBreaker \in BreakerRecord
  BY BreakerAssumption DEF NewBreaker, BreakerRecord, States

LEMMA AllowType == \A b \in BreakerRecord : AfterAllow(b) \in BreakerRecord
  BY BreakerAssumption DEF AfterAllow, Transition, BreakerRecord, States

LEMMA SuccessType == \A b \in BreakerRecord : AfterSuccess(b) \in BreakerRecord
  BY BreakerAssumption DEF AfterSuccess, Counting, Transition, Bump, BreakerRecord, States

LEMMA FailureType == \A b \in BreakerRecord : AfterFailure(b) \in BreakerRecord
  BY BreakerAssumption DEF AfterFailure, Counting, Trip, Bump, BreakerRecord, States

LEMMA TickType == \A b \in BreakerRecord : AfterTick(b) \in BreakerRecord
  BY BreakerAssumption DEF AfterTick, Bump, BreakerRecord, States

LEMMA NewGood == NewRequest \in RequestRecord /\ Good(NewRequest)
<1> USE ProxyAssumption
<1>1. NewRequest \in RequestRecord
  BY DEF NewRequest, RequestRecord, Contexts, Results
<1>2. Counted(NewRequest) /\ Judged(NewRequest) /\ Scoped(NewRequest)
  BY DEF Counted, Judged, Scoped, NewRequest
<1> QED
  BY <1>1, <1>2 DEF Good

LEMMA InitInv == Init => Inv
  BY NewType, NewGood DEF Init, Inv, TypeOK

(* ProxyRequest returns with a result and what it recorded for it.         *)
LEMMA ReturnGood ==
    ASSUME Inv, NEW r \in Requests, NEW result \in Results, NEW v \in 0 .. 1,
           (v = 1) = (result \in {"ok", "upstream_error", "no_healthy"})
    PROVE  Return(r, result, v) \in RequestRecord /\ Good(Return(r, result, v))
<1> USE ProxyAssumption
<1> DEFINE q == Return(r, result, v)
<1>1. req[r] \in RequestRecord /\ Good(req[r])
  BY DEF Inv, TypeOK
<1>2. q \in RequestRecord
  BY <1>1, NewGood DEF Return, RequestRecord
<1>3. /\ q.pc = "done" /\ q.result = result /\ q.verdicts = v /\ q.attempt = 0
      /\ q.idem = req[r].idem /\ q.calls = req[r].calls
      /\ q.todo = {} /\ q.eligible = {}
  BY <1>1 DEF Return, NewRequest, RequestRecord
<1> HIDE DEF q
<1>4. Counted(q)
  <2>1. req[r].calls <= IF req[r].idem THEN MaxRetries + 1 ELSE 1
    BY <1>1 DEF Good, Counted, RequestRecord
  <2> QED
    BY <1>3, <2>1 DEF Counted
<1>5. Judged(q) /\ Scoped(q)
  BY <1>3 DEF Judged, Scoped
<1> QED
  BY <1>2, <1>4, <1>5 DEF Good, q

(* A step changes the local state of one request only.                     *)
LEMMA Replaced ==
    ASSUME Inv, NEW r \in Requests, NEW q \in RequestRecord, Good(q),
           req' = [req EXCEPT ![r] = q],
           svcCB' \in BreakerRecord, instCB' \in [Instances -> BreakerRecord],
           healthy' \subseteq Instances
    PROVE  Inv'
<1>1. /\ req' \in [Requests -> RequestRecord]
      /\ \A s \in Requests : req'[s] = IF s = r THEN q ELSE req[s]
  BY DEF Inv, TypeOK
<1>2. \A s \in Requests : Good(req'[s])
  BY <1>1 DEF Inv
<1> QED
  BY <1>1, <1>2 DEF Inv, TypeOK, Good, Counted, Judged, Scoped

-----------------------------------------------------------------------------
(* A request that returns without a verdict, and one that records its own. *)

LEMMA ReturnsSilently ==
    ASSUME Inv, NEW r \in Requests, NEW result \in {"circuit_open", "deadline"},
           req' = [req EXCEPT ![r] = Return(r, result, 0)],
           svcCB' \in BreakerRecord, instCB' = instCB, healthy' = healthy
    PROVE  Inv'
<1>1. result \in Results /\ result \notin {"ok", "upstream_error", "no_healthy"}
  BY DEF Results
<1>2. Return(r, result, 0) \in RequestRecord /\ Good(Return(r, result, 0))
  BY <1>1, ReturnGood
<1> QED
  BY <1>2, Replaced DEF Inv, TypeOK

LEMMA ReturnsJudged ==
    ASSUME Inv, NEW r \in Requests, NEW result \in {"ok", "upstream_error", "no_healthy"},
           req' = [req EXCEPT ![r] = Return(r, result, 1)],
           svcCB' \in BreakerRecord, instCB' = instCB, healthy' = healthy
    PROVE  Inv'
<1>1. result \in Results
  BY DEF Results
<1>2. Return(r, result, 1) \in RequestRecord /\ Good(Return(r, result, 1))
  BY <1>1, ReturnGood
<1> QED
  BY <1>2, Replaced DEF Inv, TypeOK

(* One step of one request.                                                *)
LEMMA StepInductive ==
    ASSUME Inv, NEW r \in Requests, Step(r)
    PROVE  Inv'
<1> DEFINE p == req[r]
<1>p. p \in RequestRecord /\ Good(p)
  BY DEF Inv, TypeOK
<1>t. /\ svcCB \in BreakerRecord /\ instCB \in [Instances -> BreakerRecord]
      /\ healthy \subseteq Instances
  BY DEF Inv, TypeOK
<1> USE ProxyAssumption
<1>1. ASSUME NEW idem \in BOOLEAN, NEW body \in Bodies, Begin(r, idem, body) PROVE Inv'
  <2>1. /\ p.pc = "new" /\ svcCB' = AfterAllow(svcCB) /\ instCB' = instCB /\ healthy' = healthy
    BY <1>1 DEF Begin
  <2>2. svcCB' \in BreakerRecord
    BY <1>t, <2>1, AllowType
  <2>3. CASE AllowResult(svcCB)
    <3> DEFINE q == [p EXCEPT !.pc = "attempt", !.idem = idem, !.body = body]
    <3>1. req' = [req EXCEPT ![r] = q]
      BY <1>1, <2>3 DEF Begin
    <3>2. q \in RequestRecord
      BY <1>p DEF RequestRecord
    <3>3. /\ q.pc = "attempt" /\ q.idem = idem /\ q.attempt = p.attempt /\ q.calls = p.calls
          /\ q.todo = p.todo /\ q.eligible = p.eligible /\ q.verdicts = p.verdicts
      BY <1>p DEF RequestRecord
    <3> HIDE DEF q
    <3>4. Good(q)
      BY <1>p, <2>1, <3>3 DEF Good, Counted, Judged, Scoped, RequestRecord
    <3> QED
      BY <1>t, <2>1, <2>2, <3>1, <3>2, <3>4, Replaced
  <2>4. CASE ~AllowResult(svcCB)
    <3>1. req' = [req EXCEPT ![r] = Return(r, "circuit_open", 0)]
      BY <1>1, <2>4 DEF Begin
    <3> QED
      BY <2>1, <2>2, <3>1, ReturnsSilently
  <2> QED
    BY <2>3, <2>4
<1>2. CASE DeadlineExceeded(r)
  <2>1. /\ p.pc = "attempt" /\ svcCB' = svcCB /\ instCB' = instCB /\ healthy' = healthy
        /\ req' = [req EXCEPT ![r] = Return(r, "deadline", p.verdicts)]
    BY <1>2 DEF DeadlineExceeded
  <2>2. p.verdicts = 0
    BY <1>p, <2>1 DEF Good, Judged
  <2> QED
    BY <1>t, <2>1, <2>2, ReturnsSilently
<1>3. CASE ListHealthy(r)
  <2> DEFINE q == [p EXCEPT !.pc = "filter", !.todo = healthy]
  <2>1. /\ p.pc = "attempt" /\ svcCB' = svcCB /\ instCB' = instCB /\ healthy' = healthy
        /\ req' = [req EXCEPT ![r] = q]
    BY <1>3 DEF ListHealthy
  <2>2. q \in RequestRecord
    BY <1>p, <1>t DEF RequestRecord
  <2>3. /\ q.pc = "filter" /\ q.idem = p.idem /\ q.attempt = p.attempt /\ q.calls = p.calls
        /\ q.todo = healthy /\ q.eligible = p.eligible /\ q.verdicts = p.verdicts
    BY <1>p DEF RequestRecord
  <2> HIDE DEF q
  <2>4. Good(q)
    BY <1>p, <2>1, <2>3 DEF Good, Counted, Judged, Scoped
  <2> QED
    BY <1>t, <2>1, <2>2, <2>4, Replaced
<1>4. CASE NoInstance(r)
  <2>1. /\ p.pc = "filter" /\ svcCB' = AfterFailure(svcCB)
        /\ instCB' = instCB /\ healthy' = healthy
        /\ req' = [req EXCEPT ![r] = Return(r, "no_healthy", p.verdicts + 1)]
    BY <1>4 DEF NoInstance
  <2>2. p.verdicts + 1 = 1
    BY <1>p, <2>1 DEF Good, Judged
  <2> QED
    BY <1>t, <2>1, <2>2, FailureType, ReturnsJudged
<1>5. ASSUME NEW i \in Instances, Consider(r, i) PROVE Inv'
  <2> DEFINE q == [p EXCEPT !.todo = p.todo \ {i},
                            !.eligible = IF i \in healthy /\ AllowResult(instCB[i])
                                         THEN p.eligible \cup {i} ELSE p.eligible]
  <2>1. /\ p.pc = "filter" /\ svcCB' = svcCB /\ healthy' = healthy /\ i \in p.todo
        /\ req' = [req EXCEPT ![r] = q]
        /\ instCB' = IF i \in healthy THEN [instCB EXCEPT ![i] = AfterAllow(instCB[i])]
                                      ELSE instCB
    BY <1>5 DEF Consider
  <2>2. q \in RequestRecord
    BY <1>p DEF RequestRecord
  <2>3. /\ q.pc = p.pc /\ q.idem = p.idem /\ q.attempt = p.attempt /\ q.calls = p.calls
        /\ q.todo = p.todo \ {i} /\ q.eligible \subseteq p.eligible \cup {i}
        /\ q.verdicts = p.verdicts
    BY <1>p DEF RequestRecord
  <2> HIDE DEF q
  <2>4. Good(q)
    BY <1>p, <2>1, <2>3 DEF Good, Counted, Judged, Scoped
  <2>5. instCB' \in [Instances -> BreakerRecord]
    BY <1>t, <2>1, AllowType
  <2> QED
    BY <1>t, <2>1, <2>2, <2>4, <2>5, Replaced
<1>6. ASSUME NEW i \in Instances, Dispatch(r, i) PROVE Inv'
  <2> DEFINE q == [p EXCEPT !.pc = "calling", !.inst = i, !.eligible = {},
                            !.body = IF p.body = "none" THEN p.body ELSE "spent",
                            !.calls = IF CtxDone(r) THEN p.calls ELSE p.calls + 1]
  <2>1. /\ p.pc = "filter" /\ svcCB' = svcCB /\ instCB' = instCB /\ healthy' = healthy
        /\ req' = [req EXCEPT ![r] = q]
    BY <1>6 DEF Dispatch
  <2>2. p.calls \in 0 .. MaxRetries + 1 /\ p.attempt \in 0 .. MaxRetries
        /\ p.calls <= p.attempt
    BY <1>p, <2>1 DEF Good, Counted, RequestRecord
  <2>3. p.calls + 1 \in 0 .. MaxRetries + 1
    BY <2>2
  <2>4. q \in RequestRecord
    BY <1>p, <2>3 DEF RequestRecord
  <2>5. /\ q.pc = "calling" /\ q.idem = p.idem /\ q.attempt = p.attempt
        /\ q.calls = p.calls \/ q.calls = p.calls + 1
        /\ q.inst = i /\ q.eligible = {} /\ q.verdicts = p.verdicts
    BY <1>p DEF RequestRecord
  <2> HIDE DEF q
  <2>6. Good(q)
    BY <1>p, <2>1, <2>2, <2>5 DEF Good, Counted, Judged, Scoped
  <2> QED
    BY <1>t, <2>1, <2>4, <2>6, Replaced
<1>7. CASE Responds(r)
  <2> DEFINE q == [p EXCEPT !.pc = "succeeded", !.written = TRUE, !.inst = "none"]
  <2>1. /\ p.pc = "calling" /\ svcCB' = svcCB /\ healthy' = healthy
        /\ req' = [req EXCEPT ![r] = q]
        /\ instCB' = [instCB EXCEPT ![p.inst] = AfterSuccess(@)]
    BY <1>7 DEF Responds
  <2>2. q \in RequestRecord
    BY <1>p DEF RequestRecord
  <2>3. /\ q.pc = "succeeded" /\ q.idem = p.idem /\ q.attempt = p.attempt /\ q.calls = p.calls
        /\ q.eligible = p.eligible /\ q.todo = p.todo /\ q.verdicts = p.verdicts
    BY <1>p DEF RequestRecord
  <2> HIDE DEF q
  <2>4. Good(q) /\ p.inst \in Instances
    BY <1>p, <2>1, <2>3 DEF Good, Counted, Judged, Scoped
  <2>5. instCB' \in [Instances -> BreakerRecord]
    BY <1>t, <2>1, <2>4, SuccessType
  <2> QED
    BY <1>t, <2>1, <2>2, <2>4, <2>5, Replaced
<1>8. ASSUME NEW got \in BOOLEAN, AttemptFails(r, got) PROVE Inv'
  <2> DEFINE q == [p EXCEPT !.pc = IF MayRetry(r) THEN "backoff" ELSE "failed",
                            !.inst = "none", !.written = p.written \/ got]
  <2>1. /\ p.pc = "calling" /\ svcCB' = svcCB /\ healthy' = healthy
        /\ req' = [req EXCEPT ![r] = q]
        /\ instCB' = [instCB EXCEPT ![p.inst] = AfterFailure(@)]
    BY <1>8 DEF AttemptFails
  <2>2. q \in RequestRecord
    BY <1>p, ZenonT(60) DEF RequestRecord
  <2>3. /\ q.pc = IF MayRetry(r) THEN "backoff" ELSE "failed"
        /\ q.idem = p.idem /\ q.attempt = p.attempt /\ q.calls = p.calls
        /\ q.eligible = p.eligible /\ q.todo = p.todo /\ q.verdicts = p.verdicts
    BY <1>p DEF RequestRecord
  <2> HIDE DEF q
  <2>4. Good(q) /\ p.inst \in Instances
    BY <1>p, <2>1, <2>3 DEF Good, Counted, Judged, Scoped, MayRetry
  <2>5. instCB' \in [Instances -> BreakerRecord]
    BY <1>t, <2>1, <2>4, FailureType
  <2> QED
    BY <1>t, <2>1, <2>2, <2>4, <2>5, Replaced
<1>9. CASE Settle(r)
  <2>1. instCB' = instCB /\ healthy' = healthy
    BY <1>9 DEF Settle
  <2>2. CASE p.pc = "succeeded"
    <3>1. /\ svcCB' = AfterSuccess(svcCB)
          /\ req' = [req EXCEPT ![r] = Return(r, "ok", p.verdicts + 1)]
      BY <1>9, <2>2 DEF Settle
    <3>2. p.verdicts + 1 = 1
      BY <1>p, <2>2 DEF Good, Judged
    <3> QED
      BY <1>t, <2>1, <3>1, <3>2, SuccessType, ReturnsJudged
  <2>3. CASE p.pc = "failed"
    <3>1. /\ svcCB' = AfterFailure(svcCB)
          /\ req' = [req EXCEPT ![r] = Return(r, "upstream_error", p.verdicts + 1)]
      BY <1>9, <2>3 DEF Settle
    <3>2. p.verdicts + 1 = 1
      BY <1>p, <2>3 DEF Good, Judged
    <3> QED
      BY <1>t, <2>1, <3>1, <3>2, FailureType, ReturnsJudged
  <2> QED
    BY <1>9, <2>2, <2>3 DEF Settle
<1>10. CASE Retry(r)
  <2> DEFINE q == [p EXCEPT !.pc = "attempt", !.attempt = p.attempt + 1]
  <2>1. /\ p.pc = "backoff" /\ svcCB' = svcCB /\ instCB' = instCB /\ healthy' = healthy
        /\ req' = [req EXCEPT ![r] = q]
    BY <1>10 DEF Retry
  <2>2. p.attempt \in 0 .. MaxRetries /\ p.attempt < MaxRetries /\ p.idem
    BY <1>p, <2>1 DEF Good, Counted, RequestRecord
  <2>3. p.attempt + 1 \in 0 .. MaxRetries
    BY <2>2
  <2>4. q \in RequestRecord
    BY <1>p, <2>3 DEF RequestRecord
  <2>5. /\ q.pc = "attempt" /\ q.idem = p.idem /\ q.attempt = p.attempt + 1 /\ q.calls = p.calls
        /\ q.eligible = p.eligible /\ q.todo = p.todo /\ q.verdicts = p.verdicts
    BY <1>p DEF RequestRecord
  <2> HIDE DEF q
  <2>6. Good(q)
    BY <1>p, <2>1, <2>2, <2>5 DEF Good, Counted, Judged, Scoped
  <2> QED
    BY <1>t, <2>1, <2>4, <2>6, Replaced
<1>11. CASE GiveUp(r)
  <2>1. /\ p.pc = "backoff" /\ svcCB' = svcCB /\ instCB' = instCB /\ healthy' = healthy
        /\ req' = [req EXCEPT ![r] = Return(r, "deadline", p.verdicts)]
    BY <1>11 DEF GiveUp
  <2>2. p.verdicts = 0
    BY <1>p, <2>1 DEF Good, Judged
  <2> QED
    BY <1>t, <2>1, <2>2, ReturnsSilently
<1> QED
  BY <1>1, <1>2, <1>3, <1>4, <1>5, <1>6, <1>7, <1>8, <1>9, <1>10, <1>11 DEF Step

(* What happens around the requests.                                       *)
LEMMA WorldInductive ==
    ASSUME Inv, \/ \E r \in Requests : CtxStep(r)
                \/ \E i \in Instances : HealthFlip(i)
                \/ Tick
                \/ UNCHANGED vars
    PROVE  Inv'
<1>1. ASSUME NEW r \in Requests, CtxStep(r) PROVE Inv'
  <2>1. PICK c \in Contexts : req' = [req EXCEPT ![r].ctx = c]
    BY <1>1 DEF CtxStep, Contexts
  <2> DEFINE q == [req[r] EXCEPT !.ctx = c]
  <2>2. req' = [req EXCEPT ![r] = q]
    BY <2>1
  <2>3. req[r] \in RequestRecord /\ Good(req[r])
    BY DEF Inv, TypeOK
  <2>4. q \in RequestRecord
    BY <2>3 DEF RequestRecord
  <2>5. /\ q.pc = req[r].pc /\ q.idem = req[r].idem /\ q.attempt = req[r].attempt
        /\ q.calls = req[r].calls /\ q.verdicts = req[r].verdicts /\ q.result = req[r].result
        /\ q.eligible = req[r].eligible /\ q.todo = req[r].todo /\ q.inst = req[r].inst
    BY <2>3 DEF RequestRecord
  <2> HIDE DEF q
  <2>6. Good(q)
    BY <2>3, <2>5 DEF Good, Counted, Judged, Scoped
  <2>7. /\ svcCB' \in BreakerRecord /\ instCB' \in [Instances -> BreakerRecord]
        /\ healthy' \subseteq Instances
    BY <1>1 DEF Inv, TypeOK, CtxStep
  <2> QED
    BY <2>2, <2>4, <2>6, <2>7, Replaced
<1>2. ASSUME NEW i \in Instances, HealthFlip(i) PROVE Inv'
  BY <1>2 DEF Inv, TypeOK, HealthFlip, Good, Counted, Judged, Scoped
<1>3. CASE Tick
  BY <1>3, TickType DEF Inv, TypeOK, Tick, Good, Counted, Judged, Scoped
<1>4. CASE UNCHANGED vars
  BY <1>4 DEF Inv, TypeOK, vars, Good, Counted, Judged, Scoped
<1> QED
  BY <1>1, <1>2, <1>3, <1>4

-----------------------------------------------------------------------------
(* Every reachable state is typed and every request in it is Good.         *)
THEOREM Invariance == Spec => []Inv
<1>1. Inv /\ [Next]_vars => Inv'
  BY StepInductive, WorldInductive DEF Next
<1> QED
  BY <1>1, InitInv, PTL DEF Spec

(* The types hold for any number of requests, instances and retries; so no *)
(* request ever records a second verdict on the service breaker.           *)
THEOREM TypeCorrect == Spec => []TypeOK
  BY Invariance, PTL DEF Inv

(* A request that is not idempotent is sent at most once and an idempotent *)
(* one at most MaxRetries + 1 times, however requests interleave           *)
(* (ProxyRequest, isIdempotentRequest).                                    *)
THEOREM BoundedSending == Spec => []SentAtMost
<1>1. ASSUME Inv, NEW r \in Requests
      PROVE  req[r].calls <= IF req[r].idem THEN MaxRetries + 1 ELSE 1
  <2>1. req[r] \in RequestRecord /\ Counted(req[r])
    BY <1>1 DEF Inv, TypeOK, Good
  <2> QED
    BY <2>1, ProxyAssumption DEF Counted, RequestRecord
<1>2. Inv => SentAtMost
  BY <1>1 DEF SentAtMost
<1> QED
  BY <1>2, Invariance, PTL

-----------------------------------------------------------------------------
(* Where each step of a request leads; the other requests stay put.        *)

LEMMA Moves ==
    ASSUME Inv, NEW r \in Requests, NEW q \in RequestRecord, req' = [req EXCEPT ![r] = q]
    PROVE  req'[r] = q /\ \A s \in Requests : s # r => req'[s] = req[s]
  BY DEF Inv, TypeOK

LEMMA Returned ==
    ASSUME Inv, NEW r \in Requests, NEW result, NEW v,
           req' = [req EXCEPT ![r] = Return(r, result, v)]
    PROVE  /\ req'[r].pc = "done" /\ req'[r].eligible = {}
           /\ \A s \in Requests : s # r => req'[s] = req[s]
  BY DEF Inv, TypeOK, Return, NewRequest

(* The requests the service breaker waits for, when one of them moves.     *)
LEMMA ServiceMoves ==
    ASSUME NEW r \in Requests, \A s \in Requests : s # r => req'[s] = req[s]
    PROVE  /\ req[r].pc \in {"new", "done"} /\ req'[r].pc \notin {"new", "done"}
              => r \notin OnService /\ OnService' = OnService \cup {r}
           /\ req[r].pc \notin {"new", "done"} /\ req'[r].pc \in {"new", "done"}
              => r \in OnService /\ OnService' = OnService \ {r}
           /\ (req[r].pc \in {"new", "done"} <=> req'[r].pc \in {"new", "done"})
              => OnService' = OnService
  BY DEF OnService, Live

(* What the methods of a breaker do to its state.                          *)

LEMMA AllowMoves ==
    ASSUME NEW b \in BreakerRecord
    PROVE  /\ AllowResult(b) => \/ b.state = "closed" /\ AfterAllow(b).state = "closed"
                                \/ b.state = "open" /\ AfterAllow(b).state = "half_open"
           /\ ~AllowResult(b) => AfterAllow(b) = b
  BY DEF AllowResult, AfterAllow, Transition, BreakerRecord, States

LEMMA SuccessMoves ==
    ASSUME NEW b \in BreakerRecord
    PROVE  AfterSuccess(b).state \in IF b.state = "half_open" THEN {"half_open", "closed"}
                                                              ELSE {b.state}
  BY DEF AfterSuccess, Counting, Transition

LEMMA FailureMoves ==
    ASSUME NEW b \in BreakerRecord
    PROVE  AfterFailure(b).state \in IF b.state = "closed" THEN {"closed", "open"}
                                                           ELSE {"open"}
  BY DEF AfterFailure, Counting, Trip, BreakerRecord, States

LEMMA TickMoves ==
    ASSUME NEW b \in BreakerRecord
    PROVE  AfterTick(b).state = b.state
  BY DEF AfterTick, BreakerRecord

(* Only the request that takes the step moves.                             *)
Alone(r) == \A s \in Requests : s # r => req'[s] = req[s]

(* The step leaves both kinds of breakers alone.                           *)
Silently == svcCB' = svcCB /\ instCB' = instCB

LEMMA BeginMoves ==
    ASSUME Inv, NEW r \in Requests, NEW idem \in BOOLEAN, NEW body \in Bodies,
           Begin(r, idem, body)
    PROVE  /\ Alone(r) /\ req[r].pc = "new" /\ instCB' = instCB
           /\ svcCB' = AfterAllow(svcCB)
           /\ req'[r].pc = IF AllowResult(svcCB) THEN "attempt" ELSE "done"
           /\ req'[r].eligible = {} /\ req'[r].attempt = 0
<1> USE DEF Alone
<1>1. req[r] \in RequestRecord /\ req[r].pc = "new" /\ req[r].attempt = 0 /\ req[r].eligible = {}
  BY DEF Inv, TypeOK, Begin, Good, Counted, Scoped
<1>2. CASE AllowResult(svcCB)
  <2> DEFINE q == [req[r] EXCEPT !.pc = "attempt", !.idem = idem, !.body = body]
  <2>1. q.pc = "attempt" /\ q.attempt = 0 /\ q.eligible = {}
    BY <1>1 DEF RequestRecord
  <2>2. req' = [req EXCEPT ![r] = q]
    BY <1>2 DEF Begin
  <2> HIDE DEF q
  <2> QED
    BY <1>1, <1>2, <2>1, <2>2 DEF Inv, TypeOK, Begin
<1>3. CASE ~AllowResult(svcCB)
  <2>1. req' = [req EXCEPT ![r] = Return(r, "circuit_open", 0)]
    BY <1>3 DEF Begin
  <2> QED
    BY <1>1, <1>3, <2>1 DEF Inv, TypeOK, Begin, Return, NewRequest
<1> QED
  BY <1>2, <1>3

LEMMA DeadlineMoves ==
    ASSUME Inv, NEW r \in Requests, DeadlineExceeded(r) \/ GiveUp(r)
    PROVE  /\ Alone(r) /\ req[r].pc \in {"attempt", "backoff"} /\ Silently
           /\ req'[r].pc = "done" /\ req'[r].eligible = {}
<1>1. req' = [req EXCEPT ![r] = Return(r, "deadline", req[r].verdicts)]
  BY DEF DeadlineExceeded, GiveUp
<1> QED
  BY <1>1, Returned DEF DeadlineExceeded, GiveUp, Alone, Silently

LEMMA ListMoves ==
    ASSUME Inv, NEW r \in Requests, ListHealthy(r)
    PROVE  /\ Alone(r) /\ req[r].pc = "attempt" /\ Silently
           /\ req'[r].pc = "filter" /\ req'[r].eligible = {}
           /\ req'[r].todo = healthy /\ req'[r].attempt = req[r].attempt
<1> DEFINE q == [req[r] EXCEPT !.pc = "filter", !.todo = healthy]
<1>1. req[r] \in RequestRecord /\ req[r].pc = "attempt" /\ req[r].eligible = {}
  BY DEF Inv, TypeOK, ListHealthy, Good, Scoped
<1>2. q.pc = "filter" /\ q.eligible = {} /\ q.todo = healthy /\ q.attempt = req[r].attempt
  BY <1>1 DEF RequestRecord
<1>3. req' = [req EXCEPT ![r] = q]
  BY DEF ListHealthy
<1> HIDE DEF q
<1> QED
  BY <1>1, <1>2, <1>3 DEF Inv, TypeOK, ListHealthy, Alone, Silently

LEMMA NoInstanceMoves ==
    ASSUME Inv, NEW r \in Requests, NoInstance(r)
    PROVE  /\ Alone(r) /\ req[r].pc = "filter" /\ req[r].eligible = {}
           /\ svcCB' = AfterFailure(svcCB) /\ instCB' = instCB
           /\ req'[r].pc = "done" /\ req'[r].eligible = {}
<1>1. req' = [req EXCEPT ![r] = Return(r, "no_healthy", req[r].verdicts + 1)]
  BY DEF NoInstance
<1>2. req'[r].pc = "done" /\ req'[r].eligible = {} /\ Alone(r)
  BY <1>1, Returned DEF Alone
<1> QED
  BY <1>2 DEF NoInstance

LEMMA ConsiderMoves ==
    ASSUME Inv, NEW r \in Requests, NEW i \in Instances, Consider(r, i)
    PROVE  /\ Alone(r) /\ req[r].pc = "filter" /\ svcCB' = svcCB
           /\ i \in req[r].todo /\ i \notin req[r].eligible
           /\ req'[r].pc = "filter" /\ req'[r].attempt = req[r].attempt
           /\ req'[r].todo = req[r].todo \ {i}
           /\ IF i \in healthy /\ AllowResult(instCB[i])
              THEN /\ req'[r].eligible = req[r].eligible \cup {i}
                   /\ instCB' = [instCB EXCEPT ![i] = AfterAllow(instCB[i])]
              ELSE /\ req'[r].eligible = req[r].eligible
                   /\ instCB' = instCB
<1> DEFINE q == [req[r] EXCEPT !.todo = req[r].todo \ {i},
                    !.eligible = IF i \in healthy /\ AllowResult(instCB[i])
                                 THEN req[r].eligible \cup {i} ELSE req[r].eligible]
<1>1. /\ req[r] \in RequestRecord /\ req[r].pc = "filter" /\ i \in req[r].todo
      /\ i \notin req[r].eligible /\ svcCB' = svcCB
  BY DEF Inv, TypeOK, Consider, Good, Scoped
<1>2. /\ q.pc = "filter" /\ q.attempt = req[r].attempt /\ q.todo = req[r].todo \ {i}
      /\ q.eligible = IF i \in healthy /\ AllowResult(instCB[i])
                      THEN req[r].eligible \cup {i} ELSE req[r].eligible
  BY <1>1 DEF RequestRecord
<1>3. req' = [req EXCEPT ![r] = q]
  BY DEF Consider
<1> HIDE DEF q
<1>4. req'[r] = q /\ Alone(r)
  BY <1>3 DEF Inv, TypeOK, Alone
<1>5. CASE i \in healthy /\ AllowResult(instCB[i])
  BY <1>1, <1>2, <1>4, <1>5 DEF Consider
<1>6. CASE i \in healthy /\ ~AllowResult(instCB[i])
  <2>1. AfterAllow(instCB[i]) = instCB[i]
    BY <1>6, AllowMoves DEF Inv, TypeOK
  <2>2. instCB' = instCB
    BY <1>6, <2>1 DEF Consider, Inv, TypeOK
  <2> QED
    BY <1>1, <1>2, <1>4, <1>6, <2>2
<1>7. CASE i \notin healthy
  BY <1>1, <1>2, <1>4, <1>7 DEF Consider
<1> QED
  BY <1>5, <1>6, <1>7

LEMMA DispatchMoves ==
    ASSUME Inv, NEW r \in Requests, NEW i \in Instances, Dispatch(r, i)
    PROVE  /\ Alone(r) /\ req[r].pc = "filter" /\ Silently /\ i \in req[r].eligible
           /\ req'[r].pc = "calling" /\ req'[r].inst = i /\ req'[r].attempt = req[r].attempt
<1> DEFINE q == [req[r] EXCEPT !.pc = "calling", !.inst = i, !.eligible = {},
                            !.body = IF req[r].body = "none" THEN req[r].body ELSE "spent",
                            !.calls = IF CtxDone(r) THEN req[r].calls ELSE req[r].calls + 1]
<1>1. req[r] \in RequestRecord /\ req[r].pc = "filter" /\ i \in req[r].eligible
  BY DEF Inv, TypeOK, Dispatch
<1>2. q.pc = "calling" /\ q.inst = i /\ q.attempt = req[r].attempt
  BY <1>1 DEF RequestRecord
<1>3. req' = [req EXCEPT ![r] = q]
  BY DEF Dispatch
<1> HIDE DEF q
<1> QED
  BY <1>1, <1>2, <1>3 DEF Inv, TypeOK, Dispatch, Alone, Silently

LEMMA RespondsMoves ==
    ASSUME Inv, NEW r \in Requests, Responds(r)
    PROVE  /\ Alone(r) /\ req[r].pc = "calling" /\ req[r].inst \in Instances
           /\ svcCB' = svcCB
           /\ instCB' = [instCB EXCEPT ![req[r].inst] = AfterSuccess(instCB[req[r].inst])]
           /\ req'[r].pc = "succeeded" /\ req'[r].attempt = req[r].attempt
<1> DEFINE q == [req[r] EXCEPT !.pc = "succeeded", !.written = TRUE, !.inst = "none"]
<1>1. req[r] \in RequestRecord /\ req[r].pc = "calling" /\ req[r].inst \in Instances
  BY DEF Inv, TypeOK, Responds, Good, Scoped
<1>2. q.pc = "succeeded" /\ q.attempt = req[r].attempt
  BY <1>1 DEF RequestRecord
<1>3. req' = [req EXCEPT ![r] = q]
  BY DEF Responds
<1> HIDE DEF q
<1> QED
  BY <1>1, <1>2, <1>3 DEF Inv, TypeOK, Responds, Alone

LEMMA FailsMoves ==
    ASSUME Inv, NEW r \in Requests, NEW got \in BOOLEAN, AttemptFails(r, got)
    PROVE  /\ Alone(r) /\ req[r].pc = "calling" /\ req[r].inst \in Instances
           /\ svcCB' = svcCB
           /\ instCB' = [instCB EXCEPT ![req[r].inst] = AfterFailure(instCB[req[r].inst])]
           /\ req'[r].pc \in {"backoff", "failed"} /\ req'[r].attempt = req[r].attempt
<1> DEFINE q == [req[r] EXCEPT !.pc = IF MayRetry(r) THEN "backoff" ELSE "failed",
                            !.inst = "none", !.written = req[r].written \/ got]
<1>1. req[r] \in RequestRecord /\ req[r].pc = "calling" /\ req[r].inst \in Instances
  BY DEF Inv, TypeOK, AttemptFails, Good, Scoped
<1>2. q.pc \in {"backoff", "failed"} /\ q.attempt = req[r].attempt
  BY <1>1 DEF RequestRecord
<1>3. req' = [req EXCEPT ![r] = q]
  BY DEF AttemptFails
<1> HIDE DEF q
<1> QED
  BY <1>1, <1>2, <1>3 DEF Inv, TypeOK, AttemptFails, Alone

LEMMA SettleMoves ==
    ASSUME Inv, NEW r \in Requests, Settle(r)
    PROVE  /\ Alone(r) /\ instCB' = instCB
           /\ req[r].pc \in {"succeeded", "failed"}
           /\ svcCB' = AfterSuccess(svcCB) \/ svcCB' = AfterFailure(svcCB)
           /\ req'[r].pc = "done"
<1>1. CASE req[r].pc = "succeeded"
  <2>1. req' = [req EXCEPT ![r] = Return(r, "ok", req[r].verdicts + 1)]
    BY <1>1 DEF Settle
  <2> QED
    BY <1>1, <2>1, Returned DEF Settle, Alone
<1>2. CASE req[r].pc = "failed"
  <2>1. req' = [req EXCEPT ![r] = Return(r, "upstream_error", req[r].verdicts + 1)]
    BY <1>2 DEF Settle
  <2> QED
    BY <1>2, <2>1, Returned DEF Settle, Alone
<1> QED
  BY <1>1, <1>2 DEF Settle

LEMMA RetryMoves ==
    ASSUME Inv, NEW r \in Requests, Retry(r)
    PROVE  /\ Alone(r) /\ req[r].pc = "backoff" /\ Silently
           /\ req'[r].pc = "attempt" /\ req'[r].eligible = {}
           /\ req[r].attempt < MaxRetries /\ req'[r].attempt = req[r].attempt + 1
<1> DEFINE q == [req[r] EXCEPT !.pc = "attempt", !.attempt = req[r].attempt + 1]
<1>1. /\ req[r] \in RequestRecord /\ req[r].pc = "backoff" /\ req[r].attempt < MaxRetries
      /\ req[r].eligible = {}
  BY DEF Inv, TypeOK, Retry, Good, Counted, Scoped
<1>2. q.pc = "attempt" /\ q.attempt = req[r].attempt + 1 /\ q.eligible = {}
  BY <1>1 DEF RequestRecord
<1>3. req' = [req EXCEPT ![r] = q]
  BY DEF Retry
<1> HIDE DEF q
<1> QED
  BY <1>1, <1>2, <1>3 DEF Inv, TypeOK, Retry, Alone, Silently

(* Time, clients and health checks move no request to another place.       *)
LEMMA ContextMoves ==
    ASSUME Inv, NEW r \in Requests, CtxStep(r)
    PROVE  /\ Alone(r) /\ Silently
           /\ \E c \in Contexts : req'[r] = [req[r] EXCEPT !.ctx = c]
           /\ req'[r].pc = req[r].pc /\ req'[r].eligible = req[r].eligible
           /\ req'[r].inst = req[r].inst
<1>1. PICK c \in Contexts : req' = [req EXCEPT ![r].ctx = c]
  BY DEF CtxStep, Contexts
<1>2. req[r] \in RequestRecord /\ req'[r] = [req[r] EXCEPT !.ctx = c]
  BY <1>1 DEF Inv, TypeOK
<1>3. /\ req'[r].pc = req[r].pc /\ req'[r].eligible = req[r].eligible
      /\ req'[r].inst = req[r].inst
  BY <1>2 DEF RequestRecord
<1>4. Alone(r) /\ Silently
  BY <1>1 DEF Inv, TypeOK, CtxStep, Alone, Silently
<1> QED
  BY <1>2, <1>3, <1>4

-----------------------------------------------------------------------------
(* A request that has returned takes no step, so it stays Expired.         *)
LEMMA ExpiredStays ==
    ASSUME NEW r \in Requests, Alone(r), req[r].pc # "done", \E s \in Requests : Expired(s)
    PROVE  \E s \in Requests : Expired(s)'
  BY DEF Alone, Expired

(* One success is enough to leave half open, one failure always is.        *)
LEMMA OneVerdict ==
    ASSUME NEW b \in BreakerRecord, SuccessThreshold = 1
    PROVE  AfterSuccess(b).state # "half_open" /\ AfterFailure(b).state # "half_open"
<1>1. Bump(b.oks, SuccessThreshold) >= SuccessThreshold
  BY DEF Bump, BreakerRecord
<1>2. b.state # "half_open" => AfterSuccess(b).state # "half_open"
  BY SuccessMoves
<1>3. b.state = "half_open" => AfterSuccess(b).state # "half_open"
  BY <1>1 DEF AfterSuccess, Transition, Counting, BreakerRecord
<1> QED
  BY <1>2, <1>3, FailureMoves DEF BreakerRecord, States

(* A service breaker that closes on one success is half open without a     *)
(* request to resolve it only after a request has returned on its deadline *)
(* or its cancelled context, however many requests there are (the returns  *)
(* of ProxyRequest).                                                       *)
THEOREM ProbeLosses == Spec => []ProbeLostOnDeadlineOnly
<1>1. Init => ProbeLostOnDeadlineOnly
  BY DEF Init, ProbeLostOnDeadlineOnly, NewBreaker
<1>2. ASSUME Inv, ProbeLostOnDeadlineOnly, [Next]_vars
      PROVE  ProbeLostOnDeadlineOnly'
  <2> SUFFICES ASSUME SuccessThreshold = 1, svcCB'.state = "half_open",
                      ~ \E s \in Requests : Expired(s)'
               PROVE  OnService' # {}
    BY DEF ProbeLostOnDeadlineOnly
  <2>t. svcCB \in BreakerRecord
    BY <1>2 DEF Inv, TypeOK
  <2>1. ASSUME NEW r \in Requests, Alone(r), req'[r].pc \notin {"new", "done"}
        PROVE  OnService' # {}
    BY <2>1 DEF OnService, Live
  <2>2. ASSUME NEW r \in Requests, Step(r)
        PROVE  OnService' # {}
    <3> USE <1>2
    <3>1. ASSUME NEW idem \in BOOLEAN, NEW body \in Bodies, Begin(r, idem, body)
          PROVE  OnService' # {}
      <4>1. /\ Alone(r) /\ req[r].pc = "new" /\ svcCB' = AfterAllow(svcCB)
            /\ req'[r].pc = IF AllowResult(svcCB) THEN "attempt" ELSE "done"
        BY <3>1, BeginMoves
      <4>2. CASE AllowResult(svcCB)
        BY <2>1, <4>1, <4>2
      <4>3. CASE ~AllowResult(svcCB)
        <5>1. OnService' = OnService
          BY <4>1, <4>3, ServiceMoves DEF Alone
        <5>2. svcCB' = svcCB
          BY <2>t, <4>1, <4>3, AllowMoves
        <5>3. ~ \E s \in Requests : Expired(s)
          BY <4>1, ExpiredStays
        <5> QED
          BY <5>1, <5>2, <5>3 DEF ProbeLostOnDeadlineOnly
      <4> QED
        BY <4>2, <4>3
    <3>2. CASE DeadlineExceeded(r) \/ GiveUp(r)
      <4>1. req' = [req EXCEPT ![r] = Return(r, "deadline", req[r].verdicts)]
        BY <3>2 DEF DeadlineExceeded, GiveUp
      <4>2. Expired(r)'
        BY <4>1 DEF Inv, TypeOK, Expired, Return, NewRequest
      <4> QED
        BY <4>2
    <3>3. CASE NoInstance(r) \/ Settle(r)
      BY <2>t, <3>3, NoInstanceMoves, SettleMoves, OneVerdict
    <3>4. ASSUME \/ ListHealthy(r) \/ Retry(r) \/ Responds(r)
                 \/ \E i \in Instances : Consider(r, i) \/ Dispatch(r, i)
                 \/ \E got \in BOOLEAN : AttemptFails(r, got)
          PROVE  OnService' # {}
      <4>1. Alone(r) /\ req'[r].pc \notin {"new", "done"}
        BY <3>4, ListMoves, RetryMoves, RespondsMoves, ConsiderMoves, DispatchMoves,
           FailsMoves
      <4> QED
        BY <2>1, <4>1
    <3> QED
      BY <2>2, <3>1, <3>2, <3>3, <3>4 DEF Step
  <2>3. ASSUME NEW r \in Requests, CtxStep(r)
        PROVE  OnService' # {}
    <3>1. req[r].pc \notin {"new", "done"}
      BY <2>3 DEF CtxStep, Live
    <3>2. Alone(r) /\ req'[r].pc = req[r].pc
      BY <1>2, <2>3, ContextMoves
    <3> QED
      BY <2>1, <3>1, <3>2
  <2>4. CASE (\E i \in Instances : HealthFlip(i)) \/ Tick \/ UNCHANGED vars
    <3>1. req' = req /\ svcCB'.state = svcCB.state
      BY <2>t, <2>4, TickMoves DEF HealthFlip, Tick, vars
    <3>2. OnService' = OnService /\ (\A s \in Requests : Expired(s)' <=> Expired(s))
      BY <3>1 DEF OnService, Live, Expired
    <3> QED
      BY <1>2, <3>1, <3>2 DEF ProbeLostOnDeadlineOnly
  <2> QED
    BY <1>2, <2>2, <2>3, <2>4 DEF Next
<1> QED
  BY <1>1, <1>2, Invariance, PTL DEF Spec

-----------------------------------------------------------------------------
(* The proxy keeps to the contract of the service breaker: every step is a *)
(* step of BreakerContract with callers that may abandon, or changes       *)
(* neither the breaker's state nor whom it waits for.                      *)
THEOREM ServiceContractKept == Spec => ServiceBreakerUse
<1>1. Init => ServiceContract!Init
  BY DEF Init, ServiceContract!Init, NewBreaker, NewRequest, OnService, Live
<1>2. ASSUME Inv, [Next]_vars
      PROVE  ServiceContract!AbandonNext \/ UNCHANGED ServiceContract!vars
  <2> USE <1>2 DEF ServiceContract!AbandonNext, ServiceContract!Next, ServiceContract!vars
  <2>t. svcCB \in BreakerRecord
    BY DEF Inv, TypeOK
  <2>1. ASSUME NEW r \in Requests, Step(r)
        PROVE  ServiceContract!AbandonNext \/ UNCHANGED ServiceContract!vars
    <3>1. ASSUME NEW idem \in BOOLEAN, NEW body \in Bodies, Begin(r, idem, body)
          PROVE  ServiceContract!AbandonNext \/ UNCHANGED ServiceContract!vars
      <4>1. /\ Alone(r) /\ req[r].pc = "new" /\ svcCB' = AfterAllow(svcCB)
            /\ req'[r].pc = IF AllowResult(svcCB) THEN "attempt" ELSE "done"
        BY <3>1, BeginMoves
      <4>2. CASE AllowResult(svcCB)
        <5>1. r \notin OnService /\ OnService' = OnService \cup {r}
          BY <4>1, <4>2, ServiceMoves DEF Alone
        <5>2. ServiceContract!Admit(r) \/ ServiceContract!Probe(r)
          BY <2>t, <4>1, <4>2, <5>1, AllowMoves
             DEF ServiceContract!Admit, ServiceContract!Probe
        <5> QED
          BY <5>2
      <4>3. CASE ~AllowResult(svcCB)
        <5>1. OnService' = OnService
          BY <4>1, <4>3, ServiceMoves DEF Alone
        <5> QED
          BY <2>t, <4>1, <4>3, <5>1, AllowMoves
      <4> QED
        BY <4>2, <4>3
    <3>2. CASE DeadlineExceeded(r) \/ GiveUp(r)
      <4>1. r \in OnService /\ OnService' = OnService \ {r}
        BY <3>2, DeadlineMoves, ServiceMoves DEF Alone
      <4>2. ServiceContract!Abandon(r)
        BY <3>2, <4>1, DeadlineMoves DEF ServiceContract!Abandon, Silently
      <4> QED
        BY <4>2
    <3>3. CASE NoInstance(r)
      <4>1. r \in OnService /\ OnService' = OnService \ {r}
        BY <3>3, NoInstanceMoves, ServiceMoves DEF Alone
      <4>2. ServiceContract!Fail(r)
        BY <2>t, <3>3, <4>1, NoInstanceMoves, FailureMoves DEF ServiceContract!Fail
      <4> QED
        BY <4>2
    <3>4. CASE Settle(r)
      <4>1. r \in OnService /\ OnService' = OnService \ {r}
        BY <3>4, SettleMoves, ServiceMoves DEF Alone
      <4>2. ServiceContract!Succeed(r) \/ ServiceContract!Fail(r)
        BY <2>t, <3>4, <4>1, SettleMoves, SuccessMoves, FailureMoves
           DEF ServiceContract!Succeed, ServiceContract!Fail
      <4> QED
        BY <4>2
    <3>5. ASSUME \/ ListHealthy(r) \/ Retry(r) \/ Responds(r)
                 \/ \E i \in Instances : Consider(r, i) \/ Dispatch(r, i)
                 \/ \E got \in BOOLEAN : AttemptFails(r, got)
          PROVE  UNCHANGED ServiceContract!vars
      <4>1. /\ Alone(r) /\ svcCB' = svcCB
            /\ req[r].pc \notin {"new", "done"} /\ req'[r].pc \notin {"new", "done"}
        BY <3>5, ListMoves, RetryMoves, RespondsMoves, ConsiderMoves, DispatchMoves,
           FailsMoves DEF Silently
      <4>2. OnService' = OnService
        BY <4>1, ServiceMoves DEF Alone
      <4> QED
        BY <4>1, <4>2
    <3> QED
      BY <2>1, <3>1, <3>2, <3>3, <3>4, <3>5 DEF Step
  <2>2. ASSUME NEW r \in Requests, CtxStep(r) PROVE UNCHANGED ServiceContract!vars
    <3>1. Alone(r) /\ svcCB' = svcCB /\ req'[r].pc = req[r].pc
      BY <2>2, ContextMoves DEF Silently
    <3>2. OnService' = OnService
      BY <3>1, ServiceMoves DEF Alone
    <3> QED
      BY <3>1, <3>2
  <2>3. ASSUME NEW i \in Instances, HealthFlip(i) PROVE UNCHANGED ServiceContract!vars
    BY <2>3 DEF HealthFlip, OnService, Live
  <2>4. CASE Tick
    BY <2>t, <2>4, TickMoves DEF Tick, OnService, Live
  <2>5. CASE UNCHANGED vars
    BY <2>5 DEF vars, OnService, Live
  <2> QED
    BY <2>1, <2>2, <2>3, <2>4, <2>5 DEF Next
<1>3. Inv /\ [Next]_vars => [ServiceContract!AbandonNext]_(ServiceContract!vars)
  BY <1>2
<1> QED
  BY <1>1, <1>3, Invariance, PTL DEF Spec, ServiceBreakerUse, ServiceContract!AbandonSpec

-----------------------------------------------------------------------------
(* The requests the breaker of instance i waits for, when one of them      *)
(* moves; Held tells whether it waits for a request in state q.            *)
Held(q, i) ==
    \/ q.pc = "filter" /\ i \in q.eligible
    \/ q.pc = "calling" /\ q.inst = i

LEMMA InstanceMoves ==
    ASSUME NEW r \in Requests, Alone(r), NEW i \in Instances
    PROVE  /\ ~Held(req[r], i) /\ Held(req'[r], i)
              => r \notin OnInstance(i) /\ OnInstance(i)' = OnInstance(i) \cup {r}
           /\ Held(req[r], i) /\ ~Held(req'[r], i)
              => r \in OnInstance(i) /\ OnInstance(i)' = OnInstance(i) \ {r}
           /\ (Held(req[r], i) <=> Held(req'[r], i)) => OnInstance(i)' = OnInstance(i)
  BY DEF OnInstance, Held, Alone

(* What a step must do to the breaker of instance i.                       *)
KeepsContract(i) == InstanceContract(i)!AbandonNext \/ UNCHANGED InstanceContract(i)!vars

(* A step that neither touches that breaker nor moves a request on or off  *)
(* it.                                                                     *)
LEMMA InstanceUntouched ==
    ASSUME NEW i \in Instances, instCB'[i].state = instCB[i].state,
           OnInstance(i)' = OnInstance(i)
    PROVE  KeepsContract(i)
  BY DEF KeepsContract, InstanceContract!vars

LEMMA InstanceSteps ==
    ASSUME NEW i \in Instances, NEW r \in Requests,
           \/ InstanceContract(i)!Admit(r) \/ InstanceContract(i)!Probe(r)
           \/ InstanceContract(i)!Succeed(r) \/ InstanceContract(i)!Fail(r)
           \/ InstanceContract(i)!Abandon(r)
    PROVE  KeepsContract(i)
  BY DEF KeepsContract, InstanceContract!AbandonNext, InstanceContract!Next

(* The breaker of every instance is used as its contract allows: it is     *)
(* told of a call only by a request it let through in the same attempt,    *)
(* and a request that picks another instance abandons it (filterEligible,  *)
(* doRequest).                                                             *)
THEOREM InstanceContractKept == Spec => InstanceBreakerUse
<1>1. ASSUME Inv, Next, NEW i \in Instances PROVE KeepsContract(i)
  <2> USE <1>1
  <2>t. instCB \in [Instances -> BreakerRecord] /\ instCB[i] \in BreakerRecord
    BY DEF Inv, TypeOK
  <2>1. ASSUME NEW r \in Requests, Step(r) PROVE KeepsContract(i)
    <3>1. ASSUME Alone(r), instCB' = instCB,
                 ~Held(req[r], i) /\ ~Held(req'[r], i)
          PROVE  KeepsContract(i)
      BY <3>1, InstanceMoves, InstanceUntouched
    <3>2. ASSUME NEW idem \in BOOLEAN, NEW body \in Bodies, Begin(r, idem, body)
          PROVE  KeepsContract(i)
      <4>1. Alone(r) /\ instCB' = instCB /\ ~Held(req[r], i) /\ ~Held(req'[r], i)
        BY <3>2, BeginMoves DEF Held
      <4> QED
        BY <4>1, <3>1
    <3>3. CASE DeadlineExceeded(r) \/ GiveUp(r)
      <4>1. Alone(r) /\ instCB' = instCB /\ ~Held(req[r], i) /\ ~Held(req'[r], i)
        BY <3>3, DeadlineMoves DEF Held, Silently
      <4> QED
        BY <4>1, <3>1
    <3>4. CASE ListHealthy(r)
      <4>1. Alone(r) /\ instCB' = instCB /\ ~Held(req[r], i) /\ ~Held(req'[r], i)
        BY <3>4, ListMoves DEF Held, Silently
      <4> QED
        BY <4>1, <3>1
    <3>5. CASE NoInstance(r)
      <4>1. Alone(r) /\ instCB' = instCB /\ ~Held(req[r], i) /\ ~Held(req'[r], i)
        BY <3>5, NoInstanceMoves DEF Held
      <4> QED
        BY <4>1, <3>1
    <3>6. ASSUME NEW j \in Instances, Consider(r, j) PROVE KeepsContract(i)
      <4>1. /\ Alone(r) /\ req[r].pc = "filter" /\ req'[r].pc = "filter"
            /\ j \notin req[r].eligible
            /\ IF j \in healthy /\ AllowResult(instCB[j])
               THEN /\ req'[r].eligible = req[r].eligible \cup {j}
                    /\ instCB' = [instCB EXCEPT ![j] = AfterAllow(instCB[j])]
               ELSE /\ req'[r].eligible = req[r].eligible
                    /\ instCB' = instCB
        BY <3>6, ConsiderMoves
      <4>2. CASE i = j /\ j \in healthy /\ AllowResult(instCB[j])
        <5>1. ~Held(req[r], i) /\ Held(req'[r], i)
          BY <4>1, <4>2 DEF Held
        <5>2. r \notin OnInstance(i) /\ OnInstance(i)' = OnInstance(i) \cup {r}
          BY <4>1, <5>1, InstanceMoves
        <5>3. instCB'[i] = AfterAllow(instCB[i])
          BY <2>t, <4>1, <4>2
        <5>4. InstanceContract(i)!Admit(r) \/ InstanceContract(i)!Probe(r)
          BY <2>t, <4>2, <5>2, <5>3, AllowMoves
             DEF InstanceContract!Admit, InstanceContract!Probe
        <5> QED
          BY <5>4, InstanceSteps
      <4>3. CASE ~(i = j /\ j \in healthy /\ AllowResult(instCB[j]))
        <5>1. Held(req[r], i) <=> Held(req'[r], i)
          BY <4>1, <4>3 DEF Held
        <5>2. OnInstance(i)' = OnInstance(i)
          BY <4>1, <5>1, InstanceMoves
        <5>3. instCB'[i] = instCB[i]
          BY <2>t, <4>1, <4>3
        <5> QED
          BY <5>2, <5>3, InstanceUntouched
      <4> QED
        BY <4>2, <4>3
    <3>7. ASSUME NEW j \in Instances, Dispatch(r, j) PROVE KeepsContract(i)
      <4>1. /\ Alone(r) /\ instCB' = instCB /\ req[r].pc = "filter" /\ j \in req[r].eligible
            /\ req'[r].pc = "calling" /\ req'[r].inst = j
        BY <3>7, DispatchMoves DEF Silently
      <4>2. CASE Held(req[r], i) /\ ~Held(req'[r], i)
        <5>1. InstanceContract(i)!Abandon(r)
          BY <4>1, <4>2, InstanceMoves DEF InstanceContract!Abandon
        <5> QED
          BY <5>1, InstanceSteps
      <4>3. CASE Held(req[r], i) <=> Held(req'[r], i)
        BY <4>1, <4>3, InstanceMoves, InstanceUntouched
      <4> QED
        BY <4>1, <4>2, <4>3 DEF Held
    <3>8. ASSUME Alone(r), req[r].pc = "calling", req[r].inst = i,
                 Held(req'[r], i) = FALSE,
                 \/ instCB'[i] = AfterSuccess(instCB[i])
                 \/ instCB'[i] = AfterFailure(instCB[i])
          PROVE  KeepsContract(i)
      <4>1. r \in OnInstance(i) /\ OnInstance(i)' = OnInstance(i) \ {r}
        BY <3>8, InstanceMoves DEF Held
      <4>2. InstanceContract(i)!Succeed(r) \/ InstanceContract(i)!Fail(r)
        BY <2>t, <3>8, <4>1, SuccessMoves, FailureMoves
           DEF InstanceContract!Succeed, InstanceContract!Fail
      <4> QED
        BY <4>2, InstanceSteps
    <3>9. ASSUME Responds(r) \/ \E got \in BOOLEAN : AttemptFails(r, got)
          PROVE  KeepsContract(i)
      <4>1. /\ Alone(r) /\ req[r].pc = "calling" /\ req[r].inst \in Instances
            /\ req'[r].pc \in {"succeeded", "backoff", "failed"}
            /\ \/ instCB' = [instCB EXCEPT ![req[r].inst] = AfterSuccess(instCB[req[r].inst])]
               \/ instCB' = [instCB EXCEPT ![req[r].inst] = AfterFailure(instCB[req[r].inst])]
        BY <3>9, RespondsMoves, FailsMoves
      <4>2. CASE req[r].inst = i
        <5>1. Held(req'[r], i) = FALSE
          BY <4>1 DEF Held
        <5>2. \/ instCB'[i] = AfterSuccess(instCB[i])
              \/ instCB'[i] = AfterFailure(instCB[i])
          BY <2>t, <4>1, <4>2
        <5> QED
          BY <3>8, <4>1, <4>2, <5>1, <5>2
      <4>3. CASE req[r].inst # i
        <5>1. ~Held(req[r], i) /\ ~Held(req'[r], i)
          BY <4>1, <4>3 DEF Held
        <5>2. instCB'[i] = instCB[i]
          BY <2>t, <4>1, <4>3
        <5> QED
          BY <4>1, <5>1, <5>2, InstanceMoves, InstanceUntouched
      <4> QED
        BY <4>2, <4>3
    <3>10. CASE Settle(r)
      <4>1. Alone(r) /\ instCB' = instCB /\ ~Held(req[r], i) /\ ~Held(req'[r], i)
        BY <3>10, SettleMoves DEF Held
      <4> QED
        BY <4>1, <3>1
    <3>11. CASE Retry(r)
      <4>1. Alone(r) /\ instCB' = instCB /\ ~Held(req[r], i) /\ ~Held(req'[r], i)
        BY <3>11, RetryMoves DEF Held, Silently
      <4> QED
        BY <4>1, <3>1
    <3> QED
      BY <2>1, <3>2, <3>3, <3>4, <3>5, <3>6, <3>7, <3>9, <3>10, <3>11 DEF Step
  <2>2. ASSUME NEW r \in Requests, CtxStep(r) PROVE KeepsContract(i)
    <3>1. /\ Alone(r) /\ instCB' = instCB /\ req'[r].pc = req[r].pc
          /\ req'[r].eligible = req[r].eligible /\ req'[r].inst = req[r].inst
      BY <2>2, ContextMoves DEF Silently
    <3>2. Held(req[r], i) <=> Held(req'[r], i)
      BY <3>1 DEF Held
    <3> QED
      BY <3>1, <3>2, InstanceMoves, InstanceUntouched
  <2>3. ASSUME NEW j \in Instances, HealthFlip(j) PROVE KeepsContract(i)
    BY <2>3, InstanceUntouched DEF HealthFlip, OnInstance
  <2>4. CASE Tick
    <3>1. instCB'[i].state = instCB[i].state /\ OnInstance(i)' = OnInstance(i)
      BY <2>t, <2>4, TickMoves DEF Tick, OnInstance
    <3> QED
      BY <3>1, InstanceUntouched
  <2> QED
    BY <2>1, <2>2, <2>3, <2>4 DEF Next
<1>2. Inv /\ [Next]_vars =>
         [\A i \in Instances : \/ InstanceContract(i)!AbandonNext
                               \/ UNCHANGED InstanceContract(i)!vars]_vars
  BY <1>1 DEF KeepsContract
<1> QED
  BY <1>2, Invariance, PTL DEF Spec, InstanceBreakerUse

-----------------------------------------------------------------------------
(* Every step brings the return of a request closer.  The rank counts the  *)
(* attempts left in units of PerAttempt, more than an attempt can use up.  *)
PerAttempt == Cardinality(Instances) + 6

LEMMA InstanceCount ==
    /\ Cardinality(Instances) \in Nat
    /\ PerAttempt \in Nat
    /\ \A T \in SUBSET Instances :
          /\ Cardinality(T) \in Nat /\ Cardinality(T) <= Cardinality(Instances)
          /\ \A i \in T : Cardinality(T \ {i}) = Cardinality(T) - 1
<1>1. Cardinality(Instances) \in Nat
  BY ProxyAssumption, FS_CardinalityType
<1>2. ASSUME NEW T \in SUBSET Instances
      PROVE  /\ Cardinality(T) \in Nat /\ Cardinality(T) <= Cardinality(Instances)
             /\ \A i \in T : Cardinality(T \ {i}) = Cardinality(T) - 1
  <2>1. IsFiniteSet(T) /\ Cardinality(T) <= Cardinality(Instances)
    BY ProxyAssumption, FS_Subset
  <2> QED
    BY <2>1, FS_CardinalityType, FS_RemoveElement
<1> QED
  BY <1>1, <1>2 DEF PerAttempt

LEMMA RankValues ==
    ASSUME NEW q
    PROVE  LET left == (MaxRetries - q.attempt) * PerAttempt IN
           /\ q.pc = "done" => Rank(q) = 0
           /\ q.pc = "new" => Rank(q) = (MaxRetries + 1) * PerAttempt
           /\ q.pc = "attempt" => Rank(q) = left + (Cardinality(Instances) + 5)
           /\ q.pc = "filter" => Rank(q) = left + (Cardinality(q.todo) + 4)
           /\ q.pc = "calling" => Rank(q) = left + 3
           /\ q.pc = "backoff" => Rank(q) = left + 2
           /\ q.pc \in {"succeeded", "failed"} => Rank(q) = left + 1
  BY DEF Rank, Stage, PerAttempt

LEMMA LeftType ==
    ASSUME NEW n \in Nat
    PROVE  /\ n * PerAttempt \in Nat
           /\ (n + 1) * PerAttempt = n * PerAttempt + PerAttempt
  BY InstanceCount

LEMMA StepRank ==
    ASSUME Inv, NEW r \in Requests, Step(r)
    PROVE  Alone(r) /\ Rank(req'[r]) < Rank(req[r])
<1> DEFINE p == req[r]
           left == (MaxRetries - p.attempt) * PerAttempt
<1>1. /\ p \in RequestRecord /\ p.attempt \in 0 .. MaxRetries /\ p.todo \in SUBSET Instances
  BY DEF Inv, TypeOK, RequestRecord
<1>2. MaxRetries - p.attempt \in Nat /\ MaxRetries \in Nat
  BY <1>1, ProxyAssumption
<1>3. left \in Nat
  BY <1>2, LeftType
<1> HIDE DEF left
<1>4. p.pc \in {"attempt", "filter", "calling", "backoff", "succeeded", "failed"}
      => Rank(p) \in Nat /\ Rank(p) > 0
  BY <1>1, <1>3, RankValues, InstanceCount DEF left
<1>5. ASSUME Alone(r), req'[r].pc = "done",
             p.pc \in {"attempt", "filter", "calling", "backoff", "succeeded", "failed"}
      PROVE  Rank(req'[r]) < Rank(p)
  BY <1>4, <1>5, RankValues
<1>6. ASSUME NEW idem \in BOOLEAN, NEW body \in Bodies, Begin(r, idem, body)
      PROVE  Alone(r) /\ Rank(req'[r]) < Rank(p)
  <2>1. /\ Alone(r) /\ p.pc = "new" /\ req'[r].attempt = 0
        /\ req'[r].pc = "attempt" \/ req'[r].pc = "done"
    BY <1>6, BeginMoves
  <2>2. Rank(p) = (MaxRetries + 1) * PerAttempt
    BY <2>1, RankValues
  <2>3. /\ MaxRetries * PerAttempt \in Nat
        /\ (MaxRetries + 1) * PerAttempt = MaxRetries * PerAttempt + PerAttempt
    BY <1>2, LeftType
  <2>4. CASE req'[r].pc = "attempt"
    <3>1. Rank(req'[r]) = (MaxRetries - 0) * PerAttempt + (Cardinality(Instances) + 5)
      BY <2>1, <2>4, RankValues
    <3>2. MaxRetries - 0 = MaxRetries
      BY <1>2
    <3> QED
      BY <2>1, <2>2, <2>3, <3>1, <3>2, InstanceCount DEF PerAttempt
  <2>5. CASE req'[r].pc = "done"
    BY <2>1, <2>2, <2>3, <2>5, RankValues, InstanceCount DEF PerAttempt
  <2> QED
    BY <2>1, <2>4, <2>5
<1>7. CASE DeadlineExceeded(r) \/ GiveUp(r)
  BY <1>5, <1>7, DeadlineMoves
<1>8. CASE ListHealthy(r)
  <2>1. /\ Alone(r) /\ p.pc = "attempt" /\ req'[r].pc = "filter"
        /\ req'[r].todo = healthy /\ req'[r].attempt = p.attempt
    BY <1>8, ListMoves
  <2>2. /\ Rank(p) = left + (Cardinality(Instances) + 5)
        /\ Rank(req'[r]) = left + (Cardinality(healthy) + 4)
    BY <2>1, RankValues DEF left
  <2>3. healthy \in SUBSET Instances
    BY DEF Inv, TypeOK
  <2> QED
    BY <1>3, <2>1, <2>2, <2>3, InstanceCount
<1>9. CASE NoInstance(r)
  BY <1>5, <1>9, NoInstanceMoves
<1>10. ASSUME NEW i \in Instances, Consider(r, i) PROVE Alone(r) /\ Rank(req'[r]) < Rank(p)
  <2>1. /\ Alone(r) /\ p.pc = "filter" /\ req'[r].pc = "filter" /\ i \in p.todo
        /\ req'[r].todo = p.todo \ {i} /\ req'[r].attempt = p.attempt
    BY <1>10, ConsiderMoves
  <2>2. /\ Rank(p) = left + (Cardinality(p.todo) + 4)
        /\ Rank(req'[r]) = left + (Cardinality(p.todo \ {i}) + 4)
    BY <2>1, RankValues DEF left
  <2>3. /\ Cardinality(p.todo) \in Nat
        /\ Cardinality(p.todo \ {i}) = Cardinality(p.todo) - 1
    BY <1>1, <2>1, InstanceCount
  <2> QED
    BY <1>3, <2>1, <2>2, <2>3
<1>11. ASSUME NEW i \in Instances, Dispatch(r, i) PROVE Alone(r) /\ Rank(req'[r]) < Rank(p)
  <2>1. Alone(r) /\ p.pc = "filter" /\ req'[r].pc = "calling" /\ req'[r].attempt = p.attempt
    BY <1>11, DispatchMoves
  <2>2. Rank(p) = left + (Cardinality(p.todo) + 4) /\ Rank(req'[r]) = left + 3
    BY <2>1, RankValues DEF left
  <2>3. Cardinality(p.todo) \in Nat
    BY <1>1, InstanceCount
  <2> QED
    BY <1>3, <2>1, <2>2, <2>3
<1>12. ASSUME Responds(r) \/ \E got \in BOOLEAN : AttemptFails(r, got)
       PROVE  Alone(r) /\ Rank(req'[r]) < Rank(p)
  <2>1. /\ Alone(r) /\ p.pc = "calling" /\ req'[r].attempt = p.attempt
        /\ req'[r].pc \in {"succeeded", "failed", "backoff"}
    BY <1>12, RespondsMoves, FailsMoves
  <2>2. /\ Rank(p) = left + 3
        /\ Rank(req'[r]) = left + 1 \/ Rank(req'[r]) = left + 2
    BY <2>1, RankValues DEF left
  <2> QED
    BY <1>3, <2>1, <2>2
<1>13. CASE Settle(r)
  BY <1>5, <1>13, SettleMoves
<1>14. CASE Retry(r)
  <2>1. /\ Alone(r) /\ p.pc = "backoff" /\ req'[r].pc = "attempt"
        /\ p.attempt < MaxRetries /\ req'[r].attempt = p.attempt + 1
    BY <1>14, RetryMoves
  <2> DEFINE n == MaxRetries - (p.attempt + 1)
  <2>2. n \in Nat /\ n + 1 = MaxRetries - p.attempt
    BY <1>1, <1>2, <2>1
  <2>3. /\ Rank(p) = (n + 1) * PerAttempt + 2
        /\ Rank(req'[r]) = n * PerAttempt + (Cardinality(Instances) + 5)
    BY <2>1, <2>2, RankValues
  <2> HIDE DEF n
  <2>4. n * PerAttempt \in Nat /\ (n + 1) * PerAttempt = n * PerAttempt + PerAttempt
    BY <2>2, LeftType
  <2> QED
    BY <2>1, <2>3, <2>4, InstanceCount DEF PerAttempt
<1> QED
  BY <1>6, <1>7, <1>8, <1>9, <1>10, <1>11, <1>12, <1>13, <1>14 DEF Step

(* ProxyRequest cannot loop: whatever else happens, each of its own steps  *)
(* lowers a rank that is a natural number, for any number of retries and   *)
(* any finite set of instances.                                            *)
THEOREM EveryStepAdvances == Spec => StepsAdvance
<1>1. ASSUME Inv, Next, NEW r \in Requests,
             [req'[r] EXCEPT !.ctx = req[r].ctx] # req[r]
      PROVE  Rank(req'[r]) < Rank(req[r])
  <2>1. req[r] \in RequestRecord
    BY <1>1 DEF Inv, TypeOK
  <2>2. ASSUME NEW c \in Contexts
        PROVE  [[req[r] EXCEPT !.ctx = c] EXCEPT !.ctx = req[r].ctx] = req[r]
    BY <2>1 DEF RequestRecord
  <2>3. [req[r] EXCEPT !.ctx = req[r].ctx] = req[r]
    BY <2>1 DEF RequestRecord
  <2>4. req'[r] # req[r]
    BY <1>1, <2>3
  <2>5. ASSUME NEW s \in Requests, Step(s) PROVE Rank(req'[r]) < Rank(req[r])
    <3>1. s = r
      BY <1>1, <2>4, <2>5, StepRank DEF Alone
    <3> QED
      BY <1>1, <2>5, <3>1, StepRank
  <2>6. ASSUME NEW s \in Requests, CtxStep(s) PROVE FALSE
    <3>1. s = r
      BY <1>1, <2>4, <2>6, ContextMoves DEF Alone
    <3> QED
      BY <1>1, <2>2, <2>6, <3>1, ContextMoves
  <2>7. ASSUME NEW i \in Instances, HealthFlip(i) PROVE FALSE
    BY <2>4, <2>7 DEF HealthFlip
  <2>8. ASSUME Tick PROVE FALSE
    BY <2>4, <2>8 DEF Tick
  <2> QED
    BY <1>1, <2>5, <2>6, <2>7, <2>8 DEF Next
<1>2. Inv /\ [Next]_vars =>
         [\A r \in Requests : [req'[r] EXCEPT !.ctx = req[r].ctx] # req[r]
                              => Rank(req'[r]) < Rank(req[r])]_vars
  BY <1>1
<1> QED
  BY <1>2, Invariance, PTL DEF Spec, StepsAdvance
=============================================================================
