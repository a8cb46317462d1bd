-------------------------------- MODULE Proxy --------------------------------
(***************************************************************************)
(* ReverseProxy.ProxyRequest for the concurrent requests of one service:   *)
(* the service breaker, the choice of an instance through the load         *)
(* balancer and the per-instance breakers, the upstream call, retries with *)
(* backoff, and every early return.  A step is what happens between two    *)
(* accesses to state that requests share (a breaker's mutex, an instance's *)
(* health flag).                                                           *)
(*                                                                         *)
(* Which eligible instance the balancer picks is left open: the property   *)
(* holds or fails for round robin, random and smart alike.  A status is    *)
(* "final" or "retryable" (502, 503, 504); a body cut short while it is    *)
(* streamed is only logged and counts as the status it came with.  Every   *)
(* service and instance has a breaker; the code goes on without one where  *)
(* serviceCB is nil or instanceCBs has no entry.                           *)
(***************************************************************************)
EXTENDS Breaker, FiniteSets

CONSTANTS
    Requests,       \* one ProxyRequest call each
    Instances,      \* instances of the service, each with a breaker
    Bodies,         \* kinds of request bodies to look at: "none", "whole"
    MaxRetries      \* maxRetries, 2 in the code

ASSUME ProxyAssumption ==
    /\ MaxRetries \in Nat
    /\ Bodies \subseteq {"none", "whole"}
    /\ IsFiniteSet(Instances)

VARIABLES
    svcCB,      \* the service-level breaker
    instCB,     \* the breaker of each instance
    healthy,    \* instances whose health flag is up
    req         \* the local state of each request

vars == <<svcCB, instCB, healthy, req>>

Contexts == {"live", "low", "expired", "cancelled"}

Results == {"none", "circuit_open", "deadline", "no_healthy", "ok", "upstream_error"}

(* pc        where in ProxyRequest the request is                          *)
(* idem      isIdempotentRequest                                           *)
(* ctx       its context: far from its deadline, less than                 *)
(*           minRemainingForRetry before it, past it, or cancelled          *)
(* todo      healthy instances the balancer has not yet filtered           *)
(* eligible  instances that passed the filter                              *)
(* inst      the instance being called                                     *)
(* body      what is left of its body: it has none, nobody has touched it, *)
(*           or an attempt has read from it and closed it                  *)
(* calls     auxiliary: calls of client.Do                                 *)
(* written   a response has been written to the client                     *)
(* verdicts  auxiliary: outcomes recorded on the service breaker           *)
RequestRecord ==
    [ pc       : {"new", "attempt", "filter", "calling", "succeeded", "failed",
                  "backoff", "done"},
      idem     : BOOLEAN,
      ctx      : Contexts,
      attempt  : 0 .. MaxRetries,
      todo     : SUBSET Instances,
      eligible : SUBSET Instances,
      inst     : Instances \cup {"none"},
      body     : {"none", "whole", "spent"},
      calls    : 0 .. MaxRetries + 1,
      written  : BOOLEAN,
      verdicts : 0 .. 1,
      result   : Results ]

NewRequest ==
    [pc |-> "new", idem |-> FALSE, ctx |-> "live", attempt |-> 0, todo |-> {},
     eligible |-> {}, inst |-> "none", body |-> "none", calls |-> 0,
     written |-> FALSE, verdicts |-> 0, result |-> "none"]

Init ==
    /\ svcCB = NewBreaker
    /\ instCB = [i \in Instances |-> NewBreaker]
    /\ healthy \in SUBSET Instances
    /\ req = [r \in Requests |-> NewRequest]

(* The context is done: ctx.Done() is closed.                              *)
CtxDone(r) == req[r].ctx \in {"expired", "cancelled"}

(* The service breaker let the request through and it has not returned.    *)
Live(r) == req[r].pc \notin {"new", "done"}

(* ProxyRequest returns, having recorded so many verdicts; its locals die. *)
Return(r, result, verdicts) ==
    [NewRequest EXCEPT !.pc = "done", !.result = result, !.verdicts = verdicts,
                       !.idem = req[r].idem, !.calls = req[r].calls,
                       !.written = req[r].written]

-----------------------------------------------------------------------------
(* The service breaker is asked first; an open one fails the request.      *)
Begin(r, idem, body) ==
    /\ req[r].pc = "new"
    /\ svcCB' = AfterAllow(svcCB)
    /\ req' = [req EXCEPT ![r] =
                 IF AllowResult(svcCB)
                 THEN [@ EXCEPT !.pc = "attempt", !.idem = idem, !.body = body]
                 ELSE Return(r, "circuit_open", 0)]
    /\ UNCHANGED <<instCB, healthy>>

(* Top of the loop: less than minRemainingForRetry before the deadline.    *)
DeadlineExceeded(r) ==
    /\ req[r].pc = "attempt"
    /\ req[r].ctx \in {"low", "expired"}
    /\ req' = [req EXCEPT ![r] = Return(r, "deadline", req[r].verdicts)]
    /\ UNCHANGED <<svcCB, instCB, healthy>>

(* Otherwise svc.HealthyInstances() is read for this attempt.              *)
ListHealthy(r) ==
    /\ req[r].pc = "attempt"
    /\ req[r].ctx \in {"live", "cancelled"}
    /\ req' = [req EXCEPT ![r] = [@ EXCEPT !.pc = "filter", !.todo = healthy]]
    /\ UNCHANGED <<svcCB, instCB, healthy>>

(* filterEligible on one instance: IsHealthy is read again, and isSkipped  *)
(* calls Allow on the instance's breaker whether or not the instance will  *)
(* be picked.                                                              *)
Consider(r, i) ==
    /\ req[r].pc = "filter"
    /\ i \in req[r].todo
    /\ LET asked == i \in healthy
           cb == instCB[i]
       IN /\ instCB' = IF asked THEN [instCB EXCEPT ![i] = AfterAllow(cb)] ELSE instCB
          /\ req' = [req EXCEPT
                ![r].todo = @ \ {i},
                ![r].eligible = IF asked /\ AllowResult(cb) THEN @ \cup {i} ELSE @]
    /\ UNCHANGED <<svcCB, healthy>>

(* The balancer found nothing and the service breaker is not told.         *)
NoInstanceUnrecorded(r) ==
    /\ req[r].pc = "filter"
    /\ req[r].todo = {} /\ req[r].eligible = {}
    /\ req' = [req EXCEPT ![r] = Return(r, "no_healthy", req[r].verdicts)]
    /\ UNCHANGED <<svcCB, instCB, healthy>>

(* The balancer found nothing: the service breaker counts a failure.       *)
NoInstance(r) ==
    /\ req[r].pc = "filter"
    /\ req[r].todo = {} /\ req[r].eligible = {}
    /\ svcCB' = AfterFailure(svcCB)
    /\ req' = [req EXCEPT ![r] = Return(r, "no_healthy", req[r].verdicts + 1)]
    /\ UNCHANGED <<instCB, healthy>>

(* The pick is made among the healthy instances, not the eligible ones.    *)
DispatchUnfiltered(r, i) ==
    /\ req[r].pc = "filter"
    /\ req[r].todo = {} /\ i \in healthy
    /\ req' = [req EXCEPT
          ![r].pc = "calling", ![r].inst = i, ![r].eligible = {},
          ![r].calls = IF CtxDone(r) THEN @ ELSE @ + 1]
    /\ UNCHANGED <<svcCB, instCB, healthy>>

(* The balancer picks an instance and doRequest starts.  A context that is *)
(* done already keeps the request from being sent.  client.Do reads from   *)
(* r.Body and closes it whatever becomes of the call.  One client.Do is    *)
(* one call here, though net/http may follow redirects or replay a request *)
(* on a fresh connection within it.                                        *)
Dispatch(r, i) ==
    /\ req[r].pc = "filter"
    /\ req[r].todo = {} /\ i \in req[r].eligible
    /\ req' = [req EXCEPT
          ![r].pc = "calling", ![r].inst = i, ![r].eligible = {},
          ![r].body = IF @ = "none" THEN @ ELSE "spent",
          ![r].calls = IF CtxDone(r) THEN @ ELSE @ + 1]
    /\ UNCHANGED <<svcCB, instCB, healthy>>

(* A final status: headers and body go to the client, the instance's       *)
(* breaker counts a success.                                               *)
Responds(r) ==
    /\ req[r].pc = "calling" /\ ~CtxDone(r)
    /\ instCB' = [instCB EXCEPT ![req[r].inst] = AfterSuccess(@)]
    /\ req' = [req EXCEPT ![r] = [@ EXCEPT !.pc = "succeeded", !.written = TRUE,
                                           !.inst = "none"]]
    /\ UNCHANGED <<svcCB, healthy>>

(* Whatever the method, a failed attempt is tried again.                   *)
RetryEverything(r) == req[r].attempt < MaxRetries

(* One attempt too many.                                                   *)
RetryOffByOne(r) == req[r].idem /\ req[r].attempt <= MaxRetries

(* A failed attempt may be followed by another.                            *)
MayRetry(r) == req[r].idem /\ req[r].attempt < MaxRetries

(* A retryable status, which doRequest has copied to the client already,   *)
(* or no response at all; the instance's breaker counts a failure.         *)
AttemptFails(r, gotStatus) ==
    /\ req[r].pc = "calling"
    /\ gotStatus => ~CtxDone(r)
    /\ instCB' = [instCB EXCEPT ![req[r].inst] = AfterFailure(@)]
    /\ req' = [req EXCEPT
          ![r].pc = IF MayRetry(r) THEN "backoff" ELSE "failed",
          ![r].inst = "none",
          ![r].written = @ \/ gotStatus]
    /\ UNCHANGED <<svcCB, healthy>>

(* The service breaker's verdict, recorded after the instance's.           *)
Settle(r) ==
    /\ UNCHANGED <<instCB, healthy>>
    /\ \/ /\ req[r].pc = "succeeded"
          /\ svcCB' = AfterSuccess(svcCB)
          /\ req' = [req EXCEPT ![r] = Return(r, "ok", req[r].verdicts + 1)]
       \/ /\ req[r].pc = "failed"
          /\ svcCB' = AfterFailure(svcCB)
          /\ req' = [req EXCEPT ![r] = Return(r, "upstream_error", req[r].verdicts + 1)]

(* The backoff is over but the attempt is not counted.                     *)
RetryUncounted(r) ==
    /\ req[r].pc = "backoff"
    /\ req' = [req EXCEPT ![r] = [@ EXCEPT !.pc = "attempt"]]
    /\ UNCHANGED <<svcCB, instCB, healthy>>

(* Each failed attempt, not only the last, is charged to the service.      *)
RetryCharged(r) ==
    /\ req[r].pc = "backoff"
    /\ svcCB' = AfterFailure(svcCB)
    /\ req' = [req EXCEPT ![r].pc = "attempt", ![r].attempt = @ + 1]
    /\ UNCHANGED <<instCB, healthy>>

(* The backoff timer fires first: the next attempt.                        *)
Retry(r) ==
    /\ req[r].pc = "backoff"
    /\ req' = [req EXCEPT ![r].pc = "attempt", ![r].attempt = @ + 1]
    /\ UNCHANGED <<svcCB, instCB, healthy>>

(* ctx.Done() wins the select: the request gives up.                       *)
GiveUp(r) ==
    /\ req[r].pc = "backoff"
    /\ CtxDone(r)
    /\ req' = [req EXCEPT ![r] = Return(r, "deadline", req[r].verdicts)]
    /\ UNCHANGED <<svcCB, instCB, healthy>>

-----------------------------------------------------------------------------
(* The environment: a deadline comes closer or the client goes away, a     *)
(* health check flips a flag, time passes for the breakers.                *)
CtxStep(r) ==
    /\ Live(r)
    /\ \/ req[r].ctx = "live" /\ req' = [req EXCEPT ![r].ctx = "low"]
       \/ req[r].ctx = "low" /\ req' = [req EXCEPT ![r].ctx = "expired"]
       \/ req[r].ctx = "live" /\ req' = [req EXCEPT ![r].ctx = "cancelled"]
    /\ UNCHANGED <<svcCB, instCB, healthy>>

HealthFlip(i) ==
    /\ healthy' = IF i \in healthy THEN healthy \ {i} ELSE healthy \cup {i}
    /\ UNCHANGED <<svcCB, instCB, req>>

Tick ==
    /\ svcCB' = AfterTick(svcCB)
    /\ instCB' = [i \in Instances |-> AfterTick(instCB[i])]
    /\ UNCHANGED <<healthy, req>>

Step(r) ==
    \/ \E idem \in BOOLEAN, body \in Bodies : Begin(r, idem, body)
    \/ DeadlineExceeded(r) \/ ListHealthy(r) \/ NoInstance(r)
    \/ \E i \in Instances : Consider(r, i) \/ Dispatch(r, i)
    \/ Responds(r) \/ \E gotStatus \in BOOLEAN : AttemptFails(r, gotStatus)
    \/ Settle(r) \/ Retry(r) \/ GiveUp(r)

Next ==
    \/ \E r \in Requests : Step(r) \/ CtxStep(r)
    \/ \E i \in Instances : HealthFlip(i)
    \/ Tick

Spec == Init /\ [][Next]_vars

-----------------------------------------------------------------------------
(* The breakers and the local state of every request have their types; in  *)
(* particular no request records two verdicts on the service breaker.      *)
TypeOK ==
    /\ svcCB \in BreakerRecord
    /\ instCB \in [Instances -> BreakerRecord]
    /\ healthy \subseteq Instances
    /\ req \in [Requests -> RequestRecord]

(* For a request that is not idempotent client.Do is called at most once,  *)
(* for an idempotent one at most MaxRetries + 1 times, whatever fails and  *)
(* however its context ends (isIdempotentRequest, maxRetries).             *)
SentAtMost ==
    \A r \in Requests :
        req[r].calls <= IF req[r].idem THEN MaxRetries + 1 ELSE 1

(* Requests the service breaker let through and has not heard of.          *)
OnService == {r \in Requests : Live(r)}

ServiceContract == INSTANCE BreakerContract
    WITH Callers <- Requests, state <- svcCB.state, admitted <- OnService

(* The proxy uses the service breaker as its contract allows: every        *)
(* recorded outcome belongs to a request that was let through, and a retry *)
(* that is still under way has recorded nothing.                           *)
ServiceBreakerUse == ServiceContract!AbandonSpec

(* Requests that instance i's breaker let through and has not heard of.    *)
OnInstance(i) ==
    {r \in Requests : \/ req[r].pc = "filter" /\ i \in req[r].eligible
                      \/ req[r].pc = "calling" /\ req[r].inst = i}

InstanceContract(i) == INSTANCE BreakerContract
    WITH Callers <- Requests, state <- instCB[i].state, admitted <- OnInstance(i)

(* The same for the breaker of each instance: an outcome is recorded only  *)
(* on the breaker of the instance that was called, by a request that       *)
(* breaker let through in the same attempt.                                *)
InstanceBreakerUse ==
    [][\A i \in Instances :
          \/ InstanceContract(i)!AbandonNext
          \/ UNCHANGED InstanceContract(i)!vars]_vars

(* What a request may still have to do: attempts left, then the place in   *)
(* the current one, then the instances left to filter.                     *)
Stage(q) ==
    CASE q.pc = "attempt" -> Cardinality(Instances) + 5
      [] q.pc = "filter"  -> Cardinality(q.todo) + 4
      [] q.pc = "calling" -> 3
      [] q.pc = "backoff" -> 2
      [] OTHER            -> 1

Rank(q) ==
    LET perAttempt == Cardinality(Instances) + 6
    IN CASE q.pc = "done" -> 0
         [] q.pc = "new"  -> (MaxRetries + 1) * perAttempt
         [] OTHER         -> (MaxRetries - q.attempt) * perAttempt + Stage(q)

(* Every step of a request brings its return closer, whatever the other    *)
(* requests, the breakers, the health checks and its context do meanwhile: *)
(* ProxyRequest cannot loop.                                               *)
StepsAdvance ==
    [][\A r \in Requests :
          [req'[r] EXCEPT !.ctx = req[r].ctx] # req[r] => Rank(req'[r]) < Rank(req[r])]_vars

Expired(r) == req[r].pc = "done" /\ req[r].result = "deadline"

(* With a SuccessThreshold of 1, a half-open service breaker has a request *)
(* that will resolve it, unless some request has returned on its deadline  *)
(* or its cancelled context (proxy.go:77, :160): no other way out of       *)
(* ProxyRequest, and no outcome of another request, loses the probe.       *)
ProbeLostOnDeadlineOnly ==
    (SuccessThreshold = 1 /\ svcCB.state = "half_open") =>
        OnService # {} \/ \E r \in Requests : Expired(r)

(* A half-open service breaker has a request that will resolve it          *)
(* (circuitbreaker.go:97-98, "until the probe resolves via RecordSuccess   *)
(* or RecordFailure").  The code does not keep this: ProxyRequest returns  *)
(* on its deadline or a cancelled context and records nothing              *)
(* (proxy.go:77, :160).                                                    *)
ServiceProbeHeld == svcCB.state = "half_open" => OnService # {}

(* The same for the breaker of each instance.  The code does not keep      *)
(* this: filterEligible takes the probe of an instance that is then not    *)
(* picked (proxy.go:84).                                                   *)
InstanceProbeHeld ==
    \A i \in Instances : instCB[i].state = "half_open" => OnInstance(i) # {}

(* A request is sent again only while the client has seen nothing of an    *)
(* answer and the body is still whole: "Once the response body has started *)
(* streaming to the client, retries are impossible" (proxy.go:50) and      *)
(* "methods where it is safe to retry" (proxy.go:217).                     *)
RetryIsClean ==
    [][\A r \in Requests :
          req[r].calls > 0 /\ req'[r].calls > req[r].calls =>
             ~req[r].written /\ req[r].body # "spent"]_vars
=============================================================================
