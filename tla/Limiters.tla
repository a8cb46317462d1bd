------------------------------ MODULE Limiters ------------------------------
(***************************************************************************)
(* The limiter of a route as NewFromConfig makes it (pkg/ratelimit/        *)
(* factory.go): a token bucket, or a Redis limiter, by the backend of its  *)
(* config.  A Redis limiter is given a token bucket as its fallback; the   *)
(* two share no state, a decision of the fallback is final, and what is    *)
(* shown of a bucket with any callers holds of it as well, so it does not  *)
(* move here.                                                              *)
(***************************************************************************)
EXTENDS RedisLimiter, TokenBucket

VARIABLE backend    \* LimiterConfig.Backend; "" is "memory"

limiterVars == <<backend, vars, bucketVars>>

(* Both limiters are new; any other backend is an error at startup.        *)
NewFromConfig ==
    /\ backend \in {"memory", "redis"}
    /\ Init
    /\ BucketInit

(* Limiter.Allow, and what runs beside it.                                 *)
LimiterNext ==
    \/ backend = "redis"  /\ Next       /\ UNCHANGED <<backend, bucketVars>>
    \/ backend = "memory" /\ BucketNext /\ UNCHANGED <<backend, vars>>

LimiterSpec == NewFromConfig /\ [][LimiterNext]_limiterVars
=============================================================================
