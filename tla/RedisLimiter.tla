---------------------------- MODULE RedisLimiter ----------------------------
(***************************************************************************)
(* RedisLimiter.Allow called by concurrent requests for one key: the       *)
(* fallbackMode flag, the circuit breaker in front of Redis, the sliding   *)
(* window script, and the goroutines that end fallback mode.  The          *)
(* in-memory fallback answers without any effect on this state.            *)
(*                                                                         *)
(* Redis itself is outside the repository; the script it runs is not.      *)
(* While redisUp is FALSE (Redis is down, a call outlives its 45ms, or the *)
(* caller's context is cancelled) a call fails, and the script may have    *)
(* run all the same.  The script's replies have two elements, so the       *)
(* length check on them never fails.                                       *)
(*                                                                         *)
(* Abstractions.  A score of the ZSET is kept as its age in ticks,         *)
(* saturated at Window, where the entry has left the window.  The script   *)
(* names a member by the server's time and a counter it increments, so no  *)
(* two entries share one; here a member is a number whose entry, if any,   *)
(* has left the window, and one more number than Limit is enough.          *)
(***************************************************************************)
EXTENDS Breaker, FiniteSets

CONSTANTS
    Requests,       \* goroutines that call Allow
    Limit,          \* requests allowed per window
    Window          \* ticks in the sliding window

ASSUME LimiterAssumption == Limit \in Nat \ {0} /\ Window \in Nat \ {0}

VARIABLES
    cb,             \* the breaker in front of Redis
    fallbackMode,   \* skip Redis
    sleepers,       \* recovery goroutines: [by, left], ticks they still sleep
    zset,           \* the key's ZSET: member -> age of its entry
    granted,        \* auxiliary: requests allowed by Redis -> age of the answer
    redisUp,        \* a call to Redis is answered within its context
    pc              \* where in Allow each request is

vars == <<cb, fallbackMode, sleepers, zset, granted, redisUp, pc>>

Ages == 0 .. Window - 1

PCs == {"idle", "breaker", "eval", "answered", "failed", "recheck", "degrade",
        "spawn", "fallback"}

(* Allow was granted and its outcome is not recorded yet.                  *)
Owing == {"eval", "answered", "failed"}

Members == 1 .. Limit + 1

(* The entries that have not left the window.                              *)
InWindow(f) == {m \in Members : f[m] < Window}

(* One more entry, under a name that no other entry of the window has.     *)
Add(f) == [f EXCEPT ![CHOOSE m \in Members : m \notin InWindow(f)] = 0]

Init ==
    /\ cb = NewBreaker
    /\ fallbackMode = FALSE
    /\ sleepers = {}
    /\ zset = [m \in Members |-> Window]
    /\ granted = [m \in Members |-> Window]
    /\ redisUp = TRUE
    /\ pc = [r \in Requests |-> "idle"]

redisVars == <<zset, granted, redisUp>>
modeVars  == <<fallbackMode, sleepers>>

-----------------------------------------------------------------------------
(* The first load of fallbackMode; when it is set, Allow is not called on  *)
(* the breaker.                                                            *)
ReadMode(r) ==
    /\ pc[r] = "idle"
    /\ pc' = [pc EXCEPT ![r] = IF fallbackMode THEN "recheck" ELSE "breaker"]
    /\ UNCHANGED <<cb, modeVars, redisVars>>

(* Allow is called and its answer ignored.                                 *)
AskAndIgnore(r) ==
    /\ pc[r] = "breaker"
    /\ cb' = AfterAllow(cb)
    /\ pc' = [pc EXCEPT ![r] = "eval"]
    /\ UNCHANGED <<modeVars, redisVars>>

(* The breaker is asked only by requests that found the mode off.          *)
AskBreaker(r) ==
    /\ pc[r] = "breaker"
    /\ cb' = AfterAllow(cb)
    /\ pc' = [pc EXCEPT ![r] = IF AllowResult(cb) THEN "eval" ELSE "recheck"]
    /\ UNCHANGED <<modeVars, redisVars>>

(* The script counts one entry too many.                                   *)
ScriptOffByOne(z) == Cardinality(InWindow(z)) <= Limit

(* The script evicts the entries that have left the window and counts the  *)
(* others; below the limit it adds an entry and allows.                    *)
ScriptAllows(z) == Cardinality(InWindow(z)) < Limit

AfterScript(z) == IF ScriptAllows(z) THEN Add(z) ELSE z

(* Redis answers.  What it answers is settled here; the breaker has not    *)
(* heard of it yet.                                                        *)
EvalAnswers(r) ==
    /\ pc[r] = "eval" /\ redisUp
    /\ zset' = AfterScript(zset)
    /\ granted' = IF ScriptAllows(zset) THEN Add(granted) ELSE granted
    /\ pc' = [pc EXCEPT ![r] = "answered"]
    /\ UNCHANGED <<cb, modeVars, redisUp>>

(* The call fails.  The reply, not the call, may be what was lost.         *)
EvalFails(r) ==
    /\ pc[r] = "eval"
    /\ ~redisUp
    /\ zset' \in {zset, AfterScript(zset)}
    /\ pc' = [pc EXCEPT ![r] = "failed"]
    /\ UNCHANGED <<cb, modeVars, granted, redisUp>>

(* RecordSuccess, whether the script allowed the request or not.           *)
RecordAnswer(r) ==
    /\ pc[r] = "answered"
    /\ cb' = AfterSuccess(cb)
    /\ pc' = [pc EXCEPT ![r] = "idle"]
    /\ UNCHANGED <<modeVars, redisVars>>

(* RecordFailure; the fallback decides.                                    *)
RecordError(r) ==
    /\ pc[r] = "failed"
    /\ cb' = AfterFailure(cb)
    /\ pc' = [pc EXCEPT ![r] = "fallback"]
    /\ UNCHANGED <<modeVars, redisVars>>

(* The second load of fallbackMode decides who announces the mode.         *)
RecheckMode(r) ==
    /\ pc[r] = "recheck"
    /\ pc' = [pc EXCEPT ![r] = IF fallbackMode THEN "fallback" ELSE "degrade"]
    /\ UNCHANGED <<cb, modeVars, redisVars>>

(* fallbackMode is set by a request that starts no goroutine to end it.    *)
EnterWithoutRecovery(r) ==
    /\ pc[r] = "degrade"
    /\ fallbackMode' = TRUE
    /\ pc' = [pc EXCEPT ![r] = "fallback"]
    /\ UNCHANGED <<cb, sleepers, redisVars>>

EnterFallback(r) ==
    /\ pc[r] = "degrade"
    /\ fallbackMode' = TRUE
    /\ pc' = [pc EXCEPT ![r] = "spawn"]
    /\ UNCHANGED <<cb, sleepers, redisVars>>

(* The goroutine that sleeps 30 seconds, the breaker's ResetTimeout.       *)
SpawnRecovery(r) ==
    /\ pc[r] = "spawn"
    /\ sleepers' = sleepers \cup {[by |-> r, left |-> ResetTimeout]}
    /\ pc' = [pc EXCEPT ![r] = "fallback"]
    /\ UNCHANGED <<cb, fallbackMode, redisVars>>

(* r.fallback.Allow.                                                       *)
Fallback(r) ==
    /\ pc[r] = "fallback"
    /\ pc' = [pc EXCEPT ![r] = "idle"]
    /\ UNCHANGED <<cb, modeVars, redisVars>>

(* A recovery goroutine wakes up.                                          *)
Wake(s) ==
    /\ s \in sleepers /\ s.left = 0
    /\ sleepers' = sleepers \ {s}
    /\ fallbackMode' = FALSE
    /\ UNCHANGED <<cb, redisVars, pc>>

(* A tick: the window slides, sleepers and breaker age.                    *)
Tick ==
    /\ cb' = AfterTick(cb)
    /\ sleepers' = {[s EXCEPT !.left = IF @ > 0 THEN @ - 1 ELSE 0] : s \in sleepers}
    /\ zset' = [m \in Members |-> Bump(zset[m], Window)]
    /\ granted' = [m \in Members |-> Bump(granted[m], Window)]
    /\ UNCHANGED <<fallbackMode, redisUp, pc>>

RedisFlip ==
    /\ redisUp' = ~redisUp
    /\ UNCHANGED <<cb, modeVars, zset, granted, pc>>

Sleepers == [by : Requests, left : 0 .. ResetTimeout]

InCall(r) ==
    \/ AskBreaker(r) \/ EvalAnswers(r) \/ EvalFails(r) \/ RecordAnswer(r)
    \/ RecordError(r) \/ RecheckMode(r) \/ EnterFallback(r) \/ SpawnRecovery(r)
    \/ Fallback(r)

Next ==
    \/ \E r \in Requests : ReadMode(r) \/ InCall(r)
    \/ \E s \in Sleepers : Wake(s)
    \/ Tick \/ RedisFlip

(* Calls keep arriving and run, a call to Redis ends within its timeout,   *)
(* sleepers wake up, time passes.                                          *)
Fairness ==
    /\ \A r \in Requests : WF_vars(ReadMode(r)) /\ WF_vars(InCall(r))
    /\ \A s \in Sleepers : WF_vars(Wake(s))
    /\ WF_vars(Tick)

Spec == Init /\ [][Next]_vars

FairSpec == Spec /\ Fairness

-----------------------------------------------------------------------------
(* Breaker, window, goroutines and requests have their types.              *)
TypeOK ==
    /\ cb \in BreakerRecord
    /\ fallbackMode \in BOOLEAN
    /\ sleepers \subseteq Sleepers
    /\ zset \in [Members -> 0 .. Window] /\ granted \in [Members -> 0 .. Window]
    /\ redisUp \in BOOLEAN
    /\ pc \in [Requests -> PCs]

(* In every window at most Limit requests are allowed by Redis, whatever   *)
(* replies are lost; lost replies only make the limiter stricter           *)
(* ("a consistently enforced limit over contiguous blocks of time",        *)
(* Docs/concepts.md:32).                                                   *)
WindowBound ==
    /\ Cardinality(InWindow(granted)) <= Limit
    /\ \A a \in Ages : Cardinality({m \in Members : granted[m] = a})
                       <= Cardinality({m \in Members : zset[m] = a})

(* Fallback mode always has a goroutine that will end it, or a request     *)
(* about to start one, however the two loads and the store of fallbackMode *)
(* interleave.                                                             *)
FallbackHasRecovery ==
    fallbackMode => sleepers # {} \/ \E r \in Requests : pc[r] = "spawn"

Contract == INSTANCE BreakerContract
    WITH Callers <- Requests, state <- cb.state,
         admitted <- {r \in Requests : pc[r] \in Owing}

(* Allow uses the breaker as its contract asks: Redis is called only by    *)
(* requests the breaker let through, an outcome is recorded only for such  *)
(* a call and once, and none ends while its outcome is still owed.         *)
BreakerUse == Contract!Spec

(* While requests keep finding the mode off, Redis is called again after   *)
(* every degradation: what "Schedule recovery probe after reset timeout"   *)
(* (redis.go:126) announces.  The goroutine only clears fallbackMode; a    *)
(* breaker that one success has left half open (SuccessThreshold is 2)     *)
(* refuses whoever asks it, and the mode is set again.                     *)
RedisIsTriedAgain ==
    []<>(\E r \in Requests : pc[r] = "breaker")
      => (fallbackMode ~> \E r \in Requests : pc[r] = "eval")
=============================================================================
