----------------------------- MODULE TokenBucket -----------------------------
(***************************************************************************)
(* The in-memory limiter (pkg/ratelimit/tokenbucket.go) on one key:        *)
(* concurrent calls of allow, each of which reads the clock before it      *)
(* loads the bucket and loads the bucket before it locks it, and the sweep *)
(* that deletes the entries of inactive keys.                              *)
(*                                                                         *)
(* Instants are kept as ages, in ticks, so that time is unbounded: a       *)
(* reading of the clock ages until it is used, a bucket since lastRefill.  *)
(* Tokens are counted in parts, Unit of them to a token, for the fractions *)
(* that a refill leaves.                                                   *)
(***************************************************************************)
EXTENDS Integers, FiniteSets, FiniteSetsExt, Functions

CONSTANTS
    Callers,        \* goroutines that call allow
    Unit,           \* parts of a token
    Rate,           \* parts refilled per tick
    BurstSize,      \* parts a bucket holds at most
    EvictionTTL,    \* ticks after which a bucket is inactive
    MaxDelay,       \* bound on the ticks between two steps of one call
    Horizon,        \* oldest age up to which grants are counted
    Sweeping        \* StartSweep has been called

ASSUME BucketAssumption ==
    /\ IsFiniteSet(Callers)
    /\ Unit \in Nat \ {0} /\ Rate \in Nat
    /\ BurstSize \in Nat /\ BurstSize >= Unit
    /\ EvictionTTL \in Nat \ {0} /\ MaxDelay \in Nat
    /\ Horizon \in Nat /\ MaxDelay <= Horizon
    /\ Sweeping \in BOOLEAN

VARIABLES
    store,      \* the sync.Map's bucket for the key, None if it has none
    bucket,     \* bucket objects: [tokens, age since lastRefill]
    call,       \* calls of allow: [pc, now (age of the reading), b]
    sweeper,    \* the sweep goroutine: "off", "idle", or about to "delete"
    closed,     \* stopCh is closed
    raced,      \* auxiliary: the sweep has deleted a bucket in use
    grants      \* auxiliary: requests allowed, by the age of their reading

bucketVars == <<store, bucket, call, sweeper, closed, raced, grants>>

(* One bucket in the map and one in the hands of each call.                *)
Objects == 1 .. Cardinality(Callers) + 1

None == 0

(* Past this age a bucket is inactive for every reading still in use.      *)
MaxAge == EvictionTTL + MaxDelay + 1

Older(n, cap) == IF n < cap THEN n + 1 ELSE cap

IdleCall == [pc |-> "idle", now |-> 0, b |-> None]

BucketInit ==
    /\ store = None
    /\ bucket = [o \in Objects |-> [tokens |-> 0, age |-> 0]]
    /\ call = [r \in Callers |-> IdleCall]
    /\ sweeper = IF Sweeping THEN "idle" ELSE "off"
    /\ closed = FALSE /\ raced = FALSE
    /\ grants = [a \in 0 .. Horizon |-> 0]

sweepVars == <<sweeper, closed, raced>>

(* Objects that nobody refers to.                                          *)
Free == Objects \ ({store} \cup {call[r].b : r \in Callers})

-----------------------------------------------------------------------------
(* now := time.Now(); a context that is done returns before this.          *)
ReadClock(r) ==
    /\ call[r].pc = "idle"
    /\ call' = [call EXCEPT ![r] = [pc |-> "load", now |-> 0, b |-> None]]
    /\ UNCHANGED <<store, bucket, sweepVars, grants>>

(* LoadOrStore: the key's bucket, or a full one dated at the reading.      *)
LoadOrStore(r) ==
    /\ call[r].pc = "load"
    /\ IF store # None
       THEN /\ call' = [call EXCEPT ![r] = [@ EXCEPT !.pc = "lock", !.b = store]]
            /\ UNCHANGED <<store, bucket>>
       ELSE LET o == Min(Free)
            IN /\ store' = o
               /\ bucket' = [bucket EXCEPT ![o] = [tokens |-> BurstSize, age |-> call[r].now]]
               /\ call' = [call EXCEPT ![r] = [@ EXCEPT !.pc = "lock", !.b = o]]
    /\ UNCHANGED <<sweepVars, grants>>

(* The tokens after eviction and refill.  A reading older than lastRefill  *)
(* makes the elapsed time, and so the refill, negative.                    *)
Refill(b, now) ==
    LET elapsed == b.age - now
        full    == b.tokens + elapsed * Rate
    IN IF elapsed > EvictionTTL \/ full > BurstSize THEN BurstSize ELSE full

(* A bucket that holds any part of a token grants.                         *)
SpendFraction(r) ==
    /\ call[r].pc = "lock"
    /\ LET now    == call[r].now
           tokens == Refill(bucket[call[r].b], now)
           ok     == tokens > 0
       IN /\ bucket' = [bucket EXCEPT ![call[r].b] =
                          [tokens |-> IF ok THEN tokens - Unit ELSE tokens, age |-> now]]
          /\ grants' = IF ok THEN [grants EXCEPT ![now] = @ + 1] ELSE grants
    /\ call' = [call EXCEPT ![r] = IdleCall]
    /\ UNCHANGED <<store, sweepVars>>

(* The critical section: refill, move lastRefill to the reading, spend.    *)
Spend(r) ==
    /\ call[r].pc = "lock"
    /\ LET now    == call[r].now
           tokens == Refill(bucket[call[r].b], now)
           ok     == tokens >= Unit
       IN /\ bucket' = [bucket EXCEPT ![call[r].b] =
                          [tokens |-> IF ok THEN tokens - Unit ELSE tokens, age |-> now]]
          /\ grants' = IF ok THEN [grants EXCEPT ![now] = @ + 1] ELSE grants
    /\ call' = [call EXCEPT ![r] = IdleCall]
    /\ UNCHANGED <<store, sweepVars>>

-----------------------------------------------------------------------------
(* sweep looks at the bucket with its lock held, and lets go of it.        *)
SweepCheck ==
    /\ sweeper = "idle"
    /\ store # None
    /\ bucket[store].age > EvictionTTL
    /\ sweeper' = "delete"
    /\ UNCHANGED <<store, bucket, call, closed, raced, grants>>

(* The key's bucket has been refilled since, or a call is about to.        *)
InUse ==
    /\ store # None
    /\ \/ bucket[store].age <= EvictionTTL
       \/ \E r \in Callers : call[r].b = store

(* Delete(key), whatever has happened to the key's bucket by now.          *)
SweepDelete ==
    /\ sweeper = "delete"
    /\ store' = None
    /\ sweeper' = "idle"
    /\ raced' = (raced \/ InUse)
    /\ UNCHANGED <<bucket, call, closed, grants>>

(* Close, called when the runtime of this limiter is retired; allow does   *)
(* not look at it.                                                         *)
Close ==
    /\ ~closed
    /\ closed' = TRUE
    /\ UNCHANGED <<store, bucket, call, sweeper, raced, grants>>

(* The goroutine's select takes stopCh.                                    *)
SweeperStops ==
    /\ closed /\ sweeper = "idle"
    /\ sweeper' = "off"
    /\ UNCHANGED <<store, bucket, call, closed, raced, grants>>

(* Time passes; no call is delayed by more than MaxDelay.                  *)
ClockTick ==
    /\ \A r \in Callers : call[r].pc # "idle" => call[r].now < MaxDelay
    /\ call' = [r \in Callers |->
                  IF call[r].pc = "idle" THEN call[r] ELSE [call[r] EXCEPT !.now = @ + 1]]
    /\ bucket' = [o \in Objects |-> [bucket[o] EXCEPT !.age = Older(@, MaxAge)]]
    /\ grants' = [a \in 0 .. Horizon |-> IF a = 0 THEN 0 ELSE grants[a - 1]]
    /\ UNCHANGED <<store, sweepVars>>

-----------------------------------------------------------------------------
InAllow(r) == LoadOrStore(r) \/ Spend(r)

BucketNext ==
    \/ \E r \in Callers : ReadClock(r) \/ InAllow(r)
    \/ SweepCheck \/ SweepDelete \/ Close \/ SweeperStops
    \/ ClockTick

(* Calls that have begun end, the sweep's ticker fires, time passes.       *)
BucketFairness ==
    /\ \A r \in Callers : WF_bucketVars(InAllow(r))
    /\ WF_bucketVars(SweepCheck) /\ WF_bucketVars(SweepDelete)
    /\ WF_bucketVars(ClockTick)

BucketSpec == BucketInit /\ [][BucketNext]_bucketVars

FairBucketSpec == BucketSpec /\ BucketFairness

-----------------------------------------------------------------------------
(* No bucket ever holds more than the burst size, and one that stale       *)
(* readings have emptied below zero owes no more than they are late.       *)
BucketTypeOK ==
    /\ store \in {None} \cup Objects
    /\ bucket \in [Objects -> [tokens : -(Rate * MaxDelay) .. BurstSize, age : 0 .. MaxAge]]
    /\ call \in [Callers -> [pc : {"idle", "load", "lock"}, now : 0 .. MaxDelay,
                             b : {None} \cup Objects]]
    /\ sweeper \in {"off", "idle", "delete"}
    /\ closed \in BOOLEAN /\ raced \in BOOLEAN
    /\ grants \in [0 .. Horizon -> Nat]

Granted(from, to) == SumFunctionOnSet(grants, from .. to)

(* The limit itself: requests that read the clock within any n ticks get   *)
(* no more than the burst and n ticks of refill, although readings are     *)
(* used late and out of order, and a bucket's lastRefill moves back with   *)
(* them ("max tokens in the bucket at once", "tokens per second to         *)
(* refill", tokenbucket.go:43-44).  The one way past it is a sweep that    *)
(* deletes, after letting go of its lock, a bucket in use.                 *)
RateBound ==
    ~raced =>
        \A from \in 0 .. Horizon : \A to \in from .. Horizon :
            Unit * Granted(from, to) <= BurstSize + Rate * (to - from)

(* While the limiter is open, a key that is no longer used loses its       *)
(* bucket: "to prevent unbounded memory growth from long-tail of inactive  *)
(* clients" and "Periodic sweep goroutine catches any buckets that are     *)
(* never read again" (tokenbucket.go:2,8).  The sweep does this once it    *)
(* runs; nothing in the repository calls StartSweep.                       *)
InactiveIsSwept ==
    ([]~closed /\ <>[](\A r \in Callers : call[r].pc = "idle")) => <>[](store = None)
=============================================================================
