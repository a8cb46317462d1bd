--------------------------- MODULE LimiterProofs ---------------------------
(***************************************************************************)
(* Proofs about the two limiters, modules RedisLimiter and TokenBucket.    *)
(* First RedisLimiter, for any number of requests, any limit and window,   *)
(* any thresholds of the breaker.                                          *)
(*                                                                         *)
(* The bound on the window rests on Linked: every request that Redis       *)
(* allowed and that is still in the window has an entry of its own, of the *)
(* same age, in the ZSET the script counts.                                *)
(***************************************************************************)
EXTENDS RedisLimiter, TokenBucket, Sums

(* f gives every request allowed in the window an entry of its own.        *)
Links(f) ==
    /\ f \in [InWindow(granted) -> InWindow(zset)]
    /\ \A g \in InWindow(granted) : zset[f[g]] = granted[g]
    /\ \A g, h \in InWindow(granted) : f[g] = f[h] => g = h

Linked == \E f : Links(f)

(* The script never lets the ZSET grow past the limit.                     *)
Stored == Cardinality(InWindow(zset)) <= Limit

Inv == TypeOK /\ Stored /\ Linked /\ FallbackHasRecovery

-----------------------------------------------------------------------------
(* The methods of a breaker keep its record well formed.                   *)

LEMMA NewType == NewBreaker \in BreakerRecord
  BY BreakerAssumption DEF NewBreaker, BreakerRecord, States

LEMMA AllowType == \A b \in BreakerRecord : AfterAllow(b) \in BreakerRecord
  BY BreakerAssumption DEF AfterAllow, Transition, BreakerRecord, States

LEMMA SuccessType == \A b \in BreakerRecord : AfterSuccess(b) \in BreakerRecord
  BY BreakerAssumption DEF AfterSuccess, Counting, Transition, Bump, BreakerRecord, States

LEMMA FailureType == \A b \in BreakerRecord : AfterFailure(b) \in BreakerRecord
  BY BreakerAssumption DEF AfterFailure, Counting, Trip, Bump, BreakerRecord, States

LEMMA TickType == \A b \in BreakerRecord : AfterTick(b) \in BreakerRecord
  BY BreakerAssumption DEF AfterTick, Bump, BreakerRecord, States

-----------------------------------------------------------------------------
(* What is in a window.                                                    *)

LEMMA MembersCount ==
    /\ IsFiniteSet(Members) /\ Cardinality(Members) = Limit + 1
    /\ \A S \in SUBSET Members : IsFiniteSet(S) /\ Cardinality(S) \in Nat
<1>1. IsFiniteSet(Members) /\ Cardinality(Members) = Limit + 1
  BY LimiterAssumption, FS_Interval DEF Members
<1> QED
  BY <1>1, FS_Subset, FS_CardinalityType

(* Below the limit there is a name for one more entry, and Add uses one.   *)
LEMMA AddIsNew ==
    ASSUME NEW z \in [Members -> 0 .. Window], Cardinality(InWindow(z)) <= Limit
    PROVE  \E m \in Members \ InWindow(z) :
              /\ Add(z) = [z EXCEPT ![m] = 0]
              /\ Add(z) \in [Members -> 0 .. Window]
              /\ InWindow(Add(z)) = InWindow(z) \cup {m}
<1> DEFINE m == CHOOSE x \in Members : x \notin InWindow(z)
<1>1. InWindow(z) # Members
  BY MembersCount, LimiterAssumption
<1>2. \E x \in Members : x \notin InWindow(z)
  BY <1>1 DEF InWindow
<1>3. m \in Members /\ m \notin InWindow(z)
  BY <1>2
<1>4. Add(z) = [z EXCEPT ![m] = 0]
  BY DEF Add
<1> HIDE DEF m
<1>5. 0 \in 0 .. Window /\ 0 < Window
  BY LimiterAssumption
<1>6. Add(z) \in [Members -> 0 .. Window]
  BY <1>3, <1>4, <1>5
<1>7. InWindow(Add(z)) = InWindow(z) \cup {m}
  BY <1>3, <1>4, <1>5 DEF InWindow
<1> QED
  BY <1>3, <1>4, <1>6, <1>7

(* The script, whether or not its reply is heard.                          *)
LEMMA ScriptBounds ==
    ASSUME NEW z \in [Members -> 0 .. Window], Cardinality(InWindow(z)) <= Limit
    PROVE  /\ AfterScript(z) \in [Members -> 0 .. Window]
           /\ Cardinality(InWindow(AfterScript(z))) <= Limit
           /\ \A m \in InWindow(z) : m \in InWindow(AfterScript(z)) /\ AfterScript(z)[m] = z[m]
<1>1. CASE ScriptAllows(z)
  <2>1. PICK m \in Members \ InWindow(z) :
           /\ Add(z) = [z EXCEPT ![m] = 0]
           /\ Add(z) \in [Members -> 0 .. Window]
           /\ InWindow(Add(z)) = InWindow(z) \cup {m}
    BY AddIsNew
  <2>2. AfterScript(z) = Add(z)
    BY <1>1 DEF AfterScript
  <2>3. IsFiniteSet(InWindow(z)) /\ Cardinality(InWindow(z)) \in Nat
    BY MembersCount DEF InWindow
  <2>4. Cardinality(InWindow(z) \cup {m}) = Cardinality(InWindow(z)) + 1
    BY <2>1, <2>3, FS_AddElement
  <2>5. Cardinality(InWindow(z)) + 1 <= Limit
    BY <1>1, <2>3, LimiterAssumption DEF ScriptAllows
  <2>6. \A k \in InWindow(z) : k \in InWindow(Add(z)) /\ Add(z)[k] = z[k]
    BY <2>1 DEF InWindow
  <2> QED
    BY <2>1, <2>2, <2>4, <2>5, <2>6
<1>2. CASE ~ScriptAllows(z)
  BY <1>2 DEF AfterScript
<1> QED
  BY <1>1, <1>2

(* The window slides: what is left in it was in it before.                 *)
LEMMA TickWindow ==
    ASSUME NEW z \in [Members -> 0 .. Window]
    PROVE  LET t == [m \in Members |-> Bump(z[m], Window)] IN
           /\ t \in [Members -> 0 .. Window]
           /\ \A m \in InWindow(t) : m \in InWindow(z) /\ t[m] = z[m] + 1
           /\ \A m \in InWindow(z) : z[m] + 1 < Window => m \in InWindow(t)
           /\ \A m \in InWindow(z) : t[m] = z[m] + 1
  BY LimiterAssumption DEF Bump, InWindow

-----------------------------------------------------------------------------
LEMMA InitInv == Init => Inv
<1> SUFFICES ASSUME Init PROVE Inv
  OBVIOUS
<1>1. Window \in 0 .. Window /\ ~(Window < Window) /\ Limit >= 0
  BY LimiterAssumption
<1>2. TypeOK
  BY <1>1, NewType DEF Init, TypeOK, PCs
<1>3. InWindow(zset) = {} /\ InWindow(granted) = {}
  BY <1>1 DEF Init, InWindow
<1>4. Stored
  BY <1>1, <1>3, FS_EmptySet DEF Stored
<1>5. Linked
  <2>1. Links([g \in InWindow(granted) |-> 0])
    BY <1>3 DEF Links
  <2> QED
    BY <2>1 DEF Linked
<1> QED
  BY <1>2, <1>4, <1>5 DEF Inv, Init, FallbackHasRecovery

(* An entry is added for a request that is allowed: the link is extended.  *)
LEMMA AllowLinks ==
    ASSUME TypeOK, Stored, Linked, ScriptAllows(zset),
           zset' = Add(zset), granted' = Add(granted)
    PROVE  Linked' /\ granted' \in [Members -> 0 .. Window]
<1>1. PICK f : Links(f)
  BY DEF Linked
<1>2. Cardinality(InWindow(granted)) <= Cardinality(InWindow(zset))
  <2>1. f \in Injection(InWindow(granted), InWindow(zset))
    BY <1>1 DEF Links, Injection, IsInjective
  <2> QED
    BY <2>1, MembersCount, FS_Injection DEF InWindow
<1>3. Cardinality(InWindow(granted)) \in Nat /\ Cardinality(InWindow(zset)) \in Nat
  BY MembersCount DEF InWindow
<1>4. Cardinality(InWindow(granted)) <= Limit
  BY <1>2, <1>3, LimiterAssumption DEF Stored
<1>5. PICK m \in Members \ InWindow(zset) :
         /\ zset' = [zset EXCEPT ![m] = 0]
         /\ InWindow(zset') = InWindow(zset) \cup {m}
  BY AddIsNew DEF TypeOK, Stored
<1>6. PICK n \in Members \ InWindow(granted) :
         /\ granted' = [granted EXCEPT ![n] = 0]
         /\ granted' \in [Members -> 0 .. Window]
         /\ InWindow(granted') = InWindow(granted) \cup {n}
  BY <1>4, AddIsNew DEF TypeOK
<1> DEFINE e == [g \in InWindow(granted') |-> IF g = n THEN m ELSE f[g]]
<1>7. e \in [InWindow(granted') -> InWindow(zset')]
  BY <1>1, <1>5, <1>6 DEF Links
<1>8. \A g \in InWindow(granted') : zset'[e[g]] = granted'[g]
  BY <1>1, <1>5, <1>6 DEF Links, TypeOK, InWindow
<1>9. \A g, h \in InWindow(granted') : e[g] = e[h] => g = h
  BY <1>1, <1>5, <1>6 DEF Links
<1>10. Linked'
  BY <1>7, <1>8, <1>9, ZenonT(60) DEF Linked, Links
<1> QED
  BY <1>6, <1>10

(* Entries are only added: the link stands.                                *)
LEMMA ScriptLinks ==
    ASSUME TypeOK, Stored, Linked, granted' = granted,
           zset' \in {zset, AfterScript(zset)}
    PROVE  Linked'
<1>1. PICK f : Links(f)
  BY DEF Linked
<1>2. /\ InWindow(granted') = InWindow(granted)
      /\ \A m \in InWindow(zset) : m \in InWindow(zset') /\ zset'[m] = zset[m]
  BY ScriptBounds DEF TypeOK, Stored
<1>3. /\ f \in [InWindow(granted') -> InWindow(zset')]
      /\ \A g \in InWindow(granted') : zset'[f[g]] = granted'[g]
      /\ \A g, h \in InWindow(granted') : f[g] = f[h] => g = h
  BY <1>1, <1>2 DEF Links
<1> QED
  BY <1>3 DEF Linked, Links

(* The window slides: linked entries leave it together.                    *)
LEMMA TickLinks ==
    ASSUME TypeOK, Linked,
           zset' = [m \in Members |-> Bump(zset[m], Window)],
           granted' = [m \in Members |-> Bump(granted[m], Window)]
    PROVE  Linked'
<1>1. PICK f : Links(f)
  BY DEF Linked
<1>2. /\ \A g \in InWindow(granted') : g \in InWindow(granted) /\ granted'[g] = granted[g] + 1
      /\ \A m \in InWindow(zset) : zset[m] + 1 < Window => m \in InWindow(zset')
      /\ \A m \in InWindow(zset) : zset'[m] = zset[m] + 1
  BY TickWindow DEF TypeOK
<1>3. \A g \in InWindow(granted') : granted'[g] < Window
  BY DEF InWindow
<1> DEFINE e == [g \in InWindow(granted') |-> f[g]]
<1>4. \A g \in InWindow(granted') : /\ f[g] \in InWindow(zset) /\ zset[f[g]] = granted[g]
                                    /\ f[g] \in InWindow(zset') /\ zset'[f[g]] = granted'[g]
  BY <1>1, <1>2, <1>3 DEF Links
<1>5. /\ e \in [InWindow(granted') -> InWindow(zset')]
      /\ \A g \in InWindow(granted') : zset'[e[g]] = granted'[g]
  BY <1>4
<1>6. \A g, h \in InWindow(granted') : e[g] = e[h] => g = h
  BY <1>1, <1>2 DEF Links
<1> QED
  BY <1>5, <1>6, ZenonT(60) DEF Linked, Links

(* A step that leaves Redis alone leaves the window alone.                 *)
LEMMA RedisFrame ==
    ASSUME Stored, Linked, zset' = zset, granted' = granted
    PROVE  Stored' /\ Linked'
  BY DEF Stored, Linked, Links, InWindow

-----------------------------------------------------------------------------
LEMMA TypeInductive ==
    ASSUME TypeOK, Stored, Linked, [Next]_vars
    PROVE  TypeOK'
<1> USE DEF TypeOK, modeVars, redisVars
<1>1. ASSUME NEW r \in Requests, ReadMode(r) PROVE TypeOK'
  BY <1>1 DEF ReadMode, PCs
<1>2. ASSUME NEW r \in Requests, AskBreaker(r) PROVE TypeOK'
  BY <1>2, AllowType DEF AskBreaker, PCs
<1>3. ASSUME NEW r \in Requests, EvalAnswers(r) PROVE TypeOK'
  <2>1. zset' \in [Members -> 0 .. Window]
    BY <1>3, ScriptBounds DEF EvalAnswers, Stored
  <2>2. granted' \in [Members -> 0 .. Window]
    <3>1. CASE ScriptAllows(zset)
      BY <1>3, <3>1, AllowLinks DEF EvalAnswers, AfterScript
    <3>2. CASE ~ScriptAllows(zset)
      BY <1>3, <3>2 DEF EvalAnswers
    <3> QED
      BY <3>1, <3>2
  <2> QED
    BY <1>3, <2>1, <2>2 DEF EvalAnswers, PCs
<1>4. ASSUME NEW r \in Requests, EvalFails(r) PROVE TypeOK'
  <2>1. zset' \in [Members -> 0 .. Window]
    BY <1>4, ScriptBounds DEF EvalFails, Stored
  <2> QED
    BY <1>4, <2>1 DEF EvalFails, PCs
<1>5. ASSUME NEW r \in Requests, RecheckMode(r) PROVE TypeOK'
  BY <1>5 DEF RecheckMode, PCs
<1>6. ASSUME NEW r \in Requests, EnterFallback(r) PROVE TypeOK'
  BY <1>6 DEF EnterFallback, PCs
<1>7. ASSUME NEW r \in Requests, SpawnRecovery(r) PROVE TypeOK'
  <2>1. ResetTimeout \in 0 .. ResetTimeout
    BY BreakerAssumption
  <2>2. [by |-> r, left |-> ResetTimeout] \in Sleepers
    BY <2>1 DEF Sleepers
  <2> QED
    BY <1>7, <2>2 DEF SpawnRecovery, PCs
<1>8. ASSUME NEW r \in Requests, Fallback(r) PROVE TypeOK'
  BY <1>8 DEF Fallback, PCs
<1>9. ASSUME NEW s \in Sleepers, Wake(s) PROVE TypeOK'
  BY <1>9 DEF Wake
<1>10. CASE Tick
  <2>1. zset' \in [Members -> 0 .. Window] /\ granted' \in [Members -> 0 .. Window]
    BY <1>10, TickWindow DEF Tick
  <2>2. \A s \in Sleepers : [s EXCEPT !.left = IF @ > 0 THEN @ - 1 ELSE 0] \in Sleepers
    BY BreakerAssumption DEF Sleepers
  <2>3. sleepers' \subseteq Sleepers
    BY <1>10, <2>2 DEF Tick
  <2> QED
    BY <1>10, <2>1, <2>3, TickType DEF Tick
<1>11. CASE RedisFlip
  BY <1>11 DEF RedisFlip
<1>12. CASE UNCHANGED vars
  BY <1>12 DEF vars
<1>13. ASSUME NEW r \in Requests, RecordAnswer(r) PROVE TypeOK'
  BY <1>13, SuccessType DEF RecordAnswer, PCs
<1>14. ASSUME NEW r \in Requests, RecordError(r) PROVE TypeOK'
  BY <1>14, FailureType DEF RecordError, PCs
<1> QED
  BY <1>1, <1>2, <1>3, <1>4, <1>5, <1>6, <1>7, <1>8, <1>9, <1>10, <1>11, <1>12,
     <1>13, <1>14
     DEF Next, InCall

LEMMA WindowInductive ==
    ASSUME TypeOK, Stored, Linked, [Next]_vars
    PROVE  Stored' /\ Linked'
<1>1. ASSUME NEW r \in Requests, EvalAnswers(r) PROVE Stored' /\ Linked'
  <2>1. zset' = AfterScript(zset)
    BY <1>1 DEF EvalAnswers
  <2>2. Stored'
    BY <2>1, ScriptBounds DEF TypeOK, Stored
  <2>3. CASE ScriptAllows(zset)
    BY <1>1, <2>1, <2>2, <2>3, AllowLinks DEF EvalAnswers, AfterScript
  <2>4. CASE ~ScriptAllows(zset)
    BY <1>1, <2>1, <2>2, <2>4, ScriptLinks DEF EvalAnswers
  <2> QED
    BY <2>3, <2>4
<1>2. ASSUME NEW r \in Requests, EvalFails(r) PROVE Stored' /\ Linked'
  <2>1. zset' \in {zset, AfterScript(zset)} /\ granted' = granted
    BY <1>2 DEF EvalFails
  <2>2. Stored'
    BY <2>1, ScriptBounds DEF TypeOK, Stored
  <2> QED
    BY <2>1, <2>2, ScriptLinks
<1>3. CASE Tick
  <2>1. /\ zset' = [m \in Members |-> Bump(zset[m], Window)]
        /\ granted' = [m \in Members |-> Bump(granted[m], Window)]
    BY <1>3 DEF Tick
  <2>2. InWindow(zset') \in SUBSET InWindow(zset)
    BY <2>1, TickWindow DEF TypeOK
  <2>3. IsFiniteSet(InWindow(zset)) /\ Cardinality(InWindow(zset)) \in Nat
    BY MembersCount DEF InWindow
  <2>4. /\ Cardinality(InWindow(zset')) <= Cardinality(InWindow(zset))
        /\ Cardinality(InWindow(zset')) \in Nat
    BY <2>2, <2>3, FS_Subset, FS_CardinalityType
  <2>5. Stored'
    BY <2>3, <2>4, LimiterAssumption DEF Stored
  <2> QED
    BY <2>1, <2>5, TickLinks
<1>4. ASSUME \/ \E r \in Requests : \/ ReadMode(r) \/ AskBreaker(r) \/ RecheckMode(r)
                                    \/ EnterFallback(r) \/ SpawnRecovery(r) \/ Fallback(r)
                                    \/ RecordAnswer(r) \/ RecordError(r)
             \/ \E s \in Sleepers : Wake(s)
             \/ RedisFlip
             \/ UNCHANGED vars
      PROVE  Stored' /\ Linked'
  <2>1. zset' = zset /\ granted' = granted
    BY <1>4 DEF ReadMode, AskBreaker, RecheckMode, EnterFallback, SpawnRecovery,
                Fallback, RecordAnswer, RecordError, Wake, RedisFlip, vars, redisVars
  <2> QED
    BY <2>1, RedisFrame
<1> QED
  BY <1>1, <1>2, <1>3, <1>4 DEF Next, InCall

(* Whoever sets fallbackMode is about to start the goroutine that clears   *)
(* it, and that goroutine leaves only by clearing it.                      *)
LEMMA RecoveryInductive ==
    ASSUME TypeOK, FallbackHasRecovery, [Next]_vars
    PROVE  FallbackHasRecovery'
<1> USE DEF TypeOK, FallbackHasRecovery, modeVars, redisVars
<1>1. ASSUME NEW r \in Requests, EnterFallback(r) PROVE FallbackHasRecovery'
  BY <1>1 DEF EnterFallback
<1>2. ASSUME NEW r \in Requests, SpawnRecovery(r) PROVE FallbackHasRecovery'
  BY <1>2 DEF SpawnRecovery
<1>3. ASSUME NEW s \in Sleepers, Wake(s) PROVE FallbackHasRecovery'
  BY <1>3 DEF Wake
<1>4. CASE Tick
  <2>1. sleepers # {} => sleepers' # {}
    BY <1>4 DEF Tick
  <2> QED
    BY <1>4, <2>1 DEF Tick
<1>5. ASSUME NEW r \in Requests,
             \/ ReadMode(r) \/ AskBreaker(r) \/ EvalAnswers(r) \/ EvalFails(r)
             \/ RecordAnswer(r) \/ RecordError(r) \/ RecheckMode(r) \/ Fallback(r)
      PROVE  FallbackHasRecovery'
  <2>1. /\ fallbackMode' = fallbackMode /\ sleepers' = sleepers
        /\ pc[r] # "spawn" /\ \A q \in Requests : q # r => pc'[q] = pc[q]
    BY <1>5 DEF ReadMode, AskBreaker, EvalAnswers, EvalFails, RecordAnswer, RecordError,
                RecheckMode, Fallback
  <2> QED
    BY <2>1
<1>6. CASE RedisFlip
  BY <1>6 DEF RedisFlip
<1>7. CASE UNCHANGED vars
  BY <1>7 DEF vars
<1> QED
  BY <1>1, <1>2, <1>3, <1>4, <1>5, <1>6, <1>7 DEF Next, InCall

-----------------------------------------------------------------------------
(* The inductive invariant.                                                *)
THEOREM Invariance == Spec => []Inv
<1>1. Inv /\ [Next]_vars => Inv'
  BY TypeInductive, WindowInductive, RecoveryInductive DEF Inv
<1> QED
  BY <1>1, InitInv, PTL DEF Spec

(* Breaker, window, goroutines and requests keep their types.              *)
THEOREM TypeCorrect == Spec => []TypeOK
  BY Invariance, PTL DEF Inv

(* For any limit and window: within one window Redis allows at most Limit  *)
(* requests, whatever replies are lost; requests allowed at any age are at *)
(* most as many as the entries of that age (luaSlidingWindow).             *)
THEOREM WindowLimitHolds == Spec => []WindowBound
<1>1. ASSUME Inv PROVE WindowBound
  <2>1. PICK f : Links(f)
    BY <1>1 DEF Inv, Linked
  <2>2. Cardinality(InWindow(granted)) <= Limit
    <3>1. f \in Injection(InWindow(granted), InWindow(zset))
      BY <2>1 DEF Links, Injection, IsInjective
    <3>2. Cardinality(InWindow(granted)) <= Cardinality(InWindow(zset))
      BY <3>1, MembersCount, FS_Injection DEF InWindow
    <3>3. Cardinality(InWindow(granted)) \in Nat /\ Cardinality(InWindow(zset)) \in Nat
      BY MembersCount DEF InWindow
    <3> QED
      BY <1>1, <3>2, <3>3, LimiterAssumption DEF Inv, Stored
  <2>3. ASSUME NEW a \in Ages
        PROVE  Cardinality({m \in Members : granted[m] = a})
               <= Cardinality({m \in Members : zset[m] = a})
    <3> DEFINE G == {m \in Members : granted[m] = a}
               Z == {m \in Members : zset[m] = a}
               h == [m \in G |-> f[m]]
    <3>1. G \subseteq InWindow(granted)
      BY LimiterAssumption DEF Ages, InWindow
    <3>2. h \in [G -> Z]
      BY <2>1, <3>1 DEF Links, InWindow
    <3>3. h \in Injection(G, Z)
      BY <2>1, <3>1, <3>2 DEF Links, Injection, IsInjective
    <3>4. IsFiniteSet(Z)
      BY MembersCount
    <3> QED
      BY <3>3, <3>4, FS_Injection
  <2> QED
    BY <2>2, <2>3 DEF WindowBound
<1> QED
  BY <1>1, Invariance, PTL

(* Fallback mode always has a goroutine that will end it or a request      *)
(* about to start one, for any number of requests (RedisLimiter.Allow).    *)
THEOREM RecoveryGuaranteed == Spec => []FallbackHasRecovery
  BY Invariance, PTL DEF Inv

-----------------------------------------------------------------------------
(* The requests whose outcome the breaker waits for.                       *)
Calling == {r \in Requests : pc[r] \in Owing}

LEMMA CallingMoves ==
    ASSUME TypeOK, NEW r \in Requests, NEW to \in PCs, pc' = [pc EXCEPT ![r] = to]
    PROVE  /\ pc[r] \notin Owing /\ to \in Owing
              => r \notin Calling /\ Calling' = Calling \cup {r}
           /\ pc[r] \in Owing /\ to \notin Owing
              => r \in Calling /\ Calling' = Calling \ {r}
           /\ (pc[r] \in Owing <=> to \in Owing) => Calling' = Calling
  BY DEF TypeOK, Calling

(* Allow keeps to the contract of the breaker in front of Redis, as a      *)
(* caller that always records: the limiter refines BreakerContract.        *)
THEOREM BreakerContractKept == Spec => BreakerUse
<1>1. Init => Contract!Init
  BY DEF Init, Contract!Init, NewBreaker, Owing
<1>2. ASSUME Inv, [Next]_vars PROVE Contract!Next \/ UNCHANGED Contract!vars
  <2> USE <1>2 DEF Inv, TypeOK
  <2>1. ASSUME NEW r \in Requests, AskBreaker(r)
        PROVE  Contract!Next \/ UNCHANGED Contract!vars
    <3>1. CASE AllowResult(cb)
      <4>1. r \notin Calling /\ Calling' = Calling \cup {r}
        BY <2>1, <3>1, CallingMoves DEF AskBreaker, PCs, Owing
      <4>2. \/ cb.state = "closed" /\ cb'.state = "closed"
            \/ cb.state = "open" /\ cb'.state = "half_open"
        BY <2>1, <3>1 DEF AskBreaker, AllowResult, AfterAllow, Transition
      <4>3. Contract!Admit(r) \/ Contract!Probe(r)
        BY <4>1, <4>2 DEF Contract!Admit, Contract!Probe, Calling
      <4> QED
        BY <4>3 DEF Contract!Next
    <3>2. CASE ~AllowResult(cb)
      <4>1. Calling' = Calling
        BY <2>1, <3>2, CallingMoves DEF AskBreaker, PCs, Owing
      <4>2. cb' = cb
        BY <2>1, <3>2 DEF AskBreaker, AllowResult, AfterAllow
      <4> QED
        BY <4>1, <4>2 DEF Contract!vars, Calling
    <3> QED
      BY <3>1, <3>2
  <2>2. ASSUME NEW r \in Requests, RecordAnswer(r) PROVE Contract!Next
    <3>1. r \in Calling /\ Calling' = Calling \ {r}
      BY <2>2, CallingMoves DEF RecordAnswer, PCs, Owing
    <3>2. cb'.state \in IF cb.state = "half_open" THEN {"half_open", "closed"}
                                                 ELSE {cb.state}
      BY <2>2 DEF RecordAnswer, AfterSuccess, Counting, Transition
    <3>3. Contract!Succeed(r)
      BY <3>1, <3>2 DEF Contract!Succeed, Calling
    <3> QED
      BY <3>3 DEF Contract!Next
  <2>3. ASSUME NEW r \in Requests, RecordError(r) PROVE Contract!Next
    <3>1. r \in Calling /\ Calling' = Calling \ {r}
      BY <2>3, CallingMoves DEF RecordError, PCs, Owing
    <3>2. cb'.state \in IF cb.state = "closed" THEN {"closed", "open"} ELSE {"open"}
      BY <2>3 DEF RecordError, AfterFailure, Counting, Trip, BreakerRecord, States
    <3>3. Contract!Fail(r)
      BY <3>1, <3>2 DEF Contract!Fail, Calling
    <3> QED
      BY <3>3 DEF Contract!Next
  <2>4. ASSUME NEW r \in Requests,
               \/ ReadMode(r) \/ RecheckMode(r) \/ EnterFallback(r)
               \/ SpawnRecovery(r) \/ Fallback(r) \/ EvalAnswers(r) \/ EvalFails(r)
        PROVE  UNCHANGED Contract!vars
    <3>1. PICK to \in PCs : /\ pc' = [pc EXCEPT ![r] = to]
                            /\ pc[r] \in Owing <=> to \in Owing
      BY <2>4 DEF ReadMode, RecheckMode, EnterFallback, SpawnRecovery, Fallback,
                  EvalAnswers, EvalFails, PCs, Owing
    <3>2. cb' = cb
      BY <2>4 DEF ReadMode, RecheckMode, EnterFallback, SpawnRecovery, Fallback,
                  EvalAnswers, EvalFails
    <3>3. Calling' = Calling
      BY <3>1, CallingMoves
    <3> QED
      BY <3>2, <3>3 DEF Contract!vars, Calling
  <2>5. CASE Tick
    BY <2>5 DEF Tick, AfterTick, BreakerRecord, Contract!vars
  <2>6. ASSUME RedisFlip \/ (\E s \in Sleepers : Wake(s)) \/ UNCHANGED vars
        PROVE  UNCHANGED Contract!vars
    BY <2>6 DEF RedisFlip, Wake, vars, Contract!vars
  <2> QED
    BY <2>1, <2>2, <2>3, <2>4, <2>5, <2>6 DEF Next, InCall
<1>3. Inv /\ [Next]_vars => [Contract!Next]_(Contract!vars)
  BY <1>2
<1> QED
  BY <1>1, <1>3, Invariance, PTL DEF Spec, BreakerUse, Contract!Spec

-----------------------------------------------------------------------------
(***************************************************************************)
(* Proofs about module TokenBucket, the limiter in memory, for any number  *)
(* of goroutines, any rate, burst and delay between the steps of a call.   *)
(*                                                                         *)
(* A grant of a reading pays from the bucket's credit (Paid): the grants   *)
(* up to any instant and the credit that is left are within the burst and  *)
(* the refill since.  This survives readings that come late because a      *)
(* refill of negative length takes back what it would pay again, and the   *)
(* sweep because an inactive bucket would be full (RefillsInTime).         *)
(***************************************************************************)

(* An inactive bucket would be full by now, with a margin for late         *)
(* readings.                                                               *)
RefillsInTime == BurstSize + 2 * (Rate * MaxDelay) <= Rate * (EvictionTTL + 1)

(* Tokens of a bucket, carried on to this instant without a cap.           *)
Credit(b) == b.tokens + Rate * b.age

(* No bucket owes more than it will be paid by this instant.               *)
Solvent == \A o \in Objects : Credit(bucket[o]) >= 0

(* A call that holds a bucket holds the key's, while no sweep has raced.   *)
Together ==
    /\ \A r \in Callers : call[r].pc # "lock" => call[r].b = None
    /\ \A r \in Callers : call[r].pc = "lock" => call[r].b # None
    /\ ~raced => \A r \in Callers : call[r].pc = "lock" => call[r].b = store

(* What the key can still spend: its bucket's credit, or that of a full    *)
(* bucket which the latest reading in use would make.                      *)
KeyCredit ==
    IF store # None THEN Credit(bucket[store]) ELSE BurstSize + Rate * MaxDelay

(* Grants and remaining credit.                                            *)
Paid ==
    ~raced =>
        \A j \in 0 .. Horizon :
            Granted(0, j) > 0 =>
                Unit * Granted(0, j) + KeyCredit <= BurstSize + Rate * j

-----------------------------------------------------------------------------
(* The grants of a stretch, as a sum of the library.                       *)
LEMMA GrantedIs ==
    ASSUME NEW i, NEW j
    PROVE  /\ Granted(i, j) = SumFunctionOnSet(grants, i .. j)
           /\ Granted(i, j)' = SumFunctionOnSet(grants', i .. j)
  BY DEF Granted

-----------------------------------------------------------------------------
(* Arithmetic.                                                             *)

LEMMA Numbers ==
    /\ Unit \in Nat /\ Unit > 0 /\ Rate \in Nat /\ BurstSize \in Nat
    /\ BurstSize >= Unit /\ EvictionTTL \in Nat /\ MaxDelay \in Nat
    /\ Horizon \in Nat /\ MaxDelay <= Horizon
    /\ MaxAge = EvictionTTL + MaxDelay + 1
  BY BucketAssumption DEF MaxAge

(* Products with the rate.                                                 *)
LEMMA Times ==
    ASSUME NEW a \in Int, NEW b \in Int
    PROVE  /\ Rate * a \in Int
           /\ Rate * (a + 1) = Rate * a + Rate
           /\ (a - b) * Rate = Rate * a - Rate * b
           /\ Rate * (a - b) = Rate * a - Rate * b
           /\ a <= b => Rate * a <= Rate * b
           /\ a >= 0 => Rate * a >= 0
<1>1. Rate \in Nat
  BY Numbers
<1>2. Rate * a \in Int /\ Rate * b \in Int
  BY <1>1
<1>3. Rate * (a + 1) = Rate * a + Rate
  BY <1>1
<1>4. (a - b) * Rate = Rate * a - Rate * b /\ Rate * (a - b) = Rate * a - Rate * b
  BY <1>1
<1>5. a <= b => Rate * a <= Rate * b
  <2>1. a <= b => b - a \in Nat
    OBVIOUS
  <2>2. \A m, n \in Nat : m * n \in Nat
    OBVIOUS
  <2>3. a <= b => Rate * (b - a) \in Nat
    BY <1>1, <2>1, <2>2
  <2>4. Rate * (b - a) = Rate * b - Rate * a
    BY <1>1
  <2> QED
    BY <1>2, <2>3, <2>4
<1>6. a >= 0 => Rate * a >= 0
  <2>1. \A m, n \in Nat : m * n \in Nat
    OBVIOUS
  <2>2. a >= 0 => a \in Nat
    OBVIOUS
  <2>3. a >= 0 => Rate * a \in Nat
    BY <1>1, <2>1, <2>2
  <2> QED
    BY <2>3
<1> QED
  BY <1>2, <1>3, <1>4, <1>5, <1>6

BucketRecord == [tokens : -(Rate * MaxDelay) .. BurstSize, age : 0 .. MaxAge]

(* A bucket in the arithmetic of the integers.                             *)
LEMMA BucketFacts ==
    ASSUME NEW b \in BucketRecord
    PROVE  /\ b.tokens \in Int /\ b.age \in Int /\ Rate * MaxDelay \in Int
           /\ b.tokens + Rate * MaxDelay >= 0 /\ b.tokens <= BurstSize
           /\ b.age >= 0 /\ b.age <= MaxAge
           /\ Credit(b) = b.tokens + Rate * b.age /\ Credit(b) \in Int
<1>1. Rate * MaxDelay \in Int /\ BurstSize \in Int /\ MaxAge \in Int
  <2>1. MaxDelay \in Int /\ BurstSize \in Int /\ MaxAge \in Int
    BY Numbers
  <2> QED
    BY <2>1, Times
<1>2. b.tokens \in -(Rate * MaxDelay) .. BurstSize /\ b.age \in 0 .. MaxAge
  BY DEF BucketRecord
<1>3. PICK m \in Int : m = Rate * MaxDelay
  BY <1>1
<1>4. b.tokens \in -m .. BurstSize
  BY <1>2, <1>3
<1>5. /\ b.tokens \in Int /\ b.age \in Int /\ b.tokens + m >= 0 /\ b.tokens <= BurstSize
      /\ b.age >= 0 /\ b.age <= MaxAge
  BY <1>1, <1>2, <1>4
<1>6. Rate * b.age \in Int
  BY <1>5, Times
<1> QED
  BY <1>1, <1>3, <1>5, <1>6 DEF Credit

(* What a refill leaves is at most the burst, and no more credit than      *)
(* there was; late readings leave no debt beyond this instant.             *)
LEMMA RefillFacts ==
    ASSUME NEW b \in BucketRecord, Credit(b) >= 0,
           NEW now \in 0 .. MaxDelay
    PROVE  /\ Refill(b, now) \in Int /\ Refill(b, now) <= BurstSize
           /\ Refill(b, now) + Rate * now >= 0
           /\ RefillsInTime => Refill(b, now) + Rate * now <= Credit(b)
<1> DEFINE full == b.tokens + (b.age - now) * Rate
<1>1. /\ b.tokens \in Int /\ b.age \in Int /\ b.tokens <= BurstSize
      /\ b.tokens + Rate * MaxDelay >= 0
      /\ Credit(b) = b.tokens + Rate * b.age /\ Credit(b) \in Int
  BY BucketFacts
<1>2. now \in Int /\ now >= 0 /\ MaxDelay \in Int /\ EvictionTTL \in Nat /\ BurstSize \in Nat
  BY Numbers
<1>3. /\ (b.age - now) * Rate = Rate * b.age - Rate * now
      /\ Rate * b.age \in Int /\ Rate * now \in Int /\ Rate * MaxDelay \in Int
  BY <1>1, <1>2, Times
<1>4. Rate * now >= 0
  BY <1>2, Times
<1>5. full \in Int /\ full + Rate * now = Credit(b)
  BY <1>1, <1>3
<1>6. Refill(b, now)
         = IF b.age - now > EvictionTTL \/ full > BurstSize THEN BurstSize ELSE full
  BY DEF Refill
<1> HIDE DEF full
<1>7. CASE b.age - now > EvictionTTL
  <2>1. Refill(b, now) = BurstSize
    BY <1>6, <1>7
  <2>2. ASSUME RefillsInTime PROVE BurstSize + Rate * now <= Credit(b)
    <3>1. EvictionTTL + 1 <= b.age - now /\ EvictionTTL + 1 \in Int /\ b.age - now \in Int
      BY <1>1, <1>2, <1>7
    <3>2. Rate * (EvictionTTL + 1) <= Rate * (b.age - now)
      BY <3>1, Times
    <3>3. Rate * (b.age - now) = Rate * b.age - Rate * now
      BY <1>1, <1>2, Times
    <3>4. PICK p \in Int : p = Rate * (EvictionTTL + 1)
      BY <3>1, Times
    <3>5. PICK q \in Int : q = Rate * b.age
      BY <1>3
    <3>6. PICK n \in Int : n = Rate * now
      BY <1>3
    <3>7. PICK m \in Int : m = Rate * MaxDelay
      BY <1>3
    <3>8. BurstSize + 2 * m <= p
      BY <2>2, <3>4, <3>7 DEF RefillsInTime
    <3>9. p <= q - n
      BY <3>2, <3>3, <3>4, <3>5, <3>6
    <3>10. b.tokens + m >= 0 /\ n >= 0 /\ Credit(b) = b.tokens + q
      BY <1>1, <1>4, <3>5, <3>6, <3>7
    <3>11. m >= 0
      <4>1. MaxDelay >= 0
        BY Numbers
      <4> QED
        BY <1>2, <3>7, <4>1, Times
    <3>12. BurstSize + n <= b.tokens + q
      BY <1>1, <1>2, <3>8, <3>9, <3>10, <3>11
    <3> QED
      BY <3>6, <3>10, <3>12
  <2> QED
    BY <1>2, <1>3, <1>4, <2>1, <2>2
<1>8. CASE ~(b.age - now > EvictionTTL) /\ full > BurstSize
  <2>1. Refill(b, now) = BurstSize
    BY <1>6, <1>8
  <2> QED
    BY <1>1, <1>2, <1>3, <1>4, <1>5, <1>8, <2>1
<1>9. CASE ~(b.age - now > EvictionTTL) /\ ~(full > BurstSize)
  <2>1. Refill(b, now) = full
    BY <1>6, <1>9
  <2> QED
    BY <1>1, <1>2, <1>3, <1>4, <1>5, <1>9, <2>1
<1> QED
  BY <1>7, <1>8, <1>9

-----------------------------------------------------------------------------
(* The grants of a stretch of readings.                                    *)

LEMMA GrantedFacts ==
    ASSUME BucketTypeOK, NEW i \in 0 .. Horizon,
           NEW j \in 0 .. Horizon
    PROVE  /\ Granted(i, j) \in Nat /\ Granted(0, j) \in Nat
           /\ Granted(i, j) <= Granted(0, j)
<1>1. \A x \in 0 .. j : grants[x] \in Nat
  BY Numbers DEF BucketTypeOK
<1>2. IsFiniteSet(0 .. j) /\ i .. j \in SUBSET (0 .. j)
  BY FS_Interval
<1> QED
  BY <1>1, <1>2, SumPart, GrantedIs

LEMMA GrantedMore ==
    ASSUME BucketTypeOK, NEW now \in 0 .. Horizon,
           grants' = [grants EXCEPT ![now] = @ + 1],
           NEW i \in 0 .. Horizon, NEW j \in 0 .. Horizon
    PROVE  Granted(i, j)' = Granted(i, j) + (IF now \in i .. j THEN 1 ELSE 0)
<1>1. IsFiniteSet(i .. j) /\ i .. j \in SUBSET (0 .. Horizon)
  <2>1. IsFiniteSet(i .. j)
    BY FS_Interval
  <2>2. Horizon \in Nat
    BY Numbers
  <2> QED
    BY <2>1, <2>2
<1>2. \A x \in i .. j : grants[x] \in Nat
  BY <1>1 DEF BucketTypeOK
<1>3. \A x \in i .. j : grants'[x] = IF x = now THEN grants[x] + 1 ELSE grants[x]
  BY <1>1 DEF BucketTypeOK
<1>4. SumFunctionOnSet(grants', i .. j)
         = SumFunctionOnSet(grants, i .. j) + (IF now \in i .. j THEN 1 ELSE 0)
  <2>1. PICK g : g = grants'
    OBVIOUS
  <2>2. \A x \in i .. j : g[x] = IF x = now THEN grants[x] + 1 ELSE grants[x]
    BY <1>3, <2>1
  <2>3. SumFunctionOnSet(g, i .. j)
           = SumFunctionOnSet(grants, i .. j) + (IF now \in i .. j THEN 1 ELSE 0)
    BY <1>1, <1>2, <2>2, SumOneMore, Zenon
  <2> QED
    BY <2>1, <2>3
<1> QED
  BY <1>4, GrantedIs

LEMMA GrantedTick ==
    ASSUME BucketTypeOK,
           grants' = [a \in 0 .. Horizon |-> IF a = 0 THEN 0 ELSE grants[a - 1]],
           NEW i \in 0 .. Horizon, NEW j \in 0 .. Horizon
    PROVE  /\ j = 0 => Granted(0, j)' = 0
           /\ j # 0 => Granted(0, j)' = Granted(0, j - 1)
           /\ i # 0 /\ j # 0 => Granted(i, j)' = Granted(i - 1, j - 1)
<1>1. Horizon \in Nat /\ grants \in [0 .. Horizon -> Nat]
  BY Numbers DEF BucketTypeOK
<1>2. \A x \in 0 .. Horizon : grants'[x] \in Nat /\ (x # 0 => grants'[x] = grants[x - 1])
  BY <1>1
<1>3. grants'[0] = 0
  BY <1>1
<1>4. ASSUME NEW k \in 1 .. Horizon, j # 0
      PROVE  SumFunctionOnSet(grants', k .. j) = SumFunctionOnSet(grants, k - 1 .. j - 1)
  <2>1. PICK g : g = grants'
    OBVIOUS
  <2>2. PICK u \in Nat, v \in Nat : u = k - 1 /\ v = j - 1
    BY <1>1, <1>4
  <2>3. k = u + 1 /\ j = v + 1 /\ j \in Nat /\ k \in Nat /\ v + 1 <= Horizon
    BY <1>1, <2>2
  <2>4. MovedUp(grants, g, u, v)
    <3>1. SUFFICES ASSUME NEW x \in u .. v PROVE grants[x] \in Int /\ g[x + 1] = grants[x]
      BY DEF MovedUp
    <3>2. x + 1 \in 0 .. Horizon /\ x \in 0 .. Horizon /\ x + 1 # 0 /\ (x + 1) - 1 = x
      BY <1>1, <2>3
    <3>3. grants'[x + 1] = grants[(x + 1) - 1]
      BY <1>2, <3>2
    <3> QED
      BY <1>1, <2>1, <3>2, <3>3
  <2>5. SumFunctionOnSet(g, u + 1 .. v + 1) = SumFunctionOnSet(grants, u .. v)
    BY <2>4, SumShift
  <2>6. SumFunctionOnSet(g, k .. j) = SumFunctionOnSet(grants, u .. v)
    BY <2>3, <2>5
  <2> QED
    BY <2>1, <2>2, <2>6
<1>5. SumFunctionOnSet(grants', 0 .. j) = 0 + SumFunctionOnSet(grants', 1 .. j)
  <2>1. IsFiniteSet(0 .. j) /\ 0 \in 0 .. j /\ (0 .. j) \ {0} = 1 .. j
    <3>1. IsFiniteSet(0 .. j)
      BY FS_Interval
    <3>2. j \in Nat
      BY <1>1
    <3> QED
      BY <3>1, <3>2
  <2>2. \A x \in 0 .. j : grants'[x] \in Int
    BY <1>1, <1>2
  <2>3. PICK g : g = grants'
    OBVIOUS
  <2>4. \A x \in 0 .. j : g[x] \in Int
    BY <2>2, <2>3
  <2>5. SumFunctionOnSet(g, 0 .. j) = g[0] + SumFunctionOnSet(g, (0 .. j) \ {0})
    <3>1. PICK S : S = 0 .. j
      OBVIOUS
    <3>2. IsFiniteSet(S) /\ 0 \in S /\ \A x \in S : g[x] \in Int
      BY <2>1, <2>4, <3>1
    <3>3. SumFunctionOnSet(g, S) = g[0] + SumFunctionOnSet(g, S \ {0})
      BY <3>2, SumTake
    <3> QED
      BY <3>1, <3>3
  <2> QED
    BY <1>3, <2>1, <2>3, <2>5
<1>6. ASSUME j = 0 PROVE SumFunctionOnSet(grants', 0 .. j) = 0
  <2>1. 1 .. j = {}
    BY <1>6
  <2> QED
    BY <1>5, <2>1, SumEmpty
<1>7. ASSUME j # 0
      PROVE  SumFunctionOnSet(grants', 0 .. j) = SumFunctionOnSet(grants, 0 .. j - 1)
  <2>1. 1 \in 1 .. Horizon /\ 1 - 1 = 0 /\ j - 1 \in 0 .. Horizon
    BY <1>1, <1>7
  <2>2. SumFunctionOnSet(grants', 1 .. j) = SumFunctionOnSet(grants, 0 .. j - 1)
    BY <1>4, <1>7, <2>1
  <2>3. SumFunctionOnSet(grants, 0 .. j - 1) \in Nat
    BY <2>1, GrantedFacts, GrantedIs
  <2> QED
    BY <1>5, <2>2, <2>3
<1>8. ASSUME i # 0, j # 0
      PROVE  SumFunctionOnSet(grants', i .. j) = SumFunctionOnSet(grants, i - 1 .. j - 1)
  <2>1. i \in 1 .. Horizon
    BY <1>1, <1>8
  <2> QED
    BY <1>4, <1>8, <2>1
<1> QED
  BY <1>6, <1>7, <1>8, GrantedIs

-----------------------------------------------------------------------------
(* Types and debts.                                                        *)

LEMMA BumpFacts ==
    ASSUME NEW cap \in Nat, NEW n \in 0 .. cap
    PROVE  /\ Older(n, cap) \in 0 .. cap
           /\ n <= Older(n, cap) /\ Older(n, cap) <= n + 1
  BY DEF Older

(* While the key has no bucket, an object is free to become it.            *)
LEMMA FreeOne ==
    ASSUME BucketTypeOK, store = None
    PROVE  Min(Free) \in Objects
<1> DEFINE held == {call[r].b : r \in Callers}
           n    == Cardinality(Callers)
<1>1. IsFiniteSet(Callers) /\ n \in Nat
  BY BucketAssumption, FS_CardinalityType
<1>2. IsFiniteSet(held) /\ Cardinality(held) \in Nat /\ Cardinality(held) <= n
  <2>1. IsFiniteSet(held) /\ Cardinality(held) <= n
    <3> DEFINE f == [r \in Callers |-> call[r].b]
    <3>1. f \in Surjection(Callers, held)
      BY DEF Surjection
    <3> HIDE DEF f, held
    <3> QED
      BY <1>1, <3>1, FS_Surjection
  <2> QED
    BY <2>1, FS_CardinalityType
<1> HIDE DEF n, held
<1>3. Objects = 1 .. n + 1
  BY DEF Objects, n
<1>4. Objects \in SUBSET Nat /\ None \notin Objects
  BY <1>1, <1>3 DEF None
<1>5. IsFiniteSet(1 .. n + 1) /\ Cardinality(1 .. n + 1) = n + 1
  <2>1. 1 \in Int /\ n + 1 \in Int /\ ~ (1 > n + 1) /\ (n + 1) - 1 + 1 = n + 1
    BY <1>1
  <2> QED
    BY <2>1, FS_Interval
<1>6. Free = Objects \ held
  BY <1>4 DEF Free, held
<1>7. Free # {}
  <2>1. SUFFICES ASSUME Free = {} PROVE FALSE
    OBVIOUS
  <2>2. 1 .. n + 1 \in SUBSET held
    BY <1>3, <1>6, <2>1
  <2>3. Cardinality(1 .. n + 1) <= Cardinality(held)
    BY <1>2, <2>2, FS_Subset
  <2> QED
    BY <1>1, <1>2, <1>5, <2>3
<1>8. Free \in SUBSET Nat /\ Free \in SUBSET Objects
  BY <1>4, <1>6
<1>9. Min(Free) \in Free
  BY <1>7, <1>8, Least
<1> QED
  BY <1>8, <1>9

Sound == BucketTypeOK /\ Solvent /\ Together

CallRecord ==
    [pc : {"idle", "load", "lock"}, now : 0 .. MaxDelay, b : {None} \cup Objects]

LEMMA Types ==
    ASSUME BucketTypeOK
    PROVE  bucket \in [Objects -> BucketRecord] /\ call \in [Callers -> CallRecord]
  BY DEF BucketTypeOK, BucketRecord, CallRecord

LEMMA SoundInit ==
    ASSUME BucketInit
    PROVE  Sound
<1>1. /\ Rate * MaxDelay \in Nat /\ Rate * 0 = 0 /\ MaxDelay \in Nat /\ MaxAge \in Nat
      /\ BurstSize \in Nat /\ Horizon \in Nat
  <2>1. Rate \in Nat /\ MaxDelay \in Nat
    BY Numbers
  <2>2. \A m, n \in Nat : m * n \in Nat
    OBVIOUS
  <2>3. Rate * MaxDelay \in Nat /\ Rate * 0 = 0
    BY <2>1, <2>2
  <2> QED
    BY <2>3, Numbers
<1>2. PICK m \in Nat : m = Rate * MaxDelay
  BY <1>1
<1>3. 0 \in -m .. BurstSize /\ 0 \in 0 .. MaxAge /\ 0 \in 0 .. MaxDelay
  BY <1>1
<1>4. BucketTypeOK
  BY <1>1, <1>2, <1>3 DEF BucketInit, BucketTypeOK, IdleCall
<1>5. Solvent
  BY <1>1 DEF BucketInit, Solvent, Credit
<1>6. Together
  BY DEF BucketInit, Together, IdleCall
<1> QED
  BY <1>4, <1>5, <1>6 DEF Sound

(* The critical section, in the arithmetic of the integers.                *)
SpendsTo(r, o, now, t) ==
    /\ call[r].pc = "lock" /\ o = call[r].b /\ now = call[r].now
    /\ t = Refill(bucket[o], now)
    /\ t <= BurstSize /\ t + Rate * now >= 0
    /\ RefillsInTime => t + Rate * now <= Credit(bucket[o])
    /\ bucket' = [bucket EXCEPT ![o] =
                    [tokens |-> IF t >= Unit THEN t - Unit ELSE t, age |-> now]]
    /\ grants' = IF t >= Unit THEN [grants EXCEPT ![now] = @ + 1] ELSE grants
    /\ call' = [call EXCEPT ![r] = IdleCall]
    /\ UNCHANGED <<store, sweepVars>>

LEMMA SpendFacts ==
    ASSUME Sound, NEW r \in Callers, Spend(r)
    PROVE  \E o \in Objects, now \in 0 .. MaxDelay, t \in Int : SpendsTo(r, o, now, t)
<1>1. call[r] \in CallRecord /\ call[r].pc = "lock" /\ call[r].b # None
  BY Types DEF Sound, Spend, Together
<1>2. call[r].b \in Objects /\ call[r].now \in 0 .. MaxDelay
  BY <1>1 DEF CallRecord
<1>3. bucket[call[r].b] \in BucketRecord /\ Credit(bucket[call[r].b]) >= 0
  BY <1>2, Types DEF Sound, Solvent
<1>4. PICK o \in Objects : o = call[r].b
  BY <1>2
<1>5. PICK now \in 0 .. MaxDelay : now = call[r].now
  BY <1>2
<1>6. bucket[o] \in BucketRecord /\ Credit(bucket[o]) >= 0
  BY <1>3, <1>4
<1>7. PICK b \in BucketRecord : b = bucket[o]
  BY <1>6
<1>8. /\ Refill(b, now) \in Int /\ Refill(b, now) <= BurstSize
      /\ Refill(b, now) + Rate * now >= 0
      /\ RefillsInTime => Refill(b, now) + Rate * now <= Credit(b)
  BY <1>6, <1>7, RefillFacts
<1>9. SpendsTo(r, o, now, Refill(bucket[o], now))
  BY <1>4, <1>5, <1>7, <1>8 DEF Spend, SpendsTo
<1> QED
  BY <1>7, <1>8, <1>9

LEMMA SoundSpend ==
    ASSUME Sound, NEW r \in Callers, Spend(r)
    PROVE  Sound'
<1>1. PICK o \in Objects, now \in 0 .. MaxDelay, t \in Int : SpendsTo(r, o, now, t)
  BY SpendFacts
<1> DEFINE s == IF t >= Unit THEN t - Unit ELSE t
<1>2. /\ MaxDelay \in Nat /\ now \in Int /\ now >= 0 /\ now <= MaxDelay /\ Unit \in Nat
      /\ Unit > 0 /\ Horizon \in Nat /\ MaxDelay <= Horizon /\ BurstSize \in Nat
  BY Numbers
<1>3. PICK m \in Int, n \in Int : m = Rate * MaxDelay /\ n = Rate * now
  <2>1. MaxDelay \in Int
    BY <1>2
  <2>2. Rate * MaxDelay \in Int /\ Rate * now \in Int
    BY <1>2, <2>1, Times
  <2> QED
    BY <2>2
<1>4. n >= 0 /\ n <= m
  BY <1>2, <1>3, Times
<1>5. t <= BurstSize /\ t + n >= 0
  BY <1>1, <1>3 DEF SpendsTo
<1>6. s \in Int /\ s <= BurstSize /\ s + n >= 0 /\ s \in -m .. BurstSize
  BY <1>2, <1>4, <1>5
<1> HIDE DEF s
<1>7. now \in 0 .. MaxAge /\ now \in 0 .. Horizon
  BY <1>2, Numbers
<1>8. [tokens |-> s, age |-> now] \in BucketRecord
  BY <1>3, <1>6, <1>7 DEF BucketRecord
<1>9. bucket' = [bucket EXCEPT ![o] = [tokens |-> s, age |-> now]]
  BY <1>1 DEF SpendsTo, s
<1>10. /\ bucket \in [Objects -> BucketRecord]
       /\ bucket' \in [Objects -> BucketRecord]
  BY <1>8, <1>9, Types DEF Sound
<1>11. call \in [Callers -> CallRecord] /\ call' = [call EXCEPT ![r] = IdleCall]
  BY <1>1, Types DEF Sound, SpendsTo
<1>12. call' \in [Callers -> CallRecord]
  BY <1>2, <1>11 DEF CallRecord, IdleCall
<1>13. grants' \in [0 .. Horizon -> Nat]
  <2>1. grants \in [0 .. Horizon -> Nat]
    BY DEF Sound, BucketTypeOK
  <2>2. grants' = [grants EXCEPT ![now] = @ + 1] \/ grants' = grants
    BY <1>1 DEF SpendsTo
  <2> QED
    BY <1>7, <2>1, <2>2
<1>14. BucketTypeOK'
  BY <1>1, <1>10, <1>12, <1>13 DEF Sound, BucketTypeOK, SpendsTo, sweepVars,
     BucketRecord, CallRecord
<1>15. Solvent'
  <2>1. SUFFICES ASSUME NEW p \in Objects PROVE Credit(bucket'[p]) >= 0
    BY DEF Solvent
  <2>2. CASE p = o
    <3>1. bucket'[p] = [tokens |-> s, age |-> now]
      BY <1>9, <1>10, <2>2
    <3> QED
      BY <1>3, <1>6, <3>1 DEF Credit
  <2>3. CASE p # o
    BY <1>9, <1>10, <2>3 DEF Sound, Solvent
  <2> QED
    BY <2>2, <2>3
<1>16. Together'
  <2>1. store' = store /\ raced' = raced
    BY <1>1 DEF SpendsTo, sweepVars
  <2> QED
    BY <1>11, <2>1 DEF Sound, Together, IdleCall
<1> QED
  BY <1>14, <1>15, <1>16 DEF Sound

LEMMA SoundTick ==
    ASSUME Sound, ClockTick
    PROVE  Sound'
<1>1. MaxAge \in Nat /\ MaxDelay \in Nat /\ Horizon \in Nat
  BY Numbers
<1>2. bucket \in [Objects -> BucketRecord] /\ call \in [Callers -> CallRecord]
  BY Types DEF Sound
<1>3. /\ \A r \in Callers : call[r].pc # "idle" => call[r].now < MaxDelay
      /\ call' = [r \in Callers |->
                  IF call[r].pc = "idle" THEN call[r] ELSE [call[r] EXCEPT !.now = @ + 1]]
      /\ bucket' = [o \in Objects |->
                      [bucket[o] EXCEPT !.age = Older(@, MaxAge)]]
      /\ grants' = [a \in 0 .. Horizon |-> IF a = 0 THEN 0 ELSE grants[a - 1]]
      /\ UNCHANGED <<store, sweeper, closed, raced>>
  BY DEF ClockTick, sweepVars
<1>4. ASSUME NEW o \in Objects
      PROVE  /\ bucket'[o] \in BucketRecord /\ bucket'[o].tokens = bucket[o].tokens
             /\ bucket'[o].age = Older(bucket[o].age, MaxAge)
  <2>1. bucket[o] \in BucketRecord
    BY <1>2
  <2>2. bucket[o].age \in 0 .. MaxAge
    BY <2>1 DEF BucketRecord
  <2>3. Older(bucket[o].age, MaxAge) \in 0 .. MaxAge
    BY <1>1, <2>2, BumpFacts
  <2> QED
    BY <1>3, <2>1, <2>3 DEF BucketRecord
<1>5. bucket' \in [Objects -> BucketRecord]
  BY <1>3, <1>4
<1>6. ASSUME NEW r \in Callers
      PROVE  call'[r] \in CallRecord /\ call'[r].pc = call[r].pc /\ call'[r].b = call[r].b
  <2>1. call[r] \in CallRecord
    BY <1>2
  <2>2. CASE call[r].pc = "idle"
    BY <1>3, <2>1, <2>2
  <2>3. CASE call[r].pc # "idle"
    <3>1. call[r].now + 1 \in 0 .. MaxDelay
      BY <1>1, <1>3, <2>1, <2>3 DEF CallRecord
    <3> QED
      BY <1>3, <2>1, <2>3, <3>1 DEF CallRecord
  <2> QED
    BY <2>2, <2>3
<1>7. call' \in [Callers -> CallRecord]
  BY <1>3, <1>6
<1>8. grants' \in [0 .. Horizon -> Nat]
  BY <1>1, <1>3 DEF Sound, BucketTypeOK
<1>9. BucketTypeOK'
  BY <1>3, <1>5, <1>7, <1>8 DEF Sound, BucketTypeOK, BucketRecord, CallRecord
<1>10. Solvent'
  <2>1. SUFFICES ASSUME NEW o \in Objects PROVE Credit(bucket'[o]) >= 0
    BY DEF Solvent
  <2>2. bucket[o] \in BucketRecord /\ Credit(bucket[o]) >= 0
    BY <1>2 DEF Sound, Solvent
  <2>3. /\ bucket[o].tokens \in Int /\ bucket[o].age \in Int
        /\ Credit(bucket[o]) = bucket[o].tokens + Rate * bucket[o].age
    BY <2>2, BucketFacts
  <2>4. PICK a \in Int : a = bucket'[o].age /\ bucket[o].age <= a
    <3>1. bucket[o].age \in 0 .. MaxAge
      BY <2>2 DEF BucketRecord
    <3>2. /\ Older(bucket[o].age, MaxAge) \in 0 .. MaxAge
          /\ bucket[o].age <= Older(bucket[o].age, MaxAge)
      BY <1>1, <3>1, BumpFacts
    <3>3. Older(bucket[o].age, MaxAge) \in Int
      BY <3>2
    <3> QED
      BY <1>4, <3>2, <3>3
  <2>5. Rate * bucket[o].age <= Rate * a /\ Rate * bucket[o].age \in Int /\ Rate * a \in Int
    BY <2>3, <2>4, Times
  <2>6. Credit(bucket'[o]) = bucket[o].tokens + Rate * a
    BY <1>4, <2>4 DEF Credit
  <2> QED
    BY <2>2, <2>3, <2>5, <2>6
<1>11. Together'
  BY <1>3, <1>6 DEF Sound, Together
<1> QED
  BY <1>9, <1>10, <1>11 DEF Sound

LEMMA SoundLoad ==
    ASSUME Sound, NEW r \in Callers, LoadOrStore(r)
    PROVE  Sound'
<1>1. bucket \in [Objects -> BucketRecord] /\ call \in [Callers -> CallRecord]
  BY Types DEF Sound
<1>2. call[r] \in CallRecord /\ UNCHANGED <<sweeper, closed, raced, grants>>
  BY <1>1 DEF LoadOrStore, sweepVars
<1>3. CASE store # None
  <2>1. /\ call' = [call EXCEPT ![r] = [@ EXCEPT !.pc = "lock", !.b = store]]
        /\ UNCHANGED <<store, bucket>>
    BY <1>3 DEF LoadOrStore
  <2>2. call' \in [Callers -> CallRecord]
    BY <1>1, <1>2, <2>1 DEF CallRecord, Sound, BucketTypeOK
  <2>3. BucketTypeOK'
    BY <1>1, <1>2, <2>1, <2>2 DEF Sound, BucketTypeOK, BucketRecord, CallRecord
  <2>4. Solvent'
    BY <2>1 DEF Sound, Solvent
  <2>5. Together'
    BY <1>1, <1>2, <1>3, <2>1 DEF Sound, Together, CallRecord
  <2> QED
    BY <2>3, <2>4, <2>5 DEF Sound
<1>4. CASE store = None
  <2>1. PICK o \in Objects : o = Min(Free)
    BY <1>4, FreeOne DEF Sound
  <2>2. /\ store' = o
        /\ bucket' = [bucket EXCEPT ![o] = [tokens |-> BurstSize, age |-> call[r].now]]
        /\ call' = [call EXCEPT ![r] = [@ EXCEPT !.pc = "lock", !.b = o]]
    BY <1>4, <2>1 DEF LoadOrStore
  <2>3. call' \in [Callers -> CallRecord]
    BY <1>1, <1>2, <2>2 DEF CallRecord
  <2>4. PICK now \in 0 .. MaxDelay : now = call[r].now
    BY <1>2 DEF CallRecord
  <2>5. /\ MaxDelay \in Nat /\ BurstSize \in Nat /\ MaxAge \in Nat
        /\ now \in Int /\ now >= 0
        /\ now \in 0 .. MaxAge
    BY Numbers
  <2>6. PICK m \in Int, n \in Int : m = Rate * MaxDelay /\ n = Rate * now /\ m >= 0 /\ n >= 0
    <3>1. MaxDelay \in Int /\ MaxDelay >= 0
      BY <2>5
    <3>2. /\ Rate * MaxDelay \in Int /\ Rate * now \in Int
          /\ Rate * MaxDelay >= 0 /\ Rate * now >= 0
      BY <2>5, <3>1, Times
    <3> QED
      BY <3>2
  <2>7. [tokens |-> BurstSize, age |-> now] \in BucketRecord
    BY <2>5, <2>6 DEF BucketRecord
  <2>8. bucket' \in [Objects -> BucketRecord]
    BY <1>1, <2>2, <2>4, <2>7
  <2>9. BucketTypeOK'
    BY <1>2, <2>2, <2>3, <2>8 DEF Sound, BucketTypeOK, BucketRecord, CallRecord
  <2>10. Solvent'
    <3>1. SUFFICES ASSUME NEW p \in Objects PROVE Credit(bucket'[p]) >= 0
      BY DEF Solvent
    <3>2. CASE p = o
      BY <1>1, <2>2, <2>4, <2>5, <2>6, <3>2 DEF Credit
    <3>3. CASE p # o
      BY <1>1, <2>2, <3>3 DEF Sound, Solvent
    <3> QED
      BY <3>2, <3>3
  <2>11. Together'
    <3>1. o # None
      BY DEF Objects, None
    <3> QED
      BY <1>1, <1>2, <1>4, <2>2, <3>1 DEF Sound, Together, CallRecord
  <2> QED
    BY <2>9, <2>10, <2>11 DEF Sound
<1> QED
  BY <1>3, <1>4

LEMMA SoundReadClock ==
    ASSUME Sound, NEW r \in Callers, ReadClock(r)
    PROVE  Sound'
<1>1. bucket \in [Objects -> BucketRecord] /\ call \in [Callers -> CallRecord]
  BY Types DEF Sound
<1>2. /\ call' = [call EXCEPT ![r] = [pc |-> "load", now |-> 0, b |-> None]]
      /\ UNCHANGED <<store, bucket, sweeper, closed, raced, grants>>
  BY DEF ReadClock, sweepVars
<1>3. call' \in [Callers -> CallRecord]
  <2>1. 0 \in 0 .. MaxDelay
    BY Numbers
  <2> QED
    BY <1>1, <1>2, <2>1 DEF CallRecord
<1>4. BucketTypeOK'
  BY <1>2, <1>3 DEF Sound, BucketTypeOK, CallRecord
<1>5. Solvent' /\ Together'
  BY <1>1, <1>2 DEF Sound, Solvent, Together
<1> QED
  BY <1>4, <1>5 DEF Sound

LEMMA SoundSweepDelete ==
    ASSUME Sound, SweepDelete
    PROVE  Sound'
<1>1. BucketTypeOK' /\ Solvent'
  BY DEF Sound, BucketTypeOK, Solvent, SweepDelete
<1>2. Together'
  BY DEF Sound, Together, SweepDelete, InUse
<1> QED
  BY <1>1, <1>2 DEF Sound

LEMMA SoundStill ==
    ASSUME Sound, UNCHANGED <<store, bucket, call, raced, grants>>,
           sweeper' \in {"off", "idle", "delete"}, closed' \in BOOLEAN
    PROVE  Sound'
  BY DEF Sound, BucketTypeOK, Solvent, Together

LEMMA SoundNext ==
    ASSUME Sound, [BucketNext]_bucketVars
    PROVE  Sound'
<1>1. CASE \E r \in Callers : ReadClock(r) \/ InAllow(r)
  BY <1>1, SoundReadClock, SoundLoad, SoundSpend DEF InAllow
<1>2. CASE SweepCheck
  BY <1>2, SoundStill DEF SweepCheck, Sound, BucketTypeOK
<1>3. CASE SweepDelete
  BY <1>3, SoundSweepDelete
<1>4. CASE Close
  BY <1>4, SoundStill DEF Close, Sound, BucketTypeOK
<1>5. CASE SweeperStops
  BY <1>5, SoundStill DEF SweeperStops, Sound, BucketTypeOK
<1>6. CASE ClockTick
  BY <1>6, SoundTick
<1>7. CASE UNCHANGED bucketVars
  BY <1>7, SoundStill DEF bucketVars, Sound, BucketTypeOK
<1> QED
  BY <1>1, <1>2, <1>3, <1>4, <1>5, <1>6, <1>7 DEF BucketNext

(* No bucket ever holds more than the burst size, and one that late        *)
(* readings have emptied below zero owes no more than they are late:       *)
(* allow's refill with a negative elapsed time and the cap after it.       *)
THEOREM BucketTypes == BucketSpec => []BucketTypeOK
<1>1. BucketInit => Sound
  BY SoundInit
<1>2. Sound /\ [BucketNext]_bucketVars => Sound'
  BY SoundNext
<1>3. Sound => BucketTypeOK
  BY DEF Sound
<1> QED
  BY <1>1, <1>2, <1>3, PTL DEF BucketSpec

-----------------------------------------------------------------------------
(* The limit.                                                              *)

CreditOf(s, buckets) ==
    IF s # None THEN Credit(buckets[s]) ELSE BurstSize + Rate * MaxDelay

LEMMA CreditInt ==
    ASSUME NEW s \in {None} \cup Objects,
           NEW buckets \in [Objects -> BucketRecord]
    PROVE  CreditOf(s, buckets) \in Int
<1>1. CASE s = None
  <2>1. MaxDelay \in Int /\ BurstSize \in Int
    BY Numbers
  <2>2. Rate * MaxDelay \in Int
    BY <2>1, Times
  <2> QED
    BY <1>1, <2>1, <2>2 DEF CreditOf
<1>2. CASE s # None
  <2>1. buckets[s] \in BucketRecord
    BY <1>2
  <2>2. Credit(buckets[s]) \in Int
    BY <2>1, BucketFacts
  <2> QED
    BY <1>2, <2>2 DEF CreditOf
<1> QED
  BY <1>1, <1>2

LEMMA KeyCredits ==
    ASSUME Sound, Sound'
    PROVE  KeyCredit \in Int /\ KeyCredit' \in Int
<1>1. KeyCredit = CreditOf(store, bucket) /\ KeyCredit' = CreditOf(store', bucket')
  BY DEF KeyCredit, CreditOf
<1>2. /\ bucket \in [Objects -> BucketRecord]
      /\ store \in {None} \cup Objects
  BY DEF Sound, BucketTypeOK, BucketRecord
<1>3. /\ bucket' \in [Objects -> BucketRecord]
      /\ store' \in {None} \cup Objects
  BY DEF Sound, BucketTypeOK, BucketRecord
<1> QED
  BY <1>1, <1>2, <1>3, CreditInt

(* What the grants of a stretch cost.                                      *)
LEMMA Cost ==
    ASSUME NEW a \in Nat, NEW b \in Nat
    PROVE  /\ Unit * a \in Int /\ Unit * a >= 0 /\ Unit * (a + 1) = Unit * a + Unit
           /\ a <= b => Unit * a <= Unit * b
<1>1. Unit \in Nat
  BY Numbers
<1>2. \A m, n \in Nat : m * n \in Nat
  OBVIOUS
<1>3. Unit * a \in Nat /\ Unit * b \in Nat /\ Unit * (a + 1) = Unit * a + Unit
  BY <1>1, <1>2
<1>4. a <= b => Unit * a <= Unit * b
  <2>1. a <= b => b - a \in Nat
    OBVIOUS
  <2>2. a <= b => Unit * (b - a) \in Nat
    BY <1>1, <1>2, <2>1
  <2>3. Unit * (b - a) = Unit * b - Unit * a
    BY <1>1
  <2> QED
    BY <1>3, <2>2, <2>3
<1> QED
  BY <1>3, <1>4

(* A step that grants nothing and adds no credit.                          *)
LEMMA StillPaid ==
    ASSUME Sound, Sound', Paid, RateBound, grants' = grants,
           ~raced' => ~raced /\ KeyCredit' <= KeyCredit
    PROVE  Paid' /\ RateBound'
<1>1. \A i, j : Granted(i, j)' = Granted(i, j)
  BY DEF Granted
<1>2. RateBound'
  BY <1>1 DEF RateBound
<1>3. ASSUME ~raced', NEW j \in 0 .. Horizon, Granted(0, j)' > 0
      PROVE  Unit * Granted(0, j)' + KeyCredit' <= BurstSize + Rate * j
  <2>1. /\ Unit * Granted(0, j) + KeyCredit <= BurstSize + Rate * j
        /\ KeyCredit' <= KeyCredit
    BY <1>1, <1>3 DEF Paid
  <2>2. KeyCredit \in Int /\ KeyCredit' \in Int
    BY KeyCredits
  <2>3. Granted(0, j) \in Nat
    <3>1. BucketTypeOK /\ 0 \in 0 .. Horizon
      BY Numbers DEF Sound
    <3> QED
      BY <3>1, GrantedFacts
  <2>4. PICK c \in Int : c = Unit * Granted(0, j)
    BY <2>3, Cost
  <2>5. BurstSize \in Int /\ Rate * j \in Int
    <3>1. j \in Int /\ BurstSize \in Int
      BY Numbers
    <3> QED
      BY <3>1, Times
  <2>6. PICK w \in Int : w = BurstSize + Rate * j
    BY <2>5
  <2>7. c + KeyCredit' <= w
    BY <2>1, <2>2, <2>4, <2>6
  <2> QED
    BY <1>1, <2>4, <2>6, <2>7
<1> QED
  BY <1>2, <1>3 DEF Paid

LEMMA PaidInit ==
    ASSUME BucketInit
    PROVE  Paid /\ RateBound
<1>1. Horizon \in Nat /\ grants = [a \in 0 .. Horizon |-> 0]
  BY Numbers DEF BucketInit
<1>2. ASSUME NEW i \in 0 .. Horizon, NEW j \in 0 .. Horizon PROVE Granted(i, j) = 0
  <2>1. IsFiniteSet(i .. j)
    BY FS_Interval
  <2>2. \A x \in i .. j : grants[x] = 0
    BY <1>1
  <2> QED
    BY <2>1, <2>2, SumZero, GrantedIs
<1>3. Paid
  <2>1. 0 \in 0 .. Horizon
    BY <1>1
  <2> QED
    BY <1>2, <2>1 DEF Paid
<1>4. ASSUME NEW from \in 0 .. Horizon, NEW to \in from .. Horizon
      PROVE  Unit * Granted(from, to) <= BurstSize + Rate * (to - from)
  <2>1. to \in 0 .. Horizon /\ to - from \in Int /\ to - from >= 0
    BY <1>1
  <2>2. Rate * (to - from) >= 0 /\ Rate * (to - from) \in Int
    BY <2>1, Times
  <2>3. Granted(from, to) = 0 /\ Unit * 0 = 0 /\ BurstSize \in Nat
    BY <1>2, <2>1, Numbers
  <2> QED
    BY <2>2, <2>3
<1> QED
  BY <1>3, <1>4 DEF RateBound

LEMMA PaidLoad ==
    ASSUME Sound, Sound', Paid, RateBound,
           NEW r \in Callers, LoadOrStore(r)
    PROVE  Paid' /\ RateBound'
<1>1. grants' = grants /\ raced' = raced
  BY DEF LoadOrStore, sweepVars
<1>2. KeyCredit \in Int /\ KeyCredit' \in Int
  BY KeyCredits
<1>3. CASE store # None
  <2>1. store' = store /\ bucket' = bucket
    BY <1>3 DEF LoadOrStore
  <2>2. KeyCredit' = KeyCredit
    BY <2>1 DEF KeyCredit
  <2> QED
    BY <1>1, <1>2, <2>2, StillPaid
<1>4. CASE store = None
  <2>1. PICK o \in Objects : o = Min(Free)
    BY <1>4, FreeOne DEF Sound
  <2>2. /\ store' = o
        /\ bucket' = [bucket EXCEPT ![o] = [tokens |-> BurstSize, age |-> call[r].now]]
    BY <1>4, <2>1 DEF LoadOrStore
  <2>3. PICK now \in 0 .. MaxDelay : now = call[r].now
    BY Types DEF Sound, CallRecord
  <2>4. MaxDelay \in Int /\ now \in Int /\ now <= MaxDelay /\ BurstSize \in Int
    BY Numbers
  <2>5. Rate * now <= Rate * MaxDelay /\ Rate * now \in Int /\ Rate * MaxDelay \in Int
    BY <2>4, Times
  <2>6. o # None /\ bucket'[o] = [tokens |-> BurstSize, age |-> now]
    BY <2>2, <2>3, Types DEF Sound, Objects, None
  <2>7. KeyCredit' = BurstSize + Rate * now
    BY <2>2, <2>6 DEF KeyCredit, Credit
  <2>8. KeyCredit = BurstSize + Rate * MaxDelay
    BY <1>4 DEF KeyCredit
  <2>9. KeyCredit' <= KeyCredit
    BY <2>4, <2>5, <2>7, <2>8
  <2> QED
    BY <1>1, <2>9, StillPaid
<1> QED
  BY <1>3, <1>4

(* The sweep deletes a bucket that would be full for every reading in use. *)
LEMMA PaidSweepDelete ==
    ASSUME RefillsInTime, Sound, Sound', Paid, RateBound,
           SweepDelete
    PROVE  Paid' /\ RateBound'
<1>1. grants' = grants /\ store' = None /\ raced' = (raced \/ InUse)
  BY DEF SweepDelete
<1>2. KeyCredit' = BurstSize + Rate * MaxDelay
  BY <1>1 DEF KeyCredit
<1>3. MaxDelay \in Int /\ EvictionTTL \in Int /\ EvictionTTL + 1 \in Int /\ BurstSize \in Int
  BY Numbers
<1>4. PICK m \in Int, p \in Int : m = Rate * MaxDelay /\ p = Rate * (EvictionTTL + 1)
  BY <1>3, Times
<1>5. BurstSize + 2 * m <= p
  BY <1>4 DEF RefillsInTime
<1>6. ASSUME ~raced' PROVE ~raced /\ KeyCredit' <= KeyCredit
  <2>1. ~raced /\ ~InUse
    BY <1>1, <1>6 DEF Sound, BucketTypeOK
  <2>2. CASE store = None
    BY <1>2, <1>3, <1>4, <2>1, <2>2 DEF KeyCredit
  <2>3. CASE store # None
    <3>1. bucket[store] \in BucketRecord
      BY <2>3, Types DEF Sound, BucketTypeOK
    <3>2. ~ (bucket[store].age <= EvictionTTL)
      BY <2>1, <2>3 DEF InUse
    <3>3. PICK b \in BucketRecord : b = bucket[store]
      BY <3>1
    <3>4. /\ b.tokens \in Int /\ b.age \in Int /\ b.tokens + Rate * MaxDelay >= 0
          /\ Credit(b) = b.tokens + Rate * b.age
      BY BucketFacts
    <3>5. EvictionTTL + 1 <= b.age
      BY <1>3, <3>2, <3>3, <3>4
    <3>6. PICK q \in Int : q = Rate * b.age /\ p <= q
      BY <1>3, <1>4, <3>4, <3>5, Times
    <3>7. KeyCredit = b.tokens + q
      BY <2>3, <3>3, <3>4, <3>6 DEF KeyCredit
    <3>8. BurstSize + m <= b.tokens + q
      BY <1>3, <1>4, <1>5, <3>4, <3>6
    <3> QED
      BY <1>2, <1>4, <2>1, <3>7, <3>8
  <2> QED
    BY <2>2, <2>3
<1> QED
  BY <1>1, <1>6, StillPaid

(* The bounds of the statement, as integers.                               *)
LEMMA Bound ==
    ASSUME NEW i \in 0 .. Horizon, NEW j \in 0 .. Horizon
    PROVE  /\ BurstSize + Rate * j \in Int
           /\ BurstSize + Rate * (j - i) = (BurstSize + Rate * j) - Rate * i
           /\ Rate * i \in Int /\ Rate * i >= 0
<1>1. i \in Int /\ j \in Int /\ i >= 0 /\ BurstSize \in Int
  BY Numbers
<1>2. /\ Rate * j \in Int /\ Rate * i \in Int /\ Rate * i >= 0
      /\ Rate * (j - i) = Rate * j - Rate * i
  BY <1>1, Times
<1> QED
  BY <1>1, <1>2

(* A tick adds one tick's refill at most.                                  *)
LEMMA CreditTick ==
    ASSUME Sound, ClockTick
    PROVE  KeyCredit' <= KeyCredit + Rate
<1>1. /\ store' = store /\ Rate \in Nat /\ MaxAge \in Nat
      /\ MaxDelay \in Int /\ BurstSize \in Int
  BY Numbers DEF ClockTick
<1>2. CASE store = None
  <2>1. Rate * MaxDelay \in Int
    BY <1>1, Times
  <2>2. KeyCredit' = BurstSize + Rate * MaxDelay /\ KeyCredit = BurstSize + Rate * MaxDelay
    BY <1>1, <1>2 DEF KeyCredit
  <2> QED
    BY <1>1, <2>1, <2>2
<1>3. CASE store # None
  <2>1. bucket \in [Objects -> BucketRecord] /\ store \in Objects
    BY <1>3, Types DEF Sound, BucketTypeOK
  <2>2. PICK b \in BucketRecord : b = bucket[store]
    BY <2>1
  <2>3. /\ b.tokens \in Int /\ b.age \in Int /\ b.age \in 0 .. MaxAge
        /\ Credit(b) = b.tokens + Rate * b.age
    BY BucketFacts DEF BucketRecord
  <2>4. /\ Older(b.age, MaxAge) \in 0 .. MaxAge
        /\ Older(b.age, MaxAge) <= b.age + 1
    BY <1>1, <2>3, BumpFacts
  <2>5. PICK a \in Int : a = Older(b.age, MaxAge) /\ a <= b.age + 1
    BY <2>4
  <2>6. bucket'[store].tokens = b.tokens /\ bucket'[store].age = a
    BY <2>1, <2>2, <2>5 DEF ClockTick, BucketRecord
  <2>7. /\ Rate * a \in Int /\ Rate * b.age \in Int /\ Rate * a <= Rate * b.age + Rate
    <3>1. b.age + 1 \in Int
      BY <2>3
    <3>2. Rate * a <= Rate * (b.age + 1) /\ Rate * a \in Int
      BY <2>5, <3>1, Times
    <3>3. Rate * (b.age + 1) = Rate * b.age + Rate /\ Rate * b.age \in Int
      BY <2>3, Times
    <3> QED
      BY <3>2, <3>3
  <2>8. KeyCredit' = b.tokens + Rate * a
    BY <1>1, <1>3, <2>6 DEF KeyCredit, Credit
  <2>9. KeyCredit = b.tokens + Rate * b.age
    BY <1>3, <2>2, <2>3 DEF KeyCredit
  <2> QED
    BY <1>1, <2>3, <2>7, <2>8, <2>9
<1> QED
  BY <1>2, <1>3

LEMMA PaidTick ==
    ASSUME Sound, Sound', Paid, RateBound, ClockTick
    PROVE  Paid' /\ RateBound'
<1>1. /\ raced' = raced /\ BucketTypeOK
      /\ grants' = [a \in 0 .. Horizon |-> IF a = 0 THEN 0 ELSE grants[a - 1]]
  BY DEF ClockTick, sweepVars, Sound
<1>2. Horizon \in Nat /\ BurstSize \in Nat /\ Rate \in Nat /\ 0 \in 0 .. Horizon
  BY Numbers
<1>3. \A j \in 0 .. Horizon :
        /\ j = 0 => Granted(0, j)' = 0
        /\ j # 0 => Granted(0, j)' = Granted(0, j - 1)
  BY <1>1, <1>2, GrantedTick
<1>4. ASSUME ~raced', NEW j \in 0 .. Horizon, Granted(0, j)' > 0
      PROVE  Unit * Granted(0, j)' + KeyCredit' <= BurstSize + Rate * j
  <2>1. j # 0 /\ Granted(0, j)' = Granted(0, j - 1)
    BY <1>3, <1>4
  <2>2. PICK k \in 0 .. Horizon : k = j - 1 /\ j = k + 1 /\ k \in Int
    BY <1>2, <2>1
  <2>3. PICK c \in Int : c = Unit * Granted(0, k)
    <3>1. Granted(0, k) \in Nat
      BY <1>1, <1>2, GrantedFacts
    <3> QED
      BY <3>1, Cost
  <2>4. c + KeyCredit <= BurstSize + Rate * k
    BY <1>1, <1>4, <2>1, <2>2, <2>3 DEF Paid
  <2>5. Rate * k \in Int /\ Rate * j = Rate * k + Rate
    BY <2>2, Times
  <2>6. PICK w \in Int : w = Rate * k
    BY <2>5
  <2>7. KeyCredit' <= KeyCredit + Rate /\ KeyCredit \in Int /\ KeyCredit' \in Int
    BY CreditTick, KeyCredits
  <2>8. c + KeyCredit' <= BurstSize + (w + Rate)
    <3>1. c + KeyCredit <= BurstSize + w
      BY <2>4, <2>6
    <3>2. PICK p \in Int, q \in Int : p = KeyCredit /\ q = KeyCredit'
      BY <2>7
    <3>3. c + p <= BurstSize + w /\ q <= p + Rate
      BY <2>7, <3>1, <3>2
    <3>4. c + q <= BurstSize + (w + Rate)
      BY <1>2, <3>3
    <3> QED
      BY <3>2, <3>4
  <2> QED
    BY <2>1, <2>2, <2>3, <2>5, <2>6, <2>8
<1>5. ASSUME ~raced', NEW from \in 0 .. Horizon, NEW to \in from .. Horizon
      PROVE  Unit * Granted(from, to)' <= BurstSize + Rate * (to - from)
  <2>1. to \in 0 .. Horizon /\ from \in Int /\ to \in Int /\ from <= to
    BY <1>2
  <2>2. CASE to = 0
    <3>1. from = 0 /\ Granted(from, to)' = 0 /\ to - from = 0
      BY <1>3, <2>1, <2>2
    <3>2. Unit * 0 = 0 /\ Rate * 0 = 0
      BY Numbers
    <3> QED
      BY <1>2, <3>1, <3>2
  <2>3. CASE to # 0 /\ from = 0
    <3>1. PICK k \in 0 .. Horizon : k = to - 1 /\ k \in Int /\ to - from = (k - 0) + 1
      BY <1>2, <2>1, <2>3
    <3>2. Granted(from, to)' = Granted(0, k)
      BY <1>3, <2>1, <2>3, <3>1
    <3>3. PICK d \in Int : d = k - 0
      BY <3>1
    <3>4. Unit * Granted(0, k) <= BurstSize + Rate * d
      BY <1>1, <1>2, <1>5, <3>1, <3>3 DEF RateBound
    <3>5. Rate * d \in Int /\ Rate * (d + 1) = Rate * d + Rate
      BY <3>3, Times
    <3>6. Granted(0, k) \in Nat
      BY <1>1, <1>2, GrantedFacts
    <3>7. Unit * Granted(0, k) \in Int
      BY <3>6, Cost
    <3>8. Unit * Granted(0, k) <= BurstSize + Rate * (d + 1)
      BY <1>2, <3>4, <3>5, <3>7
    <3> QED
      BY <3>1, <3>2, <3>3, <3>8
  <2>4. CASE to # 0 /\ from # 0
    <3> DEFINE i == from - 1
               k == to - 1
    <3>1. i \in 0 .. Horizon /\ k \in i .. Horizon
      BY <1>2, <2>1, <2>4
    <3>2. k - i = to - from
      BY <2>1, <3>1
    <3>3. Granted(from, to)' = Granted(i, k)
      BY <1>1, <2>1, <2>4, GrantedTick
    <3> HIDE DEF i, k
    <3>4. Unit * Granted(i, k) <= BurstSize + Rate * (k - i)
      BY <1>1, <1>5, <3>1 DEF RateBound
    <3> QED
      BY <3>2, <3>3, <3>4
  <2> QED
    BY <2>2, <2>3, <2>4
<1> QED
  BY <1>4, <1>5 DEF Paid, RateBound

(* The key's credit pays for the grant, and what is left is dated at the   *)
(* reading.                                                                *)
LEMMA CreditSpend ==
    ASSUME Sound, NEW r \in Callers, NEW o \in Objects,
           NEW now \in 0 .. MaxDelay,
           NEW t \in Int, SpendsTo(r, o, now, t), ~raced
    PROVE  /\ KeyCredit = Credit(bucket[o])
           /\ t >= Unit => KeyCredit' = (t - Unit) + Rate * now
           /\ ~ (t >= Unit) => KeyCredit' = t + Rate * now
<1>1. o = store /\ store # None /\ store' = store
  <2>1. call[r].pc = "lock" /\ o = call[r].b /\ store' = store
    BY DEF SpendsTo
  <2> QED
    BY <2>1 DEF Sound, Together
<1>2. bucket \in [Objects -> BucketRecord]
  BY Types DEF Sound
<1>3. bucket'[o] = [tokens |-> IF t >= Unit THEN t - Unit ELSE t, age |-> now]
  BY <1>2 DEF SpendsTo
<1> QED
  BY <1>1, <1>3 DEF KeyCredit, Credit

LEMMA PaidGrant ==
    ASSUME RefillsInTime, Sound, Sound', Paid, RateBound,
           NEW r \in Callers, NEW o \in Objects, NEW now \in 0 .. MaxDelay,
           NEW t \in Int, SpendsTo(r, o, now, t), t >= Unit
    PROVE  Paid' /\ RateBound'
<1>1. /\ raced' = raced /\ grants' = [grants EXCEPT ![now] = @ + 1]
      /\ BucketTypeOK /\ BucketTypeOK'
  BY DEF SpendsTo, sweepVars, Sound
<1>2. /\ Horizon \in Nat /\ BurstSize \in Nat /\ Unit \in Nat /\ 0 \in 0 .. Horizon
      /\ now \in 0 .. Horizon /\ now \in Int
  BY Numbers
<1>3. \A i, j \in 0 .. Horizon :
         Granted(i, j)' = Granted(i, j) + (IF now \in i .. j THEN 1 ELSE 0)
  BY <1>1, <1>2, GrantedMore
<1>4. \A i, j \in 0 .. Horizon :
         /\ Granted(i, j) \in Nat /\ Granted(0, j) \in Nat
         /\ Granted(i, j) <= Granted(0, j)
  BY <1>1, GrantedFacts
<1>5. PICK n \in Int : n = Rate * now /\ n >= 0
  BY <1>2, Times
<1>6. SUFFICES ASSUME ~raced PROVE Paid' /\ RateBound'
  BY <1>1 DEF Paid, RateBound
<1>7. PICK p \in Int, q \in Int : p = KeyCredit /\ q = KeyCredit'
  BY KeyCredits
<1>8. t <= BurstSize /\ t + n <= p /\ q = (t - Unit) + n
  <2>1. /\ KeyCredit = Credit(bucket[o])
        /\ KeyCredit' = (t - Unit) + Rate * now
    BY <1>6, CreditSpend
  <2>2. t <= BurstSize /\ t + Rate * now <= Credit(bucket[o])
    BY DEF SpendsTo
  <2> QED
    BY <1>5, <1>7, <2>1, <2>2
<1>9. ASSUME NEW j \in 0 .. Horizon, Granted(0, j)' > 0
      PROVE  Unit * Granted(0, j)' + KeyCredit' <= BurstSize + Rate * j
  <2>1. PICK w \in Int : w = BurstSize + Rate * j
    BY Bound
  <2>2. PICK G \in Nat : G = Granted(0, j)
    BY <1>2, <1>4
  <2>3. PICK c \in Int : c = Unit * G /\ Unit * (G + 1) = c + Unit
    BY <2>2, Cost
  <2>4. G > 0 => c + p <= w
    BY <1>6, <1>7, <2>1, <2>2, <2>3 DEF Paid
  <2>5. CASE now <= j
    <3>1. Granted(0, j)' = G + 1
      <4>1. now \in 0 .. j
        BY <1>2, <2>5
      <4> QED
        BY <1>2, <1>3, <2>2, <4>1
    <3>2. CASE G > 0
      <4>1. (c + Unit) + q <= w
        BY <1>2, <1>8, <2>4, <3>2
      <4> QED
        BY <1>7, <2>1, <2>3, <3>1, <4>1
    <3>3. CASE G = 0
      <4>1. Rate * now <= Rate * j /\ Rate * j \in Int
        <5>1. j \in Int
          OBVIOUS
        <5> QED
          BY <1>2, <2>5, <5>1, Times
      <4>2. PICK v \in Int : v = Rate * j /\ n <= v
        BY <1>5, <4>1
      <4>3. c = 0 /\ w = BurstSize + v
        <5>1. Unit * 0 = 0
          BY <1>2
        <5> QED
          BY <2>1, <2>3, <3>3, <4>2, <5>1
      <4>4. (c + Unit) + q <= w
        BY <1>2, <1>8, <4>2, <4>3
      <4> QED
        BY <1>7, <2>1, <2>3, <3>1, <4>4
    <3> QED
      BY <3>2, <3>3
  <2>6. CASE ~ (now <= j)
    <3>1. Granted(0, j)' = G
      <4>1. now \notin 0 .. j
        BY <1>2, <2>6
      <4> QED
        BY <1>2, <1>3, <2>2, <4>1
    <3>2. c + q <= w
      BY <1>2, <1>8, <1>9, <2>4, <3>1
    <3> QED
      BY <1>7, <2>1, <2>3, <3>1, <3>2
  <2> QED
    BY <2>5, <2>6
<1>10. ASSUME NEW from \in 0 .. Horizon, NEW to \in from .. Horizon
       PROVE  Unit * Granted(from, to)' <= BurstSize + Rate * (to - from)
  <2>1. to \in 0 .. Horizon
    BY <1>2
  <2>2. CASE now \in from .. to
    <3>1. PICK w \in Int, f \in Int : /\ w = BurstSize + Rate * to /\ f = Rate * from
                                     /\ BurstSize + Rate * (to - from) = w - f
      BY <2>1, Bound
    <3>2. f <= n
      <4>1. from \in Int /\ from <= now
        BY <2>2
      <4> QED
        BY <1>2, <1>5, <3>1, <4>1, Times
    <3>3. PICK G \in Nat : G = Granted(0, to)'
      <4>1. Granted(0, to)' \in Nat
        BY <1>2, <1>3, <1>4, <2>1
      <4> QED
        BY <4>1
    <3>4. PICK H \in Nat : H = Granted(from, to)' /\ H <= G /\ G > 0
      <4>1. Granted(from, to)' = Granted(from, to) + 1
        BY <1>3, <2>1, <2>2
      <4>2. Granted(0, to)' = Granted(0, to) + 1
        <5>1. now \in 0 .. to
          BY <2>2
        <5> QED
          BY <1>2, <1>3, <2>1, <5>1
      <4>3. PICK a \in Nat, b \in Nat :
               a = Granted(from, to) /\ b = Granted(0, to) /\ a <= b
        BY <1>4, <2>1
      <4> QED
        BY <3>3, <4>1, <4>2, <4>3
    <3>5. PICK c \in Int, d \in Int : c = Unit * G /\ d = Unit * H /\ d <= c
      BY <3>4, Cost
    <3>6. c + q <= w
      BY <1>7, <1>9, <2>1, <3>1, <3>3, <3>4, <3>5
    <3>7. q >= n
      BY <1>2, <1>8
    <3>8. d <= w - f
      BY <3>2, <3>5, <3>6, <3>7
    <3> QED
      BY <3>1, <3>4, <3>5, <3>8
  <2>3. CASE now \notin from .. to
    <3>1. Granted(from, to)' = Granted(from, to)
      <4>1. PICK a \in Nat : a = Granted(from, to)
        BY <1>4, <2>1
      <4> QED
        BY <1>3, <2>1, <2>3, <4>1
    <3> QED
      BY <1>6, <3>1 DEF RateBound
  <2> QED
    BY <2>2, <2>3
<1> QED
  BY <1>9, <1>10 DEF Paid, RateBound

LEMMA PaidSpend ==
    ASSUME RefillsInTime, Sound, Sound', Paid, RateBound,
           NEW r \in Callers, Spend(r)
    PROVE  Paid' /\ RateBound'
<1>1. PICK o \in Objects, now \in 0 .. MaxDelay, t \in Int : SpendsTo(r, o, now, t)
  BY SpendFacts
<1>2. CASE t >= Unit
  BY <1>1, <1>2, PaidGrant
<1>3. CASE ~ (t >= Unit)
  <2>1. grants' = grants /\ raced' = raced
    BY <1>1, <1>3 DEF SpendsTo, sweepVars
  <2>2. ASSUME ~raced PROVE KeyCredit' <= KeyCredit
    <3>1. KeyCredit = Credit(bucket[o]) /\ KeyCredit' = t + Rate * now
      BY <1>1, <1>3, <2>2, CreditSpend
    <3> QED
      BY <1>1, <3>1 DEF SpendsTo
  <2> QED
    BY <2>1, <2>2, StillPaid
<1> QED
  BY <1>2, <1>3

LEMMA PaidNext ==
    ASSUME RefillsInTime, Sound, Sound', Paid, RateBound,
           [BucketNext]_bucketVars
    PROVE  Paid' /\ RateBound'
<1>1. KeyCredit \in Int
  BY KeyCredits
<1>2. ASSUME UNCHANGED <<store, bucket, raced, grants>> PROVE Paid' /\ RateBound'
  <2>1. KeyCredit' = KeyCredit
    BY <1>2 DEF KeyCredit
  <2>2. grants' = grants /\ raced' = raced
    BY <1>2
  <2> QED
    BY <1>1, <2>1, <2>2, StillPaid
<1>3. ASSUME NEW r \in Callers, ReadClock(r) PROVE Paid' /\ RateBound'
  BY <1>2, <1>3 DEF ReadClock, sweepVars
<1>4. CASE \E r \in Callers : ReadClock(r) \/ InAllow(r)
  BY <1>3, <1>4, PaidLoad, PaidSpend DEF InAllow
<1>5. CASE SweepDelete
  BY <1>5, PaidSweepDelete
<1>6. CASE SweepCheck \/ Close \/ SweeperStops
  BY <1>2, <1>6 DEF SweepCheck, Close, SweeperStops
<1>7. CASE ClockTick
  BY <1>7, PaidTick
<1>8. CASE UNCHANGED bucketVars
  BY <1>2, <1>8 DEF bucketVars
<1> QED
  BY <1>4, <1>5, <1>6, <1>7, <1>8 DEF BucketNext

(* The limit: requests that read the clock within any n ticks get no more  *)
(* than the burst and n ticks of refill, for every number of goroutines,   *)
(* every rate and every delay between the steps of a call, provided the    *)
(* time after which an entry is evicted is long enough to refill it, and   *)
(* unless a sweep has deleted a bucket in use.                             *)
THEOREM BucketLimits ==
    ASSUME RefillsInTime
    PROVE  BucketSpec => []RateBound
<1> DEFINE I == Sound /\ Paid /\ RateBound
<1>1. BucketInit => I
  BY SoundInit, PaidInit
<1>2. I /\ [BucketNext]_bucketVars => I'
  BY SoundNext, PaidNext
<1>3. I => RateBound
  OBVIOUS
<1> QED
  BY <1>1, <1>2, <1>3, PTL DEF BucketSpec
=============================================================================
