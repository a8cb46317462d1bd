--------------------------- MODULE BalancersProofs ---------------------------
(***************************************************************************)
(* What Balancers promises, for any number of requests, instances, picks   *)
(* and any size of the counter: the load an object shows is the load it    *)
(* has, lost updates never hide an outcome altogether, and round robin is  *)
(* even.                                                                   *)
(***************************************************************************)
EXTENDS Balancers, Sums

(* What a goroutine has done by the time it is at a step.                  *)
Shaped(q) ==
    /\ q.pc = "idle" => q = Idle
    /\ q.pc \in {"pick", "score", "wheel"} => q.inst = None /\ q.eligible \in Lists
    /\ q.pc = "pick" => q.scores = <<>>
    /\ q.pc = "wheel" => Len(q.scores) = Len(q.eligible)
    /\ q.pc \in {"score", "insert"} /\ q.inst = None =>
          q.eligible \in Lists /\ Len(q.scores) < Len(q.eligible)
    /\ q.pc \in {"start", "calling", "latency", "errors"} => q.inst # None

(* Its object exists, is the map's where the map cannot lose it, and is no *)
(* other instance's.  What it read of an object that recorded no failure   *)
(* shows none.                                                             *)
Placed(r) ==
    /\ req[r].pc \in {"calling", "latency", "errors"} => req[r].obj \in 1 .. Len(heap)
    /\ req[r].pc = "insert" => Wanted(r) \notin known
    /\ req[r].pc = "calling" =>
          \A i \in known : req[r].inst = i <=> req[r].obj = states[i]
    /\ req[r].pc = "errors" =>
          /\ req[r].old \in 0 .. Scale
          /\ TRUE \notin heap[req[r].obj].outcomes => req[r].old = 0

(* The instances New was given keep an object, and no two share one.       *)
Mapped ==
    /\ \A i \in known : states[i] # None
    /\ \A i, j \in Instances : states[i] = states[j] /\ states[i] # None => i = j

(* The error average of an object with these outcomes.                     *)
Shows(s) ==
    /\ TRUE \notin s.outcomes => s.errors = 0
    /\ s.outcomes = {TRUE} => s.errors >= Ewma(ErrorAlpha, Scale, 0)

(* Position p has been served in the round that began at s and is at m.    *)
Served(s, m, p) == IF (IF s <= m THEN s <= p /\ p < m ELSE s <= p \/ p < m) THEN 1 ELSE 0

(* Numbers of picks x of n positions, in a round that began at s and is at *)
(* m: who was served in it is one ahead.                                   *)
Ahead(x, n, s, m, w) ==
    \A p, q \in 0 .. n - 1 : x[p] + Served(s, m, q) <= x[q] + Served(s, m, p) + w

(* The picks from the window's list stand in a round, at the position the  *)
(* counter names.                                                          *)
Round(s) ==
    LET list == window.list
    IN Ahead([p \in 0 .. Len(list) - 1 |-> window.count[list[p + 1]]],
             Len(list), s, counter % Len(list), window.wraps)

InRound == window.list # <<>> => \E s \in 0 .. Len(window.list) - 1 : Round(s)

(* The objects show the calls made on them and their outcomes.             *)
Objects ==
    \A o \in 1 .. Len(heap) :
        heap[o].inflight = Cardinality(CallsOn(o)) /\ Shows(heap[o])

(* What there is to know of the smart balancer, and of the other two.      *)
SmartInv ==
    /\ known \in SUBSET Instances
    /\ heap \in Seq(InstanceState)
    /\ states \in [Instances -> 0 .. Len(heap)]
    /\ req \in [Requests -> RequestRecord]
    /\ \A r \in Requests : Shaped(req[r]) /\ Placed(r)
    /\ Mapped
    /\ Objects

RobinInv ==
    /\ strategy \in {"round_robin", "random", "smart"}
    /\ counter \in 0 .. CounterSize - 1
    /\ picks \in Nat
    /\ window \in [list : {<<>>} \cup Lists, count : [Instances -> Nat], wraps : Nat]
    /\ InRound

Inv == SmartInv /\ RobinInv

-----------------------------------------------------------------------------
(* The constants, and what they are to the provers.                        *)

LEMMA Constants ==
    /\ N \in Nat /\ N > 0 /\ Scale \in Nat /\ Scale > 0
    /\ CounterSize \in Nat /\ CounterSize > 0
    /\ MaxLatency \in Nat /\ MaxLatency > 0
    /\ MaxConcurrent \in Nat /\ MaxConcurrent > 0
    /\ MinScore \in Nat /\ MinScore > 0
    /\ InitialLatency \in Nat /\ Latencies \subseteq Nat
    /\ LatencyAlpha \in 1 .. Scale /\ ErrorAlpha \in 1 .. Scale
    /\ Weights.latency \in Nat /\ Weights.errors \in Nat /\ Weights.load \in Nat
  BY BalancersAssumption

(* The larger of two numbers.                                              *)
LEMMA Larger ==
    ASSUME NEW a \in Int, NEW b \in Int
    PROVE  Max({a, b}) = IF a >= b THEN a ELSE b
  BY DEF Max

-----------------------------------------------------------------------------
(* Scores, the wheel and the averages stay in their ranges.                *)

LEMMA LeftType ==
    ASSUME NEW used \in Int, NEW limit \in Nat, limit > 0
    PROVE  Left(used, limit) \in Nat
<1> DEFINE share == (Scale * (limit - used)) \div limit
<1>1. Scale * (limit - used) \in Int
  BY Constants
<1>2. share \in Int
  BY <1>1
<1> HIDE DEF share
<1>3. Max({0, share}) \in Nat
  BY <1>2, Larger
<1> QED
  BY <1>3 DEF Left, share

LEMMA RawScoreType ==
    ASSUME NEW s \in InstanceState
    PROVE  RawScore(s) \in Nat
<1>1. s.latency \in Int /\ s.errors \in Int /\ s.inflight \in Int
  BY DEF InstanceState
<1>2. /\ Left(s.latency, MaxLatency) \in Nat
      /\ Left(s.errors, Scale) \in Nat
      /\ Left(s.inflight, MaxConcurrent) \in Nat
  BY <1>1, LeftType, Constants
<1>3. \A a, b \in Nat : a * b \in Nat
  OBVIOUS
<1> DEFINE x == Weights.latency * Left(s.latency, MaxLatency)
           y == Weights.errors * Left(s.errors, Scale)
           z == Weights.load * Left(s.inflight, MaxConcurrent)
<1>4. x \in Nat /\ y \in Nat /\ z \in Nat
  BY <1>2, <1>3, Constants, Zenon
<1>5. RawScore(s) = x + y + z
  BY DEF RawScore
<1> HIDE DEF x, y, z
<1> QED
  BY <1>4, <1>5

LEMMA ScoreType ==
    ASSUME NEW s \in InstanceState
    PROVE  Score(s) \in Nat /\ Score(s) >= MinScore
  BY RawScoreType, Larger, Constants DEF Score

(* The wheel stops at one of the positions.                                *)
LEMMA WheelStops ==
    ASSUME NEW scores, Len(scores) \in Nat, Len(scores) > 0, NEW target
    PROVE  Wheel(scores, target) \in 1 .. Len(scores)
<1> DEFINE hits == {k \in 1 .. Len(scores) : Sum(scores, k) >= target}
<1>1. hits \in SUBSET Nat /\ hits \subseteq 1 .. Len(scores)
  OBVIOUS
<1>2. Wheel(scores, target) = IF hits = {} THEN Len(scores) ELSE Min(hits)
  BY DEF Wheel
<1> HIDE DEF hits
<1>3. CASE hits = {}
  BY <1>2, <1>3
<1>4. CASE hits # {}
  <2>1. Min(hits) \in hits
    BY <1>1, <1>4, Least
  <2> QED
    BY <1>1, <1>2, <1>4, <2>1
<1> QED
  BY <1>3, <1>4

(* Division: what lies between two multiples.                              *)
LEMMA Between ==
    ASSUME NEW x \in Int, NEW d \in Nat, d > 0, NEW k \in Int
    PROVE  /\ x \div d \in Int
           /\ x >= d * k => x \div d >= k
           /\ x < d * (k + 1) => x \div d <= k
<1>1. x \div d \in Int /\ d * (x \div d) <= x /\ x < d * (x \div d) + d
  BY Z3
<1> DEFINE e == x \div d
<1>2. e \in Int /\ d * e <= x /\ x < d * e + d
  BY <1>1
<1> HIDE DEF e
<1>3. ASSUME x >= d * k, e < k PROVE FALSE
  <2>1. e + 1 <= k
    BY <1>2, <1>3
  <2>2. d * (e + 1) <= d * k
    BY <2>1, <1>2, Z3
  <2>3. d * (e + 1) = d * e + d
    BY <1>2
  <2> QED
    BY <2>2, <2>3, <1>2, <1>3
<1>4. ASSUME x < d * (k + 1), e > k PROVE FALSE
  <2>1. k + 1 <= e
    BY <1>2, <1>4
  <2>2. d * (k + 1) <= d * e
    BY <2>1, <1>2, Z3
  <2> QED
    BY <2>2, <1>2, <1>4
<1>5. x \div d = e
  BY DEF e
<1> QED
  BY <1>2, <1>3, <1>4, <1>5

(* An average of two error rates is one; a failure shows at least its own  *)
(* weight, and where nothing failed nothing shows.                         *)
LEMMA EwmaRate ==
    ASSUME NEW alpha \in 1 .. Scale, NEW sample \in {0, Scale}, NEW old \in 0 .. Scale
    PROVE  /\ Ewma(alpha, sample, old) \in 0 .. Scale
           /\ Ewma(alpha, Scale, old) >= Ewma(alpha, Scale, 0)
           /\ Ewma(alpha, 0, 0) = 0
<1> DEFINE half == Scale \div 2
           rest == (Scale - alpha) * old
           part == alpha * sample
           x == part + rest + half
<1>1. half \in Nat /\ half < Scale
  BY Constants, Z3
<1>2. rest \in Nat /\ rest <= (Scale - alpha) * Scale
  BY Constants, Z3
<1>3. part \in Nat /\ part <= alpha * Scale
  BY Constants, Z3
<1>4. (Scale - alpha) * Scale + alpha * Scale = Scale * Scale
  BY Constants, Z3
<1>5. (Scale - alpha) * Scale \in Nat /\ alpha * Scale \in Nat /\ Scale * Scale \in Nat
  BY Constants, Z3
<1>6. Scale * (Scale + 1) = Scale * Scale + Scale /\ Scale * 0 = 0
  BY Constants, Z3
<1>7. Ewma(alpha, sample, old) = x \div Scale
  BY DEF Ewma
<1>8. x \in Nat /\ x < Scale * (Scale + 1) /\ x >= Scale * 0
  <2> HIDE DEF half, rest, part
  <2> DEFINE a == (Scale - alpha) * Scale  b == alpha * Scale  c == Scale * Scale
             d == Scale * (Scale + 1)  e == Scale * 0
  <2>1. a \in Nat /\ b \in Nat /\ c \in Nat /\ a + b = c /\ d = c + Scale /\ e = 0
    BY <1>4, <1>5, <1>6
  <2>2. rest <= a /\ part <= b
    BY <1>2, <1>3
  <2> HIDE DEF a, b, c, d, e
  <2>3. x \in Nat /\ x < d /\ x >= e
    BY <1>1, <1>2, <1>3, <2>1, <2>2, Constants
  <2> QED
    BY <2>3 DEF d, e
<1>9. Ewma(alpha, sample, old) \in 0 .. Scale
  <2> HIDE DEF x
  <2> QED
    BY <1>7, <1>8, Between, Constants
<1>10. Ewma(alpha, 0, 0) = 0
  <2>1. Ewma(alpha, 0, 0) = half \div Scale
    BY Constants DEF Ewma
  <2> HIDE DEF half
  <2> QED
    BY <1>1, <1>6, <2>1, Between, Constants
<1>11. Ewma(alpha, Scale, old) >= Ewma(alpha, Scale, 0)
  <2> DEFINE y == alpha * Scale + half
             z == alpha * Scale + rest + half
             k == y \div Scale
  <2>1. Ewma(alpha, Scale, 0) = k /\ Ewma(alpha, Scale, old) = z \div Scale
    BY Constants DEF Ewma
  <2>2. y \in Nat /\ z \in Nat /\ y <= z
    <3> HIDE DEF half, rest
    <3> QED
      BY <1>1, <1>2, <1>5
  <2> HIDE DEF y, z
  <2>3. k \in Int /\ Scale * k <= y
    BY <2>2, Constants, Z3
  <2> HIDE DEF k
  <2>4. Scale * k \in Int
    BY <2>3, Constants
  <2>5. z >= Scale * k
    BY <2>2, <2>3, <2>4
  <2> QED
    BY <2>1, <2>2, <2>3, <2>5, Between, Constants
<1> QED
  BY <1>9, <1>10, <1>11

LEMMA EwmaNat ==
    ASSUME NEW alpha \in 1 .. Scale, NEW sample \in Nat, NEW old \in Nat
    PROVE  Ewma(alpha, sample, old) \in Nat
<1> DEFINE x == alpha * sample + (Scale - alpha) * old + Scale \div 2
<1>1. alpha * sample \in Nat /\ (Scale - alpha) * old \in Nat /\ Scale \div 2 \in Nat
  BY Constants, Z3
<1>2. x \in Nat
  BY <1>1
<1>3. Ewma(alpha, sample, old) = x \div Scale
  BY DEF Ewma
<1> HIDE DEF x
<1>4. x >= Scale * 0
  BY <1>2, Constants
<1> QED
  BY <1>2, <1>3, <1>4, Between, Constants

-----------------------------------------------------------------------------
(* Lists and rounds.                                                       *)

LEMMA ListFacts ==
    ASSUME NEW list \in Lists
    PROVE  /\ Len(list) \in Nat /\ Len(list) > 0 /\ list # <<>>
           /\ DOMAIN list = 1 .. Len(list)
           /\ \A k \in 1 .. Len(list) : list[k] \in Instances
           /\ \A j, k \in 1 .. Len(list) : list[j] = list[k] => j = k
<1>1. PICK m \in 0 .. N : list \in [1 .. m -> Instances]
  BY DEF Lists, SeqOf
<1>2. list # <<>> /\ \A j, k \in DOMAIN list : j < k => list[j] < list[k]
  BY DEF Lists
<1>3. m \in Nat /\ list \in Seq(Instances) /\ Len(list) = m
  BY <1>1, Constants
<1>4. m > 0
  BY <1>2, <1>3
<1>5. \A k \in 1 .. m : list[k] \in Int
  BY <1>1, Constants DEF Instances
<1> QED
  BY <1>1, <1>2, <1>3, <1>4, <1>5

(* Advancing the counter, and taking its old value back.                   *)
LEMMA Advance ==
    ASSUME NEW c \in 0 .. CounterSize - 1
    PROVE  /\ (c + 1) % CounterSize = IF c + 1 = CounterSize THEN 0 ELSE c + 1
           /\ (((c + 1) % CounterSize) - 1) % CounterSize = c
<1>1. CASE c + 1 = CounterSize
  <2>1. (c + 1) % CounterSize = 0
    BY <1>1, Constants, Z3
  <2>2. (0 - 1) % CounterSize = CounterSize - 1
    BY Constants, Z3
  <2> QED
    BY <1>1, <2>1, <2>2, Constants
<1>2. CASE c + 1 # CounterSize
  <2>1. (c + 1) % CounterSize = c + 1
    BY <1>2, Constants, Z3
  <2>2. c % CounterSize = c
    BY Constants, Z3
  <2> QED
    BY <1>2, <2>1, <2>2, Constants
<1> QED
  BY <1>1, <1>2

(* The position after m.                                                   *)
After(m, n) == IF m + 1 = n THEN 0 ELSE m + 1

LEMMA NextPosition ==
    ASSUME NEW c \in Nat, NEW n \in Nat, n > 0
    PROVE  /\ c % n \in 0 .. n - 1
           /\ (c + 1) % n = After(c % n, n)
<1> DEFINE k == c \div n  m == c % n
<1>1. k \in Nat /\ m \in Nat /\ m < n /\ c = n * k + m
  BY Z3
<1>2. \A d \in Nat, a \in Nat : a < n => (n * d + a) % n = a
  BY Z3
<1> HIDE DEF k, m
<1>3. CASE m + 1 = n
  <2>1. c + 1 = n * (k + 1) + 0 /\ k + 1 \in Nat
    BY <1>1, <1>3, Z3
  <2>2. (n * (k + 1) + 0) % n = 0
    BY <1>2, <2>1
  <2> QED
    BY <1>1, <1>3, <2>1, <2>2 DEF m, After
<1>4. CASE m + 1 # n
  <2>1. c + 1 = n * k + (m + 1) /\ m + 1 \in Nat /\ m + 1 < n
    BY <1>1, <1>4
  <2>2. (n * k + (m + 1)) % n = m + 1
    BY <1>1, <1>2, <2>1
  <2> QED
    BY <1>1, <1>4, <2>1, <2>2 DEF m, After
<1> QED
  BY <1>3, <1>4

(* Who has been served after one more position: all, and the round begins  *)
(* anew, or those before and that position.                                *)
LEMMA ServedNext ==
    ASSUME NEW n \in Nat, n > 0, NEW s \in 0 .. n - 1, NEW m \in 0 .. n - 1,
           NEW p \in 0 .. n - 1
    PROVE  /\ Served(s, m, p) \in {0, 1} /\ Served(s, After(m, n), p) \in {0, 1}
           /\ Served(s, m, m) = 0
           /\ After(m, n) # s => Served(s, After(m, n), p) = IF p = m THEN 1 ELSE Served(s, m, p)
           /\ After(m, n) = s => Served(s, After(m, n), p) = 0 /\ (p # m => Served(s, m, p) = 1)
<1> DEFINE next == After(m, n)
<1>1. s \in Int /\ m \in Int /\ p \in Int /\ next \in Int
  BY DEF After
<1>2. CASE m + 1 = n
  <2>1. next = 0
    BY <1>2 DEF After
  <2> QED
    BY <1>1, <1>2, <2>1 DEF Served
<1>3. CASE m + 1 # n
  <2>1. next = m + 1
    BY <1>3 DEF After
  <2>2. CASE s <= m
    BY <1>1, <2>1, <2>2 DEF Served
  <2>3. CASE s > m
    BY <1>1, <2>1, <2>3 DEF Served
  <2> QED
    BY <1>1, <2>2, <2>3
<1> QED
  BY <1>2, <1>3

(* One more at i.                                                          *)
Plus(x, i) == [x EXCEPT ![i] = @ + 1]

(* Serving the position a round is at.                                     *)
LEMMA ServeNext ==
    ASSUME NEW n \in Nat, n > 0, NEW s \in 0 .. n - 1, NEW m \in 0 .. n - 1,
           NEW x \in [0 .. n - 1 -> Nat], NEW w \in Nat, Ahead(x, n, s, m, w)
    PROVE  /\ Ahead(Plus(x, m), n, s, After(m, n), w)
           /\ Ahead(Plus(x, m), n, 0, 0, w + 1)
<1> DEFINE next == After(m, n)
           y == Plus(x, m)
<1> HIDE DEF next, y
<1> SUFFICES ASSUME NEW p \in 0 .. n - 1, NEW q \in 0 .. n - 1
             PROVE  /\ y[p] + Served(s, next, q) <= y[q] + Served(s, next, p) + w
                    /\ y[p] + Served(0, 0, q) <= y[q] + Served(0, 0, p) + (w + 1)
  BY DEF Ahead, next, y
<1>1. /\ x[p] \in Nat /\ x[q] \in Nat
      /\ y[p] = IF p = m THEN x[p] + 1 ELSE x[p]
      /\ y[q] = IF q = m THEN x[q] + 1 ELSE x[q]
  BY DEF y, Plus
<1>2. x[p] + Served(s, m, q) <= x[q] + Served(s, m, p) + w
  BY DEF Ahead
<1> DEFINE a == x[p]  b == x[q]  c == y[p]  d == y[q]
<1>3. /\ a \in Nat /\ b \in Nat
      /\ c = (IF p = m THEN a + 1 ELSE a) /\ d = (IF q = m THEN b + 1 ELSE b)
      /\ p = q => a = b
      /\ a + Served(s, m, q) <= b + Served(s, m, p) + w
  BY <1>1, <1>2
<1> HIDE DEF a, b, c, d
<1>4. c + Served(s, next, q) <= d + Served(s, next, p) + w
  <2> DEFINE P(t) == /\ Served(s, m, t) \in {0, 1} /\ Served(s, next, t) \in {0, 1}
                     /\ next # s => Served(s, next, t) = IF t = m THEN 1 ELSE Served(s, m, t)
                     /\ next = s => Served(s, next, t) = 0 /\ (t # m => Served(s, m, t) = 1)
  <2>1. /\ Served(s, m, m) = 0
        /\ P(p)
        /\ P(q)
    BY ServedNext DEF next
  <2> DEFINE e == Served(s, m, p)  f == Served(s, m, q)
             g == Served(s, next, p)  h == Served(s, next, q)
  <2>2. /\ e \in {0, 1} /\ f \in {0, 1} /\ g \in {0, 1} /\ h \in {0, 1}
        /\ p = m => e = 0
        /\ q = m => f = 0
        /\ next # s => g = (IF p = m THEN 1 ELSE e) /\ h = (IF q = m THEN 1 ELSE f)
        /\ next = s => g = 0 /\ h = 0 /\ (p # m => e = 1) /\ (q # m => f = 1)
        /\ a + f <= b + e + w
    BY <1>3, <2>1
  <2> HIDE DEF e, f, g, h
  <2>3. c + h <= d + g + w
    BY <1>3, <2>2
  <2> QED
    BY <2>3 DEF g, h
<1>5. c + Served(0, 0, q) <= d + Served(0, 0, p) + (w + 1)
  BY <1>3 DEF Served
<1> QED
  BY <1>4, <1>5 DEF c, d

-----------------------------------------------------------------------------
(* What one goroutine's step does to the rest.                             *)

(* The calls on an object after the step of r that leaves it at q.         *)
LEMMA CallsAfter ==
    ASSUME req \in [Requests -> RequestRecord], NEW r \in Requests, NEW q,
           req' = [req EXCEPT ![r] = q], NEW o
    PROVE  CallsOn(o)' = (CallsOn(o) \ {r})
                           \cup (IF q.pc = "calling" /\ q.obj = o THEN {r} ELSE {})
  BY DEF CallsOn

LEMMA CallsFinite ==
    ASSUME NEW o
    PROVE  IsFiniteSet(CallsOn(o)) /\ Cardinality(CallsOn(o)) \in Nat
<1>1. CallsOn(o) \subseteq Requests
  BY DEF CallsOn
<1> QED
  BY <1>1, BalancersAssumption, FS_Subset, FS_CardinalityType

(* A step of r on the map and the objects that forgets no failure and      *)
(* moves no instance New was given keeps every other goroutine in place.   *)
LEMMA OneMoves ==
    ASSUME SmartInv, NEW r \in Requests, NEW q \in RequestRecord,
           req' = [req EXCEPT ![r] = q], known' = known,
           heap' \in Seq(InstanceState), Len(heap') >= Len(heap),
           \A o \in 1 .. Len(heap) :
              TRUE \notin heap'[o].outcomes => TRUE \notin heap[o].outcomes,
           \A i \in known : states'[i] = states[i],
           Shaped(q), Placed(r)'
    PROVE  /\ req' \in [Requests -> RequestRecord]
           /\ \A t \in Requests : (Shaped(req[t]) /\ Placed(t))'
<1>1. req \in [Requests -> RequestRecord] /\ heap \in Seq(InstanceState)
  BY DEF SmartInv
<1>2. req' \in [Requests -> RequestRecord] /\ req'[r] = q
  BY <1>1
<1>3. Len(heap) \in Nat /\ Len(heap') \in Nat
  BY <1>1
<1>4. ASSUME NEW t \in Requests, t # r
      PROVE  Shaped(req'[t]) /\ Placed(t)'
  <2>1. req'[t] = req[t]
    BY <1>1, <1>4
  <2>2. Shaped(req[t]) /\ Placed(t)
    BY DEF SmartInv
  <2>3. Wanted(t)' = Wanted(t)
    BY <2>1 DEF Wanted
  <2>4. req[t].pc \in {"calling", "latency", "errors"} => req[t].obj \in 1 .. Len(heap')
    BY <1>3, <2>2 DEF Placed
  <2>5. req[t].pc = "errors" =>
           /\ req[t].old \in 0 .. Scale
           /\ TRUE \notin heap'[req[t].obj].outcomes => req[t].old = 0
    BY <2>2 DEF Placed
  <2>6. Placed(t)'
    <3>1. req[t].pc = "insert" => Wanted(t)' \notin known'
      BY <2>2, <2>3 DEF Placed
    <3>2. req[t].pc = "calling" =>
             \A i \in known' : req[t].inst = i <=> req[t].obj = states'[i]
      BY <2>2 DEF Placed
    <3> QED
      BY <2>1, <2>4, <2>5, <3>1, <3>2, ZenonT(60) DEF Placed
  <2> QED
    BY <2>1, <2>2, <2>6
<1> QED
  BY <1>2, <1>4

(* A step that leaves map and objects alone, of a goroutine that is not in *)
(* a call and enters none.                                                 *)
LEMMA QuietMove ==
    ASSUME SmartInv, NEW r \in Requests, NEW q \in RequestRecord,
           req' = [req EXCEPT ![r] = q], UNCHANGED <<known, states, heap>>,
           req[r].pc # "calling", q.pc \notin {"calling", "latency", "errors"},
           q.pc = "insert" => Wanted(r)' \notin known,
           Shaped(q)
    PROVE  SmartInv'
<1>1. req \in [Requests -> RequestRecord] /\ heap \in Seq(InstanceState)
  BY DEF SmartInv
<1>2. req'[r] = q
  BY <1>1
<1>3. Placed(r)'
  BY <1>2 DEF Placed
<1>4. /\ req' \in [Requests -> RequestRecord]
      /\ \A t \in Requests : (Shaped(req[t]) /\ Placed(t))'
  <2>1. heap' \in Seq(InstanceState) /\ Len(heap') >= Len(heap)
    BY <1>1
  <2>2. \A o \in 1 .. Len(heap) :
           TRUE \notin heap'[o].outcomes => TRUE \notin heap[o].outcomes
    OBVIOUS
  <2>3. \A i \in known : states'[i] = states[i]
    OBVIOUS
  <2> QED
    BY <1>3, <2>1, <2>2, <2>3, OneMoves
<1>5. \A o : CallsOn(o)' = CallsOn(o)
  BY <1>1, <1>2 DEF CallsOn
<1>6. Mapped'
  BY DEF SmartInv, Mapped
<1>7. Objects'
  BY <1>5 DEF SmartInv, Objects
<1> QED
  BY <1>4, <1>6, <1>7 DEF SmartInv

-----------------------------------------------------------------------------
(* The steps that choose an instance.                                      *)

LEMMA IdleFacts ==
    /\ Idle \in RequestRecord /\ Idle.pc = "idle" /\ Shaped(Idle)
    /\ Idle.inst = None /\ Idle.scores = <<>>
  BY Constants DEF Idle, RequestRecord, Shaped, None

(* What is known of the goroutine that steps.                              *)
LEMMA Before ==
    ASSUME SmartInv, NEW r \in Requests
    PROVE  /\ req[r] \in RequestRecord /\ Shaped(req[r]) /\ Placed(r)
           /\ req \in [Requests -> RequestRecord]
  BY DEF SmartInv

LEMMA FilterKeeps ==
    ASSUME SmartInv, NEW r \in Requests, NEW list \in Lists, Filter(r, list)
    PROVE  SmartInv'
<1> DEFINE q == [req[r] EXCEPT !.pc = "pick", !.eligible = list]
<1>1. req' = [req EXCEPT ![r] = q] /\ req[r].pc = "idle"
  BY Before DEF Filter
<1>2. q = [Idle EXCEPT !.pc = "pick", !.eligible = list]
  BY <1>1, Before DEF Shaped
<1>3. /\ q \in RequestRecord /\ q.pc = "pick" /\ q.eligible = list
      /\ q.inst = None /\ q.scores = <<>>
  BY <1>2, IdleFacts DEF RequestRecord, Idle
<1> HIDE DEF q
<1>4. Shaped(q)
  BY <1>3 DEF Shaped
<1> QED
  BY <1>1, <1>3, <1>4, QuietMove DEF Filter, smart

LEMMA PickKeeps ==
    ASSUME SmartInv, NEW r \in Requests, PickRoundRobin(r) \/ PickRandom(r)
    PROVE  SmartInv'
<1>1. /\ req' = [req EXCEPT ![r] = Idle] /\ req[r].pc = "pick"
      /\ UNCHANGED <<known, states, heap>>
  BY DEF PickRoundRobin, PickRandom, smart
<1> QED
  BY <1>1, IdleFacts, QuietMove

(* A pick is made of instance i.                                           *)
LEMMA StartKeeps ==
    ASSUME SmartInv, NEW r \in Requests, NEW i \in Instances,
           req[r].pc \in {"pick", "wheel"}, UNCHANGED <<known, states, heap>>,
           req' = [req EXCEPT ![r] = [Idle EXCEPT !.pc = "start", !.inst = i]]
    PROVE  SmartInv'
<1> DEFINE q == [Idle EXCEPT !.pc = "start", !.inst = i]
<1>1. i \in 0 .. N /\ i # None
  BY Constants DEF Instances, None
<1>2. q \in RequestRecord /\ q.pc = "start" /\ q.inst = i
  BY <1>1, IdleFacts DEF RequestRecord, Idle
<1> HIDE DEF q
<1>3. Shaped(q)
  BY <1>1, <1>2 DEF Shaped
<1>4. req' = [req EXCEPT ![r] = q]
  BY DEF q
<1> QED
  BY <1>2, <1>3, <1>4, QuietMove

LEMMA ExploreKeeps ==
    ASSUME SmartInv, NEW r \in Requests, NEW i \in Instances, Explore(r, i)
    PROVE  SmartInv'
  BY StartKeeps DEF Explore, smart

LEMMA SpinKeeps ==
    ASSUME SmartInv, NEW r \in Requests, NEW target, Spin(r, target)
    PROVE  SmartInv'
<1> DEFINE k == Wheel(req[r].scores, target)
<1>1. /\ req[r].pc = "wheel" /\ UNCHANGED <<known, states, heap>>
      /\ req' = [req EXCEPT ![r] = [Idle EXCEPT !.pc = "start",
                                                !.inst = req[r].eligible[k]]]
  BY DEF Spin, smart
<1>2. req[r].eligible \in Lists /\ Len(req[r].scores) = Len(req[r].eligible)
  BY <1>1, Before DEF Shaped
<1>3. k \in 1 .. Len(req[r].eligible)
  BY <1>2, ListFacts, WheelStops
<1>4. req[r].eligible[k] \in Instances
  BY <1>2, <1>3, ListFacts
<1> HIDE DEF k
<1> QED
  BY <1>1, <1>4, StartKeeps

LEMMA ExploitKeeps ==
    ASSUME SmartInv, NEW r \in Requests, Exploit(r)
    PROVE  SmartInv'
<1> DEFINE q == [req[r] EXCEPT !.pc = "score"]
<1>1. /\ req' = [req EXCEPT ![r] = q] /\ req[r].pc = "pick"
      /\ UNCHANGED <<known, states, heap>>
  BY Before DEF Exploit, smart
<1>2. /\ req[r].eligible \in Lists /\ req[r].inst = None /\ req[r].scores = <<>>
  BY <1>1, Before DEF Shaped
<1>3. /\ q \in RequestRecord /\ q.pc = "score" /\ q.inst = None
      /\ q.eligible = req[r].eligible /\ q.scores = <<>>
  BY <1>2, Before DEF RequestRecord
<1> HIDE DEF q
<1>4. Len(q.scores) < Len(q.eligible)
  BY <1>2, <1>3, ListFacts
<1>5. Shaped(q)
  BY <1>2, <1>3, <1>4 DEF Shaped
<1> QED
  BY <1>1, <1>3, <1>5, QuietMove

(* The state that is asked for is an instance's.                           *)
LEMMA WantedType ==
    ASSUME SmartInv, NEW r \in Requests, req[r].pc \in {"score", "start", "insert"}
    PROVE  Wanted(r) \in Instances
<1>1. CASE req[r].inst # None
  <2>1. req[r].inst \in 0 .. N
    BY Before DEF RequestRecord
  <2> QED
    BY <1>1, <2>1, Constants DEF Wanted, Instances, None
<1>2. CASE req[r].inst = None
  <2>1. req[r].pc \in {"score", "insert"}
    BY <1>2, Before DEF Shaped
  <2>2. req[r].eligible \in Lists /\ Len(req[r].scores) < Len(req[r].eligible)
    BY <1>2, <2>1, Before DEF Shaped
  <2>3. req[r].scores \in Seq(Nat)
    BY Before DEF RequestRecord
  <2>4. Len(req[r].scores) + 1 \in 1 .. Len(req[r].eligible)
    BY <2>2, <2>3, ListFacts
  <2> QED
    BY <1>2, <2>2, <2>4, ListFacts DEF Wanted
<1> QED
  BY <1>1, <1>2

LEMMA MissKeeps ==
    ASSUME SmartInv, NEW r \in Requests, GetStateMiss(r)
    PROVE  SmartInv'
<1> DEFINE q == [req[r] EXCEPT !.pc = "insert"]
<1>1. /\ req' = [req EXCEPT ![r] = q] /\ req[r].pc \in {"score", "start"}
      /\ UNCHANGED <<known, states, heap>> /\ states[Wanted(r)] = None
  BY Before DEF GetStateMiss, smart
<1>2. /\ q \in RequestRecord /\ q.pc = "insert" /\ q.inst = req[r].inst
      /\ q.eligible = req[r].eligible /\ q.scores = req[r].scores
  BY Before DEF RequestRecord
<1>3. req'[r] = q
  BY <1>1, Before
<1> HIDE DEF q
<1>4. Wanted(r)' = Wanted(r)
  BY <1>2, <1>3 DEF Wanted
<1>5. Wanted(r) \notin known
  BY <1>1 DEF SmartInv, Mapped
<1>6. Shaped(q)
  BY <1>1, <1>2, Before DEF Shaped
<1> QED
  BY <1>1, <1>2, <1>4, <1>5, <1>6, QuietMove

-----------------------------------------------------------------------------
(* getState and its callers.                                               *)

(* The objects of heap h, with the calls there are before the step.        *)
Counts(h) ==
    \A o \in 1 .. Len(h) : h[o].inflight = Cardinality(CallsOn(o)) /\ Shows(h[o])

(* The records of these steps.                                             *)
Called(p, o) == [p EXCEPT !.pc = "calling", !.obj = o]
Scored(p, pc, x) == [p EXCEPT !.scores = Append(@, x), !.pc = pc]
Loaded(s, d) == [s EXCEPT !.inflight = @ + d]

LEMMA CalledFacts ==
    ASSUME NEW p \in RequestRecord, NEW o \in Nat
    PROVE  /\ Called(p, o) \in RequestRecord /\ Called(p, o).pc = "calling"
           /\ Called(p, o).inst = p.inst /\ Called(p, o).obj = o
  BY DEF RequestRecord, Called

LEMMA ScoredFacts ==
    ASSUME NEW p \in RequestRecord, NEW pc \in {"wheel", "score"}, NEW x \in Nat
    PROVE  /\ Scored(p, pc, x) \in RequestRecord /\ Scored(p, pc, x).pc = pc
           /\ Scored(p, pc, x).inst = p.inst /\ Scored(p, pc, x).eligible = p.eligible
           /\ Scored(p, pc, x).scores = Append(p.scores, x)
<1> DEFINE y == Append(p.scores, x)
           q == [p EXCEPT !.scores = y, !.pc = pc]
<1>1. Scored(p, pc, x) = q
  BY DEF Scored
<1>2. y \in Seq(Nat)
  BY DEF RequestRecord
<1> HIDE DEF y
<1>3. /\ q \in RequestRecord /\ q.pc = pc /\ q.inst = p.inst
      /\ q.eligible = p.eligible /\ q.scores = y
  BY <1>2 DEF RequestRecord
<1> HIDE DEF q
<1> QED
  BY <1>1, <1>3 DEF y

LEMMA LoadedFacts ==
    ASSUME NEW s \in InstanceState, NEW d \in Int
    PROVE  /\ Loaded(s, d) \in InstanceState /\ Loaded(s, d).inflight = s.inflight + d
           /\ Loaded(s, d).outcomes = s.outcomes /\ Loaded(s, d).errors = s.errors
<1> DEFINE y == s.inflight + d
           g == [s EXCEPT !.inflight = y]
<1>1. Loaded(s, d) = g
  BY DEF Loaded
<1>2. y \in Int
  BY DEF InstanceState
<1> HIDE DEF y
<1>3. /\ g \in InstanceState /\ g.inflight = y
      /\ g.outcomes = s.outcomes /\ g.errors = s.errors
  BY <1>2 DEF InstanceState
<1> HIDE DEF g
<1> QED
  BY <1>1, <1>3 DEF y

(* The caller counts itself in on object o.                                *)
LEMMA StartOn ==
    ASSUME SmartInv, NEW r \in Requests, req[r].pc \in {"score", "start", "insert"},
           req[r].inst # None,
           NEW h \in Seq(InstanceState), Len(h) >= Len(heap), Counts(h),
           \A x \in 1 .. Len(heap) : h[x] = heap[x],
           known' = known, states' \in [Instances -> 0 .. Len(h)], Mapped',
           \A i \in known : states'[i] = states[i],
           NEW o \in 1 .. Len(h),
           \A i \in known : req[r].inst = i <=> o = states'[i],
           WithState(r, o, h)
    PROVE  SmartInv'
<1> DEFINE q == Called(req[r], o)
           g == Loaded(h[o], 1)
<1>1. req' = [req EXCEPT ![r] = q] /\ heap' = [h EXCEPT ![o] = g]
  BY Before DEF WithState, Called, Loaded
<1>2. Len(h) \in Nat /\ Len(heap) \in Nat /\ h[o] \in InstanceState
  BY DEF SmartInv
<1>3. o \in Nat
  BY <1>2
<1>4. /\ q \in RequestRecord /\ q.pc = "calling" /\ q.inst = req[r].inst /\ q.obj = o
  BY <1>3, Before, CalledFacts, ZenonT(60)
<1>5. /\ g \in InstanceState /\ g.inflight = h[o].inflight + 1
      /\ g.outcomes = h[o].outcomes /\ g.errors = h[o].errors
  <2>1. h[o] \in InstanceState /\ 1 \in Int
    BY <1>2
  <2> QED
    BY <2>1, LoadedFacts
<1> HIDE DEF q, g
<1>6. Shaped(q)
  BY <1>4 DEF Shaped
<1>7. /\ heap' \in Seq(InstanceState) /\ Len(heap') = Len(h)
      /\ \A x \in 1 .. Len(h) : heap'[x] = IF x = o THEN g ELSE h[x]
  BY <1>1, <1>5
<1>8. req'[r] = q
  BY <1>1, Before
<1>9. Placed(r)'
  BY <1>4, <1>7, <1>8 DEF Placed
<1>10. \A x \in 1 .. Len(heap) :
          TRUE \notin heap'[x].outcomes => TRUE \notin heap[x].outcomes
  <2>1. \A x \in 1 .. Len(heap) : x \in 1 .. Len(h)
    BY <1>2
  <2>2. \A x \in 1 .. Len(heap) : heap'[x].outcomes = heap[x].outcomes
    BY <1>5, <1>7, <2>1
  <2> QED
    BY <2>2
<1>11. /\ req' \in [Requests -> RequestRecord]
       /\ \A t \in Requests : (Shaped(req[t]) /\ Placed(t))'
  BY <1>1, <1>2, <1>4, <1>6, <1>7, <1>9, <1>10, OneMoves
<1>12. Objects'
  <2> SUFFICES ASSUME NEW x \in 1 .. Len(h)
               PROVE  heap'[x].inflight = Cardinality(CallsOn(x)') /\ Shows(heap'[x])
    BY <1>7 DEF Objects
  <2>1. h[x].inflight = Cardinality(CallsOn(x)) /\ Shows(h[x])
    BY DEF Counts
  <2>2. CallsOn(x)' = (CallsOn(x) \ {r}) \cup (IF x = o THEN {r} ELSE {})
    <3>1. CallsOn(x)' = (CallsOn(x) \ {r})
                          \cup (IF q.pc = "calling" /\ q.obj = x THEN {r} ELSE {})
      BY <1>1, <1>8, Before DEF CallsOn
    <3> QED
      BY <1>4, <3>1
  <2>3. r \notin CallsOn(x)
    BY DEF CallsOn
  <2>4. CASE x = o
    <3>1. CallsOn(x)' = CallsOn(x) \cup {r}
      BY <2>2, <2>3, <2>4
    <3>2. Cardinality(CallsOn(x)') = Cardinality(CallsOn(x)) + 1
      BY <2>3, <3>1, CallsFinite, FS_AddElement, ZenonT(60)
    <3> QED
      BY <1>5, <1>7, <2>1, <2>4, <3>2 DEF Shows
  <2>5. CASE x # o
    <3>1. CallsOn(x)' = CallsOn(x)
      BY <2>2, <2>3, <2>5
    <3> QED
      BY <1>7, <2>1, <2>5, <3>1
  <2> QED
    BY <2>4, <2>5
<1>13. known' \in SUBSET Instances /\ states' \in [Instances -> 0 .. Len(heap')]
  BY <1>7 DEF SmartInv
<1> QED
  BY <1>7, <1>11, <1>12, <1>13 DEF SmartInv

(* The caller scores the instance by object o.                             *)
LEMMA ScoreOn ==
    ASSUME SmartInv, NEW r \in Requests, req[r].pc \in {"score", "start", "insert"},
           req[r].inst = None,
           NEW h \in Seq(InstanceState), Len(h) >= Len(heap), Counts(h),
           \A x \in 1 .. Len(heap) : h[x] = heap[x],
           known' = known, states' \in [Instances -> 0 .. Len(h)], Mapped',
           \A i \in known : states'[i] = states[i],
           NEW o \in 1 .. Len(h),
           WithState(r, o, h)
    PROVE  SmartInv'
<1> DEFINE pc == IF Len(req[r].scores) + 1 = Len(req[r].eligible) THEN "wheel" ELSE "score"
           q == Scored(req[r], pc, Score(h[o]))
<1>1. req' = [req EXCEPT ![r] = q] /\ heap' = h
  BY Before DEF WithState, Scored
<1>2. /\ Len(h) \in Nat /\ Len(heap) \in Nat /\ Score(h[o]) \in Nat
      /\ req[r].scores \in Seq(Nat)
  <2>1. heap \in Seq(InstanceState)
    BY DEF SmartInv
  <2>2. h[o] \in InstanceState
    OBVIOUS
  <2>3. req[r].scores \in Seq(Nat)
    BY Before DEF RequestRecord
  <2> QED
    BY <2>1, <2>2, <2>3, ScoreType
<1>3. req[r].eligible \in Lists /\ Len(req[r].scores) < Len(req[r].eligible)
  BY Before DEF Shaped
<1>4. /\ q \in RequestRecord /\ q.pc = pc /\ q.inst = None
      /\ q.eligible = req[r].eligible /\ q.scores = Append(req[r].scores, Score(h[o]))
  <2>1. pc \in {"wheel", "score"}
    OBVIOUS
  <2> HIDE DEF pc
  <2> QED
    <3>1. req[r] \in RequestRecord /\ Score(h[o]) \in Nat
      BY <1>2, Before
    <3> QED
      BY <2>1, <3>1, ScoredFacts, ZenonT(60)
<1>5. Len(q.scores) = Len(req[r].scores) + 1 /\ Len(req[r].scores) \in Nat
  BY <1>2, <1>4
<1>6. /\ pc \in {"wheel", "score"}
      /\ pc = "wheel" => Len(q.scores) = Len(q.eligible)
      /\ pc = "score" => Len(q.scores) < Len(q.eligible)
  <2>1. Len(req[r].eligible) \in Nat
    BY <1>3, ListFacts
  <2> QED
    BY <1>3, <1>4, <1>5, <2>1
<1> HIDE DEF q, pc
<1>7. Shaped(q)
  BY <1>3, <1>4, <1>6 DEF Shaped
<1>8. req'[r] = q
  BY <1>1, Before
<1>9. Placed(r)'
  BY <1>4, <1>6, <1>8 DEF Placed
<1>10. /\ req' \in [Requests -> RequestRecord]
       /\ \A t \in Requests : (Shaped(req[t]) /\ Placed(t))'
  BY <1>1, <1>2, <1>4, <1>7, <1>9, OneMoves
<1>11. Objects'
  <2>1. \A x : CallsOn(x)' = CallsOn(x)
    BY <1>1, <1>4, <1>6, <1>8, Before DEF CallsOn
  <2> QED
    BY <1>1, <2>1 DEF Objects, Counts
<1> QED
  BY <1>1, <1>10, <1>11 DEF SmartInv

LEMMA HitKeeps ==
    ASSUME SmartInv, NEW r \in Requests, GetStateHit(r)
    PROVE  SmartInv'
<1> DEFINE o == states[Wanted(r)]
<1>1. /\ req[r].pc \in {"score", "start"} /\ o # None /\ WithState(r, o, heap)
      /\ known' = known /\ states' = states
  BY DEF GetStateHit
<1>2. /\ heap \in Seq(InstanceState) /\ Len(heap) \in Nat /\ Counts(heap) /\ Mapped
      /\ states \in [Instances -> 0 .. Len(heap)] /\ known \subseteq Instances
  BY DEF SmartInv, Objects, Counts
<1>3. Wanted(r) \in Instances
  BY <1>1, WantedType
<1>4. o \in 1 .. Len(heap)
  BY <1>1, <1>2, <1>3 DEF None
<1>5. Mapped'
  BY <1>1, <1>2 DEF Mapped
<1>6. CASE req[r].inst # None
  <2>1. Wanted(r) = req[r].inst
    BY <1>6 DEF Wanted
  <2>2. \A i \in known : req[r].inst = i <=> o = states'[i]
    BY <1>1, <1>2, <1>3, <2>1 DEF Mapped
  <2> HIDE DEF o
  <2> QED
    BY <1>1, <1>2, <1>4, <1>5, <1>6, <2>2, StartOn
<1>7. CASE req[r].inst = None
  <2> HIDE DEF o
  <2> QED
    BY <1>1, <1>2, <1>4, <1>5, <1>7, ScoreOn
<1> QED
  BY <1>6, <1>7

LEMMA InsertKeeps ==
    ASSUME SmartInv, NEW r \in Requests, GetStateInsert(r)
    PROVE  SmartInv'
<1> DEFINE o == Len(heap) + 1
           h == Append(heap, NewInstanceState)
<1>1. /\ req[r].pc = "insert" /\ known' = known /\ WithState(r, o, h)
      /\ states' = [states EXCEPT ![Wanted(r)] = o]
  BY DEF GetStateInsert
<1>2. /\ heap \in Seq(InstanceState) /\ Len(heap) \in Nat /\ Mapped
      /\ states \in [Instances -> 0 .. Len(heap)] /\ known \subseteq Instances
  BY DEF SmartInv
<1>3. Wanted(r) \in Instances /\ Wanted(r) \notin known
  BY <1>1, WantedType, Before DEF Placed
<1>4. /\ NewInstanceState \in InstanceState /\ NewInstanceState.inflight = 0
      /\ Shows(NewInstanceState)
  <2>1. /\ NewInstanceState \in InstanceState /\ NewInstanceState.inflight = 0
        /\ NewInstanceState.outcomes = {} /\ NewInstanceState.errors = 0
    BY Constants DEF NewInstanceState, InstanceState
  <2> QED
    BY <2>1 DEF Shows
<1>5. /\ h \in Seq(InstanceState) /\ Len(h) = o /\ h[o] = NewInstanceState
      /\ \A x \in 1 .. Len(heap) : h[x] = heap[x]
  BY <1>2, <1>4
<1>6. CallsOn(o) = {}
  <2>1. ASSUME NEW t \in CallsOn(o) PROVE FALSE
    <3>1. t \in Requests /\ req[t].pc = "calling" /\ req[t].obj = o
      BY <2>1 DEF CallsOn
    <3>2. req[t].obj \in 1 .. Len(heap)
      BY <3>1, Before DEF Placed
    <3> QED
      BY <1>2, <3>1, <3>2
  <2> QED
    BY <2>1
<1>7. Counts(h)
  <2> SUFFICES ASSUME NEW x \in 1 .. o
               PROVE  h[x].inflight = Cardinality(CallsOn(x)) /\ Shows(h[x])
    BY <1>5 DEF Counts
  <2>1. CASE x = o
    BY <1>4, <1>5, <1>6, <2>1, FS_EmptySet
  <2>2. CASE x # o
    <3>1. x \in 1 .. Len(heap)
      BY <1>2, <2>2
    <3> QED
      BY <1>5, <3>1 DEF SmartInv, Objects
  <2> QED
    BY <2>1, <2>2
<1>8. states' \in [Instances -> 0 .. Len(h)] /\ \A i \in known : states'[i] = states[i]
  BY <1>1, <1>2, <1>3, <1>5
<1>9. Mapped'
  <2>1. \A i \in Instances : states[i] # o
    BY <1>2
  <2>2. o # None
    BY <1>2 DEF None
  <2> HIDE DEF o, h
  <2> QED
    BY <1>1, <1>2, <1>3, <2>1, <2>2 DEF Mapped
<1>10. o \in 1 .. Len(h) /\ Len(h) >= Len(heap)
  BY <1>2, <1>5
<1>11. CASE req[r].inst # None
  <2>1. Wanted(r) = req[r].inst
    BY <1>11 DEF Wanted
  <2>2. \A i \in known : req[r].inst = i <=> o = states'[i]
    BY <1>2, <1>3, <1>8, <2>1
  <2> HIDE DEF o, h
  <2> QED
    BY <1>1, <1>5, <1>7, <1>8, <1>9, <1>10, <1>11, <2>2, StartOn
<1>12. CASE req[r].inst = None
  <2> HIDE DEF o, h
  <2> QED
    BY <1>1, <1>5, <1>7, <1>8, <1>9, <1>10, <1>12, ScoreOn
<1> QED
  BY <1>11, <1>12

-----------------------------------------------------------------------------
(* The feedback of a finished call.                                        *)

(* The object of a goroutine that is in a call or has left one.            *)
LEMMA ObjectFacts ==
    ASSUME SmartInv, NEW r \in Requests, req[r].pc \in {"calling", "latency", "errors"}
    PROVE  /\ heap \in Seq(InstanceState) /\ Len(heap) \in Nat
           /\ req[r].obj \in 1 .. Len(heap)
           /\ heap[req[r].obj] \in InstanceState /\ Shows(heap[req[r].obj])
<1>1. heap \in Seq(InstanceState) /\ Len(heap) \in Nat
  BY DEF SmartInv
<1>2. req[r].obj \in 1 .. Len(heap)
  BY Before DEF Placed
<1> QED
  BY <1>1, <1>2 DEF SmartInv, Objects

(* A goroutine that leaves or has left its call changes its object to g.   *)
LEMMA ObjectMove ==
    ASSUME SmartInv, NEW r \in Requests, req[r].pc \in {"calling", "latency", "errors"},
           NEW q \in RequestRecord, req' = [req EXCEPT ![r] = q],
           q.pc \in {"latency", "errors", "idle"}, Shaped(q),
           q.pc # "idle" => q.obj = req[r].obj,
           NEW g \in InstanceState, heap' = [heap EXCEPT ![req[r].obj] = g],
           g.inflight = heap[req[r].obj].inflight - (IF req[r].pc = "calling" THEN 1 ELSE 0),
           Shows(g), TRUE \notin g.outcomes => TRUE \notin heap[req[r].obj].outcomes,
           q.pc = "errors" =>
              q.old \in 0 .. Scale /\ (TRUE \notin g.outcomes => q.old = 0),
           UNCHANGED <<known, states>>
    PROVE  SmartInv'
<1> DEFINE o == req[r].obj
<1>1. o \in 1 .. Len(heap) /\ heap \in Seq(InstanceState) /\ Len(heap) \in Nat
  BY ObjectFacts
<1>2. /\ heap' \in Seq(InstanceState) /\ Len(heap') = Len(heap)
      /\ \A x \in 1 .. Len(heap) : heap'[x] = IF x = o THEN g ELSE heap[x]
  BY <1>1
<1>3. req'[r] = q
  BY Before
<1>4. Placed(r)'
  <2>1. q.pc \in {"latency", "errors"} => q.obj \in 1 .. Len(heap')
    BY <1>1, <1>2
  <2>2. q.pc = "errors" =>
           q.old \in 0 .. Scale /\ (TRUE \notin heap'[q.obj].outcomes => q.old = 0)
    BY <1>1, <1>2
  <2> QED
    BY <1>3, <2>1, <2>2 DEF Placed
<1>5. \A x \in 1 .. Len(heap) :
         TRUE \notin heap'[x].outcomes => TRUE \notin heap[x].outcomes
  BY <1>2
<1>6. /\ req' \in [Requests -> RequestRecord]
      /\ \A t \in Requests : (Shaped(req[t]) /\ Placed(t))'
  <2>1. Len(heap') >= Len(heap) /\ known' = known /\ \A i \in known : states'[i] = states[i]
    BY <1>1, <1>2
  <2> QED
    BY <1>2, <1>4, <1>5, <2>1, OneMoves
<1>7. Mapped'
  BY DEF SmartInv, Mapped
<1>8. Objects'
  <2> SUFFICES ASSUME NEW x \in 1 .. Len(heap)
               PROVE  heap'[x].inflight = Cardinality(CallsOn(x)') /\ Shows(heap'[x])
    BY <1>2 DEF Objects
  <2>1. heap[x].inflight = Cardinality(CallsOn(x)) /\ Shows(heap[x])
    BY DEF SmartInv, Objects
  <2>2. CallsOn(x)' = CallsOn(x) \ {r}
    BY <1>3, Before DEF CallsOn
  <2>3. CASE x = o /\ req[r].pc = "calling"
    <3>1. r \in CallsOn(x)
      BY <2>3 DEF CallsOn
    <3>2. Cardinality(CallsOn(x)') = Cardinality(CallsOn(x)) - 1
      BY <2>2, <3>1, CallsFinite, FS_RemoveElement
    <3> QED
      BY <1>2, <2>1, <2>3, <3>2
  <2>4. CASE ~(x = o /\ req[r].pc = "calling")
    <3>1. r \notin CallsOn(x)
      BY <2>4 DEF CallsOn
    <3>2. CallsOn(x)' = CallsOn(x)
      BY <2>2, <3>1
    <3>3. heap[x].inflight \in Int
      <4>1. heap[x] \in InstanceState
        BY <1>1
      <4> QED
        BY <4>1 DEF InstanceState
    <3>4. heap'[x].inflight = heap[x].inflight /\ Shows(heap'[x])
      BY <1>2, <2>1, <2>4, <3>3
    <3> QED
      BY <2>1, <3>2, <3>4
  <2> QED
    BY <2>3, <2>4
<1> QED
  BY <1>2, <1>6, <1>7, <1>8 DEF SmartInv

LEMMA DoneKeeps ==
    ASSUME SmartInv, NEW r \in Requests, NEW latency \in Latencies, NEW isErr \in BOOLEAN,
           Done(r, latency, isErr)
    PROVE  SmartInv'
<1> DEFINE o == req[r].obj
           old == heap[o].latency
           q == [req[r] EXCEPT !.pc = "latency", !.latency = latency, !.isErr = isErr,
                               !.old = old]
           n == heap[o].inflight - 1
           g == [heap[o] EXCEPT !.inflight = n]
<1>1. /\ req[r].pc = "calling" /\ UNCHANGED <<known, states>>
      /\ heap' = [heap EXCEPT ![o] = g] /\ req' = [req EXCEPT ![r] = q]
  BY Before DEF Done
<1>2. o \in 1 .. Len(heap) /\ heap[o] \in InstanceState /\ Shows(heap[o])
  BY <1>1, ObjectFacts
<1>3. old \in Nat /\ n \in Int
  BY <1>2 DEF InstanceState
<1>4. latency \in Nat
  BY Constants
<1> HIDE DEF old, n
<1>5. /\ q \in RequestRecord /\ q.pc = "latency" /\ q.obj = o /\ q.inst = req[r].inst
  BY <1>3, <1>4, Before DEF RequestRecord
<1>6. /\ g \in InstanceState /\ g.inflight = n
      /\ g.outcomes = heap[o].outcomes /\ g.errors = heap[o].errors
  BY <1>2, <1>3 DEF InstanceState
<1> HIDE DEF q, g
<1>7. Shaped(q)
  BY <1>1, <1>5, Before DEF Shaped
<1>8. Shows(g)
  BY <1>2, <1>6 DEF Shows
<1> QED
  BY <1>1, <1>5, <1>6, <1>7, <1>8, ObjectMove DEF n

LEMMA RecordLatencyKeeps ==
    ASSUME SmartInv, NEW r \in Requests, RecordLatency(r)
    PROVE  SmartInv'
<1> DEFINE o == req[r].obj
           old == heap[o].errors
           q == [req[r] EXCEPT !.pc = "errors", !.old = old]
           n == Ewma(LatencyAlpha, req[r].latency, req[r].old)
           g == [heap[o] EXCEPT !.latency = n]
<1>1. /\ req[r].pc = "latency" /\ UNCHANGED <<known, states>>
      /\ heap' = [heap EXCEPT ![o] = g] /\ req' = [req EXCEPT ![r] = q]
  BY Before DEF RecordLatency
<1>2. o \in 1 .. Len(heap) /\ heap[o] \in InstanceState /\ Shows(heap[o])
  BY <1>1, ObjectFacts
<1>3. req[r].latency \in Nat /\ req[r].old \in Nat
  BY Before DEF RequestRecord
<1>4. old \in 0 .. Scale /\ old \in Nat /\ n \in Nat
  <2>1. old \in 0 .. Scale
    BY <1>2 DEF InstanceState
  <2>2. old \in Nat
    BY <2>1, Constants
  <2>3. n \in Nat
    BY <1>3, Constants, EwmaNat
  <2> QED
    BY <2>1, <2>2, <2>3
<1>5. TRUE \notin heap[o].outcomes => old = 0
  BY <1>2 DEF Shows
<1> HIDE DEF old, n
<1>6. /\ q \in RequestRecord /\ q.pc = "errors" /\ q.obj = o /\ q.inst = req[r].inst
      /\ q.old = old
  BY <1>4, Before DEF RequestRecord
<1>7. /\ g \in InstanceState /\ g.inflight = heap[o].inflight
      /\ g.outcomes = heap[o].outcomes /\ g.errors = heap[o].errors
  BY <1>2, <1>4 DEF InstanceState
<1> HIDE DEF q, g
<1>8. Shaped(q)
  BY <1>1, <1>6, Before DEF Shaped
<1>9. Shows(g)
  BY <1>2, <1>7 DEF Shows
<1>10. g.inflight = heap[o].inflight - (IF req[r].pc = "calling" THEN 1 ELSE 0)
  BY <1>1, <1>2, <1>7 DEF InstanceState
<1> QED
  BY <1>1, <1>4, <1>5, <1>6, <1>7, <1>8, <1>9, <1>10, ObjectMove

LEMMA RecordErrorsKeeps ==
    ASSUME SmartInv, NEW r \in Requests, RecordErrors(r)
    PROVE  SmartInv'
<1> DEFINE o == req[r].obj
           errVal == IF req[r].isErr THEN Scale ELSE 0
           n == Ewma(ErrorAlpha, errVal, req[r].old)
           out == heap[o].outcomes \cup {req[r].isErr}
           g == [heap[o] EXCEPT !.errors = n, !.outcomes = out]
<1>1. /\ req[r].pc = "errors" /\ UNCHANGED <<known, states>>
      /\ heap' = [heap EXCEPT ![o] = g] /\ req' = [req EXCEPT ![r] = Idle]
  BY Before DEF RecordErrors
<1>2. o \in 1 .. Len(heap) /\ heap[o] \in InstanceState /\ Shows(heap[o])
  BY <1>1, ObjectFacts
<1>3. /\ req[r].old \in 0 .. Scale
      /\ TRUE \notin heap[o].outcomes => req[r].old = 0
  BY <1>1, Before DEF Placed
<1>4. req[r].isErr \in BOOLEAN /\ errVal \in {0, Scale}
  BY Before DEF RequestRecord
<1>5. /\ n \in 0 .. Scale /\ Ewma(ErrorAlpha, 0, 0) = 0
      /\ Ewma(ErrorAlpha, Scale, req[r].old) >= Ewma(ErrorAlpha, Scale, 0)
  <2> HIDE DEF errVal
  <2> QED
    BY <1>3, <1>4, Constants, EwmaRate
<1>6. TRUE \notin out => n = 0
  <2>1. SUFFICES ASSUME TRUE \notin out PROVE n = 0
    OBVIOUS
  <2>2. req[r].isErr = FALSE /\ TRUE \notin heap[o].outcomes
    BY <1>4, <2>1
  <2>3. errVal = 0 /\ req[r].old = 0
    BY <1>3, <2>2
  <2> HIDE DEF errVal
  <2> QED
    BY <1>5, <2>3
<1>7. out = {TRUE} => n >= Ewma(ErrorAlpha, Scale, 0)
  <2>1. SUFFICES ASSUME out = {TRUE} PROVE n >= Ewma(ErrorAlpha, Scale, 0)
    OBVIOUS
  <2>2. req[r].isErr = TRUE
    BY <2>1
  <2>3. errVal = Scale
    BY <2>2
  <2> QED
    BY <1>5, <2>3
<1>8. out \in SUBSET BOOLEAN /\ heap[o].outcomes \subseteq out
  BY <1>2, <1>4 DEF InstanceState
<1> HIDE DEF n, out
<1>9. /\ g \in InstanceState /\ g.inflight = heap[o].inflight
      /\ g.outcomes = out /\ g.errors = n
  BY <1>2, <1>5, <1>8 DEF InstanceState
<1>10. g.inflight = heap[o].inflight - (IF req[r].pc = "calling" THEN 1 ELSE 0)
  BY <1>1, <1>2, <1>9 DEF InstanceState
<1> HIDE DEF g
<1>11. Shows(g)
  BY <1>6, <1>7, <1>9 DEF Shows
<1>12. TRUE \notin g.outcomes => TRUE \notin heap[o].outcomes
  BY <1>8, <1>9
<1> QED
  BY <1>1, <1>9, <1>10, <1>11, <1>12, IdleFacts, ObjectMove

-----------------------------------------------------------------------------
(* Round robin.                                                            *)

(* Numbers of picks by position, and by instance.                          *)
ByPosition(list, count) == [p \in 0 .. Len(list) - 1 |-> count[list[p + 1]]]

LEMMA PositionPicked ==
    ASSUME NEW list \in Lists, NEW count \in [Instances -> Nat],
           NEW m \in 0 .. Len(list) - 1
    PROVE  /\ ByPosition(list, count) \in [0 .. Len(list) - 1 -> Nat]
           /\ list[m + 1] \in Instances
           /\ ByPosition(list, Plus(count, list[m + 1])) = Plus(ByPosition(list, count), m)
<1> DEFINE n == Len(list)
<1>1. n \in Nat /\ n > 0
  BY ListFacts
<1>2. \A p \in 0 .. n - 1 : p + 1 \in 1 .. n
  BY <1>1
<1>3. \A p \in 0 .. n - 1 : list[p + 1] \in Instances
  BY <1>2, ListFacts
<1>4. \A p \in 0 .. n - 1 : list[p + 1] = list[m + 1] => p = m
  <2> SUFFICES ASSUME NEW p \in 0 .. n - 1, list[p + 1] = list[m + 1] PROVE p = m
    OBVIOUS
  <2>1. p + 1 = m + 1
    BY <1>2, ListFacts
  <2> QED
    BY <1>1, <2>1
<1> HIDE DEF n
<1>5. \A p \in 0 .. n - 1 : count[list[p + 1]] \in Nat
  BY <1>3
<1>6. m \in 0 .. n - 1 /\ n = Len(list)
  BY DEF n
<1> QED
  BY <1>3, <1>4, <1>5, <1>6 DEF ByPosition, Plus

LEMMA TurnKeeps ==
    ASSUME Inv, NEW r \in Requests, PickRoundRobin(r)
    PROVE  RobinInv'
<1> DEFINE list == req[r].eligible
           n == (counter + 1) % CounterSize
           L == Len(list)
           m == counter % L
           zero == [list |-> list, count |-> [i \in Instances |-> 0], wraps |-> 0]
           w == IF window.list = list THEN window ELSE zero
           more == IF n = 0 THEN 1 ELSE 0
<1>1. req[r].pc = "pick" /\ list \in Lists
  BY Before DEF PickRoundRobin, Inv, Shaped
<1>2. L \in Nat /\ L > 0 /\ list # <<>>
  BY <1>1, ListFacts
<1>3. counter \in 0 .. CounterSize - 1 /\ counter \in Nat
  BY Constants DEF Inv, RobinInv
<1>4. /\ n = IF counter + 1 = CounterSize THEN 0 ELSE counter + 1
      /\ (n - 1) % CounterSize = counter
  BY <1>3, Advance
<1>5. m \in 0 .. L - 1 /\ (counter + 1) % L = After(m, L)
  BY <1>2, <1>3, NextPosition
<1>6. /\ window \in [list : {<<>>} \cup Lists, count : [Instances -> Nat], wraps : Nat]
      /\ InRound
  BY DEF Inv, RobinInv
<1>7. /\ w.list = list /\ w.count \in [Instances -> Nat] /\ w.wraps \in Nat
      /\ w \in [list : {<<>>} \cup Lists, count : [Instances -> Nat], wraps : Nat]
  <2>1. zero \in [list : {<<>>} \cup Lists, count : [Instances -> Nat], wraps : Nat]
    BY <1>1
  <2> HIDE DEF list
  <2> QED
    BY <1>6, <2>1
<1>8. \E s \in 0 .. L - 1 : Ahead(ByPosition(list, w.count), L, s, m, w.wraps)
  <2>1. CASE window.list = list
    BY <1>2, <1>6, <2>1 DEF InRound, Round, ByPosition
  <2>2. CASE window.list # list
    <3>1. w.count = [i \in Instances |-> 0] /\ w.wraps = 0
      BY <2>2
    <3>2. \A p \in 0 .. L - 1 : p + 1 \in 1 .. L
      BY <1>2
    <3>3. \A p \in 0 .. L - 1 : list[p + 1] \in Instances
      BY <1>1, <3>2, ListFacts
    <3> HIDE DEF w, list, L, m
    <3>4. ByPosition(list, w.count) = [p \in 0 .. L - 1 |-> 0]
      BY <3>1, <3>3 DEF ByPosition, L
    <3>5. \A p \in 0 .. L - 1 : Served(m, m, p) = 0
      BY <1>2, <1>5 DEF Served
    <3>6. Ahead(ByPosition(list, w.count), L, m, m, w.wraps)
      BY <3>1, <3>4, <3>5 DEF Ahead
    <3> QED
      BY <1>5, <3>6
  <2> QED
    BY <2>1, <2>2
<1>9. PICK s \in 0 .. L - 1 : Ahead(ByPosition(list, w.count), L, s, m, w.wraps)
  BY <1>8
<1> DEFINE chosen == list[m + 1]
           c == Plus(w.count, chosen)
           d == w.wraps + more
<1>10. /\ counter' = n
       /\ window' = [w EXCEPT !.count = c, !.wraps = d]
       /\ strategy' = strategy /\ picks' = picks
  BY <1>4 DEF PickRoundRobin, Plus
<1> HIDE DEF w, list, n
<1>11. /\ ByPosition(list, w.count) \in [0 .. L - 1 -> Nat]
       /\ chosen \in Instances
       /\ ByPosition(list, c) = Plus(ByPosition(list, w.count), m)
  <2>1. m \in 0 .. Len(list) - 1
    BY <1>5
  <2> HIDE DEF m
  <2> QED
    BY <1>1, <1>7, <2>1, PositionPicked
<1>12. c \in [Instances -> Nat]
  BY <1>7, <1>11 DEF Plus
<1> HIDE DEF c, chosen, m, L
<1>13. more \in Nat /\ d \in Nat
  BY <1>7
<1> HIDE DEF more, d
<1>14. /\ window'.list = list /\ window'.count = c /\ window'.wraps = d
       /\ window' \in [list : {<<>>} \cup Lists, count : [Instances -> Nat], wraps : Nat]
  BY <1>1, <1>7, <1>10, <1>12, <1>13
<1>15. /\ Ahead(ByPosition(list, c), L, s, After(m, L), w.wraps)
       /\ Ahead(ByPosition(list, c), L, 0, 0, w.wraps + 1)
  BY <1>2, <1>5, <1>7, <1>9, <1>11, ServeNext
<1>16. InRound'
  <2>1. CASE n = 0
    <3>1. 0 % L = 0
      BY <1>2, Z3
    <3>2. more = 1
      BY <2>1 DEF more
    <3>3. counter' % L = 0 /\ window'.wraps = w.wraps + 1
      BY <1>10, <1>14, <2>1, <3>1, <3>2 DEF d
    <3>4. Ahead(ByPosition(window'.list, window'.count), Len(window'.list), 0,
                counter' % Len(window'.list), window'.wraps)
      BY <1>14, <1>15, <3>3 DEF L
    <3>5. 0 \in 0 .. Len(window'.list) - 1
      BY <1>2, <1>14 DEF L
    <3> QED
      BY <3>4, <3>5 DEF InRound, Round, ByPosition
  <2>2. CASE n # 0
    <3>1. n = counter + 1
      BY <1>4, <2>2
    <3>2. more = 0
      BY <2>2 DEF more
    <3>3. counter' % L = After(m, L) /\ window'.wraps = w.wraps
      BY <1>5, <1>7, <1>10, <1>14, <3>1, <3>2 DEF d
    <3>4. Ahead(ByPosition(window'.list, window'.count), Len(window'.list), s,
                counter' % Len(window'.list), window'.wraps)
      BY <1>14, <1>15, <3>3 DEF L
    <3>5. s \in 0 .. Len(window'.list) - 1
      BY <1>14 DEF L
    <3> QED
      BY <3>4, <3>5 DEF InRound, Round, ByPosition
  <2> QED
    BY <2>1, <2>2
<1>17. counter' \in 0 .. CounterSize - 1
  BY <1>3, <1>4, <1>10, Constants
<1> QED
  BY <1>10, <1>14, <1>16, <1>17 DEF Inv, RobinInv

(* Every other step leaves the counter and the window alone.               *)
LEMMA OtherTurnKeeps ==
    ASSUME Inv, UNCHANGED <<strategy, robin>>, picks' \in Nat
    PROVE  RobinInv'
  BY DEF Inv, RobinInv, robin, InRound, Round

-----------------------------------------------------------------------------
(* The invariant.                                                          *)

(* New numbers the objects of the instances it is given.                   *)
LEMMA Numbered ==
    ASSUME NEW K \in SUBSET Instances
    PROVE  /\ Cardinality(K) \in Nat
           /\ \A i \in K : Cardinality({j \in K : j <= i}) \in 1 .. Cardinality(K)
           /\ \A i, k \in K :
                 Cardinality({j \in K : j <= i}) = Cardinality({j \in K : j <= k}) => i = k
<1> DEFINE Upto(i) == {j \in K : j <= i}
<1>1. IsFiniteSet(Instances)
  BY Constants, FS_Interval DEF Instances
<1>2. IsFiniteSet(K) /\ Cardinality(K) \in Nat
  BY <1>1, FS_Subset, FS_CardinalityType
<1>3. \A i : /\ Upto(i) \subseteq K /\ IsFiniteSet(Upto(i)) /\ Cardinality(Upto(i)) \in Nat
             /\ Cardinality(Upto(i)) <= Cardinality(K)
  BY <1>2, FS_Subset, FS_CardinalityType
<1>4. \A i \in K : i \in Int /\ i \in Upto(i)
  BY Constants DEF Instances
<1>5. \A i \in K : Cardinality(Upto(i)) # 0
  <2> SUFFICES ASSUME NEW i \in K, Cardinality(Upto(i)) = 0 PROVE FALSE
    OBVIOUS
  <2>1. Upto(i) = {}
    <3> HIDE DEF Upto
    <3> QED
      BY <1>3, FS_EmptySet
  <2> QED
    BY <1>4, <2>1
<1>6. ASSUME NEW i \in K, NEW k \in K, i < k
      PROVE  Cardinality(Upto(i)) # Cardinality(Upto(k))
  <2>1. Upto(i) \subseteq Upto(k)
    BY <1>4, <1>6
  <2>2. Upto(i) # Upto(k)
    <3>1. k \in Upto(k) /\ k \notin Upto(i)
      BY <1>4, <1>6
    <3> QED
      BY <3>1
  <2> HIDE DEF Upto
  <2> QED
    BY <1>3, <2>1, <2>2, FS_Subset
<1>7. \A i, k \in K : Cardinality(Upto(i)) = Cardinality(Upto(k)) => i = k
  <2> SUFFICES ASSUME NEW i \in K, NEW k \in K,
                      Cardinality(Upto(i)) = Cardinality(Upto(k)), i # k
               PROVE  FALSE
    OBVIOUS
  <2>1. i < k \/ k < i
    BY <1>4
  <2> HIDE DEF Upto
  <2> QED
    BY <1>6, <2>1
<1>8. \A i \in K : Cardinality(Upto(i)) \in 1 .. Cardinality(K)
  <2> HIDE DEF Upto
  <2> QED
    BY <1>2, <1>3, <1>5
<1> QED
  BY <1>2, <1>7, <1>8

LEMMA InitInv == Init => Inv
<1> SUFFICES ASSUME Init PROVE Inv
  OBVIOUS
<1> DEFINE n == Cardinality(known)
<1>1. known \in SUBSET Instances /\ n \in Nat
  BY Numbered DEF Init
<1>2. /\ NewInstanceState \in InstanceState /\ NewInstanceState.inflight = 0
      /\ NewInstanceState.outcomes = {} /\ NewInstanceState.errors = 0
  BY Constants DEF NewInstanceState, InstanceState
<1>3. heap = [o \in 1 .. n |-> NewInstanceState]
  BY DEF Init
<1> HIDE DEF n
<1>4. /\ heap \in Seq(InstanceState) /\ Len(heap) = n
      /\ \A o \in 1 .. n : heap[o] = NewInstanceState
  BY <1>1, <1>2, <1>3
<1>5. /\ states \in [Instances -> 0 .. Len(heap)]
      /\ Mapped
  <2> DEFINE Index(i) == Cardinality({j \in known : j <= i})
  <2>1. states = [i \in Instances |-> IF i \in known THEN Index(i) ELSE None]
    BY DEF Init
  <2>2. /\ \A i \in known : Index(i) \in 1 .. n
        /\ \A i, k \in known : Index(i) = Index(k) => i = k
    BY <1>1, Numbered DEF n
  <2> HIDE DEF Index
  <2>3. None = 0
    BY DEF None
  <2>4. states \in [Instances -> 0 .. Len(heap)]
    BY <1>1, <1>4, <2>1, <2>2, <2>3
  <2>5. \A i \in Instances : states[i] = IF i \in known THEN Index(i) ELSE 0
    BY <2>1, <2>3
  <2>6. \A i \in known : Index(i) # 0
    BY <1>1, <2>2
  <2>7. Mapped
    BY <1>1, <2>2, <2>3, <2>5, <2>6 DEF Mapped
  <2> QED
    BY <2>4, <2>7
<1>6. req = [r \in Requests |-> Idle]
  BY DEF Init
<1>7. req \in [Requests -> RequestRecord] /\ \A r \in Requests : Shaped(req[r]) /\ Placed(r)
  BY <1>6, IdleFacts DEF Placed
<1>8. Objects
  <2>1. \A o : CallsOn(o) = {}
    BY <1>6, IdleFacts DEF CallsOn
  <2>2. Shows(NewInstanceState)
    BY <1>2 DEF Shows
  <2> QED
    BY <1>2, <1>4, <2>1, <2>2, FS_EmptySet DEF Objects
<1>9. RobinInv
  <2>1. /\ window = [list |-> <<>>, count |-> [i \in Instances |-> 0], wraps |-> 0]
        /\ strategy \in {"round_robin", "random", "smart"}
        /\ counter \in 0 .. CounterSize - 1 /\ picks = 0
    BY DEF Init
  <2>2. window.list = <<>>
    BY <2>1
  <2>3. window \in [list : {<<>>} \cup Lists, count : [Instances -> Nat], wraps : Nat]
    BY <2>1
  <2> QED
    BY <2>1, <2>2, <2>3 DEF RobinInv, InRound
<1> QED
  BY <1>1, <1>4, <1>5, <1>7, <1>8, <1>9 DEF Inv, SmartInv

LEMMA StepKeeps ==
    ASSUME Inv, NEW r \in Requests, Step(r)
    PROVE  Inv'
<1> USE DEF Inv
<1>1. picks \in Nat
  BY DEF RobinInv
<1>2. CASE \E list \in Lists : Filter(r, list)
  <2>1. PICK list \in Lists : Filter(r, list)
    BY <1>2
  <2>2. UNCHANGED <<strategy, robin>> /\ picks' \in Nat
    BY <1>1, <2>1 DEF Filter
  <2> QED
    BY <2>1, <2>2, FilterKeeps, OtherTurnKeeps
<1>3. CASE PickRoundRobin(r)
  BY <1>3, PickKeeps, TurnKeeps
<1>4. CASE PickRandom(r)
  <2>1. UNCHANGED <<strategy, robin>> /\ picks' \in Nat
    BY <1>1, <1>4 DEF PickRandom
  <2> QED
    BY <1>4, <2>1, PickKeeps, OtherTurnKeeps
<1>5. CASE \E i \in Instances : Explore(r, i)
  <2>1. UNCHANGED <<strategy, robin>> /\ picks' \in Nat
    BY <1>1, <1>5 DEF Explore
  <2> QED
    BY <1>5, <2>1, ExploreKeeps, OtherTurnKeeps
<1>6. CASE Exploit(r)
  <2>1. UNCHANGED <<strategy, robin>> /\ picks' \in Nat
    BY <1>1, <1>6 DEF Exploit
  <2> QED
    BY <1>6, <2>1, ExploitKeeps, OtherTurnKeeps
<1>7. CASE GetStateHit(r)
  <2>1. UNCHANGED <<strategy, robin>> /\ picks' \in Nat
    BY <1>1, <1>7 DEF GetStateHit
  <2> QED
    BY <1>7, <2>1, HitKeeps, OtherTurnKeeps
<1>8. CASE GetStateMiss(r)
  <2>1. UNCHANGED <<strategy, robin>> /\ picks' \in Nat
    BY <1>1, <1>8 DEF GetStateMiss
  <2> QED
    BY <1>8, <2>1, MissKeeps, OtherTurnKeeps
<1>9. CASE GetStateInsert(r)
  <2>1. UNCHANGED <<strategy, robin>> /\ picks' \in Nat
    BY <1>1, <1>9 DEF GetStateInsert
  <2> QED
    BY <1>9, <2>1, InsertKeeps, OtherTurnKeeps
<1>10. CASE \E target \in 1 .. MaxTotal : Spin(r, target)
  <2>1. PICK target \in 1 .. MaxTotal : Spin(r, target)
    BY <1>10
  <2>2. UNCHANGED <<strategy, robin>> /\ picks' \in Nat
    BY <1>1, <2>1 DEF Spin
  <2> QED
    BY <2>1, <2>2, SpinKeeps, OtherTurnKeeps
<1>11. CASE \E latency \in Latencies, isErr \in BOOLEAN : Done(r, latency, isErr)
  <2>1. PICK latency \in Latencies, isErr \in BOOLEAN : Done(r, latency, isErr)
    BY <1>11
  <2>2. UNCHANGED <<strategy, robin>> /\ picks' \in Nat
    BY <1>1, <2>1 DEF Done
  <2>3. SmartInv'
    BY <2>1, DoneKeeps
  <2> QED
    BY <2>2, <2>3, OtherTurnKeeps
<1>12. CASE RecordLatency(r)
  <2>1. UNCHANGED <<strategy, robin>> /\ picks' \in Nat
    BY <1>1, <1>12 DEF RecordLatency
  <2> QED
    BY <1>12, <2>1, RecordLatencyKeeps, OtherTurnKeeps
<1>13. CASE RecordErrors(r)
  <2>1. UNCHANGED <<strategy, robin>> /\ picks' \in Nat
    BY <1>1, <1>13 DEF RecordErrors
  <2> QED
    BY <1>13, <2>1, RecordErrorsKeeps, OtherTurnKeeps
<1> QED
  BY <1>2, <1>3, <1>4, <1>5, <1>6, <1>7, <1>8, <1>9, <1>10, <1>11, <1>12, <1>13 DEF Step

LEMMA StutterKeeps == Inv /\ UNCHANGED vars => Inv'
<1> SUFFICES ASSUME Inv, UNCHANGED vars PROVE Inv'
  OBVIOUS
<1>1. /\ strategy' = strategy /\ counter' = counter /\ known' = known /\ states' = states
      /\ heap' = heap /\ req' = req /\ picks' = picks /\ window' = window
  BY DEF vars
<1>2. \A o : CallsOn(o)' = CallsOn(o)
  BY <1>1 DEF CallsOn
<1>3. \A r : Placed(r)' = Placed(r)
  BY <1>1 DEF Placed, Wanted
<1>4. SmartInv'
  BY <1>1, <1>2, <1>3 DEF Inv, SmartInv, Mapped, Objects
<1>5. RobinInv'
  BY <1>1 DEF Inv, RobinInv, InRound, Round
<1> QED
  BY <1>4, <1>5 DEF Inv

(* In every reachable state the smart balancer's objects agree with its    *)
(* goroutines and the round robin counter with its picks.                  *)
THEOREM Invariance == Spec => []Inv
<1>1. Inv /\ [Next]_vars => Inv'
  BY StepKeeps, StutterKeeps DEF Next
<1> QED
  BY <1>1, InitInv, PTL DEF Spec

-----------------------------------------------------------------------------
(* What follows from it.                                                   *)

(* Balancers, objects and goroutines keep their types: no goroutine works  *)
(* on an object that does not exist, whoever overwrote the map meanwhile.  *)
THEOREM TypeCorrect == Spec => []TypeOK
<1>1. Inv => TypeOK
  BY DEF Inv, SmartInv, RobinInv, TypeOK
<1> QED
  BY <1>1, Invariance, PTL

(* RecordStart and the done callback balance: in-flight numbers are exact, *)
(* on objects the race of two getState calls dropped from the map as well, *)
(* and for the instances New was given they are all the calls to them.     *)
THEOREM LoadIsExact == Spec => []InflightAccounted
<1>1. Inv => InflightAccounted
  <2> SUFFICES ASSUME Inv PROVE InflightAccounted
    OBVIOUS
  <2>1. \A o \in 1 .. Len(heap) : heap[o].inflight = Cardinality(CallsOn(o))
    BY DEF Inv, SmartInv, Objects
  <2>2. ASSUME NEW i \in known
        PROVE  heap[states[i]].inflight = Cardinality(CallsTo(i))
    <3>1. /\ states[i] \in 0 .. Len(heap) /\ states[i] # 0 /\ Len(heap) \in Nat
      BY DEF Inv, SmartInv, Mapped, None
    <3>2. states[i] \in 1 .. Len(heap)
      BY <3>1
    <3>3. \A r \in Requests :
             req[r].pc = "calling" => (req[r].inst = i <=> req[r].obj = states[i])
      BY DEF Inv, SmartInv, Placed
    <3>4. CallsTo(i) = CallsOn(states[i])
      BY <3>3 DEF CallsTo, CallsOn
    <3> QED
      BY <2>1, <3>2, <3>4
  <2> QED
    BY <2>1, <2>2 DEF InflightAccounted
<1> QED
  BY <1>1, Invariance, PTL

(* However the loads and stores of Record interleave, an instance whose    *)
(* recorded calls all failed shows a failure, one whose calls all          *)
(* succeeded shows none, and the error rate is a rate.                     *)
THEOREM FailuresShow == Spec => []FeedbackShows
<1>1. Inv => FeedbackShows
  <2> SUFFICES ASSUME Inv, NEW o \in 1 .. Len(heap)
               PROVE  /\ heap[o].outcomes = {TRUE} => heap[o].errors >= Ewma(ErrorAlpha, Scale, 0)
                      /\ heap[o].outcomes = {FALSE} => heap[o].errors = 0
                      /\ heap[o].errors \in 0 .. Scale
    BY DEF FeedbackShows
  <2>1. Shows(heap[o])
    BY DEF Inv, SmartInv, Objects
  <2>2. heap[o] \in InstanceState
    BY DEF Inv, SmartInv
  <2>3. heap[o].errors \in 0 .. Scale
    BY <2>2 DEF InstanceState
  <2> QED
    BY <2>1, <2>3 DEF Shows
<1> QED
  BY <1>1, Invariance, PTL

(* Concurrent requests that see the same list are spread evenly over it,   *)
(* but for one pick for each time the counter wraps.                       *)
THEOREM EvenSpread == Spec => []RoundRobinEven
<1>1. Inv => RoundRobinEven
  <2> SUFFICES ASSUME Inv, NEW i \in Range(window.list), NEW j \in Range(window.list)
               PROVE  window.count[i] <= window.count[j] + 1 + window.wraps
    BY DEF RoundRobinEven
  <2> DEFINE list == window.list  n == Len(list)
  <2>1. /\ list \in {<<>>} \cup Lists /\ window.count \in [Instances -> Nat]
        /\ window.wraps \in Nat
    BY DEF Inv, RobinInv
  <2>2. list # <<>>
    BY DEF Range
  <2>3. list \in Lists
    BY <2>1, <2>2
  <2>4. /\ n \in Nat /\ DOMAIN list = 1 .. n
        /\ \A k \in 1 .. n : list[k] \in Instances
    BY <2>3, ListFacts
  <2>5. PICK p \in 1 .. n, q \in 1 .. n : list[p] = i /\ list[q] = j
    BY <2>4 DEF Range
  <2>6. PICK s \in 0 .. n - 1 : Round(s)
    BY <2>2 DEF Inv, RobinInv, InRound
  <2> DEFINE m == counter % n
             x == ByPosition(list, window.count)
  <2>7. Ahead(x, n, s, m, window.wraps)
    BY <2>6 DEF Round, ByPosition
  <2>8. /\ p - 1 \in 0 .. n - 1 /\ q - 1 \in 0 .. n - 1
        /\ (p - 1) + 1 = p /\ (q - 1) + 1 = q
    BY <2>4
  <2>9. x[p - 1] = window.count[i] /\ x[q - 1] = window.count[j]
    BY <2>5, <2>8 DEF ByPosition
  <2> HIDE DEF x, m, n, list
  <2>10. x[p - 1] + Served(s, m, q - 1) <= x[q - 1] + Served(s, m, p - 1) + window.wraps
    BY <2>7, <2>8 DEF Ahead
  <2>11. Served(s, m, q - 1) \in {0, 1} /\ Served(s, m, p - 1) \in {0, 1}
    BY DEF Served
  <2>12. window.count[i] \in Nat /\ window.count[j] \in Nat
    BY <2>1, <2>4, <2>5
  <2> QED
    BY <2>1, <2>9, <2>10, <2>11, <2>12, SMTT(40)
<1> QED
  BY <1>1, Invariance, PTL

-----------------------------------------------------------------------------
(* The wheel.  Position k is the answer for the targets above the sum of   *)
(* the scores before it, up to its own.                                    *)

LEMMA RunningSum ==
    ASSUME NEW scores \in Seq(Nat), NEW k \in 1 .. Len(scores)
    PROVE  /\ Sum(scores, k) \in Nat /\ Sum(scores, k - 1) \in Nat
           /\ Sum(scores, k) = Sum(scores, k - 1) + scores[k]
<1>1. \A x \in 1 .. k : scores[x] \in Nat
  OBVIOUS
<1>2. k \in Int /\ 1 <= k /\ 1 .. k - 1 \in SUBSET (1 .. k) /\ IsFiniteSet(1 .. k)
  BY FS_Interval
<1>3. SumFunctionOnSet(scores, 1 .. k) = SumFunctionOnSet(scores, 1 .. k - 1) + scores[k]
  BY <1>1, <1>2, SumLast
<1>4. /\ SumFunctionOnSet(scores, 1 .. k) \in Nat
      /\ SumFunctionOnSet(scores, 1 .. k - 1) \in Nat
  BY <1>1, <1>2, SumPart
<1> QED
  BY <1>3, <1>4 DEF Sum

LEMMA SumGrows ==
    ASSUME NEW scores \in Seq(Nat), NEW k \in 1 .. Len(scores), NEW j \in 0 .. k
    PROVE  Sum(scores, j) <= Sum(scores, k)
<1>1. \A x \in 1 .. k : scores[x] \in Nat
  OBVIOUS
<1>2. 1 .. j \in SUBSET (1 .. k) /\ IsFiniteSet(1 .. k)
  BY FS_Interval
<1> QED
  BY <1>1, <1>2, SumPart DEF Sum

LEMMA WheelAt ==
    ASSUME NEW scores \in Seq(Nat), NEW k \in 1 .. Len(scores),
           NEW t \in 1 .. Total(scores)
    PROVE  Wheel(scores, t) = k <=> Sum(scores, k - 1) < t /\ t <= Sum(scores, k)
<1> DEFINE n == Len(scores)
           hits == {m \in 1 .. n : Sum(scores, m) >= t}
<1>1. n \in Nat /\ n >= 1 /\ n \in 1 .. n
  OBVIOUS
<1>2. \A m \in 1 .. n : Sum(scores, m) \in Nat /\ Sum(scores, m - 1) \in Nat
  BY RunningSum
<1>3. t \in Nat /\ t >= 1 /\ n \in hits
  BY <1>1, <1>2 DEF Total
<1>4. hits \in SUBSET Nat /\ hits # {}
  BY <1>3
<1>5. Min(hits) \in hits /\ \A y \in hits : Min(hits) <= y
  BY <1>4, Least
<1>6. Wheel(scores, t) = Min(hits)
  BY <1>4 DEF Wheel
<1>7. \A m \in 1 .. n : m \in hits <=> t <= Sum(scores, m)
  BY <1>2, <1>3
<1>8. \A m \in hits : m \in 1 .. n
  OBVIOUS
<1> HIDE DEF hits
<1>9. ASSUME Min(hits) = k PROVE Sum(scores, k - 1) < t /\ t <= Sum(scores, k)
  <2>1. t <= Sum(scores, k)
    BY <1>5, <1>7, <1>9
  <2>2. Sum(scores, k - 1) < t
    <3>1. CASE k = 1
      <4>1. 1 .. k - 1 = {}
        BY <3>1
      <4>2. Sum(scores, k - 1) = 0
        BY <4>1, SumEmpty DEF Sum
      <4> QED
        BY <1>3, <4>2
    <3>2. CASE k # 1
      <4>1. k - 1 \in 1 .. n /\ ~ k <= k - 1
        BY <3>2
      <4>2. k - 1 \notin hits
        BY <1>5, <1>9, <4>1
      <4>3. ~ t <= Sum(scores, k - 1)
        BY <1>7, <4>1, <4>2
      <4> QED
        BY <1>2, <1>3, <4>3
    <3> QED
      BY <3>1, <3>2
  <2> QED
    BY <2>1, <2>2
<1>10. ASSUME Sum(scores, k - 1) < t, t <= Sum(scores, k) PROVE Min(hits) = k
  <2>1. PICK m : m = Min(hits)
    OBVIOUS
  <2>2. m \in 1 .. n /\ t <= Sum(scores, m)
    BY <1>5, <1>7, <1>8, <2>1
  <2>3. m <= k
    BY <1>5, <1>7, <1>10, <2>1
  <2>4. ASSUME m # k PROVE FALSE
    <3>1. k - 1 \in 1 .. n /\ m \in 0 .. k - 1
      BY <2>2, <2>3, <2>4
    <3>2. Sum(scores, m) <= Sum(scores, k - 1)
      BY <3>1, SumGrows
    <3> QED
      BY <1>2, <1>3, <1>10, <2>2, <3>2
  <2> QED
    BY <2>1, <2>4
<1> QED
  BY <1>6, <1>9, <1>10

(* So it is the answer for as many targets as its score.                   *)
LEMMA ShareIsScore ==
    ASSUME NEW scores \in Seq(Nat), NEW k \in 1 .. Len(scores)
    PROVE  Cardinality({t \in 1 .. Total(scores) : Wheel(scores, t) = k}) = scores[k]
<1> DEFINE a == Sum(scores, k - 1)
           b == Sum(scores, k)
           n == Len(scores)
<1>1. a \in Nat /\ b \in Nat /\ b = a + scores[k] /\ scores[k] \in Nat
  BY RunningSum
<1>2. n \in 1 .. n /\ k \in 0 .. n
  OBVIOUS
<1>3. b <= Total(scores) /\ Total(scores) \in Nat
  BY <1>2, SumGrows, RunningSum DEF Total
<1>4. \A t \in 1 .. Total(scores) : Wheel(scores, t) = k <=> a < t /\ t <= b
  BY WheelAt
<1> HIDE DEF a, b
<1>5. {t \in 1 .. Total(scores) : Wheel(scores, t) = k} = a + 1 .. b
  BY <1>1, <1>3, <1>4
<1>6. a + 1 \in Int /\ b \in Int
  BY <1>1
<1>7. Cardinality(a + 1 .. b) = IF a + 1 > b THEN 0 ELSE b - (a + 1) + 1
  BY <1>6, FS_Interval, Zenon
<1>8. (IF a + 1 > b THEN 0 ELSE b - (a + 1) + 1) = scores[k]
  BY <1>1
<1> QED
  BY <1>5, <1>7, <1>8

(* No score is below the floor.                                            *)
Floored ==
    \A r \in Requests : \A k \in 1 .. Len(req[r].scores) : req[r].scores[k] >= MinScore

(* What a step does to the scores of its goroutine; it touches no other.   *)
Scores(r) ==
    /\ \A t \in Requests : t # r => req'[t].scores = req[t].scores
    /\ \/ req'[r].scores = req[r].scores
       \/ req'[r].scores = <<>>
       \/ \E s \in InstanceState : req'[r].scores = Append(req[r].scores, Score(s))

LEMMA WithStateScores ==
    ASSUME SmartInv, NEW r \in Requests, NEW h \in Seq(InstanceState),
           NEW o \in 1 .. Len(h), WithState(r, o, h)
    PROVE  Scores(r)
<1>1. h[o] \in InstanceState
  OBVIOUS
<1>2. req \in [Requests -> RequestRecord]
  BY DEF SmartInv
<1>3. CASE req[r].inst # None
  BY <1>2, <1>3 DEF WithState, Scores, RequestRecord
<1>4. CASE req[r].inst = None
  <2>1. req'[r].scores = Append(req[r].scores, Score(h[o]))
    BY <1>2, <1>4 DEF WithState, RequestRecord
  <2>2. \A t \in Requests : t # r => req'[t].scores = req[t].scores
    BY <1>2, <1>4 DEF WithState
  <2> QED
    BY <1>1, <2>1, <2>2 DEF Scores
<1> QED
  BY <1>3, <1>4

LEMMA StepScores ==
    ASSUME SmartInv, NEW r \in Requests, Step(r)
    PROVE  Scores(r)
<1>1. /\ req \in [Requests -> RequestRecord] /\ heap \in Seq(InstanceState)
      /\ states \in [Instances -> 0 .. Len(heap)]
  BY DEF SmartInv
<1>2. ASSUME NEW list \in Lists, Filter(r, list) PROVE Scores(r)
  BY <1>1, <1>2 DEF Filter, Scores, RequestRecord
<1>3. CASE PickRoundRobin(r)
  BY <1>1, <1>3 DEF PickRoundRobin, Scores, Idle
<1>4. CASE PickRandom(r)
  BY <1>1, <1>4 DEF PickRandom, Scores, Idle
<1>5. ASSUME NEW i \in Instances, Explore(r, i) PROVE Scores(r)
  BY <1>1, <1>5 DEF Explore, Scores, Idle
<1>6. CASE Exploit(r)
  BY <1>1, <1>6 DEF Exploit, Scores, RequestRecord
<1>7. CASE GetStateHit(r)
  <2>1. Wanted(r) \in Instances
    BY <1>7, WantedType DEF GetStateHit
  <2>2. states[Wanted(r)] \in 1 .. Len(heap) /\ WithState(r, states[Wanted(r)], heap)
    BY <1>1, <1>7, <2>1 DEF GetStateHit, None
  <2> QED
    BY <1>1, <2>2, WithStateScores
<1>8. CASE GetStateMiss(r)
  BY <1>1, <1>8 DEF GetStateMiss, Scores, RequestRecord
<1>9. CASE GetStateInsert(r)
  <2> DEFINE h == Append(heap, NewInstanceState)
  <2>1. NewInstanceState \in InstanceState
    BY Constants DEF NewInstanceState, InstanceState
  <2>2. h \in Seq(InstanceState) /\ Len(heap) + 1 \in 1 .. Len(h)
    BY <1>1, <2>1
  <2>3. WithState(r, Len(heap) + 1, h)
    BY <1>9 DEF GetStateInsert
  <2> HIDE DEF h
  <2> QED
    BY <2>2, <2>3, WithStateScores
<1>10. ASSUME NEW target \in 1 .. MaxTotal, Spin(r, target) PROVE Scores(r)
  BY <1>1, <1>10 DEF Spin, Scores, Idle
<1>11. ASSUME NEW latency \in Latencies, NEW isErr \in BOOLEAN, Done(r, latency, isErr)
       PROVE  Scores(r)
  BY <1>1, <1>11 DEF Done, Scores, RequestRecord
<1>12. CASE RecordLatency(r)
  BY <1>1, <1>12 DEF RecordLatency, Scores, RequestRecord
<1>13. CASE RecordErrors(r)
  BY <1>1, <1>13 DEF RecordErrors, Scores, Idle
<1> QED
  BY <1>2, <1>3, <1>4, <1>5, <1>6, <1>7, <1>8, <1>9, <1>10, <1>11, <1>12, <1>13 DEF Step

LEMMA FlooredInductive ==
    ASSUME SmartInv, Floored, NEW r \in Requests, Step(r)
    PROVE  Floored'
<1>1. Scores(r)
  BY StepScores
<1>2. SUFFICES ASSUME NEW t \in Requests, NEW k \in 1 .. Len(req'[t].scores)
               PROVE  req'[t].scores[k] >= MinScore
  BY DEF Floored
<1>3. req[t].scores \in Seq(Nat)
  BY DEF SmartInv, RequestRecord
<1>4. CASE t # r
  BY <1>1, <1>4 DEF Scores, Floored
<1>5. CASE t = r
  <2>1. CASE req'[r].scores = req[r].scores
    BY <1>5, <2>1 DEF Floored
  <2>2. CASE req'[r].scores = <<>>
    BY <1>5, <2>2
  <2>3. ASSUME NEW s \in InstanceState, req'[r].scores = Append(req[r].scores, Score(s))
        PROVE  req'[t].scores[k] >= MinScore
    <3>1. Score(s) \in Nat /\ Score(s) >= MinScore
      BY ScoreType
    <3>2. PICK old \in Seq(Nat) : old = req[r].scores
      BY <1>3, <1>5
    <3>3. PICK new : new = req'[t].scores
      OBVIOUS
    <3>4. new = Append(old, Score(s)) /\ k \in 1 .. Len(new)
      BY <1>5, <2>3, <3>2, <3>3
    <3>5. k \in 1 .. Len(old) => new[k] = old[k] /\ old[k] >= MinScore
      BY <1>5, <3>1, <3>2, <3>4 DEF Floored
    <3>6. k \notin 1 .. Len(old) => new[k] = Score(s)
      BY <3>1, <3>4
    <3> QED
      BY <3>1, <3>3, <3>5, <3>6
  <2> QED
    BY <1>1, <2>1, <2>2, <2>3 DEF Scores
<1> QED
  BY <1>4, <1>5

(* The roulette wheel (balancer.go:134-165): each eligible instance is the *)
(* answer for exactly its score of the targets, and for at least the floor *)
(* of them, whatever the scores are.                                       *)
THEOREM FairWheel == Spec => []WheelIsFair
<1>1. Init => Floored
  BY DEF Init, Floored, Idle
<1>2. Inv /\ Floored /\ [Next]_vars => Floored'
  <2> SUFFICES ASSUME Inv, Floored, [Next]_vars PROVE Floored'
    OBVIOUS
  <2>1. CASE Next
    BY <2>1, FlooredInductive DEF Next, Inv
  <2>2. CASE UNCHANGED vars
    BY <2>2 DEF vars, Floored
  <2> QED
    BY <2>1, <2>2
<1>3. Inv /\ Floored => WheelIsFair
  <2> SUFFICES ASSUME Inv, Floored, NEW r \in Requests, NEW k \in 1 .. Len(req[r].scores)
               PROVE  LET scores == req[r].scores
                          share == Cardinality({t \in 1 .. Total(scores) : Wheel(scores, t) = k})
                      IN share = scores[k] /\ share >= MinScore
    BY DEF WheelIsFair
  <2>1. req[r].scores \in Seq(Nat)
    BY DEF Inv, SmartInv, RequestRecord
  <2>2. Cardinality({t \in 1 .. Total(req[r].scores) : Wheel(req[r].scores, t) = k})
           = req[r].scores[k]
    BY <2>1, ShareIsScore
  <2>3. req[r].scores[k] >= MinScore
    BY DEF Floored
  <2> QED
    BY <2>2, <2>3
<1> QED
  BY <1>1, <1>2, <1>3, Invariance, PTL DEF Spec
=============================================================================
