------------------------------ MODULE Balancers ------------------------------
(***************************************************************************)
(* The balancers of one service under concurrent requests: round robin     *)
(* with its shared counter, random, and smart with the feedback of         *)
(* finished requests.  Which instances are eligible depends on health      *)
(* flags and breakers that are read one by one while they change, so a     *)
(* request may see any subset; an empty one changes nothing and is left    *)
(* out.                                                                    *)
(*                                                                         *)
(* The smart balancer's map holds pointers to InstanceState objects, here  *)
(* positions in heap; two requests that miss the same instance each make   *)
(* an object, and one of them is lost from the map.  Its floating point    *)
(* numbers are integers in units of 1 / Scale.  A step holds at most one   *)
(* access to the map and one to each of the atomic fields of an object.    *)
(***************************************************************************)
EXTENDS Integers, Sequences, FiniteSets, SequencesExt, FiniteSetsExt

CONSTANTS
    Requests,           \* goroutines, each one request at a time
    N,                  \* instances of the service, 1 to N in list order
    CounterSize,        \* the counter wraps here, 2^64 in the code
    Scale,              \* 1.0
    InitialLatency,     \* NewInstanceState's baseline
    MaxLatency,         \* MaxTolerableLatency
    MaxConcurrent,      \* MaxConcurrentRequest
    Weights,            \* latency, errors and load
    MinScore,           \* the floor of a score
    LatencyAlpha,       \* EWMA weight of a new latency, in units of 1 / Scale
    ErrorAlpha,         \* EWMA weight of a new error, in units of 1 / Scale
    Latencies,          \* measured latencies
    MaxPicks            \* bound on the number of picks

(* Nothing validates the two maxima: where the code lets them be 0, a      *)
(* score may be NaN, which this assumption leaves out.                     *)
ASSUME BalancersAssumption ==
    /\ IsFiniteSet(Requests)
    /\ {N, Scale, CounterSize, MaxLatency, MaxConcurrent, MinScore} \subseteq Nat \ {0}
    /\ {InitialLatency, MaxPicks} \cup Latencies \subseteq Nat
    /\ Weights \in [{"latency", "errors", "load"} -> Nat]
    /\ LatencyAlpha \in 1 .. Scale /\ ErrorAlpha \in 1 .. Scale

VARIABLES
    strategy,   \* which balancer the service has
    counter,    \* RoundRobin.counter
    known,      \* instances that New was given
    states,     \* Balancer.states: instance to object, None if absent
    heap,       \* the InstanceState objects made so far
    req,        \* the goroutines
    picks,      \* picks so far
    window      \* auxiliary: round robin picks from an unchanged list

vars == <<strategy, counter, known, states, heap, req, picks, window>>
robin == <<counter, window>>
smart == <<states, heap>>

Instances == 1 .. N
None == 0

(* What a filter may leave of the instances: some, in their order.         *)
Lists ==
    {list \in SeqOf(Instances, N) :
        list # <<>> /\ \A j, k \in DOMAIN list : j < k => list[j] < list[k]}

(* outcomes is auxiliary: the isErr of every call recorded here.           *)
NewInstanceState == [inflight |-> 0, latency |-> InitialLatency, errors |-> 0,
                     outcomes |-> {}]

(* pc is where in Next or in Record the goroutine is; eligible the list    *)
(* filterEligible made; scores those computed so far; inst and obj the     *)
(* chosen instance and its state; latency and isErr the sample of a        *)
(* finished call; old the average that was loaded.                         *)
Idle == [pc |-> "idle", eligible |-> <<>>, scores |-> <<>>, inst |-> None,
         obj |-> None, latency |-> 0, isErr |-> FALSE, old |-> 0]

(* A balancer that has served any number of requests, or a smart one that  *)
(* was made for the instances of an earlier config.                        *)
Init ==
    /\ strategy \in {"round_robin", "random", "smart"}
    /\ counter \in 0 .. CounterSize - 1
    /\ known \in SUBSET Instances
    /\ strategy # "smart" => known = {}
    /\ strategy # "round_robin" => counter = 0
    /\ heap = [o \in 1 .. Cardinality(known) |-> NewInstanceState]
    /\ states = [i \in Instances |->
                   IF i \in known THEN Cardinality({j \in known : j <= i}) ELSE None]
    /\ req = [r \in Requests |-> Idle]
    /\ picks = 0
    /\ window = [list |-> <<>>, count |-> [i \in Instances |-> 0], wraps |-> 0]

-----------------------------------------------------------------------------
(* filterEligible, and the same loop in the smart balancer.                *)
Filter(r, list) ==
    /\ req[r].pc = "idle" /\ picks < MaxPicks
    /\ req' = [req EXCEPT ![r].pc = "pick", ![r].eligible = list]
    /\ picks' = picks + 1
    /\ UNCHANGED <<strategy, known, robin, smart>>

(* The request picks by the counter it saw and does not advance it.        *)
PickWithoutAdvance(r) ==
    LET list == req[r].eligible
        selected == list[(counter % Len(list)) + 1]
        w == IF window.list = list THEN window
             ELSE [list |-> list, count |-> [i \in Instances |-> 0], wraps |-> 0]
    IN /\ strategy = "round_robin" /\ req[r].pc = "pick"
       /\ window' = [w EXCEPT !.count[selected] = @ + 1]
       /\ req' = [req EXCEPT ![r] = Idle]
       /\ UNCHANGED <<strategy, counter, known, smart, picks>>

(* RoundRobin.Next: the counter is advanced by one and its old value taken *)
(* modulo the length of this request's list.                               *)
PickRoundRobin(r) ==
    LET list == req[r].eligible
        n == (counter + 1) % CounterSize
        selected == list[(((n - 1) % CounterSize) % Len(list)) + 1]
        w == IF window.list = list THEN window
             ELSE [list |-> list, count |-> [i \in Instances |-> 0], wraps |-> 0]
    IN /\ strategy = "round_robin" /\ req[r].pc = "pick"
       /\ counter' = n
       /\ window' = [w EXCEPT !.count[selected] = @ + 1,
                              !.wraps = @ + (IF n = 0 THEN 1 ELSE 0)]
       /\ req' = [req EXCEPT ![r] = Idle]
       /\ UNCHANGED <<strategy, known, smart, picks>>

(* Random.Next: any of the list; nothing is kept.                          *)
PickRandom(r) ==
    /\ strategy = "random" /\ req[r].pc = "pick"
    /\ req' = [req EXCEPT ![r] = Idle]
    /\ UNCHANGED <<strategy, known, robin, smart, picks>>

-----------------------------------------------------------------------------
(* One minus a share, cut off at zero.                                     *)
Left(used, limit) == Max({0, (Scale * (limit - used)) \div limit})

(* The weighted sum of what is left of latency, error rate and load.       *)
RawScore(s) ==
    Weights.latency * Left(s.latency, MaxLatency)
    + Weights.errors * Left(s.errors, Scale)
    + Weights.load * Left(s.inflight, MaxConcurrent)

(* What an instance is worth: that sum, but at least the floor.            *)
Score(s) == Max({MinScore, RawScore(s)})

(* The running sum of the first k scores, and the sum of all.              *)
Sum(scores, k) == SumFunctionOnSet(scores, 1 .. k)
Total(scores) == Sum(scores, Len(scores))

(* The roulette wheel: the first position at which the running sum reaches *)
(* the target, else the last.                                              *)
Wheel(scores, target) ==
    LET hits == {k \in 1 .. Len(scores) : Sum(scores, k) >= target}
    IN IF hits = {} THEN Len(scores) ELSE Min(hits)

(* Exploration, by chance or because there is no choice.                   *)
Explore(r, i) ==
    /\ strategy = "smart" /\ req[r].pc = "pick"
    /\ i \in Range(req[r].eligible)
    /\ req' = [req EXCEPT ![r] = [Idle EXCEPT !.pc = "start", !.inst = i]]
    /\ UNCHANGED <<strategy, known, robin, smart, picks>>

Exploit(r) ==
    /\ strategy = "smart" /\ req[r].pc = "pick"
    /\ Len(req[r].eligible) > 1
    /\ req' = [req EXCEPT ![r].pc = "score"]
    /\ UNCHANGED <<strategy, known, robin, smart, picks>>

(* The instance whose state getState is asked for.                         *)
Wanted(r) ==
    IF req[r].inst # None THEN req[r].inst ELSE req[r].eligible[Len(req[r].scores) + 1]

(* What the caller of getState does with object o of heap h: it scores the *)
(* instance, or counts the call in and goes off to make it.                *)
WithState(r, o, h) ==
    IF req[r].inst # None
    THEN /\ heap' = [h EXCEPT ![o].inflight = @ + 1]
         /\ req' = [req EXCEPT ![r].pc = "calling", ![r].obj = o]
    ELSE /\ heap' = h
         /\ req' = [req EXCEPT
               ![r].scores = Append(@, Score(h[o])),
               ![r].pc = IF Len(req[r].scores) + 1 = Len(req[r].eligible)
                         THEN "wheel" ELSE "score"]

(* getState finds the instance in the map.                                 *)
GetStateHit(r) ==
    /\ req[r].pc \in {"score", "start"}
    /\ states[Wanted(r)] # None
    /\ WithState(r, states[Wanted(r)], heap)
    /\ UNCHANGED <<strategy, known, robin, states, picks>>

(* It does not; the map is written later, without a lock.  Where the Go    *)
(* runtime notices two accesses at once it stops the process, which ends   *)
(* the behaviour here.                                                     *)
GetStateMiss(r) ==
    /\ req[r].pc \in {"score", "start"}
    /\ states[Wanted(r)] = None
    /\ req' = [req EXCEPT ![r].pc = "insert"]
    /\ UNCHANGED <<strategy, known, robin, smart, picks>>

GetStateInsert(r) ==
    /\ req[r].pc = "insert"
    /\ states' = [states EXCEPT ![Wanted(r)] = Len(heap) + 1]
    /\ WithState(r, Len(heap) + 1, Append(heap, NewInstanceState))
    /\ UNCHANGED <<strategy, known, robin, picks>>

(* Any instance may be the answer, each for its share of the targets.      *)
Spin(r, target) ==
    /\ req[r].pc = "wheel"
    /\ target <= Total(req[r].scores)
    /\ req' = [req EXCEPT ![r] = [Idle EXCEPT !.pc = "start",
                 !.inst = req[r].eligible[Wheel(req[r].scores, target)]]]
    /\ UNCHANGED <<strategy, known, robin, smart, picks>>

-----------------------------------------------------------------------------
(* The old value keeps its full weight.                                    *)
EwmaKeepsOld(alpha, sample, old) == (alpha * sample + Scale * old + Scale \div 2) \div Scale

(* The weighted average of a sample and the old value, to the nearest.     *)
Ewma(alpha, sample, old) ==
    (alpha * sample + (Scale - alpha) * old + Scale \div 2) \div Scale

(* The callback looks its instance up again.                               *)
DoneByInstance(r, latency, isErr) ==
    LET o == states[req[r].inst]
    IN /\ req[r].pc = "calling"
       /\ heap' = [heap EXCEPT ![o].inflight = @ - 1]
       /\ req' = [req EXCEPT ![r].pc = "latency", ![r].latency = latency,
                             ![r].isErr = isErr, ![r].old = heap[o].latency]
       /\ UNCHANGED <<strategy, known, robin, states, picks>>

(* The done callback of a finished call: it leaves, and Record loads the   *)
(* old latency of the object it was started with.                          *)
Done(r, latency, isErr) ==
    LET o == req[r].obj
    IN /\ req[r].pc = "calling"
       /\ heap' = [heap EXCEPT ![o].inflight = @ - 1]
       /\ req' = [req EXCEPT ![r].pc = "latency", ![r].latency = latency,
                             ![r].isErr = isErr, ![r].old = heap[o].latency]
       /\ UNCHANGED <<strategy, known, robin, states, picks>>

(* The new latency is stored and the old error rate loaded.                *)
RecordLatency(r) ==
    LET o == req[r].obj
    IN /\ req[r].pc = "latency"
       /\ heap' = [heap EXCEPT ![o].latency = Ewma(LatencyAlpha, req[r].latency, req[r].old)]
       /\ req' = [req EXCEPT ![r].pc = "errors", ![r].old = heap[o].errors]
       /\ UNCHANGED <<strategy, known, robin, states, picks>>

(* The new error rate is stored, over whatever others stored meanwhile.    *)
RecordErrors(r) ==
    LET o == req[r].obj
        errVal == IF req[r].isErr THEN Scale ELSE 0
    IN /\ req[r].pc = "errors"
       /\ heap' = [heap EXCEPT ![o].errors = Ewma(ErrorAlpha, errVal, req[r].old),
                               ![o].outcomes = @ \cup {req[r].isErr}]
       /\ req' = [req EXCEPT ![r] = Idle]
       /\ UNCHANGED <<strategy, known, robin, states, picks>>

MaxTotal == N * (Scale * (Weights.latency + Weights.errors + Weights.load) + MinScore)

Step(r) ==
    \/ \E list \in Lists : Filter(r, list)
    \/ PickRoundRobin(r) \/ PickRandom(r)
    \/ \E i \in Instances : Explore(r, i)
    \/ Exploit(r) \/ GetStateHit(r) \/ GetStateMiss(r) \/ GetStateInsert(r)
    \/ \E target \in 1 .. MaxTotal : Spin(r, target)
    \/ \E latency \in Latencies, isErr \in BOOLEAN : Done(r, latency, isErr)
    \/ RecordLatency(r) \/ RecordErrors(r)

Next == \E r \in Requests : Step(r)

Spec == Init /\ [][Next]_vars

-----------------------------------------------------------------------------
InstanceState ==
    [inflight : Int, latency : Nat, errors : 0 .. Scale, outcomes : SUBSET BOOLEAN]

RequestRecord ==
    [ pc : {"idle", "pick", "score", "wheel", "start", "insert", "calling", "latency",
            "errors"},
      eligible : {<<>>} \cup Lists, scores : Seq(Nat), inst : 0 .. N, obj : Nat,
      latency : Nat, isErr : BOOLEAN, old : Nat ]

(* Counter, map, objects and goroutines have their types.                  *)
TypeOK ==
    /\ strategy \in {"round_robin", "random", "smart"}
    /\ counter \in 0 .. CounterSize - 1
    /\ known \in SUBSET Instances
    /\ heap \in Seq(InstanceState)
    /\ states \in [Instances -> 0 .. Len(heap)]
    /\ req \in [Requests -> RequestRecord]
    /\ picks \in Nat
    /\ window \in [list : {<<>>} \cup Lists, count : [Instances -> Nat], wraps : Nat]

(* The goroutines that are making a call they counted in on object o, and  *)
(* those that are calling instance i.                                      *)
CallsOn(o) == {r \in Requests : req[r].pc = "calling" /\ req[r].obj = o}
CallsTo(i) == {r \in Requests : req[r].pc = "calling" /\ req[r].inst = i}

(* Every object's in-flight number is the number of calls that were        *)
(* started on it and have not ended, also of objects the race of two       *)
(* getState calls dropped from the map; so it never goes negative, and for *)
(* the instances New was given the load the balancer sees is the true one. *)
InflightAccounted ==
    /\ \A o \in 1 .. Len(heap) : heap[o].inflight = Cardinality(CallsOn(o))
    /\ \A i \in known : heap[states[i]].inflight = Cardinality(CallsTo(i))

(* Record loads and stores an average in separate steps, so concurrent     *)
(* updates are lost; they are never lost altogether.  An instance all of   *)
(* whose recorded calls failed shows at least the weight of one failure,   *)
(* and one all of whose calls succeeded shows none.                        *)
FeedbackShows ==
    \A o \in 1 .. Len(heap) :
        /\ heap[o].outcomes = {TRUE} => heap[o].errors >= Ewma(ErrorAlpha, Scale, 0)
        /\ heap[o].outcomes = {FALSE} => heap[o].errors = 0
        /\ heap[o].errors \in 0 .. Scale

(* "Roulette Wheel (Weighted Random Distribution)" and "baseline minimum   *)
(* probability to prevent strict 0 starvation" (balancer.go:135,148):      *)
(* however slow, failing or loaded the instances are, each eligible one is *)
(* the answer for exactly its score of the targets, never for none.        *)
WheelIsFair ==
    \A r \in Requests : req[r].pc = "wheel" =>
        LET scores == req[r].scores
        IN \A k \in 1 .. Len(scores) :
              LET share == Cardinality({t \in 1 .. Total(scores) : Wheel(scores, t) = k})
              IN share = scores[k] /\ share >= MinScore

(* While all requests see the same list, round robin serves its instances  *)
(* evenly: their numbers of picks differ by one at most, and by one more   *)
(* for each time the counter wraps, which breaks the cycle unless the      *)
(* length of the list divides 2^64.                                        *)
RoundRobinEven ==
    \A i, j \in Range(window.list) :
        window.count[i] <= window.count[j] + 1 + window.wraps
=============================================================================
