---------------------------- MODULE RuntimeDrain ----------------------------
(***************************************************************************)
(* Requests, the runtime each of them captured, and the retirement of old  *)
(* runtimes: server.loadShed and Handler.ServeHTTP on one side, the swap   *)
(* and the sleeping goroutine of Reloader.applyReload and                  *)
(* GatewayRuntime.Close on the other.  Which config a version was built    *)
(* from, and builds that fail, are in module ConfigReload.                 *)
(*                                                                         *)
(* Time is counted in ticks.  Every request carries the deadline the       *)
(* Timeout middleware gives it.  The deadline cancels its context and      *)
(* nothing else: a handler may go on after it for as long as it likes, and *)
(* the clock waits for nobody.                                             *)
(***************************************************************************)
EXTENDS Integers, FiniteSets

CONSTANTS
    Requests,        \* the goroutines that serve requests
    MaxConcurrent,   \* slots of the load shedder
    RequestTimeout,  \* ticks the Timeout middleware grants a request
    DrainWindow,     \* ticks a retired runtime is kept open
    MaxVersion       \* bound on the number of reloads

ASSUME DrainAssumption ==
    /\ MaxConcurrent \in Nat \ {0}
    /\ RequestTimeout \in Nat \ {0}    \* Timeout replaces 0 by 30 seconds
    /\ DrainWindow \in Nat
    /\ MaxVersion \in Nat

VARIABLES
    serving,    \* version of the runtime in the RuntimeHolder
    draining,   \* retired version -> ticks its goroutine still sleeps
    closed,     \* versions whose plugin chains have been closed
    sem,        \* occupied slots of the load shedder
    req         \* request -> [pc, rt (captured version), ttl (ticks to its deadline)]

drainVars == <<serving, draining, closed, sem, req>>

Versions == 0 .. MaxVersion

PCs == {"idle", "entered", "routed", "proxying", "responding", "done"}

(* Steps of a request that is inside the handler.                          *)
Active(r) == req[r].pc # "idle"

(* The request holds a pointer to its runtime and may still call into it.  *)
Holds(r, v) == req[r].pc \in {"routed", "proxying", "responding"} /\ req[r].rt = v

Idle == [pc |-> "idle", rt |-> 0, ttl |-> 0]

DrainInit ==
    /\ serving = 0
    /\ draining = [v \in {} |-> 0]
    /\ closed = {}
    /\ sem = 0
    /\ req = [r \in Requests |-> Idle]

Goto(r, pc) ==
    /\ req' = [req EXCEPT ![r].pc = pc]
    /\ UNCHANGED <<serving, draining, closed>>

-----------------------------------------------------------------------------
(* The deadline the Timeout middleware puts on the request's context: a    *)
(* number of ticks that runs down, and stays at 0 once it has passed.      *)
Timeout == RequestTimeout

(* loadShed takes a slot, Timeout sets the deadline.  With no slot free    *)
(* the request is answered 503 and changes nothing.                        *)
Enter(r) ==
    /\ req[r].pc = "idle"
    /\ sem < MaxConcurrent
    /\ sem' = sem + 1
    /\ req' = [req EXCEPT ![r] = [pc |-> "entered", rt |-> 0, ttl |-> Timeout]]
    /\ UNCHANGED <<serving, draining, closed>>

(* ServeHTTP step 2: the atomic load of the runtime pointer.               *)
Snapshot(r) ==
    /\ req[r].pc = "entered"
    /\ req' = [req EXCEPT ![r] = [pc |-> "routed", rt |-> serving, ttl |-> req[r].ttl]]
    /\ UNCHANGED <<serving, draining, closed, sem>>

(* Step 3 fails: no route matches, the request is answered 404.            *)
NotFound(r) ==
    /\ req[r].pc = "routed"
    /\ Goto(r, "done")
    /\ UNCHANGED sem

(* Steps 3-6: the route matches and its pre-request chain runs; a plugin   *)
(* that aborts answers the request, which skips the proxy.                 *)
RequestChain(r) ==
    /\ req[r].pc = "routed"
    /\ \E next \in {"proxying", "responding"} : Goto(r, next)
    /\ UNCHANGED sem

(* Step 7: the upstream call.                                              *)
Upstream(r) ==
    /\ req[r].pc = "proxying"
    /\ Goto(r, "responding")
    /\ UNCHANGED sem

(* Step 8: the post-response chain, of the captured runtime.               *)
ResponseChain(r) ==
    /\ req[r].pc = "responding"
    /\ Goto(r, "done")
    /\ UNCHANGED sem

(* The handler returns and the deferred receive frees the slot.            *)
Leave(r) ==
    /\ req[r].pc = "done"
    /\ sem' = sem - 1
    /\ req' = [req EXCEPT ![r] = Idle]
    /\ UNCHANGED <<serving, draining, closed>>

(* A panicking handler keeps its slot.                                     *)
PanicKeepsSlot(r) ==
    /\ req[r].pc \in {"entered", "routed", "proxying", "responding"}
    /\ req' = [req EXCEPT ![r] = Idle]
    /\ UNCHANGED <<serving, draining, closed, sem>>

(* The handler panics anywhere (Recovery answers 500, or net/http ends the *)
(* connection): the deferred receive of loadShed frees the slot as well.   *)
Panic(r) ==
    /\ req[r].pc \in {"entered", "routed", "proxying", "responding"}
    /\ sem' = sem - 1
    /\ req' = [req EXCEPT ![r] = Idle]
    /\ UNCHANGED <<serving, draining, closed>>

-----------------------------------------------------------------------------
(* The sleep of the retiring goroutine is left out.                        *)
SwapWithoutDrain ==
    /\ serving < MaxVersion
    /\ serving' = serving + 1
    /\ draining' = [v \in DOMAIN draining \cup {serving} |->
                        IF v = serving THEN 0 ELSE draining[v]]
    /\ UNCHANGED <<closed, sem, req>>

(* The new runtime, not the old one, is handed to the goroutine.           *)
SwapRetiresNew ==
    /\ serving < MaxVersion
    /\ serving' = serving + 1
    /\ draining' = [v \in DOMAIN draining \cup {serving + 1} |->
                        IF v = serving + 1 THEN DrainWindow ELSE draining[v]]
    /\ UNCHANGED <<closed, sem, req>>

(* The old runtime is dropped without a goroutine to close it.             *)
SwapForgetsOld ==
    /\ serving < MaxVersion
    /\ serving' = serving + 1
    /\ UNCHANGED <<draining, closed, sem, req>>

(* applyReload steps 3 and 4: swap the pointer, start the goroutine that   *)
(* sleeps DrainWindow before it closes the old runtime.                    *)
Swap ==
    /\ serving < MaxVersion
    /\ serving' = serving + 1
    /\ draining' = [v \in DOMAIN draining \cup {serving} |->
                        IF v = serving THEN DrainWindow ELSE draining[v]]
    /\ UNCHANGED <<closed, sem, req>>

(* The sleep is over: oldRT.Close() closes the chains of every route.      *)
Close(v) ==
    /\ v \in DOMAIN draining
    /\ draining[v] = 0
    /\ closed' = closed \cup {v}
    /\ draining' = [u \in DOMAIN draining \ {v} |-> draining[u]]
    /\ UNCHANGED <<serving, sem, req>>

(* One tick of the clock, for the deadlines and for the sleepers.          *)
Tick ==
    /\ req' = [r \in Requests |->
                 IF req[r].ttl > 0 THEN [req[r] EXCEPT !.ttl = @ - 1] ELSE req[r]]
    /\ draining' = [v \in DOMAIN draining |->
                      IF draining[v] > 0 THEN draining[v] - 1 ELSE 0]
    /\ UNCHANGED <<serving, closed, sem>>

-----------------------------------------------------------------------------
Step(r) ==
    \/ Snapshot(r) \/ NotFound(r) \/ RequestChain(r)
    \/ Upstream(r) \/ ResponseChain(r) \/ Leave(r)

DrainNext ==
    \/ \E r \in Requests : Enter(r) \/ Step(r) \/ Panic(r)
    \/ Swap
    \/ \E v \in Versions : Close(v)
    \/ Tick

(* Sleeping goroutines wake up and time passes.  Neither new requests nor  *)
(* reloads are assumed, nor that a handler ever returns.                   *)
DrainFairness ==
    /\ \A v \in Versions : WF_drainVars(Close(v))
    /\ WF_drainVars(Tick)

DrainSpec == DrainInit /\ [][DrainNext]_drainVars

FairDrainSpec == DrainSpec /\ DrainFairness

-----------------------------------------------------------------------------
(* Versions, slots, timers and deadlines have their types.                 *)
DrainTypeOK ==
    /\ serving \in Versions
    /\ closed \subseteq Versions
    /\ DOMAIN draining \subseteq Versions
    /\ \A v \in DOMAIN draining : draining[v] \in 0 .. DrainWindow
    /\ sem \in Nat
    /\ req \in [Requests -> [pc : PCs, rt : Versions, ttl : 0 .. RequestTimeout]]

(* A runtime is closed under a request only once the deadline of that      *)
(* request has passed: with a drain window no shorter than the timeout     *)
(* (loader.go:24, "Must be >= the longest configured route timeout") the   *)
(* sleep of applyReload's goroutine covers all the time a request has.     *)
DrainCoversDeadline ==
    \A r \in Requests, v \in closed : Holds(r, v) => req[r].ttl = 0

(* No request runs a plugin of a runtime whose chains have been closed     *)
(* (handler.go:55-57, "safe and consistent for its full lifetime").  The   *)
(* code does not keep this: it waits for DrainWindow and never for the     *)
(* request, whose response chain runs after the deadline as well.          *)
NoUseAfterClose == \A r \in Requests, v \in closed : ~Holds(r, v)

(* Every version is in exactly one place: it is the current one, or its    *)
(* goroutine sleeps, or it is closed.  None leaks, none is closed while it *)
(* can still be captured (applyReload).                                    *)
OneLifeCycle ==
    /\ closed \cap DOMAIN draining = {}
    /\ closed \cup DOMAIN draining = 0 .. serving - 1

(* No more than MaxConcurrent requests are in the handler, and every slot  *)
(* taken belongs to one of them: no path out of the handler, a panic       *)
(* included, keeps a slot (loadShed).                                      *)
SlotsAccounted ==
    /\ sem <= MaxConcurrent
    /\ sem = Cardinality({r \in Requests : Active(r)})

(* A runtime that has been replaced is closed in the end (applyReload's    *)
(* goroutine), however long requests keep it busy.                         *)
RetiredIsClosed == \A v \in Versions : (v < serving) ~> (v \in closed)
=============================================================================
