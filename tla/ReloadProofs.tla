---------------------------- MODULE ReloadProofs ----------------------------
(***************************************************************************)
(* Proofs about hot reload: modules RuntimeDrain, ConfigReload and         *)
(* ServiceRegistry.  The definitions that the three would share (Init,     *)
(* Next, Spec, TypeOK) carry a prefix in RuntimeDrain and ServiceRegistry. *)
(*                                                                         *)
(* First RuntimeDrain, for any number of requests, slots and reloads, and  *)
(* any deadline and drain window.  What relates requests to retired        *)
(* runtimes is Slack: the goroutine that will close a runtime has as much  *)
(* left to sleep as any request that holds it has until its deadline.      *)
(***************************************************************************)
EXTENDS RuntimeDrain, ConfigReload, ServiceRegistry, FiniteSetTheorems, TLAPS

ActiveSet == {r \in Requests : Active(r)}

(* The load shedder, with what makes its count meaningful.                 *)
SlotInv == IsFiniteSet(ActiveSet) /\ SlotsAccounted

(* A request only ever captured a version that was current.                *)
Captured == \A r \in Requests : req[r].rt <= serving

(* The sleeper outlasts the deadline.                                      *)
Slack ==
    \A r \in Requests : \A v \in DOMAIN draining :
        Holds(r, v) => draining[v] >= req[r].ttl

LifeInv == DrainTypeOK /\ SlotInv /\ OneLifeCycle

DrainInv == LifeInv /\ Captured /\ Slack /\ DrainCoversDeadline

-----------------------------------------------------------------------------
LEMMA InitLife == DrainInit => LifeInv
<1> SUFFICES ASSUME DrainInit PROVE LifeInv
  OBVIOUS
<1>1. DrainTypeOK
  BY DrainAssumption DEF DrainInit, DrainTypeOK, Versions, PCs, Idle
<1>2. ActiveSet = {}
  BY DEF DrainInit, ActiveSet, Active, Idle
<1>3. SlotInv
  BY <1>2, FS_EmptySet, DrainAssumption DEF DrainInit, SlotInv, SlotsAccounted, ActiveSet
<1>4. OneLifeCycle
  BY DEF DrainInit, OneLifeCycle
<1> QED
  BY <1>1, <1>3, <1>4 DEF LifeInv

(* A step that neither takes nor frees a slot.                             *)
LEMMA SlotsKept ==
    ASSUME SlotInv, ActiveSet' = ActiveSet, UNCHANGED sem
    PROVE  SlotInv'
  BY DEF SlotInv, SlotsAccounted, ActiveSet

LEMMA EnterSlots ==
    ASSUME LifeInv, NEW r \in Requests, Enter(r)
    PROVE  SlotInv'
<1>1. r \notin ActiveSet /\ ActiveSet' = ActiveSet \cup {r}
  BY DEF LifeInv, DrainTypeOK, Enter, ActiveSet, Active
<1>2. IsFiniteSet(ActiveSet) /\ sem = Cardinality(ActiveSet)
  BY DEF LifeInv, SlotInv, SlotsAccounted, ActiveSet
<1>3. /\ IsFiniteSet(ActiveSet')
      /\ Cardinality(ActiveSet') = Cardinality(ActiveSet) + 1
  BY <1>1, <1>2, FS_AddElement
<1>4. sem' = sem + 1 /\ sem < MaxConcurrent /\ sem \in Nat
  BY DEF Enter, LifeInv, DrainTypeOK
<1> QED
  BY <1>2, <1>3, <1>4, DrainAssumption DEF SlotInv, SlotsAccounted, ActiveSet

LEMMA LeaveSlots ==
    ASSUME LifeInv, NEW r \in Requests, Leave(r) \/ Panic(r)
    PROVE  SlotInv' /\ sem' \in Nat
<1>1. r \in ActiveSet /\ ActiveSet' = ActiveSet \ {r}
  BY DEF LifeInv, DrainTypeOK, Leave, Panic, ActiveSet, Active, Idle
<1>2. /\ IsFiniteSet(ActiveSet) /\ sem = Cardinality(ActiveSet)
      /\ sem \in Nat /\ sem <= MaxConcurrent
  BY DEF LifeInv, SlotInv, SlotsAccounted, ActiveSet, DrainTypeOK
<1>3. /\ IsFiniteSet(ActiveSet')
      /\ Cardinality(ActiveSet') = Cardinality(ActiveSet) - 1
  BY <1>1, <1>2, FS_RemoveElement
<1>4. Cardinality(ActiveSet') \in Nat
  BY <1>3, FS_CardinalityType
<1>5. sem' = sem - 1
  BY DEF Leave, Panic
<1> QED
  BY <1>2, <1>3, <1>4, <1>5, DrainAssumption DEF SlotInv, SlotsAccounted, ActiveSet

(* The steps of a request inside the handler that keep its slot.           *)
Inside(r) ==
    Snapshot(r) \/ NotFound(r) \/ RequestChain(r) \/ Upstream(r) \/ ResponseChain(r)

LEMMA InsideStep ==
    ASSUME DrainTypeOK, NEW r \in Requests, Inside(r)
    PROVE  /\ UNCHANGED <<serving, draining, closed, sem>>
           /\ \E e \in [pc : PCs \ {"idle"}, rt : Versions, ttl : 0 .. RequestTimeout] :
                 /\ req' = [req EXCEPT ![r] = e]
                 /\ e.ttl = req[r].ttl
                 /\ e.rt \in {req[r].rt, serving}
                 /\ e.pc \in {"routed", "proxying", "responding"} =>
                       \/ e.rt = serving
                       \/ /\ req[r].pc \in {"routed", "proxying", "responding"}
                          /\ e.rt = req[r].rt
           /\ req[r].pc # "idle"
<1> USE DEF DrainTypeOK, PCs
<1> DEFINE E == [pc : PCs \ {"idle"}, rt : Versions, ttl : 0 .. RequestTimeout]
<1>1. CASE Snapshot(r)
  <2> DEFINE e == [pc |-> "routed", rt |-> serving, ttl |-> req[r].ttl]
  <2>1. e \in E /\ req' = [req EXCEPT ![r] = e]
    BY <1>1 DEF Snapshot
  <2> QED
    BY <1>1, <2>1 DEF Snapshot
<1>2. ASSUME NEW pc \in {"proxying", "responding", "done"},
             req[r].pc \in {"routed", "proxying", "responding"},
             Goto(r, pc), UNCHANGED sem
      PROVE  \E e \in E :
                 /\ req' = [req EXCEPT ![r] = e]
                 /\ e.ttl = req[r].ttl
                 /\ e.rt = req[r].rt
  <2> DEFINE e == [req[r] EXCEPT !.pc = pc]
  <2>1. e \in E /\ req' = [req EXCEPT ![r] = e]
    BY <1>2 DEF Goto
  <2> QED
    BY <2>1
<1>3. CASE NotFound(r) \/ RequestChain(r) \/ Upstream(r) \/ ResponseChain(r)
  <2>1. PICK pc \in {"proxying", "responding", "done"} :
           /\ req[r].pc \in {"routed", "proxying", "responding"}
           /\ Goto(r, pc) /\ UNCHANGED sem
    BY <1>3 DEF NotFound, RequestChain, Upstream, ResponseChain
  <2> QED
    BY <1>2, <2>1 DEF Goto
<1> QED
  BY <1>1, <1>3 DEF Inside

-----------------------------------------------------------------------------
LEMMA LifeInductive ==
    ASSUME LifeInv, [DrainNext]_drainVars
    PROVE  LifeInv'
<1> USE DrainAssumption DEF LifeInv
<1>1. ASSUME NEW r \in Requests, Enter(r) PROVE LifeInv'
  <2>1. DrainTypeOK'
    BY <1>1 DEF Enter, Timeout, DrainTypeOK, PCs, Versions
  <2>2. OneLifeCycle'
    BY <1>1 DEF Enter, OneLifeCycle
  <2> QED
    BY <1>1, <2>1, <2>2, EnterSlots
<1>2. ASSUME NEW r \in Requests, Inside(r) PROVE LifeInv'
  <2>1. PICK e \in [pc : PCs \ {"idle"}, rt : Versions, ttl : 0 .. RequestTimeout] :
           req' = [req EXCEPT ![r] = e]
    BY <1>2, InsideStep
  <2>2. UNCHANGED <<serving, draining, closed, sem>> /\ req[r].pc # "idle"
    BY <1>2, InsideStep
  <2>3. DrainTypeOK'
    BY <2>1, <2>2 DEF DrainTypeOK
  <2>4. ActiveSet' = ActiveSet
    BY <2>1, <2>2 DEF DrainTypeOK, ActiveSet, Active
  <2>5. OneLifeCycle'
    BY <2>2 DEF OneLifeCycle
  <2> QED
    BY <2>2, <2>3, <2>4, <2>5, SlotsKept
<1>3. ASSUME NEW r \in Requests, Leave(r) \/ Panic(r) PROVE LifeInv'
  <2>1. SlotInv' /\ sem' \in Nat
    BY <1>3, LeaveSlots
  <2>2. DrainTypeOK'
    <3>1. /\ req' = [req EXCEPT ![r] = Idle]
          /\ UNCHANGED <<serving, draining, closed>>
      BY <1>3 DEF Leave, Panic
    <3>2. Idle \in [pc : PCs, rt : Versions, ttl : 0 .. RequestTimeout]
      BY DEF Idle, PCs, Versions
    <3> QED
      BY <2>1, <3>1, <3>2 DEF DrainTypeOK
  <2>3. OneLifeCycle'
    BY <1>3 DEF Leave, Panic, OneLifeCycle
  <2> QED
    BY <2>1, <2>2, <2>3
<1>4. CASE Swap
  <2>1. DOMAIN draining' = DOMAIN draining \cup {serving} /\ serving' = serving + 1
    BY <1>4 DEF Swap
  <2>2. DrainTypeOK'
    BY <1>4 DEF Swap, DrainTypeOK, Versions
  <2>3. ActiveSet' = ActiveSet /\ UNCHANGED sem
    BY <1>4 DEF Swap, ActiveSet, Active
  <2>4. OneLifeCycle'
    <3>1. serving \in Nat
      BY DEF DrainTypeOK, Versions
    <3>2. 0 .. (serving + 1) - 1 = (0 .. serving - 1) \cup {serving}
      BY <3>1
    <3>3. serving \notin closed
      BY <3>1 DEF OneLifeCycle
    <3> QED
      BY <1>4, <2>1, <3>2, <3>3 DEF OneLifeCycle, Swap
  <2> QED
    BY <2>2, <2>3, <2>4, SlotsKept
<1>5. ASSUME NEW v \in Versions, Close(v) PROVE LifeInv'
  <2>1. DOMAIN draining' = DOMAIN draining \ {v}
    BY <1>5 DEF Close
  <2>2. DrainTypeOK'
    BY <1>5 DEF Close, DrainTypeOK
  <2>3. ActiveSet' = ActiveSet /\ UNCHANGED sem
    BY <1>5 DEF Close, ActiveSet, Active
  <2>4. OneLifeCycle'
    BY <1>5, <2>1 DEF Close, OneLifeCycle
  <2> QED
    BY <2>2, <2>3, <2>4, SlotsKept
<1>6. CASE Tick
  <2>1. \A r \in Requests :
           /\ req'[r].pc = req[r].pc
           /\ req'[r] \in [pc : PCs, rt : Versions, ttl : 0 .. RequestTimeout]
    BY <1>6 DEF Tick, DrainTypeOK
  <2>2. DrainTypeOK'
    <3>1. req' \in [Requests -> [pc : PCs, rt : Versions, ttl : 0 .. RequestTimeout]]
      BY <1>6, <2>1 DEF Tick
    <3>2. /\ DOMAIN draining' \subseteq Versions
          /\ \A v \in DOMAIN draining' : draining'[v] \in 0 .. DrainWindow
      BY <1>6 DEF Tick, DrainTypeOK
    <3> QED
      BY <1>6, <3>1, <3>2 DEF Tick, DrainTypeOK
  <2>3. ActiveSet' = ActiveSet
    BY <2>1 DEF ActiveSet, Active
  <2>4. OneLifeCycle'
    BY <1>6 DEF Tick, OneLifeCycle
  <2> QED
    BY <1>6, <2>2, <2>3, <2>4, SlotsKept DEF Tick
<1>7. CASE UNCHANGED drainVars
  BY <1>7 DEF drainVars, DrainTypeOK, SlotInv, SlotsAccounted, ActiveSet, Active, OneLifeCycle
<1> QED
  BY <1>1, <1>2, <1>3, <1>4, <1>5, <1>6, <1>7 DEF DrainNext, Step, Inside

(* Types, slots and life cycle together.                                   *)
THEOREM LifeInvariance == DrainSpec => []LifeInv
<1>1. LifeInv /\ [DrainNext]_drainVars => LifeInv'
  BY LifeInductive
<1> QED
  BY InitLife, <1>1, PTL DEF DrainSpec

(* Every version is current, draining or closed, and only one of them: no  *)
(* runtime leaks, and none is closed while it can be captured.             *)
THEOREM LifeCycle == DrainSpec => []OneLifeCycle
<1>1. LifeInv => OneLifeCycle
  BY DEF LifeInv
<1> QED
  BY <1>1, LifeInvariance, PTL

(* The load shedder admits at most MaxConcurrent requests, and its slots   *)
(* are exactly those of the requests inside the handler.                   *)
THEOREM LoadShedding == DrainSpec => []SlotsAccounted
<1>1. LifeInv => SlotsAccounted
  BY DEF LifeInv, SlotInv
<1> QED
  BY <1>1, LifeInvariance, PTL

(* Versions, timers and deadlines keep their types.                        *)
THEOREM DrainTypes == DrainSpec => []DrainTypeOK
<1>1. LifeInv => DrainTypeOK
  BY DEF LifeInv
<1> QED
  BY <1>1, LifeInvariance, PTL

-----------------------------------------------------------------------------
LEMMA DrainInductive ==
    ASSUME RequestTimeout <= DrainWindow, DrainInv, [DrainNext]_drainVars
    PROVE  Captured' /\ Slack' /\ DrainCoversDeadline'
<1> USE DrainAssumption DEF DrainInv, LifeInv, DrainTypeOK, Versions
<1>1. ASSUME NEW r \in Requests, Enter(r) PROVE Captured' /\ Slack' /\ DrainCoversDeadline'
  <2>1. /\ req'[r].pc = "entered" /\ req'[r].rt = 0
        /\ \A q \in Requests : q # r => req'[q] = req[q]
        /\ UNCHANGED <<serving, draining, closed>>
    BY <1>1 DEF Enter
  <2>2. Captured'
    BY <2>1 DEF Captured
  <2>3. \A q \in Requests, v \in Versions : Holds(q, v)' => q # r /\ Holds(q, v)
    BY <2>1 DEF Holds
  <2>4. Slack'
    BY <2>1, <2>3 DEF Slack
  <2>5. DrainCoversDeadline'
    BY <2>1, <2>3 DEF DrainCoversDeadline
  <2> QED
    BY <2>2, <2>4, <2>5
<1>2. ASSUME NEW r \in Requests, Inside(r) PROVE Captured' /\ Slack' /\ DrainCoversDeadline'
  <2>1. PICK e \in [pc : PCs \ {"idle"}, rt : Versions, ttl : 0 .. RequestTimeout] :
           /\ req' = [req EXCEPT ![r] = e]
           /\ e.ttl = req[r].ttl
           /\ e.rt \in {req[r].rt, serving}
           /\ e.pc \in {"routed", "proxying", "responding"} =>
                 \/ e.rt = serving
                 \/ /\ req[r].pc \in {"routed", "proxying", "responding"}
                    /\ e.rt = req[r].rt
    BY <1>2, InsideStep
  <2>2. UNCHANGED <<serving, draining, closed>>
    BY <1>2, InsideStep
  <2>3. req'[r] = e /\ \A q \in Requests : q # r => req'[q] = req[q]
    BY <2>1
  <2>4. Captured'
    BY <2>1, <2>2, <2>3 DEF Captured
  <2>5. \A q \in Requests, v \in Versions :
           Holds(q, v)' => v = serving \/ (Holds(q, v) /\ req'[q].ttl = req[q].ttl)
    BY <2>1, <2>3 DEF Holds
  <2>6. serving \notin closed /\ serving \notin DOMAIN draining
    BY DEF OneLifeCycle
  <2>7. Slack'
    BY <2>2, <2>5, <2>6 DEF Slack
  <2>8. DrainCoversDeadline'
    BY <2>2, <2>5, <2>6 DEF DrainCoversDeadline
  <2> QED
    BY <2>4, <2>7, <2>8
<1>3. ASSUME NEW r \in Requests, Leave(r) \/ Panic(r) PROVE Captured' /\ Slack' /\ DrainCoversDeadline'
  <2>1. /\ req'[r].pc = "idle" /\ req'[r].rt = 0
        /\ \A q \in Requests : q # r => req'[q] = req[q]
        /\ UNCHANGED <<serving, draining, closed>>
    BY <1>3 DEF Leave, Panic, Idle
  <2>2. Captured'
    BY <2>1 DEF Captured
  <2>3. \A q \in Requests, v \in Versions : Holds(q, v)' => q # r /\ Holds(q, v)
    BY <2>1 DEF Holds
  <2> QED
    BY <2>1, <2>2, <2>3 DEF Slack, DrainCoversDeadline
<1>4. CASE Swap
  <2>1. /\ DOMAIN draining' = DOMAIN draining \cup {serving}
        /\ draining'[serving] = DrainWindow
        /\ \A v \in DOMAIN draining : v # serving => draining'[v] = draining[v]
        /\ serving' = serving + 1 /\ UNCHANGED <<closed, req>>
    BY <1>4 DEF Swap
  <2>2. Captured'
    BY <2>1 DEF Captured
  <2>3. Slack'
    <3> SUFFICES ASSUME NEW r \in Requests, NEW v \in DOMAIN draining', Holds(r, v)
                 PROVE  draining'[v] >= req[r].ttl
      BY <2>1 DEF Slack, Holds
    <3>1. req[r].ttl \in 0 .. RequestTimeout
      OBVIOUS
    <3>2. CASE v = serving
      BY <2>1, <3>1, <3>2
    <3>3. CASE v # serving
      BY <2>1, <3>3 DEF Slack
    <3> QED
      BY <3>2, <3>3
  <2>4. DrainCoversDeadline'
    BY <2>1 DEF DrainCoversDeadline, Holds
  <2> QED
    BY <2>2, <2>3, <2>4
<1>5. ASSUME NEW v \in Versions, Close(v) PROVE Captured' /\ Slack' /\ DrainCoversDeadline'
  <2>1. /\ v \in DOMAIN draining /\ draining[v] = 0
        /\ closed' = closed \cup {v}
        /\ DOMAIN draining' = DOMAIN draining \ {v}
        /\ \A u \in DOMAIN draining' : draining'[u] = draining[u]
        /\ UNCHANGED <<serving, req>>
    BY <1>5 DEF Close
  <2>2. \A r \in Requests : Holds(r, v) => req[r].ttl = 0
    <3> SUFFICES ASSUME NEW r \in Requests, Holds(r, v) PROVE req[r].ttl = 0
      OBVIOUS
    <3>1. draining[v] >= req[r].ttl
      BY <2>1 DEF Slack
    <3> QED
      BY <2>1, <3>1
  <2>3. DrainCoversDeadline'
    BY <2>1, <2>2 DEF DrainCoversDeadline, Holds
  <2>4. Slack'
    BY <2>1 DEF Slack, Holds
  <2> QED
    BY <2>1, <2>3, <2>4 DEF Captured
<1>6. CASE Tick
  <2>1. /\ DOMAIN draining' = DOMAIN draining
        /\ \A v \in DOMAIN draining :
              draining'[v] = IF draining[v] > 0 THEN draining[v] - 1 ELSE 0
        /\ UNCHANGED <<serving, closed>>
    BY <1>6 DEF Tick
  <2>2. \A r \in Requests :
           /\ req'[r].pc = req[r].pc /\ req'[r].rt = req[r].rt
           /\ req'[r].ttl = IF req[r].ttl > 0 THEN req[r].ttl - 1 ELSE 0
    BY <1>6 DEF Tick
  <2>3. \A r \in Requests : \A v : Holds(r, v)' <=> Holds(r, v)
    BY <2>2 DEF Holds
  <2>4. Slack'
    <3> SUFFICES ASSUME NEW r \in Requests, NEW v \in DOMAIN draining, Holds(r, v)
                 PROVE  draining'[v] >= req'[r].ttl
      BY <2>1, <2>3 DEF Slack
    <3>1. draining[v] >= req[r].ttl
      BY DEF Slack
    <3> QED
      BY <2>1, <2>2, <3>1
  <2>5. DrainCoversDeadline'
    BY <2>1, <2>2, <2>3 DEF DrainCoversDeadline
  <2> QED
    BY <2>1, <2>2, <2>4, <2>5 DEF Captured
<1>7. CASE UNCHANGED drainVars
  BY <1>7 DEF drainVars, Captured, Slack, DrainCoversDeadline, Holds
<1> QED
  BY <1>1, <1>2, <1>3, <1>4, <1>5, <1>6, <1>7 DEF DrainNext, Step, Inside

(* When the drain window is no shorter than the request timeout, which is  *)
(* what config/loader.go:24 asks for and what the defaults give, a runtime *)
(* is never closed under a request whose deadline has not passed, however  *)
(* reloads and requests overlap.                                           *)
THEOREM DrainSafety ==
    ASSUME RequestTimeout <= DrainWindow
    PROVE  DrainSpec => []DrainCoversDeadline
<1>1. DrainInit => DrainInv
  <2>1. DrainInit => Captured /\ Slack /\ DrainCoversDeadline
    BY DEF DrainInit, Captured, Slack, DrainCoversDeadline, Idle
  <2> QED
    BY InitLife, <2>1 DEF DrainInv
<1>2. DrainInv /\ [DrainNext]_drainVars => DrainInv'
  BY LifeInductive, DrainInductive DEF DrainInv
<1>3. DrainInv => DrainCoversDeadline
  BY DEF DrainInv
<1> QED
  BY <1>1, <1>2, <1>3, PTL DEF DrainSpec

-----------------------------------------------------------------------------
(***************************************************************************)
(* Proofs about module ConfigReload, for any set of configs, any number of *)
(* edits and admin reloads, and any mixture of contents that load, build   *)
(* or do neither.                                                          *)
(*                                                                         *)
(* What is served, queued or registered was once in the hands of a loader  *)
(* or of the reloader, so the inductive invariant vets what these hold     *)
(* (Vetted), and says that a reloader about to build has applied its       *)
(* config to the registry (Diffed).                                        *)
(***************************************************************************)
(* A load in progress, and a reload in progress, hold a config that loads. *)
Vetted ==
    /\ \A l \in Loaders : loader[l].pc # "idle" => loader[l].cfg \in Loads
    /\ reloader.pc # "idle" => reloader.cfg \in Loads

(* Between the service diff and the swap the registry is ahead.            *)
Diffed == reloader.pc = "build" => registry = reloader.cfg

ConfigInv ==
    /\ TypeOK /\ Vetted /\ Diffed
    /\ ServedIsVetted /\ RegistryAheadOnFailure

-----------------------------------------------------------------------------
LEMMA InitConfig ==
    ASSUME Init
    PROVE  ConfigInv
<1> USE ReloadAssumption
<1>1. TypeOK
  <2>1. ch \in Seq(Configs) /\ Len(ch) <= 1
    BY DEF Init
  <2>2. /\ loader \in [Loaders -> [pc : {"idle", "store", "fanout"}, cfg : Configs]]
        /\ reloader \in [pc : {"idle", "diff", "build"}, cfg : Configs]
        /\ holder \in [ver : Nat, cfg : Configs]
    BY DEF Init
  <2>3. edits \in 0 .. MaxEdits /\ admin \in 0 .. MaxAdmin /\ versions \in Nat
    BY DEF Init
  <2> QED
    BY <2>1, <2>2, <2>3 DEF Init, TypeOK
<1>2. Vetted /\ Diffed
  BY DEF Init, Vetted, Diffed
<1>3. ServedIsVetted /\ RegistryAheadOnFailure
  BY DEF Init, ServedIsVetted, RegistryAheadOnFailure, Loads,
     Servable
<1> QED
  BY <1>1, <1>2, <1>3 DEF ConfigInv

(* What loadAndValidate leaves in a loader's hands.                        *)
LEMMA LoadVets ==
    ASSUME TypeOK, Vetted, NEW l \in Loaders, Load(l)
    PROVE  /\ loader' \in [Loaders -> [pc : {"idle", "store", "fanout"}, cfg : Configs]]
           /\ overlap' \in BOOLEAN
           /\ \A k \in Loaders : loader'[k].pc # "idle" => loader'[k].cfg \in Loads
<1> USE DEF TypeOK, Vetted
<1>1. CASE file \in Loads
  BY <1>1 DEF Load, BeginLoad
<1>2. CASE file \notin Loads
  BY <1>2 DEF Load
<1> QED
  BY <1>1, <1>2

LEMMA ConfigTypeInductive ==
    ASSUME TypeOK, Vetted, [Next]_vars
    PROVE  TypeOK'
<1> USE ReloadAssumption DEF TypeOK, fileVars, loaderVars,
            reloaderVars
<1>1. ASSUME NEW c \in Configs, NEW mode \in EditModes, Edit(c, mode)
      PROVE  TypeOK'
  BY <1>1 DEF Edit
<1>2. CASE WatchEvent
  BY <1>2 DEF WatchEvent
<1>3. ASSUME NEW l \in Loaders, TimerFires(l) PROVE TypeOK'
  BY <1>3, LoadVets DEF TimerFires
<1>4. ASSUME NEW l \in Loaders, ForceReload(l) PROVE TypeOK'
  BY <1>4, LoadVets DEF ForceReload
<1>5. ASSUME NEW l \in Loaders, Store(l) PROVE TypeOK'
  BY <1>5 DEF Store
<1>6. ASSUME NEW l \in Loaders, FanOut(l) PROVE TypeOK'
  <2>1. dropped' \in {"no", "full", "early"}
    BY <1>6 DEF FanOut
  <2>2. ch' = ch \/ ch' = <<loader[l].cfg>>
    BY <1>6 DEF FanOut
  <2>3. ch' \in Seq(Configs) /\ Len(ch') <= 1
    <3> DEFINE one == <<loader[l].cfg>>
    <3>1. loader[l].cfg \in Configs
      OBVIOUS
    <3>2. one \in Seq(Configs) /\ Len(one) <= 1
      BY <3>1
    <3> QED
      BY <2>2, <3>2
  <2> QED
    BY <1>6, <2>1, <2>3 DEF FanOut
<1>7. CASE Receive
  <2>1. Head(ch) \in Configs /\ ch' \in Seq(Configs) /\ Len(ch') <= 1
    BY <1>7 DEF Receive
  <2> QED
    BY <1>7, <2>1 DEF Receive
<1>8. CASE ServiceDiff
  BY <1>8 DEF ServiceDiff
<1>9. CASE BuildAndSwap
  BY <1>9 DEF BuildAndSwap
<1>10. CASE Start
  BY <1>10 DEF Start
<1>11. CASE UNCHANGED vars
  BY <1>11 DEF vars
<1> QED
  BY <1>1, <1>2, <1>3, <1>4, <1>5, <1>6, <1>7, <1>8, <1>9, <1>10, <1>11 DEF Next

LEMMA VettedInductive ==
    ASSUME ConfigInv, [Next]_vars
    PROVE  Vetted' /\ Diffed' /\ ServedIsVetted' /\ RegistryAheadOnFailure'
<1> DEFINE Goal == Vetted /\ Diffed /\ ServedIsVetted /\ RegistryAheadOnFailure
<1> SUFFICES Goal'
  OBVIOUS
<1> USE DEF ConfigInv, TypeOK, Vetted, Diffed, ServedIsVetted,
            RegistryAheadOnFailure,
            fileVars, loaderVars, reloaderVars
<1>1. ASSUME NEW c \in Configs, NEW mode \in EditModes, Edit(c, mode) PROVE Goal'
  BY <1>1 DEF Edit
<1>2. CASE WatchEvent
  BY <1>2 DEF WatchEvent
<1>3. ASSUME NEW l \in Loaders, TimerFires(l) PROVE Goal'
  BY <1>3, LoadVets DEF TimerFires
<1>4. ASSUME NEW l \in Loaders, ForceReload(l) PROVE Goal'
  BY <1>4, LoadVets DEF ForceReload
<1>5. ASSUME NEW l \in Loaders, Store(l) PROVE Goal'
  BY <1>5 DEF Store
<1>6. ASSUME NEW l \in Loaders, FanOut(l) PROVE Goal'
  <2>1. ch' = ch \/ ch' = <<loader[l].cfg>>
    BY <1>6 DEF FanOut
  <2>2. \A i \in 1 .. Len(ch') : ch'[i] \in Loads
    BY <1>6, <2>1 DEF FanOut
  <2> QED
    BY <1>6, <2>2 DEF FanOut
<1>7. CASE Receive
  <2>1. Head(ch) \in Loads /\ ch' = <<>>
    BY <1>7 DEF Receive
  <2> QED
    BY <1>7, <2>1 DEF Receive
<1>8. CASE ServiceDiff
  BY <1>8 DEF ServiceDiff
<1>9. CASE BuildAndSwap
  <2>1. CASE reloader.cfg \in Servable
    BY <1>9, <2>1 DEF BuildAndSwap
  <2>2. CASE reloader.cfg \notin Servable
    <3>1. registry \in Unbuildable
      BY <1>9, <2>2 DEF BuildAndSwap, Servable
    <3> QED
      BY <1>9, <2>2, <3>1 DEF BuildAndSwap
  <2> QED
    BY <2>1, <2>2
<1>10. CASE Start
  BY <1>10 DEF Start
<1>11. CASE UNCHANGED vars
  BY <1>11 DEF vars
<1> QED
  BY <1>1, <1>2, <1>3, <1>4, <1>5, <1>6, <1>7, <1>8, <1>9, <1>10, <1>11 DEF Next, ConfigInv

(* The inductive invariant.                                                *)
THEOREM ConfigInvariance == Spec => []ConfigInv
<1>1. Init => ConfigInv
  BY InitConfig
<1>2. ConfigInv /\ [Next]_vars => ConfigInv'
  BY ConfigTypeInductive, VettedInductive DEF ConfigInv
<1> QED
  BY <1>1, <1>2, PTL DEF Spec

(* The state keeps its types; the channel never holds more than its slot   *)
(* (loader.go:141-147).                                                    *)
THEOREM ConfigTypes == Spec => []TypeOK
<1>1. ConfigInv => TypeOK
  BY DEF ConfigInv
<1> QED
  BY <1>1, ConfigInvariance, PTL

(* Nothing that fails to load is ever current, queued or applied to the    *)
(* registry, and nothing that fails to build is ever served, however many  *)
(* loads overlap ("keeping current config", "keeping current runtime").    *)
THEOREM OnlyVettedServed == Spec => []ServedIsVetted
<1>1. ConfigInv => ServedIsVetted
  BY DEF ConfigInv
<1> QED
  BY <1>1, ConfigInvariance, PTL

(* A failed build is the only thing that lets the registry and the served  *)
(* runtime belong to different configs between reloads (applyReload).      *)
THEOREM DriftOnlyOnFailure == Spec => []RegistryAheadOnFailure
<1>1. ConfigInv => RegistryAheadOnFailure
  BY DEF ConfigInv
<1> QED
  BY <1>1, ConfigInvariance, PTL

-----------------------------------------------------------------------------
(* While overlap is off, at most one load is under way.                    *)
Alone ==
    ~overlap => \A k, l \in Loaders :
                   loader[k].pc # "idle" /\ loader[l].pc # "idle" => k = l

(* The latest config that was published, wherever it is by now: in the     *)
(* loader that has yet to send it, or, with all loads ended, in the        *)
(* channel, with the reloader, or applied.  dropped says that it was lost. *)
Tracked ==
    ~overlap =>
        /\ \A l \in Loaders : loader[l].pc = "fanout" => loader[l].cfg = current
        /\ (dropped = "no" /\ \A l \in Loaders : loader[l].pc = "idle") =>
              current = IF ch # <<>> THEN ch[1]
                        ELSE IF reloader.pc # "idle" THEN reloader.cfg
                        ELSE registry

LEMMA AloneInductive ==
    ASSUME TypeOK, Alone, [Next]_vars
    PROVE  Alone'
<1> USE DEF TypeOK, Alone, fileVars, loaderVars, reloaderVars
<1>1. ASSUME NEW l \in Loaders, Load(l) PROVE Alone'
  <2>1. CASE file \in Loads
    BY <1>1, <2>1 DEF Load, BeginLoad
  <2>2. CASE file \notin Loads
    BY <1>1, <2>2 DEF Load
  <2> QED
    BY <2>1, <2>2
<1>2. ASSUME NEW l \in Loaders, Store(l) \/ FanOut(l) PROVE Alone'
  <2>1. /\ loader[l].pc # "idle" /\ overlap' = overlap
        /\ \A k \in Loaders : k # l => loader'[k] = loader[k]
    BY <1>2 DEF Store, FanOut
  <2> QED
    BY <2>1
<1>3. ASSUME UNCHANGED loaderVars PROVE Alone'
  BY <1>3
<1> QED
  BY <1>1, <1>2, <1>3 DEF Next, vars, Edit, WatchEvent, TimerFires, ForceReload,
                          Start, Receive, ServiceDiff, BuildAndSwap

LEMMA TrackedInductive ==
    ASSUME ConfigInv, Alone, Tracked, [Next]_vars
    PROVE  Tracked'
<1> USE DEF ConfigInv, TypeOK, Diffed, Tracked, fileVars,
            loaderVars, reloaderVars
<1>1. ASSUME NEW c \in Configs, NEW mode \in EditModes, Edit(c, mode) PROVE Tracked'
  BY <1>1 DEF Edit
<1>2. CASE WatchEvent
  BY <1>2 DEF WatchEvent
<1>3. ASSUME NEW l \in Loaders, Load(l),
             UNCHANGED <<current, ch, dropped, reloader, registry>>
      PROVE  Tracked'
  <2>1. CASE file \in Loads
    <3>1. /\ loader'[l].pc = "store"
          /\ \A k \in Loaders : k # l => loader'[k] = loader[k]
      BY <1>3, <2>1 DEF Load, BeginLoad
    <3>2. ~overlap' => \A k \in Loaders : loader[k].pc = "idle"
      BY <1>3, <2>1 DEF Load, BeginLoad
    <3> QED
      BY <1>3, <3>1, <3>2
  <2>2. CASE file \notin Loads
    BY <1>3, <2>2 DEF Load
  <2> QED
    BY <2>1, <2>2
<1>4. ASSUME NEW l \in Loaders, Store(l) PROVE Tracked'
  <2>1. /\ loader[l].pc = "store" /\ overlap' = overlap /\ current' = loader[l].cfg
        /\ loader'[l] = [pc |-> "fanout", cfg |-> loader[l].cfg]
        /\ \A k \in Loaders : k # l => loader'[k] = loader[k]
    BY <1>4 DEF Store
  <2>2. ~overlap => \A k \in Loaders : k # l => loader[k].pc = "idle"
    BY <2>1 DEF Alone
  <2> QED
    BY <2>1, <2>2
<1>5. ASSUME NEW l \in Loaders, FanOut(l) PROVE Tracked'
  <2>1. /\ loader[l].pc = "fanout" /\ UNCHANGED <<overlap, current, reloader, registry>>
        /\ loader'[l].pc = "idle"
        /\ \A k \in Loaders : k # l => loader'[k] = loader[k]
        /\ dropped' = "no" => ch' = <<loader[l].cfg>>
    BY <1>5 DEF FanOut
  <2>2. ~overlap => \A k \in Loaders : k # l => loader[k].pc = "idle"
    BY <2>1 DEF Alone
  <2>3. dropped' = "no" => ch' # <<>> /\ ch'[1] = loader[l].cfg
    <3> DEFINE one == <<loader[l].cfg>>
    <3>1. one # <<>> /\ one[1] = loader[l].cfg
      OBVIOUS
    <3> QED
      BY <2>1, <3>1
  <2> QED
    BY <2>1, <2>2, <2>3
<1>6. CASE Start
  BY <1>6 DEF Start
<1>7. CASE Receive
  <2>1. ch # <<>> /\ ch' = <<>> /\ Head(ch) = ch[1]
    BY <1>7 DEF Receive
  <2> QED
    BY <1>7, <2>1 DEF Receive
<1>8. CASE ServiceDiff
  BY <1>8 DEF ServiceDiff
<1>9. CASE BuildAndSwap
  BY <1>9 DEF BuildAndSwap
<1>10. CASE UNCHANGED vars
  BY <1>10 DEF vars
<1>11. ASSUME NEW l \in Loaders, TimerFires(l) \/ ForceReload(l) PROVE Tracked'
  BY <1>3, <1>11 DEF TimerFires, ForceReload
<1> QED
  BY <1>1, <1>2, <1>4, <1>5, <1>6, <1>7, <1>8, <1>9, <1>10, <1>11 DEF Next

(* However many loads overlap and whenever the Reloader is started, a lost *)
(* send and an overlap of the latest load with another are the only ways   *)
(* to leave the registry behind the current config once nothing is on its  *)
(* way: no reload that ran alone is overtaken (watch, ForceReload, fanOut, *)
(* applyReload).                                                           *)
THEOREM NoOvertaking == Spec => []QuiescentAgreement
<1>1. Init => Alone /\ Tracked
  BY DEF Init, Alone, Tracked
<1>2. ConfigInv /\ Alone /\ Tracked /\ [Next]_vars => Alone' /\ Tracked'
  BY AloneInductive, TrackedInductive DEF ConfigInv
<1>3. Tracked => QuiescentAgreement
  BY DEF Tracked, QuiescentAgreement, Quiescent
<1> QED
  BY <1>1, <1>2, <1>3, ConfigInvariance, PTL DEF Spec

-----------------------------------------------------------------------------
(***************************************************************************)
(* Proofs about module ServiceRegistry, for any set of services, any       *)
(* thresholds and any number of reloads.  That a checker runs for exactly  *)
(* the configured services needs to know what the diff will still do       *)
(* (Planned), that no generation is 0, the mark of a service without a     *)
(* checker, and that only a service that is registered has one             *)
(* (NeverAhead).                                                           *)
(***************************************************************************)
(* No checker holds an object newer than the registered one.               *)
NeverAhead == \A s \in Services : checker[s] <= entry[s] /\ entry[s] <= gen

(* The diff goes by the config, and starts what it has just registered.    *)
Planned ==
    \A s \in Services :
        /\ todo[s] \in {"register", "start"} => config[s] # "absent"
        /\ todo[s] = "stop" => config[s] = "absent"
        /\ todo[s] = "start" => entry[s] = gen

RegistryInv == RegistryTypeOK /\ NeverAhead /\ Planned /\ CheckersMatchConfig

LEMMA InitRegistry ==
    ASSUME RegistryInit
    PROVE  RegistryInv
<1> USE RegistryAssumption
<1>1. 1 \in Generations /\ NewInstance \in InstanceRecord
  BY DEF Generations, NewInstance, InstanceRecord
<1>2. RegistryTypeOK
  BY <1>1 DEF RegistryInit, RegistryTypeOK
<1>3. CheckersMatchConfig
  BY DEF RegistryInit, CheckersMatchConfig, Configured
<1>4. NeverAhead /\ Planned
  BY DEF RegistryInit, NeverAhead, Planned
<1> QED
  BY <1>2, <1>3, <1>4 DEF RegistryInv

LEMMA GenerationFacts ==
    ASSUME RegistryTypeOK, NEW s \in Services
    PROVE  gen \in Nat \ {0} /\ entry[s] \in Nat /\ checker[s] \in Nat
  BY RegistryAssumption DEF RegistryTypeOK, Generations

(* RecordSuccess and RecordFailure keep an instance's counters below its   *)
(* thresholds.                                                             *)
LEMMA InstanceTypes ==
    ASSUME NEW i \in InstanceRecord
    PROVE  /\ AfterSuccess(i) \in InstanceRecord
           /\ AfterFailure(i) \in InstanceRecord
  BY RegistryAssumption DEF InstanceRecord, Bump,
         AfterSuccess, AfterFailure

(* applyServiceDiff: its beginning, and one step per call.                 *)
LEMMA RegistryReload ==
    ASSUME RegistryInv,
           NEW new \in [Services -> Strategies \cup {"absent"}], Reload(new)
    PROVE  RegistryInv'
<1>1. gen' \in Generations /\ gen' = gen + 1
  BY RegistryAssumption DEF RegistryInv, RegistryTypeOK, Reload, Generations
<1>2. todo' \in [Services -> {"register", "start", "stop", "none"}]
  BY DEF Reload
<1>3. RegistryTypeOK'
  BY <1>1, <1>2 DEF RegistryInv, RegistryTypeOK, Reload
<1>4. ASSUME NEW s \in Services
      PROVE  /\ checker'[s] = checker[s] /\ entry'[s] = entry[s]
             /\ checker[s] <= entry[s] /\ entry[s] <= gen
             /\ gen \in Nat /\ entry[s] \in Nat /\ checker[s] \in Nat
             /\ todo'[s] = IF config'[s] # "absent" THEN "register"
                           ELSE IF entry[s] # 0 THEN "stop"
                           ELSE "none"
  BY GenerationFacts DEF RegistryInv, NeverAhead, Reload
<1>5. NeverAhead'
  BY <1>1, <1>4 DEF NeverAhead
<1>6. Planned' /\ CheckersMatchConfig'
  BY <1>4 DEF Planned, CheckersMatchConfig, Configured
<1> QED
  BY <1>3, <1>5, <1>6 DEF RegistryInv

LEMMA RegistryDiff ==
    ASSUME RegistryInv, NEW s \in Services,
           Register(s) \/ StartChecker(s) \/ StopChecker(s)
    PROVE  RegistryInv'
<1> USE DEF RegistryInv, RegistryTypeOK
<1>1. /\ \A t \in Services : gen \in Nat \ {0} /\ entry[t] \in Nat /\ checker[t] \in Nat
      /\ 0 \notin Generations
  BY GenerationFacts DEF Generations
<1>2. CASE Register(s)
  <2>1. RegistryTypeOK'
    BY <1>2 DEF Register
  <2>2. /\ UNCHANGED <<config, gen, checker>>
        /\ todo[s] = "register" /\ todo'[s] = "start" /\ entry'[s] = gen
        /\ \A t \in Services : t # s => todo'[t] = todo[t] /\ entry'[t] = entry[t]
    BY <1>2 DEF Register
  <2>3. NeverAhead' /\ Planned'
    BY <1>1, <2>2 DEF NeverAhead, Planned
  <2>4. CheckersMatchConfig'
    BY <2>2 DEF CheckersMatchConfig, Configured
  <2> QED
    BY <2>1, <2>3, <2>4
<1>3. CASE StartChecker(s)
  <2>1. RegistryTypeOK'
    <3>1. BalancerAfter(s) \in Strategies \cup {"absent"}
      BY DEF BalancerAfter, Strategies
    <3> QED
      BY <1>3, <3>1 DEF StartChecker
  <2>2. /\ UNCHANGED <<config, gen, entry>>
        /\ todo[s] = "start" /\ todo'[s] = "none"
        /\ checker'[s] = IF checker[s] = 0 THEN gen ELSE checker[s]
        /\ \A t \in Services : t # s => todo'[t] = todo[t] /\ checker'[t] = checker[t]
    BY <1>3 DEF StartChecker
  <2>3. NeverAhead' /\ Planned'
    BY <1>1, <2>2 DEF NeverAhead, Planned
  <2>4. CheckersMatchConfig'
    BY <1>1, <2>2 DEF CheckersMatchConfig, Configured, Planned
  <2> QED
    BY <2>1, <2>3, <2>4
<1>4. CASE StopChecker(s)
  <2>1. RegistryTypeOK'
    BY <1>4 DEF StopChecker
  <2>2. /\ UNCHANGED <<config, gen, entry>>
        /\ todo[s] = "stop" /\ todo'[s] = "none" /\ checker'[s] = 0
        /\ \A t \in Services : t # s => todo'[t] = todo[t] /\ checker'[t] = checker[t]
    BY <1>4 DEF StopChecker
  <2>3. NeverAhead' /\ Planned'
    BY <1>1, <2>2 DEF NeverAhead, Planned
  <2>4. CheckersMatchConfig'
    BY <2>2 DEF CheckersMatchConfig, Configured, Planned
  <2> QED
    BY <2>1, <2>3, <2>4
<1> QED
  BY <1>2, <1>3, <1>4

(* Checks start and end; neither touches the set of checkers.              *)
LEMMA RegistryChecks ==
    ASSUME RegistryInv,
           \/ \E s \in Services : StartCheck(s)
           \/ \E c \in Checks : EndCheck(c)
    PROVE  RegistryInv'
<1>1. UNCHANGED <<config, gen, todo, entry, checker>>
  BY DEF StartCheck, EndCheck
<1>2. NeverAhead' /\ Planned' /\ CheckersMatchConfig'
  BY <1>1 DEF RegistryInv, NeverAhead, Planned, CheckersMatchConfig, Configured
<1>3. ASSUME NEW s \in Services, StartCheck(s) PROVE RegistryTypeOK'
  <2>1. [svc |-> s, gen |-> checker[s], ok |-> up[s]] \in Checks
    BY <1>3 DEF RegistryInv, RegistryTypeOK, StartCheck, Checks
  <2> QED
    BY <1>3, <2>1 DEF RegistryInv, RegistryTypeOK, StartCheck
<1>4. ASSUME NEW c \in Checks, EndCheck(c) PROVE RegistryTypeOK'
  <2>1. c.svc \in Services /\ c.gen \in Generations
    BY DEF Checks
  <2>2. object \in [Services -> [Generations -> InstanceRecord]]
    BY DEF RegistryInv, RegistryTypeOK
  <2>3. PICK i \in InstanceRecord :
           object' = [object EXCEPT ![c.svc][c.gen] = i]
    <3>1. object[c.svc][c.gen] \in InstanceRecord
      BY <2>1, <2>2
    <3> QED
      BY <1>4, <3>1, InstanceTypes DEF EndCheck
  <2>4. object' \in [Services -> [Generations -> InstanceRecord]]
    BY <2>1, <2>2, <2>3
  <2> QED
    BY <1>4, <2>4 DEF RegistryInv, RegistryTypeOK, EndCheck
<1> QED
  BY <1>2, <1>3, <1>4 DEF RegistryInv

LEMMA RegistryInductive ==
    ASSUME RegistryInv, [RegistryNext]_registryVars
    PROVE  RegistryInv'
<1>1. ASSUME NEW s \in Services, Flip(s) PROVE RegistryInv'
  BY <1>1 DEF RegistryInv, RegistryTypeOK, NeverAhead, Planned,
              CheckersMatchConfig, Configured, Flip
<1>2. CASE UNCHANGED registryVars
  BY <1>2 DEF RegistryInv, RegistryTypeOK, NeverAhead, Planned,
              CheckersMatchConfig, Configured, registryVars
<1> QED
  BY <1>1, <1>2, RegistryReload, RegistryDiff, RegistryChecks DEF RegistryNext

(* The registry's maps, the objects and the checks in flight keep their    *)
(* types; no check outlives the object it was started with.                *)
THEOREM RegistryTypes == RegistrySpec => []RegistryTypeOK
<1>1. RegistryInv => RegistryTypeOK
  BY DEF RegistryInv
<1> QED
  BY <1>1, InitRegistry, RegistryInductive, PTL DEF RegistrySpec

(* After any number of reloads, of any services, a checker runs for        *)
(* exactly the services that are configured, as soon as the diff is done   *)
(* with them: StopForService leaks none, and a service that was removed    *)
(* and comes back is checked again.                                        *)
THEOREM CheckersFollowConfig == RegistrySpec => []CheckersMatchConfig
<1>1. RegistryInv => CheckersMatchConfig
  BY DEF RegistryInv
<1> QED
  BY <1>1, InitRegistry, RegistryInductive, PTL DEF RegistrySpec

-----------------------------------------------------------------------------
(* The registered instance of s is not the one that its checker holds.     *)
Unchecked(s) == checker[s] # 0 /\ checker[s] # entry[s]

(* What StartForService's idempotence costs: once a reload has registered  *)
(* a new instance under a running checker, no step lets the checker hold   *)
(* the registered instance again, until a reload removes the service and   *)
(* stops its checker.                                                      *)
THEOREM UncheckedUntilRemoved ==
    RegistrySpec =>
        [][\A s \in Services :
             Unchecked(s) => Unchecked(s)' \/ config'[s] = "absent"]_registryVars
<1> DEFINE Kept == \A s \in Services :
                       Unchecked(s) => Unchecked(s)' \/ config'[s] = "absent"
<1>1. RegistryInit => RegistryInv
  BY InitRegistry
<1>2. RegistryInv /\ [RegistryNext]_registryVars => RegistryInv'
  BY RegistryInductive
<1>3. RegistryInv /\ [RegistryNext]_registryVars => [Kept]_registryVars
  <2>1. SUFFICES ASSUME RegistryInv, RegistryNext, NEW s \in Services, Unchecked(s)
                 PROVE  Unchecked(s)' \/ config'[s] = "absent"
    OBVIOUS
  <2>2. /\ gen \in Nat /\ entry[s] \in Nat /\ checker[s] \in Nat /\ checker[s] # 0
        /\ checker[s] < entry[s] /\ entry[s] <= gen
    BY <2>1, GenerationFacts DEF RegistryInv, NeverAhead, Unchecked
  <2>3. ASSUME NEW t \in Services, Register(t) PROVE Unchecked(s)'
    <3>1. checker' = checker /\ entry'[s] \in {entry[s], gen}
      BY <2>3 DEF Register, RegistryInv, RegistryTypeOK
    <3> QED
      BY <2>2, <3>1 DEF Unchecked
  <2>4. ASSUME NEW t \in Services, StartChecker(t) PROVE Unchecked(s)'
    <3>1. entry' = entry /\ checker'[s] = checker[s]
      BY <2>2, <2>4 DEF StartChecker, RegistryInv, RegistryTypeOK
    <3> QED
      BY <2>2, <3>1 DEF Unchecked
  <2>5. ASSUME NEW t \in Services, StopChecker(t)
        PROVE  Unchecked(s)' \/ config'[s] = "absent"
    <3>1. CASE t = s
      <4>1. todo[s] = "stop" /\ config' = config
        BY <2>5, <3>1 DEF StopChecker
      <4>2. Planned
        BY <2>1 DEF RegistryInv
      <4> QED
        BY <4>1, <4>2 DEF Planned
    <3>2. CASE t # s
      <4>1. entry' = entry /\ checker'[s] = checker[s]
        BY <2>5, <3>2 DEF StopChecker, RegistryInv, RegistryTypeOK
      <4> QED
        BY <2>2, <4>1 DEF Unchecked
    <3> QED
      BY <3>1, <3>2
  <2>6. ASSUME UNCHANGED <<checker, entry>> PROVE Unchecked(s)'
    BY <2>1, <2>6 DEF Unchecked
  <2>7. \/ \E t \in Services : Register(t) \/ StartChecker(t) \/ StopChecker(t)
        \/ UNCHANGED <<checker, entry>>
    BY <2>1 DEF RegistryNext, Reload, StartCheck, EndCheck, Flip
  <2> QED
    BY <2>3, <2>4, <2>5, <2>6, <2>7
<1> QED
  BY <1>1, <1>2, <1>3, PTL DEF RegistrySpec
=============================================================================
