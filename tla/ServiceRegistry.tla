--------------------------- MODULE ServiceRegistry ---------------------------
(***************************************************************************)
(* The service registry, its health checkers and load balancers, and the   *)
(* service diff that a hot reload applies to them (internal/registry,      *)
(* Reloader.applyServiceDiff).  Each service has one instance, at one      *)
(* address that no reload changes; what a reload does change is the        *)
(* Instance OBJECT that stands for it, told apart here by the generation   *)
(* of the reload that made it.                                             *)
(*                                                                         *)
(* The diff is applied service by service without a lock over the whole of *)
(* it: requests are routed and checks run between any two of its steps.    *)
(***************************************************************************)
EXTENDS Integers, FiniteSets

CONSTANTS
    Services,           \* names of services
    FailureThreshold,   \* HealthCheckCfg, after the defaults of runForService
    SuccessThreshold,
    MaxReloads          \* bound on the reloads

ASSUME RegistryAssumption ==
    /\ FailureThreshold \in Nat \ {0}
    /\ SuccessThreshold \in Nat \ {0}
    /\ MaxReloads \in Nat

Generations == 1 .. MaxReloads + 1

Strategies == {"round_robin", "random"}

VARIABLES
    config,     \* the latest config: service -> its lb strategy, or "absent"
    gen,        \* generation of the objects that config's services get
    todo,       \* service -> what the diff still has to do for it: "register",
                \* "start" (checker and balancer), "stop" (the checker) or "none"
    entry,      \* registry: service -> generation of its Instance, 0 if none
    object,     \* the Instance objects: service, generation -> [status, fails, oks]
    checker,    \* cancels: service -> generation its checker goroutine holds, 0 if none
    checks,     \* checkInstance goroutines: [svc, gen, ok], ok its outcome
    lb,         \* Reloader.lbs: service -> kind of its balancer
    up          \* whether the service's upstream answers

registryVars == <<config, gen, todo, entry, object, checker, checks, lb, up>>

(* The zero value of Instance.status is StatusHealthy.                     *)
NewInstance == [status |-> "healthy", fails |-> 0, oks |-> 0]

InstanceRecord ==
    [ status : {"healthy", "unhealthy"},
      fails  : 0 .. FailureThreshold,
      oks    : 0 .. SuccessThreshold ]

Configured == {s \in Services : config[s] # "absent"}

(* The services of the first config have been registered and StartAll has  *)
(* started their checkers.                                                 *)
RegistryInit ==
    /\ config \in [Services -> Strategies \cup {"absent"}]
    /\ gen = 1
    /\ todo = [s \in Services |-> "none"]
    /\ entry = [s \in Services |-> IF config[s] = "absent" THEN 0 ELSE 1]
    /\ object = [s \in Services |-> [g \in Generations |-> NewInstance]]
    /\ checker = entry
    /\ checks = {}
    /\ lb = config
    /\ up = [s \in Services |-> TRUE]

-----------------------------------------------------------------------------
(* Instance.RecordSuccess and Instance.RecordFailure; the counters         *)
(* saturate, the code only compares them with their thresholds.            *)

Bump(n, cap) == IF n < cap THEN n + 1 ELSE cap

(* An unhealthy instance never recovers.                                   *)
SuccessOnlyCounts(i) ==
    [status |-> i.status, fails |-> 0, oks |-> Bump(i.oks, SuccessThreshold)]

AfterSuccess(i) ==
    LET oks == Bump(i.oks, SuccessThreshold)
    IN IF i.status = "unhealthy" /\ oks >= SuccessThreshold
       THEN [status |-> "healthy", fails |-> 0, oks |-> 0]
       ELSE [status |-> i.status, fails |-> 0, oks |-> oks]

AfterFailure(i) ==
    LET fails == Bump(i.fails, FailureThreshold)
    IN IF i.status # "unhealthy" /\ fails >= FailureThreshold
       THEN [status |-> "unhealthy", fails |-> 0, oks |-> 0]
       ELSE [status |-> i.status, fails |-> fails, oks |-> 0]

-----------------------------------------------------------------------------
(* applyServiceDiff begins: the services of the new config are to be       *)
(* registered, those that are registered but no longer configured to be    *)
(* stopped.                                                                *)
Reload(new) ==
    /\ gen < MaxReloads + 1
    /\ \A s \in Services : todo[s] = "none"
    /\ gen' = gen + 1
    /\ config' = new
    /\ todo' = [s \in Services |-> IF new[s] # "absent" THEN "register"
                                 ELSE IF entry[s] # 0 THEN "stop"
                                 ELSE "none"]
    /\ UNCHANGED <<entry, object, checker, checks, lb, up>>

(* Registry.Register replaces the entry by one with new Instance objects.  *)
(* A service is started before the next one is registered.                 *)
Register(s) ==
    /\ todo[s] = "register"
    /\ \A t \in Services : todo[t] # "start"
    /\ entry' = [entry EXCEPT ![s] = gen]
    /\ todo' = [todo EXCEPT ![s] = "start"]
    /\ UNCHANGED <<config, gen, object, checker, checks, lb, up>>

(* The switch on LBStrategy: "random" always makes a new Random, any other *)
(* strategy a RoundRobin only where there is no balancer yet.              *)
BalancerAfter(s) ==
    IF config[s] = "random" THEN "random"
    ELSE IF lb[s] = "absent" THEN "round_robin"
    ELSE lb[s]

(* StartForService, idempotent by name, and the balancer.                  *)
StartChecker(s) ==
    /\ todo[s] = "start"
    /\ checker' = [checker EXCEPT ![s] = IF @ = 0 THEN gen ELSE @]
    /\ lb' = [lb EXCEPT ![s] = BalancerAfter(s)]
    /\ todo' = [todo EXCEPT ![s] = "none"]
    /\ UNCHANGED <<config, gen, entry, object, checks, up>>

(* A checker is cancelled but its entry in cancels is kept.                *)
StopKeepsEntry(s) ==
    /\ todo[s] = "stop"
    /\ \A t \in Services : todo[t] \in {"stop", "none"}
    /\ todo' = [todo EXCEPT ![s] = "none"]
    /\ UNCHANGED <<config, gen, entry, object, checker, checks, lb, up>>

(* StopForService, once all services of the config have been started; the  *)
(* removed service keeps its entry in the registry.                        *)
StopChecker(s) ==
    /\ todo[s] = "stop"
    /\ \A t \in Services : todo[t] \in {"stop", "none"}
    /\ checker' = [checker EXCEPT ![s] = 0]
    /\ todo' = [todo EXCEPT ![s] = "none"]
    /\ UNCHANGED <<config, gen, entry, object, checks, lb, up>>

-----------------------------------------------------------------------------
(* The checker's ticker: one checkInstance goroutine per instance it       *)
(* copied.  At most one of each outcome is in flight per object; the code  *)
(* has no such limit.                                                      *)
StartCheck(s) ==
    /\ checker[s] # 0
    /\ LET c == [svc |-> s, gen |-> checker[s], ok |-> up[s]]
       IN c \notin checks /\ checks' = checks \cup {c}
    /\ UNCHANGED <<config, gen, todo, entry, object, checker, lb, up>>

(* checkInstance records its outcome, on the object it was started with,   *)
(* in whatever order the answers and timeouts come.                        *)
EndCheck(c) ==
    /\ c \in checks
    /\ checks' = checks \ {c}
    /\ object' = [object EXCEPT ![c.svc][c.gen] =
                    IF c.ok THEN AfterSuccess(@) ELSE AfterFailure(@)]
    /\ UNCHANGED <<config, gen, todo, entry, checker, lb, up>>

(* The upstream goes down or comes back.                                   *)
Flip(s) ==
    /\ up' = [up EXCEPT ![s] = ~@]
    /\ UNCHANGED <<config, gen, todo, entry, object, checker, checks, lb>>

Checks == [svc : Services, gen : Generations, ok : BOOLEAN]

RegistryNext ==
    \/ \E new \in [Services -> Strategies \cup {"absent"}] : Reload(new)
    \/ \E s \in Services : Register(s) \/ StartChecker(s) \/ StopChecker(s)
    \/ \E s \in Services : StartCheck(s) \/ Flip(s)
    \/ \E c \in Checks : EndCheck(c)

(* A diff runs to its end, tickers fire, and checks end (they carry a      *)
(* timeout).                                                               *)
RegistryFairness ==
    /\ \A s \in Services :
        WF_registryVars(Register(s) \/ StartChecker(s) \/ StopChecker(s))
    /\ \A s \in Services : WF_registryVars(StartCheck(s))
    /\ \A c \in Checks : WF_registryVars(EndCheck(c))

RegistrySpec == RegistryInit /\ [][RegistryNext]_registryVars

FairRegistrySpec == RegistrySpec /\ RegistryFairness

-----------------------------------------------------------------------------
(* The instance that requests for a registered s are sent to.              *)
Registered(s) == object[s][entry[s]]

(* Registry, objects, checkers and balancers have their types.             *)
RegistryTypeOK ==
    /\ config \in [Services -> Strategies \cup {"absent"}]
    /\ gen \in Generations
    /\ todo \in [Services -> {"register", "start", "stop", "none"}]
    /\ entry \in [Services -> {0} \cup Generations]
    /\ object \in [Services -> [Generations -> InstanceRecord]]
    /\ checker \in [Services -> {0} \cup Generations]
    /\ checks \subseteq Checks
    /\ lb \in [Services -> Strategies \cup {"absent"}]
    /\ up \in [Services -> BOOLEAN]

(* After any sequence of reloads a checker runs for exactly the services   *)
(* that are configured, as soon as the diff is done with them: none leaks, *)
(* and a service that was removed and comes back is checked again          *)
(* (HealthChecker: "without leaking goroutines for removed services").     *)
CheckersMatchConfig ==
    \A s \in Services :
        todo[s] = "none" => (checker[s] # 0 <=> s \in Configured)

(* The registered instance is the one that the checker of s holds.         *)
Checked(s) == checker[s] # 0 /\ checker[s] = entry[s]

(* An instance whose checker holds it follows its upstream: for good down  *)
(* it becomes and stays unhealthy, for good up healthy, although checks    *)
(* overlap and their results come in any order.                            *)
HealthFollowsUpstream ==
    \A s \in Services :
        /\ <>[](~up[s] /\ Checked(s)) =>
              <>[](Checked(s) /\ Registered(s).status = "unhealthy")
        /\ <>[](up[s] /\ Checked(s)) =>
              <>[](Checked(s) /\ Registered(s).status = "healthy")

(* "Start health checker for this service (idempotent if already running)" *)
(* (reloader.go:143): once the diff is done with a configured service, its *)
(* registered instance is the one that is checked.  The code does not keep *)
(* this: a running checker goes on with the entry it was started with.     *)
RegisteredIsChecked ==
    \A s \in Configured : todo[s] = "none" => Checked(s)

(* "Update load balancer strategy if changed" (reloader.go:146): once the  *)
(* diff is done with a configured service, its balancer is of the strategy *)
(* it asks for.  The code does not keep this: a service that was random    *)
(* stays random.                                                           *)
BalancerFollowsConfig ==
    \A s \in Configured : todo[s] = "none" => lb[s] = config[s]
=============================================================================
